-------------------------- MODULE KafkaConsumerProps --------------------------
(***************************************************************************)
(* The properties of KafkaConsumer.                                        *)
(***************************************************************************)
EXTENDS KafkaConsumer

CONSTANT Reader   \* the group whose promise is checked: any of them

ASSUME ReaderAssumption == Reader \in Groups

\* Every variable has its type, an offset is inside its topic, and a delivery in progress is
\* about an event of the topic.
TypeOK ==
  /\ log \in [Topics -> Seq(Events)]
  /\ lost \subseteq Events
  /\ offset \in [Groups -> Nat] /\ durable \in [Groups -> BOOLEAN] /\ origin \in [Groups -> Nat]
  /\ phase \in [Groups -> Phases] /\ attempt \in [Groups -> 0..MaxRetries]
  /\ consumed \in [Groups -> SUBSET Events] /\ dead \in [Groups -> SUBSET Events]
  /\ applied \in [Groups -> [Events -> Nat]]
  /\ faults \in 0..MaxFaults
  /\ \A g \in Groups : /\ offset[g] <= Len(Topic(g))
                       /\ phase[g] \notin {"down", "idle"} => offset[g] < Len(Topic(g))

Settled(g, e) == applied[g][e] > 0 \/ e \in dead[g]

\* A crash, a failed commit or a failed dead-letter send never makes the group pass over an
\* event: all that is behind it since it joined was applied or is in the dead-letter topic.
NothingSkipped ==
  \A g \in Groups : \A i \in 1..offset[g] : i > origin[g] => Settled(g, Topic(g)[i])

\* The handler's transaction is repeated only for a reason: each repetition of an event costs a
\* failure or a crash, between the handler's commit and the offset's.
ReplaysCostFaults ==
  \A g \in Groups, e \in Events : applied[g][e] <= 1 + faults

\* Once consumed_events holds an event, a later delivery of it never runs the handler again;
\* only the retries of the delivery that inserted it may.
DedupeHolds ==
  [][\A g \in Groups, e \in Events :
       e \in consumed[g] /\ applied'[g][e] # applied[g][e] => attempt[g] > 0]_kvars

\* An event published while a group has a committed offset is applied or buried, whatever
\* fails in between.
EventSettles ==
  \A g \in Groups, e \in Events :
    (\E i \in 1..Len(Topic(g)) : Topic(g)[i] = e /\ i > origin[g] /\ durable[g]) ~> Settled(g, e)

-----------------------------------------------------------------------------
(* Refinement *)

Promise == INSTANCE AtLeastOnce WITH
  log <- Topic(Reader), offset <- offset[Reader], durable <- durable[Reader],
  done <- {e \in Events : applied[Reader][e] > 0}, dead <- dead[Reader]

\* The consumer gives its group what AtLeastOnce promises: events in the order of the topic, none
\* passed over once an offset is committed.
DeliverySpec == Promise!Spec

-----------------------------------------------------------------------------
(* The inductive invariant *)

\* What a place of processMessage knows of the event it is at.
PlaceKnows ==
  \A g \in Groups :
    /\ phase[g] \in {"mark", "commit"} => applied[g][Current(g)] > 0
    /\ phase[g] = "handle" /\ attempt[g] = 0 => Current(g) \notin consumed[g]
    /\ phase[g] = "skipCommit" => Current(g) \in consumed[g]
    /\ phase[g] = "dlqCommit" => Current(g) \in dead[g]

\* consumed_events holds only events whose handler has committed.
MarkedWasApplied == \A g \in Groups : \A e \in consumed[g] : applied[g][e] > 0

\* An event is at one place of one topic.
PublishedOnce ==
  \A t, u \in Topics : \A i \in 1..Len(log[t]), j \in 1..Len(log[u]) :
    log[t][i] = log[u][j] => t = u /\ i = j

\* Nothing beyond the event a group is at has been applied, and before the handler of that event
\* runs every application of it has been paid for.
AheadUntouched ==
  \A g \in Groups : \A e \in Events :
    applied[g][e] > 0 => \E i \in 1..Len(Topic(g)) : i <= offset[g] + 1 /\ Topic(g)[i] = e

HandlePaid ==
  \A g \in Groups :
    offset[g] < Len(Topic(g)) =>
      /\ phase[g] \in {"down", "handle"} => applied[g][Current(g)] <= faults
      /\ phase[g] = "idle" /\ Current(g) \notin consumed[g] => applied[g][Current(g)] <= faults

BusInv == TypeOK /\ PlaceKnows /\ MarkedWasApplied /\ NothingSkipped
          /\ PublishedOnce /\ AheadUntouched /\ HandlePaid /\ ReplaysCostFaults
=============================================================================
