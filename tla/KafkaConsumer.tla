---------------------------- MODULE KafkaConsumer ----------------------------
(***************************************************************************)
(* The event bus: EventPublisher, which sends a domain event after the     *)
(* COMMIT of the transaction it is about and forgets it when the broker    *)
(* does not take it, and BaseKafkaConsumer, which every consumer extends:  *)
(* look the event up in consumed_events, run the handler (a transaction of *)
(* its own), insert the event into consumed_events (another transaction),  *)
(* commit the offset; up to MaxRetries more attempts when any of the last  *)
(* three fails, then the dead-letter topic.                                *)
(*                                                                         *)
(* A consumer group reads one topic (the group id is derived from the      *)
(* topic) with autoCommit off and fromBeginning off: until its first       *)
(* commit it joins at the end of the topic.  A step of a group is one      *)
(* await of processMessage.  An event is its id; what a handler does       *)
(* belongs to the modules that extend this one, here its effect is only    *)
(* counted.                                                                *)
(*                                                                         *)
(* One partition per topic: the broker of docker-compose creates its       *)
(* topics with the default of one.                                         *)
(***************************************************************************)
EXTENDS Integers, Sequences

CONSTANTS
  Topics, Groups, Events,
  TopicOf,        \* the topic of each group
  UniqueEffect,   \* groups whose handler inserts under UNIQUE(event_id)
  MaxRetries,     \* retries of one delivery (3 in the code)
  MaxFaults       \* bound on injected failures

ASSUME TopicAssumption == TopicOf \in [Groups -> Topics]
ASSUME UniqueAssumption == UniqueEffect \subseteq Groups
ASSUME RetriesAssumption == MaxRetries \in Nat
ASSUME FaultsAssumption == MaxFaults \in Nat

VARIABLES
  log,       \* log[t]: what the broker holds of a topic
  lost,      \* events whose send failed
  offset,    \* offset[g]: events behind the group
  durable,   \* durable[g]: that offset is committed at the broker
  origin,    \* origin[g]: where the group last joined without a committed offset
  phase,     \* where processMessage is
  attempt,   \* retries of this delivery so far
  consumed,  \* the rows of the service's consumed_events
  dead,      \* the dead-letter topic
  applied,   \* applied[g][e]: how often the handler has committed
  faults     \* failures so far

topicVars == <<log, lost>>
cursor    == <<offset, durable, origin>>
delivery  == <<phase, attempt>>
ledger    == <<consumed, dead, applied>>
kvars     == <<log, lost, offset, durable, origin, phase, attempt, consumed, dead, applied, faults>>

Phases == {"down", "idle", "handle", "mark", "commit", "skipCommit", "dlq", "dlqCommit"}

Sent == UNION {{log[t][i] : i \in 1..Len(log[t])} : t \in Topics}

Topic(g)   == log[TopicOf[g]]
Current(g) == Topic(g)[offset[g] + 1]

BusInit ==
  /\ log = [t \in Topics |-> <<>>]
  /\ lost = {}
  /\ offset = [g \in Groups |-> 0]
  /\ durable = [g \in Groups |-> FALSE]
  /\ origin = [g \in Groups |-> 0]
  /\ phase = [g \in Groups |-> "down"]
  /\ attempt = [g \in Groups |-> 0]
  /\ consumed = [g \in Groups |-> {}]
  /\ dead = [g \in Groups |-> {}]
  /\ applied = [g \in Groups |-> [e \in Events |-> 0]]
  /\ faults = 0

Fault == faults < MaxFaults /\ faults' = faults + 1

-----------------------------------------------------------------------------
(* The publisher *)

Publish(t, e) ==
  /\ e \notin Sent \cup lost
  /\ log' = [log EXCEPT ![t] = Append(@, e)]
  /\ UNCHANGED <<lost, cursor, delivery, ledger, faults>>

\* The send fails: the failure is logged and the event is gone.
LosePublish(e) ==
  /\ e \notin Sent \cup lost
  /\ Fault
  /\ lost' = lost \cup {e}
  /\ UNCHANGED <<log, cursor, delivery, ledger>>

-----------------------------------------------------------------------------
(* A consumer group *)

To(g, p) == phase' = [phase EXCEPT ![g] = p]

\* Mutant: the committed offset is not asked for.
Join_AtEnd(g) ==
  /\ phase[g] = "down"
  /\ To(g, "idle")
  /\ offset' = [offset EXCEPT ![g] = Len(Topic(g))]
  /\ origin' = [origin EXCEPT ![g] = IF durable[g] THEN @ ELSE Len(Topic(g))]
  /\ UNCHANGED <<topicVars, durable, attempt, ledger, faults>>

\* onModuleInit: connect, subscribe, run.
Join(g) ==
  /\ phase[g] = "down"
  /\ To(g, "idle")
  /\ offset' = [offset EXCEPT ![g] = IF durable[g] THEN @ ELSE Len(Topic(g))]
  /\ origin' = [origin EXCEPT ![g] = IF durable[g] THEN @ ELSE Len(Topic(g))]
  /\ UNCHANGED <<topicVars, durable, attempt, ledger, faults>>

\* Mutant: the lookup in consumed_events is left out.
Fetch_NoDedupe(g) ==
  /\ phase[g] = "idle"
  /\ offset[g] < Len(Topic(g))
  /\ To(g, "handle")
  /\ attempt' = [attempt EXCEPT ![g] = 0]
  /\ UNCHANGED <<topicVars, cursor, ledger, faults>>

Fetch(g) ==
  /\ phase[g] = "idle"
  /\ offset[g] < Len(Topic(g))
  /\ To(g, IF Current(g) \in consumed[g] THEN "skipCommit" ELSE "handle")
  /\ attempt' = [attempt EXCEPT ![g] = 0]
  /\ UNCHANGED <<topicVars, cursor, ledger, faults>>

\* UNIQUE(event_id) refuses the row of an event that was recorded before.
Refused(g) == g \in UniqueEffect /\ applied[g][Current(g)] > 0

\* The handler commits.
Handle(g) ==
  /\ phase[g] = "handle"
  /\ ~Refused(g)
  /\ applied' = [applied EXCEPT ![g][Current(g)] = @ + 1]
  /\ To(g, "mark")
  /\ UNCHANGED <<topicVars, cursor, attempt, consumed, dead, faults>>

\* What the catch block does with a failure of the handler, the marker or the commit.
Retry(g) ==
  /\ IF attempt[g] < MaxRetries
       THEN To(g, "handle") /\ attempt' = [attempt EXCEPT ![g] = @ + 1]
       ELSE To(g, "dlq") /\ UNCHANGED attempt
  /\ UNCHANGED <<topicVars, cursor, ledger>>

\* Mutant: a duplicate insert into consumed_events is an error.
Mark_DuplicateThrows(g) ==
  /\ phase[g] = "mark"
  /\ IF Current(g) \in consumed[g]
       THEN Retry(g)
       ELSE /\ consumed' = [consumed EXCEPT ![g] = @ \cup {Current(g)}]
            /\ To(g, "commit")
            /\ UNCHANGED <<topicVars, cursor, attempt, dead, applied>>
  /\ UNCHANGED faults

\* A duplicate insert into consumed_events is swallowed.
Mark(g) ==
  /\ phase[g] = "mark"
  /\ consumed' = [consumed EXCEPT ![g] = @ \cup {Current(g)}]
  /\ To(g, "commit")
  /\ UNCHANGED <<topicVars, cursor, attempt, dead, applied, faults>>

\* A handler throws, as it must when its row is refused, and its transaction is rolled back.
HandleThrows(g) == phase[g] = "handle" /\ Retry(g) /\ UNCHANGED faults

AttemptFails(g) == phase[g] \in {"handle", "mark", "commit"} /\ Fault /\ Retry(g)

\* Mutant: the event is not sent to the dead-letter topic before it is given up.
Bury_Drop(g) ==
  /\ phase[g] = "dlq"
  /\ To(g, "dlqCommit")
  /\ UNCHANGED <<topicVars, cursor, attempt, ledger, faults>>

Bury(g) ==
  /\ phase[g] = "dlq"
  /\ dead' = [dead EXCEPT ![g] = @ \cup {Current(g)}]
  /\ To(g, "dlqCommit")
  /\ UNCHANGED <<topicVars, cursor, attempt, consumed, applied, faults>>

\* Mutant: a buried event is left uncommitted.
CommitOffset_NotBuried(g) ==
  /\ phase[g] \in {"commit", "skipCommit", "dlqCommit"}
  /\ offset' = [offset EXCEPT ![g] = IF phase[g] = "dlqCommit" THEN @ ELSE @ + 1]
  /\ durable' = [durable EXCEPT ![g] = TRUE]
  /\ To(g, "idle")
  /\ UNCHANGED <<topicVars, origin, attempt, ledger, faults>>

CommitOffset(g) ==
  /\ phase[g] \in {"commit", "skipCommit", "dlqCommit"}
  /\ offset' = [offset EXCEPT ![g] = @ + 1]
  /\ durable' = [durable EXCEPT ![g] = TRUE]
  /\ To(g, "idle")
  /\ UNCHANGED <<topicVars, origin, attempt, ledger, faults>>

\* The dead-letter send, or a commit outside the try block, fails: the error leaves eachMessage
\* and the client fetches the event again (as it does when the lookup fails).
Redeliver(g) ==
  /\ phase[g] \in {"dlq", "skipCommit", "dlqCommit"}
  /\ Fault
  /\ To(g, "idle")
  /\ UNCHANGED <<topicVars, cursor, attempt, ledger>>

\* The process dies; what it knows is what the broker and the database hold.
Crash(g) ==
  /\ phase[g] # "down"
  /\ Fault
  /\ To(g, "down")
  /\ UNCHANGED <<topicVars, cursor, attempt, ledger>>

-----------------------------------------------------------------------------

\* What a group does besides its handler's effect.
Housekeeping(g) ==
  \/ Join(g) \/ Fetch(g) \/ Mark(g) \/ Bury(g) \/ CommitOffset(g)
  \/ AttemptFails(g) \/ Redeliver(g) \/ Crash(g)

BusNext ==
  \/ \E e \in Events : LosePublish(e) \/ \E t \in Topics : Publish(t, e)
  \/ \E g \in Groups : Housekeeping(g) \/ Handle(g) \/ HandleThrows(g)

BusSpec == BusInit /\ [][BusNext]_kvars

(***************************************************************************)
(* A running consumer goes on and a dead one is restarted; failures stop,  *)
(* their number being bounded.                                             *)
(***************************************************************************)
Progress(g) == Join(g) \/ Fetch(g) \/ Handle(g) \/ HandleThrows(g) \/ Mark(g) \/ Bury(g)
               \/ CommitOffset(g)

FairBusSpec == BusSpec /\ \A g \in Groups : WF_kvars(Progress(g))
=============================================================================
