----------------------------- MODULE AtLeastOnce -----------------------------
(***************************************************************************)
(* What a consumer group is promised of a topic: events are applied in the *)
(* order of the topic, the position moves on only past an event that has   *)
(* been applied or buried in the dead-letter topic, and once a position    *)
(* has been committed nothing is ever passed over.  How often an event is  *)
(* applied before the position moves on is left open.                      *)
(***************************************************************************)
EXTENDS Naturals, Sequences

CONSTANT Events

VARIABLES
  log,      \* the topic
  offset,   \* how many of its events are behind the group
  durable,  \* an offset has been committed
  done,     \* events applied at least once
  dead      \* events in the dead-letter topic

dvars == <<log, offset, durable, done, dead>>

Init == /\ log = <<>>
        /\ offset = 0 /\ durable = FALSE
        /\ done = {} /\ dead = {}

Publish(e) == /\ log' = Append(log, e)
              /\ UNCHANGED <<offset, durable, done, dead>>

Current == log[offset + 1]

Apply == /\ offset < Len(log)
         /\ done' = done \cup {Current}
         /\ UNCHANGED <<log, offset, durable, dead>>

Bury == /\ offset < Len(log)
        /\ dead' = dead \cup {Current}
        /\ UNCHANGED <<log, offset, durable, done>>

Advance == /\ offset < Len(log)
           /\ Current \in done \cup dead
           /\ offset' = offset + 1
           /\ durable' = TRUE
           /\ UNCHANGED <<log, done, dead>>

\* A group that has never committed joins at the end of the topic.
Join == /\ ~durable
        /\ offset' = Len(log)
        /\ UNCHANGED <<log, durable, done, dead>>

Next == (\E e \in Events : Publish(e)) \/ Apply \/ Bury \/ Advance \/ Join

Spec == Init /\ [][Next]_dvars
=============================================================================
