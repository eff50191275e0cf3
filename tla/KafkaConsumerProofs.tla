-------------------------- MODULE KafkaConsumerProofs --------------------------
(***************************************************************************)
(* BusInv is an invariant of BusSpec; with it, the action property and the *)
(* refinement of KafkaConsumerProps.                                       *)
(***************************************************************************)
EXTENDS KafkaConsumerProps, TLAPS

\* What every step of a group leaves alone.
OnlyGroup(g) ==
  /\ UNCHANGED topicVars
  /\ \A h \in Groups \ {g} :
       /\ offset'[h] = offset[h] /\ durable'[h] = durable[h] /\ origin'[h] = origin[h]
       /\ phase'[h] = phase[h] /\ attempt'[h] = attempt[h]
       /\ consumed'[h] = consumed[h] /\ dead'[h] = dead[h] /\ applied'[h] = applied[h]

GroupStep(g) == Housekeeping(g) \/ Handle(g) \/ HandleThrows(g)

LEMMA TopicOfGroup == ASSUME NEW g \in Groups PROVE TopicOf[g] \in Topics
  BY TopicAssumption

LEMMA CurrentType ==
  ASSUME TypeOK, NEW g \in Groups, offset[g] < Len(Topic(g))
  PROVE  Current(g) \in Events /\ offset[g] + 1 \in 1..Len(Topic(g)) /\ Topic(g) \in Seq(Events)
<1>1. Topic(g) \in Seq(Events) /\ offset[g] \in Nat
  BY TopicOfGroup DEF TypeOK, Topic
<1>2. Len(Topic(g)) \in Nat
  BY <1>1
<1> QED
  BY <1>1, <1>2 DEF Current

LEMMA FaultsType == ASSUME TypeOK PROVE faults \in Nat /\ (Fault => faults' \in 0..MaxFaults)
  BY FaultsAssumption DEF TypeOK, Fault

-----------------------------------------------------------------------------
(* Types *)

LEMMA RetryType ==
  ASSUME TypeOK, NEW g \in Groups, Retry(g)
  PROVE  phase' \in [Groups -> Phases] /\ attempt' \in [Groups -> 0..MaxRetries]
<1>1. attempt[g] \in 0..MaxRetries
  BY DEF TypeOK
<1>2. CASE attempt[g] < MaxRetries
  <2>1. phase' = [phase EXCEPT ![g] = "handle"] /\ attempt' = [attempt EXCEPT ![g] = @ + 1]
    BY <1>2 DEF Retry, To
  <2>2. attempt[g] + 1 \in 0..MaxRetries
    BY <1>1, <1>2, RetriesAssumption
  <2> QED
    BY <2>1, <2>2 DEF TypeOK, Phases
<1>3. CASE ~(attempt[g] < MaxRetries)
  BY <1>3 DEF Retry, To, TypeOK, Phases
<1> QED
  BY <1>2, <1>3

LEMMA GroupFrame ==
  ASSUME TypeOK, NEW g \in Groups, GroupStep(g)
  PROVE  OnlyGroup(g)
<1> USE DEF OnlyGroup, TypeOK, To, topicVars, cursor, ledger
<1>1. CASE Join(g)
  BY <1>1 DEF Join
<1>2. CASE Fetch(g)
  BY <1>2 DEF Fetch
<1>3. CASE Mark(g)
  BY <1>3 DEF Mark
<1>4. CASE Bury(g)
  BY <1>4 DEF Bury
<1>5. CASE CommitOffset(g)
  BY <1>5 DEF CommitOffset
<1>6. CASE AttemptFails(g)
  BY <1>6 DEF AttemptFails, Retry
<1>7. CASE Redeliver(g)
  BY <1>7 DEF Redeliver
<1>8. CASE Crash(g)
  BY <1>8 DEF Crash
<1>9. CASE Handle(g)
  BY <1>9 DEF Handle
<1>10. CASE HandleThrows(g)
  BY <1>10 DEF HandleThrows, Retry
<1> QED
  BY <1>1, <1>2, <1>3, <1>4, <1>5, <1>6, <1>7, <1>8, <1>9, <1>10 DEF GroupStep, Housekeeping

\* A step of a group: the types of what it changes.
LEMMA GroupType ==
  ASSUME TypeOK, NEW g \in Groups, GroupStep(g)
  PROVE  TypeOK'
<1>0. /\ UNCHANGED topicVars
      /\ \A h \in Groups \ {g} : offset'[h] = offset[h] /\ phase'[h] = phase[h]
  BY GroupFrame DEF OnlyGroup
<1>a. \A h \in Groups : Topic(h)' = Topic(h) /\ Len(Topic(h)) \in Nat
  BY <1>0, TopicOfGroup DEF Topic, topicVars, TypeOK
<1>b. SUFFICES
        /\ offset' \in [Groups -> Nat] /\ durable' \in [Groups -> BOOLEAN]
        /\ origin' \in [Groups -> Nat]
        /\ phase' \in [Groups -> Phases] /\ attempt' \in [Groups -> 0..MaxRetries]
        /\ consumed' \in [Groups -> SUBSET Events] /\ dead' \in [Groups -> SUBSET Events]
        /\ applied' \in [Groups -> [Events -> Nat]]
        /\ faults' \in 0..MaxFaults
        /\ offset'[g] <= Len(Topic(g))
        /\ phase'[g] \notin {"down", "idle"} => offset'[g] < Len(Topic(g))
  BY <1>0, <1>a DEF TypeOK, topicVars
<1> USE DEF TypeOK, To, cursor, ledger, Phases
<1>1. CASE Join(g)
  BY <1>1, <1>a DEF Join
<1>2. CASE Fetch(g)
  BY <1>2, <1>a, RetriesAssumption DEF Fetch
<1>3. CASE Mark(g)
  BY <1>3, CurrentType DEF Mark
<1>4. CASE Bury(g)
  BY <1>4, CurrentType DEF Bury
<1>5. CASE CommitOffset(g)
  <2>1. offset[g] < Len(Topic(g)) /\ offset[g] \in Nat /\ Len(Topic(g)) \in Nat
    BY <1>5, <1>a DEF CommitOffset
  <2>2. offset' \in [Groups -> Nat] /\ offset'[g] <= Len(Topic(g))
    BY <1>5, <2>1 DEF CommitOffset
  <2> QED
    BY <1>5, <2>2 DEF CommitOffset
<1>6. CASE AttemptFails(g)
  BY <1>6, RetryType, FaultsType DEF AttemptFails, Retry
<1>7. CASE Redeliver(g)
  BY <1>7, FaultsType DEF Redeliver
<1>8. CASE Crash(g)
  BY <1>8, FaultsType DEF Crash
<1>9. CASE Handle(g)
  <2>1. Current(g) \in Events
    BY <1>9, CurrentType DEF Handle
  <2>2. applied' \in [Groups -> [Events -> Nat]]
    <3>1. PICK e \in Events : e = Current(g)
      BY <2>1
    <3>2. [applied[g] EXCEPT ![e] = @ + 1] \in [Events -> Nat]
      OBVIOUS
    <3>3. applied' = [applied EXCEPT ![g] = [applied[g] EXCEPT ![e] = @ + 1]]
      BY <1>9, <3>1 DEF Handle
    <3> QED
      BY <3>2, <3>3
  <2> QED
    BY <1>9, <2>2 DEF Handle
<1>10. CASE HandleThrows(g)
  BY <1>10, RetryType DEF HandleThrows, Retry
<1> QED
  BY <1>1, <1>2, <1>3, <1>4, <1>5, <1>6, <1>7, <1>8, <1>9, <1>10 DEF GroupStep, Housekeeping

LEMMA PublishFrame ==
  ASSUME TypeOK, NEW t \in Topics, NEW e \in Events, Publish(t, e)
  PROVE  /\ log' \in [Topics -> Seq(Events)]
         /\ \A u \in Topics \ {t} : log'[u] = log[u]
         /\ log'[t] = Append(log[t], e)
         /\ Len(log'[t]) = Len(log[t]) + 1
         /\ log'[t][Len(log[t]) + 1] = e
         /\ \A u \in Topics : /\ Len(log[u]) \in Nat /\ Len(log[u]) <= Len(log'[u])
                              /\ \A i \in 1..Len(log[u]) : log'[u][i] = log[u][i]
<1>1. log[t] \in Seq(Events) /\ log' = [log EXCEPT ![t] = Append(log[t], e)]
  BY DEF TypeOK, Publish
<1>2. Append(log[t], e) \in Seq(Events)
  BY <1>1
<1> QED
  BY <1>1, <1>2 DEF TypeOK

LEMMA TypeStep == TypeOK /\ [BusNext]_kvars => TypeOK'
<1> SUFFICES ASSUME TypeOK, [BusNext]_kvars PROVE TypeOK'
  OBVIOUS
<1>1. ASSUME NEW t \in Topics, NEW e \in Events, Publish(t, e) PROVE TypeOK'
  <2>1. \A g \in Groups : Topic(g) \in Seq(Events) /\ Len(Topic(g)) <= Len(Topic(g)')
    BY <1>1, PublishFrame, TopicOfGroup DEF Topic, TypeOK
  <2>2. \A g \in Groups : Len(Topic(g)) \in Nat /\ Len(Topic(g)') \in Nat
    BY <1>1, PublishFrame, TopicOfGroup DEF Topic, TypeOK
  <2> QED
    BY <1>1, <2>1, <2>2, PublishFrame DEF Publish, TypeOK, cursor, delivery, ledger
<1>2. ASSUME NEW e \in Events, LosePublish(e) PROVE TypeOK'
  BY <1>2, FaultsType DEF LosePublish, TypeOK, cursor, delivery, ledger, Topic
<1>3. ASSUME NEW g \in Groups, GroupStep(g) PROVE TypeOK'
  BY <1>3, GroupType
<1>4. CASE UNCHANGED kvars
  BY <1>4 DEF kvars, TypeOK, Topic
<1> QED
  BY <1>1, <1>2, <1>3, <1>4 DEF BusNext, GroupStep

-----------------------------------------------------------------------------
(* The invariant *)

LEMMA InitBus == BusInit => BusInv
<1> SUFFICES ASSUME BusInit PROVE BusInv
  OBVIOUS
<1>1. \A t \in Topics : log[t] = <<>> /\ Len(log[t]) = 0
  BY DEF BusInit
<1>2. \A g \in Groups : Len(Topic(g)) = 0
  BY <1>1, TopicOfGroup DEF Topic
<1>3. TypeOK
  BY <1>1, <1>2, FaultsAssumption, RetriesAssumption DEF BusInit, TypeOK, Phases
<1>4. /\ PlaceKnows /\ MarkedWasApplied /\ NothingSkipped /\ AheadUntouched /\ HandlePaid
      /\ ReplaysCostFaults
  BY <1>2 DEF BusInit, PlaceKnows, MarkedWasApplied, NothingSkipped, AheadUntouched, HandlePaid,
              ReplaysCostFaults
<1>5. PublishedOnce
  BY <1>1 DEF PublishedOnce
<1> QED
  BY <1>3, <1>4, <1>5 DEF BusInv

\* Publishing changes nothing behind a group, and the event a waiting group gets is a new one.
LEMMA PublishBus ==
  ASSUME BusInv, TypeOK', NEW t \in Topics, NEW e \in Events, Publish(t, e)
  PROVE  BusInv'
<1>1. /\ UNCHANGED <<offset, durable, origin, phase, attempt, consumed, dead, applied, faults>>
      /\ TypeOK /\ e \notin Sent
  BY DEF Publish, cursor, delivery, ledger, BusInv
<1>2. \A g \in Groups :
        /\ Len(Topic(g)) \in Nat /\ Len(Topic(g)') \in Nat /\ Len(Topic(g)) <= Len(Topic(g)')
        /\ \A i \in 1..Len(Topic(g)) : Topic(g)'[i] = Topic(g)[i]
        /\ offset[g] \in Nat
  BY <1>1, PublishFrame, TopicOfGroup DEF Topic, TypeOK
<1>3. \A g \in Groups : offset[g] < Len(Topic(g)) => Current(g)' = Current(g)
  BY <1>1, <1>2 DEF Current
<1>4. \A u \in Topics : \A i \in 1..Len(log[u]) : log[u][i] # e
  BY <1>1 DEF Sent
<1>5. \A g \in Groups : applied[g][e] = 0
  <2>1. \A g \in Groups : \A i \in 1..Len(Topic(g)) : Topic(g)[i] # e
    BY <1>4, TopicOfGroup DEF Topic
  <2> QED
    <3>1. SUFFICES ASSUME NEW g \in Groups, applied[g][e] # 0 PROVE FALSE
      OBVIOUS
    <3>2. applied[g][e] > 0
      BY <1>1, <3>1 DEF TypeOK
    <3> QED
      BY <2>1, <3>2 DEF BusInv, AheadUntouched
<1>6. \A g \in Groups :
        offset[g] < Len(Topic(g)') /\ ~(offset[g] < Len(Topic(g))) => Current(g)' = e
  <2>1. SUFFICES ASSUME NEW g \in Groups, offset[g] < Len(Topic(g)'), ~(offset[g] < Len(Topic(g)))
                 PROVE  Current(g)' = e
    OBVIOUS
  <2>2. offset[g] = Len(Topic(g))
    BY <1>1, <1>2, <2>1 DEF TypeOK
  <2>3. TopicOf[g] = t
    BY <1>2, <2>1, <2>2, PublishFrame, TopicOfGroup, <1>1 DEF Topic
  <2>4. Topic(g)'[offset[g] + 1] = e
    BY <1>1, <2>2, <2>3, PublishFrame DEF Topic
  <2> QED
    BY <1>1, <2>4 DEF Current
<1>7. PlaceKnows'
  BY <1>1, <1>2, <1>3 DEF BusInv, PlaceKnows, TypeOK
<1>8. MarkedWasApplied' /\ ReplaysCostFaults'
  BY <1>1 DEF BusInv, MarkedWasApplied, ReplaysCostFaults
<1>9. NothingSkipped'
  <2>1. SUFFICES ASSUME NEW g \in Groups, NEW i \in 1..offset[g], i > origin[g]
                 PROVE  Settled(g, Topic(g)'[i])
    BY <1>1 DEF NothingSkipped, Settled
  <2>2. i \in 1..Len(Topic(g))
    BY <1>1, <1>2 DEF TypeOK
  <2> QED
    BY <1>2, <2>1, <2>2 DEF BusInv, NothingSkipped
<1>10. PublishedOnce'
  <2>1. SUFFICES ASSUME NEW u \in Topics, NEW v \in Topics, NEW i \in 1..Len(log'[u]),
                        NEW j \in 1..Len(log'[v]), log'[u][i] = log'[v][j]
                 PROVE  u = v /\ i = j
    BY DEF PublishedOnce
  <2>2. /\ i \in 1..Len(log[u]) \/ (u = t /\ i = Len(log[t]) + 1)
        /\ j \in 1..Len(log[v]) \/ (v = t /\ j = Len(log[t]) + 1)
    BY <1>1, PublishFrame
  <2>3. CASE i \in 1..Len(log[u]) /\ j \in 1..Len(log[v])
    BY <1>1, <2>1, <2>3, PublishFrame DEF BusInv, PublishedOnce
  <2>4. CASE i \in 1..Len(log[u]) /\ v = t /\ j = Len(log[t]) + 1
    BY <1>1, <1>4, <2>1, <2>4, PublishFrame
  <2>5. CASE j \in 1..Len(log[v]) /\ u = t /\ i = Len(log[t]) + 1
    BY <1>1, <1>4, <2>1, <2>5, PublishFrame
  <2> QED
    BY <2>2, <2>3, <2>4, <2>5
<1>11. AheadUntouched'
  <2>1. SUFFICES ASSUME NEW g \in Groups, NEW x \in Events, applied[g][x] > 0
                 PROVE  \E i \in 1..Len(Topic(g)') : i <= offset[g] + 1 /\ Topic(g)'[i] = x
    BY <1>1 DEF AheadUntouched
  <2>2. PICK i \in 1..Len(Topic(g)) : i <= offset[g] + 1 /\ Topic(g)[i] = x
    BY <2>1 DEF BusInv, AheadUntouched
  <2>3. i \in 1..Len(Topic(g)') /\ Topic(g)'[i] = x
    BY <1>2, <2>2
  <2> QED
    BY <2>2, <2>3
<1>12. HandlePaid'
  <2>1. SUFFICES ASSUME NEW g \in Groups, offset[g] < Len(Topic(g)')
                 PROVE  /\ phase[g] \in {"down", "handle"} => applied[g][Current(g)'] <= faults
                        /\ phase[g] = "idle" /\ Current(g)' \notin consumed[g]
                             => applied[g][Current(g)'] <= faults
    BY <1>1 DEF HandlePaid
  <2>2. CASE offset[g] < Len(Topic(g))
    <3>1. Current(g)' = Current(g)
      BY <1>3, <2>2
    <3> QED
      BY <2>2, <3>1 DEF BusInv, HandlePaid
  <2>3. CASE ~(offset[g] < Len(Topic(g)))
    <3>1. applied[g][Current(g)'] = 0
      BY <1>5, <1>6, <2>1, <2>3
    <3> QED
      BY <3>1, FaultsType, <1>1
  <2> QED
    BY <2>2, <2>3
<1> QED
  BY <1>7, <1>8, <1>9, <1>10, <1>11, <1>12 DEF BusInv

\* What a step of a group does to the group itself, and the event it is about.
LEMMA GroupFacts ==
  ASSUME TypeOK, NEW g \in Groups, GroupStep(g)
  PROVE  /\ \A h \in Groups : Topic(h)' = Topic(h) /\ Len(Topic(h)) \in Nat /\ offset[h] \in Nat
         /\ \A h \in Groups \ {g} : Current(h)' = Current(h)
         /\ offset'[g] = offset[g] => Current(g)' = Current(g)
         /\ faults \in Nat /\ faults' \in {faults, faults + 1}
<1>1. OnlyGroup(g)
  BY GroupFrame
<1>2. \A h \in Groups : Topic(h)' = Topic(h) /\ Len(Topic(h)) \in Nat /\ offset[h] \in Nat
  BY <1>1, TopicOfGroup DEF OnlyGroup, Topic, topicVars, TypeOK
<1>3. faults \in Nat /\ faults' \in {faults, faults + 1}
  BY FaultsType DEF GroupStep, Housekeeping, Join, Fetch, Mark, Bury, CommitOffset, AttemptFails,
                    Redeliver, Crash, Handle, HandleThrows, Fault
<1> QED
  BY <1>1, <1>2, <1>3 DEF OnlyGroup, Current

LEMMA MarkedStep ==
  ASSUME BusInv, NEW g \in Groups, GroupStep(g) PROVE MarkedWasApplied'
<1>0. TypeOK /\ OnlyGroup(g)
  BY GroupFrame DEF BusInv
<1>1. SUFFICES ASSUME NEW e \in consumed'[g] PROVE applied'[g][e] > 0
  BY <1>0 DEF BusInv, MarkedWasApplied, OnlyGroup
<1>2. CASE Mark(g)
  <2>1. applied'[g] = applied[g] /\ consumed'[g] = consumed[g] \cup {Current(g)}
    BY <1>0, <1>2 DEF Mark, TypeOK
  <2> QED
    BY <1>1, <1>2, <2>1 DEF Mark, BusInv, MarkedWasApplied, PlaceKnows
<1>3. CASE Handle(g)
  <2>1. e \in consumed[g] /\ e \in Events /\ applied[g][e] > 0
    BY <1>0, <1>1, <1>3 DEF Handle, BusInv, MarkedWasApplied, TypeOK
  <2>2. PICK c \in Events : c = Current(g)
    BY <1>0, <1>3, CurrentType DEF Handle, TypeOK
  <2>3. applied'[g] = [applied[g] EXCEPT ![c] = @ + 1]
    BY <1>0, <1>3, <2>2 DEF Handle, TypeOK
  <2> QED
    BY <1>0, <2>1, <2>2, <2>3 DEF TypeOK
<1>4. CASE ~Mark(g) /\ ~Handle(g)
  <2>1. consumed'[g] = consumed[g] /\ applied'[g] = applied[g]
    BY <1>0, <1>4 DEF GroupStep, Housekeeping, Join, Fetch, Bury, CommitOffset, AttemptFails,
                      Retry, Redeliver, Crash, HandleThrows, ledger, TypeOK
  <2> QED
    BY <1>1, <2>1 DEF BusInv, MarkedWasApplied
<1> QED
  BY <1>2, <1>3, <1>4

\* The handler's step in terms of the event it is about.
LEMMA HandleFacts ==
  ASSUME TypeOK, NEW g \in Groups, Handle(g)
  PROVE  /\ Current(g) \in Events /\ offset[g] < Len(Topic(g))
         /\ applied'[g][Current(g)] = applied[g][Current(g)] + 1
         /\ applied[g][Current(g)] \in Nat
         /\ \A e \in Events : e # Current(g) => applied'[g][e] = applied[g][e]
         /\ \A e \in Events : applied[g][e] > 0 => applied'[g][e] > 0
         /\ \A h \in Groups \ {g} : applied'[h] = applied[h]
<1>1. offset[g] < Len(Topic(g))
  BY DEF Handle, TypeOK
<1>2. PICK c \in Events : c = Current(g)
  BY <1>1, CurrentType
<1>3. applied' = [applied EXCEPT ![g] = [applied[g] EXCEPT ![c] = @ + 1]]
  BY <1>2 DEF Handle
<1>4. applied[g] \in [Events -> Nat] /\ applied'[g] = [applied[g] EXCEPT ![c] = @ + 1]
  BY <1>3 DEF TypeOK
<1> QED
  BY <1>1, <1>2, <1>3, <1>4 DEF TypeOK

LEMMA SkippedStep ==
  ASSUME BusInv, NEW g \in Groups, GroupStep(g) PROVE NothingSkipped'
<1>0. TypeOK /\ OnlyGroup(g)
  BY GroupFrame DEF BusInv
<1>a. /\ \A h \in Groups : Topic(h)' = Topic(h)
      /\ Len(Topic(g)) \in Nat /\ offset[g] \in Nat /\ origin[g] \in Nat
  BY <1>0, GroupFacts DEF TypeOK
<1>1. SUFFICES ASSUME NEW i \in 1..offset'[g], i > origin'[g] PROVE Settled(g, Topic(g)[i])'
  BY <1>0, <1>a DEF BusInv, NothingSkipped, OnlyGroup, Settled
<1>b. ASSUME i \in 1..offset[g], i > origin[g] PROVE Settled(g, Topic(g)[i]) /\ Topic(g)[i] \in Events
  <2>1. i \in 1..Len(Topic(g))
    BY <1>0, <1>a, <1>b DEF TypeOK
  <2> QED
    BY <1>0, <1>b, <2>1, TopicOfGroup DEF BusInv, NothingSkipped, TypeOK, Topic
<1>2. CASE Join(g)
  <2>1. durable[g] => offset'[g] = offset[g] /\ origin'[g] = origin[g]
    BY <1>0, <1>2 DEF Join, TypeOK
  <2>2. ~durable[g] => offset'[g] = origin'[g]
    BY <1>0, <1>2 DEF Join, TypeOK
  <2>3. durable[g]
    BY <1>1, <1>a, <2>2, <1>0, <1>2 DEF Join, TypeOK
  <2> QED
    BY <1>1, <1>2, <1>a, <1>b, <2>1, <2>3 DEF Join, Settled, ledger
<1>3. CASE CommitOffset(g)
  <2>1. /\ offset'[g] = offset[g] + 1 /\ origin' = origin
        /\ applied' = applied /\ dead' = dead
    BY <1>0, <1>3 DEF CommitOffset, TypeOK, ledger
  <2>2. CASE i = offset[g] + 1
    <3>1. Topic(g)[i] = Current(g)
      BY <2>2 DEF Current
    <3>2. Settled(g, Current(g))
      BY <1>3 DEF CommitOffset, BusInv, PlaceKnows, MarkedWasApplied, Settled
    <3> QED
      BY <1>a, <2>1, <3>1, <3>2 DEF Settled
  <2>3. CASE i # offset[g] + 1
    <3>1. i \in 1..offset[g]
      BY <1>1, <1>a, <2>1, <2>3
    <3> QED
      BY <1>1, <1>a, <1>b, <2>1, <3>1 DEF Settled
  <2> QED
    BY <2>2, <2>3
<1>4. CASE Handle(g)
  <2>1. offset' = offset /\ origin' = origin /\ dead' = dead
    BY <1>4 DEF Handle, cursor
  <2> QED
    BY <1>0, <1>1, <1>4, <1>a, <1>b, <2>1, HandleFacts DEF Settled
<1>5. CASE ~Join(g) /\ ~CommitOffset(g) /\ ~Handle(g)
  <2>1. offset' = offset /\ origin' = origin /\ applied' = applied
    BY <1>5 DEF GroupStep, Housekeeping, Fetch, Mark, Bury, AttemptFails, Retry, Redeliver, Crash,
                HandleThrows, cursor, ledger
  <2>2. \A e \in dead[g] : e \in dead'[g]
    BY <1>0, <1>5 DEF GroupStep, Housekeeping, Fetch, Mark, Bury, AttemptFails, Retry, Redeliver,
                      Crash, HandleThrows, ledger, TypeOK
  <2> QED
    BY <1>1, <1>a, <1>b, <2>1, <2>2 DEF Settled
<1> QED
  BY <1>2, <1>3, <1>4, <1>5

LEMMA ReplayStep ==
  ASSUME BusInv, NEW g \in Groups, GroupStep(g) PROVE ReplaysCostFaults'
<1>0. TypeOK /\ TypeOK' /\ OnlyGroup(g) /\ faults \in Nat /\ faults' \in {faults, faults + 1}
  BY GroupFrame, GroupFacts, GroupType DEF BusInv
<1>1. CASE Handle(g)
  <2>1. applied[g][Current(g)] <= faults /\ faults' = faults
    BY <1>0, <1>1, HandleFacts DEF Handle, BusInv, HandlePaid
  <2>2. \A e \in Events : applied'[g][e] <= 1 + faults
    BY <1>0, <1>1, <2>1, HandleFacts DEF BusInv, ReplaysCostFaults
  <2> QED
    BY <1>0, <1>1, <2>1, <2>2, HandleFacts DEF BusInv, ReplaysCostFaults
<1>2. CASE ~Handle(g)
  <2>1. applied' = applied
    BY <1>2 DEF GroupStep, Housekeeping, Join, Fetch, Mark, Bury, CommitOffset, AttemptFails,
                Retry, Redeliver, Crash, HandleThrows, ledger
  <2>2. \A h \in Groups, e \in Events : applied[h][e] \in Nat /\ applied[h][e] <= 1 + faults
    BY <1>0 DEF BusInv, ReplaysCostFaults, TypeOK
  <2> QED
    BY <1>0, <2>1, <2>2 DEF ReplaysCostFaults
<1> QED
  BY <1>1, <1>2

LEMMA UntouchedStep ==
  ASSUME BusInv, NEW g \in Groups, GroupStep(g) PROVE AheadUntouched'
<1>0. TypeOK /\ OnlyGroup(g)
  BY GroupFrame DEF BusInv
<1>a. /\ \A h \in Groups : Topic(h)' = Topic(h)
      /\ Len(Topic(g)) \in Nat /\ offset[g] \in Nat
  BY <1>0, GroupFacts
<1>1. SUFFICES ASSUME NEW e \in Events, applied'[g][e] > 0
               PROVE  \E i \in 1..Len(Topic(g)) : i <= offset'[g] + 1 /\ Topic(g)[i] = e
  BY <1>0, <1>a DEF BusInv, AheadUntouched, OnlyGroup
<1>2. offset'[g] \in Nat /\ offset[g] <= offset'[g]
  <2>1. CASE Join(g)
    BY <1>0, <1>a, <2>1 DEF Join, TypeOK
  <2>2. CASE CommitOffset(g)
    BY <1>0, <1>a, <2>2 DEF CommitOffset, TypeOK
  <2>3. CASE ~Join(g) /\ ~CommitOffset(g)
    BY <1>a, <2>3 DEF GroupStep, Housekeeping, Fetch, Mark, Bury, AttemptFails, Retry, Redeliver,
                      Crash, Handle, HandleThrows, cursor
  <2> QED
    BY <2>1, <2>2, <2>3
<1>3. CASE applied[g][e] > 0
  <2>1. PICK i \in 1..Len(Topic(g)) : i <= offset[g] + 1 /\ Topic(g)[i] = e
    BY <1>3 DEF BusInv, AheadUntouched
  <2> QED
    BY <1>2, <1>a, <2>1
<1>4. CASE ~(applied[g][e] > 0)
  <2>1. Handle(g)
    BY <1>1, <1>4 DEF GroupStep, Housekeeping, Join, Fetch, Mark, Bury, CommitOffset, AttemptFails,
                Retry, Redeliver, Crash, HandleThrows, ledger
  <2>2. e = Current(g) /\ offset[g] < Len(Topic(g)) /\ offset' = offset
    BY <1>0, <1>1, <1>4, <2>1, HandleFacts DEF Handle, cursor
  <2>3. offset[g] + 1 \in 1..Len(Topic(g)) /\ Topic(g)[offset[g] + 1] = e
    BY <1>a, <2>2 DEF Current
  <2> QED
    BY <1>a, <2>2, <2>3
<1> QED
  BY <1>3, <1>4

LEMMA PaidStep ==
  ASSUME BusInv, NEW g \in Groups, GroupStep(g) PROVE HandlePaid'
<1>0. TypeOK /\ OnlyGroup(g) /\ faults \in Nat /\ faults' \in {faults, faults + 1}
  BY GroupFrame, GroupFacts DEF BusInv
<1>a. /\ \A h \in Groups : Topic(h)' = Topic(h) /\ Len(Topic(h)) \in Nat /\ offset[h] \in Nat
      /\ \A h \in Groups \ {g} : Current(h)' = Current(h)
      /\ offset'[g] = offset[g] => Current(g)' = Current(g)
  BY <1>0, GroupFacts
<1>b. \A h \in Groups : offset[h] < Len(Topic(h)) =>
        /\ Current(h) \in Events
        /\ applied[h][Current(h)] \in Nat /\ applied[h][Current(h)] <= 1 + faults
  BY <1>0, CurrentType DEF BusInv, ReplaysCostFaults, TypeOK
<1>c. \A h \in Groups \ {g} :
        offset'[h] < Len(Topic(h)') =>
          /\ phase'[h] \in {"down", "handle"} => applied'[h][Current(h)'] <= faults'
          /\ phase'[h] = "idle" /\ Current(h)' \notin consumed'[h]
               => applied'[h][Current(h)'] <= faults'
  <2> SUFFICES ASSUME NEW h \in Groups \ {g}, offset[h] < Len(Topic(h)),
                      \/ phase[h] \in {"down", "handle"}
                      \/ phase[h] = "idle" /\ Current(h) \notin consumed[h]
               PROVE  applied[h][Current(h)] <= faults'
    BY <1>0, <1>a DEF OnlyGroup
  <2>1. applied[h][Current(h)] <= faults /\ applied[h][Current(h)] \in Nat
    BY <1>b DEF BusInv, HandlePaid
  <2> QED
    BY <1>0, <2>1
<1>1. SUFFICES ASSUME offset'[g] < Len(Topic(g)),
                      \/ phase'[g] \in {"down", "handle"}
                      \/ phase'[g] = "idle" /\ Current(g)' \notin consumed'[g]
               PROVE  applied'[g][Current(g)'] <= faults'
  BY <1>a, <1>c DEF HandlePaid
<1>2. CASE Join(g)
  <2>1. durable[g] /\ offset'[g] = offset[g] /\ applied' = applied /\ phase[g] = "down"
        /\ faults' = faults
    BY <1>0, <1>1, <1>2, <1>a DEF Join, TypeOK, ledger
  <2> QED
    BY <1>1, <1>a, <2>1 DEF BusInv, HandlePaid
<1>3. CASE Fetch(g)
  <2>1. /\ offset' = offset /\ applied' = applied /\ faults' = faults
        /\ phase[g] = "idle" /\ offset[g] < Len(Topic(g)) /\ Current(g) \notin consumed[g]
    BY <1>0, <1>1, <1>3 DEF Fetch, To, cursor, ledger, TypeOK
  <2> QED
    BY <1>a, <2>1 DEF BusInv, HandlePaid
<1>4. CASE Mark(g) \/ Bury(g) \/ Handle(g)
  BY <1>0, <1>1, <1>4 DEF Mark, Bury, Handle, To, TypeOK
<1>5. CASE CommitOffset(g)
  <2>1. offset'[g] = offset[g] + 1 /\ applied' = applied /\ faults' = faults
    BY <1>0, <1>5 DEF CommitOffset, TypeOK, ledger
  <2>2. PICK c \in Events : c = Current(g)'
    <3>1. Topic(g) \in Seq(Events) /\ offset[g] + 2 \in 1..Len(Topic(g))
      BY <1>0, <1>1, <1>a, <2>1, TopicOfGroup DEF Topic, TypeOK
    <3> QED
      BY <1>a, <2>1, <3>1 DEF Current
  <2>3. c = Topic(g)[offset[g] + 2] /\ offset[g] + 2 \in 1..Len(Topic(g))
    BY <1>1, <1>a, <2>1, <2>2 DEF Current
  <2>4. ~(applied[g][c] > 0)
    <3> SUFFICES ASSUME applied[g][c] > 0 PROVE FALSE
      OBVIOUS
    <3>1. PICK i \in 1..Len(Topic(g)) : i <= offset[g] + 1 /\ Topic(g)[i] = c
      BY DEF BusInv, AheadUntouched
    <3>2. i = offset[g] + 2
      BY <2>3, <3>1, TopicOfGroup DEF BusInv, PublishedOnce, Topic
    <3> QED
      BY <1>a, <3>1, <3>2
  <2> QED
    BY <1>0, <2>1, <2>2, <2>4 DEF TypeOK
<1>6. CASE HandleThrows(g)
  <2>1. /\ offset' = offset /\ applied' = applied /\ faults' = faults /\ phase[g] = "handle"
        /\ offset[g] < Len(Topic(g))
    BY <1>0, <1>6 DEF HandleThrows, Retry, cursor, ledger, TypeOK
  <2> QED
    BY <1>a, <2>1 DEF BusInv, HandlePaid
<1>7. CASE AttemptFails(g) \/ Redeliver(g) \/ Crash(g)
  <2>1. offset' = offset /\ applied' = applied /\ faults' = faults + 1
    BY <1>7 DEF AttemptFails, Redeliver, Crash, Retry, Fault, cursor, ledger
  <2> QED
    BY <1>0, <1>1, <1>a, <1>b, <2>1
<1> QED
  BY <1>2, <1>3, <1>4, <1>5, <1>6, <1>7 DEF GroupStep, Housekeeping

LEMMA PlaceStep ==
  ASSUME BusInv, NEW g \in Groups, GroupStep(g) PROVE PlaceKnows'
<1>0. TypeOK /\ OnlyGroup(g)
  BY GroupFrame DEF BusInv
<1>a. /\ \A h \in Groups \ {g} : Current(h)' = Current(h)
      /\ offset'[g] = offset[g] => Current(g)' = Current(g)
  BY <1>0, GroupFacts
<1>1. SUFFICES
        /\ phase'[g] \in {"mark", "commit"} => applied'[g][Current(g)'] > 0
        /\ phase'[g] = "handle" /\ attempt'[g] = 0 => Current(g)' \notin consumed'[g]
        /\ phase'[g] = "skipCommit" => Current(g)' \in consumed'[g]
        /\ phase'[g] = "dlqCommit" => Current(g)' \in dead'[g]
  BY <1>0, <1>a DEF BusInv, PlaceKnows, OnlyGroup
<1>2. CASE Join(g) \/ CommitOffset(g) \/ Redeliver(g) \/ Crash(g)
  BY <1>0, <1>2 DEF Join, CommitOffset, Redeliver, Crash, To, TypeOK
<1>3. CASE Fetch(g)
  BY <1>0, <1>3, <1>a DEF Fetch, To, TypeOK, cursor, ledger
<1>4. CASE Mark(g)
  <2>1. offset' = offset /\ applied' = applied /\ phase'[g] = "commit" /\ phase[g] = "mark"
    BY <1>0, <1>4 DEF Mark, To, TypeOK, cursor
  <2> QED
    BY <1>a, <2>1 DEF BusInv, PlaceKnows
<1>5. CASE Bury(g)
  BY <1>0, <1>5, <1>a DEF Bury, To, TypeOK, cursor
<1>6. CASE Handle(g)
  <2>1. offset' = offset /\ phase'[g] = "mark"
    BY <1>0, <1>6 DEF Handle, To, TypeOK, cursor
  <2> QED
    BY <1>0, <1>6, <1>a, <2>1, HandleFacts
<1>7. CASE HandleThrows(g) \/ AttemptFails(g)
  <2>1. Retry(g)
    BY <1>7 DEF HandleThrows, AttemptFails
  <2>2. \/ phase'[g] = "handle" /\ attempt'[g] = attempt[g] + 1
        \/ phase'[g] = "dlq"
    BY <1>0, <2>1 DEF Retry, To, TypeOK
  <2>3. attempt[g] \in Nat
    BY <1>0, RetriesAssumption DEF TypeOK
  <2> QED
    BY <2>2, <2>3
<1> QED
  BY <1>2, <1>3, <1>4, <1>5, <1>6, <1>7 DEF GroupStep, Housekeeping

LEMMA BusStep == BusInv /\ [BusNext]_kvars => BusInv'
<1> SUFFICES ASSUME BusInv, [BusNext]_kvars PROVE BusInv'
  OBVIOUS
<1>0. TypeOK /\ TypeOK'
  BY TypeStep DEF BusInv
<1>1. ASSUME NEW t \in Topics, NEW e \in Events, Publish(t, e) PROVE BusInv'
  BY <1>0, <1>1, PublishBus
<1>2. ASSUME NEW e \in Events, LosePublish(e) PROVE BusInv'
  <2>1. /\ UNCHANGED <<log, offset, durable, origin, phase, attempt, consumed, dead, applied>>
        /\ faults' = faults + 1 /\ faults \in Nat
    BY <1>0, <1>2, FaultsType DEF LosePublish, Fault, cursor, delivery, ledger
  <2>2. \A g \in Groups : UNCHANGED <<Topic(g), Current(g)>>
    BY <2>1 DEF Topic, Current
  <2>3. \A g \in Groups, e1 \in Events : applied[g][e1] \in Nat
    BY <1>0 DEF TypeOK
  <2>4. PlaceKnows' /\ MarkedWasApplied' /\ NothingSkipped' /\ PublishedOnce' /\ AheadUntouched'
    BY <2>1, <2>2 DEF BusInv, PlaceKnows, MarkedWasApplied, NothingSkipped, Settled, PublishedOnce,
                      AheadUntouched
  <2>5. ReplaysCostFaults'
    BY <2>1, <2>3 DEF BusInv, ReplaysCostFaults
  <2>6. HandlePaid'
    BY <1>0, <2>1, <2>2, <2>3, CurrentType DEF BusInv, HandlePaid
  <2> QED
    BY <1>0, <2>4, <2>5, <2>6 DEF BusInv
<1>3. ASSUME NEW g \in Groups, GroupStep(g) PROVE BusInv'
  <2>1. PublishedOnce'
    BY <1>0, <1>3, GroupFrame DEF OnlyGroup, topicVars, BusInv, PublishedOnce
  <2> QED
    BY <1>0, <1>3, <2>1, MarkedStep, SkippedStep, ReplayStep, UntouchedStep, PaidStep, PlaceStep
       DEF BusInv
<1>4. CASE UNCHANGED kvars
  BY <1>4 DEF kvars, BusInv, TypeOK, PlaceKnows, MarkedWasApplied, NothingSkipped, Settled,
              PublishedOnce, AheadUntouched, HandlePaid, ReplaysCostFaults, Topic, Current
<1> QED
  BY <1>1, <1>2, <1>3, <1>4 DEF BusNext, GroupStep

\* BusInv is an invariant: types, and what the places, the offsets and consumed_events know of
\* one another.
THEOREM BusInvariance == BusSpec => []BusInv
<1>1. BusInit => BusInv
  BY InitBus
<1>2. BusInv /\ [BusNext]_kvars => BusInv'
  BY BusStep
<1> QED
  BY <1>1, <1>2, PTL DEF BusSpec

\* Types hold in every reachable state.
THEOREM BusTypes == BusSpec => []TypeOK
<1>1. BusInv => TypeOK
  BY DEF BusInv
<1> QED
  BY <1>1, BusInvariance, PTL

\* No failure, crash or redelivery makes a group pass over an event it has neither applied nor
\* buried.
THEOREM NeverSkips == BusSpec => []NothingSkipped
<1>1. BusInv => NothingSkipped
  BY DEF BusInv
<1> QED
  BY <1>1, BusInvariance, PTL

\* An event's handler commits at most once more than there were failures.
THEOREM ReplaysArePaid == BusSpec => []ReplaysCostFaults
<1>1. BusInv => ReplaysCostFaults
  BY DEF BusInv
<1> QED
  BY <1>1, BusInvariance, PTL

LEMMA OnlyHandleApplies ==
  ASSUME BusInv, [BusNext]_kvars, NEW g \in Groups, NEW e \in Events, applied'[g][e] # applied[g][e]
  PROVE  Handle(g) /\ e = Current(g)
<1>0. TypeOK
  BY DEF BusInv
<1>1. applied' # applied
  OBVIOUS
<1>2. PICK h \in Groups : Handle(h)
  BY <1>1 DEF BusNext, kvars, Publish, LosePublish, Housekeeping, Join, Fetch, Mark, Bury,
              CommitOffset, AttemptFails, Retry, Redeliver, Crash, HandleThrows, ledger
<1>3. h = g
  BY <1>0, <1>2, HandleFacts
<1> QED
  BY <1>0, <1>2, <1>3, HandleFacts

\* An event that consumed_events holds is applied again only by a retry of the delivery that
\* inserted it.
THEOREM Dedupes == BusSpec => DedupeHolds
<1>1. BusInv /\ [BusNext]_kvars =>
        [\A g \in Groups, e \in Events :
           e \in consumed[g] /\ applied'[g][e] # applied[g][e] => attempt[g] > 0]_kvars
  <2> SUFFICES ASSUME BusInv, [BusNext]_kvars, NEW g \in Groups, NEW e \in Events,
                      e \in consumed[g], applied'[g][e] # applied[g][e]
               PROVE  attempt[g] > 0
    OBVIOUS
  <2>1. phase[g] = "handle" /\ e = Current(g)
    BY OnlyHandleApplies DEF Handle
  <2>2. attempt[g] # 0 /\ attempt[g] \in Nat
    BY <2>1, RetriesAssumption DEF BusInv, PlaceKnows, TypeOK
  <2> QED
    BY <2>2
<1> QED
  BY <1>1, BusInvariance, PTL DEF BusSpec, DedupeHolds

-----------------------------------------------------------------------------
(* The refinement *)

LEMMA PromiseStep ==
  ASSUME BusInv, [BusNext]_kvars PROVE [Promise!Next]_(Promise!dvars)
<1> DEFINE Done == {e \in Events : applied[Reader][e] > 0}
<1>0. TypeOK /\ Reader \in Groups
  BY ReaderAssumption DEF BusInv
<1>1. ASSUME NEW t \in Topics, NEW e \in Events, Publish(t, e)
      PROVE  [Promise!Next]_(Promise!dvars)
  <2>1. UNCHANGED <<offset, durable, applied, dead>>
    BY <1>1 DEF Publish, cursor, ledger
  <2>2. Topic(Reader)' = Topic(Reader) \/ Topic(Reader)' = Append(Topic(Reader), e)
    BY <1>0, <1>1, PublishFrame, TopicOfGroup DEF Topic
  <2>3. CASE Topic(Reader)' = Topic(Reader)
    BY <2>1, <2>3 DEF Promise!dvars
  <2>4. CASE Topic(Reader)' = Append(Topic(Reader), e)
    BY <2>1, <2>4 DEF Promise!Next, Promise!Publish
  <2> QED
    BY <2>2, <2>3, <2>4
<1>2. ASSUME NEW e \in Events, LosePublish(e) PROVE UNCHANGED Promise!dvars
  BY <1>2 DEF LosePublish, cursor, ledger, Promise!dvars, Topic
<1>3. ASSUME NEW g \in Groups, GroupStep(g) PROVE [Promise!Next]_(Promise!dvars)
  <2>0. OnlyGroup(g) /\ Topic(Reader)' = Topic(Reader)
    BY <1>0, <1>3, GroupFrame, GroupFacts
  <2>1. CASE g # Reader
    BY <1>0, <2>0, <2>1 DEF OnlyGroup, Promise!dvars
  <2>2. CASE g = Reader /\ Join(g)
    <3>1. CASE durable[g]
      BY <1>0, <2>0, <2>2, <3>1 DEF Join, TypeOK, ledger, Promise!dvars
    <3>2. CASE ~durable[g]
      BY <1>0, <2>0, <2>2, <3>2 DEF Join, TypeOK, ledger, Promise!Next, Promise!Join
    <3> QED
      BY <3>1, <3>2
  <2>3. CASE g = Reader /\ Handle(g)
    <3>1. Done' = Done \cup {Current(g)}
      BY <1>0, <2>3, HandleFacts
    <3>2. /\ UNCHANGED <<offset, durable, dead>> /\ offset[g] < Len(Topic(g))
          /\ Current(g) = Topic(g)[offset[g] + 1]
      BY <1>0, <2>3, HandleFacts DEF Handle, cursor, Current
    <3> QED
      BY <2>0, <2>3, <3>1, <3>2 DEF Promise!Next, Promise!Apply, Promise!Current
  <2>4. CASE g = Reader /\ Bury(g)
    <3>1. /\ UNCHANGED <<offset, durable, applied>> /\ offset[g] < Len(Topic(g))
          /\ dead'[g] = dead[g] \cup {Topic(g)[offset[g] + 1]}
      BY <1>0, <2>4 DEF Bury, cursor, Current, TypeOK
    <3> QED
      BY <2>0, <2>4, <3>1 DEF Promise!Next, Promise!Bury, Promise!Current
  <2>5. CASE g = Reader /\ CommitOffset(g)
    <3>1. /\ UNCHANGED <<applied, dead>> /\ offset[g] < Len(Topic(g))
          /\ offset'[g] = offset[g] + 1 /\ durable'[g] = TRUE
      BY <1>0, <2>5 DEF CommitOffset, ledger, TypeOK
    <3>2. Current(g) \in Events /\ Settled(g, Current(g))
      BY <1>0, <2>5, <3>1, CurrentType
         DEF CommitOffset, BusInv, PlaceKnows, MarkedWasApplied, Settled
    <3>3. Topic(g)[offset[g] + 1] \in Done \cup dead[g]
      BY <2>5, <3>2 DEF Settled, Current
    <3> QED
      BY <2>0, <2>5, <3>1, <3>3 DEF Promise!Next, Promise!Advance, Promise!Current
  <2>6. CASE g = Reader /\ ~Join(g) /\ ~Handle(g) /\ ~Bury(g) /\ ~CommitOffset(g)
    <3>1. UNCHANGED <<offset, durable, applied, dead>>
      BY <1>3, <2>6 DEF GroupStep, Housekeeping, Fetch, Mark, AttemptFails, Retry, Redeliver, Crash,
                        HandleThrows, cursor, ledger
    <3> QED
      BY <2>0, <3>1 DEF Promise!dvars
  <2> QED
    BY <2>1, <2>2, <2>3, <2>4, <2>5, <2>6
<1>4. CASE UNCHANGED kvars
  BY <1>4 DEF kvars, Promise!dvars, Topic
<1> QED
  BY <1>1, <1>2, <1>3, <1>4 DEF BusNext, GroupStep

\* The consumer implements the promise made to each of its groups.
THEOREM KeepsPromise == BusSpec => DeliverySpec
<1>1. BusInit => Promise!Init
  BY ReaderAssumption, TopicOfGroup DEF BusInit, Promise!Init, Topic
<1>2. BusInv /\ [BusNext]_kvars => [Promise!Next]_(Promise!dvars)
  BY PromiseStep
<1> QED
  BY <1>1, <1>2, BusInvariance, PTL DEF BusSpec, DeliverySpec, Promise!Spec
=============================================================================
