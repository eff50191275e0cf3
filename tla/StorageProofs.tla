---------------------------- MODULE StorageProofs ----------------------------
(***************************************************************************)
(* Proofs about Storage: it uses the event bus as KafkaConsumer describes  *)
(* it, so all that is proved of the bus holds of it; the row lock makes    *)
(* the check of create decisive; and the ceiling that is enforced was      *)
(* sold.                                                                   *)
(***************************************************************************)
EXTENDS StorageProps, KafkaConsumerProofs

allvars == <<kvars, svars>>

\* A step of Storage is a step of the bus, or leaves the bus alone.
LEMMA StorageStepsBus == [StorageNext]_allvars => [BusNext]_kvars
<1>0. Usage \in Groups /\ Ceiling \in Groups
  BY StorageAssumption
<1>1. ASSUME NEW r \in Requests, Request(r) PROVE [BusNext]_kvars
  <2>1. CASE PublishEvent(r)
    <3>1. (\E t \in Topics : Publish(t, r)) \/ LosePublish(r)
      BY <2>1, StorageAssumption DEF PublishEvent
    <3> QED
      BY <3>1 DEF BusNext, Requests
  <2>2. CASE ~PublishEvent(r)
    BY <1>1, <2>2 DEF Request, AssignDefaultPlan, ChangePlan, ChangePlanRefused, NotSynced,
       StartCreate, CreateCommit, CreateReject, RemoveRead, RemoveRefused, RemoveLock,
       RemoveCommit, CheckAbort, RequestCrash
  <2> QED
    BY <2>1, <2>2
<1>2. RefreshCeiling => BusNext
  BY <1>0 DEF RefreshCeiling, BusNext
<1>3. ReadUsage => UNCHANGED kvars
  BY DEF ReadUsage
<1>4. WriteUsage => BusNext
  BY <1>0 DEF WriteUsage, BusNext
<1>5. WriteUsageRefused => BusNext
  BY <1>0 DEF WriteUsageRefused, BusNext
<1>6. ASSUME NEW g \in Groups, Consume(g) PROVE BusNext
  BY <1>6 DEF Consume, BusNext
<1>7. UNCHANGED allvars => UNCHANGED kvars
  BY DEF allvars
<1> QED
  BY <1>1, <1>2, <1>3, <1>4, <1>5, <1>6, <1>7 DEF StorageNext

\* The consumers of Storage run on the bus of KafkaConsumer: what is proved of it there, that no
\* event is passed over and that replays are paid for, is true here.
THEOREM StorageUsesBus == StorageSpec => BusSpec
<1>1. StorageInit => BusInit
  BY DEF StorageInit
<1> QED
  BY <1>1, StorageStepsBus, PTL DEF StorageSpec, BusSpec, allvars

-----------------------------------------------------------------------------
(* Types *)

AskedOK ==
  /\ req \in [Requests -> [op : Ops \cup {"none"}, plan : Nat, from : Nat, size : Nat,
                           of : Requests \cup {None}]]
  /\ \A r \in Requests : req[r].op = "remove" => req[r].of \in Requests

\* An operation has the form of its request.
LEMMA AskType ==
  ASSUME StorageTypeOK, NEW r \in Requests, NEW o \in Ops, NEW p \in Nat, NEW f \in Nat,
         NEW n \in Nat, NEW x \in Requests \cup {None}, Ask(r, Form(o, p, f, n, x)),
         o = "remove" => x \in Requests
  PROVE  AskedOK'
<1>1. /\ Form(o, p, f, n, x) \in [op : Ops \cup {"none"}, plan : Nat, from : Nat, size : Nat,
                                   of : Requests \cup {None}]
      /\ Form(o, p, f, n, x).op = o /\ Form(o, p, f, n, x).of = x
  BY DEF Form
<1> QED
  BY <1>1 DEF Ask, StorageTypeOK, AskedOK

\* The lock is held by a request that is inside its transaction.
LockHeld == lock \in Requests \cup {None} /\ (lock # None => pc[lock] = "locked")
PlacesOK == pc \in [Requests -> {"idle", "found", "locked", "publish", "done"}]
SeenOK   == seen \in [Requests -> [used : Nat, ceiling : Nat]]

\* A request that goes on outside its transaction.
LEMMA GotoType ==
  ASSUME StorageTypeOK, NEW r \in Requests, NEW p \in {"found", "publish", "done"}, Goto(r, p),
         Unlock(r) \/ (pc[r] # "locked" /\ UNCHANGED lock)
  PROVE  PlacesOK' /\ LockHeld'
<1>1. PlacesOK'
  BY DEF Goto, StorageTypeOK, PlacesOK
<1>2. lock' \in Requests \cup {None} /\ lock' # r /\ (lock' # None => lock' = lock)
  BY StorageAssumption DEF Unlock, StorageTypeOK
<1>3. lock' # None => pc'[lock'] = "locked"
  BY <1>2 DEF Goto, StorageTypeOK
<1> QED
  BY <1>1, <1>2, <1>3 DEF LockHeld

LEMMA LockType ==
  ASSUME StorageTypeOK, NEW r \in Requests, LockForUpdate(r)
  PROVE  PlacesOK' /\ LockHeld' /\ SeenOK'
<1>1. PlacesOK'
  BY DEF LockForUpdate, Goto, StorageTypeOK, PlacesOK
<1>2. lock' = r /\ pc'[r] = "locked"
  BY DEF LockForUpdate, Goto, StorageTypeOK
<1>3. used \in Nat /\ ceiling \in Nat
  BY DEF StorageTypeOK
<1>4. SeenOK'
  BY <1>3 DEF LockForUpdate, StorageTypeOK, SeenOK
<1> QED
  BY <1>1, <1>2, <1>4 DEF LockHeld

LEMMA RequestType ==
  ASSUME StorageTypeOK, NEW r \in Requests, Request(r)
  PROVE  StorageTypeOK'
<1>0. /\ Plans \subseteq Nat /\ Default \in Plans /\ Sizes \subseteq Nat
      /\ plan \in Nat /\ ceiling \in Nat /\ used \in Nat /\ req[r].size \in Nat
      /\ \A x \in live : x \in Requests /\ req[x].size \in Nat
      /\ None \in Requests \cup {None} /\ req[r].of \in Requests \cup {None}
  BY StorageAssumption DEF StorageTypeOK
<1>1. CASE AssignDefaultPlan(r)
  <2>1. AskedOK'
    BY <1>0, <1>1, AskType DEF AssignDefaultPlan, Ops
  <2>2. PlacesOK' /\ LockHeld'
    BY <1>1, GotoType DEF AssignDefaultPlan, At
  <2>3. assigned' \in BOOLEAN /\ plan' \in Nat /\ display' \in 0..plan'
    BY <1>0, <1>1 DEF AssignDefaultPlan
  <2> QED
    BY <1>1, <2>1, <2>2, <2>3 DEF AssignDefaultPlan, StorageTypeOK, AskedOK, PlacesOK, LockHeld, cache, resources
<1>2. ASSUME NEW p \in Plans, ChangePlan(r, p) PROVE StorageTypeOK'
  <2>1. AskedOK'
    BY <1>0, <1>2, AskType DEF ChangePlan, Ops
  <2>2. PlacesOK' /\ LockHeld'
    BY <1>2, GotoType DEF ChangePlan, At
  <2>3. plan' \in Nat /\ display' \in 0..plan'
    BY <1>0, <1>2 DEF ChangePlan, StorageTypeOK
  <2> QED
    BY <1>2, <2>1, <2>2, <2>3 DEF ChangePlan, StorageTypeOK, AskedOK, PlacesOK, LockHeld, cache, resources
<1>3. CASE ChangePlanRefused(r) \/ NotSynced(r) \/ RemoveRefused(r)
  <2>1. PlacesOK' /\ LockHeld'
    BY <1>3, GotoType DEF ChangePlanRefused, NotSynced, RemoveRefused, At
  <2> QED
    BY <1>3, <2>1 DEF ChangePlanRefused, NotSynced, RemoveRefused, StorageTypeOK, PlacesOK, LockHeld,
                      subscription, cache, resources
<1>4. ASSUME NEW n \in Sizes, StartCreate(r, n) PROVE StorageTypeOK'
  <2>1. AskedOK'
    BY <1>0, <1>4, AskType DEF StartCreate, Ops
  <2>2. PlacesOK' /\ LockHeld' /\ SeenOK'
    BY <1>4, LockType DEF StartCreate
  <2> QED
    BY <1>4, <2>1, <2>2 DEF StartCreate, StorageTypeOK, AskedOK, PlacesOK, LockHeld, SeenOK,
                            subscription, cache, resources
<1>5. CASE CreateCommit(r)
  <2>1. PlacesOK' /\ LockHeld'
    BY <1>5, GotoType DEF CreateCommit
  <2>2. used' \in 0..ceiling'
    BY <1>5 DEF CreateCommit, CheckStorage
  <2> QED
    BY <1>5, <2>1, <2>2 DEF CreateCommit, StorageTypeOK, PlacesOK, LockHeld, subscription
<1>6. CASE CreateReject(r) \/ CheckAbort(r) \/ RequestCrash(r)
  <2>1. PlacesOK' /\ LockHeld'
    BY <1>6, GotoType DEF CreateReject, CheckAbort, RequestCrash
  <2> QED
    BY <1>6, <2>1 DEF CreateReject, CheckAbort, RequestCrash, StorageTypeOK, PlacesOK, LockHeld,
                      subscription, cache, resources
<1>7. ASSUME NEW x \in live, RemoveRead(r, x) PROVE StorageTypeOK'
  <2>1. AskedOK'
    BY <1>0, <1>7, AskType DEF RemoveRead, Ops
  <2>2. PlacesOK' /\ LockHeld'
    BY <1>7, GotoType DEF RemoveRead, At
  <2> QED
    BY <1>7, <2>1, <2>2 DEF RemoveRead, StorageTypeOK, AskedOK, PlacesOK, LockHeld,
                            subscription, cache, resources
<1>8. CASE RemoveLock(r)
  <2>1. PlacesOK' /\ LockHeld' /\ SeenOK'
    BY <1>8, LockType DEF RemoveLock
  <2> QED
    BY <1>8, <2>1 DEF RemoveLock, StorageTypeOK, PlacesOK, LockHeld, SeenOK,
                      subscription, cache, resources
<1>9. CASE RemoveCommit(r)
  <2>1. PlacesOK' /\ LockHeld'
    BY <1>9, GotoType DEF RemoveCommit
  <2>2. used' \in 0..ceiling'
    BY <1>9 DEF RemoveCommit, CheckStorage
  <2>3. req[r].of \in Requests
    BY <1>9 DEF RemoveCommit, Removing, StorageTypeOK
  <2> QED
    BY <1>9, <2>1, <2>2, <2>3 DEF RemoveCommit, StorageTypeOK, PlacesOK, LockHeld, subscription
<1>10. CASE PublishEvent(r)
  <2>1. PlacesOK' /\ LockHeld'
    BY <1>10, GotoType DEF PublishEvent, At
  <2> QED
    BY <1>10, <2>1 DEF PublishEvent, StorageTypeOK, PlacesOK, LockHeld, subscription, cache, resources
<1> QED
  BY <1>1, <1>2, <1>3, <1>4, <1>5, <1>6, <1>7, <1>8, <1>9, <1>10 DEF Request

\* A delivery in progress is about a request.
LEMMA DeliveredType ==
  ASSUME TypeOK, NEW g \in Groups, phase[g] = "handle"
  PROVE  Current(g) \in Requests
BY CurrentType DEF TypeOK, Requests

LEMMA HandlerType ==
  ASSUME StorageTypeOK, TypeOK,
         \/ RefreshCeiling \/ ReadUsage \/ WriteUsage \/ WriteUsageRefused
         \/ \E g \in Groups : Consume(g)
  PROVE  StorageTypeOK'
<1>0. Usage \in Groups /\ Ceiling \in Groups /\ NoView \in [plan : Nat, display : Nat, open : BOOLEAN]
  BY StorageAssumption DEF NoView
<1>1. CASE RefreshCeiling
  <2>1. Current(Ceiling) \in Requests
    BY <1>0, <1>1, DeliveredType DEF RefreshCeiling
  <2>2. req[Current(Ceiling)].plan \in Nat
    BY <2>1 DEF StorageTypeOK
  <2>3. synced' \in BOOLEAN /\ ceiling' \in Nat /\ used' \in 0..ceiling'
    <3>1. CASE synced
      BY <1>1, <2>2, <3>1 DEF RefreshCeiling, Bigger, StorageTypeOK
    <3>2. CASE ~synced
      BY <1>1, <2>2, <3>2 DEF RefreshCeiling
    <3> QED
      BY <3>1, <3>2
  <2> QED
    BY <1>1, <2>3 DEF RefreshCeiling, StorageTypeOK, subscription, resources, handlers
<1>2. CASE ReadUsage
  <2>1. view' \in [plan : Nat, display : Nat, open : BOOLEAN]
    BY <1>2 DEF ReadUsage, StorageTypeOK
  <2> QED
    BY <1>2, <2>1 DEF ReadUsage, StorageTypeOK, subscription, cache, resources, handlers
<1>3. CASE WriteUsage
  <2>1. display' \in 0..plan'
    BY <1>3 DEF WriteUsage, CheckDisplay
  <2> QED
    BY <1>0, <1>3, <2>1 DEF WriteUsage, StorageTypeOK, cache, resources, handlers
<1>4. CASE WriteUsageRefused
  BY <1>0, <1>4 DEF WriteUsageRefused, StorageTypeOK, subscription, cache, resources, handlers
<1>5. ASSUME NEW g \in Groups, Consume(g) PROVE StorageTypeOK'
  BY <1>0, <1>5 DEF Consume, StorageTypeOK, subscription, cache, resources, handlers
<1> QED
  BY <1>1, <1>2, <1>3, <1>4, <1>5

LEMMA StorageTypeStep == StorageTypeOK /\ TypeOK /\ [StorageNext]_allvars => StorageTypeOK'
<1>1. ASSUME StorageTypeOK, UNCHANGED allvars PROVE StorageTypeOK'
  BY <1>1 DEF allvars, svars, StorageTypeOK
<1> QED
  BY <1>1, RequestType, HandlerType DEF StorageNext

LEMMA StorageInitType == StorageInit => StorageTypeOK
<1>1. /\ NoRequest \in [op : Ops \cup {"none"}, plan : Nat, from : Nat, size : Nat,
                        of : Requests \cup {None}]
      /\ NoRequest.op = "none"
  BY DEF NoRequest, Form
<1>2. NoView \in [plan : Nat, display : Nat, open : BOOLEAN] /\ Unseen \in [used : Nat, ceiling : Nat]
  BY DEF NoView, Unseen
<1>3. SUFFICES ASSUME StorageInit PROVE StorageTypeOK
  OBVIOUS
<1>4. /\ req \in [Requests -> [op : Ops \cup {"none"}, plan : Nat, from : Nat, size : Nat,
                               of : Requests \cup {None}]]
      /\ \A r \in Requests : req[r].op = "remove" => req[r].of \in Requests
  BY <1>1, <1>3 DEF StorageInit
<1>5. seen \in [Requests -> [used : Nat, ceiling : Nat]]
  BY <1>2, <1>3 DEF StorageInit
<1>6. /\ display = 0 /\ plan = 0 /\ used = 0 /\ ceiling = 0
      /\ assigned \in BOOLEAN /\ synced \in BOOLEAN
  BY <1>3, Zenon DEF StorageInit
<1>7. /\ live \subseteq Requests /\ deleted \subseteq Requests /\ lock \in Requests \cup {None}
      /\ lock = None
  BY <1>3 DEF StorageInit
<1>8. pc \in [Requests -> {"idle", "found", "locked", "publish", "done"}]
  BY <1>3 DEF StorageInit
<1>9. view \in [plan : Nat, display : Nat, open : BOOLEAN]
  BY <1>2, <1>3 DEF StorageInit
<1> QED
  BY <1>4, <1>5, <1>6, <1>7, <1>8, <1>9 DEF StorageTypeOK

\* Every reachable state of Storage is well typed: the counters are inside their constraints and
\* the lock is held by a transaction.
THEOREM StorageTypes == StorageSpec => []StorageTypeOK
<1>1. StorageTypeOK /\ TypeOK /\ [StorageNext]_<<kvars, svars>> => StorageTypeOK'
  BY StorageTypeStep DEF allvars
<1> QED
  BY <1>1, StorageInitType, StorageUsesBus, BusTypes, PTL DEF StorageSpec

-----------------------------------------------------------------------------
(* The lock, the events and the ceiling *)

LEMMA LockStep == StorageTypeOK /\ LockKnows /\ [StorageNext]_allvars => LockKnows'
<1>0. SUFFICES ASSUME StorageTypeOK, LockKnows, [StorageNext]_allvars PROVE LockKnows'
  OBVIOUS
<1>1. ASSUME NEW r \in Requests, Request(r) PROVE LockKnows'
  <2>1. CASE \/ AssignDefaultPlan(r) \/ (\E p \in Plans : ChangePlan(r, p)) \/ ChangePlanRefused(r)
             \/ NotSynced(r) \/ (\E x \in live : RemoveRead(r, x)) \/ RemoveRefused(r)
             \/ PublishEvent(r)
    BY <1>0, <2>1 DEF AssignDefaultPlan, ChangePlan, ChangePlanRefused, NotSynced, RemoveRead,
                      RemoveRefused, PublishEvent, Goto, At, cache, StorageTypeOK, LockKnows
  <2>2. CASE LockForUpdate(r) /\ UNCHANGED cache
    <3>1. /\ lock' = r /\ pc' = [pc EXCEPT ![r] = "locked"] /\ used' = used /\ ceiling' = ceiling
          /\ seen' = [seen EXCEPT ![r] = [used |-> used, ceiling |-> ceiling]]
          /\ lock = None
      BY <2>2 DEF LockForUpdate, Goto, cache
    <3>2. \A q \in Requests : pc[q] # "locked"
      BY <1>0, <3>1, StorageAssumption DEF LockKnows
    <3> QED
      BY <1>0, <3>1, <3>2 DEF LockKnows, StorageTypeOK
  <2>3. CASE /\ CreateCommit(r) \/ CreateReject(r) \/ RemoveCommit(r) \/ CheckAbort(r)
    <3>1. pc[r] = "locked" /\ lock = r
      BY <1>0, <2>3 DEF CreateCommit, CreateReject, RemoveCommit, CheckAbort, Creating, Removing, At,
                        LockKnows
    <3>2. \A q \in Requests : pc'[q] # "locked"
      BY <1>0, <2>3, <3>1 DEF CreateCommit, CreateReject, RemoveCommit, CheckAbort, Goto, LockKnows,
                              StorageTypeOK
    <3> QED
      BY <3>2 DEF LockKnows
  <2>4. CASE RequestCrash(r)
    <3>1. \A q \in Requests : pc'[q] = "locked" => q # r /\ pc[q] = "locked"
      BY <1>0, <2>4 DEF RequestCrash, Goto, StorageTypeOK
    <3>2. \A q \in Requests : pc'[q] = "locked" => lock' = q
      BY <1>0, <2>4, <3>1 DEF RequestCrash, Unlock, LockKnows
    <3> QED
      BY <1>0, <2>4, <3>1, <3>2 DEF RequestCrash, cache, LockKnows
  <2> QED
    BY <1>1, <2>1, <2>2, <2>3, <2>4 DEF Request, StartCreate, RemoveLock
<1>2. CASE RefreshCeiling
  <2>1. lock = None /\ pc' = pc
    BY <1>2 DEF RefreshCeiling, handlers
  <2>2. \A q \in Requests : pc[q] # "locked"
    BY <1>0, <2>1, StorageAssumption DEF LockKnows
  <2> QED
    BY <2>1, <2>2 DEF LockKnows
<1>3. CASE ReadUsage \/ WriteUsage \/ WriteUsageRefused \/ (\E g \in Groups : Consume(g)) \/ UNCHANGED allvars
  BY <1>0, <1>3 DEF ReadUsage, WriteUsage, WriteUsageRefused, Consume, cache, handlers, allvars, svars,
                    LockKnows
<1> QED
  BY <1>0, <1>1, <1>2, <1>3 DEF StorageNext

\* What a request has committed about the plan stays as it is.
LEMMA ChangedStays ==
  ASSUME StorageTypeOK, [StorageNext]_allvars, NEW q \in Requests, Changed(q)
  PROVE  Changed(q)' /\ req'[q].plan = req[q].plan
<1>1. ASSUME NEW r \in Requests, Request(r) PROVE Changed(q)' /\ req'[q] = req[q]
  <2>1. q # r \/ pc[r] = "publish"
    <3>1. pc[q] \in {"publish", "done"} /\ req[q].op \in {"assign", "change"}
      BY DEF Changed
    <3> QED
      BY <1>1, <3>1 DEF Request, AssignDefaultPlan, ChangePlan, ChangePlanRefused, NotSynced, StartCreate,
         CreateCommit, CreateReject, RemoveRead, RemoveRefused, RemoveLock, RemoveCommit, CheckAbort,
         RequestCrash, PublishEvent, At, Creating, Removing
  <2>2. CASE q # r
    <3>1. req'[q] = req[q]
      BY <1>1, <2>2 DEF Request, AssignDefaultPlan, ChangePlan, ChangePlanRefused, NotSynced, StartCreate,
         CreateCommit, CreateReject, RemoveRead, RemoveRefused, RemoveLock, RemoveCommit, CheckAbort,
         RequestCrash, PublishEvent, Ask, StorageTypeOK
    <3>2. pc'[q] = pc[q]
      BY <1>1, <2>2 DEF Request, AssignDefaultPlan, ChangePlan, ChangePlanRefused, NotSynced, StartCreate,
         CreateCommit, CreateReject, RemoveRead, RemoveRefused, RemoveLock, RemoveCommit, CheckAbort,
         RequestCrash, PublishEvent, LockForUpdate, Goto, StorageTypeOK
    <3> QED
      BY <3>1, <3>2 DEF Changed
  <2>3. CASE q = r /\ pc[r] = "publish"
    <3>1. PublishEvent(r)
      BY <1>1, <2>3 DEF Request, AssignDefaultPlan, ChangePlan, ChangePlanRefused, NotSynced, StartCreate,
         CreateCommit, CreateReject, RemoveRead, RemoveRefused, RemoveLock, RemoveCommit, CheckAbort,
         RequestCrash, At, Creating, Removing
    <3>2. req' = req /\ pc'[r] = "done"
      BY <3>1 DEF PublishEvent, Goto, StorageTypeOK
    <3> QED
      BY <2>3, <3>2 DEF Changed
  <2> QED
    BY <2>1, <2>2, <2>3
<1>2. ASSUME ~(\E r \in Requests : Request(r)) PROVE Changed(q)' /\ req'[q] = req[q]
  <2>1. pc' = pc /\ req' = req
    BY <1>2 DEF StorageNext, RefreshCeiling, ReadUsage, WriteUsage, WriteUsageRefused, Consume, handlers,
                allvars, svars
  <2> QED
    BY <2>1 DEF Changed
<1> QED
  BY <1>1, <1>2

LEMMA EventsStep ==
  StorageTypeOK /\ TypeOK /\ EventsOfChanges /\ [StorageNext]_allvars => EventsOfChanges'
<1>0. SUFFICES ASSUME StorageTypeOK, TypeOK, EventsOfChanges, [StorageNext]_allvars
               PROVE  EventsOfChanges'
  OBVIOUS
<1>1. log[SubscriptionTopic] \in Seq(Events) /\ SubscriptionTopic \in Topics
  BY <1>0, StorageAssumption DEF TypeOK
<1>2. \A i \in 1..Len(log[SubscriptionTopic]) :
        log[SubscriptionTopic][i] \in Requests /\ Changed(log[SubscriptionTopic][i])
  BY <1>0, <1>1 DEF EventsOfChanges, Requests
<1>20. \A q \in Requests : Changed(q) => Changed(q)'
  BY <1>0, ChangedStays
<1>3. ASSUME log'[SubscriptionTopic] = log[SubscriptionTopic] PROVE EventsOfChanges'
  BY <1>2, <1>20, <1>3 DEF EventsOfChanges, Changed
<1>4. ASSUME NEW r \in Requests, PublishEvent(r) PROVE EventsOfChanges'
  <2>1. CASE LosePublish(r)
    BY <1>3, <2>1 DEF LosePublish
  <2>2. CASE req[r].op \in {"assign", "change"} /\ Publish(SubscriptionTopic, r)
    <3>1. log'[SubscriptionTopic] = Append(log[SubscriptionTopic], r)
      BY <1>1, <1>0, <2>2 DEF Publish, TypeOK
    <3>2. Changed(r)'
      BY <1>0, <1>4, <2>2 DEF PublishEvent, Goto, StorageTypeOK, Changed
    <3>3. \A i \in 1..Len(log'[SubscriptionTopic]) :
            \/ i \in 1..Len(log[SubscriptionTopic])
               /\ log'[SubscriptionTopic][i] = log[SubscriptionTopic][i]
            \/ log'[SubscriptionTopic][i] = r
      BY <1>1, <3>1
    <3> QED
      BY <1>2, <1>20, <3>2, <3>3 DEF EventsOfChanges, Changed
  <2>3. CASE Publish(ResourceTopic, r)
    <3>1. log'[SubscriptionTopic] = log[SubscriptionTopic]
      BY <1>1, <1>0, <2>3, StorageAssumption DEF Publish, TypeOK
    <3> QED
      BY <1>3, <3>1
  <2> QED
    BY <1>4, <2>1, <2>2, <2>3 DEF PublishEvent
<1>5. ASSUME ~(\E r \in Requests : PublishEvent(r)) PROVE log' = log
  BY <1>0, <1>5 DEF StorageNext, Request, AssignDefaultPlan, ChangePlan, ChangePlanRefused, NotSynced,
     StartCreate, CreateCommit, CreateReject, RemoveRead, RemoveRefused, RemoveLock, RemoveCommit,
     CheckAbort, RequestCrash, RefreshCeiling, ReadUsage, WriteUsage, WriteUsageRefused, Consume,
     Handle, HandleThrows, Retry, Housekeeping, Join, Fetch, Mark, Bury, CommitOffset, AttemptFails,
     Redeliver, Crash, topicVars, kvars, allvars
<1> QED
  BY <1>3, <1>4, <1>5

LEMMA SoldStays ==
  ASSUME StorageTypeOK, [StorageNext]_allvars PROVE Sold \subseteq Sold'
<1>1. SUFFICES ASSUME NEW q \in Requests, Changed(q) PROVE req[q].plan \in Sold'
  BY DEF Sold
<1>2. Changed(q)' /\ req'[q].plan = req[q].plan
  BY <1>1, ChangedStays
<1> QED
  BY <1>2 DEF Sold

LEMMA CeilingStep ==
  StorageTypeOK /\ TypeOK /\ EventsOfChanges /\ CeilingWasSold /\ [StorageNext]_allvars
    => CeilingWasSold'
<1>0. SUFFICES ASSUME StorageTypeOK, TypeOK, EventsOfChanges, CeilingWasSold, [StorageNext]_allvars
               PROVE  CeilingWasSold'
  OBVIOUS
<1>1. Sold \subseteq Sold'
  BY <1>0, SoldStays
<1>2. ASSUME synced' = synced, ceiling' = ceiling PROVE CeilingWasSold'
  BY <1>0, <1>1, <1>2 DEF CeilingWasSold
<1>3. CASE RefreshCeiling
  <2> DEFINE e == Current(Ceiling)
  <2>1. Ceiling \in Groups /\ phase[Ceiling] = "handle" /\ TopicOf[Ceiling] = SubscriptionTopic
    BY <1>3, StorageAssumption DEF RefreshCeiling
  <2>2. offset[Ceiling] + 1 \in 1..Len(log[SubscriptionTopic])
        /\ e = log[SubscriptionTopic][offset[Ceiling] + 1]
    <3>1. offset[Ceiling] < Len(Topic(Ceiling))
      BY <1>0, <2>1 DEF TypeOK
    <3>2. Topic(Ceiling) = log[SubscriptionTopic]
      BY <2>1 DEF Topic
    <3> QED
      BY <1>0, <2>1, <3>1, <3>2, CurrentType DEF Current
  <2>3. e \in Requests /\ Changed(e)
    BY <1>0, <2>1, <2>2, DeliveredType DEF EventsOfChanges
  <2>4. req[e].plan \in Sold /\ req[e].plan \in Nat
    BY <1>0, <2>3 DEF Sold, StorageTypeOK
  <2>5. CASE ~synced
    <3>1. ceiling' = req[e].plan
      BY <1>3, <2>5 DEF RefreshCeiling
    <3> QED
      BY <1>1, <2>4, <3>1 DEF CeilingWasSold
  <2>6. CASE synced /\ ceiling' = req[e].plan
    BY <1>1, <2>4, <2>6 DEF CeilingWasSold
  <2>7. CASE synced /\ ceiling' # req[e].plan
    <3>1. ceiling' = used
      BY <1>3, <2>7 DEF RefreshCeiling, Bigger
    <3>2. PICK s \in Sold : ceiling <= s
      BY <1>0, <2>7 DEF CeilingWasSold
    <3>3. s \in Nat
      BY <1>0, <3>2 DEF Sold, StorageTypeOK
    <3>4. ceiling' <= s
      BY <1>0, <3>1, <3>2, <3>3 DEF StorageTypeOK
    <3> QED
      BY <1>1, <3>2, <3>4 DEF CeilingWasSold
  <2> QED
    BY <2>5, <2>6, <2>7
<1>4. ASSUME ~RefreshCeiling PROVE synced' = synced /\ ceiling' = ceiling
  BY <1>0, <1>4 DEF StorageNext, Request, AssignDefaultPlan, ChangePlan, ChangePlanRefused, NotSynced,
     StartCreate, CreateCommit, CreateReject, RemoveRead, RemoveRefused, RemoveLock, RemoveCommit,
     CheckAbort, RequestCrash, PublishEvent, ReadUsage, WriteUsage, WriteUsageRefused, Consume,
     cache, svars, allvars
<1> QED
  BY <1>2, <1>3, <1>4

\* The inductive invariant.
THEOREM StorageInvariance == StorageSpec => []StorageInv
<1>1. StorageInit => StorageInv
  <2>1. ASSUME StorageInit PROVE LockKnows /\ CeilingWasSold
    BY <2>1 DEF StorageInit, LockKnows, CeilingWasSold
  <2>2. ASSUME StorageInit PROVE EventsOfChanges
    <3>1. log[SubscriptionTopic] = <<>>
      BY <2>2, StorageAssumption DEF StorageInit, BusInit
    <3> QED
      BY <3>1 DEF EventsOfChanges
  <2> QED
    BY <2>1, <2>2, StorageInitType DEF StorageInv
<1>2. StorageInv /\ TypeOK /\ [StorageNext]_<<kvars, svars>> => StorageInv'
  BY StorageTypeStep, LockStep, EventsStep, CeilingStep DEF StorageInv, allvars
<1> QED
  BY <1>1, <1>2, StorageUsesBus, BusTypes, PTL DEF StorageSpec

\* The row lock makes the check of create decisive: the constraint behind it is never what
\* refuses a resource.
THEOREM CreateDecides == StorageSpec => []BackstopUnneeded
<1>1. ASSUME StorageInv PROVE BackstopUnneeded
  <2>1. ASSUME NEW r \in Requests, Creating(r), Fits(r) PROVE CheckStorage(used + req[r].size)
    <3>1. seen[r].used = used /\ seen[r].ceiling = ceiling
      BY <1>1, <2>1 DEF StorageInv, LockKnows, Creating, At
    <3>2. used \in Nat /\ ceiling \in Nat /\ req[r].size \in Nat
      BY <1>1, <2>1 DEF StorageInv, StorageTypeOK
    <3> QED
      BY <2>1, <3>1, <3>2 DEF Fits, CheckStorage
  <2> QED
    BY <2>1 DEF BackstopUnneeded
<1> QED
  BY <1>1, StorageInvariance, PTL

\* The ceiling that is enforced never exceeds every ceiling the organisation was sold, whatever
\* order the plan events arrive in and however often.
THEOREM CeilingSold == StorageSpec => []CeilingWasSold
<1>1. StorageInv => CeilingWasSold
  BY DEF StorageInv
<1> QED
  BY <1>1, StorageInvariance, PTL
=============================================================================
