------------------------------- MODULE Storage -------------------------------
(***************************************************************************)
(* The storage limit of one organisation, which two services keep:         *)
(* subscription-service owns the plan and shows the usage (subs.           *)
(* subscriptions), resource-service owns the resources and enforces the    *)
(* limit under the lock of its plan_limit_cache row.  They meet only on    *)
(* the event bus of KafkaConsumer: the ceiling follows the plan by         *)
(* SubscriptionAssigned and SubscriptionChanged, the displayed usage       *)
(* follows the resources by ResourceCreated and ResourceDeleted.           *)
(*                                                                         *)
(* A request is made once; its event, if it commits, has the request's     *)
(* name, and the resource it creates too.  A step is a statement that      *)
(* another transaction can get ahead of: a read without a lock, the wait   *)
(* for a row lock, the writes that end in COMMIT, the publish after it.    *)
(*                                                                         *)
(* Seats (the other half of changePlan) are in Seats; who may remove a     *)
(* resource is in Access; sizes are in units of the plans' ceilings.       *)
(***************************************************************************)
EXTENDS KafkaConsumer, FiniteSets

CONSTANTS
  ResourceTopic, SubscriptionTopic,
  Usage,     \* StorageReconciliationConsumer of subscription-service
  Ceiling,   \* SubscriptionChangedConsumer of resource-service
  Plans,     \* the storage each plan sells
  Default,   \* the plan of a new organisation
  Sizes,     \* sizes of resources
  Does,      \* Does[r]: the operations request r may be
  None

Requests == Events

ASSUME StorageAssumption ==
  /\ ResourceTopic # SubscriptionTopic /\ {ResourceTopic, SubscriptionTopic} = Topics
  /\ {Usage, Ceiling} = Groups /\ TopicOf[Usage] = ResourceTopic
  /\ TopicOf[Ceiling] = SubscriptionTopic
  /\ Plans \subseteq Nat /\ Default \in Plans /\ Sizes \subseteq Nat
  /\ None \notin Requests

VARIABLES
  assigned, plan, display,  \* subs.subscriptions: exists, max_storage_snapshot, used_storage_bytes
  synced, ceiling, used,    \* plan_limit_cache: exists, max_storage_bytes, used_storage_bytes
  live, deleted,            \* resources
  lock,                     \* the holder of the plan_limit_cache row
  pc, req,                  \* the requests
  seen,                     \* seen[r]: what lockForUpdate returned
  view,                     \* what the usage handler has read of the subscription
  commits                   \* requests in the order of their commits (created_at, deleted_at)

subscription == <<assigned, plan, display>>
cache        == <<synced, ceiling, used>>
resources    == <<live, deleted>>
handlers     == <<lock, pc, req, seen>>
svars == <<assigned, plan, display, synced, ceiling, used, live, deleted,
           lock, pc, req, seen, view, commits>>

Ops == {"assign", "change", "create", "remove"}

Form(o, p, f, n, x) == [op |-> o, plan |-> p, from |-> f, size |-> n, of |-> x]
NoRequest == Form("none", 0, 0, 0, None)
NoView    == [plan |-> 0, display |-> 0, open |-> FALSE]
Unseen    == [used |-> 0, ceiling |-> 0]

Bigger(a, b)  == IF a > b THEN a ELSE b
Smaller(a, b) == IF a < b THEN a ELSE b

StorageInit ==
  /\ BusInit
  /\ assigned = FALSE /\ plan = 0 /\ display = 0
  /\ synced = FALSE /\ ceiling = 0 /\ used = 0
  /\ live = {} /\ deleted = {}
  /\ lock = None
  /\ pc = [r \in Requests |-> "idle"]
  /\ req = [r \in Requests |-> NoRequest]
  /\ seen = [r \in Requests |-> Unseen]
  /\ view = NoView
  /\ commits = <<>>

At(r, p)   == pc[r] = p
Goto(r, p) == pc' = [pc EXCEPT ![r] = p]
Ask(r, q)  == req' = [req EXCEPT ![r] = q]

-----------------------------------------------------------------------------
(* subscription-service: requests *)

\* assignDefaultPlan, once per organisation (uq_subscriptions_org).
AssignDefaultPlan(r) ==
  /\ At(r, "idle") /\ "assign" \in Does[r]
  /\ ~assigned
  /\ assigned' = TRUE /\ plan' = Default /\ display' = 0
  /\ Ask(r, Form("assign", Default, 0, 0, None))
  /\ Goto(r, "publish")
  /\ UNCHANGED <<kvars, cache, resources, lock, seen, view, commits>>

\* changePlan: under the row lock, so in one step.
ChangePlan(r, p) ==
  /\ At(r, "idle") /\ "change" \in Does[r]
  /\ assigned /\ display <= p
  /\ plan' = p
  /\ Ask(r, Form("change", p, plan, 0, None))
  /\ Goto(r, "publish")
  /\ UNCHANGED <<kvars, assigned, display, cache, resources, lock, seen, view, commits>>

ChangePlanRefused(r) ==
  /\ At(r, "idle") /\ "change" \in Does[r]
  /\ ~assigned \/ \E p \in Plans : display > p
  /\ Goto(r, "done")
  /\ UNCHANGED <<kvars, subscription, cache, resources, lock, req, seen, view, commits>>

-----------------------------------------------------------------------------
(* resource-service: requests *)

\* Without a row yet the answer is 503.
NotSynced(r) ==
  /\ At(r, "idle") /\ "create" \in Does[r]
  /\ ~synced
  /\ Goto(r, "done")
  /\ UNCHANGED <<kvars, subscription, cache, resources, lock, req, seen, view, commits>>

\* Mutant: the row is read without FOR UPDATE.
LockForUpdate_Unlocked(r) ==
  /\ synced
  /\ seen' = [seen EXCEPT ![r] = [used |-> used, ceiling |-> ceiling]]
  /\ Goto(r, "locked")
  /\ UNCHANGED lock

LockForUpdate(r) ==
  /\ lock = None /\ synced
  /\ lock' = r
  /\ seen' = [seen EXCEPT ![r] = [used |-> used, ceiling |-> ceiling]]
  /\ Goto(r, "locked")

StartCreate(r, n) ==
  /\ At(r, "idle") /\ "create" \in Does[r]
  /\ LockForUpdate(r)
  /\ Ask(r, Form("create", 0, 0, n, None))
  /\ UNCHANGED <<kvars, subscription, cache, resources, view, commits>>

Unlock(r) == lock' = IF lock = r THEN None ELSE lock

Creating(r) == At(r, "locked") /\ req[r].op = "create"
Removing(r) == At(r, "locked") /\ req[r].op = "remove"
Fits(r)     == seen[r].used + req[r].size <= seen[r].ceiling

\* ck_plan_limit_storage and ck_plan_limit_storage_nonneg.
CheckStorage(n) == n \in 0..ceiling

CreateCommit(r) ==
  /\ Creating(r) /\ Fits(r) /\ CheckStorage(used + req[r].size)
  /\ live' = live \cup {r}
  /\ used' = used + req[r].size
  /\ commits' = Append(commits, r)
  /\ Unlock(r) /\ Goto(r, "publish")
  /\ UNCHANGED <<kvars, subscription, synced, ceiling, deleted, req, seen, view>>

CreateReject(r) ==
  /\ Creating(r) /\ ~Fits(r)
  /\ Unlock(r) /\ Goto(r, "done")
  /\ UNCHANGED <<kvars, subscription, cache, resources, req, seen, view, commits>>

\* findById, before the lock.
RemoveRead(r, x) ==
  /\ At(r, "idle") /\ "remove" \in Does[r]
  /\ x \in live
  /\ Ask(r, Form("remove", 0, 0, req[x].size, x))
  /\ Goto(r, "found")
  /\ UNCHANGED <<kvars, subscription, cache, resources, lock, seen, view, commits>>

\* Not there, or not the caller's to remove.
RemoveRefused(r) ==
  /\ At(r, "idle") /\ "remove" \in Does[r]
  /\ Goto(r, "done")
  /\ UNCHANGED <<kvars, subscription, cache, resources, lock, req, seen, view, commits>>

RemoveLock(r) ==
  /\ At(r, "found")
  /\ LockForUpdate(r)
  /\ UNCHANGED <<kvars, subscription, cache, resources, req, view, commits>>

\* The delete and the decrement ask no questions: what was found may have been removed since.
RemoveCommit(r) ==
  /\ Removing(r) /\ CheckStorage(used - req[r].size)
  /\ live' = live \ {req[r].of} /\ deleted' = deleted \cup {req[r].of}
  /\ used' = used - req[r].size
  /\ commits' = Append(commits, r)
  /\ Unlock(r) /\ Goto(r, "publish")
  /\ UNCHANGED <<kvars, subscription, synced, ceiling, req, seen, view>>

\* The constraint refuses the counter: rollback, 500.
CheckAbort(r) ==
  /\ \/ Creating(r) /\ Fits(r) /\ ~CheckStorage(used + req[r].size)
     \/ Removing(r) /\ ~CheckStorage(used - req[r].size)
  /\ Unlock(r) /\ Goto(r, "done")
  /\ UNCHANGED <<kvars, subscription, cache, resources, req, seen, view, commits>>

\* The process of a request dies before its commit: rollback.  (After it, PublishEvent loses the event.)
RequestCrash(r) ==
  /\ pc[r] \in {"found", "locked"}
  /\ Unlock(r) /\ Goto(r, "done")
  /\ UNCHANGED <<kvars, subscription, cache, resources, req, seen, view, commits>>

\* After the commit.
PublishEvent(r) ==
  /\ At(r, "publish")
  /\ \/ Publish(IF req[r].op \in {"assign", "change"} THEN SubscriptionTopic ELSE ResourceTopic, r)
     \/ LosePublish(r)
  /\ Goto(r, "done")
  /\ UNCHANGED <<subscription, cache, resources, lock, req, seen, view, commits>>

-----------------------------------------------------------------------------
(* The consumers' handlers *)

\* Mutant: the ON CONFLICT branch writes every column.
RefreshCeiling_ResetsUsed ==
  /\ phase[Ceiling] = "handle" /\ lock = None
  /\ Handle(Ceiling)
  /\ synced' = TRUE /\ ceiling' = req[Current(Ceiling)].plan /\ used' = 0
  /\ UNCHANGED <<subscription, resources, handlers, view, commits>>

\* Mutant: the ceiling is set below the usage.
RefreshCeiling_NoGreatest ==
  /\ phase[Ceiling] = "handle" /\ lock = None
  /\ Handle(Ceiling)
  /\ synced' = TRUE /\ ceiling' = req[Current(Ceiling)].plan
  /\ used' = IF synced THEN used ELSE 0
  /\ UNCHANGED <<subscription, resources, handlers, view, commits>>

\* upsert: insert, or move the ceiling but not below the usage; waits for the row.
RefreshCeiling ==
  /\ phase[Ceiling] = "handle" /\ lock = None
  /\ Handle(Ceiling)
  /\ LET limit == req[Current(Ceiling)].plan IN
       IF synced
         THEN ceiling' = Bigger(limit, used) /\ UNCHANGED <<synced, used>>
         ELSE synced' = TRUE /\ ceiling' = limit /\ used' = 0
  /\ UNCHANGED <<subscription, resources, handlers, view, commits>>

\* Mutant: a deletion carries no size.
Delta_DeleteIgnored(e) == IF req[e].op = "create" THEN req[e].size ELSE 0

Delta(e) == IF req[e].op = "create" THEN req[e].size ELSE 0 - req[e].size

\* The usage handler reads the subscription without a lock.
ReadUsage ==
  /\ phase[Usage] = "handle" /\ ~view.open
  /\ assigned
  /\ view' = [plan |-> plan, display |-> display, open |-> TRUE]
  /\ UNCHANGED <<kvars, subscription, cache, resources, handlers, commits>>

\* Mutant: no upper clamp.
Clamped_FloorOnly == Bigger(0, view.display + Delta(Current(Usage)))

\* What it writes: the sum, clamped to both bounds of the constraints as it has read them.
Clamped == Smaller(view.plan, Bigger(0, view.display + Delta(Current(Usage))))

\* ck_subscriptions_storage and ck_subscriptions_storage_nonneg.
CheckDisplay(n) == n \in 0..plan

WriteUsage ==
  /\ view.open /\ CheckDisplay(Clamped)
  /\ Handle(Usage)
  /\ display' = Clamped
  /\ view' = NoView
  /\ UNCHANGED <<assigned, plan, cache, resources, handlers, commits>>

\* The constraint refuses: the plan was lowered after the read.
WriteUsageRefused ==
  /\ view.open /\ ~CheckDisplay(Clamped)
  /\ HandleThrows(Usage)
  /\ view' = NoView
  /\ UNCHANGED <<subscription, cache, resources, handlers, commits>>

\* What is left of the delivery is that of BaseKafkaConsumer; a transaction that was open is gone.
Consume(g) ==
  /\ Housekeeping(g)
  /\ view' = IF g = Usage THEN NoView ELSE view
  /\ UNCHANGED <<subscription, cache, resources, handlers, commits>>

-----------------------------------------------------------------------------

Request(r) ==
  \/ AssignDefaultPlan(r) \/ (\E p \in Plans : ChangePlan(r, p)) \/ ChangePlanRefused(r)
  \/ NotSynced(r) \/ (\E n \in Sizes : StartCreate(r, n)) \/ CreateCommit(r) \/ CreateReject(r)
  \/ (\E x \in live : RemoveRead(r, x)) \/ RemoveRefused(r) \/ RemoveLock(r) \/ RemoveCommit(r)
  \/ CheckAbort(r) \/ RequestCrash(r) \/ PublishEvent(r)

StorageNext ==
  \/ \E r \in Requests : Request(r)
  \/ RefreshCeiling \/ ReadUsage \/ WriteUsage \/ WriteUsageRefused
  \/ \E g \in Groups : Consume(g)

StorageSpec == StorageInit /\ [][StorageNext]_<<kvars, svars>>
=============================================================================
