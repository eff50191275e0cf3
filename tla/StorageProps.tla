----------------------------- MODULE StorageProps -----------------------------
(***************************************************************************)
(* The properties of Storage.                                              *)
(***************************************************************************)
EXTENDS Storage

\* Every variable has its type; the row constraints hold; the lock is held by a transaction.
StorageTypeOK ==
  /\ assigned \in BOOLEAN /\ plan \in Nat /\ display \in 0..plan
  /\ synced \in BOOLEAN /\ ceiling \in Nat /\ used \in 0..ceiling
  /\ live \subseteq Requests /\ deleted \subseteq Requests
  /\ pc \in [Requests -> {"idle", "found", "locked", "publish", "done"}]
  /\ req \in [Requests -> [op : Ops \cup {"none"}, plan : Nat, from : Nat, size : Nat,
                           of : Requests \cup {None}]]
  /\ \A r \in Requests : req[r].op = "remove" => req[r].of \in Requests
  /\ seen \in [Requests -> [used : Nat, ceiling : Nat]]
  /\ view \in [plan : Nat, display : Nat, open : BOOLEAN]
  /\ lock \in Requests \cup {None}
  /\ lock # None => pc[lock] = "locked"

Changed(r) == pc[r] \in {"publish", "done"} /\ req[r].op \in {"assign", "change"}

\* The ceilings that were sold to the organisation so far.
Sold == {req[r].plan : r \in {r \in Requests : Changed(r)}}

\* The bytes of resources, one by one: q[r].size of them for each r \in R.
ByteSet(q, R) == UNION {{r} \X (1..q[r].size) : r \in R}

\* The removals that committed after another removal of the same resource.
Again ==
  {r \in Requests : \E i, j \in 1..Len(commits) :
     /\ i < j /\ commits[j] = r
     /\ req[r].op = "remove" /\ req[commits[i]].op = "remove"
     /\ req[commits[i]].of = req[r].of}

LiveBytes  == Cardinality(ByteSet(req, live))
FreedAgain == Cardinality(ByteSet(req, Again))

\* The counter that the limit is enforced on is exact but for what was freed twice: whatever
\* overlaps, is late or comes again, it moves by what is stored, and only a removal that found
\* a resource which another removal deleted in the meantime takes off what is not there.
StorageExact == used = LiveBytes - FreedAgain

\* So an organisation never stores more than the largest ceiling it was ever sold and what was
\* freed twice.
NeverBeyondSold == synced => \E s \in Sold : LiveBytes <= s + FreedAgain

\* The check of create decides: a resource that fits by what lockForUpdate returned is never
\* refused by the constraint afterwards.
BackstopUnneeded ==
  \A r \in Requests : Creating(r) /\ Fits(r) => CheckStorage(used + req[r].size)

Lowered(r) == Changed(r) /\ req[r].plan < req[r].from

\* No usage event is buried unless more plans were lowered under the handler than it retries.
UsageNeverBuried ==
  faults = 0 => dead[Ceiling] = {}
                /\ (dead[Usage] # {} =>
                      Cardinality({r \in Requests : Lowered(r)}) > MaxRetries)

Quiet == /\ \A r \in Requests : pc[r] \in {"idle", "done"}
         /\ \A g \in Groups : phase[g] = "idle" /\ offset[g] = Len(Topic(g))

\* Nothing failed, the consumer has seen all, no plan was lowered, and events were published in
\* the order of the commits they are about.
Undisturbed == /\ faults = 0 /\ origin[Usage] = 0
               /\ \A r \in Requests : ~Lowered(r)
               /\ log[ResourceTopic] = commits

\* Then the displayed usage ends up as the enforced one.
DisplayConverges == Quiet /\ Undisturbed => display = used

-----------------------------------------------------------------------------
(* The inductive invariant, beside that of KafkaConsumerProps *)

\* What lockForUpdate returned stays true until the transaction ends.
LockKnows ==
  \A r \in Requests :
    pc[r] = "locked" => lock = r /\ seen[r] = [used |-> used, ceiling |-> ceiling]

\* The events about plans are those of committed changes.
EventsOfChanges ==
  \A i \in 1..Len(log[SubscriptionTopic]) : Changed(log[SubscriptionTopic][i])

\* The enforced ceiling never exceeds all that were sold.
CeilingWasSold == synced => \E s \in Sold : ceiling <= s

StorageInv == StorageTypeOK /\ LockKnows /\ EventsOfChanges /\ CeilingWasSold

\* A commit is of a request that is past its transaction, and of one alone.
CommitsAre ==
  /\ commits \in Seq(Requests)
  /\ \A i \in 1..Len(commits) : /\ pc[commits[i]] \in {"publish", "done"}
                                /\ req[commits[i]].op \in {"create", "remove"}
  /\ \A i, j \in 1..Len(commits) : commits[i] = commits[j] => i = j

Committed(r) == \E i \in 1..Len(commits) : commits[i] = r

\* A resource is live until the first commit of a removal.
ResourcesAre ==
  /\ live \cap deleted = {}
  /\ \A x \in live \cup deleted : Committed(x) /\ req[x].op = "create"
  /\ \A x \in Requests :
       x \in deleted <=> \E i \in 1..Len(commits) : /\ req[commits[i]].op = "remove"
                                                     /\ req[commits[i]].of = x

\* A removal frees what the resource it has found takes.
RemovalsAre ==
  \A r \in Requests :
    req[r].op = "remove" /\ pc[r] \in {"found", "locked"} =>
      /\ req[r].of \in live \cup deleted
      /\ req[r].size = req[req[r].of].size

\* The counter is what is stored, less what was freed twice.
UsedIsStored ==
  /\ ~synced => used = 0 /\ commits = <<>> /\ \A r \in Requests : pc[r] # "locked"
  /\ IsFiniteSet(ByteSet(req, live)) /\ IsFiniteSet(ByteSet(req, Again))
  /\ StorageExact

BytesInv == CommitsAre /\ ResourcesAre /\ RemovalsAre /\ UsedIsStored

\* While nothing fails, each attempt of the usage handler beyond the first was cost by a plan that
\* was lowered under it.
Lowerings == {r \in Requests : Lowered(r)}

ViewIsOpen == view.open => phase[Usage] = "handle" /\ assigned

AttemptsAreLowerings ==
  /\ IsFiniteSet(Lowerings)
  /\ faults = 0 =>
       /\ attempt[Ceiling] = 0 /\ phase[Ceiling] \notin {"dlq", "dlqCommit"} /\ dead[Ceiling] = {}
       /\ attempt[Usage] <= Cardinality(Lowerings)
       /\ view.open /\ plan < view.plan => attempt[Usage] < Cardinality(Lowerings)
       /\ phase[Usage] \in {"dlq", "dlqCommit"} \/ dead[Usage] # {}
            => MaxRetries < Cardinality(Lowerings)

AttemptsInv == ViewIsOpen /\ AttemptsAreLowerings

\* Before its transaction ends, a request is about a resource or about nothing yet.
AskedIs ==
  \A r \in Requests : /\ pc[r] = "idle" => req[r].op = "none"
                      /\ pc[r] \in {"found", "locked"} => req[r].op \in {"create", "remove"}

\* The usage after the first k commits c of the requests q.
Bytes(q, c, o, k) == Cardinality(ByteSet(q, {c[i] : i \in {i \in 1..k : q[c[i]].op = o}}))
After(q, c, k)    == Bytes(q, c, "create", k) - Bytes(q, c, "remove", k)

\* What the counter has been was within the plan, as long as no plan was lowered.
WithinPlan ==
  /\ used = After(req, commits, Len(commits))
  /\ \A k \in 0..Len(commits) : /\ After(req, commits, k) >= 0
                                /\ Lowerings = {} => After(req, commits, k) <= plan
  /\ Lowerings = {} => \A s \in Sold : s <= plan
  /\ ~assigned => Sold = {}

\* The events of resources are those of requests that are over.
EventsOfDone == \A i \in 1..Len(log[ResourceTopic]) : At(log[ResourceTopic][i], "done")

\* While nothing fails, nothing is delivered twice.
SeenInOrder ==
  faults = 0 =>
    /\ phase[Usage] = "down" => offset[Usage] = 0 /\ origin[Usage] = 0 /\ display = 0
    /\ phase[Usage] # "skipCommit"
    /\ \A e \in consumed[Usage] :
         \E i \in 1..Len(Topic(Usage)) :
           /\ Topic(Usage)[i] = e
           /\ i <= offset[Usage] \/ (phase[Usage] = "commit" /\ i = offset[Usage] + 1)

\* Undisturbed so far: the events that were published are those of the first commits.
InOrder ==
  /\ Len(log[ResourceTopic]) <= Len(commits)
  /\ \A i \in 1..Len(log[ResourceTopic]) : log[ResourceTopic][i] = commits[i]
SoFar == faults = 0 /\ origin[Usage] = 0 /\ Lowerings = {} /\ InOrder

\* Then the display follows the commits, one by one.
DisplayFollows ==
  SoFar =>
    /\ phase[Usage] \in {"down", "idle", "handle"} => display = After(req, commits, offset[Usage])
    /\ phase[Usage] \in {"mark", "commit"} => display = After(req, commits, offset[Usage] + 1)
    /\ view.open => /\ view.display = display
                    /\ After(req, commits, offset[Usage] + 1) <= view.plan

DisplayInv == AskedIs /\ WithinPlan /\ EventsOfDone /\ SeenInOrder /\ DisplayFollows
=============================================================================
