-------------------------- MODULE StorageUsageProofs --------------------------
(***************************************************************************)
(* Proofs about what Storage counts: the counter is what is stored less    *)
(* what was freed twice, so no more is stored than a plan ever sold; the   *)
(* usage handler gives an event up only when plans are lowered under it;   *)
(* and the displayed usage follows the commits.                            *)
(***************************************************************************)
EXTENDS StorageProofs, FiniteSetTheorems

-----------------------------------------------------------------------------
(* Bytes *)

LEMMA BytesOfOne ==
  ASSUME NEW r, NEW n \in Nat
  PROVE  IsFiniteSet({r} \X (1..n)) /\ Cardinality({r} \X (1..n)) = n
<1>1. IsFiniteSet({r}) /\ Cardinality({r}) = 1
  BY FS_Singleton
<1>2. IsFiniteSet(1..n) /\ Cardinality(1..n) = n
  BY FS_Interval
<1>3. /\ IsFiniteSet({r} \X (1..n))
      /\ Cardinality({r} \X (1..n)) = Cardinality({r}) * Cardinality(1..n)
  BY <1>1, <1>2, FS_Product
<1> QED
  BY <1>1, <1>2, <1>3

\* One more resource takes its size more.
LEMMA ByteAdd ==
  ASSUME NEW q, NEW R, NEW r, r \notin R, q[r].size \in Nat, IsFiniteSet(ByteSet(q, R))
  PROVE  /\ IsFiniteSet(ByteSet(q, R \cup {r}))
         /\ Cardinality(ByteSet(q, R \cup {r})) = Cardinality(ByteSet(q, R)) + q[r].size
<1> DEFINE B == ByteSet(q, R)
           C == {r} \X (1..q[r].size)
<1>1. ByteSet(q, R \cup {r}) = B \cup C
  BY DEF ByteSet
<1>2. B \cap C = {}
  BY DEF ByteSet
<1>3. IsFiniteSet(C) /\ Cardinality(C) = q[r].size
  BY BytesOfOne
<1>4. /\ IsFiniteSet(B \cup C)
      /\ Cardinality(B \cup C) = Cardinality(B) + Cardinality(C) - Cardinality(B \cap C)
  BY <1>3, FS_Union
<1>5. Cardinality(B \cap C) = 0 /\ Cardinality(B) \in Nat
  BY <1>2, FS_EmptySet, FS_CardinalityType
<1>6. IsFiniteSet(B \cup C) /\ Cardinality(B \cup C) = Cardinality(B) + q[r].size
  <2> HIDE DEF B, C
  <2> QED
    BY <1>3, <1>4, <1>5
<1> QED
  BY <1>1, <1>6

\* One less takes its size less.
LEMMA ByteRemove ==
  ASSUME NEW q, NEW R, NEW r \in R, q[r].size \in Nat, IsFiniteSet(ByteSet(q, R))
  PROVE  /\ IsFiniteSet(ByteSet(q, R \ {r}))
         /\ Cardinality(ByteSet(q, R \ {r})) = Cardinality(ByteSet(q, R)) - q[r].size
<1>1. (R \ {r}) \cup {r} = R
  OBVIOUS
<1>2. ByteSet(q, R \ {r}) \subseteq ByteSet(q, R)
  BY DEF ByteSet
<1>3. IsFiniteSet(ByteSet(q, R \ {r}))
  BY <1>2, FS_Subset
<1>4. Cardinality(ByteSet(q, R)) = Cardinality(ByteSet(q, R \ {r})) + q[r].size
  BY <1>1, <1>3, ByteAdd
<1>5. Cardinality(ByteSet(q, R \ {r})) \in Nat
  BY <1>3, FS_CardinalityType
<1> QED
  BY <1>3, <1>4, <1>5

\* Only the sizes matter.
LEMMA ByteSame ==
  ASSUME NEW p, NEW q, NEW R, \A r \in R : p[r].size = q[r].size
  PROVE  ByteSet(p, R) = ByteSet(q, R)
BY DEF ByteSet

LEMMA ByteNone == ASSUME NEW q PROVE IsFiniteSet(ByteSet(q, {})) /\ Cardinality(ByteSet(q, {})) = 0
<1>1. ByteSet(q, {}) = {}
  BY DEF ByteSet
<1> QED
  BY <1>1, FS_EmptySet

-----------------------------------------------------------------------------
(* What a step leaves alone *)

\* What was asked is asked once.
LEMMA AskedOnce ==
  ASSUME StorageTypeOK, [StorageNext]_allvars, NEW q \in Requests, pc[q] # "idle"
  PROVE  req'[q] = req[q]
<1>1. ASSUME NEW r \in Requests, Request(r) PROVE req'[q] = req[q]
  <2>1. CASE q = r
    BY <1>1, <2>1 DEF Request, AssignDefaultPlan, ChangePlan, ChangePlanRefused, NotSynced, StartCreate,
       CreateCommit, CreateReject, RemoveRead, RemoveRefused, RemoveLock, RemoveCommit, CheckAbort,
       RequestCrash, PublishEvent, At
  <2>2. CASE q # r
    BY <1>1, <2>2 DEF Request, AssignDefaultPlan, ChangePlan, ChangePlanRefused, NotSynced, StartCreate,
       CreateCommit, CreateReject, RemoveRead, RemoveRefused, RemoveLock, RemoveCommit, CheckAbort,
       RequestCrash, PublishEvent, Ask, StorageTypeOK
  <2> QED
    BY <2>1, <2>2
<1>2. ASSUME ~(\E r \in Requests : Request(r)) PROVE req' = req
  BY <1>2 DEF StorageNext, RefreshCeiling, ReadUsage, WriteUsage, WriteUsageRefused, Consume, handlers,
              allvars, svars
<1> QED
  BY <1>1, <1>2

\* A commit is not taken back.
LEMMA PastCommit ==
  ASSUME StorageTypeOK, [StorageNext]_allvars, NEW q \in Requests, pc[q] \in {"publish", "done"}
  PROVE  pc'[q] \in {"publish", "done"} /\ (pc[q] = "done" => pc'[q] = "done") /\ req'[q] = req[q]
<1>0. req'[q] = req[q]
  BY AskedOnce
<1>1. ASSUME NEW r \in Requests, Request(r), q # r PROVE pc'[q] = pc[q]
  BY <1>1 DEF Request, AssignDefaultPlan, ChangePlan, ChangePlanRefused, NotSynced, StartCreate,
     CreateCommit, CreateReject, RemoveRead, RemoveRefused, RemoveLock, RemoveCommit, CheckAbort,
     RequestCrash, PublishEvent, LockForUpdate, Goto, StorageTypeOK
<1>2. ASSUME Request(q) PROVE pc[q] = "publish" /\ pc'[q] = "done"
  <2>1. PublishEvent(q)
    BY <1>2 DEF Request, AssignDefaultPlan, ChangePlan, ChangePlanRefused, NotSynced, StartCreate,
       CreateCommit, CreateReject, RemoveRead, RemoveRefused, RemoveLock, RemoveCommit, CheckAbort,
       RequestCrash, At, Creating, Removing
  <2> QED
    BY <2>1 DEF PublishEvent, At, Goto, StorageTypeOK
<1>3. ASSUME ~(\E r \in Requests : Request(r)) PROVE pc' = pc
  BY <1>3 DEF StorageNext, RefreshCeiling, ReadUsage, WriteUsage, WriteUsageRefused, Consume, handlers,
              allvars, svars
<1> QED
  BY <1>0, <1>1, <1>2, <1>3

ResourceCommit(r) == CreateCommit(r) \/ RemoveCommit(r)

LEMMA OnlyCommits ==
  ASSUME [StorageNext]_allvars, ~(\E r \in Requests : ResourceCommit(r))
  PROVE  /\ live' = live /\ deleted' = deleted /\ commits' = commits
         /\ used' = used \/ (RefreshCeiling /\ ~synced /\ used' = 0)
<1>1. live' = live /\ deleted' = deleted /\ commits' = commits
  BY DEF ResourceCommit, StorageNext, Request, AssignDefaultPlan, ChangePlan, ChangePlanRefused, NotSynced,
     StartCreate, CreateReject, RemoveRead, RemoveRefused, RemoveLock, CheckAbort, RequestCrash,
     PublishEvent, RefreshCeiling, ReadUsage, WriteUsage, WriteUsageRefused, Consume, resources, svars, allvars
<1>2. ASSUME ~RefreshCeiling PROVE used' = used
  BY <1>2 DEF ResourceCommit, StorageNext, Request, AssignDefaultPlan, ChangePlan, ChangePlanRefused, NotSynced,
     StartCreate, CreateReject, RemoveRead, RemoveRefused, RemoveLock, CheckAbort, RequestCrash,
     PublishEvent, ReadUsage, WriteUsage, WriteUsageRefused, Consume, cache, svars, allvars
<1>3. ASSUME RefreshCeiling, synced PROVE used' = used
  BY <1>3 DEF RefreshCeiling
<1>4. ASSUME RefreshCeiling, ~synced PROVE used' = 0
  BY <1>4 DEF RefreshCeiling
<1> QED
  BY <1>1, <1>2, <1>3, <1>4

\* A commit: the request it is of, and what it appends.
LEMMA CommitOf ==
  ASSUME StorageTypeOK, CommitsAre, NEW r \in Requests, ResourceCommit(r)
  PROVE  /\ pc[r] = "locked" /\ pc'[r] = "publish" /\ req' = req /\ req[r].op \in {"create", "remove"}
         /\ commits' = Append(commits, r) /\ ~Committed(r)
         /\ Len(commits') = Len(commits) + 1 /\ commits'[Len(commits) + 1] = r
         /\ \A i \in 1..Len(commits) : commits'[i] = commits[i] /\ commits[i] \in Requests
         /\ \A i \in 1..Len(commits') : i \in 1..Len(commits) \/ i = Len(commits) + 1
         /\ Len(commits) \in Nat
<1>1. /\ pc[r] = "locked" /\ pc'[r] = "publish" /\ req' = req /\ req[r].op \in {"create", "remove"}
      /\ commits' = Append(commits, r)
  BY DEF ResourceCommit, CreateCommit, RemoveCommit, Creating, Removing, At, Goto, StorageTypeOK
<1>2. ~Committed(r)
  BY <1>1 DEF CommitsAre, Committed
<1>3. commits \in Seq(Requests)
  BY DEF CommitsAre
<1> QED
  BY <1>1, <1>2, <1>3

LEMMA CommitsAreStep ==
  ASSUME StorageTypeOK, CommitsAre, [StorageNext]_allvars PROVE CommitsAre'
<1>0. /\ commits \in Seq(Requests)
      /\ \A i \in 1..Len(commits) : commits[i] \in Requests
  BY DEF CommitsAre
<1>1. \A i \in 1..Len(commits) : /\ pc'[commits[i]] \in {"publish", "done"}
                                 /\ req'[commits[i]].op \in {"create", "remove"}
  BY <1>0, PastCommit DEF CommitsAre
<1>2. ASSUME NEW r \in Requests, ResourceCommit(r) PROVE CommitsAre'
  <2>1. commits' \in Seq(Requests)
    BY <1>0, <1>2, CommitOf
  <2>2. ASSUME NEW i \in 1..Len(commits')
        PROVE  pc'[commits'[i]] \in {"publish", "done"} /\ req'[commits'[i]].op \in {"create", "remove"}
    BY <1>1, <1>2, <2>2, CommitOf
  <2>3. ASSUME NEW i \in 1..Len(commits'), NEW j \in 1..Len(commits'), commits'[i] = commits'[j]
        PROVE  i = j
    BY <1>2, <2>3, CommitOf DEF Committed, CommitsAre
  <2> QED
    BY <2>1, <2>2, <2>3 DEF CommitsAre
<1>3. ASSUME commits' = commits PROVE CommitsAre'
  BY <1>0, <1>1, <1>3 DEF CommitsAre
<1> QED
  BY <1>2, <1>3, OnlyCommits

\* Commits stay, with what they are of.
LEMMA CommittedStays ==
  ASSUME StorageTypeOK, CommitsAre, [StorageNext]_allvars
  PROVE  /\ \A x \in Requests : Committed(x) => Committed(x)' /\ req'[x] = req[x]
         /\ \A i \in 1..Len(commits) : /\ i \in 1..Len(commits') /\ commits'[i] = commits[i]
                                       /\ commits[i] \in Requests /\ req'[commits[i]] = req[commits[i]]
<1>0. \A i \in 1..Len(commits) : commits[i] \in Requests
  BY DEF CommitsAre
<1>1. \A i \in 1..Len(commits) : req'[commits[i]] = req[commits[i]]
  BY <1>0, PastCommit DEF CommitsAre
<1>2. \A i \in 1..Len(commits) : i \in 1..Len(commits') /\ commits'[i] = commits[i]
  BY OnlyCommits, CommitOf
<1>3. \A x \in Requests : Committed(x) => Committed(x)' /\ req'[x] = req[x]
  BY <1>1, <1>2 DEF Committed
<1> QED
  BY <1>0, <1>1, <1>2, <1>3

LEMMA ResourcesAreStep ==
  ASSUME StorageTypeOK, CommitsAre, ResourcesAre, RemovalsAre, [StorageNext]_allvars
  PROVE  ResourcesAre'
<1>0. live \subseteq Requests /\ deleted \subseteq Requests /\ CommitsAre'
  BY CommitsAreStep DEF StorageTypeOK
<1>1. \A x \in live \cup deleted : Committed(x)' /\ req'[x].op = "create"
  BY <1>0, CommittedStays DEF ResourcesAre
<1>2. ASSUME live' = live, deleted' = deleted, commits' = commits PROVE ResourcesAre'
  <2>1. live' \cap deleted' = {}
    BY <1>2 DEF ResourcesAre
  <2>2. \A x \in Requests :
          x \in deleted' <=> \E i \in 1..Len(commits') : /\ req'[commits'[i]].op = "remove"
                                                         /\ req'[commits'[i]].of = x
    BY <1>2, CommittedStays DEF ResourcesAre
  <2> QED
    BY <1>1, <1>2, <2>1, <2>2 DEF ResourcesAre
<1>3. ASSUME NEW r \in Requests, CreateCommit(r) PROVE ResourcesAre'
  <2>0. ResourceCommit(r) /\ req[r].op = "create" /\ live' = live \cup {r} /\ deleted' = deleted
    BY <1>3 DEF ResourceCommit, CreateCommit, Creating
  <2>1. live' \cap deleted' = {}
    BY <2>0, CommitOf DEF ResourcesAre
  <2>2. Committed(r)' /\ req'[r].op = "create"
    <3>1. Len(commits') = Len(commits) + 1 /\ commits'[Len(commits) + 1] = r /\ Len(commits) \in Nat
      BY <2>0, CommitOf
    <3>2. Len(commits) + 1 \in 1..Len(commits')
      BY <3>1
    <3> QED
      BY <2>0, <3>1, <3>2, CommitOf DEF Committed
  <2>3. ASSUME NEW x \in Requests
        PROVE  x \in deleted' <=> \E i \in 1..Len(commits') : /\ req'[commits'[i]].op = "remove"
                                                               /\ req'[commits'[i]].of = x
    <3>1. \A i \in 1..Len(commits') : req'[commits'[i]].op = "remove" =>
            i \in 1..Len(commits) /\ commits'[i] = commits[i] /\ req' = req
      BY <2>0, CommitOf
    <3>2. \A i \in 1..Len(commits) : i \in 1..Len(commits') /\ commits'[i] = commits[i] /\ req' = req
      BY <2>0, CommittedStays, CommitOf
    <3> QED
      BY <2>0, <3>1, <3>2 DEF ResourcesAre
  <2> QED
    BY <1>1, <2>0, <2>1, <2>2, <2>3 DEF ResourcesAre
<1>4. ASSUME NEW r \in Requests, RemoveCommit(r) PROVE ResourcesAre'
  <2> DEFINE y == req[r].of
  <2>0. /\ ResourceCommit(r) /\ req[r].op = "remove" /\ pc[r] = "locked"
        /\ live' = live \ {y} /\ deleted' = deleted \cup {y}
        /\ y \in live \cup deleted
    BY <1>4 DEF ResourceCommit, RemoveCommit, Removing, RemovalsAre, At
  <2>1. live' \cap deleted' = {}
    BY <2>0 DEF ResourcesAre
  <2>2. live' \cup deleted' \subseteq live \cup deleted
    BY <2>0
  <2>3. ASSUME NEW x \in Requests
        PROVE  x \in deleted' <=> \E i \in 1..Len(commits') : /\ req'[commits'[i]].op = "remove"
                                                               /\ req'[commits'[i]].of = x
    <3>1. /\ req' = req /\ commits'[Len(commits) + 1] = r /\ Len(commits) + 1 \in 1..Len(commits')
          /\ \A i \in 1..Len(commits) : i \in 1..Len(commits') /\ commits'[i] = commits[i]
          /\ \A i \in 1..Len(commits') : i \in 1..Len(commits) \/ i = Len(commits) + 1
      BY <2>0, CommitOf
    <3>2. CASE x = y
      BY <2>0, <3>1, <3>2
    <3>3. CASE x # y
      BY <2>0, <3>1, <3>3 DEF ResourcesAre
    <3> QED
      BY <3>2, <3>3
  <2> QED
    BY <1>1, <2>1, <2>2, <2>3 DEF ResourcesAre
<1> QED
  BY <1>2, <1>3, <1>4, OnlyCommits DEF ResourceCommit

LEMMA RemovalsAreStep ==
  ASSUME StorageTypeOK, CommitsAre, ResourcesAre, RemovalsAre, [StorageNext]_allvars
  PROVE  RemovalsAre'
<1>0. live \subseteq Requests /\ deleted \subseteq Requests /\ live \subseteq live' \cup deleted'
      /\ deleted \subseteq deleted'
  <2>1. live \subseteq Requests /\ deleted \subseteq Requests
    BY DEF StorageTypeOK
  <2>2. live \subseteq live' \cup deleted' /\ deleted \subseteq deleted'
    BY OnlyCommits DEF ResourceCommit, CreateCommit, RemoveCommit
  <2> QED
    BY <2>1, <2>2
<1>1. \A x \in live \cup deleted : x \in live' \cup deleted' /\ req'[x] = req[x]
  BY <1>0, CommittedStays DEF ResourcesAre
<1>2. ASSUME NEW q \in Requests, req'[q] = req[q], pc[q] \in {"found", "locked"}, req'[q].op = "remove"
      PROVE  req'[q].of \in live' \cup deleted' /\ req'[q].size = req'[req'[q].of].size
  BY <1>1, <1>2 DEF RemovalsAre
<1>3. SUFFICES ASSUME NEW q \in Requests, req'[q].op = "remove", pc'[q] \in {"found", "locked"}
               PROVE  req'[q].of \in live' \cup deleted' /\ req'[q].size = req'[req'[q].of].size
  BY DEF RemovalsAre
<1>4. CASE pc[q] \in {"found", "locked"}
  BY <1>2, <1>3, <1>4, AskedOnce
<1>5. CASE pc[q] \notin {"found", "locked"}
  <2>1. pc[q] = "idle"
    <3>1. pc[q] \in {"idle", "found", "locked", "publish", "done"}
      BY DEF StorageTypeOK
    <3> QED
      BY <1>3, <1>5, <3>1, PastCommit
  <2>2. PICK r \in Requests : Request(r)
    <3>1. ASSUME ~(\E r \in Requests : Request(r)) PROVE pc' = pc
      BY <3>1 DEF StorageNext, RefreshCeiling, ReadUsage, WriteUsage, WriteUsageRefused, Consume, handlers,
                  allvars, svars
    <3> QED
      BY <1>3, <1>5, <3>1
  <2>3. q = r
    BY <1>3, <1>5, <2>2 DEF Request, AssignDefaultPlan, ChangePlan, ChangePlanRefused, NotSynced, StartCreate,
       CreateCommit, CreateReject, RemoveRead, RemoveRefused, RemoveLock, RemoveCommit, CheckAbort,
       RequestCrash, PublishEvent, LockForUpdate, Goto, StorageTypeOK
  <2>4. \/ \E n \in Sizes : StartCreate(q, n)
        \/ \E x \in live : RemoveRead(q, x)
    <3>1. pc'[q] \notin {"publish", "done"}
      BY <1>3
    <3> QED
      BY <2>1, <2>2, <2>3, <3>1 DEF Request, AssignDefaultPlan, ChangePlan, ChangePlanRefused, NotSynced,
       CreateCommit, CreateReject, RemoveRefused, RemoveLock, RemoveCommit, CheckAbort,
       RequestCrash, PublishEvent, Goto, StorageTypeOK, At, Creating, Removing
  <2>5. ASSUME NEW n \in Sizes, StartCreate(q, n) PROVE FALSE
    BY <1>3, <2>5 DEF StartCreate, Ask, Form, StorageTypeOK
  <2>6. ASSUME NEW x \in live, RemoveRead(q, x)
        PROVE  req'[q].of \in live' \cup deleted' /\ req'[q].size = req'[req'[q].of].size
    <3>1. req'[q].of = x /\ req'[q].size = req[x].size
      BY <2>6 DEF RemoveRead, Ask, Form, StorageTypeOK
    <3> QED
      BY <1>1, <2>6, <3>1
  <2> QED
    BY <2>4, <2>5, <2>6
<1> QED
  BY <1>4, <1>5

-----------------------------------------------------------------------------
(* The counter and what is stored *)

\* What was freed twice was freed by a commit.
LEMMA AgainIs ==
  ASSUME StorageTypeOK, CommitsAre
  PROVE  /\ \A r \in Again : Committed(r)
         /\ \A r \in live \cup Again : r \in Requests /\ req[r].size \in Nat
BY DEF Again, Committed, StorageTypeOK

\* Only a commit of a removal makes another one of the same resource a second.
LEMMA AgainStep ==
  ASSUME StorageTypeOK, CommitsAre, NEW r \in Requests, ResourceCommit(r)
  PROVE  Again' = IF req[r].op = "remove"
                     /\ \E i \in 1..Len(commits) : /\ req[commits[i]].op = "remove"
                                                   /\ req[commits[i]].of = req[r].of
                  THEN Again \cup {r} ELSE Again
<1> DEFINE n == Len(commits)
           Second == /\ req[r].op = "remove"
                     /\ \E i \in 1..n : /\ req[commits[i]].op = "remove"
                                        /\ req[commits[i]].of = req[r].of
<1>1. /\ req' = req /\ ~Committed(r) /\ n \in Nat /\ Len(commits') = n + 1 /\ commits'[n + 1] = r
      /\ \A i \in 1..n : commits'[i] = commits[i]
  BY CommitOf
<1>2. ASSUME NEW q \in Requests, NEW i \in 1..n, NEW j \in 1..n, i < j,
             commits'[j] = q, req[q].op = "remove", req[commits'[i]].op = "remove",
             req[commits'[i]].of = req[q].of
      PROVE  q \in Again
  BY <1>1, <1>2 DEF Again
<1>3. ASSUME NEW q \in Again PROVE q \in Again'
  <2>1. PICK i \in 1..n, j \in 1..n :
          /\ i < j /\ commits[j] = q /\ q \in Requests
          /\ req[q].op = "remove" /\ req[commits[i]].op = "remove" /\ req[commits[i]].of = req[q].of
    BY <1>3 DEF Again
  <2>2. i \in 1..Len(commits') /\ j \in 1..Len(commits')
    BY <1>1
  <2> QED
    BY <1>1, <2>1, <2>2 DEF Again
<1>4. ASSUME NEW q \in Again' PROVE q \in Again \/ (q = r /\ Second)
  <2>1. PICK i \in 1..(n + 1), j \in 1..(n + 1) :
          /\ i < j /\ commits'[j] = q /\ q \in Requests
          /\ req[q].op = "remove" /\ req[commits'[i]].op = "remove" /\ req[commits'[i]].of = req[q].of
    BY <1>1, <1>4 DEF Again
  <2>2. i \in 1..n
    BY <1>1, <2>1
  <2>3. CASE j \in 1..n
    BY <1>2, <2>1, <2>2, <2>3
  <2>4. CASE j = n + 1
    BY <1>1, <2>1, <2>2, <2>4
  <2> QED
    BY <1>1, <2>1, <2>3, <2>4
<1>5. ASSUME Second PROVE r \in Again'
  <2>1. PICK i \in 1..n : req[commits[i]].op = "remove" /\ req[commits[i]].of = req[r].of
    BY <1>5
  <2>2. i \in 1..Len(commits') /\ n + 1 \in 1..Len(commits') /\ i < n + 1
    BY <1>1
  <2> QED
    BY <1>1, <1>5, <2>1, <2>2 DEF Again
<1> QED
  BY <1>3, <1>4, <1>5

LEMMA UsedStep ==
  ASSUME StorageTypeOK, LockKnows, CommitsAre, ResourcesAre, RemovalsAre, UsedIsStored,
         [StorageNext]_allvars
  PROVE  UsedIsStored'
<1>0. /\ IsFiniteSet(ByteSet(req, live)) /\ IsFiniteSet(ByteSet(req, Again))
      /\ used = Cardinality(ByteSet(req, live)) - Cardinality(ByteSet(req, Again))
      /\ Cardinality(ByteSet(req, live)) \in Nat /\ Cardinality(ByteSet(req, Again)) \in Nat
      /\ used \in Nat
  BY FS_CardinalityType DEF UsedIsStored, StorageExact, LiveBytes, FreedAgain, StorageTypeOK
<1>1. ASSUME ~(\E r \in Requests : ResourceCommit(r)) PROVE UsedIsStored'
  <2>1. live' = live /\ commits' = commits /\ (used' = used \/ (RefreshCeiling /\ ~synced /\ used' = 0))
    BY <1>1, OnlyCommits
  <2>2. \A r \in Requests : Committed(r) => req'[r] = req[r]
    BY CommittedStays
  <2>3. \A r \in live : req'[r].size = req[r].size
    BY <2>2 DEF ResourcesAre, StorageTypeOK
  <2>4. \A r \in Again : req'[r].size = req[r].size
    BY <2>2, AgainIs
  <2>5. Again' = Again
    <3>1. \A i \in 1..Len(commits) : req'[commits[i]] = req[commits[i]]
      BY CommittedStays
    <3>2. ASSUME NEW r \in Requests PROVE r \in Again' <=> r \in Again
      BY <2>1, <3>1 DEF Again
    <3>3. Again' \subseteq Requests /\ Again \subseteq Requests
      BY DEF Again
    <3> QED
      BY <3>2, <3>3
  <2>6. ByteSet(req', live') = ByteSet(req, live) /\ ByteSet(req', Again') = ByteSet(req, Again)
    BY <2>1, <2>3, <2>4, <2>5, ByteSame
  <2>7. used' = used
    <3>1. CASE RefreshCeiling /\ ~synced /\ used' = 0
      BY <3>1 DEF UsedIsStored
    <3> QED
      BY <2>1, <3>1
  <2>8. ~synced' => ~synced
    BY <1>1 DEF ResourceCommit, StorageNext, Request, AssignDefaultPlan, ChangePlan, ChangePlanRefused,
     NotSynced, StartCreate, CreateReject, RemoveRead, RemoveRefused, RemoveLock, CheckAbort, RequestCrash,
     PublishEvent, RefreshCeiling, ReadUsage, WriteUsage, WriteUsageRefused, Consume, cache, svars, allvars
  <2>9. ASSUME ~synced', NEW q \in Requests PROVE pc'[q] # "locked"
    <3>1. ~synced /\ pc[q] # "locked"
      BY <2>8, <2>9 DEF UsedIsStored
    <3>2. ASSUME NEW r \in Requests, Request(r) PROVE pc'[q] # "locked"
      BY <3>1, <3>2 DEF Request, AssignDefaultPlan, ChangePlan, ChangePlanRefused,
        NotSynced, StartCreate, CreateCommit, CreateReject, RemoveRead, RemoveRefused, RemoveLock,
        RemoveCommit, CheckAbort, RequestCrash, PublishEvent, LockForUpdate, Goto, StorageTypeOK
    <3>3. ASSUME ~(\E r \in Requests : Request(r)) PROVE pc' = pc
      BY <3>3 DEF StorageNext, RefreshCeiling, ReadUsage, WriteUsage, WriteUsageRefused, Consume, handlers,
              allvars, svars
    <3> QED
      BY <3>1, <3>2, <3>3
  <2> QED
    BY <1>0, <2>1, <2>6, <2>7, <2>8, <2>9 DEF UsedIsStored, StorageExact, LiveBytes, FreedAgain
<1>2. ASSUME NEW r \in Requests, ResourceCommit(r) PROVE UsedIsStored'
  <2>0. /\ req' = req /\ ~Committed(r) /\ pc[r] = "locked" /\ req[r].size \in Nat
        /\ r \notin live /\ r \notin Again
    BY <1>2, CommitOf, AgainIs DEF ResourcesAre, StorageTypeOK
  <2>1. synced' = synced /\ synced
    BY <1>2, <2>0 DEF ResourceCommit, CreateCommit, RemoveCommit, UsedIsStored
  <2>2. CASE CreateCommit(r)
    <3>1. live' = live \cup {r} /\ used' = used + req[r].size /\ req[r].op = "create"
      BY <2>2 DEF CreateCommit, Creating
    <3>2. Again' = Again
      BY <1>2, <3>1, AgainStep
    <3>3. /\ IsFiniteSet(ByteSet(req, live \cup {r}))
          /\ Cardinality(ByteSet(req, live \cup {r})) = Cardinality(ByteSet(req, live)) + req[r].size
      BY <1>0, <2>0, ByteAdd
    <3> QED
      BY <1>0, <2>0, <2>1, <3>1, <3>2, <3>3 DEF UsedIsStored, StorageExact, LiveBytes, FreedAgain
  <2>3. CASE RemoveCommit(r)
    <3> DEFINE x == req[r].of
               Earlier == \E i \in 1..Len(commits) : /\ req[commits[i]].op = "remove"
                                                     /\ req[commits[i]].of = x
    <3>1. /\ live' = live \ {x} /\ used' = used - req[r].size /\ req[r].op = "remove"
          /\ x \in live \cup deleted /\ req[r].size = req[x].size /\ x \in Requests
          /\ req[x].size \in Nat
      BY <2>0, <2>3 DEF RemoveCommit, Removing, RemovalsAre, StorageTypeOK
    <3>2. x \in deleted <=> Earlier
      BY <3>1 DEF ResourcesAre
    <3>3. CASE x \in live
      <4>1. x \notin deleted
        BY <3>3 DEF ResourcesAre
      <4>2. Again' = Again
        BY <1>2, <3>1, <3>2, <4>1, AgainStep
      <4>3. /\ IsFiniteSet(ByteSet(req, live \ {x}))
            /\ Cardinality(ByteSet(req, live \ {x})) = Cardinality(ByteSet(req, live)) - req[x].size
        BY <1>0, <3>1, <3>3, ByteRemove
      <4> QED
        BY <1>0, <2>0, <2>1, <3>1, <4>2, <4>3 DEF UsedIsStored, StorageExact, LiveBytes, FreedAgain
    <3>4. CASE x \notin live
      <4>1. x \in deleted /\ live' = live
        BY <3>1, <3>4
      <4>2. Again' = Again \cup {r}
        BY <1>2, <3>1, <3>2, <4>1, AgainStep
      <4>3. /\ IsFiniteSet(ByteSet(req, Again \cup {r}))
            /\ Cardinality(ByteSet(req, Again \cup {r})) = Cardinality(ByteSet(req, Again)) + req[r].size
        BY <1>0, <2>0, ByteAdd
      <4>4. /\ LiveBytes' = Cardinality(ByteSet(req, live))
            /\ FreedAgain' = Cardinality(ByteSet(req, Again)) + req[r].size
        BY <2>0, <4>1, <4>2, <4>3 DEF LiveBytes, FreedAgain
      <4>5. used' = LiveBytes' - FreedAgain'
        BY <1>0, <2>0, <3>1, <4>4
      <4>6. IsFiniteSet(ByteSet(req', live')) /\ IsFiniteSet(ByteSet(req', Again'))
        BY <1>0, <2>0, <4>1, <4>2, <4>3
      <4> QED
        BY <2>1, <4>5, <4>6 DEF UsedIsStored, StorageExact
    <3> QED
      BY <3>3, <3>4
  <2> QED
    BY <1>2, <2>2, <2>3 DEF ResourceCommit
<1> QED
  BY <1>1, <1>2

LEMMA BytesInit == StorageInit => BytesInv
<1>0. SUFFICES ASSUME StorageInit PROVE BytesInv
  OBVIOUS
<1>1. /\ commits = <<>> /\ live = {} /\ deleted = {} /\ used = 0
      /\ \A r \in Requests : pc[r] = "idle"
  BY <1>0 DEF StorageInit
<1>2. Again = {}
  BY <1>1 DEF Again
<1>3. CommitsAre /\ ResourcesAre /\ RemovalsAre
  BY <1>1 DEF CommitsAre, ResourcesAre, RemovalsAre
<1>4. UsedIsStored
  BY <1>1, <1>2, ByteNone DEF UsedIsStored, StorageExact, LiveBytes, FreedAgain
<1> QED
  BY <1>3, <1>4 DEF BytesInv

\* What is counted, in every reachable state.
THEOREM BytesCounted == StorageSpec => []BytesInv
<1>1. StorageInv /\ BytesInv /\ [StorageNext]_<<kvars, svars>> => BytesInv'
  BY CommitsAreStep, ResourcesAreStep, RemovalsAreStep, UsedStep DEF StorageInv, BytesInv, allvars
<1> QED
  BY <1>1, BytesInit, StorageInvariance, PTL DEF StorageSpec

\* The enforced counter is what is stored, less what removals of one resource freed twice.
THEOREM StorageCountedExactly == StorageSpec => []StorageExact
<1>1. BytesInv => StorageExact
  BY DEF BytesInv, UsedIsStored
<1> QED
  BY <1>1, BytesCounted, PTL

\* An organisation never stores more than the largest ceiling it was ever sold, whatever the order
\* of plan changes, events and requests, but for what overlapping removals of one resource freed
\* twice.
THEOREM NothingUnsold == StorageSpec => []NeverBeyondSold
<1>1. ASSUME StorageInv, BytesInv, synced PROVE \E s \in Sold : LiveBytes <= s + FreedAgain
  <2>1. PICK s \in Sold : ceiling <= s
    BY <1>1 DEF StorageInv, CeilingWasSold
  <2>2. s \in Nat /\ used \in Nat /\ ceiling \in Nat /\ used <= ceiling
    BY <1>1, <2>1 DEF StorageInv, StorageTypeOK, Sold
  <2>3. used = LiveBytes - FreedAgain /\ LiveBytes \in Nat /\ FreedAgain \in Nat
    BY <1>1, FS_CardinalityType DEF BytesInv, UsedIsStored, StorageExact, LiveBytes, FreedAgain
  <2>4. LiveBytes <= s + FreedAgain
    BY <2>1, <2>2, <2>3
  <2> QED
    BY <2>4
<1>2. StorageInv /\ BytesInv => NeverBeyondSold
  BY <1>1 DEF NeverBeyondSold
<1> QED
  BY <1>2, BytesCounted, StorageInvariance, PTL

-----------------------------------------------------------------------------
(* The attempts of the usage handler *)

\* The requests that are not making the step stay as they are.
LEMMA OthersStay ==
  ASSUME StorageTypeOK, NEW r \in Requests, Request(r), NEW q \in Requests, q # r
  PROVE  pc'[q] = pc[q] /\ req'[q] = req[q]
<1>1. pc'[q] = pc[q]
  BY DEF Request, AssignDefaultPlan, ChangePlan, ChangePlanRefused, NotSynced, StartCreate,
     CreateCommit, CreateReject, RemoveRead, RemoveRefused, RemoveLock, RemoveCommit, CheckAbort,
     RequestCrash, PublishEvent, LockForUpdate, Goto, StorageTypeOK
<1>2. req'[q] = req[q]
  BY DEF Request, AssignDefaultPlan, ChangePlan, ChangePlanRefused, NotSynced, StartCreate,
     CreateCommit, CreateReject, RemoveRead, RemoveRefused, RemoveLock, RemoveCommit, CheckAbort,
     RequestCrash, PublishEvent, Ask, StorageTypeOK
<1> QED
  BY <1>1, <1>2

LEMMA HandlersStay ==
  ASSUME [StorageNext]_allvars, ~(\E r \in Requests : Request(r))
  PROVE  pc' = pc /\ req' = req /\ assigned' = assigned /\ plan' = plan
BY DEF StorageNext, RefreshCeiling, ReadUsage, WriteUsage, WriteUsageRefused, Consume, handlers,
       subscription, allvars, svars

\* A plan that was lowered was; a step lowers one at most, and counts it.
LEMMA LoweringsStep ==
  ASSUME StorageTypeOK, IsFiniteSet(Lowerings), [StorageNext]_allvars
  PROVE  /\ Lowerings \subseteq Lowerings' /\ IsFiniteSet(Lowerings')
         /\ Cardinality(Lowerings) \in Nat /\ Cardinality(Lowerings') \in Nat
         /\ Cardinality(Lowerings) <= Cardinality(Lowerings')
         /\ assigned /\ plan' < plan => Cardinality(Lowerings) < Cardinality(Lowerings')
<1>1. ASSUME NEW q \in Lowerings PROVE q \in Lowerings'
  <2>1. q \in Requests /\ pc[q] \in {"publish", "done"} /\ Lowered(q)
    BY <1>1 DEF Lowerings, Lowered, Changed
  <2>2. pc'[q] \in {"publish", "done"} /\ req'[q] = req[q]
    BY <2>1, PastCommit
  <2> QED
    BY <2>1, <2>2 DEF Lowerings, Lowered, Changed
<1>2. \E r : Lowerings' \subseteq Lowerings \cup {r}
  <2>1. ASSUME NEW r \in Requests, Request(r) PROVE Lowerings' \subseteq Lowerings \cup {r}
    <3>1. ASSUME NEW q \in Lowerings', q # r PROVE q \in Lowerings
      <4>1. q \in Requests /\ Lowered(q)'
        BY <3>1 DEF Lowerings
      <4>2. pc'[q] = pc[q] /\ req'[q] = req[q]
        BY <2>1, <3>1, <4>1, OthersStay
      <4> QED
        BY <4>1, <4>2 DEF Lowerings, Lowered, Changed
    <3> QED
      BY <3>1
  <2>2. ASSUME ~(\E r \in Requests : Request(r)) PROVE Lowerings' = Lowerings
    BY <2>2, HandlersStay DEF Lowerings, Lowered, Changed
  <2> QED
    BY <2>1, <2>2
<1>3. IsFiniteSet(Lowerings')
  <2>1. PICK r : Lowerings' \subseteq Lowerings \cup {r}
    BY <1>2
  <2>2. IsFiniteSet(Lowerings \cup {r})
    BY FS_AddElement
  <2> QED
    BY <2>1, <2>2, FS_Subset
<1>4. Cardinality(Lowerings) \in Nat /\ Cardinality(Lowerings') \in Nat
  BY <1>3, FS_CardinalityType
<1>5. Lowerings \subseteq Lowerings'
  BY <1>1
<1>6. Cardinality(Lowerings) <= Cardinality(Lowerings')
  BY <1>3, <1>5, FS_Subset
<1>7. ASSUME assigned, plan' < plan PROVE Cardinality(Lowerings) < Cardinality(Lowerings')
  <2>1. plan' # plan
    BY <1>7 DEF StorageTypeOK
  <2>2. PICK r \in Requests : Request(r)
    <3>1. ASSUME ~(\E r \in Requests : Request(r)) PROVE plan' = plan
      BY <3>1, HandlersStay
    <3> QED
      BY <2>1, <3>1
  <2>3. PICK p \in Plans : ChangePlan(r, p)
    BY <1>7, <2>1, <2>2 DEF Request, AssignDefaultPlan, ChangePlanRefused, NotSynced, StartCreate,
      CreateCommit, CreateReject, RemoveRead, RemoveRefused, RemoveLock, RemoveCommit, CheckAbort,
      RequestCrash, PublishEvent, subscription
  <2>4. /\ pc[r] = "idle" /\ pc'[r] = "publish" /\ plan' = p
        /\ req'[r] = Form("change", p, plan, 0, None)
    BY <2>3 DEF ChangePlan, At, Goto, Ask, StorageTypeOK
  <2>5. r \notin Lowerings
    BY <2>4 DEF Lowerings, Lowered, Changed
  <2>6. r \in Lowerings'
    BY <1>7, <2>4 DEF Lowerings, Lowered, Changed, Form
  <2>7. Cardinality(Lowerings) # Cardinality(Lowerings')
    BY <1>3, <1>5, <2>5, <2>6, FS_Subset
  <2> QED
    BY <1>4, <1>6, <2>7
<1> QED
  BY <1>3, <1>4, <1>5, <1>6, <1>7

\* A request touches the consumers only by what it publishes.
LEMMA RequestOnBus ==
  ASSUME NEW r \in Requests, Request(r)
  PROVE  /\ view' = view
         /\ \/ PublishEvent(r) /\ UNCHANGED <<cursor, delivery, ledger, plan, assigned, display, commits>>
               /\ (faults' = faults \/ Fault)
            \/ ~PublishEvent(r) /\ UNCHANGED kvars
<1>1. CASE PublishEvent(r)
  BY <1>1 DEF PublishEvent, Publish, LosePublish, subscription
<1>2. CASE ~PublishEvent(r)
  BY <1>2 DEF Request, AssignDefaultPlan, ChangePlan, ChangePlanRefused, NotSynced, StartCreate,
     CreateCommit, CreateReject, RemoveRead, RemoveRefused, RemoveLock, RemoveCommit, CheckAbort,
     RequestCrash
<1> QED
  BY <1>1, <1>2

LEMMA ViewStep ==
  ASSUME StorageTypeOK, TypeOK, ViewIsOpen, [StorageNext]_allvars PROVE ViewIsOpen'
<1>0. Usage \in Groups /\ Ceiling \in Groups /\ Usage # Ceiling
  BY StorageAssumption
<1>1. ASSUME NEW r \in Requests, Request(r) PROVE ViewIsOpen'
  <2>1. view' = view /\ phase' = phase
    BY <1>1, RequestOnBus DEF delivery, kvars
  <2>2. assigned => assigned'
    BY <1>1 DEF Request, AssignDefaultPlan, ChangePlan, ChangePlanRefused, NotSynced, StartCreate,
     CreateCommit, CreateReject, RemoveRead, RemoveRefused, RemoveLock, RemoveCommit, CheckAbort,
     RequestCrash, PublishEvent, subscription
  <2> QED
    BY <2>1, <2>2 DEF ViewIsOpen
<1>2. CASE RefreshCeiling
  <2>1. phase' = [phase EXCEPT ![Ceiling] = "mark"] /\ view' = view /\ assigned' = assigned
    BY <1>2 DEF RefreshCeiling, Handle, To, subscription
  <2> QED
    BY <1>0, <2>1 DEF ViewIsOpen, TypeOK
<1>3. CASE ReadUsage
  BY <1>3 DEF ReadUsage, ViewIsOpen, kvars, subscription
<1>4. CASE WriteUsage \/ WriteUsageRefused
  BY <1>4 DEF WriteUsage, WriteUsageRefused, ViewIsOpen, NoView
<1>5. ASSUME NEW g \in Groups, Consume(g) PROVE ViewIsOpen'
  <2>1. CASE g = Usage
    BY <1>5, <2>1 DEF Consume, ViewIsOpen, NoView
  <2>2. CASE g # Usage
    <3>1. phase'[Usage] = phase[Usage]
      BY <1>0, <1>5, <2>2 DEF Consume, Housekeeping, Join, Fetch, Mark, Bury, CommitOffset, AttemptFails,
         Redeliver, Crash, Retry, To, TypeOK
    <3>2. view' = view /\ assigned' = assigned
      BY <1>5, <2>2 DEF Consume, subscription
    <3> QED
      BY <3>1, <3>2 DEF ViewIsOpen
  <2> QED
    BY <2>1, <2>2
<1>6. CASE UNCHANGED allvars
  BY <1>6 DEF allvars, svars, kvars, ViewIsOpen
<1> QED
  BY <1>1, <1>2, <1>3, <1>4, <1>5, <1>6 DEF StorageNext

\* A step that fails nothing starts where nothing has failed.
LEMMA FaultsStay ==
  ASSUME TypeOK, [StorageNext]_allvars, faults' = 0 PROVE faults = 0 /\ ~Fault
<1>1. faults \in Nat
  BY FaultsAssumption DEF TypeOK
<1>2. ~Fault
  BY <1>1 DEF Fault
<1>3. faults' = faults \/ Fault
  <2>1. [BusNext]_kvars
    BY StorageStepsBus
  <2> QED
    BY <2>1 DEF BusNext, Housekeeping, Join, Fetch, Handle, HandleThrows, Mark, Bury, CommitOffset,
       AttemptFails, Redeliver, Crash, Publish, LosePublish, kvars
<1> QED
  BY <1>2, <1>3

LEMMA AttemptsStep ==
  ASSUME StorageTypeOK, TypeOK, ViewIsOpen, AttemptsAreLowerings, [StorageNext]_allvars
  PROVE  AttemptsAreLowerings'
<1> DEFINE L == Cardinality(Lowerings)
<1>0. /\ IsFiniteSet(Lowerings') /\ L \in Nat /\ L' \in Nat /\ L <= L'
      /\ assigned /\ plan' < plan => L < L'
  BY LoweringsStep DEF AttemptsAreLowerings
<1> HIDE DEF L
<1>1. SUFFICES ASSUME faults' = 0
               PROVE  /\ attempt'[Ceiling] = 0 /\ phase'[Ceiling] \notin {"dlq", "dlqCommit"}
                      /\ dead'[Ceiling] = {}
                      /\ attempt'[Usage] <= L'
                      /\ view'.open /\ plan' < view'.plan => attempt'[Usage] < L'
                      /\ phase'[Usage] \in {"dlq", "dlqCommit"} \/ dead'[Usage] # {} => MaxRetries < L'
  BY <1>0 DEF AttemptsAreLowerings, L
<1>2. faults = 0 /\ ~Fault
  BY <1>1, FaultsStay
<1>3. /\ attempt[Ceiling] = 0 /\ phase[Ceiling] \notin {"dlq", "dlqCommit"} /\ dead[Ceiling] = {}
      /\ attempt[Usage] <= L
      /\ view.open /\ plan < view.plan => attempt[Usage] < L
      /\ phase[Usage] \in {"dlq", "dlqCommit"} \/ dead[Usage] # {} => MaxRetries < L
  BY <1>2 DEF AttemptsAreLowerings, L
<1>4. /\ Usage \in Groups /\ Ceiling \in Groups /\ Usage # Ceiling /\ MaxRetries \in Nat
      /\ attempt[Usage] \in Nat /\ attempt[Usage] <= MaxRetries /\ attempt[Ceiling] \in Nat
      /\ plan \in Nat /\ view.plan \in Nat
  BY StorageAssumption, RetriesAssumption DEF TypeOK, StorageTypeOK
<1>5. ASSUME attempt' = attempt, phase' = phase, dead' = dead, view' = view,
             plan' \in Nat
      PROVE  /\ attempt'[Ceiling] = 0 /\ phase'[Ceiling] \notin {"dlq", "dlqCommit"}
             /\ dead'[Ceiling] = {}
             /\ attempt'[Usage] <= L'
             /\ view'.open /\ plan' < view'.plan => attempt'[Usage] < L'
             /\ phase'[Usage] \in {"dlq", "dlqCommit"} \/ dead'[Usage] # {} => MaxRetries < L'
  <2>1. attempt'[Usage] <= L'
    BY <1>0, <1>3, <1>4, <1>5
  <2>2. ASSUME view.open, plan' < view.plan PROVE attempt[Usage] < L'
    <3>1. plan < view.plan \/ plan' < plan
      BY <1>4, <1>5, <2>2
    <3>2. assigned
      BY <2>2 DEF ViewIsOpen
    <3> QED
      BY <1>0, <1>3, <1>4, <2>2, <3>1, <3>2
  <2>3. phase[Usage] \in {"dlq", "dlqCommit"} \/ dead[Usage] # {} => MaxRetries < L'
    BY <1>0, <1>3, <1>4
  <2> QED
    BY <1>3, <1>5, <2>1, <2>2, <2>3
<1>6. ASSUME NEW r \in Requests, Request(r)
      PROVE  attempt' = attempt /\ phase' = phase /\ dead' = dead /\ view' = view /\ plan' \in Nat
  <2>1. attempt' = attempt /\ phase' = phase /\ dead' = dead /\ view' = view
    BY <1>6, RequestOnBus DEF delivery, ledger, kvars
  <2>2. plan' \in Nat
    BY StorageTypeStep DEF StorageTypeOK
  <2> QED
    BY <2>1, <2>2
<1>7. CASE RefreshCeiling
  <2>1. /\ phase' = [phase EXCEPT ![Ceiling] = "mark"] /\ attempt' = attempt /\ dead' = dead
        /\ view' = view /\ plan' = plan
    BY <1>7 DEF RefreshCeiling, Handle, To, subscription
  <2>2. phase'[Ceiling] = "mark" /\ phase'[Usage] = phase[Usage]
    BY <1>4, <2>1 DEF TypeOK
  <2> QED
    BY <1>0, <1>3, <1>4, <2>1, <2>2
<1>8. CASE ReadUsage
  <2>1. attempt' = attempt /\ phase' = phase /\ dead' = dead /\ view'.plan = plan /\ plan' = plan
    BY <1>8 DEF ReadUsage, subscription, kvars
  <2> QED
    BY <1>0, <1>3, <1>4, <2>1
<1>9. CASE WriteUsage
  <2>1. /\ phase' = [phase EXCEPT ![Usage] = "mark"] /\ attempt' = attempt /\ dead' = dead
        /\ view' = NoView
    BY <1>9 DEF WriteUsage, Handle, To
  <2>2. phase'[Usage] = "mark" /\ phase'[Ceiling] = phase[Ceiling] /\ view'.open = FALSE
    BY <1>4, <2>1 DEF TypeOK, NoView
  <2> QED
    BY <1>0, <1>3, <1>4, <2>1, <2>2
<1>10. CASE WriteUsageRefused
  <2>1. view.open /\ ~CheckDisplay(Clamped) /\ HandleThrows(Usage) /\ view' = NoView
    BY <1>10 DEF WriteUsageRefused
  <2>2. plan < view.plan
    <3> DEFINE d == view.display + Delta(Current(Usage))
    <3>1. phase[Usage] = "handle"
      BY <2>1 DEF HandleThrows
    <3>2. Current(Usage) \in Requests
      BY <1>4, <3>1, DeliveredType
    <3>3. d \in Int
      BY <3>2 DEF Delta, StorageTypeOK
    <3>4. Clamped \in Int /\ 0 <= Clamped /\ Clamped <= view.plan
      <4>1. Clamped = Smaller(view.plan, Bigger(0, d))
        BY DEF Clamped
      <4> HIDE DEF d
      <4> QED
        BY <1>4, <3>3, <4>1 DEF Smaller, Bigger
    <3>5. ~(Clamped <= plan)
      BY <1>4, <2>1, <3>4 DEF CheckDisplay
    <3> QED
      BY <1>4, <3>4, <3>5
  <2>3. attempt[Usage] < L
    BY <1>3, <2>1, <2>2
  <2>4. dead' = dead /\ view'.open = FALSE
    BY <2>1 DEF HandleThrows, Retry, ledger, NoView
  <2>5. CASE attempt[Usage] < MaxRetries
    <3>1. /\ phase' = [phase EXCEPT ![Usage] = "handle"]
          /\ attempt' = [attempt EXCEPT ![Usage] = attempt[Usage] + 1]
      BY <2>1, <2>5 DEF HandleThrows, Retry, To
    <3>2. /\ phase'[Usage] = "handle" /\ phase'[Ceiling] = phase[Ceiling]
          /\ attempt'[Usage] = attempt[Usage] + 1 /\ attempt'[Ceiling] = attempt[Ceiling]
      BY <1>4, <3>1 DEF TypeOK
    <3>3. attempt[Usage] + 1 <= L'
      BY <1>0, <1>4, <2>3
    <3>4. dead'[Usage] # {} => MaxRetries < L'
      BY <1>0, <1>3, <1>4, <2>4
    <3> QED
      BY <1>3, <2>4, <3>2, <3>3, <3>4
  <2>6. CASE ~(attempt[Usage] < MaxRetries)
    <3>1. phase' = [phase EXCEPT ![Usage] = "dlq"] /\ attempt' = attempt
      BY <2>1, <2>6 DEF HandleThrows, Retry, To
    <3>2. phase'[Ceiling] = phase[Ceiling]
      BY <1>4, <3>1 DEF TypeOK
    <3>3. MaxRetries < L' /\ attempt[Usage] <= L'
      BY <1>0, <1>4, <2>3, <2>6
    <3> QED
      BY <1>3, <2>4, <3>1, <3>2, <3>3
  <2> QED
    BY <2>5, <2>6
<1>11. ASSUME NEW g \in Groups, Consume(g)
       PROVE  /\ attempt'[Ceiling] = 0 /\ phase'[Ceiling] \notin {"dlq", "dlqCommit"}
              /\ dead'[Ceiling] = {}
              /\ attempt'[Usage] <= L'
              /\ view'.open /\ plan' < view'.plan => attempt'[Usage] < L'
              /\ phase'[Usage] \in {"dlq", "dlqCommit"} \/ dead'[Usage] # {} => MaxRetries < L'
  <2>1. plan' = plan /\ (g = Usage => view'.open = FALSE) /\ (g # Usage => view' = view)
    BY <1>11 DEF Consume, NoView, subscription
  <2>2. Housekeeping(g) /\ ~AttemptFails(g) /\ ~Redeliver(g) /\ ~Crash(g)
    BY <1>2, <1>11 DEF Consume, AttemptFails, Redeliver, Crash
  <2>3. /\ attempt' = attempt \/ attempt' = [attempt EXCEPT ![g] = 0]
        /\ dead' = dead \/ (phase[g] = "dlq" /\ \E d : dead' = [dead EXCEPT ![g] = d])
        /\ \E p \in Phases : /\ phase' = [phase EXCEPT ![g] = p]
                             /\ p # "dlq" /\ (p = "dlqCommit" => phase[g] = "dlq")
    <3>1. CASE Join(g)
      BY <3>1 DEF Join, To, ledger, Phases
    <3>2. CASE Fetch(g)
      BY <3>2 DEF Fetch, To, ledger, Phases
    <3>3. CASE Mark(g)
      BY <3>3 DEF Mark, To, Phases
    <3>4. CASE Bury(g)
      BY <3>4 DEF Bury, To, Phases
    <3>5. CASE CommitOffset(g)
      BY <3>5 DEF CommitOffset, To, ledger, Phases
    <3> QED
      BY <2>2, <3>1, <3>2, <3>3, <3>4, <3>5 DEF Housekeeping
  <2>4. PICK p \in Phases : /\ phase' = [phase EXCEPT ![g] = p]
                            /\ p # "dlq" /\ (p = "dlqCommit" => phase[g] = "dlq")
    BY <2>3
  <2>5. CASE g = Usage
    <3>1. attempt'[Ceiling] = attempt[Ceiling] /\ attempt'[Usage] <= attempt[Usage] /\ attempt'[Usage] \in Nat
      BY <1>4, <2>3, <2>5 DEF TypeOK
    <3>2. dead'[Ceiling] = dead[Ceiling] /\ (dead'[Usage] # dead[Usage] => phase[Usage] = "dlq")
      BY <1>4, <2>3, <2>5 DEF TypeOK
    <3>3. phase'[Ceiling] = phase[Ceiling] /\ phase'[Usage] = p
      BY <1>4, <2>4, <2>5 DEF TypeOK
    <3>4. attempt'[Usage] <= L'
      BY <1>0, <1>3, <1>4, <3>1
    <3>5. phase'[Usage] \in {"dlq", "dlqCommit"} \/ dead'[Usage] # {} => MaxRetries < L
      BY <1>3, <2>4, <2>5, <3>2, <3>3
    <3>6. MaxRetries < L => MaxRetries < L'
      BY <1>0, <1>4
    <3> QED
      BY <1>3, <2>1, <2>5, <3>1, <3>2, <3>3, <3>4, <3>5, <3>6
  <2>6. CASE g = Ceiling
    <3>1. attempt'[Ceiling] = 0 /\ attempt'[Usage] = attempt[Usage]
      BY <1>3, <1>4, <2>3, <2>6 DEF TypeOK
    <3>2. dead'[Ceiling] = {} /\ dead'[Usage] = dead[Usage]
      BY <1>3, <1>4, <2>3, <2>6 DEF TypeOK
    <3>3. phase'[Usage] = phase[Usage] /\ phase'[Ceiling] \notin {"dlq", "dlqCommit"}
      BY <1>3, <1>4, <2>4, <2>6 DEF TypeOK
    <3>4. attempt'[Usage] <= L' /\ (attempt[Usage] < L => attempt'[Usage] < L')
          /\ (MaxRetries < L => MaxRetries < L')
      BY <1>0, <1>3, <1>4, <3>1
    <3> QED
      BY <1>3, <1>4, <2>1, <2>6, <3>1, <3>2, <3>3, <3>4
  <2> QED
    BY <2>5, <2>6, StorageAssumption
<1>12. CASE UNCHANGED allvars
  BY <1>4, <1>5, <1>12 DEF allvars, svars, kvars
<1> QED
  BY <1>5, <1>6, <1>7, <1>8, <1>9, <1>10, <1>11, <1>12 DEF StorageNext

LEMMA AttemptsInit == StorageInit => AttemptsInv
<1>0. SUFFICES ASSUME StorageInit PROVE AttemptsInv
  OBVIOUS
<1>1. Lowerings = {}
  BY <1>0 DEF StorageInit, Lowerings, Lowered, Changed
<1>2. IsFiniteSet(Lowerings) /\ Cardinality(Lowerings) = 0
  BY <1>1, FS_EmptySet
<1>3. /\ view.open = FALSE /\ attempt[Ceiling] = 0 /\ attempt[Usage] = 0
      /\ phase[Ceiling] = "down" /\ phase[Usage] = "down" /\ dead[Ceiling] = {} /\ dead[Usage] = {}
  BY <1>0, StorageAssumption DEF StorageInit, BusInit, NoView
<1> QED
  BY <1>2, <1>3 DEF AttemptsInv, ViewIsOpen, AttemptsAreLowerings

THEOREM AttemptsCounted == StorageSpec => []AttemptsInv
<1>1. StorageInv /\ TypeOK /\ AttemptsInv /\ [StorageNext]_<<kvars, svars>> => AttemptsInv'
  BY ViewStep, AttemptsStep DEF StorageInv, AttemptsInv, allvars
<1> QED
  BY <1>1, AttemptsInit, StorageInvariance, StorageUsesBus, BusTypes, PTL DEF StorageSpec

\* As long as nothing fails, the ceiling's consumer buries no event, and the usage handler buries
\* one only when more plans were lowered than it retries.
THEOREM BuriedByLowerings == StorageSpec => []UsageNeverBuried
<1>1. AttemptsInv => UsageNeverBuried
  <2>1. ASSUME AttemptsAreLowerings, faults = 0
        PROVE  dead[Ceiling] = {} /\ (dead[Usage] # {} => Cardinality(Lowerings) > MaxRetries)
    <3>1. Cardinality(Lowerings) \in Nat /\ MaxRetries \in Nat
      BY <2>1, FS_CardinalityType, RetriesAssumption DEF AttemptsAreLowerings
    <3> QED
      BY <2>1, <3>1 DEF AttemptsAreLowerings
  <2> QED
    BY <2>1 DEF AttemptsInv, UsageNeverBuried, Lowerings
<1> QED
  BY <1>1, AttemptsCounted, PTL

-----------------------------------------------------------------------------
(* The counter after each commit *)

LEMMA FiniteRange == ASSUME NEW c, NEW k \in Nat PROVE IsFiniteSet({c[i] : i \in 1..k})
<1> DEFINE T == {c[i] : i \in 1..k}
           f == [i \in 1..k |-> c[i]]
<1>1. f \in Surjection(1..k, T)
  BY DEF Surjection
<1>2. IsFiniteSet(1..k)
  BY FS_Interval
<1> QED
  BY <1>1, <1>2, FS_Surjection

LEMMA ByteFinite ==
  ASSUME NEW q, NEW R, IsFiniteSet(R), \A r \in R : q[r].size \in Nat
  PROVE  IsFiniteSet(ByteSet(q, R))
<1> DEFINE T == {{r} \X (1..q[r].size) : r \in R}
           f == [r \in R |-> {r} \X (1..q[r].size)]
<1>1. f \in Surjection(R, T)
  BY DEF Surjection
<1>2. IsFiniteSet(T)
  BY <1>1, FS_Surjection
<1>3. ASSUME NEW S \in T PROVE IsFiniteSet(S)
  <2>1. PICK r \in R : S = {r} \X (1..q[r].size)
    OBVIOUS
  <2>2. q[r].size \in Nat
    OBVIOUS
  <2> QED
    BY <2>1, <2>2, BytesOfOne
<1>4. IsFiniteSet(UNION T)
  <2> HIDE DEF T
  <2> QED
    BY <1>2, <1>3, FS_UNION
<1> QED
  BY <1>4 DEF ByteSet

LEMMA AfterZero == ASSUME NEW q, NEW c PROVE After(q, c, 0) = 0
<1>1. ASSUME NEW o PROVE Bytes(q, c, o, 0) = 0
  <2>1. {c[i] : i \in {i \in 1..0 : q[c[i]].op = o}} = {}
    OBVIOUS
  <2> QED
    BY <2>1, ByteNone DEF Bytes
<1> QED
  BY <1>1 DEF After

\* Only the first k commits matter, and only their requests.
LEMMA AfterSame ==
  ASSUME NEW p, NEW d, NEW q, NEW c, NEW k \in Nat,
         \A i \in 1..k : d[i] = c[i] /\ p[c[i]] = q[c[i]]
  PROVE  After(p, d, k) = After(q, c, k)
<1>1. ASSUME NEW o PROVE Bytes(p, d, o, k) = Bytes(q, c, o, k)
  <2> DEFINE S == {c[i] : i \in {i \in 1..k : q[c[i]].op = o}}
  <2>1. {d[i] : i \in {i \in 1..k : p[d[i]].op = o}} = S
    OBVIOUS
  <2>2. \A r \in S : p[r].size = q[r].size
    OBVIOUS
  <2>3. ByteSet(p, S) = ByteSet(q, S)
    BY <2>2, ByteSame
  <2> QED
    BY <2>1, <2>3 DEF Bytes
<1> QED
  BY <1>1 DEF After

\* The next commit adds what it creates or takes away what it removes.
LEMMA AfterNext ==
  ASSUME NEW q, NEW c, NEW k \in Nat,
         \A i \in 1..(k + 1) : q[c[i]].size \in Nat,
         \A i \in 1..k : c[i] # c[k + 1],
         q[c[k + 1]].op \in {"create", "remove"}
  PROVE  /\ After(q, c, k) \in Int
         /\ q[c[k + 1]].op = "create" => After(q, c, k + 1) = After(q, c, k) + q[c[k + 1]].size
         /\ q[c[k + 1]].op = "remove" => After(q, c, k + 1) = After(q, c, k) - q[c[k + 1]].size
<1> DEFINE x == c[k + 1]
           S(o) == {c[i] : i \in {i \in 1..k : q[c[i]].op = o}}
           U(o) == {c[i] : i \in {i \in 1..(k + 1) : q[c[i]].op = o}}
<1>0. 1..(k + 1) = (1..k) \cup {k + 1}
  OBVIOUS
<1>1. ASSUME NEW o
      PROVE  IsFiniteSet(ByteSet(q, S(o))) /\ Bytes(q, c, o, k) \in Nat /\ x \notin S(o)
  <2>1. IsFiniteSet({c[i] : i \in 1..k}) /\ S(o) \subseteq {c[i] : i \in 1..k}
    BY FiniteRange
  <2>2. IsFiniteSet(S(o))
    BY <2>1, FS_Subset
  <2>3. \A r \in S(o) : q[r].size \in Nat
    BY <1>0
  <2>4. IsFiniteSet(ByteSet(q, S(o)))
    <3> HIDE DEF S
    <3> QED
      BY <2>2, <2>3, ByteFinite
  <2>5. Bytes(q, c, o, k) = Cardinality(ByteSet(q, S(o)))
    BY DEF Bytes
  <2>6. Bytes(q, c, o, k) \in Nat
    BY <2>4, <2>5, FS_CardinalityType
  <2> QED
    BY <2>4, <2>6
<1>2. ASSUME NEW o, q[x].op = o PROVE Bytes(q, c, o, k + 1) = Bytes(q, c, o, k) + q[x].size
  <2>1. U(o) = S(o) \cup {x}
    BY <1>0, <1>2
  <2>2. q[x].size \in Nat
    BY <1>0
  <2>3. Cardinality(ByteSet(q, S(o) \cup {x})) = Cardinality(ByteSet(q, S(o))) + q[x].size
    <3>1. IsFiniteSet(ByteSet(q, S(o))) /\ x \notin S(o)
      BY <1>1
    <3> HIDE DEF S, x
    <3> QED
      BY <2>2, <3>1, ByteAdd
  <2> QED
    BY <2>1, <2>3 DEF Bytes
<1>3. ASSUME NEW o, q[x].op # o PROVE Bytes(q, c, o, k + 1) = Bytes(q, c, o, k)
  <2>1. U(o) = S(o)
    BY <1>0, <1>3
  <2> QED
    BY <2>1 DEF Bytes
<1>4. /\ Bytes(q, c, "create", k) \in Nat /\ Bytes(q, c, "remove", k) \in Nat /\ q[x].size \in Nat
  BY <1>0, <1>1
<1>5. CASE q[x].op = "create"
  <2>1. /\ Bytes(q, c, "create", k + 1) = Bytes(q, c, "create", k) + q[x].size
        /\ Bytes(q, c, "remove", k + 1) = Bytes(q, c, "remove", k)
    BY <1>2, <1>3, <1>5
  <2> QED
    BY <1>4, <1>5, <2>1 DEF After
<1>6. CASE q[x].op = "remove"
  <2>1. /\ Bytes(q, c, "remove", k + 1) = Bytes(q, c, "remove", k) + q[x].size
        /\ Bytes(q, c, "create", k + 1) = Bytes(q, c, "create", k)
    BY <1>2, <1>3, <1>6
  <2> QED
    BY <1>4, <1>6, <2>1 DEF After
<1> QED
  BY <1>5, <1>6

\* What was counted after an earlier commit stays what it was.
LEMMA AfterKept ==
  ASSUME StorageTypeOK, CommitsAre, [StorageNext]_allvars, NEW k \in 0..Len(commits)
  PROVE  After(req', commits', k) = After(req, commits, k)
<1>1. k \in Nat /\ \A i \in 1..k : i \in 1..Len(commits)
  BY DEF CommitsAre
<1>2. \A i \in 1..k : commits'[i] = commits[i] /\ req'[commits[i]] = req[commits[i]]
  BY <1>1, CommittedStays
<1> QED
  BY <1>1, <1>2, AfterSame

LEMMA AskedIsStep ==
  ASSUME StorageTypeOK, AskedIs, [StorageNext]_allvars PROVE AskedIs'
<1>1. SUFFICES ASSUME NEW q \in Requests
               PROVE  /\ pc'[q] = "idle" => req'[q].op = "none"
                      /\ pc'[q] \in {"found", "locked"} => req'[q].op \in {"create", "remove"}
  BY DEF AskedIs
<1>2. CASE Request(q)
  <2>1. pc'[q] # "idle"
    BY <1>2 DEF Request, AssignDefaultPlan, ChangePlan, ChangePlanRefused, NotSynced, StartCreate,
     CreateCommit, CreateReject, RemoveRead, RemoveRefused, RemoveLock, RemoveCommit, CheckAbort,
     RequestCrash, PublishEvent, LockForUpdate, Goto, StorageTypeOK
  <2>2. CASE pc'[q] \in {"found", "locked"}
    <3>1. (\E n \in Sizes : StartCreate(q, n)) \/ (\E x \in live : RemoveRead(q, x)) \/ RemoveLock(q)
      BY <1>2, <2>2 DEF Request, AssignDefaultPlan, ChangePlan, ChangePlanRefused, NotSynced,
         CreateCommit, CreateReject, RemoveRefused, RemoveCommit, CheckAbort,
         RequestCrash, PublishEvent, Goto, StorageTypeOK
    <3>2. CASE (\E n \in Sizes : StartCreate(q, n)) \/ (\E x \in live : RemoveRead(q, x))
      BY <2>1, <3>2 DEF StartCreate, RemoveRead, Ask, Form, StorageTypeOK
    <3>3. CASE RemoveLock(q)
      BY <2>1, <3>3 DEF RemoveLock, At, AskedIs
    <3> QED
      BY <2>1, <3>1, <3>2, <3>3
  <2> QED
    BY <2>1, <2>2
<1>3. CASE ~Request(q)
  <2>1. pc'[q] = pc[q] /\ req'[q] = req[q]
    BY <1>3, OthersStay, HandlersStay
  <2> QED
    BY <2>1 DEF AskedIs
<1> QED
  BY <1>2, <1>3

\* A plan that is newly committed is the organisation's.
LEMMA NewlyChanged ==
  ASSUME StorageTypeOK, AskedIs, [StorageNext]_allvars, NEW q \in Requests, Changed(q)', ~Changed(q)
  PROVE  assigned' /\ req'[q].plan = plan'
<1>1. PICK r \in Requests : Request(r)
  BY HandlersStay DEF Changed
<1>2. q = r
  BY <1>1, OthersStay DEF Changed
<1>3. pc[q] \notin {"publish", "done"}
  BY PastCommit DEF Changed
<1>4. AssignDefaultPlan(q) \/ \E p \in Plans : ChangePlan(q, p)
  <2>1. pc'[q] \in {"publish", "done"} /\ req'[q].op \in {"assign", "change"}
    BY DEF Changed
  <2>2. CASE ChangePlanRefused(q) \/ NotSynced(q) \/ RemoveRefused(q) \/ CreateReject(q) \/ CheckAbort(q)
             \/ RequestCrash(q)
    <3>1. req' = req /\ pc[q] \in {"idle", "found", "locked"}
      BY <2>2 DEF ChangePlanRefused, NotSynced, RemoveRefused, CreateReject, CheckAbort, RequestCrash,
         Creating, Removing, At
    <3> QED
      BY <2>1, <3>1 DEF AskedIs
  <2>3. CASE (\E n \in Sizes : StartCreate(q, n)) \/ (\E x \in live : RemoveRead(q, x)) \/ RemoveLock(q)
    BY <2>1, <2>3 DEF StartCreate, RemoveRead, RemoveLock, LockForUpdate, Goto, StorageTypeOK
  <2>4. CASE CreateCommit(q) \/ RemoveCommit(q)
    BY <2>1, <2>4 DEF CreateCommit, RemoveCommit, Creating, Removing
  <2>5. CASE PublishEvent(q)
    BY <1>3, <2>5 DEF PublishEvent, At
  <2> QED
    BY <1>1, <1>2, <2>2, <2>3, <2>4, <2>5 DEF Request
<1> QED
  BY <1>4 DEF AssignDefaultPlan, ChangePlan, Ask, Form, StorageTypeOK

LEMMA WithinPlanStep ==
  ASSUME StorageInv, StorageInv', BytesInv, BytesInv', AskedIs, IsFiniteSet(Lowerings), WithinPlan,
         [StorageNext]_allvars
  PROVE  WithinPlan'
<1> DEFINE n == Len(commits)
<1>0. /\ StorageTypeOK /\ StorageTypeOK' /\ CommitsAre /\ CommitsAre' /\ n \in Nat
      /\ used \in Nat /\ ceiling \in Nat /\ used' \in 0..ceiling' /\ ceiling' \in Nat
      /\ plan \in Nat /\ plan' \in Nat
  BY DEF StorageInv, BytesInv, StorageTypeOK, CommitsAre
<1>1. \A k \in 0..n : After(req', commits', k) = After(req, commits, k)
  BY <1>0, AfterKept
<1>2. Lowerings' = {} => Lowerings = {} /\ (assigned => plan <= plan')
  <2>1. ASSUME Lowerings' = {} PROVE Lowerings = {} /\ Cardinality(Lowerings') = 0
    BY <1>0, <2>1, LoweringsStep, FS_EmptySet
  <2>2. /\ Cardinality(Lowerings) \in Nat
        /\ assigned /\ plan' < plan => Cardinality(Lowerings) < Cardinality(Lowerings')
    BY <1>0, LoweringsStep
  <2> QED
    BY <1>0, <2>1, <2>2
<1>3. Lowerings' = {} => \A s \in Sold' : s <= plan'
  <2>1. SUFFICES ASSUME Lowerings' = {}, NEW q \in Requests, Changed(q)' PROVE req'[q].plan <= plan'
    BY DEF Sold
  <2>2. CASE Changed(q)
    <3>1. req'[q].plan = req[q].plan
      BY <1>0, <2>2, ChangedStays
    <3>2. req[q].plan \in Sold /\ req[q].plan \in Nat
      BY <1>0, <2>2 DEF Sold, StorageTypeOK
    <3>3. req[q].plan <= plan /\ assigned
      BY <1>2, <2>1, <3>2 DEF WithinPlan
    <3> QED
      BY <1>0, <1>2, <2>1, <3>1, <3>2, <3>3
  <2>3. CASE ~Changed(q)
    BY <1>0, <2>1, <2>3, NewlyChanged
  <2> QED
    BY <2>2, <2>3
<1>4. ~assigned' => Sold' = {}
  <2>1. SUFFICES ASSUME ~assigned', NEW q \in Requests, Changed(q)' PROVE FALSE
    BY DEF Sold
  <2>2. ~assigned
    BY <2>1, HandlersStay DEF Request, AssignDefaultPlan, ChangePlan, ChangePlanRefused, NotSynced,
     StartCreate, CreateCommit, CreateReject, RemoveRead, RemoveRefused, RemoveLock, RemoveCommit,
     CheckAbort, RequestCrash, PublishEvent, subscription
  <2>3. ~Changed(q)
    BY <2>2 DEF WithinPlan, Sold
  <2> QED
    BY <1>0, <2>1, <2>3, NewlyChanged
<1>5. ~assigned => n = 0
  <2>1. ASSUME ~assigned PROVE ~synced
    BY <2>1 DEF WithinPlan, StorageInv, CeilingWasSold
  <2> QED
    BY <2>1 DEF BytesInv, UsedIsStored
<1>6. ASSUME NEW k \in 0..n
      PROVE  /\ After(req', commits', k) >= 0
             /\ Lowerings' = {} => After(req', commits', k) <= plan'
  <2>1. /\ After(req', commits', k) = After(req, commits, k)
        /\ After(req, commits, k) >= 0 /\ (Lowerings = {} => After(req, commits, k) <= plan)
    BY <1>1 DEF WithinPlan
  <2>2. ASSUME Lowerings' = {} PROVE After(req, commits, k) <= plan'
    <3>1. CASE assigned
      <4>1. After(req, commits, k) \in Int
        <5>1. ASSUME NEW o PROVE Bytes(req, commits, o, k) \in Nat
          <6> DEFINE S == {commits[i] : i \in {i \in 1..k : req[commits[i]].op = o}}
          <6>1. \A i \in 1..k : i \in 1..n /\ commits[i] \in Requests
            BY <1>0 DEF CommitsAre
          <6>2. \A r \in S : req[r].size \in Nat
            BY <1>0, <6>1 DEF StorageTypeOK
          <6>3. k \in Nat
            BY <1>0
          <6>4. IsFiniteSet({commits[i] : i \in 1..k})
            BY <6>3, FiniteRange
          <6>5. S \subseteq {commits[i] : i \in 1..k}
            OBVIOUS
          <6>6. IsFiniteSet(S)
            BY <6>4, <6>5, FS_Subset
          <6>7. IsFiniteSet(ByteSet(req, S))
            <7> HIDE DEF S
            <7> QED
              BY <6>2, <6>6, ByteFinite
          <6> QED
            BY <6>7, FS_CardinalityType DEF Bytes
        <5> QED
          BY <5>1 DEF After
      <4> QED
        BY <1>0, <1>2, <2>1, <2>2, <3>1, <4>1
    <3>2. CASE ~assigned
      <4>1. k = 0
        BY <1>5, <3>2
      <4> QED
        BY <1>0, <4>1, AfterZero
    <3> QED
      BY <3>1, <3>2
  <2> QED
    BY <2>1, <2>2
<1>7. ASSUME ~(\E r \in Requests : ResourceCommit(r)) PROVE WithinPlan'
  <2>1. commits' = commits /\ (used' = used \/ (~synced /\ used' = 0))
    BY <1>7, OnlyCommits
  <2>2. used' = used
    BY <2>1 DEF BytesInv, UsedIsStored
  <2>3. used' = After(req', commits', n)
    BY <1>0, <1>1, <2>2 DEF WithinPlan
  <2> QED
    BY <1>3, <1>4, <1>6, <2>1, <2>3 DEF WithinPlan
<1>8. ASSUME NEW r \in Requests, ResourceCommit(r) PROVE WithinPlan'
  <2>1. /\ req' = req /\ Len(commits') = n + 1 /\ commits'[n + 1] = r /\ req[r].op \in {"create", "remove"}
        /\ \A i \in 1..n : commits'[i] = commits[i]
        /\ req[r].size \in Nat /\ commits' \in Seq(Requests)
    BY <1>0, <1>8, CommitOf DEF StorageTypeOK, CommitsAre
  <2>2. \A i \in 1..(n + 1) : req'[commits'[i]].size \in Nat
    <3>1. \A i \in 1..(n + 1) : commits'[i] \in Requests
      BY <2>1
    <3> QED
      BY <1>0, <3>1 DEF StorageTypeOK
  <2>3. \A i \in 1..n : commits'[i] # commits'[n + 1]
    <3>1. n + 1 \in 1..(n + 1) /\ \A i \in 1..n : i \in 1..(n + 1) /\ i # n + 1
      BY <1>0
    <3> QED
      BY <1>0, <2>1, <3>1 DEF CommitsAre
  <2>4. After(req', commits', n) = used
    <3>1. n \in 0..n
      BY <1>0
    <3> QED
      BY <1>1, <3>1 DEF WithinPlan
  <2>5. /\ req[r].op = "create" => After(req', commits', n + 1) = used + req[r].size
        /\ req[r].op = "remove" => After(req', commits', n + 1) = used - req[r].size
    <3> DEFINE q == req'
               c == commits'
    <3>1. n \in Nat /\ q[c[n + 1]] = req[r] /\ q[c[n + 1]].op \in {"create", "remove"}
      BY <1>0, <2>1
    <3>2. \A i \in 1..(n + 1) : q[c[i]].size \in Nat
      BY <2>2
    <3>3. \A i \in 1..n : c[i] # c[n + 1]
      BY <2>3
    <3>4. After(q, c, n) = used
      BY <2>4
    <3> HIDE DEF q, c
    <3>5. /\ q[c[n + 1]].op = "create" => After(q, c, n + 1) = After(q, c, n) + q[c[n + 1]].size
          /\ q[c[n + 1]].op = "remove" => After(q, c, n + 1) = After(q, c, n) - q[c[n + 1]].size
      BY <3>1, <3>2, <3>3, AfterNext
    <3>6. /\ req[r].op = "create" => After(q, c, n + 1) = used + req[r].size
          /\ req[r].op = "remove" => After(q, c, n + 1) = used - req[r].size
      BY <3>1, <3>4, <3>5
    <3> QED
      BY <3>6 DEF q, c
  <2>6. After(req', commits', n + 1) = used'
    BY <1>8, <2>1, <2>5 DEF ResourceCommit, CreateCommit, RemoveCommit, Creating, Removing
  <2>7. Lowerings' = {} => used' <= plan'
    <3>1. synced'
      BY <2>1 DEF BytesInv, UsedIsStored
    <3>2. PICK s \in Sold' : ceiling' <= s
      BY <3>1 DEF StorageInv, CeilingWasSold
    <3>3. PICK q \in Requests : s = req'[q].plan
      BY <3>2 DEF Sold
    <3>4. StorageTypeOK'
      BY <1>0
    <3>5. s \in Nat
      BY <3>3, <3>4 DEF StorageTypeOK
    <3> QED
      BY <1>0, <1>3, <3>2, <3>5
  <2>8. \A k \in 0..Len(commits') : k \in 0..n \/ k = n + 1
    BY <1>0, <2>1
  <2>9. \A k \in 0..Len(commits') : /\ After(req', commits', k) >= 0
                                    /\ Lowerings' = {} => After(req', commits', k) <= plan'
    BY <1>0, <1>6, <2>6, <2>7, <2>8
  <2> QED
    BY <1>3, <1>4, <2>1, <2>6, <2>9 DEF WithinPlan
<1> QED
  BY <1>7, <1>8

LEMMA DoneStep ==
  ASSUME StorageTypeOK, TypeOK, EventsOfDone, [StorageNext]_allvars PROVE EventsOfDone'
<1>1. log[ResourceTopic] \in Seq(Events) /\ ResourceTopic \in Topics /\ ResourceTopic # SubscriptionTopic
  BY StorageAssumption DEF TypeOK
<1>2. \A i \in 1..Len(log[ResourceTopic]) :
        log[ResourceTopic][i] \in Requests /\ pc'[log[ResourceTopic][i]] = "done"
  BY <1>1, PastCommit DEF EventsOfDone, At, Requests
<1>3. ASSUME log'[ResourceTopic] = log[ResourceTopic] PROVE EventsOfDone'
  BY <1>2, <1>3 DEF EventsOfDone, At
<1>4. ASSUME NEW r \in Requests, PublishEvent(r) PROVE EventsOfDone'
  <2>1. pc'[r] = "done"
    BY <1>4 DEF PublishEvent, Goto, StorageTypeOK
  <2>2. \/ log'[ResourceTopic] = log[ResourceTopic]
        \/ log'[ResourceTopic] = Append(log[ResourceTopic], r)
    BY <1>1, <1>4 DEF PublishEvent, Publish, LosePublish, TypeOK
  <2>3. ASSUME log'[ResourceTopic] = Append(log[ResourceTopic], r) PROVE EventsOfDone'
    <3>1. \A i \in 1..Len(log'[ResourceTopic]) :
            \/ i \in 1..Len(log[ResourceTopic]) /\ log'[ResourceTopic][i] = log[ResourceTopic][i]
            \/ log'[ResourceTopic][i] = r
      BY <1>1, <2>3
    <3> QED
      BY <1>2, <2>1, <3>1 DEF EventsOfDone, At
  <2> QED
    BY <1>3, <2>2, <2>3
<1>5. ASSUME ~(\E r \in Requests : PublishEvent(r)) PROVE log' = log
  BY <1>5 DEF StorageNext, Request, AssignDefaultPlan, ChangePlan, ChangePlanRefused, NotSynced,
     StartCreate, CreateCommit, CreateReject, RemoveRead, RemoveRefused, RemoveLock, RemoveCommit,
     CheckAbort, RequestCrash, RefreshCeiling, ReadUsage, WriteUsage, WriteUsageRefused, Consume,
     Handle, HandleThrows, Retry, Housekeeping, Join, Fetch, Mark, Bury, CommitOffset, AttemptFails,
     Redeliver, Crash, topicVars, kvars, allvars
<1> QED
  BY <1>3, <1>4, <1>5

-----------------------------------------------------------------------------
(* The display *)

\* Topics only grow.
LEMMA TopicGrows ==
  ASSUME TypeOK, [StorageNext]_allvars
  PROVE  /\ log[ResourceTopic] \in Seq(Events) /\ log'[ResourceTopic] \in Seq(Events)
         /\ \A i \in 1..Len(log[ResourceTopic]) :
              i \in 1..Len(log'[ResourceTopic]) /\ log'[ResourceTopic][i] = log[ResourceTopic][i]
         /\ Len(log[ResourceTopic]) <= Len(log'[ResourceTopic])
         /\ log' = log \/ \E r \in Requests : PublishEvent(r)
<1>1. log[ResourceTopic] \in Seq(Events) /\ ResourceTopic \in Topics
  BY StorageAssumption DEF TypeOK
<1>2. log' = log \/ \E r \in Requests : PublishEvent(r)
  BY DEF StorageNext, Request, AssignDefaultPlan, ChangePlan, ChangePlanRefused, NotSynced,
     StartCreate, CreateCommit, CreateReject, RemoveRead, RemoveRefused, RemoveLock, RemoveCommit,
     CheckAbort, RequestCrash, RefreshCeiling, ReadUsage, WriteUsage, WriteUsageRefused, Consume,
     Handle, HandleThrows, Retry, Housekeeping, Join, Fetch, Mark, Bury, CommitOffset, AttemptFails,
     Redeliver, Crash, topicVars, kvars, allvars
<1>3. ASSUME NEW r \in Requests, PublishEvent(r)
      PROVE  \/ log'[ResourceTopic] = log[ResourceTopic]
             \/ log'[ResourceTopic] = Append(log[ResourceTopic], r)
  BY <1>1, <1>3, StorageAssumption DEF PublishEvent, Publish, LosePublish, TypeOK
<1>4. \/ log'[ResourceTopic] = log[ResourceTopic]
      \/ \E r \in Events : log'[ResourceTopic] = Append(log[ResourceTopic], r)
  BY <1>2, <1>3 DEF Requests
<1>5. ASSUME NEW s \in Seq(Events), NEW e \in Events
      PROVE  /\ Append(s, e) \in Seq(Events) /\ Len(s) <= Len(Append(s, e))
             /\ \A i \in 1..Len(s) : i \in 1..Len(Append(s, e)) /\ Append(s, e)[i] = s[i]
  <2>1. Append(s, e) \in Seq(Events) /\ Len(s) \in Nat /\ Len(Append(s, e)) = Len(s) + 1
    OBVIOUS
  <2>2. \A i \in 1..Len(s) : Append(s, e)[i] = s[i]
    OBVIOUS
  <2> QED
    BY <2>1, <2>2
<1>6. CASE log'[ResourceTopic] = log[ResourceTopic]
  BY <1>1, <1>2, <1>6
<1>7. CASE \E r \in Events : log'[ResourceTopic] = Append(log[ResourceTopic], r)
  BY <1>1, <1>2, <1>5, <1>7
<1> QED
  BY <1>4, <1>6, <1>7

\* What changes where the usage consumer is: its own steps.
LEMMA UsageSteps ==
  ASSUME TypeOK, [StorageNext]_allvars
  PROVE  \/ /\ phase'[Usage] = phase[Usage] /\ offset'[Usage] = offset[Usage]
            /\ origin'[Usage] = origin[Usage] /\ consumed'[Usage] = consumed[Usage] /\ view' = view
            /\ display' = display \/ (~assigned /\ display' = 0)
         \/ ReadUsage \/ WriteUsage \/ WriteUsageRefused \/ Consume(Usage)
<1> DEFINE Same == /\ phase'[Usage] = phase[Usage] /\ offset'[Usage] = offset[Usage]
                   /\ origin'[Usage] = origin[Usage] /\ consumed'[Usage] = consumed[Usage]
                   /\ view' = view
                   /\ display' = display \/ (~assigned /\ display' = 0)
<1>0. Usage \in Groups /\ Ceiling \in Groups /\ Usage # Ceiling /\ Groups = {Usage, Ceiling}
  BY StorageAssumption
<1>1. ASSUME NEW r \in Requests, Request(r) PROVE Same
  <2>1. view' = view /\ UNCHANGED <<cursor, delivery, consumed>>
    BY <1>1, RequestOnBus DEF kvars, ledger, cursor, delivery
  <2>2. display' = display \/ (~assigned /\ display' = 0)
    BY <1>1 DEF Request, AssignDefaultPlan, ChangePlan, ChangePlanRefused, NotSynced,
     StartCreate, CreateCommit, CreateReject, RemoveRead, RemoveRefused, RemoveLock, RemoveCommit,
     CheckAbort, RequestCrash, PublishEvent, subscription
  <2> QED
    BY <2>1, <2>2 DEF cursor, delivery
<1>2. CASE RefreshCeiling
  <2>1. /\ phase' = [phase EXCEPT ![Ceiling] = "mark"] /\ view' = view /\ display' = display
        /\ UNCHANGED <<cursor, consumed>>
    BY <1>2 DEF RefreshCeiling, Handle, To, subscription
  <2> QED
    BY <1>0, <2>1 DEF cursor, TypeOK
<1>3. CASE Consume(Ceiling)
  <2>1. view' = view /\ display' = display
    BY <1>0, <1>3 DEF Consume, subscription
  <2>2. \E p \in Phases : phase' = [phase EXCEPT ![Ceiling] = p]
    BY <1>0, <1>3 DEF Consume, Housekeeping, Join, Fetch, Mark, Bury, CommitOffset, AttemptFails,
       Redeliver, Crash, Retry, To, Phases
  <2>3. offset'[Usage] = offset[Usage] /\ origin'[Usage] = origin[Usage]
    BY <1>0, <1>3 DEF Consume, Housekeeping, Join, Fetch, Mark, Bury, CommitOffset, AttemptFails,
       Redeliver, Crash, Retry, cursor, TypeOK
  <2>4. consumed'[Usage] = consumed[Usage]
    BY <1>0, <1>3 DEF Consume, Housekeeping, Join, Fetch, Mark, Bury, CommitOffset, AttemptFails,
       Redeliver, Crash, Retry, ledger, TypeOK
  <2>5. phase'[Usage] = phase[Usage]
    BY <1>0, <2>2 DEF TypeOK
  <2> QED
    BY <2>1, <2>3, <2>4, <2>5
<1>4. CASE UNCHANGED allvars
  BY <1>4 DEF allvars, svars, kvars
<1> QED
  BY <1>0, <1>1, <1>2, <1>3, <1>4 DEF StorageNext

\* What the usage consumer does besides its handler, when nothing fails.
LEMMA UsageHousekeeping ==
  ASSUME TypeOK, Consume(Usage), ~Fault
  PROVE  /\ Join(Usage) \/ Fetch(Usage) \/ Mark(Usage) \/ Bury(Usage) \/ CommitOffset(Usage)
         /\ log' = log /\ display' = display /\ view'.open = FALSE
BY DEF Consume, Housekeeping, Join, Fetch, Mark, Bury, CommitOffset, AttemptFails, Redeliver, Crash,
       topicVars, subscription, NoView

LEMMA SeenStep ==
  ASSUME TypeOK, PublishedOnce, SeenInOrder, [StorageNext]_allvars PROVE SeenInOrder'
<1> DEFINE t == log[ResourceTopic]
           o == offset[Usage]
<1>0. /\ Usage \in Groups /\ ResourceTopic \in Topics /\ Topic(Usage) = t /\ Topic(Usage)' = t'
      /\ t \in Seq(Events) /\ Len(t) \in Nat /\ o \in Nat
      /\ phase[Usage] \notin {"down", "idle"} => o < Len(t)
  BY StorageAssumption, TopicGrows DEF Topic, TypeOK
<1>1. \A i \in 1..Len(t) : i \in 1..Len(t') /\ t'[i] = t[i]
  BY TopicGrows
<1>2. SUFFICES ASSUME faults' = 0
               PROVE  /\ phase'[Usage] = "down" => offset'[Usage] = 0 /\ origin'[Usage] = 0 /\ display' = 0
                      /\ phase'[Usage] # "skipCommit"
                      /\ \A e \in consumed'[Usage] :
                           \E i \in 1..Len(t') :
                             /\ t'[i] = e
                             /\ i <= offset'[Usage]
                                \/ (phase'[Usage] = "commit" /\ i = offset'[Usage] + 1)
  BY <1>0 DEF SeenInOrder
<1>3. faults = 0 /\ ~Fault
  BY <1>2, FaultsStay
<1>4. /\ phase[Usage] = "down" => o = 0 /\ origin[Usage] = 0 /\ display = 0
      /\ phase[Usage] # "skipCommit"
      /\ \A e \in consumed[Usage] :
           \E i \in 1..Len(t) : t[i] = e /\ (i <= o \/ (phase[Usage] = "commit" /\ i = o + 1))
  BY <1>0, <1>3 DEF SeenInOrder
<1> HIDE DEF t, o
<1>5. CASE /\ phase'[Usage] = phase[Usage] /\ offset'[Usage] = offset[Usage]
           /\ origin'[Usage] = origin[Usage] /\ consumed'[Usage] = consumed[Usage]
           /\ display' = display \/ (~assigned /\ display' = 0)
  BY <1>1, <1>4, <1>5 DEF o
<1>6. ASSUME offset'[Usage] = offset[Usage], consumed'[Usage] = consumed[Usage],
             phase[Usage] # "commit", phase'[Usage] \notin {"down", "skipCommit"}
      PROVE  /\ phase'[Usage] = "down" => offset'[Usage] = 0 /\ origin'[Usage] = 0 /\ display' = 0
             /\ phase'[Usage] # "skipCommit"
             /\ \A e \in consumed'[Usage] :
                  \E i \in 1..Len(t') : t'[i] = e /\ (i <= offset'[Usage]
                                \/ (phase'[Usage] = "commit" /\ i = offset'[Usage] + 1))
  BY <1>1, <1>4, <1>6 DEF o
<1>7. CASE ReadUsage
  BY <1>5, <1>7 DEF ReadUsage, kvars, subscription
<1>8. CASE WriteUsage
  <2>1. phase[Usage] = "handle" /\ phase' = [phase EXCEPT ![Usage] = "mark"] /\ UNCHANGED <<cursor, consumed>>
    BY <1>8 DEF WriteUsage, Handle, To
  <2> QED
    BY <1>0, <1>6, <2>1 DEF cursor, TypeOK
<1>9. CASE WriteUsageRefused
  <2>1. /\ phase[Usage] = "handle" /\ UNCHANGED <<cursor, consumed>>
        /\ \E p \in {"handle", "dlq"} : phase' = [phase EXCEPT ![Usage] = p]
    BY <1>9 DEF WriteUsageRefused, HandleThrows, Retry, To, ledger
  <2> QED
    BY <1>0, <1>6, <2>1 DEF cursor, TypeOK
<1>10. CASE Consume(Usage)
  <2>0. /\ Join(Usage) \/ Fetch(Usage) \/ Mark(Usage) \/ Bury(Usage) \/ CommitOffset(Usage)
        /\ t' = t
    BY <1>3, <1>10, UsageHousekeeping DEF t
  <2>1. CASE Join(Usage)
    <3>1. /\ phase[Usage] = "down" /\ phase' = [phase EXCEPT ![Usage] = "idle"]
          /\ consumed' = consumed
      BY <2>1 DEF Join, To, ledger
    <3>2. phase'[Usage] = "idle" /\ consumed'[Usage] = {}
      <4>1. \A e \in consumed[Usage] : FALSE
        BY <1>4, <3>1
      <4> QED
        BY <1>0, <3>1, <4>1 DEF TypeOK
    <3> QED
      BY <3>2
  <2>2. CASE Fetch(Usage)
    <3>1. /\ phase[Usage] = "idle" /\ o < Len(t) /\ UNCHANGED <<cursor, consumed>>
          /\ phase' = [phase EXCEPT ![Usage] =
                         IF Current(Usage) \in consumed[Usage] THEN "skipCommit" ELSE "handle"]
      BY <1>0, <2>2 DEF Fetch, To, ledger, o
    <3>2. Current(Usage) = t[o + 1] /\ o + 1 \in 1..Len(t)
      BY <1>0, <3>1 DEF Current, o
    <3>3. Current(Usage) \notin consumed[Usage]
      <4>1. \A i \in 1..Len(t) : t[i] = t[o + 1] => i = o + 1
        BY <1>0, <3>2 DEF PublishedOnce, t
      <4>2. ASSUME Current(Usage) \in consumed[Usage] PROVE FALSE
        <5>1. PICK i \in 1..Len(t) : t[i] = t[o + 1] /\ i <= o
          BY <1>4, <3>1, <3>2, <4>2
        <5> QED
          BY <1>0, <4>1, <5>1
      <4> QED
        BY <4>2
    <3>4. phase'[Usage] = "handle"
      BY <1>0, <3>1, <3>3 DEF TypeOK
    <3> QED
      BY <1>6, <3>1, <3>4 DEF cursor
  <2>3. CASE Mark(Usage)
    <3>1. /\ phase[Usage] = "mark" /\ phase' = [phase EXCEPT ![Usage] = "commit"]
          /\ consumed' = [consumed EXCEPT ![Usage] = @ \cup {Current(Usage)}] /\ UNCHANGED cursor
      BY <2>3 DEF Mark, To
    <3>2. Current(Usage) = t[o + 1] /\ o + 1 \in 1..Len(t)
      BY <1>0, <3>1 DEF Current, o
    <3>3. /\ phase'[Usage] = "commit" /\ consumed'[Usage] = consumed[Usage] \cup {t[o + 1]}
          /\ offset'[Usage] = o
      BY <1>0, <3>1, <3>2 DEF cursor, TypeOK, o
    <3>4. \A e \in consumed[Usage] : \E i \in 1..Len(t) : t[i] = e /\ i <= o
      BY <1>4, <3>1
    <3> QED
      BY <2>0, <3>2, <3>3, <3>4
  <2>4. CASE Bury(Usage)
    <3>1. /\ phase[Usage] = "dlq" /\ phase' = [phase EXCEPT ![Usage] = "dlqCommit"]
          /\ UNCHANGED <<cursor, consumed>>
      BY <2>4 DEF Bury, To
    <3> QED
      BY <1>0, <1>6, <3>1 DEF cursor, TypeOK
  <2>5. CASE CommitOffset(Usage)
    <3>1. /\ phase' = [phase EXCEPT ![Usage] = "idle"] /\ offset' = [offset EXCEPT ![Usage] = @ + 1]
          /\ consumed' = consumed
      BY <2>5 DEF CommitOffset, To, ledger
    <3>2. phase'[Usage] = "idle" /\ offset'[Usage] = o + 1 /\ consumed'[Usage] = consumed[Usage]
      BY <1>0, <3>1 DEF TypeOK, o
    <3>3. \A e \in consumed[Usage] : \E i \in 1..Len(t) : t[i] = e /\ i <= o + 1
      BY <1>0, <1>4
    <3> QED
      BY <2>0, <3>2, <3>3
  <2> QED
    BY <2>0, <2>1, <2>2, <2>3, <2>4, <2>5
<1> QED
  BY <1>5, <1>7, <1>8, <1>9, <1>10, UsageSteps

\* What is undisturbed was.
LEMMA SoFarBefore ==
  ASSUME StorageTypeOK, TypeOK, CommitsAre, EventsOfDone, SeenInOrder, IsFiniteSet(Lowerings),
         [StorageNext]_allvars, SoFar'
  PROVE  SoFar
<1> DEFINE t == log[ResourceTopic]
           n == Len(commits)
<1>1. faults = 0 /\ ~Fault
  BY FaultsStay DEF SoFar
<1>2. Lowerings = {}
  BY LoweringsStep DEF SoFar
<1>3. origin[Usage] = 0
  <2>1. CASE origin'[Usage] = origin[Usage]
    BY <2>1 DEF SoFar
  <2>2. CASE ReadUsage \/ WriteUsage \/ WriteUsageRefused
    BY <2>2 DEF ReadUsage, WriteUsage, WriteUsageRefused, Handle, HandleThrows, Retry, cursor, kvars, SoFar
  <2>3. CASE Consume(Usage)
    <3>1. Join(Usage) \/ Fetch(Usage) \/ Mark(Usage) \/ Bury(Usage) \/ CommitOffset(Usage)
      BY <1>1, <2>3, UsageHousekeeping
    <3>2. CASE Join(Usage)
      BY <1>1, <3>2 DEF Join, SeenInOrder
    <3>3. CASE ~Join(Usage)
      BY <3>1, <3>3 DEF Fetch, Mark, Bury, CommitOffset, cursor, SoFar
    <3> QED
      BY <3>2, <3>3
  <2> QED
    BY <2>1, <2>2, <2>3, UsageSteps
<1>4. InOrder
  <2>0. /\ t \in Seq(Events) /\ t' \in Seq(Events) /\ n \in Nat
        /\ \A i \in 1..Len(t) : i \in 1..Len(t') /\ t'[i] = t[i]
        /\ Len(t) <= Len(t')
        /\ Len(t') <= Len(commits') /\ \A i \in 1..Len(t') : t'[i] = commits'[i]
    BY TopicGrows DEF SoFar, InOrder, CommitsAre
  <2>1. CASE commits' = commits
    BY <2>0, <2>1 DEF InOrder
  <2>2. ASSUME NEW r \in Requests, ResourceCommit(r) PROVE InOrder
    <3>1. /\ pc[r] = "locked" /\ Len(commits') = n + 1 /\ commits'[n + 1] = r
          /\ \A i \in 1..n : commits'[i] = commits[i]
      BY <2>2, CommitOf
    <3>2. \A i \in 1..Len(t) : t[i] = commits'[i]
      BY <2>0
    <3>3. Len(t) # n + 1
      <4>1. ASSUME Len(t) = n + 1 PROVE FALSE
        <5>1. n + 1 \in 1..Len(t)
          BY <2>0, <4>1
        <5>2. t[n + 1] = r
          BY <3>1, <3>2, <5>1
        <5> QED
          BY <3>1, <5>1, <5>2 DEF EventsOfDone, At
      <4> QED
        BY <4>1
    <3>4. Len(t) <= n
      BY <2>0, <3>1, <3>3
    <3>5. \A i \in 1..Len(t) : t[i] = commits[i]
      BY <2>0, <3>1, <3>2, <3>4
    <3> QED
      BY <3>4, <3>5 DEF InOrder
  <2> QED
    BY <2>1, <2>2, OnlyCommits
<1> QED
  BY <1>1, <1>2, <1>3, <1>4 DEF SoFar

\* The next commit by its event.
LEMMA NextDelta ==
  ASSUME StorageTypeOK, CommitsAre, NEW k \in Nat, k + 1 \in 1..Len(commits)
  PROVE  After(req, commits, k) \in Int
         /\ After(req, commits, k + 1) = After(req, commits, k) + Delta(commits[k + 1])
<1>1. \A i \in 1..(k + 1) : i \in 1..Len(commits) /\ commits[i] \in Requests
  BY DEF CommitsAre
<1>2. \A i \in 1..(k + 1) : req[commits[i]].size \in Nat
  BY <1>1 DEF StorageTypeOK
<1>3. \A i \in 1..k : commits[i] # commits[k + 1]
  <2>1. \A i \in 1..k : i \in 1..(k + 1) /\ i # k + 1
    OBVIOUS
  <2> QED
    BY <1>1, <2>1 DEF CommitsAre
<1>4. req[commits[k + 1]].op \in {"create", "remove"}
  BY DEF CommitsAre
<1>5. /\ After(req, commits, k) \in Int
      /\ req[commits[k + 1]].op = "create" =>
           After(req, commits, k + 1) = After(req, commits, k) + req[commits[k + 1]].size
      /\ req[commits[k + 1]].op = "remove" =>
           After(req, commits, k + 1) = After(req, commits, k) - req[commits[k + 1]].size
  BY <1>2, <1>3, <1>4, AfterNext
<1>6. req[commits[k + 1]].size \in Nat
  BY <1>2
<1> QED
  BY <1>4, <1>5, <1>6 DEF Delta

LEMMA FollowsStep ==
  ASSUME StorageTypeOK, TypeOK, CommitsAre, UsedIsStored, CeilingWasSold, AttemptsInv, DisplayInv,
         PublishedOnce, [StorageNext]_allvars
  PROVE  DisplayFollows'
<1> DEFINE t == log[ResourceTopic]
           o == offset[Usage]
           A(k) == After(req, commits, k)
<1>1. SUFFICES ASSUME SoFar'
               PROVE  /\ phase'[Usage] \in {"down", "idle", "handle"} =>
                           display' = After(req', commits', offset'[Usage])
                      /\ phase'[Usage] \in {"mark", "commit"} =>
                           display' = After(req', commits', offset'[Usage] + 1)
                      /\ view'.open => /\ view'.display = display'
                                       /\ After(req', commits', offset'[Usage] + 1) <= view'.plan
  BY DEF DisplayFollows
<1>2. SoFar
  BY <1>1, SoFarBefore DEF AttemptsInv, AttemptsAreLowerings, DisplayInv
<1>3. faults = 0 /\ ~Fault
  BY <1>1, FaultsStay DEF SoFar
<1>4. /\ phase[Usage] \in {"down", "idle", "handle"} => display = A(o)
      /\ phase[Usage] \in {"mark", "commit"} => display = A(o + 1)
      /\ view.open => view.display = display /\ A(o + 1) <= view.plan
  BY <1>2 DEF DisplayInv, DisplayFollows
<1>5. /\ Usage \in Groups /\ Topic(Usage) = t /\ t \in Seq(Events) /\ Len(t) \in Nat /\ o \in Nat
      /\ phase[Usage] \notin {"down", "idle"} => o < Len(t)
      /\ o <= Len(t) /\ Len(commits) \in Nat /\ Len(t) <= Len(commits)
      /\ \A i \in 1..Len(t) : t[i] = commits[i]
      /\ ResourceTopic \in Topics
  BY <1>2, StorageAssumption, TopicGrows DEF Topic, TypeOK, SoFar, InOrder, CommitsAre
<1>6. /\ \A k \in 0..Len(commits) : After(req', commits', k) = A(k)
      /\ \A k \in 0..Len(commits) : A(k) >= 0 /\ A(k) <= plan
      /\ plan \in Nat /\ display \in Nat
  BY <1>2, AfterKept DEF DisplayInv, WithinPlan, SoFar, StorageTypeOK
<1>7. /\ After(req', commits', o) = A(o)
      /\ phase[Usage] \notin {"down", "idle"} => /\ o + 1 \in 1..Len(commits)
                                                  /\ After(req', commits', o + 1) = A(o + 1)
                                                  /\ A(o + 1) >= 0 /\ A(o + 1) <= plan
  <2>1. o \in 0..Len(commits) /\ (o < Len(t) => o + 1 \in 1..Len(commits) /\ o + 1 \in 0..Len(commits))
    BY <1>5
  <2> QED
    BY <1>5, <1>6, <2>1
<1>8. phase[Usage] \notin {"skipCommit", "dlq", "dlqCommit"}
  <2>1. phase[Usage] # "skipCommit"
    BY <1>3 DEF DisplayInv, SeenInOrder
  <2>2. Cardinality(Lowerings) = 0
    BY <1>2, FS_EmptySet DEF SoFar
  <2> QED
    BY <1>3, <2>1, <2>2, RetriesAssumption DEF AttemptsInv, AttemptsAreLowerings
<1> HIDE DEF t, o, A
<1>9. CASE /\ phase'[Usage] = phase[Usage] /\ offset'[Usage] = offset[Usage] /\ view' = view
           /\ display' = display
  <2>1. view.open => phase[Usage] = "handle"
    BY DEF AttemptsInv, ViewIsOpen
  <2> QED
    BY <1>4, <1>7, <1>9, <2>1 DEF o
<1>10. CASE /\ phase'[Usage] = phase[Usage] /\ offset'[Usage] = offset[Usage] /\ view' = view
            /\ ~assigned /\ display' = 0
  <2>1. ~synced
    BY <1>10 DEF CeilingWasSold, DisplayInv, WithinPlan
  <2>2. Len(commits) = 0
    BY <2>1 DEF UsedIsStored
  <2>3. o = 0 /\ phase[Usage] \in {"down", "idle"}
    BY <1>5, <2>2
  <2>4. ~view.open
    BY <2>3 DEF AttemptsInv, ViewIsOpen
  <2>5. After(req', commits', 0) = 0
    BY AfterZero
  <2> QED
    BY <1>10, <2>3, <2>4, <2>5 DEF o
<1>11. CASE ReadUsage
  <2>1. /\ phase' = phase /\ offset' = offset /\ display' = display /\ phase[Usage] = "handle"
        /\ view'.display = display /\ view'.plan = plan
    BY <1>11 DEF ReadUsage, kvars, subscription
  <2> QED
    BY <1>4, <1>7, <2>1 DEF o
<1>12. CASE WriteUsage
  <2>1. /\ phase[Usage] = "handle" /\ phase' = [phase EXCEPT ![Usage] = "mark"] /\ offset' = offset
        /\ view.open /\ view'.open = FALSE /\ display' = Clamped
    BY <1>12 DEF WriteUsage, Handle, To, cursor, NoView
  <2>2. Current(Usage) = commits[o + 1] /\ o + 1 \in 1..Len(commits)
    <3>1. o + 1 \in 1..Len(t)
      BY <1>5, <2>1
    <3>2. Current(Usage) = t[o + 1]
      BY <1>5 DEF Current, o
    <3> QED
      BY <1>5, <1>7, <2>1, <3>1, <3>2
  <2>3. A(o + 1) = A(o) + Delta(Current(Usage)) /\ A(o) \in Int
    BY <1>5, <2>2, NextDelta DEF A
  <2>4. view.display = A(o)
    BY <1>4, <2>1
  <2>5. view.display + Delta(Current(Usage)) = A(o + 1)
    BY <2>3, <2>4
  <2>6. Clamped = A(o + 1)
    <3>1. Clamped = Smaller(view.plan, Bigger(0, A(o + 1)))
      BY <2>5 DEF Clamped
    <3>2. A(o + 1) >= 0 /\ A(o + 1) <= view.plan
      BY <1>4, <1>7, <2>1
    <3>3. A(o + 1) \in Int /\ view.plan \in Nat
      <4>1. Delta(Current(Usage)) \in Int
        <5>1. Current(Usage) \in Requests
          BY <1>5, <2>1, DeliveredType
        <5> QED
          BY <5>1 DEF Delta, StorageTypeOK
      <4> QED
        BY <2>3, <4>1 DEF StorageTypeOK
    <3> QED
      BY <3>1, <3>2, <3>3 DEF Smaller, Bigger
  <2>7. phase'[Usage] = "mark"
    BY <1>5, <2>1 DEF TypeOK
  <2> QED
    BY <1>7, <2>1, <2>6, <2>7 DEF o
<1>13. CASE WriteUsageRefused
  <2>1. /\ phase[Usage] = "handle" /\ offset' = offset /\ display' = display /\ view'.open = FALSE
        /\ \E p \in {"handle", "dlq"} : phase' = [phase EXCEPT ![Usage] = p]
    BY <1>13 DEF WriteUsageRefused, HandleThrows, Retry, To, cursor, NoView, subscription
  <2>2. phase'[Usage] \in {"handle", "dlq"}
    BY <1>5, <2>1 DEF TypeOK
  <2> QED
    BY <1>4, <1>7, <2>1, <2>2 DEF o
<1>14. CASE Consume(Usage)
  <2>0. /\ Join(Usage) \/ Fetch(Usage) \/ Mark(Usage) \/ Bury(Usage) \/ CommitOffset(Usage)
        /\ log' = log /\ display' = display /\ view'.open = FALSE
    BY <1>3, <1>14, UsageHousekeeping
  <2>1. CASE Join(Usage)
    <3>1. /\ phase[Usage] = "down" /\ phase' = [phase EXCEPT ![Usage] = "idle"]
          /\ offset' = [offset EXCEPT ![Usage] = IF durable[Usage] THEN @ ELSE Len(Topic(Usage))]
          /\ origin' = [origin EXCEPT ![Usage] = IF durable[Usage] THEN @ ELSE Len(Topic(Usage))]
      BY <2>1 DEF Join, To
    <3>2. o = 0 /\ origin'[Usage] = 0
      BY <1>1, <1>3, <3>1 DEF DisplayInv, SeenInOrder, SoFar, o
    <3>3. offset'[Usage] = 0 /\ phase'[Usage] = "idle"
      BY <1>5, <3>1, <3>2 DEF TypeOK, o
    <3>4. display = 0
      BY <1>3, <3>1 DEF DisplayInv, SeenInOrder
    <3>5. After(req', commits', 0) = 0
      BY AfterZero
    <3> QED
      BY <2>0, <3>3, <3>4, <3>5
  <2>2. CASE Fetch(Usage)
    <3>1. /\ phase[Usage] = "idle" /\ offset' = offset
          /\ \E p \in {"skipCommit", "handle"} : phase' = [phase EXCEPT ![Usage] = p]
      BY <2>2 DEF Fetch, To, cursor
    <3>2. phase'[Usage] \in {"skipCommit", "handle"}
      BY <1>5, <3>1 DEF TypeOK
    <3> QED
      BY <1>4, <1>7, <2>0, <3>1, <3>2 DEF o
  <2>3. CASE Mark(Usage)
    <3>1. phase[Usage] = "mark" /\ offset' = offset /\ phase' = [phase EXCEPT ![Usage] = "commit"]
      BY <2>3 DEF Mark, To, cursor
    <3>2. phase'[Usage] = "commit"
      BY <1>5, <3>1 DEF TypeOK
    <3> QED
      BY <1>4, <1>7, <2>0, <3>1, <3>2 DEF o
  <2>4. CASE Bury(Usage)
    BY <1>8, <2>4 DEF Bury
  <2>5. CASE CommitOffset(Usage)
    <3>1. /\ phase[Usage] = "commit" /\ phase' = [phase EXCEPT ![Usage] = "idle"]
          /\ offset' = [offset EXCEPT ![Usage] = @ + 1]
      BY <1>8, <2>5 DEF CommitOffset, To
    <3>2. phase'[Usage] = "idle" /\ offset'[Usage] = o + 1
      BY <1>5, <3>1 DEF TypeOK, o
    <3> QED
      BY <1>4, <1>7, <2>0, <3>1, <3>2
  <2> QED
    BY <2>0, <2>1, <2>2, <2>3, <2>4, <2>5
<1> QED
  BY <1>9, <1>10, <1>11, <1>12, <1>13, <1>14, UsageSteps

LEMMA DisplayInit == StorageInit => DisplayInv
<1>0. SUFFICES ASSUME StorageInit PROVE DisplayInv
  OBVIOUS
<1>1. /\ commits = <<>> /\ used = 0 /\ display = 0 /\ assigned = FALSE /\ view.open = FALSE
      /\ \A r \in Requests : pc[r] = "idle" /\ req[r].op = "none"
      /\ log[ResourceTopic] = <<>> /\ offset[Usage] = 0 /\ origin[Usage] = 0 /\ phase[Usage] = "down"
      /\ consumed[Usage] = {}
  BY <1>0, StorageAssumption DEF StorageInit, BusInit, NoRequest, NoView, Form
<1>2. AskedIs
  BY <1>1 DEF AskedIs
<1>3. WithinPlan
  <2>1. Sold = {}
    BY <1>1 DEF Sold, Changed
  <2>2. After(req, commits, 0) = 0 /\ plan = 0
    BY <1>0, AfterZero DEF StorageInit
  <2>3. Len(commits) = 0 /\ \A k \in 0..Len(commits) : k = 0
    BY <1>1
  <2> QED
    BY <1>1, <2>1, <2>2, <2>3 DEF WithinPlan
<1>4. EventsOfDone /\ SeenInOrder
  BY <1>1 DEF EventsOfDone, SeenInOrder
<1>5. DisplayFollows
  BY <1>1, AfterZero DEF DisplayFollows
<1> QED
  BY <1>2, <1>3, <1>4, <1>5 DEF DisplayInv

\* The display follows the commits, in every reachable state in which nothing was disturbed.
THEOREM DisplayTracks == StorageSpec => []DisplayInv
<1>1. ASSUME StorageInv, StorageInv', BytesInv, BytesInv', AttemptsInv, BusInv, DisplayInv,
             [StorageNext]_allvars
      PROVE  DisplayInv'
  <2>1. StorageTypeOK /\ TypeOK /\ CommitsAre /\ UsedIsStored /\ CeilingWasSold /\ PublishedOnce
        /\ IsFiniteSet(Lowerings)
    BY <1>1 DEF StorageInv, BytesInv, BusInv, AttemptsInv, AttemptsAreLowerings
  <2>2. AskedIs' /\ WithinPlan'
    BY <1>1, <2>1, AskedIsStep, WithinPlanStep DEF DisplayInv
  <2>3. EventsOfDone' /\ SeenInOrder'
    BY <1>1, <2>1, DoneStep, SeenStep DEF DisplayInv
  <2>4. DisplayFollows'
    BY <1>1, <2>1, FollowsStep
  <2> QED
    BY <2>2, <2>3, <2>4 DEF DisplayInv
<1>2. /\ StorageInv /\ StorageInv' /\ BytesInv /\ BytesInv' /\ AttemptsInv /\ BusInv /\ DisplayInv
      /\ [StorageNext]_<<kvars, svars>>
      => DisplayInv'
  BY <1>1 DEF allvars
<1> QED
  BY <1>2, DisplayInit, StorageInvariance, BytesCounted, AttemptsCounted, StorageUsesBus, BusInvariance,
     PTL DEF StorageSpec

\* When nothing fails, the consumer was there from the start, no plan was lowered and the events
\* were published in the order of the commits, then the displayed usage ends up as the enforced one.
THEOREM DisplayMeetsUsed == StorageSpec => []DisplayConverges
<1>1. ASSUME TypeOK, BytesInv, DisplayInv, Quiet, Undisturbed PROVE display = used
  <2>1. Usage \in Groups /\ Topic(Usage) = log[ResourceTopic]
    BY StorageAssumption DEF Topic
  <2>2. phase[Usage] = "idle" /\ offset[Usage] = Len(commits)
    BY <1>1, <2>1 DEF Quiet, Undisturbed
  <2>3. SoFar
    <3>1. Len(commits) \in Nat
      BY <1>1 DEF BytesInv, CommitsAre
    <3> QED
      BY <1>1, <3>1 DEF Undisturbed, SoFar, InOrder, Lowerings
  <2> QED
    BY <1>1, <2>2, <2>3 DEF DisplayInv, DisplayFollows, WithinPlan
<1>2. TypeOK /\ BytesInv /\ DisplayInv => DisplayConverges
  BY <1>1 DEF DisplayConverges
<1> QED
  BY <1>2, DisplayTracks, BytesCounted, StorageUsesBus, BusTypes, PTL
=============================================================================
