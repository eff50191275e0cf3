---------------------------- MODULE SeatsProofs ----------------------------
(***************************************************************************)
(* Proofs about Seats, for any number of handlers, invitations, people and *)
(* plans, any mix of operations, and with or without crashes.              *)
(***************************************************************************)
EXTENDS SeatsProps, FiniteSetTheorems, TLAPS

\* Where a request goes once it has the subscription row.
LEMMA AfterLockPlaces ==
  ASSUME NEW p \in WaitsForSub
  PROVE  /\ p \in {"inviteLock", "acceptLockSub", "revokeLock", "removeLock", "sweepLock",
                   "planLock"}
         /\ AfterLock[p] \in HoldsSub
         /\ AfterLock[p] \in Places
         /\ AfterLock[p] \in OnNewInvitation => p \in OnNewInvitation
         /\ AfterLock[p] \in OnInvitation => p \in OnInvitation
         /\ AfterLock[p] \in OnUser => p \in OnUser
         /\ AfterLock[p] \in OnPlan => p \in OnPlan
         /\ AfterLock[p] \in HoldsInv => p \in HoldsInv
         /\ AfterLock[p] # "sweepBody"
  BY DEF AfterLock, WaitsForSub, HoldsSub, Places,
     OnNewInvitation, OnInvitation, OnUser, OnPlan, OnNothing, HoldsInv

-----------------------------------------------------------------------------
(* Types *)

LEMMA TypeInit == Init => TypeOK
  BY FounderAssumption, PlanAssumption
  DEF Init, TypeOK, NoRow, Places, OnNewInvitation, OnInvitation, OnUser, OnPlan, OnNothing

\* Ending a request leaves the bookkeeping of all requests well typed: rows are never deleted.
LEMMA FinishType ==
  ASSUME NEW w \in Workers, TypeOK, Finish(w), created \subseteq created', members \subseteq members'
  PROVE  /\ subLock' \in Workers \cup {None}
         /\ invLock' \in [Invitations -> Workers \cup {None}]
         /\ pc' \in [Workers -> Places]
         /\ arg' \in [Workers -> Invitations \cup Emails \cup PlanSizes \cup {None}]
         /\ seen' \in [Workers -> [used : Int, max : Int]]
         /\ ids' \in [Workers -> SUBSET created']
         /\ \A v \in Workers : /\ pc'[v] \in OnNewInvitation => arg'[v] \in Invitations
                               /\ pc'[v] \in OnInvitation => arg'[v] \in created'
                               /\ pc'[v] \in OnUser => arg'[v] \in members'
                               /\ pc'[v] \in OnPlan => arg'[v] \in PlanSizes
<1>1. /\ subLock' \in Workers \cup {None}
      /\ invLock' \in [Invitations -> Workers \cup {None}]
      /\ seen' \in [Workers -> [used : Int, max : Int]]
  BY DEF TypeOK, Finish, NoRow
<1>2. /\ pc' \in [Workers -> Places]
      /\ arg' \in [Workers -> Invitations \cup Emails \cup PlanSizes \cup {None}]
  BY DEF TypeOK, Finish, Places, OnNothing
<1>3. ids' \in [Workers -> SUBSET created']
  BY DEF TypeOK, Finish
<1>4. ASSUME NEW v \in Workers
      PROVE  /\ pc'[v] \in OnNewInvitation => arg'[v] \in Invitations
             /\ pc'[v] \in OnInvitation => arg'[v] \in created'
             /\ pc'[v] \in OnUser => arg'[v] \in members'
             /\ pc'[v] \in OnPlan => arg'[v] \in PlanSizes
  <2>1. CASE v = w
    BY <2>1 DEF TypeOK, Finish, OnNewInvitation, OnInvitation, OnUser, OnPlan
  <2>2. CASE v # w
    BY <2>2 DEF TypeOK, Finish
  <2> QED
    BY <2>1, <2>2
<1> QED
  BY <1>1, <1>2, <1>3, <1>4

LEMMA RollbackType ==
  ASSUME NEW w \in Workers, TypeOK, Rollback(w)
  PROVE  TypeOK'
  BY FinishType DEF TypeOK, Rollback, sub, invs, users

LEMMA StartType ==
  ASSUME NEW w \in Workers, NEW op, NEW p \in Places, NEW a, TypeOK, Start(w, op, p, a),
         a \in Invitations \cup Emails \cup PlanSizes \cup {None},
         p \in OnNewInvitation => a \in Invitations,
         p \in OnInvitation => a \in created,
         p \in OnUser => a \in members,
         p \in OnPlan => a \in PlanSizes
  PROVE  TypeOK'
  BY DEF TypeOK, Start, sub, invs, users, locks

LEMMA GoToType ==
  ASSUME NEW w \in Workers, NEW p \in Places, TypeOK, GoTo(w, p), UNCHANGED <<invs, users>>,
         p \in OnNewInvitation => pc[w] \in OnNewInvitation,
         p \in OnInvitation => pc[w] \in OnInvitation,
         p \in OnUser => pc[w] \in OnUser,
         p \in OnPlan => pc[w] \in OnPlan
  PROVE  /\ pc' \in [Workers -> Places]
         /\ UNCHANGED <<arg, seen, ids>>
         /\ \A v \in Workers : /\ pc'[v] \in OnNewInvitation => arg'[v] \in Invitations
                               /\ pc'[v] \in OnInvitation => arg'[v] \in created'
                               /\ pc'[v] \in OnUser => arg'[v] \in members'
                               /\ pc'[v] \in OnPlan => arg'[v] \in PlanSizes
  BY DEF TypeOK, GoTo, invs, users

\* What a release subtracts from the counter, and what of it was no seat any more, are numbers.
LEMMA ReleaseType ==
  ASSUME NEW R, NEW H, used \in Int, again \in Nat, R \subseteq Invitations \/ R \subseteq Emails,
         Release(R, H)
  PROVE  used' \in Int /\ again' \in Nat
<1>1. IsFiniteSet(R) /\ IsFiniteSet(R \ H)
  BY FiniteAssumption, FS_Subset
<1>2. Cardinality(R) \in Nat /\ Cardinality(R \ H) \in Nat
  BY <1>1, FS_CardinalityType
<1> QED
  BY <1>2 DEF Release

LEMMA TypeStep == TypeOK /\ [Next]_vars => TypeOK'
<1> SUFFICES ASSUME TypeOK, [Next]_vars PROVE TypeOK'
  OBVIOUS
<1>0. used \in Int /\ again \in Nat /\ created \subseteq Invitations /\ members \subseteq Emails
  BY DEF TypeOK
<1>1. CASE ProvisionFounder
  BY <1>1, FounderAssumption DEF ProvisionFounder, TypeOK, sub, invs, locks, local
<1>2. ASSUME NEW w \in Workers, NEW i \in Invitations,
             StartInvite(w, i) \/ StartAccept(w, i) \/ StartRevoke(w, i)
      PROVE  TypeOK'
  BY <1>2, StartType
  DEF StartInvite, StartAccept, StartRevoke, Pending, Places, OnNewInvitation, OnInvitation, OnUser, OnPlan, OnNothing
<1>3. ASSUME NEW w \in Workers, NEW e \in Emails,
             StartPromote(w, e) \/ StartDemote(w, e) \/ StartRemove(w, e)
      PROVE  TypeOK'
  BY <1>3, StartType
  DEF StartPromote, StartDemote, StartRemove, Active, Places, OnNewInvitation, OnInvitation, OnUser, OnPlan, OnNothing
<1>4. ASSUME NEW w \in Workers, NEW m \in PlanSizes, StartPlan(w, m) PROVE TypeOK'
  BY <1>4, StartType DEF StartPlan, Places, OnNewInvitation, OnInvitation, OnUser, OnPlan, OnNothing
<1>5. ASSUME NEW w \in Workers, StartSweep(w) PROVE TypeOK'
  BY <1>5, StartType DEF StartSweep, Places, OnNewInvitation, OnInvitation, OnUser, OnPlan, OnNothing
<1>6. ASSUME NEW w \in Workers, LockSub(w) PROVE TypeOK'
  <2>1. /\ AfterLock[pc[w]] \in Places
        /\ AfterLock[pc[w]] \in OnNewInvitation => pc[w] \in OnNewInvitation
        /\ AfterLock[pc[w]] \in OnInvitation => pc[w] \in OnInvitation
        /\ AfterLock[pc[w]] \in OnUser => pc[w] \in OnUser
        /\ AfterLock[pc[w]] \in OnPlan => pc[w] \in OnPlan
    BY <1>6, AfterLockPlaces DEF LockSub
  <2>2. max \in Int
    BY PlanAssumption DEF TypeOK
  <2> QED
    BY <1>6, <2>1, <2>2 DEF LockSub, TypeOK, sub, invs, users
<1>7. ASSUME NEW w \in Workers, InviteCommit(w) PROVE TypeOK'
  <2>1. arg[w] \in Invitations
    BY <1>7 DEF InviteCommit, TypeOK, OnNewInvitation
  <2>2. created \subseteq created' /\ members \subseteq members' /\ Finish(w)
    BY <1>7 DEF InviteCommit, users
  <2> QED
    BY <1>7, <2>1, <2>2, FinishType DEF InviteCommit, TypeOK, users
<1>8. ASSUME NEW w \in Workers,
             \/ InviteReject(w) \/ AcceptReject(w) \/ LastAdminReject(w) \/ SweepNothing(w)
             \/ PlanReject(w) \/ CheckAbort(w) \/ DeadlockAbort(w) \/ Crash(w)
      PROVE  TypeOK'
  BY <1>8, RollbackType
  DEF InviteReject, AcceptReject, LastAdminReject, SweepNothing, PlanReject, CheckAbort,
      DeadlockAbort, Crash
<1>9. ASSUME NEW w \in Workers, AcceptPeek(w) \/ AcceptCredential(w) \/ AcceptLockInvitation(w)
      PROVE  TypeOK'
  <2>1. CASE AcceptPeek(w)
    BY <2>1, GoToType
    DEF AcceptPeek, TypeOK, sub, invs, users, locks, Places, OnNewInvitation, OnInvitation, OnUser, OnPlan, OnNothing
  <2>2. CASE AcceptCredential(w)
    BY <2>2, GoToType, EmailAssumption
    DEF AcceptCredential, TypeOK, sub, invs, users, locks, Places, OnNewInvitation,
        OnInvitation, OnUser, OnPlan, OnNothing
  <2>3. CASE AcceptLockInvitation(w)
    BY <2>3, GoToType
    DEF AcceptLockInvitation, TypeOK, sub, invs, users, Places, OnNewInvitation,
        OnInvitation, OnUser, OnPlan, OnNothing
  <2> QED
    BY <1>9, <2>1, <2>2, <2>3
<1>10. ASSUME NEW w \in Workers, AcceptCredentialLost(w) PROVE TypeOK'
  <2>1. arg[w] \in Invitations /\ EmailOf[arg[w]] \in Emails
    BY <1>10, EmailAssumption DEF AcceptCredentialLost, TypeOK, OnInvitation
  <2> QED
    BY <1>10, <2>1, FinishType DEF AcceptCredentialLost, TypeOK, sub, invs, users
<1>11. ASSUME NEW w \in Workers, AcceptCommit(w) PROVE TypeOK'
  <2>1. arg[w] \in created /\ EmailOf[arg[w]] \in Emails
    BY <1>11, EmailAssumption DEF AcceptCommit, TypeOK, OnInvitation
  <2>2. created \subseteq created' /\ members \subseteq members' /\ Finish(w)
    BY <1>11 DEF AcceptCommit
  <2> QED
    BY <1>11, <2>1, <2>2, FinishType DEF AcceptCommit, TypeOK, sub
<1>12. ASSUME NEW w \in Workers, RevokeCommit(w) PROVE TypeOK'
  <2>1. arg[w] \in created
    BY <1>12 DEF RevokeCommit, TypeOK, OnInvitation
  <2>2. used' \in Int /\ again' \in Nat
    BY <1>0, <1>12, <2>1, ReleaseType DEF RevokeCommit, TypeOK
  <2> QED
    BY <1>12, <2>1, <2>2, FinishType DEF RevokeCommit, TypeOK, users
<1>13. ASSUME NEW w \in Workers, DemoteCount(w) \/ RemoveCount(w) PROVE TypeOK'
  BY <1>13, GoToType
  DEF DemoteCount, RemoveCount, TypeOK, sub, invs, users, locks, Places,
      OnNewInvitation, OnInvitation, OnUser, OnPlan, OnNothing
<1>14. ASSUME NEW w \in Workers, UpdateRole(w) PROVE TypeOK'
  <2>1. arg[w] \in members
    BY <1>14 DEF UpdateRole, TypeOK, OnUser
  <2> QED
    BY <1>14, <2>1, FinishType DEF UpdateRole, TypeOK, sub, invs
<1>15. ASSUME NEW w \in Workers, RemoveCommit(w) PROVE TypeOK'
  <2>1. arg[w] \in members
    BY <1>15 DEF RemoveCommit, TypeOK, OnUser
  <2>2. used' \in Int /\ again' \in Nat
    BY <1>0, <1>15, <2>1, ReleaseType DEF RemoveCommit, TypeOK
  <2> QED
    BY <1>15, <2>1, <2>2, FinishType DEF RemoveCommit, TypeOK, invs
<1>16. ASSUME NEW w \in Workers, SweepScan(w) PROVE TypeOK'
  BY <1>16
  DEF SweepScan, TypeOK, Pending, sub, invs, users, locks, Places,
      OnNewInvitation, OnInvitation, OnUser, OnPlan, OnNothing
<1>17. ASSUME NEW w \in Workers, SweepCommit(w) PROVE TypeOK'
  <2>1. ids[w] \subseteq created
    BY DEF TypeOK
  <2>2. used' \in Int /\ again' \in Nat
    BY <1>0, <1>17, <2>1, ReleaseType DEF SweepCommit, TypeOK
  <2> QED
    BY <1>17, <2>1, <2>2, FinishType DEF SweepCommit, TypeOK, users
<1>18. ASSUME NEW w \in Workers, PlanCommit(w) PROVE TypeOK'
  BY <1>18, FinishType DEF PlanCommit, TypeOK, invs, users, OnPlan
<1>19. ASSUME NEW i \in Invitations, Expire(i) PROVE TypeOK'
  BY <1>19 DEF Expire, Pending, TypeOK, sub, users, locks, local
<1>20. CASE UNCHANGED vars
  BY <1>20 DEF vars, TypeOK
<1> QED
  BY <1>1, <1>2, <1>3, <1>4, <1>5, <1>6, <1>7, <1>8, <1>9, <1>10, <1>11, <1>12, <1>13, <1>14,
     <1>15, <1>16, <1>17, <1>18, <1>19, <1>20
  DEF Next, Begin, Proceed

\* Every variable of the seat model keeps its type.
THEOREM SeatsTypeCorrect == Spec => []TypeOK
  BY TypeInit, TypeStep, PTL DEF Spec

-----------------------------------------------------------------------------
(* The inductive invariant: one lemma per way in which a request moves. *)

LEMMA InvInit == Init => SeatsInv
<1> SUFFICES ASSUME Init PROVE SeatsInv
  OBVIOUS
<1>1. TypeOK
  BY TypeInit
<1>2. SubLocked /\ InvLocked /\ FreshIds /\ CallersExist
  BY NoneAssumption
  DEF Init, SubLocked, InvLocked, FreshIds, CallersExist, HoldsSub, HoldsInv, OnNewInvitation
<1>3. SeatLimit
  BY PlanAssumption DEF Init, SeatLimit
<1>4. SeatsExact
  BY FS_EmptySet DEF Init, SeatsExact, Count, FounderSeat, Pending, Active
<1> QED
  BY <1>1, <1>2, <1>3, <1>4 DEF SeatsInv

\* A step that leaves the rows alone leaves the counter and the count alone.
LEMMA SameCount ==
  ASSUME SeatsInv, UNCHANGED <<used, max, again, created, accepted, revoked, members, removed>>
  PROVE  SeatLimit' /\ SeatsExact'
  BY DEF SeatsInv, SeatLimit, SeatsExact, Count, FounderSeat, Pending, Active

\* The end of a request, whatever it wrote: the other requests keep what they rely on, if the
\* row they locked and the ids they reserved are untouched.
LEMMA FinishInv ==
  ASSUME NEW w \in Workers, SeatsInv, Finish(w), members \subseteq members',
         pc[w] \in HoldsSub \/ UNCHANGED sub,
         \A v \in Workers \ {w} : pc[v] \in HoldsInv => arg[v] \in Pending',
         \A v \in Workers \ {w} : pc[v] \in OnNewInvitation => arg[v] \notin created'
  PROVE  SubLocked' /\ InvLocked' /\ FreshIds' /\ CallersExist'
<1>1. /\ pc' = [pc EXCEPT ![w] = "idle"] /\ arg' = [arg EXCEPT ![w] = None]
      /\ seen' = [seen EXCEPT ![w] = NoRow]
      /\ pc'[w] = "idle"
      /\ \A v \in Workers \ {w} : pc'[v] = pc[v] /\ arg'[v] = arg[v] /\ seen'[v] = seen[v]
  BY DEF SeatsInv, TypeOK, Finish
<1>2. ASSUME NEW v \in Workers
      PROVE  /\ pc'[v] \in HoldsSub <=> subLock' = v
             /\ subLock' = v => seen'[v] = [used |-> used', max |-> max']
  <2>1. CASE v = w
    BY <1>1, <2>1, NoneAssumption DEF Finish, HoldsSub
  <2>2. CASE v # w
    BY <1>1, <2>2, NoneAssumption DEF SeatsInv, SubLocked, Finish, sub
  <2> QED
    BY <2>1, <2>2
<1>3. ASSUME NEW v \in Workers, pc'[v] \in HoldsInv
      PROVE  invLock'[arg'[v]] = v /\ arg'[v] \in Pending'
  <2>1. v # w /\ pc[v] \in HoldsInv /\ arg'[v] = arg[v]
    BY <1>1, <1>3 DEF HoldsInv
  <2>2. arg[v] \in Invitations /\ invLock[arg[v]] = v
    BY <2>1 DEF SeatsInv, InvLocked, TypeOK, HoldsInv, OnInvitation
  <2> QED
    BY <2>1, <2>2 DEF Finish
<1>4. ASSUME NEW v \in Workers, pc'[v] \in OnNewInvitation
      PROVE  /\ arg'[v] \notin created'
             /\ \A u \in Workers \ {v} : pc'[u] \in OnNewInvitation => arg'[u] # arg'[v]
  <2>1. v # w /\ pc[v] \in OnNewInvitation /\ arg'[v] = arg[v]
    BY <1>1, <1>4 DEF OnNewInvitation
  <2>2. ASSUME NEW u \in Workers \ {v}, pc'[u] \in OnNewInvitation
        PROVE  arg'[u] # arg'[v]
    <3>1. u # w /\ pc[u] \in OnNewInvitation /\ arg'[u] = arg[u]
      BY <1>1, <2>2 DEF OnNewInvitation
    <3> QED
      BY <2>1, <3>1 DEF SeatsInv, FreshIds
  <2> QED
    BY <2>1, <2>2
<1>5. ASSUME NEW v \in Workers, pc'[v] # "idle"
      PROVE  Founder \in members'
  BY <1>1, <1>5 DEF SeatsInv, CallersExist
<1> QED
  BY <1>2, <1>3, <1>4, <1>5 DEF SubLocked, InvLocked, FreshIds, CallersExist

LEMMA RollbackInv ==
  ASSUME NEW w \in Workers, SeatsInv, Rollback(w)
  PROVE  SeatsInv'
<1>1. TypeOK'
  BY RollbackType DEF SeatsInv
<1>2. SubLocked' /\ InvLocked' /\ FreshIds' /\ CallersExist'
  <2>1. /\ UNCHANGED sub /\ members \subseteq members' /\ Finish(w)
        /\ Pending' = Pending /\ created' = created
    BY DEF Rollback, sub, users, invs, Pending
  <2>2. /\ \A v \in Workers \ {w} : pc[v] \in HoldsInv => arg[v] \in Pending'
        /\ \A v \in Workers \ {w} : pc[v] \in OnNewInvitation => arg[v] \notin created'
    BY <2>1 DEF SeatsInv, InvLocked, FreshIds
  <2> QED
    BY <2>1, <2>2, FinishInv
<1>3. SeatLimit' /\ SeatsExact'
  BY SameCount DEF Rollback, sub, invs, users
<1> QED
  BY <1>1, <1>2, <1>3 DEF SeatsInv

LEMMA StartInv ==
  ASSUME NEW w \in Workers, NEW op, NEW p \in Places, NEW a, SeatsInv, Start(w, op, p, a), TypeOK',
         p \notin HoldsSub, p \notin HoldsInv,
         p \in OnNewInvitation =>
           /\ a \notin created
           /\ \A v \in Workers : ~(pc[v] \in OnNewInvitation /\ arg[v] = a)
  PROVE  SeatsInv'
<1>1. /\ pc[w] = "idle" /\ pc'[w] = p /\ arg'[w] = a
      /\ \A v \in Workers \ {w} : pc'[v] = pc[v] /\ arg'[v] = arg[v]
      /\ UNCHANGED <<sub, created, members, subLock, invLock, seen>> /\ Pending' = Pending
      /\ Founder \in members
  BY DEF SeatsInv, TypeOK, Start, invs, users, locks, Pending
<1>2. SubLocked'
  BY <1>1 DEF SeatsInv, SubLocked, sub, HoldsSub
<1>3. InvLocked'
  BY <1>1 DEF SeatsInv, InvLocked
<1>4. FreshIds'
  BY <1>1 DEF SeatsInv, FreshIds
<1>5. CallersExist'
  BY <1>1 DEF CallersExist
<1>6. SeatLimit' /\ SeatsExact'
  BY SameCount DEF Start, sub, invs, users
<1> QED
  BY <1>2, <1>3, <1>4, <1>5, <1>6 DEF SeatsInv

\* A request moves on without touching a row or a lock.
LEMMA GoToInv ==
  ASSUME NEW w \in Workers, NEW p \in Places, SeatsInv, GoTo(w, p), TypeOK',
         UNCHANGED <<sub, invs, users, locks>>,
         pc[w] # "idle", pc[w] \notin HoldsSub, pc[w] \notin HoldsInv,
         p \notin HoldsSub, p \notin HoldsInv, p \notin OnNewInvitation
  PROVE  SeatsInv'
<1>1. /\ pc'[w] = p
      /\ \A v \in Workers \ {w} : pc'[v] = pc[v]
      /\ UNCHANGED <<sub, created, members, subLock, invLock, arg, seen>> /\ Pending' = Pending
  BY DEF SeatsInv, TypeOK, GoTo, invs, users, locks, Pending
<1>2. SubLocked'
  BY <1>1 DEF SeatsInv, SubLocked, sub
<1>3. InvLocked'
  BY <1>1 DEF SeatsInv, InvLocked
<1>4. FreshIds'
  BY <1>1 DEF SeatsInv, FreshIds
<1>5. CallersExist'
  BY <1>1 DEF SeatsInv, CallersExist
<1>6. SeatLimit' /\ SeatsExact'
  BY SameCount DEF sub, invs, users
<1> QED
  BY <1>2, <1>3, <1>4, <1>5, <1>6 DEF SeatsInv

\* What the counts are made of is finite, so that they are numbers.
LEMMA Finite ==
  ASSUME TypeOK
  PROVE  /\ IsFiniteSet(Pending) /\ Cardinality(Pending) \in Nat
         /\ IsFiniteSet(Active) /\ Cardinality(Active) \in Nat
         /\ \A S \in SUBSET created : IsFiniteSet(S) /\ Cardinality(S) \in Nat
<1>1. \A S \in SUBSET Invitations : IsFiniteSet(S) /\ Cardinality(S) \in Nat
  BY FiniteAssumption, FS_Subset, FS_CardinalityType
<1>2. \A S \in SUBSET Emails : IsFiniteSet(S) /\ Cardinality(S) \in Nat
  BY FiniteAssumption, FS_Subset, FS_CardinalityType
<1>3. Pending \in SUBSET Invitations /\ Active \in SUBSET Emails /\ created \in SUBSET Invitations
  BY DEF TypeOK, Pending, Active
<1> QED
  BY <1>1, <1>2, <1>3

\* Taking a set R out of a finite set S loses the elements of R but for those that are not in S.
LEMMA TakeOut ==
  ASSUME NEW S, NEW R, IsFiniteSet(S), IsFiniteSet(R)
  PROVE  /\ Cardinality(S \ R) = Cardinality(S) - Cardinality(R) + Cardinality(R \ S)
         /\ Cardinality(R) \in Nat /\ Cardinality(R \ S) \in 0..Cardinality(R)
<1>1. /\ IsFiniteSet(S \ R) /\ IsFiniteSet(R \ S) /\ IsFiniteSet(S \cap R)
      /\ Cardinality(R \ S) <= Cardinality(R)
  BY FS_Subset
<1>2. Cardinality(S \ R) = Cardinality(S) - Cardinality(S \cap R)
  BY FS_Difference
<1>3. Cardinality(R \ S) = Cardinality(R) - Cardinality(R \cap S)
  BY FS_Difference
<1>4. R \cap S = S \cap R
  OBVIOUS
<1>5. /\ Cardinality(S) \in Nat /\ Cardinality(R) \in Nat /\ Cardinality(S \cap R) \in Nat
      /\ Cardinality(S \ R) \in Nat /\ Cardinality(R \ S) \in Nat
  BY <1>1, FS_CardinalityType
<1> DEFINE s == Cardinality(S)
           r == Cardinality(R)
           both == Cardinality(S \cap R)
           rest == Cardinality(S \ R)
           lost == Cardinality(R \ S)
<1>6. /\ s \in Nat /\ r \in Nat /\ both \in Nat /\ rest \in Nat /\ lost \in Nat
      /\ rest = s - both /\ lost = r - both
  BY <1>2, <1>3, <1>4, <1>5
<1>7. rest = s - r + lost /\ r \in Nat /\ lost \in 0..r
  <2> HIDE DEF s, r, both, rest, lost
  <2> QED
    BY <1>6
<1> QED
  BY <1>7

LEMMA InviteCommitInv ==
  ASSUME NEW w \in Workers, SeatsInv, InviteCommit(w), TypeOK'
  PROVE  SeatsInv'
<1> USE DEF SeatsInv
<1>1. /\ arg[w] \in Invitations \ created
      /\ \A v \in Workers \ {w} : pc[v] \in OnNewInvitation => arg[v] # arg[w]
  BY DEF InviteCommit, TypeOK, FreshIds, OnNewInvitation
<1>2. Pending' = Pending \cup {arg[w]} /\ arg[w] \notin Pending /\ created' = created \cup {arg[w]}
  BY <1>1 DEF InviteCommit, Pending, TypeOK
<1>3. SubLocked' /\ InvLocked' /\ FreshIds' /\ CallersExist'
  <2>1. /\ Finish(w) /\ members \subseteq members' /\ pc[w] \in HoldsSub
        /\ \A v \in Workers \ {w} : pc[v] \in HoldsInv => arg[v] \in Pending'
        /\ \A v \in Workers \ {w} : pc[v] \in OnNewInvitation => arg[v] \notin created'
    BY <1>1, <1>2 DEF InviteCommit, InvLocked, FreshIds, users, HoldsSub
  <2> QED
    BY <2>1, FinishInv
<1>4. SeatLimit'
  BY DEF InviteCommit, InviteAllowed, CheckSeats, SeatLimit
<1>5. SeatsExact'
  <2>1. Cardinality(Pending') = Cardinality(Pending) + 1 /\ Active' = Active /\ members' = members
    BY <1>2, Finite, FS_AddElement DEF InviteCommit, users, Active
  <2>2. used' = used + 1 /\ used \in Int /\ again' = again /\ again \in Nat
    BY DEF InviteCommit, TypeOK
  <2> QED
    BY <2>1, <2>2, Finite DEF SeatsExact, Count, FounderSeat
<1> QED
  BY <1>3, <1>4, <1>5

LEMMA AcceptCommitInv ==
  ASSUME NEW w \in Workers, SeatsInv, AcceptCommit(w), TypeOK'
  PROVE  SeatsInv'
<1> USE DEF SeatsInv
<1>1. arg[w] \in Pending /\ invLock[arg[w]] = w /\ EmailOf[arg[w]] \notin members
  BY DEF AcceptCommit, InvLocked, HoldsInv
<1>2. Pending' = Pending \ {arg[w]}
  BY DEF AcceptCommit, Pending
<1>3. Active' = Active \cup {EmailOf[arg[w]]} /\ EmailOf[arg[w]] \notin Active
  BY <1>1 DEF AcceptCommit, Active, TypeOK
<1>4. Founder \in members /\ Founder \in members'
  BY DEF AcceptCommit, CallersExist
<1>5. SubLocked' /\ InvLocked' /\ FreshIds' /\ CallersExist'
  <2>1. /\ Finish(w) /\ members \subseteq members' /\ UNCHANGED sub
        /\ \A v \in Workers \ {w} : pc[v] \in HoldsInv => arg[v] \in Pending'
        /\ \A v \in Workers \ {w} : pc[v] \in OnNewInvitation => arg[v] \notin created'
    BY <1>1, <1>2 DEF AcceptCommit, InvLocked, FreshIds
  <2> QED
    BY <2>1, FinishInv
<1>6. UNCHANGED <<used, max, again>> /\ used \in Int /\ again \in Nat
  BY DEF AcceptCommit, sub, TypeOK
<1>7. SeatsExact'
  <2>1. Cardinality(Pending') = Cardinality(Pending) - 1
    BY <1>1, <1>2, Finite, FS_RemoveElement
  <2>2. Cardinality(Active') = Cardinality(Active) + 1
    BY <1>3, Finite, FS_AddElement
  <2> QED
    BY <1>4, <1>6, <2>1, <2>2, Finite DEF SeatsExact, Count, FounderSeat
<1> QED
  BY <1>5, <1>6, <1>7 DEF SeatLimit

\* A revocation and a sweep take a set R of invitations, at most one each or all expired ones,
\* none of them locked by an acceptance.
LEMMA ReleaseInvitationsInv ==
  ASSUME NEW w \in Workers, SeatsInv, Finish(w), TypeOK', NEW R \in SUBSET created,
         pc[w] \in HoldsSub,
         \A i \in R : invLock[i] = None,
         Release(R, Pending), revoked' = revoked \cup R,
         UNCHANGED <<max, created, expired, accepted, users, creds>>
  PROVE  SeatsInv'
<1> USE DEF SeatsInv
<1>1. Pending' = Pending \ R
  BY DEF Pending
<1>2. SubLocked' /\ InvLocked' /\ FreshIds' /\ CallersExist'
  <2>1. /\ members \subseteq members'
        /\ \A v \in Workers \ {w} : pc[v] \in HoldsInv => arg[v] \in Pending'
        /\ \A v \in Workers \ {w} : pc[v] \in OnNewInvitation => arg[v] \notin created'
    BY <1>1, NoneAssumption DEF InvLocked, FreshIds, users
  <2> QED
    BY <2>1, FinishInv
<1>3. SeatLimit'
  BY DEF SeatLimit, Release, CheckSeats
<1>4. SeatsExact'
  <2>1. /\ Cardinality(Pending') = Cardinality(Pending) - Cardinality(R) + Cardinality(R \ Pending)
        /\ Cardinality(R \ Pending) \in Nat /\ Cardinality(R) \in Nat
    BY <1>1, Finite, TakeOut
  <2>2. used' = used - Cardinality(R) /\ again' = again + Cardinality(R \ Pending)
    BY DEF Release
  <2>3. Active' = Active /\ members' = members
    BY DEF users, Active
  <2>4. used \in Int /\ again \in Nat
    BY DEF TypeOK
  <2> QED
    BY <2>1, <2>2, <2>3, <2>4, Finite DEF SeatsExact, Count, FounderSeat
<1> QED
  BY <1>2, <1>3, <1>4

LEMMA RevokeCommitInv ==
  ASSUME NEW w \in Workers, SeatsInv, RevokeCommit(w), TypeOK'
  PROVE  SeatsInv'
<1>1. arg[w] \in created
  BY DEF SeatsInv, TypeOK, RevokeCommit, OnInvitation
<1>2. {arg[w]} \in SUBSET created /\ pc[w] \in HoldsSub
  BY <1>1 DEF RevokeCommit, HoldsSub
<1> QED
  BY <1>2, ReleaseInvitationsInv DEF RevokeCommit

LEMMA SweepCommitInv ==
  ASSUME NEW w \in Workers, SeatsInv, SweepCommit(w), TypeOK'
  PROVE  SeatsInv'
<1>1. ids[w] \in SUBSET created /\ pc[w] \in HoldsSub
  BY DEF SeatsInv, TypeOK, SweepCommit, HoldsSub
<1> QED
  BY <1>1, ReleaseInvitationsInv DEF SweepCommit

LEMMA RemoveCommitInv ==
  ASSUME NEW w \in Workers, SeatsInv, RemoveCommit(w), TypeOK'
  PROVE  SeatsInv'
<1> USE DEF SeatsInv
<1>1. Active' = Active \ {arg[w]}
  BY DEF RemoveCommit, Active
<1>2. Pending' = Pending /\ created' = created /\ members' = members
  BY DEF RemoveCommit, invs, Pending
<1>3. SubLocked' /\ InvLocked' /\ FreshIds' /\ CallersExist'
  <2>1. /\ Finish(w) /\ members \subseteq members' /\ pc[w] \in HoldsSub
        /\ \A v \in Workers \ {w} : pc[v] \in HoldsInv => arg[v] \in Pending'
        /\ \A v \in Workers \ {w} : pc[v] \in OnNewInvitation => arg[v] \notin created'
    BY <1>2 DEF RemoveCommit, InvLocked, FreshIds, HoldsSub
  <2> QED
    BY <2>1, FinishInv
<1>4. SeatLimit'
  BY DEF RemoveCommit, Release, SeatLimit, CheckSeats
<1>5. SeatsExact'
  <2>1. IsFiniteSet({arg[w]}) /\ Cardinality({arg[w]}) = 1
    BY FS_Singleton
  <2>2. IsFiniteSet(Active)
    BY Finite
  <2>2a. /\ Cardinality(Active \ {arg[w]})
               = Cardinality(Active) - Cardinality({arg[w]}) + Cardinality({arg[w]} \ Active)
         /\ Cardinality({arg[w]} \ Active) \in 0..Cardinality({arg[w]})
    BY <2>1, <2>2, TakeOut
  <2>2b. /\ Cardinality(Active') = Cardinality(Active) - 1 + Cardinality({arg[w]} \ Active)
         /\ Cardinality({arg[w]} \ Active) \in Nat
    BY <1>1, <2>1, <2>2a
  <2>3. used' = used - 1 /\ again' = again + Cardinality({arg[w]} \ Active)
    BY <2>1 DEF RemoveCommit, Release
  <2>4. used \in Int /\ again \in Nat
    BY DEF TypeOK
  <2> QED
    BY <1>2, <2>2b, <2>3, <2>4, Finite DEF SeatsExact, Count, FounderSeat
<1> QED
  BY <1>3, <1>4, <1>5

\* The requests that end with a write to neither the subscription nor an invitation, and a plan
\* change, which raises or lowers the ceiling to a size that the counter fits in.
LEMMA OtherCommitInv ==
  ASSUME NEW w \in Workers, SeatsInv, TypeOK',
         AcceptCredentialLost(w) \/ UpdateRole(w) \/ PlanCommit(w)
  PROVE  SeatsInv'
<1> USE DEF SeatsInv
<1>1. /\ Finish(w) /\ members' = members /\ removed' = removed /\ UNCHANGED invs /\ UNCHANGED <<used, again>>
      /\ pc[w] \in HoldsSub \/ UNCHANGED sub
  BY DEF AcceptCredentialLost, UpdateRole, PlanCommit, users, sub, HoldsSub
<1>2. Pending' = Pending /\ created' = created /\ Active' = Active
  BY <1>1 DEF invs, Pending, Active
<1>3. SubLocked' /\ InvLocked' /\ FreshIds' /\ CallersExist'
  <2>1. /\ \A v \in Workers \ {w} : pc[v] \in HoldsInv => arg[v] \in Pending'
        /\ \A v \in Workers \ {w} : pc[v] \in OnNewInvitation => arg[v] \notin created'
    BY <1>2 DEF InvLocked, FreshIds
  <2> QED
    BY <1>1, <2>1, FinishInv
<1>4. SeatLimit'
  BY <1>1 DEF AcceptCredentialLost, UpdateRole, PlanCommit, PlanAllowed, CheckSeats, SeatLimit, sub
<1>5. SeatsExact'
  BY <1>1, <1>2 DEF SeatsExact, Count, FounderSeat
<1> QED
  BY <1>3, <1>4, <1>5

LEMMA LockSubInv ==
  ASSUME NEW w \in Workers, SeatsInv, LockSub(w), TypeOK'
  PROVE  SeatsInv'
<1> USE DEF SeatsInv
<1>1. /\ pc[w] \in WaitsForSub /\ pc'[w] = AfterLock[pc[w]]
      /\ \A v \in Workers \ {w} : pc'[v] = pc[v] /\ seen'[v] = seen[v]
      /\ seen'[w] = [used |-> used, max |-> max] /\ subLock = None /\ subLock' = w
      /\ UNCHANGED <<used, max, again, created, accepted, revoked, members, removed, invLock, arg>>
      /\ Pending' = Pending
  BY DEF LockSub, TypeOK, sub, invs, users, Pending
<1>2. SubLocked'
  BY <1>1, AfterLockPlaces, NoneAssumption DEF SubLocked
<1>3. InvLocked'
  BY <1>1, AfterLockPlaces DEF InvLocked
<1>4. FreshIds'
  BY <1>1, AfterLockPlaces DEF FreshIds
<1>5. CallersExist'
  BY <1>1, AfterLockPlaces DEF CallersExist, WaitsForSub, AfterLock
<1>6. SeatLimit' /\ SeatsExact'
  BY <1>1, SameCount
<1> QED
  BY <1>2, <1>3, <1>4, <1>5, <1>6

LEMMA AcceptLockInvitationInv ==
  ASSUME NEW w \in Workers, SeatsInv, AcceptLockInvitation(w), TypeOK'
  PROVE  SeatsInv'
<1> USE DEF SeatsInv
<1>1. /\ pc[w] = "acceptLockInvitation" /\ pc'[w] = "acceptLockSub"
      /\ \A v \in Workers \ {w} : pc'[v] = pc[v]
      /\ UNCHANGED <<used, max, again, created, accepted, revoked, members, removed, subLock, arg, seen>>
      /\ Pending' = Pending
  BY DEF AcceptLockInvitation, GoTo, TypeOK, sub, invs, users, Pending
<1>2. arg[w] \in Invitations /\ arg[w] \in Pending /\ invLock[arg[w]] = None
      /\ invLock' = [invLock EXCEPT ![arg[w]] = w]
  BY <1>1 DEF AcceptLockInvitation, TypeOK, OnInvitation
<1>3. SubLocked'
  BY <1>1 DEF SubLocked, HoldsSub
<1>4. InvLocked'
  <2>1. ASSUME NEW v \in Workers \ {w}, pc'[v] \in HoldsInv
        PROVE  invLock'[arg'[v]] = v /\ arg'[v] \in Pending'
    <3>1. invLock[arg[v]] = v /\ arg[v] \in Pending /\ arg[v] \in Invitations
      BY <1>1, <2>1 DEF InvLocked, TypeOK, Pending
    <3>2. arg[v] # arg[w]
      BY <1>2, <3>1, NoneAssumption
    <3> QED
      BY <1>1, <1>2, <3>1, <3>2
  <2>2. invLock'[arg'[w]] = w /\ arg'[w] \in Pending'
    BY <1>1, <1>2 DEF TypeOK
  <2> QED
    BY <2>1, <2>2 DEF InvLocked
<1>5. FreshIds'
  BY <1>1 DEF FreshIds, OnNewInvitation
<1>6. CallersExist'
  BY <1>1 DEF CallersExist
<1>7. SeatLimit' /\ SeatsExact'
  BY <1>1, SameCount
<1> QED
  BY <1>3, <1>4, <1>5, <1>6, <1>7

LEMMA SweepScanInv ==
  ASSUME NEW w \in Workers, SeatsInv, SweepScan(w), TypeOK'
  PROVE  SeatsInv'
<1> USE DEF SeatsInv
<1>1. /\ pc[w] = "sweepScan" /\ pc'[w] = "sweepBody"
      /\ \A v \in Workers \ {w} : pc'[v] = pc[v]
      /\ UNCHANGED <<used, max, again, created, accepted, revoked, members, removed, subLock, invLock,
                     arg, seen>>
      /\ Pending' = Pending
  BY DEF SweepScan, TypeOK, sub, invs, users, locks, Pending
<1>2. SubLocked'
  BY <1>1 DEF SubLocked, HoldsSub
<1>3. InvLocked' /\ FreshIds' /\ CallersExist'
  BY <1>1 DEF InvLocked, FreshIds, CallersExist, HoldsInv, OnNewInvitation
<1>4. SeatLimit' /\ SeatsExact'
  BY <1>1, SameCount
<1> QED
  BY <1>2, <1>3, <1>4

\* The founder's row adds an exempt holder.
LEMMA ProvisionFounderInv ==
  ASSUME SeatsInv, ProvisionFounder, TypeOK'
  PROVE  SeatsInv'
<1> USE DEF SeatsInv
<1>1. /\ UNCHANGED <<used, max, again, created, accepted, revoked, subLock, invLock, pc, arg, seen>>
      /\ Pending' = Pending /\ members \subseteq members'
      /\ Founder \notin members /\ Founder \in members'
  BY DEF ProvisionFounder, sub, invs, locks, local, Pending
<1>2. Active' = Active \cup {Founder} /\ Founder \notin Active
  BY <1>1 DEF ProvisionFounder, Active, TypeOK
<1>3. SubLocked' /\ InvLocked' /\ FreshIds' /\ CallersExist'
  BY <1>1 DEF SubLocked, InvLocked, FreshIds, CallersExist
<1>4. SeatsExact'
  <2>1. Cardinality(Active') = Cardinality(Active) + 1
    BY <1>2, Finite, FS_AddElement
  <2> QED
    BY <1>1, <2>1, Finite DEF SeatsExact, Count, FounderSeat
<1> QED
  BY <1>1, <1>3, <1>4 DEF SeatLimit

LEMMA IdleInv ==
  ASSUME SeatsInv, TypeOK', \/ UNCHANGED vars
                            \/ \E i \in Invitations : Expire(i)
  PROVE  SeatsInv'
<1>1. UNCHANGED <<used, max, again, created, accepted, revoked, members, removed, subLock, invLock, pc,
                  arg, seen>>
  BY DEF vars, Expire, sub, users, locks, local
<1>2. Pending' = Pending
  BY <1>1 DEF Pending
<1>3. SubLocked' /\ InvLocked' /\ FreshIds' /\ CallersExist'
  BY <1>1, <1>2 DEF SeatsInv, SubLocked, InvLocked, FreshIds, CallersExist
<1> QED
  BY <1>1, <1>3, SameCount DEF SeatsInv

LEMMA InvStep == SeatsInv /\ [Next]_vars => SeatsInv'
<1> SUFFICES ASSUME SeatsInv, [Next]_vars PROVE SeatsInv'
  OBVIOUS
<1>0. TypeOK'
  BY TypeStep DEF SeatsInv
<1>1. CASE ProvisionFounder
  BY <1>0, <1>1, ProvisionFounderInv
<1>2. ASSUME NEW w \in Workers, NEW i \in Invitations,
             StartInvite(w, i) \/ StartAccept(w, i) \/ StartRevoke(w, i)
      PROVE  SeatsInv'
  BY <1>0, <1>2, StartInv
  DEF StartInvite, StartAccept, StartRevoke, HoldsSub, HoldsInv, Places, OnNewInvitation,
      OnInvitation
<1>3. ASSUME NEW w \in Workers, NEW e \in Emails,
             StartPromote(w, e) \/ StartDemote(w, e) \/ StartRemove(w, e)
      PROVE  SeatsInv'
  BY <1>0, <1>3, StartInv
  DEF StartPromote, StartDemote, StartRemove, HoldsSub, HoldsInv, Places, OnNewInvitation, OnUser
<1>4. ASSUME NEW w \in Workers, NEW m \in PlanSizes, StartPlan(w, m) PROVE SeatsInv'
  BY <1>0, <1>4, StartInv DEF StartPlan, HoldsSub, HoldsInv, Places, OnNewInvitation, OnPlan
<1>5. ASSUME NEW w \in Workers, StartSweep(w) PROVE SeatsInv'
  BY <1>0, <1>5, StartInv DEF StartSweep, HoldsSub, HoldsInv, Places, OnNewInvitation, OnNothing
<1>6. ASSUME NEW w \in Workers, LockSub(w) PROVE SeatsInv'
  BY <1>0, <1>6, LockSubInv
<1>7. ASSUME NEW w \in Workers,
             \/ InviteReject(w) \/ AcceptReject(w) \/ LastAdminReject(w) \/ SweepNothing(w)
             \/ PlanReject(w) \/ CheckAbort(w) \/ DeadlockAbort(w) \/ Crash(w)
      PROVE  SeatsInv'
  BY <1>7, RollbackInv
  DEF InviteReject, AcceptReject, LastAdminReject, SweepNothing, PlanReject, CheckAbort,
      DeadlockAbort, Crash
<1>8. ASSUME NEW w \in Workers,
             AcceptPeek(w) \/ AcceptCredential(w) \/ DemoteCount(w) \/ RemoveCount(w)
      PROVE  SeatsInv'
  BY <1>0, <1>8, GoToInv
  DEF AcceptPeek, AcceptCredential, DemoteCount, RemoveCount, HoldsSub, HoldsInv, Places,
      OnNewInvitation, OnInvitation, OnUser
<1>9. ASSUME NEW w \in Workers, AcceptLockInvitation(w) PROVE SeatsInv'
  BY <1>0, <1>9, AcceptLockInvitationInv
<1>10. ASSUME NEW w \in Workers,
              InviteCommit(w) \/ AcceptCommit(w) \/ RevokeCommit(w) \/ RemoveCommit(w)
       PROVE  SeatsInv'
  BY <1>0, <1>10, InviteCommitInv, AcceptCommitInv, RevokeCommitInv, RemoveCommitInv
<1>11. ASSUME NEW w \in Workers, AcceptCredentialLost(w) \/ UpdateRole(w) \/ PlanCommit(w)
       PROVE  SeatsInv'
  BY <1>0, <1>11, OtherCommitInv
<1>12. ASSUME NEW w \in Workers, SweepScan(w) \/ SweepCommit(w) PROVE SeatsInv'
  BY <1>0, <1>12, SweepScanInv, SweepCommitInv
<1>13. CASE UNCHANGED vars \/ \E i \in Invitations : Expire(i)
  BY <1>0, <1>13, IdleInv
<1> QED
  BY <1>1, <1>2, <1>3, <1>4, <1>5, <1>6, <1>7, <1>8, <1>9, <1>10, <1>11, <1>12, <1>13
  DEF Next, Begin, Proceed

-----------------------------------------------------------------------------
(* The theorems *)

\* The inductive invariant holds in every reachable state.
THEOREM SeatsInvariant == Spec => []SeatsInv
  BY InvInit, InvStep, PTL DEF Spec

\* The count check under the row lock is enough: the CHECK constraint never fires for an invite
\* or a plan change that passed it.
THEOREM BackstopNeverUsed == Spec => []BackstopUnneeded
<1>1. SeatsInv => BackstopUnneeded
  <2> SUFFICES ASSUME SeatsInv, NEW w \in Workers
               PROVE  /\ pc[w] = "inviteBody" /\ seen[w].used < seen[w].max => used + 1 <= max
                      /\ pc[w] = "planBody" /\ seen[w].used <= arg[w] => used <= arg[w]
    BY DEF BackstopUnneeded
  <2>1. pc[w] \in {"inviteBody", "planBody"} => seen[w] = [used |-> used, max |-> max]
    BY DEF SeatsInv, SubLocked, HoldsSub
  <2>2. used \in Int /\ max \in Int
    BY PlanAssumption DEF SeatsInv, TypeOK
  <2> QED
    BY <2>1, <2>2
<1> QED
  BY <1>1, SeatsInvariant, PTL

\* However many requests overlap, the counter is the number of seat holders less the seats that
\* were given back for a row which an overlapping request had released already: no invite, no
\* acceptance and no release loses or invents a seat in any other way.
THEOREM CounterExact == Spec => []SeatsExact
<1>1. SeatsInv => SeatsExact
  BY DEF SeatsInv
<1> QED
  BY <1>1, SeatsInvariant, PTL

\* The counter never exceeds the open invitations and the active users that take a seat: the
\* races between two releases of one seat lose seats from the count, they never invent any.
THEOREM NoPhantomSeats == Spec => []NoPhantomSeat
<1>1. SeatsInv => NoPhantomSeat
  <2> SUFFICES ASSUME SeatsInv PROVE NoPhantomSeat
    OBVIOUS
  <2>1. used = Count - FounderSeat - again /\ again \in Nat
    BY DEF SeatsInv, SeatsExact, TypeOK
  <2>2. Count \in Int /\ FounderSeat \in Int
    BY Finite DEF SeatsInv, Count, FounderSeat
  <2> QED
    BY <2>1, <2>2 DEF NoPhantomSeat
<1> QED
  BY <1>1, SeatsInvariant, PTL

\* A user row is created only from an invitation that is open in that state, although the
\* invitation is checked three steps earlier and revocations and sweeps run in between.
THEOREM AcceptanceConsumesPending == Spec => AcceptConsumesPending
<1>1. SeatsInv /\ [Next]_vars =>
        [\A i \in Invitations : i \in accepted' \ accepted => i \in Pending]_accepted
  <2> SUFFICES ASSUME SeatsInv, [Next]_vars, NEW i \in accepted' \ accepted
               PROVE  i \in Pending
    OBVIOUS
  <2>1. PICK w \in Workers : AcceptCommit(w)
    BY DEF Next, Begin, Proceed, vars, invs, ProvisionFounder, StartInvite, StartAccept, StartRevoke,
       StartPromote, StartDemote, StartRemove, StartPlan, StartSweep, Start, Rollback, LockSub,
       InviteCommit, InviteReject, AcceptPeek, AcceptCredential, AcceptCredentialLost,
       AcceptLockInvitation, AcceptReject, RevokeCommit, DemoteCount, RemoveCount, LastAdminReject,
       UpdateRole, RemoveCommit, SweepScan, SweepNothing, SweepCommit, PlanCommit, PlanReject,
       CheckAbort, DeadlockAbort, Crash, Expire
  <2> QED
    BY <2>1 DEF AcceptCommit, SeatsInv, InvLocked, HoldsInv
<1> QED
  BY <1>1, SeatsInvariant, PTL DEF Spec, AcceptConsumesPending

-----------------------------------------------------------------------------
(* Invitations and people *)

LateAccept == {"acceptLockInvitation", "acceptLockSub", "acceptBody"}

\* Where the handlers are after a step of handler w.
LEMMA Moves ==
  ASSUME NEW w \in Workers, TypeOK,
         \/ \E op, p, a : Start(w, op, p, a)
         \/ \E p : GoTo(w, p)
         \/ Finish(w)
         \/ LockSub(w)
         \/ SweepScan(w)
  PROVE  \A v \in Workers \ {w} : pc'[v] = pc[v] /\ arg'[v] = arg[v] /\ ids'[v] = ids[v]
<1>1. CASE \E op, p, a : Start(w, op, p, a)
  BY <1>1 DEF TypeOK, Start
<1>2. CASE \E p : GoTo(w, p)
  BY <1>2 DEF TypeOK, GoTo
<1>3. CASE Finish(w)
  BY <1>3 DEF TypeOK, Finish
<1>4. CASE LockSub(w)
  BY <1>4 DEF TypeOK, LockSub
<1>5. CASE SweepScan(w)
  BY <1>5 DEF TypeOK, SweepScan
<1> QED
  BY <1>1, <1>2, <1>3, <1>4, <1>5

\* Steps that admit nobody.
LEMMA PeopleStay ==
  ASSUME PeopleInv, SeatsInv', UNCHANGED <<accepted, members>>, creds \subseteq creds',
         \A v \in Workers : pc'[v] \in LateAccept =>
           \/ pc[v] \in LateAccept /\ arg'[v] = arg[v]
           \/ EmailOf[arg'[v]] \in creds' /\ EmailOf[arg'[v]] # Founder
  PROVE  PeopleInv'
<1>1. CredentialFirst'
  BY DEF PeopleInv, CredentialFirst, LateAccept
<1>2. OneInvitationPerPerson'
  BY DEF PeopleInv, OneInvitationPerPerson
<1> QED
  BY <1>1, <1>2 DEF PeopleInv

LEMMA PeopleStart ==
  ASSUME PeopleInv, SeatsInv', NEW w \in Workers, Begin(w) \/ StartSweep(w)
  PROVE  PeopleInv'
<1>1. PICK op, p, a : Start(w, op, p, a) /\ p \notin LateAccept
  BY DEF Begin, StartSweep, StartInvite, StartAccept, StartRevoke, StartPromote, StartDemote,
         StartRemove, StartPlan, LateAccept
<1>2. /\ pc'[w] = p /\ UNCHANGED <<accepted, members, creds>>
      /\ \A v \in Workers \ {w} : pc'[v] = pc[v] /\ arg'[v] = arg[v]
  BY <1>1, Moves DEF PeopleInv, SeatsInv, TypeOK, Start, invs, users
<1> QED
  BY <1>1, <1>2, PeopleStay

\* The end of a request that is no acceptance, or that fails.
LEMMA PeopleFinish ==
  ASSUME PeopleInv, SeatsInv', NEW w \in Workers, Finish(w), UNCHANGED <<accepted, members>>,
         creds \subseteq creds'
  PROVE  PeopleInv'
<1>1. /\ pc'[w] = "idle"
      /\ \A v \in Workers \ {w} : pc'[v] = pc[v] /\ arg'[v] = arg[v]
  BY Moves DEF PeopleInv, SeatsInv, TypeOK, Finish
<1> QED
  BY <1>1, PeopleStay DEF LateAccept

\* The steps within a request.
LEMMA PeopleGoOn ==
  ASSUME PeopleInv, SeatsInv', NEW w \in Workers,
         \/ LockSub(w) \/ AcceptPeek(w) \/ AcceptCredential(w) \/ AcceptLockInvitation(w)
         \/ DemoteCount(w) \/ RemoveCount(w) \/ SweepScan(w)
  PROVE  PeopleInv'
<1>1. /\ UNCHANGED <<accepted, members>> /\ creds \subseteq creds' /\ arg' = arg
      /\ \A v \in Workers \ {w} : pc'[v] = pc[v]
  BY Moves
  DEF PeopleInv, SeatsInv, LockSub, AcceptPeek, AcceptCredential, AcceptLockInvitation, DemoteCount,
      RemoveCount, SweepScan, GoTo, invs, users
<1>2. pc'[w] \in LateAccept =>
        pc[w] \in LateAccept \/ (EmailOf[arg[w]] \in creds' /\ EmailOf[arg[w]] # Founder)
  <2>1. CASE LockSub(w)
    BY <2>1 DEF LockSub, PeopleInv, SeatsInv, TypeOK, AfterLock, WaitsForSub, LateAccept
  <2>2. CASE AcceptCredential(w)
    BY <2>2 DEF AcceptCredential, PeopleInv, CredentialFirst
  <2>3. CASE AcceptLockInvitation(w)
    BY <2>3 DEF AcceptLockInvitation, LateAccept
  <2>4. CASE AcceptPeek(w) \/ DemoteCount(w) \/ RemoveCount(w) \/ SweepScan(w)
    BY <2>4 DEF AcceptPeek, DemoteCount, RemoveCount, SweepScan, GoTo, LateAccept, PeopleInv,
       SeatsInv, TypeOK
  <2> QED
    BY <2>1, <2>2, <2>3, <2>4
<1> QED
  BY <1>1, <1>2, PeopleStay

\* An acceptance: its address was nobody's.
LEMMA PeopleAccept ==
  ASSUME PeopleInv, SeatsInv', NEW w \in Workers, AcceptCommit(w)
  PROVE  PeopleInv'
<1> DEFINE e == EmailOf[arg[w]]
<1>1. /\ members' = members \cup {e} /\ e \notin members /\ accepted' = accepted \cup {arg[w]}
      /\ creds' = creds /\ pc'[w] = "idle"
      /\ \A v \in Workers \ {w} : pc'[v] = pc[v] /\ arg'[v] = arg[v]
  BY Moves DEF AcceptCommit, Finish, PeopleInv, SeatsInv, TypeOK
<1>2. e \in creds /\ e # Founder
  BY DEF AcceptCommit, PeopleInv, CredentialFirst
<1>3. CredentialFirst'
  BY <1>1 DEF PeopleInv, CredentialFirst
<1>4. OneInvitationPerPerson'
  <2>1. members' \ {Founder} = { EmailOf[i] : i \in accepted' }
    BY <1>1, <1>2 DEF PeopleInv, OneInvitationPerPerson
  <2>2. \A i, j \in accepted' : EmailOf[i] = EmailOf[j] => i = j
    BY <1>1 DEF PeopleInv, OneInvitationPerPerson
  <2>3. members' \subseteq creds'
    BY <1>1, <1>2 DEF PeopleInv, OneInvitationPerPerson
  <2> QED
    BY <2>1, <2>2, <2>3 DEF OneInvitationPerPerson
<1> QED
  BY <1>3, <1>4 DEF PeopleInv

\* However acceptances, revocations, sweeps, retries and crashes overlap, every member but the founder
\* came through exactly one accepted invitation to their address, and has a credential (the address
\* check of auth-service and the unique address of users.users).
THEOREM OnePersonOneInvitation == Spec => []OneInvitationPerPerson
<1>1. Init => PeopleInv
  <2> SUFFICES ASSUME Init
               PROVE  CredentialFirst /\ OneInvitationPerPerson
    BY InvInit DEF PeopleInv
  <2> QED
    BY DEF Init, CredentialFirst, OneInvitationPerPerson
<1>2. PeopleInv /\ [Next]_vars => PeopleInv'
  <2> SUFFICES ASSUME PeopleInv, [Next]_vars
               PROVE  PeopleInv'
    OBVIOUS
  <2>0. SeatsInv'
    BY InvStep DEF PeopleInv
  <2>1. CASE ProvisionFounder
    <3>1. /\ members' = members \cup {Founder} /\ UNCHANGED <<accepted, creds, pc, arg>>
      BY <2>1 DEF ProvisionFounder, invs, local
    <3>2. CredentialFirst'
      BY <3>1 DEF PeopleInv, CredentialFirst
    <3>3. OneInvitationPerPerson'
      BY <3>1 DEF PeopleInv, CredentialFirst, OneInvitationPerPerson
    <3> QED
      BY <2>0, <3>2, <3>3 DEF PeopleInv
  <2>2. ASSUME NEW w \in Workers, Begin(w) \/ StartSweep(w)
        PROVE  PeopleInv'
    BY <2>0, <2>2, PeopleStart
  <2>3. ASSUME NEW w \in Workers,
               \/ InviteCommit(w) \/ InviteReject(w) \/ AcceptReject(w) \/ RevokeCommit(w)
               \/ LastAdminReject(w) \/ UpdateRole(w) \/ RemoveCommit(w) \/ SweepNothing(w)
               \/ SweepCommit(w) \/ PlanCommit(w) \/ PlanReject(w) \/ CheckAbort(w)
               \/ AcceptCredentialLost(w) \/ DeadlockAbort(w) \/ Crash(w)
        PROVE  PeopleInv'
    <3>1. Finish(w) /\ UNCHANGED <<accepted, members>> /\ creds \subseteq creds'
      BY <2>3
      DEF InviteCommit, InviteReject, AcceptReject, RevokeCommit, LastAdminReject, UpdateRole,
          RemoveCommit, SweepNothing, SweepCommit, PlanCommit, PlanReject, CheckAbort,
          AcceptCredentialLost, DeadlockAbort, Crash, Rollback, invs, users
    <3> QED
      BY <2>0, <3>1, PeopleFinish
  <2>4. ASSUME NEW w \in Workers,
               \/ LockSub(w) \/ AcceptPeek(w) \/ AcceptCredential(w) \/ AcceptLockInvitation(w)
               \/ DemoteCount(w) \/ RemoveCount(w) \/ SweepScan(w)
        PROVE  PeopleInv'
    BY <2>0, <2>4, PeopleGoOn
  <2>5. ASSUME NEW w \in Workers, AcceptCommit(w)
        PROVE  PeopleInv'
    BY <2>0, <2>5, PeopleAccept
  <2>6. CASE UNCHANGED vars \/ \E i \in Invitations : Expire(i)
    <3>1. UNCHANGED <<accepted, members, creds, pc, arg>>
      BY <2>6 DEF vars, Expire, users, local
    <3> QED
      BY <2>0, <3>1, PeopleStay
  <2> QED
    BY <2>1, <2>2, <2>3, <2>4, <2>5, <2>6 DEF Next, Proceed
<1>3. PeopleInv => OneInvitationPerPerson
  BY DEF PeopleInv
<1> QED
  BY <1>1, <1>2, <1>3, PTL DEF Spec

-----------------------------------------------------------------------------
(* The abstract ledger *)

\* The holders are what the counter, the exemption and the drift add up to.
LEMMA Balance ==
  ASSUME SeatsInv
  PROVE  /\ Count = used + FounderSeat + again
         /\ used \in Nat /\ again \in Nat /\ max \in Int /\ used <= max /\ FounderSeat \in {0, 1}
<1>1. Count \in Int /\ FounderSeat \in {0, 1} /\ used \in Int /\ again \in Nat /\ max \in Int
  BY Finite, PlanAssumption DEF SeatsInv, TypeOK, Count, FounderSeat
<1> QED
  BY <1>1 DEF SeatsInv, SeatsExact, SeatLimit

\* The same of the next state.
LEMMA BalanceNext ==
  ASSUME SeatsInv'
  PROVE  Count' = used' + FounderSeat' + again' /\ used' \in Nat
<1>1. Pending' \in SUBSET Invitations /\ Active' \in SUBSET Emails
  BY DEF SeatsInv, TypeOK, Pending, Active
<1>2. Cardinality(Pending') \in Nat /\ Cardinality(Active') \in Nat
  BY <1>1, FiniteAssumption, FS_Subset, FS_CardinalityType
<1>3. Count' \in Int /\ FounderSeat' \in {0, 1} /\ used' \in Int /\ again' \in Nat /\ 0 <= used'
  BY <1>2 DEF SeatsInv, TypeOK, SeatLimit, Count, FounderSeat
<1>4. used' = Count' - FounderSeat' - again'
  BY DEF SeatsInv, SeatsExact
<1> DEFINE c == Count'
           f == FounderSeat'
           u == used'
           a == again'
<1>5. c \in Int /\ f \in {0, 1} /\ u \in Int /\ a \in Nat /\ 0 <= u /\ u = c - f - a
  BY <1>3, <1>4
<1>6. c = u + f + a /\ u \in Nat
  <2> HIDE DEF c, f, u, a
  <2> QED
    BY <1>5
<1> QED
  BY <1>6

\* A step that moves neither the counter nor a holder.
LEMMA LedgerStutters ==
  ASSUME UNCHANGED <<used, max, again, created, accepted, revoked, members, removed>>
  PROVE  UNCHANGED Ledger!lvars
  BY DEF Ledger!lvars, Count, FounderSeat, Pending, Active

\* Giving seats back for some rows, nobody joining or leaving besides.
LEMMA LedgerReleases ==
  ASSUME SeatsInv, SeatsInv', NEW R, NEW H, IsFiniteSet(R), IsFiniteSet(H), Release(R, H),
         UNCHANGED <<max, members>>
  PROVE  Ledger!Release \/ UNCHANGED Ledger!lvars
<1> DEFINE n == Cardinality(R)
           d == Cardinality(R \ H)
<1>1. n \in Nat /\ d \in 0..n
  BY TakeOut
<1>2. used' = used - n /\ again' = again + d /\ FounderSeat' = FounderSeat /\ max' = max
  BY DEF Release, FounderSeat
<1>3. /\ Count = used + FounderSeat + again /\ Count' = used' + FounderSeat' + again'
      /\ used \in Nat /\ used' \in Nat /\ again \in Nat /\ FounderSeat \in {0, 1}
  BY Balance, BalanceNext
<1> HIDE DEF n, d
<1>4. Count' = Count - (n - d)
  BY <1>1, <1>2, <1>3
<1>5. CASE n = 0
  <2>1. d = 0
    BY <1>1, <1>5
  <2>2. used' = used /\ again' = again /\ Count' = Count
    BY <1>2, <1>3, <1>4, <1>5, <2>1
  <2> QED
    BY <1>2, <2>2 DEF Ledger!lvars
<1>6. CASE n # 0
  <2>1. n \in 1..used
    BY <1>1, <1>2, <1>3, <1>6
  <2> QED
    BY <1>1, <1>2, <1>4, <2>1 DEF Ledger!Release
<1> QED
  BY <1>5, <1>6

LEMMA LedgerStep == SeatsInv /\ SeatsInv' /\ [Next]_vars => [Ledger!Next]_(Ledger!lvars)
<1> SUFFICES ASSUME SeatsInv, SeatsInv', [Next]_vars
             PROVE  [Ledger!Next]_(Ledger!lvars)
  OBVIOUS
<1>0. /\ Count = used + FounderSeat + again /\ Count' = used' + FounderSeat' + again'
      /\ used \in Nat /\ again \in Nat /\ max \in Int /\ FounderSeat \in {0, 1}
      /\ IsFiniteSet(Pending) /\ IsFiniteSet(Active) /\ \A S \in SUBSET created : IsFiniteSet(S)
      /\ TypeOK
  BY Balance, BalanceNext, Finite DEF SeatsInv
<1>1. CASE ProvisionFounder
  <2>1. UNCHANGED <<used, max, again>> /\ FounderSeat = 0 /\ FounderSeat' = 1
    BY <1>1 DEF ProvisionFounder, sub, FounderSeat
  <2>2. Count' = Count + 1
    BY <1>0, <2>1
  <2> QED
    BY <2>1, <2>2 DEF Ledger!Next, Ledger!Exempt
<1>2. ASSUME NEW w \in Workers, InviteCommit(w)
      PROVE  Ledger!Next
  <2>1. /\ used' = used + 1 /\ max' = max /\ again' = again /\ FounderSeat' = FounderSeat
        /\ used + 1 <= max
    BY <1>2 DEF InviteCommit, InviteAllowed, CheckSeats, users, FounderSeat
  <2>2. Count' = Count + 1 /\ used < max
    BY <1>0, <2>1
  <2> QED
    BY <2>1, <2>2 DEF Ledger!Next, Ledger!Grant
<1>3. ASSUME NEW w \in Workers, AcceptCommit(w)
      PROVE  UNCHANGED Ledger!lvars
  <2>1. UNCHANGED <<used, max, again>> /\ Founder \in members /\ Founder \in members'
    BY <1>3 DEF AcceptCommit, sub, SeatsInv, CallersExist
  <2>2. FounderSeat' = FounderSeat
    BY <2>1 DEF FounderSeat
  <2>3. Count' = Count
    BY <1>0, <2>1, <2>2
  <2> QED
    BY <2>1, <2>2, <2>3 DEF Ledger!lvars
<1>4. ASSUME NEW w \in Workers, RevokeCommit(w) \/ SweepCommit(w) \/ RemoveCommit(w)
      PROVE  Ledger!Release \/ UNCHANGED Ledger!lvars
  <2>1. CASE RevokeCommit(w)
    <3>1. IsFiniteSet({arg[w]})
      BY FS_Singleton
    <3> QED
      BY <1>0, <2>1, <3>1, LedgerReleases DEF RevokeCommit, users
  <2>2. CASE SweepCommit(w)
    <3>1. IsFiniteSet(ids[w])
      BY <1>0 DEF TypeOK
    <3> QED
      BY <1>0, <2>2, <3>1, LedgerReleases DEF SweepCommit, users
  <2>3. CASE RemoveCommit(w)
    <3>1. IsFiniteSet({arg[w]})
      BY FS_Singleton
    <3> QED
      BY <1>0, <2>3, <3>1, LedgerReleases DEF RemoveCommit
  <2> QED
    BY <1>4, <2>1, <2>2, <2>3
<1>5. ASSUME NEW w \in Workers, PlanCommit(w)
      PROVE  Ledger!Next
  <2>1. /\ used <= arg[w] /\ max' = arg[w] /\ arg[w] \in PlanSizes
        /\ UNCHANGED <<used, again, created, accepted, revoked, members, removed>>
    BY <1>0, <1>5 DEF PlanCommit, PlanAllowed, CheckSeats, TypeOK, OnPlan, invs, users
  <2>2. Count' = Count /\ FounderSeat' = FounderSeat
    BY <2>1 DEF Count, FounderSeat, Pending, Active
  <2> QED
    BY <2>1, <2>2 DEF Ledger!Next, Ledger!Resize
<1>6. ASSUME NEW w \in Workers,
             \/ Begin(w) \/ StartSweep(w)
             \/ LockSub(w) \/ AcceptPeek(w) \/ AcceptCredential(w) \/ AcceptLockInvitation(w)
             \/ DemoteCount(w) \/ RemoveCount(w) \/ SweepScan(w) \/ UpdateRole(w)
             \/ InviteReject(w) \/ AcceptReject(w) \/ LastAdminReject(w) \/ SweepNothing(w)
             \/ PlanReject(w) \/ CheckAbort(w) \/ DeadlockAbort(w) \/ Crash(w)
             \/ AcceptCredentialLost(w)
      PROVE  UNCHANGED Ledger!lvars
  <2>1. UNCHANGED <<used, max, again, created, accepted, revoked, members, removed>>
    BY <1>6
    DEF Begin, StartSweep, StartInvite, StartAccept, StartRevoke, StartPromote, StartDemote, StartRemove,
        StartPlan, Start, LockSub, AcceptPeek, AcceptCredential, AcceptLockInvitation, DemoteCount,
        RemoveCount, SweepScan, UpdateRole, InviteReject, AcceptReject, LastAdminReject, SweepNothing,
        PlanReject, CheckAbort, DeadlockAbort, Crash, AcceptCredentialLost, Rollback, sub, invs, users
  <2> QED
    BY <2>1, LedgerStutters
<1>7. CASE UNCHANGED vars \/ \E i \in Invitations : Expire(i)
  <2>1. UNCHANGED <<used, max, again, created, accepted, revoked, members, removed>>
    BY <1>7 DEF vars, Expire, sub, users
  <2> QED
    BY <2>1, LedgerStutters
<1> QED
  BY <1>1, <1>2, <1>3, <1>4, <1>5, <1>6, <1>7 DEF Next, Proceed, Ledger!Next

\* The transactions of both services implement the abstract ledger, with crashes, lost answers and
\* deadlocks and whatever overlaps: holders are admitted one at a time, under the ceiling, each with
\* a seat, and counter and holders part only where a seat is given back again.
THEOREM SeatsRefineLedger == Spec => LedgerSpec
<1>1. Init => Ledger!Init
  BY FS_EmptySet DEF Init, Ledger!Init, Count, FounderSeat, Pending, Active
<1>2. SeatsInv /\ SeatsInv' /\ [Next]_vars => [Ledger!Next]_(Ledger!lvars)
  BY LedgerStep
<1> QED
  BY <1>1, <1>2, SeatsInvariant, PTL DEF Spec, LedgerSpec, Ledger!Spec

=============================================================================
