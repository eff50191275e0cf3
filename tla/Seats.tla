-------------------------------- MODULE Seats --------------------------------
(***************************************************************************)
(* The seats of one organisation: the transactions of user-service and     *)
(* subscription-service over core_db that invite, admit, revoke, expire,   *)
(* remove and re-role people and that change the plan's seat ceiling, run  *)
(* by concurrent request handlers under PostgreSQL's READ COMMITTED.       *)
(*                                                                         *)
(* Each handler is a worker.  A step of a worker is one statement that     *)
(* reads committed data, one row lock it waits for, or the body of a       *)
(* transaction up to its COMMIT: what a transaction writes under its locks *)
(* is invisible to the others until it commits, so the writes and the      *)
(* COMMIT are one step.  The locks are those of SELECT ... FOR UPDATE on   *)
(* the subscription row and on an invitation row; an UPDATE of an          *)
(* invitation waits for its row lock.                                      *)
(*                                                                         *)
(* Left out: the Kafka events sent after COMMIT (no transaction here reads *)
(* them), the storage half of the plan-change check, and 4xx answers of a  *)
(* first read, which change nothing.                                       *)
(***************************************************************************)
EXTENDS Integers, FiniteSets

CONSTANTS
  Workers,          \* concurrent request handlers (and the cron job)
  Invitations,      \* ids available to users.invitations
  Emails,           \* people; auth-service mints one user id per email
  Founder,          \* the email that signed the organisation up
  EmailOf,          \* the address each invitation would be sent to
  InvitedAsAdmin,   \* the invitations whose role is org_admin
  PlanSizes,        \* max_users of the plans
  CanRun,           \* which operations each worker is given
  CrashProne,       \* the workers whose process may die in the middle of a request
  RlsForced,        \* TRUE: subs.subscriptions hides its rows from a query without a tenant
  None

Operations == {"invite", "accept", "revoke", "role", "remove", "sweep", "plan"}

ASSUME FounderAssumption == Founder \in Emails
ASSUME EmailAssumption == EmailOf \in [Invitations -> Emails]
ASSUME RoleAssumption == InvitedAsAdmin \subseteq Invitations
ASSUME PlanAssumption == PlanSizes \subseteq Nat /\ PlanSizes # {}
ASSUME CanRunAssumption == CanRun \in [Workers -> SUBSET Operations]
ASSUME CrashAssumption == CrashProne \subseteq Workers
ASSUME RlsAssumption == RlsForced \in BOOLEAN
ASSUME NoneAssumption == None \notin Workers \cup Invitations \cup Emails \cup PlanSizes
ASSUME FiniteAssumption == IsFiniteSet(Invitations) /\ IsFiniteSet(Emails)

VARIABLES
  used, max,                              \* subs.subscriptions of the organisation
  created, expired, accepted, revoked,    \* users.invitations: rows and their timestamps
  members, removed, admins,               \* users.users: rows, status, role
  creds,                                  \* emails with a credential in auth_db
  subLock, invLock,                       \* row locks: the worker that holds each
  pc, arg, seen, ids,                     \* where each worker is, and what it read
  again                                   \* auxiliary: seats given back for rows that held none

sub   == <<used, max, again>>
invs  == <<created, expired, accepted, revoked>>
users == <<members, removed, admins>>
locks == <<subLock, invLock>>
local == <<pc, arg, seen, ids>>
vars  == <<used, max, created, expired, accepted, revoked, members, removed, admins,
           creds, subLock, invLock, pc, arg, seen, ids, again>>

Pending      == created \ (accepted \cup revoked)
Active       == members \ removed
ActiveAdmins == admins \cap Active

NoRow == [used |-> -1, max |-> -1]

\* The statement that waits for the subscription row, and the body that runs once it is locked.
AfterLock == [inviteLock |-> "inviteBody", acceptLockSub |-> "acceptBody",
              revokeLock |-> "revokeBody", removeLock |-> "removeBody",
              sweepLock |-> "sweepScan", planLock |-> "planBody"]

WaitsForSub == DOMAIN AfterLock
HoldsSub    == {"inviteBody", "acceptBody", "revokeBody", "removeBody",
                "sweepScan", "sweepBody", "planBody"}
HoldsInv    == {"acceptLockSub", "acceptBody"}
OnNewInvitation == {"inviteLock", "inviteBody"}
OnInvitation == {"acceptPeek", "acceptCredential", "acceptLockInvitation", "acceptLockSub",
                 "acceptBody", "revokeLock", "revokeBody"}
OnUser == {"removeCount", "removeLock", "removeBody",
           "demoteCount", "demoteBody", "promoteBody"}
OnPlan == {"planLock", "planBody"}
OnNothing == {"idle", "sweepLock", "sweepScan", "sweepBody"}
Places == OnNewInvitation \cup OnInvitation \cup OnUser \cup OnPlan \cup OnNothing

\* ck_subscriptions_seats and ck_subscriptions_seats_nonneg
CheckSeats(u, m) == 0 <= u /\ u <= m

Init ==
  /\ used = 0 /\ again = 0
  /\ max \in PlanSizes
  /\ created = {} /\ expired = {} /\ accepted = {} /\ revoked = {}
  /\ members = {} /\ removed = {} /\ admins = {}
  /\ creds = {Founder}
  /\ subLock = None
  /\ invLock = [i \in Invitations |-> None]
  /\ pc = [w \in Workers |-> "idle"]
  /\ arg = [w \in Workers |-> None]
  /\ seen = [w \in Workers |-> NoRow]
  /\ ids = [w \in Workers |-> {}]

-----------------------------------------------------------------------------
(* Beginning, moving and ending a request. *)

\* A request begins at place p about a.  An organisation has callers once its admin exists.
Start(w, op, p, a) ==
  /\ pc[w] = "idle"
  /\ op \in CanRun[w]
  /\ Founder \in members
  /\ pc' = [pc EXCEPT ![w] = p]
  /\ arg' = [arg EXCEPT ![w] = a]
  /\ UNCHANGED <<sub, invs, users, creds, locks, seen, ids>>

GoTo(w, p) == /\ pc' = [pc EXCEPT ![w] = p]
              /\ UNCHANGED <<arg, seen, ids>>

\* COMMIT or ROLLBACK: the locks are released and the handler is done.
Finish(w) ==
  /\ subLock' = IF subLock = w THEN None ELSE subLock
  /\ invLock' = [i \in Invitations |-> IF invLock[i] = w THEN None ELSE invLock[i]]
  /\ pc' = [pc EXCEPT ![w] = "idle"]
  /\ arg' = [arg EXCEPT ![w] = None]
  /\ seen' = [seen EXCEPT ![w] = NoRow]
  /\ ids' = [ids EXCEPT ![w] = {}]

\* The rows give their seats back, whether they still hold one (are in H) or have lost it since
\* the request read them: the counter falls by their number.
Release(rows, H) ==
  /\ CheckSeats(used - Cardinality(rows), max)
  /\ used' = used - Cardinality(rows)
  /\ again' = again + Cardinality(rows \ H)

Rollback(w) == Finish(w) /\ UNCHANGED <<sub, invs, users, creds>>

\* Mutant: a plain SELECT instead of SELECT ... FOR UPDATE.
LockSub_NoWait(w) ==
  /\ pc[w] \in WaitsForSub
  /\ subLock' = w
  /\ pc' = [pc EXCEPT ![w] = AfterLock[pc[w]]]
  /\ seen' = [seen EXCEPT ![w] = [used |-> used, max |-> max]]
  /\ UNCHANGED <<sub, invs, users, creds, invLock, arg, ids>>

\* SELECT ... FROM subs.subscriptions ... FOR UPDATE returns once no other transaction holds
\* the row, and then reads its latest committed version.
LockSub(w) ==
  /\ pc[w] \in WaitsForSub
  /\ subLock = None
  /\ subLock' = w
  /\ pc' = [pc EXCEPT ![w] = AfterLock[pc[w]]]
  /\ seen' = [seen EXCEPT ![w] = [used |-> used, max |-> max]]
  /\ UNCHANGED <<sub, invs, users, creds, invLock, arg, ids>>

-----------------------------------------------------------------------------
(* The founding admin's row, created from OrganizationProvisioned. *)

ProvisionFounder ==
  /\ Founder \notin members
  /\ members' = members \cup {Founder}
  /\ admins' = admins \cup {Founder}
  /\ UNCHANGED <<sub, invs, removed, creds, locks, local>>

-----------------------------------------------------------------------------
(* invite *)

\* A fresh id: randomUUID never repeats one that a row or another request has.
StartInvite(w, i) ==
  /\ i \notin created
  /\ \A v \in Workers : ~(pc[v] \in OnNewInvitation /\ arg[v] = i)
  /\ Start(w, "invite", "inviteLock", i)

\* The count check of the service and the partial unique index on the pending address.
InviteAllowed(w) ==
  /\ seen[w].used < seen[w].max
  /\ ~ \E j \in Pending : EmailOf[j] = EmailOf[arg[w]]
  /\ CheckSeats(used + 1, max)

InviteCommit(w) ==
  /\ pc[w] = "inviteBody"
  /\ InviteAllowed(w)
  /\ created' = created \cup {arg[w]}
  /\ used' = used + 1
  /\ Finish(w)
  /\ UNCHANGED <<max, again, expired, accepted, revoked, users, creds>>

InviteReject(w) == /\ pc[w] = "inviteBody"
                   /\ ~InviteAllowed(w)
                   /\ Rollback(w)

-----------------------------------------------------------------------------
(* acceptInvitation *)

\* get_invitation_organization_id resolves only a pending, unexpired invitation.
StartAccept(w, i) ==
  /\ i \in Pending \ expired
  /\ Start(w, "accept", "acceptPeek", i)

\* The first transaction: read the invitation FOR UPDATE, and commit.
AcceptPeek(w) ==
  /\ pc[w] = "acceptPeek"
  /\ invLock[arg[w]] = None
  /\ arg[w] \in Pending \ expired
  /\ GoTo(w, "acceptCredential")
  /\ UNCHANGED <<sub, invs, users, creds, locks>>

\* The call to auth-service: credentials.email is unique.
AcceptCredential(w) ==
  /\ pc[w] = "acceptCredential"
  /\ EmailOf[arg[w]] \notin creds
  /\ creds' = creds \cup {EmailOf[arg[w]]}
  /\ GoTo(w, "acceptLockInvitation")
  /\ UNCHANGED <<sub, invs, users, locks>>

\* The credential is created but the answer never arrives.
AcceptCredentialLost(w) ==
  /\ pc[w] = "acceptCredential"
  /\ EmailOf[arg[w]] \notin creds
  /\ creds' = creds \cup {EmailOf[arg[w]]}
  /\ Finish(w)
  /\ UNCHANGED <<sub, invs, users>>

\* Mutant: the second transaction trusts what the first one read.
AcceptLockInvitation_NoRecheck(w) ==
  /\ pc[w] = "acceptLockInvitation"
  /\ invLock[arg[w]] = None
  /\ invLock' = [invLock EXCEPT ![arg[w]] = w]
  /\ GoTo(w, "acceptLockSub")
  /\ UNCHANGED <<sub, invs, users, creds, subLock>>

\* The second transaction locks the invitation before the subscription.
AcceptLockInvitation(w) ==
  /\ pc[w] = "acceptLockInvitation"
  /\ invLock[arg[w]] = None
  /\ arg[w] \in Pending \ expired
  /\ invLock' = [invLock EXCEPT ![arg[w]] = w]
  /\ GoTo(w, "acceptLockSub")
  /\ UNCHANGED <<sub, invs, users, creds, subLock>>

\* 410 Gone from either transaction, 409 from auth-service.
AcceptReject(w) ==
  /\ \/ /\ pc[w] \in {"acceptPeek", "acceptLockInvitation"}
        /\ invLock[arg[w]] = None
        /\ arg[w] \notin Pending \ expired
     \/ /\ pc[w] = "acceptCredential"
        /\ EmailOf[arg[w]] \in creds
  /\ Rollback(w)

\* Mutant: markAccepted is forgotten.
AcceptCommit_NotMarked(w) ==
  /\ pc[w] = "acceptBody"
  /\ EmailOf[arg[w]] \notin members
  /\ members' = members \cup {EmailOf[arg[w]]}
  /\ admins' = IF arg[w] \in InvitedAsAdmin THEN admins \cup {EmailOf[arg[w]]} ELSE admins
  /\ Finish(w)
  /\ UNCHANGED <<sub, invs, removed, creds>>

\* Mutant: acceptance takes a seat again, as if the invitation had not held one.
AcceptCommit_TakesSeat(w) ==
  /\ pc[w] = "acceptBody"
  /\ EmailOf[arg[w]] \notin members
  /\ members' = members \cup {EmailOf[arg[w]]}
  /\ admins' = IF arg[w] \in InvitedAsAdmin THEN admins \cup {EmailOf[arg[w]]} ELSE admins
  /\ accepted' = accepted \cup {arg[w]}
  /\ used' = used + 1
  /\ Finish(w)
  /\ UNCHANGED <<max, again, created, expired, revoked, removed, creds>>

AcceptCommit(w) ==
  /\ pc[w] = "acceptBody"
  /\ EmailOf[arg[w]] \notin members
  /\ members' = members \cup {EmailOf[arg[w]]}
  /\ admins' = IF arg[w] \in InvitedAsAdmin THEN admins \cup {EmailOf[arg[w]]} ELSE admins
  /\ accepted' = accepted \cup {arg[w]}
  /\ Finish(w)
  /\ UNCHANGED <<sub, created, expired, revoked, removed, creds>>

-----------------------------------------------------------------------------
(* revokeInvitation *)

\* findById takes no lock: what it saw may be gone when the subscription row is locked.
StartRevoke(w, i) ==
  /\ i \in Pending
  /\ Start(w, "revoke", "revokeLock", i)

\* Mutant: the seat is not given back.
RevokeCommit_KeepsSeat(w) ==
  /\ pc[w] = "revokeBody"
  /\ invLock[arg[w]] = None
  /\ CheckSeats(used - 1, max)
  /\ revoked' = revoked \cup {arg[w]}
  /\ Finish(w)
  /\ UNCHANGED <<sub, created, expired, accepted, users, creds>>

RevokeCommit(w) ==
  /\ pc[w] = "revokeBody"
  /\ invLock[arg[w]] = None
  /\ Release({arg[w]}, Pending)
  /\ revoked' = revoked \cup {arg[w]}
  /\ Finish(w)
  /\ UNCHANGED <<max, created, expired, accepted, users, creds>>

-----------------------------------------------------------------------------
(* updateRole: no subscription lock; findById also returns removed users. *)

\* Mutant: the 404 of an unknown user is missing.
StartPromote_AnyUser(w, e) == Start(w, "role", "promoteBody", e)

StartPromote(w, e) == e \in members /\ Start(w, "role", "promoteBody", e)

StartDemote(w, e) ==
  /\ e \in members
  /\ Start(w, "role", IF e \in admins THEN "demoteCount" ELSE "demoteBody", e)

DemoteCount(w) ==
  /\ pc[w] = "demoteCount"
  /\ Cardinality(ActiveAdmins) > 1
  /\ GoTo(w, "demoteBody")
  /\ UNCHANGED <<sub, invs, users, creds, locks>>

UpdateRole(w) ==
  /\ pc[w] \in {"demoteBody", "promoteBody"}
  /\ admins' = IF pc[w] = "promoteBody" THEN admins \cup {arg[w]} ELSE admins \ {arg[w]}
  /\ Finish(w)
  /\ UNCHANGED <<sub, invs, members, removed, creds>>

-----------------------------------------------------------------------------
(* removeUser *)

StartRemove(w, e) ==
  /\ e \in Active
  /\ Start(w, "remove", IF e \in admins THEN "removeCount" ELSE "removeLock", e)

RemoveCount(w) ==
  /\ pc[w] = "removeCount"
  /\ Cardinality(ActiveAdmins) > 1
  /\ GoTo(w, "removeLock")
  /\ UNCHANGED <<sub, invs, users, creds, locks>>

\* LastAdminException of removeUser and updateRole
LastAdminReject(w) == /\ pc[w] \in {"removeCount", "demoteCount"}
                      /\ Cardinality(ActiveAdmins) <= 1
                      /\ Rollback(w)

RemoveCommit(w) ==
  /\ pc[w] = "removeBody"
  /\ Release({arg[w]}, Active)
  /\ removed' = removed \cup {arg[w]}
  /\ Finish(w)
  /\ UNCHANGED <<max, invs, members, admins, creds>>

-----------------------------------------------------------------------------
(* The invitation-expiry sweep *)

\* runGlobal leaves app.current_org unset; a FORCEd tenant policy then matches no row.
Enumerated == IF RlsForced THEN {} ELSE {"organization"}

StartSweep(w) ==
  /\ "organization" \in Enumerated
  /\ Start(w, "sweep", "sweepLock", None)

SweepScan(w) ==
  /\ pc[w] = "sweepScan"
  /\ Pending \cap expired # {}
  /\ ids' = [ids EXCEPT ![w] = Pending \cap expired]
  /\ pc' = [pc EXCEPT ![w] = "sweepBody"]
  /\ UNCHANGED <<sub, invs, users, creds, locks, arg, seen>>

SweepNothing(w) == /\ pc[w] = "sweepScan"
                   /\ Pending \cap expired = {}
                   /\ Rollback(w)

\* Mutant: the UPDATE does not wait for an acceptance that has the invitation locked.
SweepCommit_IgnoresRowLock(w) ==
  /\ pc[w] = "sweepBody"
  /\ Release(ids[w], Pending)
  /\ revoked' = revoked \cup ids[w]
  /\ Finish(w)
  /\ UNCHANGED <<max, created, expired, accepted, users, creds>>

SweepCommit(w) ==
  /\ pc[w] = "sweepBody"
  /\ \A i \in ids[w] : invLock[i] = None
  /\ Release(ids[w], Pending)
  /\ revoked' = revoked \cup ids[w]
  /\ Finish(w)
  /\ UNCHANGED <<max, created, expired, accepted, users, creds>>

-----------------------------------------------------------------------------
(* changePlan *)

StartPlan(w, m) == Start(w, "plan", "planLock", m)

PlanAllowed(w) == seen[w].used <= arg[w] /\ CheckSeats(used, arg[w])

PlanCommit(w) ==
  /\ pc[w] = "planBody"
  /\ PlanAllowed(w)
  /\ max' = arg[w]
  /\ Finish(w)
  /\ UNCHANGED <<used, again, invs, users, creds>>

PlanReject(w) == /\ pc[w] = "planBody"
                 /\ ~PlanAllowed(w)
                 /\ Rollback(w)

-----------------------------------------------------------------------------
(* Failures and time. *)

\* A release that would take used_seats below zero violates a CHECK: the transaction aborts.
CheckAbort(w) ==
  /\ \/ /\ pc[w] = "revokeBody"
        /\ invLock[arg[w]] = None
        /\ ~CheckSeats(used - 1, max)
     \/ /\ pc[w] = "removeBody"
        /\ ~CheckSeats(used - 1, max)
     \/ /\ pc[w] = "sweepBody"
        /\ \A i \in ids[w] : invLock[i] = None
        /\ ~CheckSeats(used - Cardinality(ids[w]), max)
  /\ Rollback(w)

\* w waits for a row lock that v holds.
BlockedBy(w, v) ==
  \/ pc[w] \in WaitsForSub /\ subLock = v
  \/ pc[w] \in {"acceptPeek", "acceptLockInvitation", "revokeBody"} /\ invLock[arg[w]] = v
  \/ pc[w] = "sweepBody" /\ \E i \in ids[w] : invLock[i] = v

\* Mutant: nobody detects deadlocks.
Deadlocked_Undetected(w) == FALSE

\* Only a transaction that holds the subscription row and one that holds an invitation row
\* can wait for each other, so every cycle has length two.
Deadlocked(w) == \E v \in Workers \ {w} : BlockedBy(w, v) /\ BlockedBy(v, w)

\* PostgreSQL aborts one side of the cycle with 40P01; no caller retries it.
DeadlockAbort(w) == Deadlocked(w) /\ Rollback(w)

\* The process dies, the connection drops or the remote call fails before taking effect.
Crash(w) == /\ w \in CrashProne
            /\ pc[w] # "idle"
            /\ Rollback(w)

\* expires_at passes
Expire(i) == /\ i \in Pending \ expired
             /\ expired' = expired \cup {i}
             /\ UNCHANGED <<sub, created, accepted, revoked, users, creds, locks, local>>

-----------------------------------------------------------------------------
Begin(w) ==
  \/ \E i \in Invitations : StartInvite(w, i) \/ StartAccept(w, i) \/ StartRevoke(w, i)
  \/ \E e \in Emails : StartPromote(w, e) \/ StartDemote(w, e) \/ StartRemove(w, e)
  \/ \E m \in PlanSizes : StartPlan(w, m)

\* What the server does by itself once a request has begun.
Proceed(w) ==
  \/ LockSub(w)
  \/ InviteCommit(w) \/ InviteReject(w)
  \/ AcceptPeek(w) \/ AcceptCredential(w) \/ AcceptLockInvitation(w)
  \/ AcceptCommit(w) \/ AcceptReject(w)
  \/ RevokeCommit(w)
  \/ DemoteCount(w) \/ RemoveCount(w) \/ LastAdminReject(w) \/ UpdateRole(w) \/ RemoveCommit(w)
  \/ SweepScan(w) \/ SweepNothing(w) \/ SweepCommit(w)
  \/ PlanCommit(w) \/ PlanReject(w)
  \/ CheckAbort(w)

Next ==
  \/ ProvisionFounder
  \/ \E w \in Workers : \/ Begin(w) \/ StartSweep(w) \/ Proceed(w)
                        \/ AcceptCredentialLost(w) \/ DeadlockAbort(w) \/ Crash(w)
  \/ \E i \in Invitations : Expire(i)

Spec == Init /\ [][Next]_vars

(***************************************************************************)
(* The database grants a row lock in the order it was asked for, so a      *)
(* request that could go on again and again does go on (strong fairness);  *)
(* its deadlock detector resolves every cycle; the hourly job runs again   *)
(* and again.  Nothing is assumed of the callers, of time, or of the       *)
(* workers in CrashProne.                                                  *)
(***************************************************************************)
Fairness ==
  /\ \A w \in Workers :
       /\ SF_vars(Proceed(w))
       /\ SF_vars(StartSweep(w))
  /\ WF_vars(\E w \in Workers : DeadlockAbort(w))

FairSpec == Spec /\ Fairness
=============================================================================
