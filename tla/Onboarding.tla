----------------------------- MODULE Onboarding -----------------------------
(***************************************************************************)
(* The self-service signup: tenant-service's forward-recovery saga, with   *)
(* the two services it calls and the consumer that creates the first user. *)
(*                                                                         *)
(* A request submits a form.  Its steps are the reads, the transactions    *)
(* and the remote calls of OnboardingService.signup: between two of them   *)
(* any other request may run, the process may die, a transaction may fail, *)
(* a remote call may fail or its answer may be lost.  An organisation is   *)
(* named by its slug, a user id by the email of the credential it was      *)
(* minted for (both are unique in their tables).                           *)
(*                                                                         *)
(* Left out: the events that only the audit log reads (OrganizationCreated,*)
(* OnboardingFailed, UserCredentialsCreated) and the counter of attempts.  *)
(***************************************************************************)
EXTENDS Naturals

CONSTANTS
  Requests,     \* signup calls that may be in progress at the same time
  Keys,         \* idempotency keys, one per mounted signup form
  Slugs,        \* slugs of the organisation names that are typed in
  Emails,
  Forms,        \* the bodies that are submitted: [key, slug, email]
  FaultKinds,   \* what may go wrong
  MaxFaults,    \* bound: how often something goes wrong
  None

AllFaults == {"error",    \* a transaction or a remote call fails without effect
              "lost",     \* a remote call takes effect and its answer is lost
              "late",     \* the transaction that records a remote success fails
              "crash",    \* the process dies
              "publish",  \* the broker does not take an event
              "redis"}    \* Redis is unreachable

ASSUME FormsAssumption == Forms \subseteq [key : Keys, slug : Slugs, email : Emails]
ASSUME FaultsAssumption == FaultKinds \subseteq AllFaults /\ MaxFaults \in Nat
ASSUME NoneAssumption == None \notin Slugs \cup Emails \cup Forms

VARIABLES
  saga,                \* onboarding_sagas, by key
  org,                 \* organizations: status by slug
  cred,                \* credentials of auth-service: organisation by email
  subs,                \* organisations with a subscription row
  inbox,               \* OrganizationProvisioned events on the topic: <<organisation, user id>>
  unsent,              \* auxiliary: such events that never got there
  users,               \* rows of users.users: <<organisation, user id>>
  pc, form, orgId, adminId,   \* each request: its place, its body, and signup's local variables
  faults

world == <<saga, org, cred, subs, inbox, unsent, users>>
local == <<pc, form, orgId, adminId>>
vars  == <<saga, org, cred, subs, inbox, unsent, users, pc, form, orgId, adminId, faults>>

\* Mutant: resume() takes an organisation with credentials for a subscribed one.
ResumeAt_SkipsPlan == [pending |-> "org", org_created |-> "credential",
                       credentials_created |-> "complete", subscribed |-> "complete"]

\* SagaState, and where resume() enters for each.
ResumeAt == [pending |-> "org", org_created |-> "credential",
             credentials_created |-> "plan", subscribed |-> "complete"]
States == DOMAIN ResumeAt \cup {"complete"}
Statuses == {"provisioning", "active", "provisioning_failed"}
Places == {"idle", "claim", "read", "insert", "org", "credential", "advanceCredential",
           "plan", "advancePlan", "complete", "publish", "respond", "fail"}

NoSaga == [state |-> "none", org |-> None, admin |-> None, failed |-> FALSE]

Init ==
  /\ saga = [k \in Keys |-> NoSaga]
  /\ org = [s \in Slugs |-> "none"]
  /\ cred = [e \in Emails |-> None]
  /\ subs = {} /\ inbox = {} /\ unsent = {} /\ users = {}
  /\ pc = [r \in Requests |-> "idle"]
  /\ form = [r \in Requests |-> None]
  /\ orgId = [r \in Requests |-> None]
  /\ adminId = [r \in Requests |-> None]
  /\ faults = 0

-----------------------------------------------------------------------------
Key(r) == form[r].key

GoTo(r, p) == pc' = [pc EXCEPT ![r] = p] /\ UNCHANGED form

\* The request is answered.
Answer(r) == /\ pc' = [pc EXCEPT ![r] = "idle"]
             /\ form' = [form EXCEPT ![r] = None]
             /\ orgId' = [orgId EXCEPT ![r] = None]
             /\ adminId' = [adminId EXCEPT ![r] = None]

\* sagas.advance: the new state, whatever the old one was, and no failure any more.
Advance(k, state, o, a) ==
  saga' = [saga EXCEPT ![k] = [state |-> state, org |-> o, admin |-> a, failed |-> FALSE]]

Fault(kind) == /\ kind \in FaultKinds
               /\ faults < MaxFaults
               /\ faults' = faults + 1

-----------------------------------------------------------------------------
(* signup *)

Submit(r, f) ==
  /\ pc[r] = "idle"
  /\ pc' = [pc EXCEPT ![r] = "claim"]
  /\ form' = [form EXCEPT ![r] = f]
  /\ UNCHANGED <<world, orgId, adminId, faults>>

\* The outcome of the claim is only logged, but without Redis the claim throws and signup ends.
Claim(r) ==
  /\ pc[r] = "claim"
  /\ \/ GoTo(r, "read") /\ UNCHANGED <<orgId, adminId, faults>>
     \/ Answer(r) /\ Fault("redis")
  /\ UNCHANGED world

\* findByIdempotencyKey, outside any transaction.
ReadSaga(r) ==
  /\ pc[r] = "read"
  /\ \/ /\ saga[Key(r)].state = "none"
        /\ GoTo(r, "insert")
        /\ UNCHANGED <<orgId, adminId>>
     \/ /\ saga[Key(r)].state = "complete"
        /\ Answer(r)
     \/ /\ saga[Key(r)].state \in DOMAIN ResumeAt
        /\ GoTo(r, ResumeAt[saga[Key(r)].state])
        /\ orgId' = [orgId EXCEPT ![r] = saga[Key(r)].org]
        /\ adminId' = [adminId EXCEPT ![r] = saga[Key(r)].admin]
  /\ UNCHANGED <<world, faults>>

\* Mutant: a second request overwrites the saga row instead of violating its unique key.
InsertSaga_Overwrite(r) ==
  /\ pc[r] = "insert"
  /\ saga' = [saga EXCEPT ![Key(r)] = [NoSaga EXCEPT !.state = "pending"]]
  /\ GoTo(r, "org")
  /\ UNCHANGED <<org, cred, subs, inbox, unsent, users, orgId, adminId, faults>>

InsertSaga(r) ==
  /\ pc[r] = "insert"
  /\ saga[Key(r)].state = "none"
  /\ saga' = [saga EXCEPT ![Key(r)] = [NoSaga EXCEPT !.state = "pending"]]
  /\ GoTo(r, "org")
  /\ UNCHANGED <<org, cred, subs, inbox, unsent, users, orgId, adminId, faults>>

\* The violation of the unique idempotency_key escapes signup as a 500.
InsertSagaConflict(r) ==
  /\ pc[r] = "insert"
  /\ saga[Key(r)].state # "none"
  /\ Answer(r)
  /\ UNCHANGED <<world, faults>>

-----------------------------------------------------------------------------
(* resume *)

\* Mutant: the saga is advanced in a transaction of its own, which is not reached.
CreateOrganization_NotRecorded(r) ==
  /\ pc[r] = "org"
  /\ org[form[r].slug] = "none"
  /\ org' = [org EXCEPT ![form[r].slug] = "provisioning"]
  /\ orgId' = [orgId EXCEPT ![r] = form[r].slug]
  /\ GoTo(r, "credential")
  /\ UNCHANGED <<saga, cred, subs, inbox, unsent, users, adminId, faults>>

\* The organisation and the advance to ORG_CREATED commit together.
CreateOrganization(r) ==
  /\ pc[r] = "org"
  /\ org[form[r].slug] = "none"
  /\ org' = [org EXCEPT ![form[r].slug] = "provisioning"]
  /\ Advance(Key(r), "org_created", form[r].slug, saga[Key(r)].admin)
  /\ orgId' = [orgId EXCEPT ![r] = form[r].slug]
  /\ GoTo(r, "credential")
  /\ UNCHANGED <<cred, subs, inbox, unsent, users, adminId, faults>>

\* OrganizationSlugTakenError: 409, the saga is not marked.
SlugTaken(r) ==
  /\ pc[r] = "org"
  /\ org[form[r].slug] # "none"
  /\ Answer(r)
  /\ UNCHANGED <<world, faults>>

\* Mutant: the email of a credential is not unique.
CreateCredential_NotUnique(r) ==
  /\ pc[r] = "credential"
  /\ cred' = [cred EXCEPT ![form[r].email] = orgId[r]]
  /\ \/ GoTo(r, "advanceCredential") /\ UNCHANGED faults
     \/ GoTo(r, "fail") /\ Fault("lost")
  /\ UNCHANGED <<saga, org, subs, inbox, unsent, users, orgId, adminId>>

\* The call to auth-service creates the credential; its answer may be lost.
CreateCredential(r) ==
  /\ pc[r] = "credential"
  /\ cred[form[r].email] = None
  /\ cred' = [cred EXCEPT ![form[r].email] = orgId[r]]
  /\ \/ GoTo(r, "advanceCredential") /\ UNCHANGED faults
     \/ GoTo(r, "fail") /\ Fault("lost")
  /\ UNCHANGED <<saga, org, subs, inbox, unsent, users, orgId, adminId>>

\* Mutant: "already there" is taken for "done before".
EmailTaken_Tolerated(r) ==
  /\ pc[r] = "credential"
  /\ cred[form[r].email] # None
  /\ GoTo(r, "advanceCredential")
  /\ UNCHANGED <<world, orgId, adminId, faults>>

\* EmailTakenError: whoever created the credential, this request has failed.
EmailTaken(r) ==
  /\ pc[r] = "credential"
  /\ cred[form[r].email] # None
  /\ GoTo(r, "fail")
  /\ UNCHANGED <<world, orgId, adminId, faults>>

AdvanceCredential(r) ==
  /\ pc[r] = "advanceCredential"
  /\ Advance(Key(r), "credentials_created", saga[Key(r)].org, form[r].email)
  /\ adminId' = [adminId EXCEPT ![r] = form[r].email]
  /\ GoTo(r, "plan")
  /\ UNCHANGED <<org, cred, subs, inbox, unsent, users, orgId, faults>>

\* The call to subscription-service, which gives the organisation its only subscription.
AssignPlan(r) ==
  /\ pc[r] = "plan"
  /\ orgId[r] \notin subs
  /\ subs' = subs \cup {orgId[r]}
  /\ \/ GoTo(r, "advancePlan") /\ UNCHANGED faults
     \/ GoTo(r, "fail") /\ Fault("lost")
  /\ UNCHANGED <<saga, org, cred, inbox, unsent, users, orgId, adminId>>

\* uq_subscriptions_org
PlanAssigned(r) ==
  /\ pc[r] = "plan"
  /\ orgId[r] \in subs
  /\ GoTo(r, "fail")
  /\ UNCHANGED <<world, orgId, adminId, faults>>

AdvancePlan(r) ==
  /\ pc[r] = "advancePlan"
  /\ Advance(Key(r), "subscribed", saga[Key(r)].org, saga[Key(r)].admin)
  /\ GoTo(r, "complete")
  /\ UNCHANGED <<org, cred, subs, inbox, unsent, users, orgId, adminId, faults>>

Complete(r) ==
  /\ pc[r] = "complete"
  /\ org' = [org EXCEPT ![orgId[r]] = "active"]
  /\ Advance(Key(r), "complete", saga[Key(r)].org, saga[Key(r)].admin)
  /\ GoTo(r, "publish")
  /\ UNCHANGED <<cred, subs, inbox, unsent, users, orgId, adminId, faults>>

Provisioned(r) == <<orgId[r], adminId[r]>>

\* The event goes out after the commit; a failure to publish is logged, and signup goes on.
Publish(r) ==
  /\ pc[r] = "publish"
  /\ \/ inbox' = inbox \cup {Provisioned(r)} /\ UNCHANGED <<unsent, faults>>
     \/ unsent' = unsent \cup {Provisioned(r)} /\ Fault("publish") /\ UNCHANGED inbox
  /\ GoTo(r, "respond")
  /\ UNCHANGED <<saga, org, cred, subs, users, orgId, adminId>>

\* The organisation is read once more for the answer.
Respond(r) ==
  /\ pc[r] = "respond"
  /\ Answer(r)
  /\ UNCHANGED <<world, faults>>

-----------------------------------------------------------------------------
(* Failures *)

\* A step inside the try of resume() throws before it has any effect: the last one is the read
\* for the answer, when the saga is complete already.
StepFails(r) ==
  /\ \/ pc[r] \in {"org", "credential", "plan", "complete", "respond"} /\ Fault("error")
     \/ pc[r] \in {"advanceCredential", "advancePlan"} /\ Fault("late")
  /\ GoTo(r, "fail")
  /\ UNCHANGED <<world, orgId, adminId>>

\* What throws outside the try, markFailed among it, leaves no trace but a 500.
Escapes(r) ==
  /\ pc[r] \in {"read", "insert", "fail"}
  /\ Fault("error")
  /\ Answer(r)
  /\ UNCHANGED world

\* Mutant: a failure starts the saga again.
MarkFailed_Resets(r) ==
  /\ pc[r] = "fail"
  /\ saga' = [saga EXCEPT ![Key(r)].failed = TRUE, ![Key(r)].state = "pending"]
  /\ org' = [s \in Slugs |-> IF s = orgId[r] THEN "provisioning_failed" ELSE org[s]]
  /\ Answer(r)
  /\ UNCHANGED <<cred, subs, inbox, unsent, users, faults>>

\* Mutant: markFailed shows the failure on the organisation only.
MarkFailed_Unrecorded(r) ==
  /\ pc[r] = "fail"
  /\ org' = [s \in Slugs |-> IF s = orgId[r] THEN "provisioning_failed" ELSE org[s]]
  /\ Answer(r)
  /\ UNCHANGED <<saga, cred, subs, inbox, unsent, users, faults>>

\* The failure is recorded beside the state; the organisation, if this request knows one, is
\* marked whatever its status is by now.
MarkFailed(r) ==
  /\ pc[r] = "fail"
  /\ saga' = [saga EXCEPT ![Key(r)].failed = TRUE]
  /\ org' = [s \in Slugs |-> IF s = orgId[r] THEN "provisioning_failed" ELSE org[s]]
  /\ Answer(r)
  /\ UNCHANGED <<cred, subs, inbox, unsent, users, faults>>

\* The process dies; after the commit of Complete it takes the event with it.
Crash(r) ==
  /\ pc[r] # "idle"
  /\ Fault("crash")
  /\ unsent' = IF pc[r] = "publish" THEN unsent \cup {Provisioned(r)} ELSE unsent
  /\ Answer(r)
  /\ UNCHANGED <<saga, org, cred, subs, inbox, users>>

-----------------------------------------------------------------------------
\* Mutant: the event is taken from the topic without creating the row.
ConsumeProvisioned_Skip(m) ==
  /\ m \in inbox
  /\ inbox' = inbox \ {m}
  /\ UNCHANGED <<saga, org, cred, subs, unsent, users, local, faults>>

\* OrganizationProvisionedConsumer saves the first admin by the id minted for the credential.
ConsumeProvisioned(m) ==
  /\ m \in inbox
  /\ inbox' = inbox \ {m}
  /\ users' = users \cup {m}
  /\ UNCHANGED <<saga, org, cred, subs, unsent, local, faults>>

-----------------------------------------------------------------------------
Proceed(r) ==
  \/ Claim(r) \/ ReadSaga(r) \/ InsertSaga(r) \/ InsertSagaConflict(r)
  \/ CreateOrganization(r) \/ SlugTaken(r)
  \/ CreateCredential(r) \/ EmailTaken(r) \/ AdvanceCredential(r)
  \/ AssignPlan(r) \/ PlanAssigned(r) \/ AdvancePlan(r)
  \/ Complete(r) \/ Publish(r) \/ Respond(r) \/ MarkFailed(r)

Next ==
  \/ \E r \in Requests : \/ \E f \in Forms : Submit(r, f)
                         \/ Proceed(r) \/ StepFails(r) \/ Escapes(r) \/ Crash(r)
  \/ \E m \in inbox : ConsumeProvisioned(m)

Spec == Init /\ [][Next]_vars

(***************************************************************************)
(* A request that has begun goes on, the consumer reads its topic, and the *)
(* user submits the same form again whenever it has not succeeded, as the  *)
(* answer asks for.                                                        *)
(***************************************************************************)
Retry(f) == /\ saga[f.key].state # "complete"
            /\ \E r \in Requests : Submit(r, f)

Fairness ==
  /\ \A r \in Requests : WF_vars(Proceed(r))
  /\ \A f \in Forms : SF_vars(Retry(f))
  /\ WF_vars(\E m \in inbox : ConsumeProvisioned(m))

FairSpec == Spec /\ Fairness
=============================================================================
