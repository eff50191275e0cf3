-------------------------- MODULE OnboardingProofs --------------------------
(***************************************************************************)
(* Proofs about Onboarding, for any number of concurrent requests, keys,   *)
(* names, emails and faults.                                               *)
(***************************************************************************)
EXTENDS OnboardingProps, TLAPS

\* The states of a saga in order.
LEMMA StageValues ==
  ASSUME NEW k \in Keys, saga[k].state \in States \cup {"none"}
  PROVE  /\ Stage(k) \in 0..5
         /\ saga[k].state = "none" <=> Stage(k) = 0
         /\ saga[k].state = "pending" <=> Stage(k) = 1
         /\ saga[k].state = "org_created" <=> Stage(k) = 2
         /\ saga[k].state = "credentials_created" <=> Stage(k) = 3
         /\ saga[k].state = "subscribed" <=> Stage(k) = 4
         /\ saga[k].state = "complete" <=> Stage(k) = 5
  BY DEF Stage, StageOf, States, ResumeAt

\* Where resume() enters.
LEMMA ResumePlaces ==
  /\ ResumeAt["pending"] = "org" /\ ResumeAt["org_created"] = "credential"
  /\ ResumeAt["credentials_created"] = "plan" /\ ResumeAt["subscribed"] = "complete"
  /\ States = {"pending", "org_created", "credentials_created", "subscribed", "complete"}
  BY DEF ResumeAt, States

LEMMA InvInit == Init => SagaInv
<1> SUFFICES ASSUME Init PROVE SagaInv
  OBVIOUS
<1>1. TypeOK
  BY FaultsAssumption DEF Init, TypeOK, NoSaga, Places
<1>2. SagaOfForm /\ RequestKnows /\ SoleRecorder
  BY FormsAssumption DEF Init, SagaOfForm, RequestKnows, Knows, SoleRecorder, NoSaga
<1>3. StateIsEarned
  BY DEF Init, StateIsEarned, Stage, StageOf, NoSaga
<1>4. NoOrphans /\ OnlyWholeOrgsActive /\ AdminIsReal
  BY DEF Init, NoOrphans, OnlyWholeOrgsActive, AdminIsReal, NoSaga
<1> QED
  BY <1>1, <1>2, <1>3, <1>4 DEF SagaInv
-----------------------------------------------------------------------------
(* Types *)

LEMMA FormTypes ==
  ASSUME NEW r \in Requests, TypeOK, pc[r] # "idle"
  PROVE  /\ form[r] \in Forms /\ form[r] # None
         /\ Key(r) \in Keys /\ form[r].key \in Keys
         /\ form[r].slug \in Slugs /\ form[r].slug # None
         /\ form[r].email \in Emails /\ form[r].email # None
  BY FormsAssumption, NoneAssumption DEF TypeOK, Key

\* A request moves on with what it knows.
LEMMA GoToType ==
  ASSUME NEW r \in Requests, NEW p \in Places, TypeOK, pc[r] # "idle", GoTo(r, p),
         orgId' \in [Requests -> Slugs \cup {None}], adminId' \in [Requests -> Emails \cup {None}],
         \A q \in Requests \ {r} : orgId'[q] = orgId[q] /\ adminId'[q] = adminId[q],
         p \in {"credential", "advanceCredential", "plan", "advancePlan", "complete", "publish", "respond"}
           => orgId'[r] \in Slugs,
         p \in {"plan", "advancePlan", "complete", "publish", "respond"} => adminId'[r] \in Emails
  PROVE  /\ pc' \in [Requests -> Places]
         /\ form' \in [Requests -> Forms \cup {None}]
         /\ \A q \in Requests :
              /\ pc'[q] # "idle" => form'[q] \in Forms
              /\ pc'[q] \in {"credential", "advanceCredential", "plan", "advancePlan", "complete",
                             "publish", "respond"} => orgId'[q] \in Slugs
              /\ pc'[q] \in {"plan", "advancePlan", "complete", "publish", "respond"} => adminId'[q] \in Emails
  BY FormTypes DEF TypeOK, GoTo

LEMMA AnswerType ==
  ASSUME NEW r \in Requests, TypeOK, Answer(r)
  PROVE  /\ pc' \in [Requests -> Places]
         /\ form' \in [Requests -> Forms \cup {None}]
         /\ orgId' \in [Requests -> Slugs \cup {None}]
         /\ adminId' \in [Requests -> Emails \cup {None}]
         /\ \A q \in Requests :
              /\ pc'[q] # "idle" => form'[q] \in Forms
              /\ pc'[q] \in {"credential", "advanceCredential", "plan", "advancePlan", "complete",
                             "publish", "respond"} => orgId'[q] \in Slugs
              /\ pc'[q] \in {"plan", "advancePlan", "complete", "publish", "respond"} => adminId'[q] \in Emails
  BY DEF TypeOK, Answer, Places

LEMMA AdvanceType ==
  ASSUME NEW k \in Keys, NEW s \in States, NEW o \in Slugs \cup {None}, NEW a \in Emails \cup {None},
         TypeOK, Advance(k, s, o, a)
  PROVE  saga' \in [Keys -> [state : States \cup {"none"}, org : Slugs \cup {None},
                            admin : Emails \cup {None}, failed : BOOLEAN]]
  BY DEF TypeOK, Advance

\* Marking a saga failed keeps its type.
LEMMA FailedType ==
  ASSUME NEW k \in Keys, TypeOK, saga' = [saga EXCEPT ![k].failed = TRUE]
  PROVE  saga' \in [Keys -> [state : States \cup {"none"}, org : Slugs \cup {None},
                            admin : Emails \cup {None}, failed : BOOLEAN]]
<1>1. saga \in [Keys -> [state : States \cup {"none"}, org : Slugs \cup {None},
                         admin : Emails \cup {None}, failed : BOOLEAN]]
  BY DEF TypeOK
<1>2. [saga[k] EXCEPT !.failed = TRUE]
        \in [state : States \cup {"none"}, org : Slugs \cup {None},
             admin : Emails \cup {None}, failed : BOOLEAN]
  BY <1>1
<1>3. saga' = [saga EXCEPT ![k] = [saga[k] EXCEPT !.failed = TRUE]]
  BY <1>1
<1> QED
  BY <1>1, <1>2, <1>3

LEMMA FaultType ==
  ASSUME NEW kind, TypeOK, Fault(kind)
  PROVE  faults' \in 0..MaxFaults
  BY FaultsAssumption DEF TypeOK, Fault

\* A saga has an organisation and an administrator when a request enters it past them.
LEMMA ReadSagaKnows ==
  ASSUME NEW r \in Requests, TypeOK, SagaBacked, pc[r] = "read", saga[Key(r)].state \in DOMAIN ResumeAt,
         ResumeAt[saga[Key(r)].state] # "org"
  PROVE  /\ saga[Key(r)].org \in Slugs
         /\ ResumeAt[saga[Key(r)].state] \in {"plan", "complete"} => saga[Key(r)].admin \in Emails
<1>1. Key(r) \in Keys /\ pc[r] # "idle"
  BY FormTypes
<1>2. saga[Key(r)].state \in {"org_created", "credentials_created", "subscribed"}
  BY ResumePlaces DEF ResumeAt
<1>3. /\ Stage(Key(r)) >= 2
      /\ ResumeAt[saga[Key(r)].state] \in {"plan", "complete"} => Stage(Key(r)) >= 3
  BY <1>2, ResumePlaces DEF Stage, StageOf
<1> QED
  BY <1>1, <1>3 DEF SagaBacked, TypeOK

LEMMA EarnedBacked ==
  ASSUME SagaInv
  PROVE  SagaBacked
<1>1. ASSUME NEW k \in Keys PROVE Stage(k) \in 0..5
  BY StageValues DEF SagaInv, TypeOK
<1> QED
  BY <1>1 DEF SagaInv, StateIsEarned, SagaBacked

LEMMA TypeStep == TypeOK /\ SagaBacked /\ [Next]_vars => TypeOK'
<1> SUFFICES ASSUME TypeOK, SagaBacked, [Next]_vars PROVE TypeOK'
  OBVIOUS
<1> USE DEF world, local
<1>0. TypeOK
  OBVIOUS
<1>1. ASSUME NEW r \in Requests, NEW f \in Forms, Submit(r, f) PROVE TypeOK'
  BY <1>0, <1>1 DEF Submit, TypeOK, Places
<1>2. ASSUME NEW r \in Requests, Claim(r) PROVE TypeOK'
  <2>1. CASE GoTo(r, "read") /\ UNCHANGED <<orgId, adminId, faults>>
    BY <1>0, <1>2, <2>1, GoToType DEF Claim, TypeOK, Places
  <2>2. CASE Answer(r) /\ Fault("redis")
    BY <1>0, <1>2, <2>2, AnswerType, FaultType DEF Claim, TypeOK
  <2> QED
    BY <1>2, <2>1, <2>2 DEF Claim
<1>3. ASSUME NEW r \in Requests, ReadSaga(r) PROVE TypeOK'
  <2>0. pc[r] = "read" /\ Key(r) \in Keys
    BY <1>0, <1>3, FormTypes DEF ReadSaga
  <2>1. CASE GoTo(r, "insert") /\ UNCHANGED <<orgId, adminId>>
    BY <1>0, <1>3, <2>0, <2>1, GoToType DEF ReadSaga, TypeOK, Places
  <2>2. CASE Answer(r)
    BY <1>0, <1>3, <2>2, AnswerType DEF ReadSaga, TypeOK
  <2>3. CASE /\ saga[Key(r)].state \in DOMAIN ResumeAt
             /\ GoTo(r, ResumeAt[saga[Key(r)].state])
             /\ orgId' = [orgId EXCEPT ![r] = saga[Key(r)].org]
             /\ adminId' = [adminId EXCEPT ![r] = saga[Key(r)].admin]
    <3>1. ResumeAt[saga[Key(r)].state] \in {"org", "credential", "plan", "complete"}
      BY <2>3, ResumePlaces DEF ResumeAt
    <3>2. /\ saga[Key(r)].org \in Slugs \cup {None} /\ saga[Key(r)].admin \in Emails \cup {None}
      BY <1>0, <2>0 DEF TypeOK
    <3>3. /\ orgId' \in [Requests -> Slugs \cup {None}] /\ adminId' \in [Requests -> Emails \cup {None}]
          /\ orgId'[r] = saga[Key(r)].org /\ adminId'[r] = saga[Key(r)].admin
          /\ \A q \in Requests \ {r} : orgId'[q] = orgId[q] /\ adminId'[q] = adminId[q]
      BY <1>0, <2>3, <3>2 DEF TypeOK
    <3> QED
      BY <1>0, <1>3, <2>0, <2>3, <3>1, <3>3, ReadSagaKnows, GoToType DEF ReadSaga, TypeOK, Places
  <2> QED
    BY <1>3, <2>1, <2>2, <2>3 DEF ReadSaga
<1>4. ASSUME NEW r \in Requests, InsertSaga(r) PROVE TypeOK'
  <2>1. Key(r) \in Keys /\ pc[r] = "insert"
    BY <1>0, <1>4, FormTypes DEF InsertSaga
  <2>2. saga' \in [Keys -> [state : States \cup {"none"}, org : Slugs \cup {None},
                           admin : Emails \cup {None}, failed : BOOLEAN]]
    BY <1>0, <1>4, <2>1, ResumePlaces DEF InsertSaga, TypeOK, NoSaga
  <2> QED
    BY <1>0, <1>4, <2>1, <2>2, GoToType DEF InsertSaga, TypeOK, Places
<1>5. ASSUME NEW r \in Requests, InsertSagaConflict(r) \/ SlugTaken(r) \/ Respond(r) PROVE TypeOK'
  BY <1>0, <1>5, AnswerType DEF InsertSagaConflict, SlugTaken, Respond, TypeOK
<1>6. ASSUME NEW r \in Requests, CreateOrganization(r) PROVE TypeOK'
  <2>1. Key(r) \in Keys /\ form[r].slug \in Slugs /\ pc[r] = "org"
    BY <1>0, <1>6, FormTypes DEF CreateOrganization
  <2>2. saga' \in [Keys -> [state : States \cup {"none"}, org : Slugs \cup {None},
                           admin : Emails \cup {None}, failed : BOOLEAN]]
    BY <1>0, <1>6, <2>1, AdvanceType, ResumePlaces DEF CreateOrganization, TypeOK
  <2>3. org' \in [Slugs -> Statuses \cup {"none"}]
    BY <1>0, <1>6, <2>1 DEF CreateOrganization, TypeOK, Statuses
  <2>4. /\ orgId' \in [Requests -> Slugs \cup {None}] /\ orgId'[r] \in Slugs
        /\ \A q \in Requests \ {r} : orgId'[q] = orgId[q]
    BY <1>0, <1>6, <2>1 DEF CreateOrganization, TypeOK
  <2> QED
    BY <1>0, <1>6, <2>1, <2>2, <2>3, <2>4, GoToType DEF CreateOrganization, TypeOK, Places
<1>7. ASSUME NEW r \in Requests, CreateCredential(r) PROVE TypeOK'
  <2>1. form[r].email \in Emails /\ orgId[r] \in Slugs /\ pc[r] = "credential"
    BY <1>0, <1>7, FormTypes DEF CreateCredential, TypeOK
  <2>2. cred' \in [Emails -> Slugs \cup {None}]
    BY <1>0, <1>7, <2>1 DEF CreateCredential, TypeOK
  <2>3. faults' \in 0..MaxFaults
    BY <1>0, <1>7, FaultType DEF CreateCredential, TypeOK
  <2> QED
    BY <1>0, <1>7, <2>1, <2>2, <2>3, GoToType DEF CreateCredential, TypeOK, Places
<1>8. ASSUME NEW r \in Requests, EmailTaken(r) \/ PlanAssigned(r) \/ StepFails(r) PROVE TypeOK'
  <2>1. pc[r] # "idle" /\ GoTo(r, "fail") /\ UNCHANGED <<world, orgId, adminId>>
    BY <1>8 DEF EmailTaken, PlanAssigned, StepFails
  <2>2. faults' \in 0..MaxFaults
    BY <1>0, <1>8, FaultType DEF EmailTaken, PlanAssigned, StepFails, TypeOK
  <2> QED
    BY <1>0, <2>1, <2>2, GoToType DEF TypeOK, Places
<1>9. ASSUME NEW r \in Requests, AdvanceCredential(r) PROVE TypeOK'
  <2>1. /\ Key(r) \in Keys /\ form[r].email \in Emails /\ orgId[r] \in Slugs
        /\ pc[r] = "advanceCredential" /\ saga[Key(r)].org \in Slugs \cup {None}
    BY <1>0, <1>9, FormTypes DEF AdvanceCredential, TypeOK
  <2>2. saga' \in [Keys -> [state : States \cup {"none"}, org : Slugs \cup {None},
                           admin : Emails \cup {None}, failed : BOOLEAN]]
    BY <1>0, <1>9, <2>1, AdvanceType, ResumePlaces DEF AdvanceCredential, TypeOK
  <2>3. /\ adminId' \in [Requests -> Emails \cup {None}] /\ adminId'[r] \in Emails
        /\ \A q \in Requests \ {r} : adminId'[q] = adminId[q]
    BY <1>0, <1>9, <2>1 DEF AdvanceCredential, TypeOK
  <2> QED
    BY <1>0, <1>9, <2>1, <2>2, <2>3, GoToType DEF AdvanceCredential, TypeOK, Places
<1>10. ASSUME NEW r \in Requests, AssignPlan(r) PROVE TypeOK'
  <2>1. orgId[r] \in Slugs /\ adminId[r] \in Emails /\ pc[r] = "plan"
    BY <1>0, <1>10 DEF AssignPlan, TypeOK
  <2>2. faults' \in 0..MaxFaults
    BY <1>0, <1>10, FaultType DEF AssignPlan, TypeOK
  <2> QED
    BY <1>0, <1>10, <2>1, <2>2, GoToType DEF AssignPlan, TypeOK, Places
<1>11. ASSUME NEW r \in Requests, AdvancePlan(r) \/ Complete(r) PROVE TypeOK'
  <2>1. /\ Key(r) \in Keys /\ orgId[r] \in Slugs /\ adminId[r] \in Emails /\ pc[r] # "idle"
        /\ saga[Key(r)].org \in Slugs \cup {None} /\ saga[Key(r)].admin \in Emails \cup {None}
    BY <1>0, <1>11, FormTypes DEF AdvancePlan, Complete, TypeOK
  <2>2. saga' \in [Keys -> [state : States \cup {"none"}, org : Slugs \cup {None},
                           admin : Emails \cup {None}, failed : BOOLEAN]]
    BY <1>0, <1>11, <2>1, AdvanceType, ResumePlaces DEF AdvancePlan, Complete, TypeOK
  <2>3. org' \in [Slugs -> Statuses \cup {"none"}]
    BY <1>0, <1>11, <2>1 DEF AdvancePlan, Complete, TypeOK, Statuses
  <2> QED
    BY <1>0, <1>11, <2>1, <2>2, <2>3, GoToType DEF AdvancePlan, Complete, TypeOK, Places
<1>12. ASSUME NEW r \in Requests, Publish(r) PROVE TypeOK'
  <2>1. orgId[r] \in Slugs /\ adminId[r] \in Emails /\ pc[r] # "idle"
    BY <1>0, <1>12 DEF Publish, TypeOK
  <2>2. faults' \in 0..MaxFaults
    BY <1>0, <1>12, FaultType DEF Publish, TypeOK
  <2>3. inbox' \subseteq Slugs \X Emails /\ unsent' \subseteq Slugs \X Emails
    BY <1>0, <1>12, <2>1 DEF Publish, Provisioned, TypeOK
  <2> QED
    BY <1>0, <1>12, <2>1, <2>2, <2>3, GoToType DEF Publish, TypeOK, Places
<1>13. ASSUME NEW r \in Requests, MarkFailed(r) PROVE TypeOK'
  <2>1. Key(r) \in Keys
    BY <1>0, <1>13, FormTypes DEF MarkFailed
  <2>2. saga' \in [Keys -> [state : States \cup {"none"}, org : Slugs \cup {None},
                           admin : Emails \cup {None}, failed : BOOLEAN]]
    BY <1>0, <1>13, <2>1, FailedType DEF MarkFailed, TypeOK
  <2>3. org' \in [Slugs -> Statuses \cup {"none"}]
    BY <1>0, <1>13 DEF MarkFailed, TypeOK, Statuses
  <2> QED
    BY <1>0, <1>13, <2>2, <2>3, AnswerType DEF MarkFailed, TypeOK
<1>14. ASSUME NEW r \in Requests, Crash(r) \/ Escapes(r) PROVE TypeOK'
  <2>1. faults' \in 0..MaxFaults /\ Answer(r) /\ UNCHANGED <<saga, org, cred, subs, inbox, users>>
    BY <1>0, <1>14, FaultType DEF Crash, Escapes
  <2>2. unsent' \subseteq Slugs \X Emails
    BY <1>0, <1>14 DEF Crash, Escapes, Provisioned, TypeOK
  <2> QED
    BY <1>0, <2>1, <2>2, AnswerType DEF TypeOK
<1>15. ASSUME NEW m \in inbox, ConsumeProvisioned(m) PROVE TypeOK'
  BY <1>0, <1>15 DEF ConsumeProvisioned, TypeOK
<1>16. CASE UNCHANGED vars
  BY <1>0, <1>16 DEF vars, TypeOK
<1> QED
  BY <1>1, <1>2, <1>3, <1>4, <1>5, <1>6, <1>7, <1>8, <1>9, <1>10, <1>11, <1>12, <1>13, <1>14,
     <1>15, <1>16
  DEF Next, Proceed
-----------------------------------------------------------------------------
(* The inductive invariant: what a step of one request leaves to the others *)

LEMMA WorldSame ==
  ASSUME SagaInv, UNCHANGED <<saga, org, cred, subs, inbox, users>>
  PROVE  SagaOfForm' /\ StateIsEarned' /\ NoOrphans' /\ OnlyWholeOrgsActive' /\ AdminIsReal'
  BY DEF SagaInv, SagaOfForm, StateIsEarned, Stage, NoOrphans, OnlyWholeOrgsActive, AdminIsReal

\* Credentials and subscriptions only come: no other request learns otherwise.
LEMMA KeepsKnowing ==
  ASSUME NEW v \in Requests, TypeOK, Knows(v),
         pc'[v] = pc[v], form'[v] = form[v], orgId'[v] = orgId[v], adminId'[v] = adminId[v],
         saga' = saga, subs \subseteq subs',
         \A e \in Emails : cred[e] # None => cred'[e] = cred[e]
  PROVE  Knows(v)'
<1>1. CASE pc[v] = "advanceCredential"
  <2>1. form[v].email \in Emails /\ orgId[v] \in Slugs /\ orgId[v] # None
    BY <1>1, FormTypes, NoneAssumption DEF TypeOK
  <2> QED
    BY <1>1, <2>1 DEF Knows, Key, Stage
<1>2. CASE pc[v] # "advanceCredential"
  BY <1>2 DEF Knows, Key, Stage
<1> QED
  BY <1>1, <1>2

\* A saga only grows: what another request knows of it stays true.
LEMMA KeepsKnowingSaga ==
  ASSUME NEW v \in Requests, NEW k \in Keys, TypeOK, TypeOK', Knows(v),
         pc'[v] = pc[v], form'[v] = form[v], orgId'[v] = orgId[v], adminId'[v] = adminId[v],
         \A j \in Keys \ {k} : saga'[j] = saga[j], UNCHANGED <<cred, subs>>,
         saga'[k].state # "none", Stage(k)' >= Stage(k),
         saga[k].org # None => saga'[k].org = saga[k].org,
         saga[k].admin # None => saga'[k].admin = saga[k].admin,
         pc[v] = "advanceCredential" /\ Key(v) = k => saga'[k].state = "org_created",
         pc[v] = "advancePlan" /\ Key(v) = k => saga'[k].state = "credentials_created"
  PROVE  Knows(v)'
<1>1. CASE pc[v] = "idle"
  BY <1>1, NoneAssumption DEF Knows
<1>2. CASE pc[v] # "idle" /\ Key(v) # k
  <2>1. Key(v) \in Keys /\ saga'[Key(v)] = saga[Key(v)] /\ Key(v)' = Key(v)
    BY <1>2, FormTypes DEF TypeOK, Key
  <2> QED
    BY <2>1 DEF Knows, Stage
<1>3. CASE pc[v] # "idle" /\ Key(v) = k
  <2>1. Key(v)' = k /\ saga[k].state \in States \cup {"none"} /\ saga'[k].state \in States \cup {"none"}
    BY <1>3 DEF TypeOK, Key
  <2>2. Stage(k) \in 0..5 /\ Stage(k)' \in 0..5
    BY <2>1, ResumePlaces DEF Stage, StageOf
  <2>3. form[v].slug # None /\ form[v].email # None
    BY <1>3, FormTypes
  <2> QED
    BY <1>3, <2>1, <2>2, <2>3, ResumePlaces DEF Knows
<1> QED
  BY <1>1, <1>2, <1>3

LEMMA AnswerKnows ==
  ASSUME NEW r \in Requests, TypeOK, Answer(r)
  PROVE  /\ Knows(r)' /\ pc'[r] = "idle"
         /\ \A v \in Requests \ {r} : /\ pc'[v] = pc[v] /\ form'[v] = form[v]
                                     /\ orgId'[v] = orgId[v] /\ adminId'[v] = adminId[v]
  BY DEF TypeOK, Answer, Knows

\* A request that does not enter a place between an effect and its record.
LEMMA SoleSame ==
  ASSUME NEW r \in Requests, SoleRecorder, pc'[r] \notin {"advanceCredential", "advancePlan"},
         \A v \in Requests \ {r} : pc'[v] = pc[v] /\ form'[v] = form[v] /\ orgId'[v] = orgId[v]
  PROVE  SoleRecorder'
  BY DEF SoleRecorder

\* A step that only moves a request.
LEMMA LocalStep ==
  ASSUME NEW r \in Requests, SagaInv, UNCHANGED <<saga, org, cred, subs, inbox, users>>,
         TypeOK', Knows(r)',
         pc'[r] \notin {"advanceCredential", "advancePlan"},
         \A v \in Requests \ {r} : /\ pc'[v] = pc[v] /\ form'[v] = form[v]
                                  /\ orgId'[v] = orgId[v] /\ adminId'[v] = adminId[v]
  PROVE  SagaInv'
<1>1. ASSUME NEW v \in Requests \ {r} PROVE Knows(v)'
  BY KeepsKnowing DEF SagaInv, RequestKnows
<1>2. RequestKnows'
  BY <1>1 DEF RequestKnows
<1>3. SoleRecorder'
  BY SoleSame DEF SagaInv
<1> QED
  BY <1>2, <1>3, WorldSame DEF SagaInv
-----------------------------------------------------------------------------
(* The inductive invariant: one lemma per action that changes what is stored *)

LEMMA LocalActions ==
  ASSUME NEW r \in Requests, SagaInv, TypeOK',
         \/ \E f \in Forms : Submit(r, f)
         \/ Claim(r) \/ ReadSaga(r) \/ InsertSagaConflict(r) \/ SlugTaken(r)
         \/ EmailTaken(r) \/ PlanAssigned(r) \/ Respond(r)
         \/ StepFails(r) \/ Escapes(r) \/ Crash(r)
  PROVE  SagaInv'
<1> USE DEF world
<1>0. TypeOK /\ Knows(r)
  BY DEF SagaInv, RequestKnows
<1>1. ASSUME NEW f \in Forms, Submit(r, f) PROVE SagaInv'
  <2>1. Knows(r)' /\ pc'[r] = "claim"
    BY <1>0, <1>1, NoneAssumption DEF Submit, TypeOK, Knows
  <2> QED
    BY <1>0, <1>1, <2>1, LocalStep DEF Submit, TypeOK
<1>2. CASE Answer(r) /\ UNCHANGED <<saga, org, cred, subs, inbox, users>>
  BY <1>0, <1>2, AnswerKnows, LocalStep
<1>3. CASE ReadSaga(r) /\ ~Answer(r)
  <2>0. pc[r] = "read" /\ pc[r] # "idle" /\ Key(r) \in Keys /\ form[r] \in Forms
        /\ Key(r)' = Key(r) /\ Stage(Key(r))' = Stage(Key(r))
    BY <1>0, <1>3, FormTypes DEF ReadSaga, GoTo, Key, Stage
  <2>1. CASE GoTo(r, "insert") /\ UNCHANGED <<orgId, adminId>>
    <3>1. Knows(r)' /\ pc'[r] = "insert"
      BY <1>0, <1>3, <2>0, <2>1, NoneAssumption DEF ReadSaga, GoTo, TypeOK, Knows, Key
    <3> QED
      BY <1>0, <1>3, <2>1, <3>1, LocalStep DEF ReadSaga, GoTo, TypeOK
  <2>2. CASE /\ saga[Key(r)].state \in DOMAIN ResumeAt
             /\ GoTo(r, ResumeAt[saga[Key(r)].state])
             /\ orgId' = [orgId EXCEPT ![r] = saga[Key(r)].org]
             /\ adminId' = [adminId EXCEPT ![r] = saga[Key(r)].admin]
    <3>1. /\ saga[Key(r)].org \in {None, form[r].slug} /\ saga[Key(r)].admin \in {None, form[r].email}
      BY <2>0 DEF SagaInv, SagaOfForm, Key
    <3>2. /\ pc'[r] = ResumeAt[saga[Key(r)].state]
          /\ orgId'[r] = saga[Key(r)].org /\ adminId'[r] = saga[Key(r)].admin
          /\ \A v \in Requests \ {r} : /\ pc'[v] = pc[v] /\ form'[v] = form[v]
                                      /\ orgId'[v] = orgId[v] /\ adminId'[v] = adminId[v]
          /\ form' = form /\ saga' = saga /\ UNCHANGED world
      BY <1>0, <1>3, <2>2 DEF ReadSaga, GoTo, TypeOK
    <3>3. /\ pc'[r] \in {"org", "credential", "plan", "complete"}
          /\ saga[Key(r)].state # "none"
          /\ pc'[r] = "plan" => Stage(Key(r)) >= 3
          /\ pc'[r] = "complete" => Stage(Key(r)) >= 4
      BY <2>2, <3>2, ResumePlaces DEF ResumeAt, Stage, StageOf
    <3>4. Knows(r)'
      BY <2>0, <3>1, <3>2, <3>3 DEF Knows, Key
    <3> QED
      BY <3>2, <3>3, <3>4, LocalStep
  <2> QED
    BY <1>3, <2>1, <2>2 DEF ReadSaga
<1>4. CASE Claim(r) /\ GoTo(r, "read") /\ UNCHANGED <<world, orgId, adminId>>
  <2>1. Knows(r)' /\ pc'[r] = "read"
    BY <1>0, <1>4 DEF Claim, GoTo, TypeOK, Knows, Key
  <2> QED
    BY <1>0, <1>4, <2>1, LocalStep DEF GoTo, TypeOK
<1>5. CASE EmailTaken(r) \/ PlanAssigned(r) \/ StepFails(r)
  <2>1. /\ pc[r] \in {"org", "credential", "advanceCredential", "plan", "advancePlan", "complete",
                    "respond"}
        /\ GoTo(r, "fail") /\ UNCHANGED <<world, orgId, adminId>>
    BY <1>5 DEF EmailTaken, PlanAssigned, StepFails
  <2>2. Key(r) \in Keys /\ saga[Key(r)].state \in States \cup {"none"}
    BY <1>0, <2>1, FormTypes DEF TypeOK
  <2>3. saga[Key(r)].state # "none"
    <3>1. CASE pc[r] \in {"org", "advanceCredential", "advancePlan"}
      BY <1>0, <3>1 DEF Knows
    <3>2. CASE pc[r] \in {"plan", "complete", "respond"}
      BY <1>0, <2>2, <3>2, StageValues DEF Knows
    <3>3. CASE pc[r] = "credential"
      <4>1. orgId[r] \in Slugs /\ saga[Key(r)].org # None
        BY <1>0, <3>3, NoneAssumption DEF TypeOK, Knows
      <4> QED
        BY <2>2, <4>1, StageValues DEF SagaInv, StateIsEarned
    <3> QED
      BY <2>1, <3>1, <3>2, <3>3
  <2>4. Knows(r)' /\ pc'[r] = "fail"
    BY <1>0, <2>1, <2>3 DEF GoTo, TypeOK, Knows, Key
  <2> QED
    BY <1>0, <2>1, <2>4, LocalStep DEF GoTo, TypeOK
<1> QED
  BY <1>1, <1>2, <1>3, <1>4, <1>5
  DEF Claim, ReadSaga, InsertSagaConflict, SlugTaken, Respond, Escapes, Crash

LEMMA InsertSagaInv ==
  ASSUME NEW r \in Requests, SagaInv, TypeOK', InsertSaga(r)
  PROVE  SagaInv'
<1> DEFINE k == Key(r)
           s == [NoSaga EXCEPT !.state = "pending"]
<1>0. s.state = "pending" /\ s.org = None /\ s.admin = None
  BY DEF NoSaga
<1>1. /\ TypeOK /\ Knows(r) /\ pc[r] = "insert" /\ k \in Keys /\ form[r] \in Forms
      /\ saga' = [saga EXCEPT ![k] = s] /\ saga[k].state = "none"
      /\ s.state = "pending" /\ s.org = None /\ s.admin = None
      /\ UNCHANGED <<org, cred, subs, inbox, users, orgId, adminId, form>>
  <2>1. TypeOK /\ Knows(r) /\ pc[r] = "insert" /\ saga' = [saga EXCEPT ![k] = s]
        /\ saga[k].state = "none"
        /\ UNCHANGED <<org, cred, subs, inbox, users, orgId, adminId, form>>
    BY DEF SagaInv, RequestKnows, InsertSaga, GoTo
  <2>2. k \in Keys /\ form[r] \in Forms
    BY <2>1, FormTypes
  <2> QED
    BY <1>0, <2>1, <2>2
<1>2. /\ pc'[r] = "org"
      /\ \A v \in Requests \ {r} : pc'[v] = pc[v]
  BY <1>1 DEF InsertSaga, GoTo, TypeOK
<1>3. Stage(k) = 0 /\ saga[k].org = None /\ saga[k].admin = None
  BY <1>1 DEF SagaInv, StateIsEarned, Stage, StageOf
<1>4. ASSUME NEW j \in Keys
      PROVE  /\ j # k => saga'[j] = saga[j] /\ Stage(j)' = Stage(j)
             /\ j = k => saga'[j] = s /\ Stage(j)' = 1
             /\ saga'[j].org = saga[j].org /\ saga'[j].admin = saga[j].admin
  BY <1>1, <1>3 DEF TypeOK, Stage, StageOf
<1>5. Knows(r)'
  BY <1>1, <1>2, <1>3, <1>4 DEF Knows, Key
<1>6. ASSUME NEW v \in Requests \ {r} PROVE Knows(v)'
  <2>1. PICK c \in Keys : c = k
    BY <1>1
  <2>2. Knows(v)
    BY DEF SagaInv, RequestKnows
  <2>3. ~(pc[v] \in {"advanceCredential", "advancePlan"} /\ Key(v) = k)
    BY <1>1, <2>2 DEF Knows
  <2>4. Stage(c) = 0 /\ saga[c].org = None /\ saga[c].admin = None
    BY <1>3, <2>1
  <2>5. Stage(c)' = 1 /\ saga'[c] = s /\ \A j \in Keys \ {c} : saga'[j] = saga[j]
    BY <1>4, <2>1
  <2>6. saga'[c].state # "none"
    BY <1>0, <2>5
  <2>7. /\ TypeOK /\ UNCHANGED <<cred, subs>>
        /\ ~(pc[v] \in {"advanceCredential", "advancePlan"} /\ Key(v) = c)
        /\ pc'[v] = pc[v] /\ form'[v] = form[v] /\ orgId'[v] = orgId[v] /\ adminId'[v] = adminId[v]
    BY <1>1, <1>2, <2>1, <2>3
  <2>8. Stage(c)' >= Stage(c)
    BY <2>4, <2>5
  <2> QED
    BY <2>2, <2>4, <2>5, <2>6, <2>7, <2>8, KeepsKnowingSaga
<1>7. SagaOfForm'
  BY <1>1, <1>4, FormsAssumption DEF SagaInv, SagaOfForm
<1>8. StateIsEarned'
  BY <1>1, <1>3, <1>4 DEF SagaInv, StateIsEarned
<1>9. NoOrphans' /\ AdminIsReal'
  BY <1>1, <1>4 DEF SagaInv, NoOrphans, AdminIsReal
<1>10. OnlyWholeOrgsActive'
  BY <1>1, <1>4 DEF SagaInv, OnlyWholeOrgsActive
<1>11. SoleRecorder'
  BY <1>1, <1>2, SoleSame DEF SagaInv
<1> QED
  BY <1>5, <1>6, <1>7, <1>8, <1>9, <1>10, <1>11 DEF SagaInv, RequestKnows

LEMMA CreateOrganizationInv ==
  ASSUME OneFormPerKey, NEW r \in Requests, SagaInv, TypeOK', CreateOrganization(r)
  PROVE  SagaInv'
<1>0. PICK k \in Keys : k = Key(r)
  BY FormTypes DEF SagaInv, CreateOrganization
<1> DEFINE o == form[r].slug
           s == [state |-> "org_created", org |-> o, admin |-> saga[k].admin, failed |-> FALSE]
<1>1. /\ TypeOK /\ Knows(r) /\ pc[r] = "org" /\ saga' = [saga EXCEPT ![k] = s]
      /\ org[o] = "none" /\ org' = [org EXCEPT ![o] = "provisioning"]
      /\ UNCHANGED <<cred, subs, inbox, users, adminId, form>>
      /\ orgId' = [orgId EXCEPT ![r] = o]
  BY <1>0 DEF SagaInv, RequestKnows, CreateOrganization, Advance, GoTo
<1>2. k \in Keys /\ form[r] \in Forms /\ form[r].key = k /\ o \in Slugs /\ o # None
  BY <1>0, <1>1, FormTypes DEF Key
<1>3. /\ pc'[r] = "credential" /\ orgId'[r] = o
      /\ \A v \in Requests \ {r} : pc'[v] = pc[v] /\ orgId'[v] = orgId[v]
  BY <1>1 DEF CreateOrganization, GoTo, TypeOK
<1>4. saga[k].state = "pending" /\ Stage(k) = 1 /\ saga[k].org = None /\ saga[k].admin = None
  <2>1. saga[k].state \in States \cup {"none"} /\ saga[k].state # "none"
    BY <1>0, <1>1, <1>2 DEF TypeOK, Knows
  <2>2. saga[k].org = None
    BY <1>1, <1>2 DEF SagaInv, SagaOfForm, StateIsEarned
  <2> QED
    BY <1>2, <2>1, <2>2, StageValues DEF SagaInv, StateIsEarned
<1>5. ASSUME NEW j \in Keys
      PROVE  /\ j # k => saga'[j] = saga[j] /\ Stage(j)' = Stage(j)
             /\ j = k => saga'[j] = s /\ Stage(j)' = 2
  BY <1>1, <1>2 DEF TypeOK, Stage, StageOf
<1>o. \A p \in Slugs : org'[p] = IF p = o THEN "provisioning" ELSE org[p]
  BY <1>1, <1>2 DEF TypeOK
<1>6. Knows(r)'
  BY <1>0, <1>1, <1>2, <1>3, <1>4, <1>5, <1>o DEF Knows, Key
<1>7. ASSUME NEW v \in Requests \ {r} PROVE Knows(v)'
  <2>1. saga'[k].state # "none" /\ Stage(k)' >= Stage(k)
    BY <1>4, <1>5
  <2>2. Knows(v)
    BY DEF SagaInv, RequestKnows
  <2>3. ~(pc[v] \in {"advanceCredential", "advancePlan"} /\ Key(v) = k)
    BY <1>4, <2>2 DEF Knows
  <2> QED
    BY <1>1, <1>2, <1>3, <1>4, <1>5, <2>1, <2>2, <2>3, KeepsKnowingSaga
<1>8. SagaOfForm'
  <2>1. ASSUME NEW f \in Forms, f.key = k PROVE f = form[r]
    BY <1>2, <2>1 DEF OneFormPerKey
  <2> QED
    BY <1>1, <1>2, <1>4, <1>5, <1>o, <2>1, FormsAssumption DEF SagaInv, SagaOfForm
<1>9. StateIsEarned'
  <2>1. ASSUME NEW j \in Keys \ {k}
        PROVE  /\ Stage(j)' >= 2 <=> saga'[j].org # None
               /\ Stage(j)' >= 2 => org'[saga'[j].org] # "none"
               /\ Stage(j)' >= 3 <=> saga'[j].admin # None
               /\ Stage(j)' >= 3 => cred'[saga'[j].admin] = saga'[j].org
               /\ Stage(j)' >= 4 => saga'[j].org \in subs'
    <3>1. saga'[j] = saga[j] /\ Stage(j)' = Stage(j) /\ cred' = cred /\ subs' = subs
      BY <1>1, <1>5, <1>o
    <3>2. saga[j].org # None => saga[j].org \in Slugs
      BY <1>1 DEF TypeOK
    <3> QED
      BY <1>5, <1>o, <3>1, <3>2 DEF SagaInv, StateIsEarned
  <2>2. /\ Stage(k)' = 2 /\ saga'[k].org = o /\ saga'[k].admin = None /\ org'[o] # "none"
    BY <1>2, <1>4, <1>5, <1>o
  <2> QED
    BY <1>2, <2>1, <2>2 DEF StateIsEarned
<1>10. NoOrphans'
  BY <1>1, <1>2, <1>4, <1>5, <1>o, NoneAssumption DEF SagaInv, NoOrphans, StateIsEarned, TypeOK
<1>11. OnlyWholeOrgsActive' /\ AdminIsReal'
  BY <1>1, <1>2, <1>4, <1>5, <1>o DEF SagaInv, OnlyWholeOrgsActive, AdminIsReal
<1>12. SoleRecorder'
  BY <1>1, <1>3, SoleSame DEF SagaInv
<1> QED
  BY <1>6, <1>7, <1>8, <1>9, <1>10, <1>11, <1>12 DEF SagaInv, RequestKnows

LEMMA CreateCredentialInv ==
  ASSUME NEW r \in Requests, SagaInv, TypeOK', CreateCredential(r)
  PROVE  SagaInv'
<1>0. PICK k \in Keys : k = Key(r)
  BY FormTypes DEF SagaInv, CreateCredential
<1> DEFINE e == form[r].email
<1>1. /\ TypeOK /\ Knows(r) /\ pc[r] = "credential" /\ cred[e] = None
      /\ cred' = [cred EXCEPT ![e] = orgId[r]]
      /\ UNCHANGED <<saga, org, subs, inbox, users, orgId, adminId, form>>
  BY DEF SagaInv, RequestKnows, CreateCredential, GoTo
<1>2. /\ k \in Keys /\ form[r] \in Forms /\ form[r].key = k /\ e \in Emails /\ e # None
      /\ orgId[r] \in Slugs /\ orgId[r] # None /\ saga[k].org = orgId[r]
  BY <1>0, <1>1, FormTypes, NoneAssumption DEF Key, TypeOK, Knows
<1>3. /\ pc'[r] \in {"advanceCredential", "fail"}
      /\ \A v \in Requests \ {r} : pc'[v] = pc[v]
  BY <1>1 DEF CreateCredential, GoTo, TypeOK
<1>4. \A d \in Emails : cred'[d] = IF d = e THEN orgId[r] ELSE cred[d]
  BY <1>1, <1>2 DEF TypeOK
<1>5. Stage(k) = 2 /\ saga[k].state = "org_created"
  <2>1. Stage(k) >= 2 /\ saga[k].state \in States \cup {"none"} /\ Stage(k) \in 0..5
    BY <1>1, <1>2, StageValues DEF SagaInv, StateIsEarned, TypeOK
  <2>2. ~(Stage(k) >= 3)
    BY <1>1, <1>2 DEF SagaInv, StateIsEarned, SagaOfForm
  <2> QED
    BY <1>2, <2>1, <2>2, StageValues
<1>6. Knows(r)'
  BY <1>0, <1>1, <1>2, <1>3, <1>4, <1>5 DEF Knows, Key
<1>7. ASSUME NEW v \in Requests \ {r} PROVE Knows(v)'
  BY <1>1, <1>3, <1>4, KeepsKnowing DEF SagaInv, RequestKnows
<1>8. SagaOfForm'
  BY <1>1 DEF SagaInv, SagaOfForm
<1>9. StateIsEarned'
  <2>1. ASSUME NEW j \in Keys, Stage(j) >= 3 PROVE cred'[saga[j].admin] = saga[j].org
    <3>1. saga[j].admin \in Emails /\ saga[j].org # None /\ cred[saga[j].admin] = saga[j].org
      BY <1>1, <2>1, StageValues DEF SagaInv, StateIsEarned, TypeOK
    <3> QED
      BY <1>1, <1>4, <3>1
  <2> QED
    BY <1>1, <2>1 DEF SagaInv, StateIsEarned, Stage
<1>10. NoOrphans'
  <2>1. org[orgId[r]] # "none"
    BY <1>2, <1>5 DEF SagaInv, StateIsEarned
  <2> QED
    BY <1>1, <1>4, <2>1 DEF SagaInv, NoOrphans
<1>11. OnlyWholeOrgsActive'
  BY <1>1, <1>4, NoneAssumption DEF SagaInv, OnlyWholeOrgsActive, StateIsEarned, Stage, StageOf, TypeOK
<1>12. AdminIsReal'
  BY <1>1, <1>4, NoneAssumption DEF SagaInv, AdminIsReal, TypeOK
<1>13. SoleRecorder'
  <2>1. ASSUME NEW q \in Requests \ {r}, pc[q] = "advanceCredential" PROVE form[q].email # e
    BY <1>1, <2>1, NoneAssumption DEF SagaInv, RequestKnows, Knows, TypeOK
  <2> QED
    BY <1>1, <1>3, <2>1 DEF SagaInv, SoleRecorder
<1> QED
  BY <1>6, <1>7, <1>8, <1>9, <1>10, <1>11, <1>12, <1>13 DEF SagaInv, RequestKnows

\* The saga of one key goes on for the same organisation, to a state that it has earned.
LEMMA SagaMoves ==
  ASSUME NEW k \in Keys, SagaInv, TypeOK', \A j \in Keys \ {k} : saga'[j] = saga[j],
         Stage(k)' >= Stage(k), Stage(k)' >= 3, saga[k].org # None, saga'[k].org = saga[k].org,
         saga'[k].admin \in Emails, cred[saga'[k].admin] = saga[k].org,
         Stage(k)' >= 4 => saga[k].org \in subs,
         \A f \in Forms : f.key = k => saga'[k].admin = f.email,
         \A p \in Slugs : org[p] # "none" <=> org'[p] # "none",
         \A p \in Slugs : org'[p] = "active" => org[p] = "active" \/ (p = saga[k].org /\ Stage(k)' = 5),
         UNCHANGED <<cred, subs, inbox, users>>
  PROVE  SagaOfForm' /\ StateIsEarned' /\ NoOrphans' /\ OnlyWholeOrgsActive' /\ AdminIsReal'
<1>1. /\ TypeOK /\ Stage(k)' \in 0..5
      /\ saga'[k].state = "complete" <=> Stage(k)' = 5
  BY ResumePlaces DEF SagaInv, TypeOK, Stage, StageOf
<1>2. ASSUME NEW j \in Keys, j # k
      PROVE  saga'[j] = saga[j] /\ Stage(j)' = Stage(j)
  BY <1>2 DEF Stage
<1>3. saga[k].org \in Slugs /\ Stage(k) \in 0..5 /\ Stage(k) >= 2
  BY <1>1, StageValues DEF TypeOK, SagaInv, StateIsEarned
<1>4. SagaOfForm'
  <2>1. ASSUME NEW f \in Forms
        PROVE  saga'[f.key].org \in {None, f.slug} /\ saga'[f.key].admin \in {None, f.email}
    BY <1>1, <1>2, <2>1, FormsAssumption DEF SagaInv, SagaOfForm
  <2> QED
    BY <2>1 DEF SagaOfForm
<1>5. StateIsEarned'
  <2>1. ASSUME NEW j \in Keys
        PROVE  /\ Stage(j)' >= 2 <=> saga'[j].org # None
               /\ Stage(j)' >= 2 => org'[saga'[j].org] # "none"
               /\ Stage(j)' >= 3 <=> saga'[j].admin # None
               /\ Stage(j)' >= 3 => cred'[saga'[j].admin] = saga'[j].org
               /\ Stage(j)' >= 4 => saga'[j].org \in subs'
    <3>1. CASE j = k
      BY <1>1, <1>3, <3>1, NoneAssumption DEF SagaInv, StateIsEarned
    <3>2. CASE j # k
      <4>1. saga[j].org # None => saga[j].org \in Slugs
        BY <1>1 DEF TypeOK
      <4> QED
        BY <1>2, <3>2, <4>1 DEF SagaInv, StateIsEarned
    <3> QED
      BY <3>1, <3>2
  <2> QED
    BY <2>1 DEF StateIsEarned
<1>6. NoOrphans'
  <2>1. \A j \in Keys : saga'[j].org = saga[j].org
    BY <1>1, <1>2
  <2>2. \A e \in Emails : cred[e] # None => cred[e] \in Slugs
    BY <1>1 DEF TypeOK
  <2>3. subs \subseteq Slugs
    BY <1>1 DEF TypeOK
  <2> QED
    BY <2>1, <2>2, <2>3 DEF SagaInv, NoOrphans
<1>7. OnlyWholeOrgsActive'
  <2>1. ASSUME NEW p \in Slugs, org'[p] = "active"
        PROVE  /\ p \in subs
               /\ \E j \in Keys : saga'[j].org = p /\ saga'[j].state = "complete" /\ cred[saga'[j].admin] = p
    <3>1. CASE p = saga[k].org /\ Stage(k)' = 5
      BY <1>1, <3>1
    <3>2. CASE org[p] = "active"
      <4>1. p \in subs
        BY <3>2 DEF SagaInv, OnlyWholeOrgsActive
      <4>2. PICK j \in Keys : saga[j].org = p /\ saga[j].state = "complete" /\ cred[saga[j].admin] = p
        BY <3>2 DEF SagaInv, OnlyWholeOrgsActive
      <4>3. CASE j = k
        <5>1. Stage(k) = 5
          BY <4>2, <4>3 DEF Stage, StageOf
        <5> QED
          BY <1>1, <1>3, <4>1, <4>2, <4>3, <5>1
      <4>4. CASE j # k
        BY <1>2, <4>1, <4>2, <4>4
      <4> QED
        BY <4>3, <4>4
    <3> QED
      BY <2>1, <3>1, <3>2
  <2> QED
    BY <2>1 DEF OnlyWholeOrgsActive
<1>8. AdminIsReal'
  BY DEF SagaInv, AdminIsReal
<1> QED
  BY <1>4, <1>5, <1>6, <1>7, <1>8

\* Two requests with one key have one form.
LEMMA SameForm ==
  ASSUME OneFormPerKey, TypeOK, NEW r \in Requests, NEW v \in Requests, pc[r] # "idle", pc[v] # "idle",
         Key(v) = Key(r)
  PROVE  form[v] = form[r]
  BY FormTypes DEF OneFormPerKey, Key

LEMMA AdvanceCredentialInv ==
  ASSUME OneFormPerKey, NEW r \in Requests, SagaInv, TypeOK', AdvanceCredential(r)
  PROVE  SagaInv'
<1>0. PICK k \in Keys : k = Key(r)
  BY FormTypes DEF SagaInv, AdvanceCredential
<1> DEFINE e == form[r].email
           s == [state |-> "credentials_created", org |-> saga[k].org, admin |-> e, failed |-> FALSE]
<1>1. /\ TypeOK /\ Knows(r) /\ pc[r] = "advanceCredential" /\ saga' = [saga EXCEPT ![k] = s]
      /\ UNCHANGED <<org, cred, subs, inbox, users, orgId, form>>
  BY <1>0 DEF SagaInv, RequestKnows, AdvanceCredential, Advance, GoTo
<1>2. /\ form[r] \in Forms /\ form[r].key = k /\ e \in Emails
      /\ orgId[r] \in Slugs /\ orgId[r] # None /\ saga[k].org = orgId[r] /\ orgId[r] = form[r].slug
      /\ saga[k].state = "org_created" /\ cred[e] = orgId[r]
  BY <1>0, <1>1, FormTypes, NoneAssumption DEF Key, TypeOK, Knows
<1>3. /\ pc'[r] = "plan" /\ adminId'[r] = e
      /\ \A v \in Requests \ {r} : pc'[v] = pc[v] /\ adminId'[v] = adminId[v]
  BY <1>1 DEF AdvanceCredential, GoTo, TypeOK
<1>4. Stage(k) = 2 /\ saga[k].admin = None
  BY <1>2, ResumePlaces DEF Stage, StageOf, SagaInv, StateIsEarned
<1>5. /\ saga'[k].org = saga[k].org /\ saga'[k].admin = e /\ saga'[k].state = "credentials_created"
      /\ Stage(k)' = 3 /\ \A j \in Keys \ {k} : saga'[j] = saga[j]
  BY <1>1 DEF TypeOK, Stage, StageOf
<1>6. Knows(r)'
  BY <1>0, <1>1, <1>2, <1>3, <1>5 DEF Knows, Key
<1>7. ASSUME NEW v \in Requests \ {r} PROVE Knows(v)'
  <2>1. Knows(v)
    BY DEF SagaInv, RequestKnows
  <2>2. ~(pc[v] = "advanceCredential" /\ Key(v) = k)
    <3>1. ASSUME pc[v] = "advanceCredential", Key(v) = k PROVE FALSE
      BY <1>0, <1>1, <3>1, SameForm DEF SagaInv, SoleRecorder
    <3> QED
      BY <3>1
  <2>3. ~(pc[v] = "advancePlan" /\ Key(v) = k)
    BY <1>2, <2>1 DEF Knows
  <2> QED
    BY <1>1, <1>2, <1>3, <1>4, <1>5, <2>1, <2>2, <2>3, KeepsKnowingSaga DEF SagaInv
<1>8. SagaOfForm' /\ StateIsEarned' /\ NoOrphans' /\ OnlyWholeOrgsActive' /\ AdminIsReal'
  <2>1. \A f \in Forms : f.key = k => saga'[k].admin = f.email
    BY <1>2, <1>5 DEF OneFormPerKey
  <2> QED
    BY <1>1, <1>2, <1>4, <1>5, <2>1, SagaMoves
<1>9. SoleRecorder'
  BY <1>1, <1>3, SoleSame DEF SagaInv
<1> QED
  BY <1>6, <1>7, <1>8, <1>9 DEF SagaInv, RequestKnows

LEMMA AssignPlanInv ==
  ASSUME NEW r \in Requests, SagaInv, TypeOK', AssignPlan(r)
  PROVE  SagaInv'
<1>0. PICK k \in Keys : k = Key(r)
  BY FormTypes DEF SagaInv, AssignPlan
<1>1. /\ TypeOK /\ Knows(r) /\ pc[r] = "plan" /\ orgId[r] \notin subs
      /\ subs' = subs \cup {orgId[r]}
      /\ UNCHANGED <<saga, org, cred, inbox, users, orgId, adminId, form>>
  BY DEF SagaInv, RequestKnows, AssignPlan, GoTo
<1>2. /\ orgId[r] \in Slugs /\ orgId[r] # None /\ saga[k].org = orgId[r] /\ Stage(k) >= 3
      /\ saga[k].state \in States \cup {"none"} /\ Stage(k) \in 0..5
  BY <1>0, <1>1, NoneAssumption, StageValues DEF TypeOK, Knows
<1>3. /\ pc'[r] \in {"advancePlan", "fail"}
      /\ \A v \in Requests \ {r} : pc'[v] = pc[v]
  BY <1>1 DEF AssignPlan, GoTo, TypeOK
<1>4. saga[k].state = "credentials_created"
  <2>1. ~(Stage(k) >= 4)
    BY <1>1, <1>2 DEF SagaInv, StateIsEarned
  <2> QED
    BY <1>2, <2>1, StageValues
<1>5. Knows(r)'
  BY <1>0, <1>1, <1>2, <1>3, <1>4 DEF Knows, Key
<1>6. ASSUME NEW v \in Requests \ {r} PROVE Knows(v)'
  BY <1>1, <1>3, KeepsKnowing DEF SagaInv, RequestKnows
<1>7. SagaOfForm' /\ StateIsEarned'
  BY <1>1 DEF SagaInv, SagaOfForm, StateIsEarned, Stage
<1>8. NoOrphans' /\ OnlyWholeOrgsActive' /\ AdminIsReal'
  <2>1. org[orgId[r]] # "none"
    BY <1>2 DEF SagaInv, StateIsEarned
  <2> QED
    BY <1>1, <2>1 DEF SagaInv, NoOrphans, OnlyWholeOrgsActive, AdminIsReal
<1>9. SoleRecorder'
  <2>1. ASSUME NEW q \in Requests \ {r}, pc[q] = "advancePlan" PROVE orgId[q] # orgId[r]
    BY <1>1, <2>1 DEF SagaInv, RequestKnows, Knows
  <2> QED
    BY <1>1, <1>3, <2>1 DEF SagaInv, SoleRecorder
<1> QED
  BY <1>5, <1>6, <1>7, <1>8, <1>9 DEF SagaInv, RequestKnows

LEMMA AdvancePlanInv ==
  ASSUME OneFormPerKey, NEW r \in Requests, SagaInv, TypeOK', AdvancePlan(r)
  PROVE  SagaInv'
<1>0. PICK k \in Keys : k = Key(r)
  BY FormTypes DEF SagaInv, AdvancePlan
<1> DEFINE s == [state |-> "subscribed", org |-> saga[k].org, admin |-> saga[k].admin, failed |-> FALSE]
<1>1. /\ TypeOK /\ Knows(r) /\ pc[r] = "advancePlan" /\ saga' = [saga EXCEPT ![k] = s]
      /\ UNCHANGED <<org, cred, subs, inbox, users, orgId, adminId, form>>
  BY <1>0 DEF SagaInv, RequestKnows, AdvancePlan, Advance, GoTo
<1>2. /\ form[r] \in Forms /\ form[r].key = k
      /\ orgId[r] \in Slugs /\ orgId[r] # None /\ saga[k].org = orgId[r] /\ orgId[r] = form[r].slug
      /\ adminId[r] \in Emails /\ adminId[r] # None /\ saga[k].admin = adminId[r]
      /\ adminId[r] = form[r].email
      /\ saga[k].state = "credentials_created" /\ orgId[r] \in subs
  BY <1>0, <1>1, FormTypes, NoneAssumption DEF Key, TypeOK, Knows
<1>3. /\ pc'[r] = "complete"
      /\ \A v \in Requests \ {r} : pc'[v] = pc[v]
  BY <1>1 DEF AdvancePlan, GoTo, TypeOK
<1>4. Stage(k) = 3 /\ cred[saga[k].admin] = saga[k].org
  BY <1>2, ResumePlaces DEF Stage, StageOf, SagaInv, StateIsEarned
<1>5. /\ saga'[k].org = saga[k].org /\ saga'[k].admin = saga[k].admin /\ saga'[k].state = "subscribed"
      /\ Stage(k)' = 4 /\ \A j \in Keys \ {k} : saga'[j] = saga[j]
  BY <1>1 DEF TypeOK, Stage, StageOf
<1>6. Knows(r)'
  BY <1>0, <1>1, <1>2, <1>3, <1>5 DEF Knows, Key
<1>7. ASSUME NEW v \in Requests \ {r} PROVE Knows(v)'
  <2>1. Knows(v)
    BY DEF SagaInv, RequestKnows
  <2>2. ~(pc[v] = "advancePlan" /\ Key(v) = k)
    <3>1. ASSUME pc[v] = "advancePlan", Key(v) = k PROVE FALSE
      <4>1. form[v] = form[r] /\ orgId[v] \in Slugs /\ orgId[v] # None
        BY <1>0, <1>1, <3>1, SameForm, NoneAssumption DEF TypeOK
      <4>2. orgId[v] = orgId[r]
        BY <1>2, <2>1, <4>1 DEF Knows
      <4> QED
        BY <1>1, <3>1, <4>2 DEF SagaInv, SoleRecorder
    <3> QED
      BY <3>1
  <2>3. ~(pc[v] = "advanceCredential" /\ Key(v) = k)
    BY <1>2, <2>1 DEF Knows
  <2> QED
    BY <1>1, <1>2, <1>3, <1>4, <1>5, <2>1, <2>2, <2>3, KeepsKnowingSaga DEF SagaInv
<1>8. SagaOfForm' /\ StateIsEarned' /\ NoOrphans' /\ OnlyWholeOrgsActive' /\ AdminIsReal'
  <2>1. \A f \in Forms : f.key = k => saga'[k].admin = f.email
    BY <1>2, <1>5 DEF OneFormPerKey
  <2> QED
    BY <1>1, <1>2, <1>4, <1>5, <2>1, SagaMoves
<1>9. SoleRecorder'
  BY <1>1, <1>3, SoleSame DEF SagaInv
<1> QED
  BY <1>6, <1>7, <1>8, <1>9 DEF SagaInv, RequestKnows

LEMMA CompleteInv ==
  ASSUME OneFormPerKey, NEW r \in Requests, SagaInv, TypeOK', Complete(r)
  PROVE  SagaInv'
<1>0. PICK k \in Keys : k = Key(r)
  BY FormTypes DEF SagaInv, Complete
<1>1. /\ TypeOK /\ Knows(r) /\ pc[r] = "complete"
      /\ saga' = [saga EXCEPT ![k] = [state |-> "complete", org |-> saga[k].org,
                                      admin |-> saga[k].admin, failed |-> FALSE]]
      /\ org' = [org EXCEPT ![orgId[r]] = "active"]
      /\ UNCHANGED <<cred, subs, inbox, users, orgId, adminId, form>>
  BY <1>0 DEF SagaInv, RequestKnows, Complete, Advance, GoTo
<1>2. /\ form[r] \in Forms /\ form[r].key = k
      /\ orgId[r] \in Slugs /\ orgId[r] # None /\ saga[k].org = orgId[r]
      /\ adminId[r] \in Emails /\ adminId[r] # None /\ saga[k].admin = adminId[r]
      /\ adminId[r] = form[r].email
      /\ Stage(k) >= 4 /\ Stage(k) \in 0..5
  BY <1>0, <1>1, FormTypes, StageValues, NoneAssumption DEF Key, TypeOK, Knows
<1>3. /\ pc'[r] = "publish"
      /\ \A v \in Requests \ {r} : pc'[v] = pc[v]
  BY <1>1 DEF Complete, GoTo, TypeOK
<1>4. /\ cred[saga[k].admin] = saga[k].org /\ saga[k].org \in subs /\ org[saga[k].org] # "none"
      /\ ~(saga[k].state \in {"org_created", "credentials_created"})
  BY <1>2 DEF SagaInv, StateIsEarned, Stage, StageOf
<1>5. /\ saga'[k].org = saga[k].org /\ saga'[k].admin = saga[k].admin /\ saga'[k].state = "complete"
      /\ Stage(k)' = 5 /\ \A j \in Keys \ {k} : saga'[j] = saga[j]
  BY <1>1 DEF TypeOK, Stage, StageOf
<1>o. \A p \in Slugs : org'[p] = IF p = orgId[r] THEN "active" ELSE org[p]
  BY <1>1, <1>2 DEF TypeOK
<1>6. Knows(r)'
  BY <1>0, <1>1, <1>2, <1>3, <1>5 DEF Knows, Key
<1>7. ASSUME NEW v \in Requests \ {r} PROVE Knows(v)'
  <2>1. Knows(v)
    BY DEF SagaInv, RequestKnows
  <2>2. ~(pc[v] \in {"advanceCredential", "advancePlan"} /\ Key(v) = k)
    BY <1>4, <2>1 DEF Knows
  <2>3. Stage(k)' >= Stage(k)
    BY <1>2, <1>5
  <2> QED
    BY <1>1, <1>2, <1>3, <1>5, <2>1, <2>2, <2>3, KeepsKnowingSaga
<1>8. SagaOfForm' /\ StateIsEarned' /\ NoOrphans' /\ OnlyWholeOrgsActive' /\ AdminIsReal'
  <2>1. \A f \in Forms : f.key = k => saga'[k].admin = f.email
    BY <1>2, <1>5 DEF OneFormPerKey
  <2> QED
    BY <1>1, <1>2, <1>4, <1>5, <1>o, <2>1, SagaMoves
<1>9. SoleRecorder'
  BY <1>1, <1>3, SoleSame DEF SagaInv
<1> QED
  BY <1>6, <1>7, <1>8, <1>9 DEF SagaInv, RequestKnows

LEMMA PublishInv ==
  ASSUME NEW r \in Requests, SagaInv, TypeOK', Publish(r)
  PROVE  SagaInv'
<1>0. PICK k \in Keys : k = Key(r)
  BY FormTypes DEF SagaInv, Publish
<1>1. /\ TypeOK /\ Knows(r) /\ pc[r] = "publish" /\ GoTo(r, "respond")
      /\ inbox' \subseteq inbox \cup {<<orgId[r], adminId[r]>>}
      /\ UNCHANGED <<saga, org, cred, subs, users, orgId, adminId>>
  BY DEF SagaInv, RequestKnows, Publish, Provisioned
<1>2. cred[adminId[r]] = orgId[r]
  BY <1>0, <1>1, NoneAssumption DEF SagaInv, StateIsEarned, TypeOK, Knows
<1>3. /\ pc'[r] = "respond" /\ form' = form
      /\ \A v \in Requests \ {r} : pc'[v] = pc[v]
  BY <1>1 DEF TypeOK, GoTo
<1>4. Knows(r)'
  BY <1>1, <1>3 DEF Knows, Key, Stage
<1>5. RequestKnows'
  BY <1>1, <1>3, <1>4, KeepsKnowing DEF SagaInv, RequestKnows
<1>6. SoleRecorder'
  BY <1>1, <1>3, SoleSame DEF SagaInv
<1>7. SagaOfForm' /\ StateIsEarned' /\ NoOrphans' /\ OnlyWholeOrgsActive'
  BY <1>1 DEF SagaInv, SagaOfForm, StateIsEarned, Stage, NoOrphans, OnlyWholeOrgsActive
<1>8. AdminIsReal'
  BY <1>1, <1>2 DEF SagaInv, AdminIsReal
<1> QED
  BY <1>5, <1>6, <1>7, <1>8 DEF SagaInv

LEMMA MarkFailedInv ==
  ASSUME NEW r \in Requests, SagaInv, TypeOK', MarkFailed(r)
  PROVE  SagaInv'
<1>0. PICK k \in Keys : k = Key(r)
  BY FormTypes DEF SagaInv, MarkFailed
<1>1. /\ TypeOK /\ Knows(r) /\ pc[r] = "fail" /\ Answer(r)
      /\ saga' = [saga EXCEPT ![k].failed = TRUE]
      /\ org' = [p \in Slugs |-> IF p = orgId[r] THEN "provisioning_failed" ELSE org[p]]
      /\ UNCHANGED <<cred, subs, inbox, users>>
  BY <1>0 DEF SagaInv, RequestKnows, MarkFailed
<1>2. ASSUME NEW j \in Keys
      PROVE  /\ saga'[j].state = saga[j].state /\ saga'[j].org = saga[j].org
             /\ saga'[j].admin = saga[j].admin /\ Stage(j)' = Stage(j)
             /\ j # k => saga'[j] = saga[j]
  BY <1>1 DEF TypeOK, Stage
<1>3. Stage(k) \in 0..5 /\ saga[k].state # "none"
  BY <1>0, <1>1, StageValues DEF TypeOK, Knows
<1>4. orgId[r] \in Slugs => org[orgId[r]] # "none"
  BY <1>0, <1>1, NoneAssumption DEF SagaInv, StateIsEarned, Knows
<1>5. ASSUME NEW p \in Slugs
      PROVE  /\ org[p] # "none" <=> org'[p] # "none"
             /\ org'[p] = "active" => org[p] = "active"
  BY <1>1, <1>4
<1>6. RequestKnows'
  <2>1. ASSUME NEW v \in Requests \ {r} PROVE Knows(v)'
    <3>1. Knows(v)
      BY DEF SagaInv, RequestKnows
    <3>2. Stage(k)' >= Stage(k) /\ saga'[k].state # "none" /\ saga'[k].state = saga[k].state
          /\ saga'[k].org = saga[k].org /\ saga'[k].admin = saga[k].admin
          /\ \A j \in Keys \ {k} : saga'[j] = saga[j]
      BY <1>2, <1>3
    <3>3. /\ pc[v] = "advanceCredential" /\ Key(v) = k => saga'[k].state = "org_created"
          /\ pc[v] = "advancePlan" /\ Key(v) = k => saga'[k].state = "credentials_created"
      BY <3>1, <3>2 DEF Knows
    <3> QED
      BY <1>1, <3>1, <3>2, <3>3, AnswerKnows, KeepsKnowingSaga
  <2> QED
    BY <1>1, <2>1, AnswerKnows DEF RequestKnows
<1>7. SagaOfForm'
  BY <1>2, FormsAssumption DEF SagaInv, SagaOfForm
<1>8. StateIsEarned'
  <2>1. ASSUME NEW j \in Keys, Stage(j)' >= 2 PROVE org'[saga'[j].org] # "none"
    <3>1. saga[j].org \in Slugs /\ org[saga[j].org] # "none"
      BY <1>1, <1>2, <2>1 DEF SagaInv, StateIsEarned, TypeOK
    <3> QED
      BY <1>2, <1>5, <3>1
  <2> QED
    BY <1>1, <1>2, <2>1 DEF SagaInv, StateIsEarned
<1>9. NoOrphans'
  <2>1. \A e \in Emails : cred[e] # None => cred[e] \in Slugs
    BY <1>1 DEF TypeOK
  <2>2. subs \subseteq Slugs
    BY <1>1 DEF TypeOK
  <2> QED
    BY <1>1, <1>2, <1>5, <2>1, <2>2 DEF SagaInv, NoOrphans
<1>10. OnlyWholeOrgsActive'
  BY <1>1, <1>2, <1>5 DEF SagaInv, OnlyWholeOrgsActive
<1>11. AdminIsReal'
  BY <1>1 DEF SagaInv, AdminIsReal
<1>12. SoleRecorder'
  BY <1>1, AnswerKnows, SoleSame DEF SagaInv
<1> QED
  BY <1>6, <1>7, <1>8, <1>9, <1>10, <1>11, <1>12 DEF SagaInv

LEMMA ConsumeInv ==
  ASSUME NEW m \in inbox, SagaInv, TypeOK', ConsumeProvisioned(m)
  PROVE  SagaInv'
<1>1. UNCHANGED <<saga, org, cred, subs, pc, form, orgId, adminId>>
  BY DEF ConsumeProvisioned, local
<1>2. RequestKnows' /\ SoleRecorder'
  BY <1>1 DEF SagaInv, RequestKnows, Knows, Key, Stage, SoleRecorder
<1>3. SagaOfForm' /\ StateIsEarned' /\ NoOrphans' /\ OnlyWholeOrgsActive'
  BY <1>1 DEF SagaInv, SagaOfForm, StateIsEarned, Stage, NoOrphans, OnlyWholeOrgsActive
<1>4. AdminIsReal'
  BY DEF SagaInv, AdminIsReal, ConsumeProvisioned
<1> QED
  BY <1>2, <1>3, <1>4 DEF SagaInv

LEMMA SagaStep ==
  ASSUME OneFormPerKey, SagaInv, [Next]_vars
  PROVE  SagaInv'
<1>1. TypeOK'
  BY EarnedBacked, TypeStep DEF SagaInv
<1>2. ASSUME NEW r \in Requests,
             (\E f \in Forms : Submit(r, f)) \/ Proceed(r) \/ StepFails(r) \/ Escapes(r) \/ Crash(r)
      PROVE  SagaInv'
  BY <1>1, <1>2, LocalActions, InsertSagaInv, CreateOrganizationInv, CreateCredentialInv,
     AdvanceCredentialInv, AssignPlanInv, AdvancePlanInv, CompleteInv, PublishInv, MarkFailedInv
  DEF Proceed
<1>3. ASSUME NEW m \in inbox, ConsumeProvisioned(m) PROVE SagaInv'
  BY <1>1, <1>3, ConsumeInv
<1>4. CASE UNCHANGED vars
  <2>1. UNCHANGED <<saga, org, cred, subs, inbox, users, pc, form, orgId, adminId>>
    BY <1>4 DEF vars
  <2>2. RequestKnows' /\ SoleRecorder'
    BY <2>1 DEF SagaInv, RequestKnows, Knows, Key, Stage, SoleRecorder
  <2> QED
    BY <1>1, <2>1, <2>2, WorldSame DEF SagaInv
<1> QED
  BY <1>2, <1>3, <1>4 DEF Next
-----------------------------------------------------------------------------
(* The theorems *)

\* The invariant behind the others.
THEOREM SagaInvariant == OneFormPerKey => (Spec => []SagaInv)
<1> SUFFICES ASSUME OneFormPerKey PROVE Spec => []SagaInv
  OBVIOUS
<1>1. Init => SagaInv
  BY InvInit
<1>2. SagaInv /\ [Next]_vars => SagaInv'
  BY SagaStep
<1> QED
  BY <1>1, <1>2, PTL DEF Spec

\* "state ALWAYS holds the last step that actually succeeded": whatever requests, retries, lost
\* answers and crashes do, what a saga's state says was done is there in the other services.
THEOREM StateAlwaysEarned == OneFormPerKey => (Spec => []StateIsEarned)
<1>1. SagaInv => StateIsEarned
  BY DEF SagaInv
<1> QED
  BY <1>1, SagaInvariant, PTL

\* No organisation is active before its administrator and its plan are there.
THEOREM OnlyWholeOrgsEverActive == OneFormPerKey => (Spec => []OnlyWholeOrgsActive)
<1>1. SagaInv => OnlyWholeOrgsActive
  BY DEF SagaInv
<1> QED
  BY <1>1, SagaInvariant, PTL

\* The first user of an organisation has the id of its credential.
THEOREM AdminAlwaysReal == OneFormPerKey => (Spec => []AdminIsReal)
<1>1. SagaInv => AdminIsReal
  BY DEF SagaInv
<1> QED
  BY <1>1, SagaInvariant, PTL
-----------------------------------------------------------------------------
(* Whatever forms are submitted: nothing refers to what does not exist      *)

LEMMA FootingInit == Init => FootingInv
<1> SUFFICES ASSUME Init PROVE FootingInv
  OBVIOUS
<1>1. TypeOK
  BY InvInit DEF SagaInv
<1>2. SagaBacked
  BY DEF Init, SagaBacked, Stage, StageOf, NoSaga
<1>3. NothingDangles
  BY DEF Init, NothingDangles, NoSaga
<1>4. \A r \in Requests : Backed(r)
  <2>1. \A r \in Requests : pc[r] = "idle" /\ orgId[r] = None /\ adminId[r] = None
    BY DEF Init
  <2> QED
    BY <2>1 DEF Backed
<1> QED
  BY <1>1, <1>2, <1>3, <1>4 DEF FootingInv

\* What exists goes on existing, and what a saga knows it does not forget.
Grows ==
  /\ \A s \in Slugs : org[s] # "none" => org'[s] # "none"
  /\ \A e \in Emails : cred[e] # None => cred'[e] # None
  /\ \A k \in Keys : /\ saga[k].state # "none" => saga'[k].state # "none"
                     /\ saga[k].org # None => saga'[k].org # None
                     /\ saga[k].admin # None => saga'[k].admin # None

\* The requests that do not make the step stay as they are.
OthersStand(r) == \A v \in Requests \ {r} : /\ pc'[v] = pc[v] /\ form'[v] = form[v]
                                          /\ orgId'[v] = orgId[v] /\ adminId'[v] = adminId[v]

LEMMA KeepsBacked ==
  ASSUME NEW v \in Requests, TypeOK, Backed(v), Grows,
         pc'[v] = pc[v], form'[v] = form[v], orgId'[v] = orgId[v], adminId'[v] = adminId[v]
  PROVE  Backed(v)'
<1>1. CASE pc[v] = "idle"
  BY <1>1 DEF Backed, Grows, TypeOK
<1>2. CASE pc[v] # "idle"
  <2>1. Key(v) \in Keys /\ form[v].email \in Emails /\ Key(v)' = Key(v)
    BY <1>2, FormTypes DEF Key
  <2> QED
    BY <2>1 DEF Backed, Grows, TypeOK
<1> QED
  BY <1>1, <1>2

LEMMA FootingGrows ==
  ASSUME NEW r \in Requests, FootingInv, TypeOK', Grows, OthersStand(r), Backed(r)',
         SagaBacked', NothingDangles'
  PROVE  FootingInv'
<1>1. ASSUME NEW v \in Requests \ {r} PROVE Backed(v)'
  BY <1>1, KeepsBacked DEF FootingInv, OthersStand
<1> QED
  BY <1>1 DEF FootingInv

\* A step that writes at most an event, about what exists.
LEMMA FootingStays ==
  ASSUME NEW r \in Requests, FootingInv, TypeOK', UNCHANGED <<saga, org, cred, subs>>,
         OthersStand(r), Backed(r)',
         \A m \in inbox' \cup unsent' \cup users' : org[m[1]] # "none" /\ cred[m[2]] # None
  PROVE  FootingInv'
<1>1. Grows
  BY DEF Grows
<1>2. SagaBacked'
  BY DEF FootingInv, SagaBacked, Stage
<1>3. NothingDangles'
  BY DEF FootingInv, NothingDangles
<1> QED
  BY <1>1, <1>2, <1>3, FootingGrows

LEMMA AnswerBacked ==
  ASSUME NEW r \in Requests, TypeOK, Answer(r)
  PROVE  Backed(r)' /\ OthersStand(r)
  BY DEF TypeOK, Answer, Backed, OthersStand

LEMMA GoToStands ==
  ASSUME NEW r \in Requests, NEW p, TypeOK, GoTo(r, p),
         \A v \in Requests \ {r} : orgId'[v] = orgId[v] /\ adminId'[v] = adminId[v]
  PROVE  pc'[r] = p /\ form'[r] = form[r] /\ OthersStand(r)
  BY DEF TypeOK, GoTo, OthersStand

LEMMA FootingLocal ==
  ASSUME NEW r \in Requests, FootingInv, TypeOK',
         \/ \E f \in Forms : Submit(r, f)
         \/ Claim(r) \/ ReadSaga(r) \/ InsertSagaConflict(r) \/ SlugTaken(r)
         \/ EmailTaken(r) \/ PlanAssigned(r) \/ Publish(r) \/ Respond(r)
         \/ StepFails(r) \/ Escapes(r) \/ Crash(r)
  PROVE  FootingInv'
<1>0. /\ TypeOK /\ Backed(r)
      /\ \A m \in inbox \cup unsent \cup users : org[m[1]] # "none" /\ cred[m[2]] # None
  BY DEF FootingInv, NothingDangles
<1>1. ASSUME NEW f \in Forms, Submit(r, f) PROVE FootingInv'
  <2>1. Backed(r)' /\ OthersStand(r)
    BY <1>0, <1>1 DEF Submit, TypeOK, Backed, OthersStand, world
  <2> QED
    BY <1>0, <1>1, <2>1, FootingStays DEF Submit, world
<1>2. CASE Answer(r) /\ UNCHANGED world
  BY <1>0, <1>2, AnswerBacked, FootingStays DEF world
<1>3. CASE Claim(r) /\ GoTo(r, "read") /\ UNCHANGED <<world, orgId, adminId>>
  <2>1. pc'[r] = "read" /\ OthersStand(r)
    BY <1>0, <1>3, GoToStands
  <2>2. Backed(r)'
    BY <1>0, <1>3, <2>1 DEF Backed, world
  <2> QED
    BY <1>0, <1>3, <2>1, <2>2, FootingStays DEF world
<1>4. CASE ReadSaga(r) /\ ~Answer(r)
  <2>0. Key(r) \in Keys /\ UNCHANGED world
    BY <1>0, <1>4, FormTypes DEF ReadSaga
  <2>1. CASE GoTo(r, "insert") /\ UNCHANGED <<orgId, adminId>>
    <3>1. pc'[r] = "insert" /\ OthersStand(r)
      BY <1>0, <2>1, GoToStands
    <3>2. Backed(r)'
      BY <1>0, <2>0, <2>1, <3>1 DEF Backed, world
    <3> QED
      BY <1>0, <2>0, <3>1, <3>2, FootingStays DEF world
  <2>2. CASE /\ saga[Key(r)].state \in DOMAIN ResumeAt
             /\ GoTo(r, ResumeAt[saga[Key(r)].state])
             /\ orgId' = [orgId EXCEPT ![r] = saga[Key(r)].org]
             /\ adminId' = [adminId EXCEPT ![r] = saga[Key(r)].admin]
    <3>1. /\ orgId'[r] = saga[Key(r)].org /\ adminId'[r] = saga[Key(r)].admin
          /\ \A v \in Requests \ {r} : orgId'[v] = orgId[v] /\ adminId'[v] = adminId[v]
      BY <1>0, <2>2 DEF TypeOK
    <3>2. pc'[r] = ResumeAt[saga[Key(r)].state] /\ form'[r] = form[r] /\ OthersStand(r)
      BY <1>0, <2>2, <3>1, GoToStands
    <3>3. /\ pc'[r] \in {"org", "credential", "plan", "complete"}
          /\ saga[Key(r)].state # "none"
          /\ pc'[r] # "org" => Stage(Key(r)) >= 2
          /\ pc'[r] \in {"plan", "complete"} => Stage(Key(r)) >= 3
      BY <2>2, <3>2, ResumePlaces DEF ResumeAt, Stage, StageOf
    <3>4. Backed(r)'
      BY <2>0, <3>1, <3>2, <3>3 DEF FootingInv, SagaBacked, NothingDangles, Backed, Key, world
    <3> QED
      BY <1>0, <2>0, <3>2, <3>4, FootingStays DEF world
  <2> QED
    BY <1>4, <2>1, <2>2 DEF ReadSaga
<1>5. CASE EmailTaken(r) \/ PlanAssigned(r) \/ StepFails(r)
  <2>1. /\ pc[r] \in {"org", "credential", "advanceCredential", "plan", "advancePlan", "complete",
                    "respond"}
        /\ GoTo(r, "fail") /\ UNCHANGED <<world, orgId, adminId>>
    BY <1>5 DEF EmailTaken, PlanAssigned, StepFails
  <2>2. pc'[r] = "fail" /\ form'[r] = form[r] /\ OthersStand(r)
    BY <1>0, <2>1, GoToStands
  <2>3. saga[Key(r)].state # "none"
    BY <1>0, <2>1 DEF Backed
  <2>4. Backed(r)'
    BY <1>0, <2>1, <2>2, <2>3 DEF Backed, Key, world
  <2> QED
    BY <1>0, <2>1, <2>2, <2>4, FootingStays DEF world
<1>6. CASE Publish(r)
  <2>1. /\ pc[r] = "publish" /\ GoTo(r, "respond")
        /\ UNCHANGED <<saga, org, cred, subs, users, orgId, adminId>>
        /\ inbox' \cup unsent' \subseteq inbox \cup unsent \cup {<<orgId[r], adminId[r]>>}
    BY <1>6 DEF Publish, Provisioned
  <2>2. pc'[r] = "respond" /\ form'[r] = form[r] /\ OthersStand(r)
    BY <1>0, <2>1, GoToStands
  <2>3. org[orgId[r]] # "none" /\ cred[adminId[r]] # None
    BY <1>0, <2>1, NoneAssumption DEF Backed, TypeOK
  <2>4. Backed(r)'
    BY <1>0, <2>1, <2>2 DEF Backed, Key
  <2> QED
    BY <1>0, <2>1, <2>2, <2>3, <2>4, FootingStays
<1>7. CASE Crash(r)
  <2>1. /\ Answer(r) /\ UNCHANGED <<saga, org, cred, subs, inbox, users>>
        /\ unsent' = IF pc[r] = "publish" THEN unsent \cup {<<orgId[r], adminId[r]>>} ELSE unsent
    BY <1>7 DEF Crash, Provisioned
  <2>2. pc[r] = "publish" => org[orgId[r]] # "none" /\ cred[adminId[r]] # None
    BY <1>0, NoneAssumption DEF Backed, TypeOK
  <2>3. \A m \in inbox' \cup unsent' \cup users' : org[m[1]] # "none" /\ cred[m[2]] # None
    BY <1>0, <2>1, <2>2
  <2> QED
    BY <1>0, <2>1, <2>3, AnswerBacked, FootingStays
<1> QED
  BY <1>1, <1>2, <1>3, <1>4, <1>5, <1>6, <1>7
  DEF Claim, ReadSaga, InsertSagaConflict, SlugTaken, Respond, Escapes

\* A saga row is written for one key.
LEMMA SagaWritten ==
  ASSUME NEW k \in Keys, TypeOK, NEW st, NEW o, NEW a, NEW b,
         saga' = [saga EXCEPT ![k] = [state |-> st, org |-> o, admin |-> a, failed |-> b]]
  PROVE  /\ saga'[k].state = st /\ saga'[k].org = o /\ saga'[k].admin = a
         /\ \A j \in Keys \ {k} : saga'[j] = saga[j] /\ Stage(j)' = Stage(j)
         /\ Stage(k)' = StageOf[st]
  BY DEF TypeOK, Stage

LEMMA FootingInsertSaga ==
  ASSUME NEW r \in Requests, FootingInv, TypeOK', InsertSaga(r)
  PROVE  FootingInv'
<1>1. /\ TypeOK /\ Backed(r) /\ SagaBacked /\ NothingDangles
      /\ pc[r] = "insert" /\ GoTo(r, "org") /\ UNCHANGED <<orgId, adminId>>
      /\ UNCHANGED <<org, cred, subs, inbox, unsent, users>>
  BY DEF FootingInv, InsertSaga
<1>2. PICK k \in Keys : k = Key(r)
  BY <1>1, FormTypes
<1>3. /\ saga[k].state = "none"
      /\ saga' = [saga EXCEPT ![k] = [NoSaga EXCEPT !.state = "pending"]]
  BY <1>2 DEF InsertSaga
<1>4. saga[k].org = None /\ saga[k].admin = None
  BY <1>1, <1>3 DEF SagaBacked, Stage, StageOf
<1>5. /\ saga'[k].state = "pending" /\ saga'[k].org = None /\ saga'[k].admin = None
      /\ \A j \in Keys \ {k} : saga'[j] = saga[j] /\ Stage(j)' = Stage(j)
      /\ Stage(k)' = 1
  BY <1>1, <1>3 DEF TypeOK, NoSaga, Stage, StageOf
<1>6. Grows
  BY <1>1, <1>3, <1>4, <1>5 DEF Grows
<1>7. pc'[r] = "org" /\ form'[r] = form[r] /\ OthersStand(r)
  BY <1>1, GoToStands
<1>8. Backed(r)'
  BY <1>1, <1>2, <1>5, <1>7 DEF Backed, Key
<1>9. SagaBacked'
  BY <1>1, <1>5 DEF SagaBacked
<1>10. NothingDangles'
  <2>1. \A j \in Keys : saga'[j].org = saga[j].org /\ saga'[j].admin = saga[j].admin
    BY <1>4, <1>5
  <2> QED
    BY <1>1, <2>1 DEF NothingDangles
<1> QED
  BY <1>6, <1>7, <1>8, <1>9, <1>10, FootingGrows

LEMMA FootingCreateOrganization ==
  ASSUME NEW r \in Requests, FootingInv, TypeOK', CreateOrganization(r)
  PROVE  FootingInv'
<1>1. /\ TypeOK /\ Backed(r) /\ SagaBacked /\ NothingDangles
      /\ pc[r] = "org" /\ GoTo(r, "credential") /\ UNCHANGED adminId
      /\ UNCHANGED <<cred, subs, inbox, unsent, users>>
  BY DEF FootingInv, CreateOrganization
<1>2. PICK k \in Keys : k = Key(r)
  BY <1>1, FormTypes
<1>o. PICK o \in Slugs : o = form[r].slug /\ o # None
  BY <1>1, FormTypes
<1>3. /\ org[o] = "none" /\ org' = [org EXCEPT ![o] = "provisioning"]
      /\ orgId' = [orgId EXCEPT ![r] = o]
      /\ saga' = [saga EXCEPT ![k] = [state |-> "org_created", org |-> o,
                                      admin |-> saga[k].admin, failed |-> FALSE]]
  BY <1>2, <1>o DEF CreateOrganization, Advance
<1>4. /\ org'[o] = "provisioning" /\ \A s \in Slugs \ {o} : org'[s] = org[s]
      /\ orgId'[r] = o /\ \A v \in Requests \ {r} : orgId'[v] = orgId[v] /\ adminId'[v] = adminId[v]
  BY <1>1, <1>3 DEF TypeOK
<1>5. /\ saga'[k].state = "org_created" /\ saga'[k].org = o /\ saga'[k].admin = saga[k].admin
      /\ \A j \in Keys \ {k} : saga'[j] = saga[j] /\ Stage(j)' = Stage(j)
      /\ Stage(k)' = 2
  BY <1>1, <1>3 DEF TypeOK, Stage, StageOf
<1>6. \A s \in Slugs : org[s] # "none" => org'[s] # "none"
  BY <1>3, <1>4
<1>7. Grows
  BY <1>1, <1>5, <1>6, <1>o DEF Grows
<1>8. pc'[r] = "credential" /\ form'[r] = form[r] /\ OthersStand(r)
  BY <1>1, <1>4, GoToStands
<1>9. Backed(r)'
  BY <1>1, <1>2, <1>4, <1>5, <1>8, <1>o DEF Backed, Key
<1>10. SagaBacked'
  BY <1>1, <1>5, <1>o DEF SagaBacked
<1>11. NothingDangles'
  <2>1. \A j \in Keys \ {k} : saga[j].org # o
    BY <1>1, <1>3, <1>o DEF NothingDangles
  <2>2. ASSUME NEW j \in Keys
        PROVE  /\ saga'[j].org # None => org'[saga'[j].org] # "none"
               /\ saga'[j].admin # None => cred[saga'[j].admin] # None
    <3>1. CASE j = k
      BY <1>1, <1>4, <1>5, <3>1 DEF NothingDangles
    <3>2. CASE j # k
      BY <1>1, <1>5, <1>6, <3>2 DEF NothingDangles, TypeOK
    <3> QED
      BY <3>1, <3>2
  <2>3. ASSUME NEW i \in Keys, NEW j \in Keys, saga'[i].org # None, saga'[i].org = saga'[j].org
        PROVE  i = j
    BY <1>1, <1>5, <2>1, <2>3 DEF NothingDangles
  <2>4. /\ \A e \in Emails : cred[e] # None => cred[e] \in Slugs
        /\ \A m \in inbox \cup unsent \cup users : m[1] \in Slugs
        /\ subs \subseteq Slugs
    BY <1>1 DEF TypeOK
  <2> QED
    BY <1>1, <1>6, <2>2, <2>3, <2>4 DEF NothingDangles
<1> QED
  BY <1>7, <1>8, <1>9, <1>10, <1>11, FootingGrows

LEMMA FootingCreateCredential ==
  ASSUME NEW r \in Requests, FootingInv, TypeOK', CreateCredential(r)
  PROVE  FootingInv'
<1>1. /\ TypeOK /\ Backed(r) /\ SagaBacked /\ NothingDangles
      /\ pc[r] = "credential" /\ (GoTo(r, "advanceCredential") \/ GoTo(r, "fail"))
      /\ UNCHANGED <<saga, org, subs, inbox, unsent, users, orgId, adminId>>
  BY DEF FootingInv, CreateCredential
<1>2. PICK e \in Emails : e = form[r].email
  BY <1>1, FormTypes
<1>3. /\ orgId[r] \in Slugs /\ orgId[r] # None /\ org[orgId[r]] # "none"
      /\ cred[e] = None /\ cred' = [cred EXCEPT ![e] = orgId[r]]
  BY <1>1, <1>2, NoneAssumption DEF CreateCredential, Backed, TypeOK
<1>4. cred'[e] = orgId[r] /\ \A d \in Emails \ {e} : cred'[d] = cred[d]
  BY <1>1, <1>3 DEF TypeOK
<1>5. Grows
  BY <1>1, <1>3, <1>4 DEF Grows
<1>6. pc'[r] \in {"advanceCredential", "fail"} /\ form'[r] = form[r] /\ OthersStand(r)
  BY <1>1, GoToStands
<1>7. Backed(r)'
  BY <1>1, <1>2, <1>3, <1>4, <1>5, <1>6 DEF Backed, Key, TypeOK, Grows
<1>8. SagaBacked'
  BY <1>1 DEF SagaBacked, Stage
<1>9. NothingDangles'
  <2>1. \A d \in Emails : cred'[d] # None => org[cred'[d]] # "none"
    BY <1>1, <1>3, <1>4 DEF NothingDangles
  <2>2. \A d \in Emails : cred[d] # None => cred'[d] # None
    BY <1>3, <1>4
  <2>3. /\ \A k \in Keys : saga[k].admin # None => saga[k].admin \in Emails
        /\ \A m \in inbox \cup unsent \cup users : m[2] \in Emails
    BY <1>1 DEF TypeOK
  <2> QED
    BY <1>1, <2>1, <2>2, <2>3 DEF NothingDangles
<1> QED
  BY <1>5, <1>6, <1>7, <1>8, <1>9, FootingGrows

\* The three steps that record what has been done, or that all has been done.
LEMMA FootingAdvances ==
  ASSUME NEW r \in Requests, FootingInv, TypeOK',
         AdvanceCredential(r) \/ AdvancePlan(r) \/ Complete(r)
  PROVE  FootingInv'
<1>1. /\ TypeOK /\ Backed(r) /\ SagaBacked /\ NothingDangles
      /\ pc[r] \in {"advanceCredential", "advancePlan", "complete"}
      /\ UNCHANGED <<cred, subs, inbox, unsent, users, orgId>>
  BY DEF FootingInv, AdvanceCredential, AdvancePlan, Complete
<1>2. PICK k \in Keys : k = Key(r)
  BY <1>1, FormTypes
<1>3. PICK st \in {"credentials_created", "subscribed", "complete"}, a \in Emails :
        /\ saga' = [saga EXCEPT ![k] = [state |-> st, org |-> saga[k].org, admin |-> a,
                                        failed |-> FALSE]]
        /\ cred[a] # None /\ a # None
        /\ adminId'[r] = adminId[r] \/ adminId'[r] = a
        /\ \A v \in Requests \ {r} : adminId'[v] = adminId[v]
        /\ \E p \in {"plan", "complete", "publish"} : GoTo(r, p)
  <2>1. CASE AdvanceCredential(r)
    <3>1. form[r].email \in Emails /\ form[r].email # None /\ cred[form[r].email] # None
      BY <1>1, <2>1, FormTypes DEF AdvanceCredential, Backed
    <3>2. adminId'[r] = form[r].email /\ \A v \in Requests \ {r} : adminId'[v] = adminId[v]
      BY <1>1, <2>1, <3>1 DEF AdvanceCredential, TypeOK
    <3> QED
      BY <1>2, <2>1, <3>1, <3>2 DEF AdvanceCredential, Advance
  <2>2. CASE AdvancePlan(r) \/ Complete(r)
    <3>1. saga[k].admin \in Emails /\ saga[k].admin # None /\ cred[saga[k].admin] # None
      BY <1>1, <1>2, <2>2 DEF AdvancePlan, Complete, Backed, TypeOK, NothingDangles
    <3> QED
      BY <1>2, <2>2, <3>1 DEF AdvancePlan, Complete, Advance
  <2> QED
    BY <2>1, <2>2
<1>4. /\ saga'[k].state = st /\ saga'[k].org = saga[k].org /\ saga'[k].admin = a
      /\ \A j \in Keys \ {k} : saga'[j] = saga[j] /\ Stage(j)' = Stage(j)
      /\ Stage(k)' = StageOf[st]
  BY <1>1, <1>3, SagaWritten
<1>5. saga[k].org # None
  BY <1>1, <1>2 DEF Backed
<1>6. \A s \in Slugs : org[s] # "none" => org'[s] # "none"
  BY <1>1 DEF AdvanceCredential, AdvancePlan, Complete, TypeOK
<1>7. Grows
  BY <1>1, <1>3, <1>4, <1>6 DEF Grows
<1>8. pc'[r] \in {"plan", "complete", "publish"} /\ form'[r] = form[r] /\ OthersStand(r)
  BY <1>1, <1>3, GoToStands
<1>9. Backed(r)'
  <2>1. orgId'[r] # None => org'[orgId'[r]] # "none"
    BY <1>1, <1>6 DEF Backed, TypeOK
  <2>2. adminId'[r] # None => cred'[adminId'[r]] # None
    BY <1>1, <1>3 DEF Backed
  <2> QED
    BY <1>2, <1>3, <1>4, <1>5, <1>8, <2>1, <2>2 DEF Backed, Key
<1>10. SagaBacked'
  BY <1>1, <1>3, <1>4, <1>5 DEF SagaBacked, StageOf
<1>11. NothingDangles'
  <2>1. /\ \A e \in Emails : cred[e] # None => cred[e] \in Slugs
        /\ \A m \in inbox \cup unsent \cup users : m[1] \in Slugs
        /\ subs \subseteq Slugs
        /\ \A j \in Keys : saga[j].org # None => saga[j].org \in Slugs
    BY <1>1 DEF TypeOK
  <2>2. \A j \in Keys : /\ saga'[j].org = saga[j].org
                        /\ saga'[j].admin # None => cred[saga'[j].admin] # None
    BY <1>1, <1>3, <1>4 DEF NothingDangles
  <2> QED
    BY <1>1, <1>6, <2>1, <2>2 DEF NothingDangles
<1> QED
  BY <1>7, <1>8, <1>9, <1>10, <1>11, FootingGrows

LEMMA FootingAssignPlan ==
  ASSUME NEW r \in Requests, FootingInv, TypeOK', AssignPlan(r)
  PROVE  FootingInv'
<1>1. /\ TypeOK /\ Backed(r) /\ SagaBacked /\ NothingDangles
      /\ pc[r] = "plan" /\ (GoTo(r, "advancePlan") \/ GoTo(r, "fail"))
      /\ UNCHANGED <<saga, org, cred, inbox, unsent, users, orgId, adminId>>
      /\ subs' = subs \cup {orgId[r]}
  BY DEF FootingInv, AssignPlan
<1>2. orgId[r] \in Slugs /\ org[orgId[r]] # "none"
  BY <1>1, NoneAssumption DEF Backed, TypeOK
<1>3. Grows
  BY <1>1 DEF Grows
<1>4. pc'[r] \in {"advancePlan", "fail"} /\ form'[r] = form[r] /\ OthersStand(r)
  BY <1>1, GoToStands
<1>5. Backed(r)'
  BY <1>1, <1>4 DEF Backed, Key
<1>6. SagaBacked'
  BY <1>1 DEF SagaBacked, Stage
<1>7. NothingDangles'
  BY <1>1, <1>2 DEF NothingDangles
<1> QED
  BY <1>3, <1>4, <1>5, <1>6, <1>7, FootingGrows

LEMMA FootingMarkFailed ==
  ASSUME NEW r \in Requests, FootingInv, TypeOK', MarkFailed(r)
  PROVE  FootingInv'
<1>1. /\ TypeOK /\ SagaBacked /\ NothingDangles
      /\ pc[r] = "fail" /\ Answer(r)
      /\ org' = [s \in Slugs |-> IF s = orgId[r] THEN "provisioning_failed" ELSE org[s]]
      /\ UNCHANGED <<cred, subs, inbox, unsent, users>>
  BY DEF FootingInv, MarkFailed
<1>2. PICK k \in Keys : k = Key(r)
  BY <1>1, FormTypes
<1>3. \A j \in Keys : /\ saga'[j].state = saga[j].state /\ saga'[j].org = saga[j].org
                      /\ saga'[j].admin = saga[j].admin /\ Stage(j)' = Stage(j)
  BY <1>1, <1>2 DEF MarkFailed, TypeOK, Stage
<1>4. \A s \in Slugs : org[s] # "none" => org'[s] # "none"
  BY <1>1
<1>5. Grows
  BY <1>1, <1>3, <1>4 DEF Grows
<1>6. Backed(r)' /\ OthersStand(r)
  BY <1>1, AnswerBacked
<1>7. SagaBacked'
  BY <1>1, <1>3 DEF SagaBacked
<1>8. NothingDangles'
  <2>1. /\ \A e \in Emails : cred[e] # None => cred[e] \in Slugs
        /\ \A m \in inbox \cup unsent \cup users : m[1] \in Slugs
        /\ subs \subseteq Slugs
        /\ \A j \in Keys : saga[j].org # None => saga[j].org \in Slugs
    BY <1>1 DEF TypeOK
  <2> QED
    BY <1>1, <1>3, <1>4, <2>1 DEF NothingDangles
<1> QED
  BY <1>5, <1>6, <1>7, <1>8, FootingGrows

LEMMA FootingConsume ==
  ASSUME NEW m \in inbox, FootingInv, TypeOK', ConsumeProvisioned(m)
  PROVE  FootingInv'
<1>1. /\ UNCHANGED <<saga, org, cred, subs, unsent, pc, form, orgId, adminId>>
      /\ inbox' \cup unsent' \cup users' \subseteq inbox \cup unsent \cup users
  BY DEF ConsumeProvisioned, local
<1>2. \A r \in Requests : Backed(r)'
  BY <1>1 DEF FootingInv, Backed, Key
<1>3. SagaBacked'
  BY <1>1 DEF FootingInv, SagaBacked, Stage
<1>4. NothingDangles'
  BY <1>1 DEF FootingInv, NothingDangles
<1> QED
  BY <1>2, <1>3, <1>4 DEF FootingInv

LEMMA FootingStep ==
  ASSUME FootingInv, [Next]_vars
  PROVE  FootingInv'
<1>1. TypeOK'
  BY TypeStep DEF FootingInv
<1>2. ASSUME NEW r \in Requests,
             (\E f \in Forms : Submit(r, f)) \/ Proceed(r) \/ StepFails(r) \/ Escapes(r) \/ Crash(r)
      PROVE  FootingInv'
  BY <1>1, <1>2, FootingLocal, FootingInsertSaga, FootingCreateOrganization, FootingCreateCredential,
     FootingAdvances, FootingAssignPlan, FootingMarkFailed
  DEF Proceed
<1>3. ASSUME NEW m \in inbox, ConsumeProvisioned(m) PROVE FootingInv'
  BY <1>1, <1>3, FootingConsume
<1>4. CASE UNCHANGED vars
  <2>1. UNCHANGED <<saga, org, cred, subs, inbox, unsent, users, pc, form, orgId, adminId>>
    BY <1>4 DEF vars
  <2>2. (\A r \in Requests : Backed(r)') /\ SagaBacked' /\ NothingDangles'
    BY <2>1 DEF FootingInv, Backed, Key, SagaBacked, Stage, NothingDangles
  <2> QED
    BY <1>1, <2>2 DEF FootingInv
<1> QED
  BY <1>2, <1>3, <1>4 DEF Next

\* Without any condition on the forms.
THEOREM FootingInvariant == Spec => []FootingInv
<1>1. Init => FootingInv
  BY FootingInit
<1>2. FootingInv /\ [Next]_vars => FootingInv'
  BY FootingStep
<1> QED
  BY <1>1, <1>2, PTL DEF Spec

\* Every variable keeps its type, and a request past the saga's first step has its organisation:
\* what OnboardingService reads back from a saga row is never missing.
THEOREM OnboardingTypeCorrect == Spec => []TypeOK
<1>1. FootingInv => TypeOK
  BY DEF FootingInv
<1> QED
  BY <1>1, FootingInvariant, PTL

\* Whatever forms are submitted under one key, at once or one after the other, with whatever
\* failures: no saga, credential, subscription, event or first user refers to an organisation or
\* a credential that does not exist, and an organisation is never bound to two keys.
THEOREM NothingEverDangles == Spec => []NothingDangles
<1>1. FootingInv => NothingDangles
  BY DEF FootingInv
<1> QED
  BY <1>1, FootingInvariant, PTL
-----------------------------------------------------------------------------
(* A completed organisation is active or flagged *)

LEMMA FlagStep ==
  ASSUME SagaInv, CompleteOrFlagged, [Next]_vars
  PROVE  CompleteOrFlagged'
<1>0. TypeOK /\ RequestKnows /\ StateIsEarned /\ NoOrphans
  BY DEF SagaInv
<1>a. \A k \in Keys : saga[k].state = "complete" => saga[k].org \in Slugs /\ org[saga[k].org] # "none"
  <2>1. ASSUME NEW k \in Keys, saga[k].state = "complete" PROVE Stage(k) = 5
    BY <2>1 DEF Stage, StageOf
  <2> QED
    BY <1>0, <2>1 DEF StateIsEarned, TypeOK
<1>1. CASE UNCHANGED <<saga, org>>
  BY <1>1 DEF CompleteOrFlagged
<1>2. ASSUME NEW r \in Requests, InsertSaga(r) PROVE CompleteOrFlagged'
  <2>1. PICK k \in Keys : k = Key(r)
    BY <1>0, <1>2, FormTypes DEF InsertSaga
  <2>2. saga'[k].state = "pending" /\ org' = org /\ \A j \in Keys \ {k} : saga'[j] = saga[j]
    BY <1>0, <1>2, <2>1 DEF InsertSaga, TypeOK, NoSaga
  <2> QED
    BY <2>2 DEF CompleteOrFlagged
<1>3. ASSUME NEW r \in Requests, CreateOrganization(r) PROVE CompleteOrFlagged'
  <2>1. PICK k \in Keys : k = Key(r)
    BY <1>0, <1>3, FormTypes DEF CreateOrganization
  <2>2. PICK o \in Slugs : o = form[r].slug
    BY <1>0, <1>3, FormTypes DEF CreateOrganization
  <2>3. /\ saga'[k].state = "org_created" /\ \A j \in Keys \ {k} : saga'[j] = saga[j]
        /\ org[o] = "none" /\ \A s \in Slugs \ {o} : org'[s] = org[s]
    BY <1>0, <1>3, <2>1, <2>2 DEF CreateOrganization, Advance, TypeOK
  <2> QED
    BY <1>a, <2>3 DEF CompleteOrFlagged
<1>4. ASSUME NEW r \in Requests, AdvanceCredential(r) \/ AdvancePlan(r) PROVE CompleteOrFlagged'
  <2>1. PICK k \in Keys : k = Key(r)
    BY <1>0, <1>4, FormTypes DEF AdvanceCredential, AdvancePlan
  <2>2. /\ saga'[k].state \in {"credentials_created", "subscribed"} /\ org' = org
        /\ \A j \in Keys \ {k} : saga'[j] = saga[j]
    BY <1>0, <1>4, <2>1 DEF AdvanceCredential, AdvancePlan, Advance, TypeOK
  <2> QED
    BY <2>2 DEF CompleteOrFlagged
<1>5. ASSUME NEW r \in Requests, Complete(r) \/ MarkFailed(r) PROVE CompleteOrFlagged'
  <2>1. PICK k \in Keys : k = Key(r)
    BY <1>0, <1>5, FormTypes DEF Complete, MarkFailed
  <2>2. \A j \in Keys : saga'[j].org = saga[j].org /\ (j # k => saga'[j] = saga[j])
    BY <1>0, <1>5, <2>1 DEF Complete, MarkFailed, Advance, TypeOK
  <2>3. /\ orgId[r] # None => orgId[r] = saga[k].org
        /\ \A s \in Slugs : s # orgId[r] => org'[s] = org[s]
    BY <1>0, <1>5, <2>1 DEF Complete, MarkFailed, TypeOK, RequestKnows, Knows
  <2>4. ASSUME NEW j \in Keys \ {k}, saga[j].state = "complete" PROVE org'[saga[j].org] = org[saga[j].org]
    <3>1. saga[j].org \in Slugs /\ saga[j].org # None
      BY <1>a, <2>4, NoneAssumption
    <3>2. saga[j].org # saga[k].org
      BY <1>0, <3>1 DEF NoOrphans
    <3> QED
      BY <2>3, <3>1, <3>2
  <2>5. saga'[k].failed \/ org'[saga[k].org] = "active"
    <3>1. CASE MarkFailed(r)
      BY <1>0, <2>1, <3>1 DEF MarkFailed, TypeOK
    <3>2. CASE Complete(r)
      <4>1. orgId[r] \in Slugs /\ orgId[r] # None
        BY <1>0, <3>2, NoneAssumption DEF Complete, TypeOK
      <4> QED
        BY <1>0, <2>3, <3>2, <4>1 DEF Complete, TypeOK
    <3> QED
      BY <1>5, <3>1, <3>2
  <2> QED
    BY <2>2, <2>4, <2>5 DEF CompleteOrFlagged
<1>6. ASSUME NEW r \in Requests,
             \/ \E f \in Forms : Submit(r, f)
             \/ Claim(r) \/ ReadSaga(r) \/ InsertSagaConflict(r) \/ SlugTaken(r) \/ CreateCredential(r)
             \/ EmailTaken(r) \/ AssignPlan(r) \/ PlanAssigned(r) \/ Publish(r) \/ Respond(r)
             \/ StepFails(r) \/ Escapes(r) \/ Crash(r)
      PROVE  UNCHANGED <<saga, org>>
  BY <1>6 DEF Submit, Claim, ReadSaga, InsertSagaConflict, SlugTaken, CreateCredential, EmailTaken,
              AssignPlan, PlanAssigned, Publish, Respond, StepFails, Escapes, Crash, world
<1>7. ASSUME NEW m \in inbox, ConsumeProvisioned(m) PROVE UNCHANGED <<saga, org>>
  BY <1>7 DEF ConsumeProvisioned
<1>8. CASE UNCHANGED vars
  BY <1>1, <1>8 DEF vars
<1> QED
  BY <1>1, <1>2, <1>3, <1>4, <1>5, <1>6, <1>7, <1>8 DEF Next, Proceed

\* However requests for one signup overlap and fail, a completed saga's organisation is active or
\* the saga records the failure that says otherwise.
THEOREM CompleteOrFlaggedAlways == OneFormPerKey => (Spec => []CompleteOrFlagged)
<1> SUFFICES ASSUME OneFormPerKey PROVE Spec => []CompleteOrFlagged
  OBVIOUS
<1>1. Init => CompleteOrFlagged
  BY DEF Init, CompleteOrFlagged, NoSaga
<1>2. SagaInv /\ CompleteOrFlagged /\ [Next]_vars => CompleteOrFlagged'
  BY FlagStep
<1>3. Spec => []SagaInv
  BY SagaInvariant
<1> QED
  BY <1>1, <1>2, <1>3, PTL DEF Spec
=============================================================================
