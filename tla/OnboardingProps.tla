--------------------------- MODULE OnboardingProps ---------------------------
(***************************************************************************)
(* The properties of Onboarding.                                           *)
(***************************************************************************)
EXTENDS Onboarding

\* Every variable has its type; a running request has its form, and past the saga's first step
\* the organisation it works on.
TypeOK ==
  /\ saga \in [Keys -> [state : States \cup {"none"}, org : Slugs \cup {None},
                        admin : Emails \cup {None}, failed : BOOLEAN]]
  /\ org \in [Slugs -> Statuses \cup {"none"}]
  /\ cred \in [Emails -> Slugs \cup {None}]
  /\ subs \subseteq Slugs
  /\ inbox \subseteq Slugs \X Emails /\ unsent \subseteq Slugs \X Emails
  /\ users \subseteq Slugs \X Emails
  /\ pc \in [Requests -> Places]
  /\ form \in [Requests -> Forms \cup {None}]
  /\ orgId \in [Requests -> Slugs \cup {None}]
  /\ adminId \in [Requests -> Emails \cup {None}]
  /\ faults \in 0..MaxFaults
  /\ \A r \in Requests : /\ pc[r] # "idle" => form[r] \in Forms
                         /\ pc[r] \in {"credential", "advanceCredential", "plan", "advancePlan",
                                       "complete", "publish", "respond"} => orgId[r] \in Slugs
                         /\ pc[r] \in {"plan", "advancePlan", "complete", "publish", "respond"}
                              => adminId[r] \in Emails

\* The steps a saga has taken, as numbers.
StageOf == [none |-> 0, pending |-> 1, org_created |-> 2, credentials_created |-> 3,
            subscribed |-> 4, complete |-> 5]

Stage(k) == StageOf[saga[k].state]

\* "state ALWAYS holds the last step that actually succeeded": each state is backed by what its
\* step left behind in the other services.
StateIsEarned ==
  \A k \in Keys :
    /\ Stage(k) >= 2 <=> saga[k].org # None
    /\ Stage(k) >= 2 => org[saga[k].org] # "none"
    /\ Stage(k) >= 3 <=> saga[k].admin # None
    /\ Stage(k) >= 3 => cred[saga[k].admin] = saga[k].org
    /\ Stage(k) >= 4 => saga[k].org \in subs

\* No orphan is possible: an organisation belongs to exactly one saga, and every credential and
\* subscription to such an organisation.
NoOrphans ==
  /\ \A s \in Slugs : org[s] # "none" => \E k \in Keys : saga[k].org = s
  /\ \A j, k \in Keys : saga[j].org # None /\ saga[j].org = saga[k].org => j = k
  /\ \A e \in Emails : cred[e] # None => org[cred[e]] # "none"
  /\ \A s \in subs : org[s] # "none"

\* A half-onboarded organisation is never active: it has its subscription, an administrator's
\* credential and a completed saga.
OnlyWholeOrgsActive ==
  \A s \in Slugs : org[s] = "active" =>
    /\ s \in subs
    /\ \E k \in Keys : saga[k].org = s /\ saga[k].state = "complete" /\ cred[saga[k].admin] = s

\* The id that user-service gives the first user is the id of a credential of that organisation.
AdminIsReal == \A m \in inbox \cup users : cred[m[2]] = m[1]

\* An organisation whose signup went through is active, or its saga says that it failed: the
\* late failure of an overlapping request, or of the read for the answer, may show a completed
\* organisation as failed, but never without a trace, and no resumed step wipes the trace out.
CompleteOrFlagged ==
  \A k \in Keys : saga[k].state = "complete" => org[saga[k].org] = "active" \/ saga[k].failed

\* Nothing ever refers to what does not exist, whatever forms are submitted under a key: a saga,
\* a credential and a subscription to an organisation, an administrator to a credential; and no
\* two keys get the same organisation.
NothingDangles ==
  /\ \A k \in Keys : /\ saga[k].org # None => org[saga[k].org] # "none"
                     /\ saga[k].admin # None => cred[saga[k].admin] # None
  /\ \A j, k \in Keys : saga[j].org # None /\ saga[j].org = saga[k].org => j = k
  /\ \A e \in Emails : cred[e] # None => org[cred[e]] # "none"
  /\ \A s \in subs : org[s] # "none"
  /\ \A m \in inbox \cup unsent \cup users : org[m[1]] # "none" /\ cred[m[2]] # None

-----------------------------------------------------------------------------
(* The inductive invariant behind the safety properties.  It holds when a  *)
(* key is always submitted with the same form.                             *)

OneFormPerKey == \A f, g \in Forms : f.key = g.key => f = g

\* A saga is about the organisation and the administrator of its form.
SagaOfForm ==
  \A f \in Forms : saga[f.key].org \in {None, f.slug} /\ saga[f.key].admin \in {None, f.email}

\* What a request has read or created is what its saga and its form say, and its saga has got at
\* least as far as the request: exactly as far, between a remote effect and its record.
Knows(r) ==
  /\ pc[r] = "idle" => orgId[r] = None /\ adminId[r] = None
  /\ orgId[r] # None => orgId[r] = form[r].slug /\ saga[Key(r)].org = form[r].slug
  /\ adminId[r] # None => adminId[r] = form[r].email /\ saga[Key(r)].admin = form[r].email
  /\ pc[r] \in {"org", "fail"} => saga[Key(r)].state # "none"
  /\ pc[r] = "advanceCredential" => /\ saga[Key(r)].state = "org_created"
                                   /\ cred[form[r].email] = orgId[r]
  /\ pc[r] = "advancePlan" => saga[Key(r)].state = "credentials_created" /\ orgId[r] \in subs
  /\ pc[r] = "plan" => Stage(Key(r)) >= 3
  /\ pc[r] = "complete" => Stage(Key(r)) >= 4
  /\ pc[r] \in {"publish", "respond"} => Stage(Key(r)) = 5

RequestKnows == \A r \in Requests : Knows(r)

\* A remote effect is recorded by the one request that caused it.
SoleRecorder ==
  \A r, q \in Requests :
    /\ pc[r] = "advanceCredential" /\ pc[q] = "advanceCredential" /\ r # q
         => form[r].email # form[q].email
    /\ pc[r] = "advancePlan" /\ pc[q] = "advancePlan" /\ r # q => orgId[r] # orgId[q]

SagaInv == /\ TypeOK
           /\ SagaOfForm /\ RequestKnows /\ SoleRecorder
           /\ StateIsEarned /\ NoOrphans /\ OnlyWholeOrgsActive /\ AdminIsReal

-----------------------------------------------------------------------------
(* The inductive invariant behind NothingDangles, for any forms            *)

\* What a request has read or created exists, and so does what its saga needs to be at the
\* state that the request is about to record: sagas never forget an organisation or an admin.
Backed(r) ==
  /\ orgId[r] # None => org[orgId[r]] # "none"
  /\ adminId[r] # None => cred[adminId[r]] # None
  /\ pc[r] = "advanceCredential" => cred[form[r].email] # None
  /\ pc[r] \notin {"idle", "claim", "read", "insert"} => saga[Key(r)].state # "none"
  /\ pc[r] \in {"credential", "advanceCredential", "plan", "advancePlan", "complete"}
       => saga[Key(r)].org # None
  /\ pc[r] \in {"plan", "advancePlan", "complete"} => saga[Key(r)].admin # None

SagaBacked ==
  \A k \in Keys :
    /\ Stage(k) = 0 => saga[k].org = None /\ saga[k].admin = None
    /\ Stage(k) >= 2 => saga[k].org # None
    /\ Stage(k) >= 3 => saga[k].admin # None

FootingInv == /\ TypeOK
              /\ SagaBacked /\ NothingDangles
              /\ \A r \in Requests : Backed(r)

-----------------------------------------------------------------------------
\* "Retry with the same request - it will resume from where it left off": whoever keeps
\* retrying after a failure is onboarded in the end.  The code keeps this promise when a remote
\* call fails without effect, and breaks it when only the answer is lost.
RetryCompletes == \A k \in Keys : saga[k].failed ~> saga[k].state = "complete"

\* A completed organisation gets its administrator's row, without which nobody can log in, for
\* as many retries and overlaps as it took, unless the one event that asks for the row never
\* reached the topic.
AdminArrives ==
  \A k \in Keys :
    saga[k].state = "complete" ~> <<saga[k].org, saga[k].admin>> \in users \cup unsent

-----------------------------------------------------------------------------
Saga == INSTANCE OnboardingSaga WITH
          stage <- [k \in Keys |-> Stage(k)],
          bound <- [k \in Keys |-> saga[k].org]

\* Onboarding implements the abstract saga.
SagaSpec == Saga!Spec
=============================================================================
