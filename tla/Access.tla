------------------------------- MODULE Access -------------------------------
(***************************************************************************)
(* Requests on their way to the tenants' rows: the gateway and the guards  *)
(* of the services (Permissions), then a transaction on a pooled           *)
(* connection whose setting app.current_org decides which rows the         *)
(* policies let through, then the answer, and for an id that was not found *)
(* the probe whether it is another tenant's.                               *)
(*                                                                         *)
(* The two calls of the dashboard run at once in the code and one after    *)
(* the other here: they meet nowhere.  Of what writes do, only the life of *)
(* a resource is kept; the rest is in Seats, Storage and Onboarding.       *)
(***************************************************************************)
EXTENDS Permissions

CONSTANTS
  Orgs, People, Nobody,  \* Nobody: the identity of a public route
  OrgOf, RoleOf,         \* the claims of each person's token
  Resources, HomeOf, CreatorOf,
  Unknown,               \* an id nothing has
  Requests,
  Asks,                  \* Asks[r]: who may ask for what in request r
  Conns, PoolOf,         \* the connections of all services, and the service of each
  None, Unset, Reset     \* app.current_org never set, and the empty string

Services == {"user", "subscription", "resource", "audit"}

\* A token without an organisation is a platform admin's and the other way round (resolveRoles); ids
\* are UUIDs.
ASSUME AccessAssumption ==
  /\ OrgOf \in [People -> Orgs \cup {None}] /\ RoleOf \in [People -> Roles]
  /\ \A p \in People : RoleOf[p] = "platform_admin" <=> OrgOf[p] = None
  /\ HomeOf \in [Resources -> Orgs] /\ CreatorOf \in [Resources -> People]
  /\ Asks \in [Requests -> SUBSET ((People \cup {Nobody}) \X Ops)]
  /\ PoolOf \in [Conns -> Services]
  /\ People \cap Orgs = {} /\ People \cap Resources = {} /\ Orgs \cap Resources = {}
  /\ Unknown \notin People \cup Orgs \cup Resources
  /\ Nobody \notin People /\ None \notin Orgs \cup Requests
  /\ Unset \notin Orgs \cup {None} /\ Reset \notin Orgs \cup {None, Unset}

VARIABLES
  at,      \* at[r]: "idle", "called", "open" (in a transaction), "missing" (before the probe), "answered"
  who, op, id,
  left,    \* calls to the services still to be made
  doing,   \* the call whose transaction is open
  answer,
  alarm,   \* CrossTenantAccessAttempted: "none", "quiet" (no need), "raised" or "lost"
  holder,  \* holder[k]: the request that has connection k
  setting, \* setting[k]: app.current_org
  status   \* status[x]: "absent", "live" or "deleted" (deleted_at is set)

request == <<who, op, id>>
vars == <<at, who, op, id, left, doing, answer, alarm, holder, setting, status>>

-----------------------------------------------------------------------------
(* Rows and statements *)

Table(call) ==
  CASE call \in {"users.list", "users.get", "users.role", "users.remove", "users.roleOf"} -> "users"
    [] call \in {"invitations.list", "invitations.revoke", "invitations.accept"} -> "invitations"
    [] call \in {"subscriptions.current", "subscriptions.change", "users.invite"} -> "subscriptions"
    [] call \in {"resources.list", "resources.get", "resources.remove", "resources.create"} -> "resources"
    [] call = "audit.list" -> "audit_events"
    [] call = "audit.security" -> "security_events"
    [] OTHER -> "registry"   \* organizations, plans: no policy

\* get_usage_aggregates is SECURITY DEFINER and returns counters only.
Protected(call) == Table(call) # "registry"

Service(call) ==
  CASE call \in DOMAIN UserAbilities \cup DOMAIN InvitationAbilities
                \cup {"users.roleOf", "invitations.accept"} -> "user"
    [] call \in DOMAIN ResourceAbilities -> "resource"
    [] call \in DOMAIN AuditAbilities -> "audit"
    [] OTHER -> "subscription"

Row(table, org, key) == [table |-> table, org |-> org, key |-> key]

Members == {p \in People : OrgOf[p] # None}

AuditTables == {"audit_events", "security_events"}

UserRows == {Row("users", OrgOf[p], p) : p \in Members}
InvitationRows == {Row("invitations", o, o) : o \in Orgs}
SubscriptionRows == {Row("subscriptions", o, o) : o \in Orgs}
AuditRows == {Row(t, o, o) : t \in AuditTables, o \in Orgs \cup {None}}
ResourceRows == {Row("resources", HomeOf[x], x) : x \in {x \in Resources : status[x] = "live"}}
Rows == UserRows \cup InvitationRows \cup SubscriptionRows \cup AuditRows \cup ResourceRows

ById == {"users.get", "users.role", "users.remove", "users.roleOf", "invitations.revoke",
         "invitations.accept", "resources.get", "resources.remove"}

\* Lookups that start without a tenant: the organisation comes from the row that is looked for.
FromRow == {"users.roleOf", "invitations.accept"}

RolesOf(p) == IF p = Nobody THEN {} ELSE {RoleOf[p]}
TenantOf(p) == IF p = Nobody THEN None ELSE OrgOf[p]

Named(w, r) == w.table = Table(doing[r]) /\ (doing[r] \in ById => w.key = id[r])

\* The condition of the statement itself: TenantRepository adds the organisation of the context, the
\* platform admin's audit lists and the lookups have none.  A null in a `where` is
\* an error (Abort) or no condition.
Condition(w, r) ==
  Named(w, r) /\ (TenantOf(who[r]) # None /\ doing[r] \notin FromRow => w.org = TenantOf(who[r]))

-----------------------------------------------------------------------------
(* Row-level security *)

\* Mutant: without NULLIF the empty string is not "no organisation".
CurrentOrg_NoNullif(s) == IF s = Unset THEN None ELSE s

\* NULLIF(current_setting('app.current_org', true), '')
CurrentOrg(s) == IF s \in {Unset, Reset} THEN None ELSE s

\* The policy of enableTenantRls.
TenantPolicy(w, org) == org # None /\ w.org = org

\* That of the audit tables also admits rows without an organisation where none is set.
AuditPolicy(w, org) == TenantPolicy(w, org) \/ (org = None /\ w.org = None)

Policy(w, org) == IF w.table \in AuditTables THEN AuditPolicy(w, org) ELSE TenantPolicy(w, org)

\* Mutant: the setting outlives the transaction, as set_config without `true` would have it.
AfterTransaction_Session(s) == s

\* A local set_config is undone, but never back to NULL.
AfterTransaction(s) == IF s = Unset THEN Unset ELSE Reset

\* The two SECURITY DEFINER functions that start a transaction without a caller's organisation.
UserOrganization(key) == IF key \in People THEN OrgOf[key] ELSE None
InvitationOrganization(key) == IF key \in Orgs THEN key ELSE None

\* The organisation a call is scoped to: the caller's, or the one such a function finds.
Scope(p, call, key) ==
  IF call = "users.roleOf" THEN UserOrganization(key)
  ELSE IF call = "invitations.accept" THEN InvitationOrganization(key)
  ELSE TenantOf(p)

\* Mutant: a missing organisation is written, too.
Scoped_Null(s, org) == org

\* runScoped: no organisation leaves the setting as it is found.
Scoped(s, org) == IF org = None THEN s ELSE org

Found(r, k) == {w \in Rows : Condition(w, r) /\ Policy(w, CurrentOrg(setting[k]))}

-----------------------------------------------------------------------------

Init ==
  /\ at = [r \in Requests |-> "idle"]
  /\ who = [r \in Requests |-> Nobody] /\ op = [r \in Requests |-> None]
  /\ id = [r \in Requests |-> Unknown]
  /\ left = [r \in Requests |-> {}] /\ doing = [r \in Requests |-> None]
  /\ answer = [r \in Requests |-> "none"] /\ alarm = [r \in Requests |-> "none"]
  /\ holder = [k \in Conns |-> None] /\ setting = [k \in Conns |-> Unset]
  /\ status = [x \in Resources |-> "absent"]

\* The ids an operation may be given.  The login of a platform admin asks no service.
IdsFor(o) ==
  {Unknown} \cup (IF o \in {"users.get", "users.role", "users.remove", "auth.login", "auth.refresh"} THEN Members
                  ELSE IF o \in {"invitations.revoke", "invitations.accept"} THEN Orgs
                  ELSE IF o \in {"resources.get", "resources.remove"} THEN Resources
                  ELSE {})

Answer(r, a) == /\ at' = [at EXCEPT ![r] = "answered"]
                /\ answer' = [answer EXCEPT ![r] = a]
                /\ left' = [left EXCEPT ![r] = {}]

\* The gateway: its guards answer, or the call goes out under the identity of the token.
Send(r, p, o, i) ==
  /\ at[r] = "idle"
  /\ who' = [who EXCEPT ![r] = IF o \in Public THEN Nobody ELSE p]
  /\ op' = [op EXCEPT ![r] = o] /\ id' = [id EXCEPT ![r] = i]
  /\ IF GatewayVerdict(RolesOf(p), o) = "pass"
       THEN /\ left' = [left EXCEPT ![r] = CallsOf(o)]
            /\ at' = [at EXCEPT ![r] = "called"]
            /\ UNCHANGED answer
       ELSE Answer(r, GatewayVerdict(RolesOf(p), o))
  /\ UNCHANGED <<doing, alarm, holder, setting, status>>

\* CaslAbilityGuard or a service that asks for a platform admin.
Deny(r, call) ==
  /\ at[r] = "called" /\ call \in left[r]
  /\ ~ServiceAdmits(RolesOf(who[r]), call)
  /\ Answer(r, "forbidden")
  /\ UNCHANGED <<request, doing, alarm, holder, setting, status>>

\* The service is away, or the signed context expired on the way.
Lose(r) ==
  /\ at[r] = "called" /\ left[r] # {}
  /\ Answer(r, "failed")
  /\ UNCHANGED <<request, doing, alarm, holder, setting, status>>

\* Tables without a policy; nobody's organisation is not found.
ReadRegistry(r, call) ==
  /\ at[r] = "called" /\ call \in left[r] /\ ~Protected(call)
  /\ ServiceAdmits(RolesOf(who[r]), call)
  /\ IF call = "organizations.me" /\ TenantOf(who[r]) = None
       THEN Answer(r, "notFound")
       ELSE left' = [left EXCEPT ![r] = @ \ {call}] /\ UNCHANGED <<at, answer>>
  /\ UNCHANGED <<request, doing, alarm, holder, setting, status>>

\* Every call is answered.
Complete(r) ==
  /\ at[r] = "called" /\ left[r] = {}
  /\ Answer(r, "ok")
  /\ UNCHANGED <<request, doing, alarm, holder, setting, status>>

\* A connection of the service's pool, BEGIN and set_config.
Begin(r, call, k) ==
  /\ at[r] = "called" /\ call \in left[r] /\ Protected(call)
  /\ ServiceAdmits(RolesOf(who[r]), call)
  /\ holder[k] = None /\ PoolOf[k] = Service(call)
  /\ at' = [at EXCEPT ![r] = "open"]
  /\ left' = [left EXCEPT ![r] = @ \ {call}] /\ doing' = [doing EXCEPT ![r] = call]
  /\ holder' = [holder EXCEPT ![k] = r]
  /\ setting' = [setting EXCEPT ![k] = Scoped(@, Scope(who[r], call, id[r]))]
  /\ UNCHANGED <<request, answer, alarm, status>>

Open(r, k) == at[r] = "open" /\ holder[k] = r

\* COMMIT or ROLLBACK, and release.
End(r, k) == /\ Open(r, k)
             /\ doing' = [doing EXCEPT ![r] = None]
             /\ holder' = [holder EXCEPT ![k] = None]
             /\ setting' = [setting EXCEPT ![k] = AfterTransaction(@)]
             /\ UNCHANGED request

\* Operations on one row, which answer 404 when it is not there, and those of them that then probe.
Single == ById \cup {"subscriptions.current", "subscriptions.change", "users.invite"}
Probed == {"users.get", "resources.get", "resources.remove"}

Missing(r, k) == doing[r] \in Single /\ Found(r, k) = {}

Miss(r, k) ==
  /\ Missing(r, k)
  /\ IF doing[r] \in Probed THEN at' = [at EXCEPT ![r] = "missing"] /\ UNCHANGED <<left, answer>>
     ELSE Answer(r, IF doing[r] = "users.roleOf" THEN "unauthorized" ELSE "notFound")
  /\ End(r, k)
  /\ UNCHANGED <<alarm, status>>

\* assertMayModify: an admin any resource, a member an own one.
MayModify(r) == doing[r] = "resources.remove" /\ id[r] \in Resources =>
                  RoleOf[who[r]] = "org_admin" \/ CreatorOf[id[r]] = who[r]

\* Mutant: ownership is judged before the row is known to be there.
Refuse_BeforeFound(r, k) ==
  /\ ~MayModify(r)
  /\ Answer(r, "forbidden")
  /\ End(r, k)
  /\ UNCHANGED <<alarm, status>>

Refuse(r, k) ==
  /\ ~Missing(r, k) /\ ~MayModify(r)
  /\ Answer(r, "forbidden")
  /\ End(r, k)
  /\ UNCHANGED <<alarm, status>>

\* A removal is a soft delete.
Finish(r, k) ==
  /\ ~Missing(r, k) /\ MayModify(r) /\ doing[r] # "resources.create"
  /\ at' = [at EXCEPT ![r] = "called"]
  /\ status' = IF doing[r] = "resources.remove" THEN [status EXCEPT ![id[r]] = "deleted"] ELSE status
  /\ End(r, k)
  /\ UNCHANGED <<left, answer, alarm>>

\* The new row carries the caller and the caller's organisation; WITH CHECK asks the policy once more.
Create(r, k, x) ==
  /\ doing[r] = "resources.create"
  /\ status[x] = "absent" /\ CreatorOf[x] = who[r] /\ HomeOf[x] = TenantOf(who[r])
  /\ Policy(Row("resources", HomeOf[x], x), CurrentOrg(setting[k]))
  /\ status' = [status EXCEPT ![x] = "live"]
  /\ at' = [at EXCEPT ![r] = "called"]
  /\ End(r, k)
  /\ UNCHANGED <<left, answer, alarm>>

\* An error in the transaction, a limit or a rule of the operation: ROLLBACK.
Abort(r, k) ==
  /\ Answer(r, "failed")
  /\ End(r, k)
  /\ UNCHANGED <<alarm, status>>

\* SECURITY DEFINER functions that no policy binds, soft-deleted rows included.
UserExists(i) == i \in Members
ResourceExists(i) == i \in Resources /\ status[i] # "absent"
Exists(i) == UserExists(i) \/ ResourceExists(i)

\* Mutant: the probe is an ordinary query of an unscoped transaction, from which the policies hide all.
Probe_Ordinary(r) ==
  /\ at[r] = "missing"
  /\ alarm' = [alarm EXCEPT ![r] = "quiet"]
  /\ Answer(r, "notFound")
  /\ UNCHANGED <<request, doing, holder, setting, status>>

\* reportIfCrossTenantAttempt.  The caller is told the same either way.
Probe(r) ==
  /\ at[r] = "missing"
  /\ alarm' = [alarm EXCEPT ![r] = IF Exists(id[r]) THEN "raised" ELSE "quiet"]
  /\ Answer(r, "notFound")
  /\ UNCHANGED <<request, doing, holder, setting, status>>

\* The probe or its event fails, which is only logged.
ProbeFails(r) ==
  /\ at[r] = "missing"
  /\ alarm' = [alarm EXCEPT ![r] = "lost"]
  /\ Answer(r, "notFound")
  /\ UNCHANGED <<request, doing, holder, setting, status>>

\* The caller has its answer.
Forget(r) ==
  /\ at[r] = "answered"
  /\ at' = [at EXCEPT ![r] = "idle"]
  /\ who' = [who EXCEPT ![r] = Nobody] /\ op' = [op EXCEPT ![r] = None]
  /\ id' = [id EXCEPT ![r] = Unknown]
  /\ answer' = [answer EXCEPT ![r] = "none"] /\ alarm' = [alarm EXCEPT ![r] = "none"]
  /\ UNCHANGED <<left, doing, holder, setting, status>>

Next ==
  \E r \in Requests :
    \/ \E a \in Asks[r] : \E i \in IdsFor(a[2]) : Send(r, a[1], a[2], i)
    \/ \E call \in left[r] : \/ Deny(r, call) \/ ReadRegistry(r, call)
                             \/ \E k \in Conns : Begin(r, call, k)
    \/ \E k \in Conns : \/ Miss(r, k) \/ Refuse(r, k) \/ Finish(r, k) \/ Abort(r, k)
                        \/ \E x \in Resources : Create(r, k, x)
    \/ Lose(r) \/ Complete(r) \/ Probe(r) \/ ProbeFails(r) \/ Forget(r)

Spec == Init /\ [][Next]_vars
=============================================================================
