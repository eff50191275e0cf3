---- MODULE Permissions ----
(***************************************************************************)
(* Who may do what: the decision tables of the gateway and of the services *)
(* and the pages that offer the operations.                                *)
(*                                                                         *)
(* An operation is named "<subject>.<verb>".  Three parts of the code      *)
(* decide on one: a gateway controller says whether it needs a token and   *)
(* whether PlatformAdminGuard stands before it, a service controller names *)
(* the ability CaslAbilityGuard asks for, and a page of the browser offers *)
(* it or loads its data.  Nothing keeps the three in step but reading.     *)
(***************************************************************************)
EXTENDS Integers, Sequences, FiniteSetsExt, TLC

Roles == {"platform_admin", "org_admin", "org_member"}

-----------------------------------------------------------------------------
(* CASL: a role is a list of rules and the last one that matches decides.   *)
(* The guard asks about a subject type, never about a row, so the           *)
(* conditions of the rules ({ organizationId }, { createdBy }) do not       *)
(* count: what they say is left to the services.                            *)

Can(action, subject) == [allows |-> TRUE, action |-> action, subject |-> subject]
Cannot(action, subject) == [Can(action, subject) EXCEPT !.allows = FALSE]

PlatformRules ==
    << Can("read", "organization"), Can("read", "subscription"), Can("read", "plan"),
       Can("manage", "plan"), Can("read", "audit"),
       Cannot("read", "resource"), Cannot("read", "user") >>

AdminRules ==
    << Can("manage", "user"), Can("manage", "resource"), Can("read", "organization"),
       Can("read", "subscription"), Can("update", "subscription"),
       Can("read", "audit"), Can("read", "plan") >>

\* Mutant: members may not read subscriptions.
MemberRules_NoSubscription ==
    << Can("read", "resource"), Can("create", "resource"), Can("update", "resource"),
       Can("delete", "resource"), Can("read", "user"), Can("read", "organization"),
       Cannot("create", "user"), Cannot("update", "user"), Cannot("delete", "user") >>

MemberRules ==
    << Can("read", "resource"), Can("create", "resource"), Can("update", "resource"),
       Can("delete", "resource"), Can("read", "user"), Can("read", "organization"),
       Can("read", "subscription"),
       Cannot("create", "user"), Cannot("update", "user"), Cannot("delete", "user") >>

RulesOf(roles) ==
    (IF "platform_admin" \in roles THEN PlatformRules ELSE <<>>)
    \o (IF "org_admin" \in roles THEN AdminRules ELSE <<>>)
    \o (IF "org_member" \in roles THEN MemberRules ELSE <<>>)

Matches(rule, need) ==
    rule.action \in {need.action, "manage"} /\ rule.subject = need.subject

Able(roles, need) ==
    LET rules == RulesOf(roles)
        hits  == {i \in DOMAIN rules : Matches(rules[i], need)}
    IN  hits # {} /\ rules[Max(hits)].allows

-----------------------------------------------------------------------------
(* The gateway: the routes of each controller; public ones carry no         *)
(* identity, and PlatformAdminGuard stands before some others.              *)

AuthRoutes == {"auth.login", "auth.refresh", "auth.logout"}
OnboardingRoutes == {"onboarding.signup"}
InvitationRoutes == {"invitations.accept"}
OrganizationRoutes == {"organizations.me", "organizations.list", "organizations.get"}
UserRoutes == {"users.invite", "users.list", "users.get", "users.role", "users.remove",
               "invitations.list", "invitations.revoke"}
SubscriptionRoutes ==
    {"plans.list", "subscriptions.current", "subscriptions.change", "usage.aggregate"}
ResourceRoutes == {"resources.create", "resources.list", "resources.get", "resources.remove"}
AuditRoutes == {"audit.list", "audit.security"}
DashboardRoutes == {"dashboard"}

Ops ==
    AuthRoutes \cup OnboardingRoutes \cup InvitationRoutes \cup OrganizationRoutes \cup UserRoutes
    \cup SubscriptionRoutes \cup ResourceRoutes \cup AuditRoutes \cup DashboardRoutes

Public == {"auth.login", "auth.refresh", "onboarding.signup", "invitations.accept"}
Platform == {"organizations.list", "organizations.get", "usage.aggregate"}

\* JwtAuthGuard, then PlatformAdminGuard; roles is {} when there is no token.
GatewayVerdict(roles, op) ==
    IF op \in Public THEN "pass"
    ELSE IF roles = {} THEN "unauthorized"
    ELSE IF op \in Platform /\ "platform_admin" \notin roles THEN "forbidden"
    ELSE "pass"

\* The requests a gateway handler, or auth-service behind it, sends to the
\* services that hold the tenants' rows.
CallsOf(op) ==
    IF op = "dashboard" THEN {"subscriptions.current", "users.list"}
    ELSE IF op \in {"auth.login", "auth.refresh"} THEN {"users.roleOf"}
    ELSE IF op \in {"auth.logout", "onboarding.signup"} THEN {}
    ELSE {op}

-----------------------------------------------------------------------------
(* The services: the ability each handler is decorated with.  A handler     *)
(* without an entry is not decorated and the guard lets it pass.            *)

Need(action, subject) == [action |-> action, subject |-> subject]

TenantAbilities ==
    [call \in {"organizations.me", "organizations.list", "organizations.get"} |->
        Need("read", "organization")]
SubscriptionAbilities ==
    [call \in {"subscriptions.current", "subscriptions.change"} |->
        Need(IF call = "subscriptions.change" THEN "update" ELSE "read", "subscription")]
UserAbilities ==
    [call \in {"users.invite", "users.list", "users.get", "users.role", "users.remove"} |->
        Need(CASE call = "users.invite" -> "create" [] call = "users.role" -> "update"
               [] call = "users.remove" -> "delete" [] OTHER -> "read", "user")]
InvitationAbilities ==
    [call \in {"invitations.list", "invitations.revoke"} |->
        Need(IF call = "invitations.revoke" THEN "delete" ELSE "read", "user")]
ResourceAbilities ==
    [call \in {"resources.create", "resources.list", "resources.get", "resources.remove"} |->
        Need(CASE call = "resources.create" -> "create" [] call = "resources.remove" -> "delete"
               [] OTHER -> "read", "resource")]
AuditAbilities == [call \in {"audit.list", "audit.security"} |-> Need("read", "audit")]

Abilities ==
    {TenantAbilities, SubscriptionAbilities, UserAbilities, InvitationAbilities,
     ResourceAbilities, AuditAbilities}

\* The handlers that ask once more for a platform admin, because a rule with a
\* condition lets the type-level question of the guard pass.
PlatformOnly == {"organizations.list", "organizations.get", "audit.security"}

ServiceAdmits(roles, call) ==
    /\ \A table \in Abilities : call \in DOMAIN table => Able(roles, table[call])
    /\ call \in PlatformOnly => "platform_admin" \in roles

-----------------------------------------------------------------------------
(* The browser: what the shells and pages behind each route guard load when *)
(* they open and offer as buttons, by the role cached at login; a browser   *)
(* that is not signed in is a visitor's.                                    *)

UserMenu == {"auth.logout"}
StorageUpsellCard == {"subscriptions.current"}
TenantShell == {"organizations.me"} \cup StorageUpsellCard \cup UserMenu
AdminShell == UserMenu

QuickActionsPanel == {"subscriptions.current", "audit.list"}
DashboardPage(role) == {"dashboard"} \cup (IF role = "org_admin" THEN QuickActionsPanel ELSE {})
ResourceFormDialog == {"resources.create"}
ResourcesPage == {"resources.list", "resources.remove"} \cup ResourceFormDialog
ResourceDetailPage == {"resources.get"}
AuditPage == {"audit.list"}
InviteUserDialog == {"users.invite", "subscriptions.current"}
UsersPage ==
    {"users.list", "invitations.list", "subscriptions.current", "users.role", "users.remove",
     "invitations.revoke"} \cup InviteUserDialog
PlanPage == {"subscriptions.current", "plans.list", "subscriptions.change"}
AdminOrganizationsPage == {"organizations.list", "usage.aggregate"}
AdminOrganizationDetailPage == {"organizations.get", "usage.aggregate"}
AdminSecurityPage == {"audit.security"}
LoginPage == {"auth.login"}
SignupPage == {"onboarding.signup"}
AcceptInvitePage == {"invitations.accept"}

\* PublicOnlyRoute, TenantRoute, OrgAdminRoute and PlatformAdminRoute; anybody may open an invitation.
PublicOnlyRoute(role) == IF role = "visitor" THEN LoginPage \cup SignupPage ELSE {}
OrgAdminRoute(role) == IF role = "org_admin" THEN UsersPage \cup PlanPage ELSE {}
TenantRoute(role) ==
    IF role \in {"org_admin", "org_member"}
      THEN TenantShell \cup DashboardPage(role) \cup ResourcesPage \cup ResourceDetailPage
           \cup AuditPage \cup OrgAdminRoute(role)
      ELSE {}
PlatformAdminRoute(role) ==
    IF role = "platform_admin"
      THEN AdminShell \cup AdminOrganizationsPage \cup AdminOrganizationDetailPage
           \cup AdminSecurityPage
      ELSE {}

Offered(role) ==
    AcceptInvitePage \cup PublicOnlyRoute(role) \cup TenantRoute(role) \cup PlatformAdminRoute(role)
====
