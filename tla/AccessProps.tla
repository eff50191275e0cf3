---------------------------- MODULE AccessProps ----------------------------
(***************************************************************************)
(* The properties of Access.                                               *)
(***************************************************************************)
EXTENDS Access

Calls == UNION {CallsOf(o) : o \in Ops}
Ids == People \cup Orgs \cup Resources \cup {Unknown}

\* Every variable has its type.
TypeOK ==
  /\ at \in [Requests -> {"idle", "called", "open", "missing", "answered"}]
  /\ who \in [Requests -> People \cup {Nobody}] /\ op \in [Requests -> Ops \cup {None}]
  /\ id \in [Requests -> Ids]
  /\ left \in [Requests -> SUBSET Calls] /\ doing \in [Requests -> Calls \cup {None}]
  /\ answer \in [Requests -> {"none", "ok", "notFound", "forbidden", "unauthorized", "failed"}]
  /\ alarm \in [Requests -> {"none", "quiet", "raised", "lost"}]
  /\ holder \in [Conns -> Requests \cup {None}]
  /\ setting \in [Conns -> Orgs \cup {Unset, Reset}]
  /\ status \in [Resources -> {"absent", "live", "deleted"}]

\* What a call may see: the named rows of the organisation it is about, all of them; for a platform
\* admin the rows of no organisation.
Owed(r) == {w \in Rows : Named(w, r) /\ w.org = Scope(who[r], doing[r], id[r])}

\* Whatever the pooled connection was used for before, what a transaction finds is what its caller is
\* owed: no row of another tenant, and none missing.
SeesExactlyOwn == \A r \in Requests, k \in Conns : Open(r, k) => Found(r, k) = Owed(r)

\* The id names a row of another organisation.
Foreign(r) ==
  /\ TenantOf(who[r]) # None
  /\ \/ id[r] \in People /\ OrgOf[id[r]] \notin {None, TenantOf(who[r])}
     \/ id[r] \in Orgs /\ id[r] # TenantOf(who[r])
     \/ id[r] \in Resources /\ HomeOf[id[r]] # TenantOf(who[r])

\* An id of another organisation is answered like one that does not exist, and a probe that works
\* tells the two apart for the security log alone.
AnsweredAsMissing(r) ==
  /\ answer'[r] \in {"notFound", "failed"}
  /\ answer'[r] = "notFound" /\ op[r] \in Probed =>
       alarm'[r] \in {"lost", IF Exists(id[r]) THEN "raised" ELSE "quiet"}

LooksMissing(r) ==
  /\ at[r] # "idle" /\ answer'[r] # answer[r] /\ answer'[r] # "none"
  /\ ServiceAdmits(RolesOf(who[r]), op[r])
  => /\ Foreign(r) => AnsweredAsMissing(r)
     /\ id[r] = Unknown => alarm'[r] # "raised"

ForeignLooksMissing == [][\A r \in Requests : LooksMissing(r)]_vars

\* The role the pages go by, and the answers that turn a request away.
RoleShown(r) == IF who[r] = Nobody THEN "visitor" ELSE RoleOf[who[r]]

TurnedAway(r) == answer[r] = "forbidden" \/ (answer[r] = "unauthorized" /\ op[r] \notin AuthRoutes)

\* What is turned away was not offered, or is one of the exceptions.
Permitted(r) ==
  TurnedAway(r) /\ op[r] \in Offered(RoleShown(r))
  => /\ RoleShown(r) = "org_member"
     /\ \/ op[r] = "audit.list"
        \/ op[r] = "resources.remove" /\ CreatorOf[id[r]] # who[r]

\* A page offers or loads nothing its user, or a visitor, is then refused, with two exceptions: a
\* member's audit page, and the deletion of a resource somebody else created.
OfferedIsPermitted == \A r \in Requests : Permitted(r)

-----------------------------------------------------------------------------
(* The inductive invariant *)

\* A connection in the pool carries nobody's organisation.
FreeIsClean == \A k \in Conns : holder[k] = None => setting[k] \in {Unset, Reset}

\* A connection in use carries its user's, and a request uses one at a time.
HeldIsScoped ==
  \A k \in Conns : holder[k] # None =>
    /\ at[holder[k]] = "open"
    /\ CurrentOrg(setting[k]) = Scope(who[holder[k]], doing[holder[k]], id[holder[k]])

OneEach == \A j, k \in Conns : holder[j] = holder[k] /\ holder[j] # None => j = k

AccessInv == TypeOK /\ FreeIsClean /\ HeldIsScoped /\ OneEach

\* The operations on one row that need a token.
ByIdOps == ById \ FromRow

\* How far the request for a foreign id can get: its one call is to be made, finds nothing, and may be
\* followed by the probe.
ForeignWay(r) ==
  /\ op[r] \in ByIdOps
  /\ at[r] = "called" => left[r] = {op[r]}
  /\ at[r] = "open" => doing[r] = op[r]
  /\ at[r] = "missing" => op[r] \in Probed

KeptAt(r) ==
  /\ at[r] # "answered" => alarm[r] = "none"
  /\ at[r] \in {"called", "open", "missing"} /\ Foreign(r) /\ ServiceAdmits(RolesOf(who[r]), op[r])
       => ForeignWay(r)

ForeignKept == \A r \in Requests : KeptAt(r)

\* What is still to be asked for a request belongs to its operation, and only public ones travel
\* without an identity.
OnItsWay(r) ==
  /\ at[r] # "answered" => answer[r] = "none"
  /\ at[r] \in {"called", "open"} =>
       op[r] \in Ops /\ left[r] \subseteq CallsOf(op[r]) /\ (who[r] = Nobody => op[r] \in Public)
  /\ at[r] = "open" => doing[r] \in CallsOf(op[r])

Travels == \A r \in Requests : OnItsWay(r)

PermissionInv == Travels /\ OfferedIsPermitted
=============================================================================
