---------------------------- MODULE AccessProofs ----------------------------
(***************************************************************************)
(* Tenant isolation, for any organisations, people, requests and           *)
(* connections: what a transaction finds is what its caller is owed.       *)
(*                                                                         *)
(* The argument: a free connection carries no organisation (FreeIsClean),  *)
(* so what set_config writes, or leaves, is the scope of the call, and it  *)
(* stays that until the transaction ends (HeldIsScoped), because no other  *)
(* request can get hold of the connection (OneEach).                       *)
(***************************************************************************)
EXTENDS AccessProps, TLAPS

-----------------------------------------------------------------------------
(* Scopes and settings *)

\* The organisation of any context is one of the organisations or none.
LEMMA TenantType == \A p \in People \cup {Nobody} : TenantOf(p) \in Orgs \cup {None}
  BY AccessAssumption DEF TenantOf

\* So is the scope of any call.
LEMMA ScopeType ==
  \A p \in People \cup {Nobody} : \A c, i : Scope(p, c, i) \in Orgs \cup {None}
  BY TenantType, AccessAssumption DEF Scope, UserOrganization, InvitationOrganization, FromRow

\* Scoping a clean connection makes its setting mean the scope.
LEMMA ScopedMeans ==
  ASSUME NEW s \in {Unset, Reset}, NEW o \in Orgs \cup {None}
  PROVE  Scoped(s, o) \in Orgs \cup {Unset, Reset} /\ CurrentOrg(Scoped(s, o)) = o
  BY AccessAssumption DEF Scoped, CurrentOrg

\* The end of a transaction leaves a clean connection.
LEMMA CleanAfter == \A s : AfterTransaction(s) \in {Unset, Reset}
  BY DEF AfterTransaction

-----------------------------------------------------------------------------
(* The policies *)

\* Only audit rows may lack an organisation.
LEMMA RowsHaveOrgs ==
  ASSUME TypeOK, NEW w \in Rows, w.org = None
  PROVE  w.table \in AuditTables
<1>1. CASE w \in UserRows
  BY <1>1, AccessAssumption DEF UserRows, Row, Members
<1>2. CASE w \in InvitationRows \cup SubscriptionRows
  BY <1>2, AccessAssumption DEF InvitationRows, SubscriptionRows, Row
<1>3. CASE w \in AuditRows
  BY <1>3 DEF AuditRows, Row
<1>4. CASE w \in ResourceRows
  BY <1>4, AccessAssumption DEF ResourceRows, Row
<1> QED
  BY <1>1, <1>2, <1>3, <1>4 DEF Rows

\* A connection that means the scope of the call finds what is owed.
LEMMA ScopeFindsOwed ==
  ASSUME TypeOK, NEW r \in Requests, NEW k \in Conns,
         CurrentOrg(setting[k]) = Scope(who[r], doing[r], id[r])
  PROVE  Found(r, k) = Owed(r)
<1> DEFINE S == Scope(who[r], doing[r], id[r])
<1>1. SUFFICES ASSUME NEW w \in Rows, Named(w, r)
               PROVE  Condition(w, r) /\ Policy(w, S) <=> w.org = S
  BY <1>1 DEF Found, Owed, Condition
<1>2. Policy(w, S) => w.org = S
  BY DEF Policy, TenantPolicy, AuditPolicy
<1>3. w.org = S => Policy(w, S)
  BY RowsHaveOrgs DEF Policy, TenantPolicy, AuditPolicy
<1>4. w.org = S => Condition(w, r)
  BY <1>1 DEF Condition, Scope, UserOrganization, InvitationOrganization, FromRow
<1> QED
  BY <1>2, <1>3, <1>4

\* The inductive invariant is enough.
LEMMA InvSees == AccessInv => SeesExactlyOwn
<1> SUFFICES ASSUME AccessInv, NEW r \in Requests, NEW k \in Conns, Open(r, k)
             PROVE  Found(r, k) = Owed(r)
  BY DEF SeesExactlyOwn
<1>1. CurrentOrg(setting[k]) = Scope(who[r], doing[r], id[r])
  BY AccessAssumption DEF AccessInv, HeldIsScoped, Open
<1> QED
  BY <1>1, ScopeFindsOwed DEF AccessInv

-----------------------------------------------------------------------------
(* Connections *)

\* What happens to a request outside a transaction leaves the connections alone.
LEMMA ConnFrame ==
  ASSUME AccessInv, NEW r \in Requests, at[r] # "open",
         UNCHANGED <<holder, setting>>,
         \A q \in Requests \ {r} : /\ at'[q] = at[q] /\ who'[q] = who[q]
                                  /\ doing'[q] = doing[q] /\ id'[q] = id[q]
  PROVE  FreeIsClean' /\ HeldIsScoped' /\ OneEach'
<1>1. \A k \in Conns : holder[k] # None => holder[k] \in Requests \ {r}
  BY DEF AccessInv, HeldIsScoped, TypeOK
<1>2. HeldIsScoped'
  <2> SUFFICES ASSUME NEW k \in Conns, holder[k] # None
               PROVE  /\ at'[holder[k]] = "open"
                      /\ CurrentOrg(setting[k]) = Scope(who'[holder[k]], doing'[holder[k]], id'[holder[k]])
    BY DEF HeldIsScoped
  <2> QED
    BY <1>1 DEF AccessInv, HeldIsScoped
<1> QED
  BY <1>2 DEF AccessInv, FreeIsClean, OneEach

\* A transaction begins on a clean connection, and its request had none.
LEMMA ConnBegin ==
  ASSUME AccessInv, NEW r \in Requests, NEW c \in left[r], NEW k \in Conns, Begin(r, c, k)
  PROVE  FreeIsClean' /\ HeldIsScoped' /\ OneEach' /\ setting' \in [Conns -> Orgs \cup {Unset, Reset}]
<1> DEFINE S == Scope(who[r], c, id[r])
<1>1. TypeOK /\ setting[k] \in {Unset, Reset} /\ r # None
  BY AccessAssumption DEF AccessInv, FreeIsClean, Begin
<1>2. S \in Orgs \cup {None}
  BY <1>1, ScopeType DEF TypeOK
<1>3. Scoped(setting[k], S) \in Orgs \cup {Unset, Reset} /\ CurrentOrg(Scoped(setting[k], S)) = S
  BY <1>1, <1>2, ScopedMeans
<1>4. setting' = [setting EXCEPT ![k] = Scoped(setting[k], S)] /\ holder' = [holder EXCEPT ![k] = r]
  BY DEF Begin
<1>5. /\ at' = [at EXCEPT ![r] = "open"] /\ doing' = [doing EXCEPT ![r] = c]
      /\ who' = who /\ id' = id /\ at[r] # "open"
  BY DEF Begin, request
<1>6. \A j \in Conns : holder[j] # None => holder[j] \in Requests \ {r}
  BY <1>1, <1>5 DEF AccessInv, HeldIsScoped, TypeOK
<1>7. setting' \in [Conns -> Orgs \cup {Unset, Reset}]
  BY <1>1, <1>3, <1>4 DEF TypeOK
<1>8. \A j \in Conns \ {k} : setting'[j] = setting[j] /\ holder'[j] = holder[j]
  BY <1>1, <1>4 DEF TypeOK
<1>9. setting'[k] = Scoped(setting[k], S) /\ holder'[k] = r
  BY <1>1, <1>4 DEF TypeOK
<1>10. FreeIsClean'
  BY <1>1, <1>8, <1>9 DEF AccessInv, FreeIsClean
<1>11. OneEach'
  BY <1>6, <1>8, <1>9 DEF AccessInv, OneEach
<1>12. HeldIsScoped'
  <2> SUFFICES ASSUME NEW j \in Conns, holder'[j] # None
               PROVE  /\ at'[holder'[j]] = "open"
                      /\ CurrentOrg(setting'[j])
                           = Scope(who'[holder'[j]], doing'[holder'[j]], id'[holder'[j]])
    BY DEF HeldIsScoped
  <2>1. CASE j = k
    <3>1. at'[r] = "open" /\ doing'[r] = c
      BY <1>1, <1>5 DEF TypeOK
    <3> QED
      BY <2>1, <3>1, <1>3, <1>5, <1>9
  <2>2. CASE j # k
    <3>1. holder'[j] = holder[j] /\ setting'[j] = setting[j] /\ holder[j] \in Requests \ {r}
      BY <2>2, <1>6, <1>8
    <3>2. at'[holder[j]] = at[holder[j]] /\ doing'[holder[j]] = doing[holder[j]]
      BY <3>1, <1>1, <1>5 DEF TypeOK
    <3> QED
      BY <3>1, <3>2, <1>5 DEF AccessInv, HeldIsScoped
  <2> QED
    BY <2>1, <2>2
<1> QED
  BY <1>7, <1>10, <1>11, <1>12

\* A transaction ends: its connection is clean again, and its request holds no other.
LEMMA ConnEnd ==
  ASSUME AccessInv, NEW r \in Requests, NEW k \in Conns, End(r, k),
         \A q \in Requests \ {r} : at'[q] = at[q]
  PROVE  /\ FreeIsClean' /\ HeldIsScoped' /\ OneEach'
         /\ setting' \in [Conns -> Orgs \cup {Unset, Reset}]
         /\ holder' \in [Conns -> Requests \cup {None}]
<1>1. /\ setting' = [setting EXCEPT ![k] = AfterTransaction(setting[k])]
      /\ holder' = [holder EXCEPT ![k] = None]
      /\ doing' = [doing EXCEPT ![r] = None] /\ who' = who /\ id' = id /\ holder[k] = r
  BY DEF End, Open, request
<1>2. TypeOK /\ r # None
  BY AccessAssumption DEF AccessInv
<1>3. AfterTransaction(setting[k]) \in {Unset, Reset}
  BY CleanAfter
<1>4. setting' \in [Conns -> Orgs \cup {Unset, Reset}] /\ holder' \in [Conns -> Requests \cup {None}]
  BY <1>1, <1>2, <1>3 DEF TypeOK
<1>5. \A j \in Conns \ {k} : setting'[j] = setting[j] /\ holder'[j] = holder[j]
  BY <1>1, <1>2 DEF TypeOK
<1>6. setting'[k] \in {Unset, Reset} /\ holder'[k] = None
  BY <1>1, <1>2, <1>3 DEF TypeOK
<1>7. FreeIsClean'
  BY <1>5, <1>6 DEF AccessInv, FreeIsClean
<1>8. OneEach'
  BY <1>5, <1>6 DEF AccessInv, OneEach
<1>9. HeldIsScoped'
  <2> SUFFICES ASSUME NEW j \in Conns, holder'[j] # None
               PROVE  /\ at'[holder'[j]] = "open"
                      /\ CurrentOrg(setting'[j])
                           = Scope(who'[holder'[j]], doing'[holder'[j]], id'[holder'[j]])
    BY DEF HeldIsScoped
  <2>1. j # k /\ holder'[j] = holder[j] /\ setting'[j] = setting[j]
    BY <1>5, <1>6
  <2>2. holder[j] \in Requests \ {r}
    BY <2>1, <1>1, <1>2 DEF AccessInv, OneEach, TypeOK
  <2>3. doing'[holder[j]] = doing[holder[j]]
    BY <2>2, <1>1, <1>2 DEF TypeOK
  <2> QED
    BY <2>1, <2>2, <2>3, <1>1 DEF AccessInv, HeldIsScoped
<1> QED
  BY <1>4, <1>7, <1>8, <1>9

-----------------------------------------------------------------------------
(* Types *)

\* The gateway's guards give one of three answers.
LEMMA VerdictType ==
  \A roles, o : GatewayVerdict(roles, o) \in {"pass", "unauthorized", "forbidden"}
  BY DEF GatewayVerdict

\* Only known ids are asked for, and only known calls are made.
LEMMA AskedType ==
  ASSUME NEW r \in Requests, NEW a \in Asks[r], NEW i \in IdsFor(a[2])
  PROVE  a[1] \in People \cup {Nobody} /\ a[2] \in Ops /\ i \in Ids /\ CallsOf(a[2]) \subseteq Calls
<1>1. a \in (People \cup {Nobody}) \X Ops
  BY AccessAssumption
<1>2. a[1] \in People \cup {Nobody} /\ a[2] \in Ops
  BY <1>1
<1>3. i \in Ids
  BY DEF IdsFor, Members, Ids
<1>4. CallsOf(a[2]) \subseteq Calls
  BY <1>2 DEF Calls
<1> QED
  BY <1>2, <1>3, <1>4

\* An answer is of its type.
LEMMA AnswerType ==
  ASSUME TypeOK, NEW r \in Requests,
         NEW a \in {"ok", "notFound", "forbidden", "unauthorized", "failed"}, Answer(r, a)
  PROVE  /\ at' \in [Requests -> {"idle", "called", "open", "missing", "answered"}]
         /\ answer' \in [Requests -> {"none", "ok", "notFound", "forbidden", "unauthorized", "failed"}]
         /\ left' \in [Requests -> SUBSET Calls]
         /\ \A q \in Requests \ {r} : at'[q] = at[q]
  BY DEF TypeOK, Answer

\* The steps of a request outside a transaction keep the invariant.
LEMMA SendInv ==
  ASSUME AccessInv, NEW r \in Requests, NEW a \in Asks[r], NEW i \in IdsFor(a[2]),
         Send(r, a[1], a[2], i)
  PROVE  AccessInv'
<1> DEFINE v == GatewayVerdict(RolesOf(a[1]), a[2])
<1>1. TypeOK /\ a[1] \in People \cup {Nobody} /\ a[2] \in Ops /\ i \in Ids /\ CallsOf(a[2]) \subseteq Calls
  BY AskedType DEF AccessInv
<1>2. /\ who' \in [Requests -> People \cup {Nobody}] /\ op' \in [Requests -> Ops \cup {None}]
      /\ id' \in [Requests -> Ids]
      /\ \A q \in Requests \ {r} : who'[q] = who[q] /\ id'[q] = id[q]
  BY <1>1 DEF Send, TypeOK
<1>3. /\ at' \in [Requests -> {"idle", "called", "open", "missing", "answered"}]
      /\ answer' \in [Requests -> {"none", "ok", "notFound", "forbidden", "unauthorized", "failed"}]
      /\ left' \in [Requests -> SUBSET Calls]
      /\ \A q \in Requests \ {r} : at'[q] = at[q]
  <2>1. CASE v = "pass"
    BY <2>1, <1>1 DEF Send, TypeOK
  <2>2. CASE v # "pass"
    <3>1. v \in {"unauthorized", "forbidden"} /\ Answer(r, v)
      BY <2>2, VerdictType DEF Send
    <3> QED
      BY <3>1, <1>1, AnswerType
  <2> QED
    BY <2>1, <2>2
<1>4. UNCHANGED <<doing, alarm, holder, setting, status>> /\ at[r] # "open"
  BY DEF Send
<1>5. TypeOK'
  BY <1>1, <1>2, <1>3, <1>4 DEF TypeOK
<1> QED
  BY <1>2, <1>3, <1>4, <1>5, ConnFrame DEF AccessInv

LEMMA OutsideInv ==
  ASSUME AccessInv, NEW r \in Requests, at[r] \in {"called", "missing"},
         UNCHANGED <<request, doing, holder, setting, status>>,
         at' \in [Requests -> {"idle", "called", "open", "missing", "answered"}],
         answer' \in [Requests -> {"none", "ok", "notFound", "forbidden", "unauthorized", "failed"}],
         left' \in [Requests -> SUBSET Calls],
         alarm' \in [Requests -> {"none", "quiet", "raised", "lost"}],
         \A q \in Requests \ {r} : at'[q] = at[q]
  PROVE  AccessInv'
<1>1. TypeOK'
  BY DEF AccessInv, TypeOK, request
<1>2. FreeIsClean' /\ HeldIsScoped' /\ OneEach'
  BY ConnFrame DEF request
<1> QED
  BY <1>1, <1>2 DEF AccessInv

LEMMA CalledInv ==
  ASSUME AccessInv, NEW r \in Requests,
         Lose(r) \/ Complete(r) \/ \E c \in left[r] : Deny(r, c) \/ ReadRegistry(r, c)
  PROVE  AccessInv'
<1>1. TypeOK /\ alarm' \in [Requests -> {"none", "quiet", "raised", "lost"}] /\ at[r] = "called"
      /\ UNCHANGED <<request, doing, holder, setting, status>>
  BY DEF AccessInv, TypeOK, Lose, Complete, Deny, ReadRegistry
<1>2. CASE Answer(r, "failed") \/ Answer(r, "ok") \/ Answer(r, "forbidden") \/ Answer(r, "notFound")
  BY <1>1, <1>2, AnswerType, OutsideInv
<1>3. CASE \E c \in left[r] : left' = [left EXCEPT ![r] = @ \ {c}] /\ UNCHANGED <<at, answer>>
  <2>1. left' \in [Requests -> SUBSET Calls]
    BY <1>1, <1>3 DEF TypeOK
  <2> QED
    BY <1>1, <1>3, <2>1, OutsideInv DEF TypeOK
<1> QED
  BY <1>2, <1>3 DEF Lose, Complete, Deny, ReadRegistry

LEMMA ProbeInv ==
  ASSUME AccessInv, NEW r \in Requests, Probe(r) \/ ProbeFails(r)
  PROVE  AccessInv'
<1>1. TypeOK /\ at[r] = "missing" /\ Answer(r, "notFound")
      /\ UNCHANGED <<request, doing, holder, setting, status>>
  BY DEF AccessInv, Probe, ProbeFails
<1>2. alarm' \in [Requests -> {"none", "quiet", "raised", "lost"}]
  BY <1>1 DEF Probe, ProbeFails, TypeOK
<1> QED
  BY <1>1, <1>2, AnswerType, OutsideInv

LEMMA ForgetInv ==
  ASSUME AccessInv, NEW r \in Requests, Forget(r)
  PROVE  AccessInv'
<1>1. TypeOK' /\ \A q \in Requests \ {r} : at'[q] = at[q] /\ who'[q] = who[q] /\ id'[q] = id[q]
  BY DEF AccessInv, Forget, TypeOK, Ids
<1>2. at[r] # "open" /\ UNCHANGED <<doing, holder, setting>>
  BY DEF Forget
<1> QED
  BY <1>1, <1>2, ConnFrame DEF AccessInv

-----------------------------------------------------------------------------
(* Steps inside a transaction *)

LEMMA BeginInv ==
  ASSUME AccessInv, NEW r \in Requests, NEW c \in left[r], NEW k \in Conns, Begin(r, c, k)
  PROVE  AccessInv'
<1>1. FreeIsClean' /\ HeldIsScoped' /\ OneEach' /\ setting' \in [Conns -> Orgs \cup {Unset, Reset}]
  BY ConnBegin
<1>2. TypeOK /\ c \in Calls
  BY DEF AccessInv, TypeOK
<1>3. TypeOK'
  BY <1>1, <1>2 DEF TypeOK, Begin, request
<1> QED
  BY <1>1, <1>3 DEF AccessInv

LEMMA EndInv ==
  ASSUME AccessInv, NEW r \in Requests, NEW k \in Conns, End(r, k), UNCHANGED alarm,
         at' \in [Requests -> {"idle", "called", "open", "missing", "answered"}],
         answer' \in [Requests -> {"none", "ok", "notFound", "forbidden", "unauthorized", "failed"}],
         left' \in [Requests -> SUBSET Calls],
         status' \in [Resources -> {"absent", "live", "deleted"}],
         \A q \in Requests \ {r} : at'[q] = at[q]
  PROVE  AccessInv'
<1>1. /\ FreeIsClean' /\ HeldIsScoped' /\ OneEach'
      /\ setting' \in [Conns -> Orgs \cup {Unset, Reset}]
      /\ holder' \in [Conns -> Requests \cup {None}]
  BY ConnEnd
<1>2. TypeOK'
  BY <1>1 DEF AccessInv, TypeOK, End, request
<1> QED
  BY <1>1, <1>2 DEF AccessInv

LEMMA InsideInv ==
  ASSUME AccessInv, NEW r \in Requests, NEW k \in Conns,
         \/ Miss(r, k) \/ Refuse(r, k) \/ Finish(r, k) \/ Abort(r, k)
         \/ \E x \in Resources : Create(r, k, x)
  PROVE  AccessInv'
<1>1. TypeOK /\ End(r, k) /\ UNCHANGED alarm
  BY DEF AccessInv, Miss, Refuse, Finish, Abort, Create
<1>2. CASE /\ UNCHANGED status
           /\ \E a \in {"unauthorized", "notFound", "forbidden", "failed"} : Answer(r, a)
  <2>1. status' \in [Resources -> {"absent", "live", "deleted"}]
    BY <1>1, <1>2 DEF TypeOK
  <2> QED
    BY <1>1, <1>2, <2>1, AnswerType, EndInv
<1>3. CASE /\ UNCHANGED <<left, answer>>
           /\ \E a \in {"missing", "called"} : at' = [at EXCEPT ![r] = a]
           /\ \/ UNCHANGED status
              \/ \E x \in Resources \cup {id[r]}, v \in {"live", "deleted"} : status' = [status EXCEPT ![x] = v]
  <2>1. status' \in [Resources -> {"absent", "live", "deleted"}]
    BY <1>1, <1>3 DEF TypeOK
  <2> QED
    BY <1>1, <1>3, <2>1, EndInv DEF TypeOK
<1>4. Miss(r, k) => \/ /\ UNCHANGED status
                       /\ \E a \in {"unauthorized", "notFound"} : Answer(r, a)
                    \/ UNCHANGED <<left, answer, status>> /\ at' = [at EXCEPT ![r] = "missing"]
  BY DEF Miss
<1>5. Finish(r, k) => /\ UNCHANGED <<left, answer>> /\ at' = [at EXCEPT ![r] = "called"]
                      /\ status' = status \/ status' = [status EXCEPT ![id[r]] = "deleted"]
  BY DEF Finish
<1> QED
  BY <1>2, <1>3, <1>4, <1>5 DEF Refuse, Abort, Create

-----------------------------------------------------------------------------
(* Foreign ids *)

\* No row a tenant is owed has a foreign id.
LEMMA ForeignOwedNothing ==
  ASSUME TypeOK, NEW r \in Requests, Foreign(r), doing[r] \in ByIdOps
  PROVE  Owed(r) = {}
<1> DEFINE t == TenantOf(who[r])
<1>1. Scope(who[r], doing[r], id[r]) = t /\ t # None /\ doing[r] \in ById
  BY DEF Foreign, Scope, UserOrganization, InvitationOrganization, FromRow, ByIdOps
<1>2. SUFFICES ASSUME NEW w \in Rows, w.key = id[r], w.org = t
               PROVE  FALSE
  BY <1>1 DEF Owed, Named
<1>3. CASE w \in UserRows
  BY <1>1, <1>2, <1>3, AccessAssumption DEF UserRows, Row, Members, Foreign
<1>4. CASE w \in InvitationRows \cup SubscriptionRows
  BY <1>1, <1>2, <1>4, AccessAssumption DEF InvitationRows, SubscriptionRows, Row, Foreign
<1>5. CASE w \in AuditRows
  BY <1>1, <1>2, <1>5, AccessAssumption DEF AuditRows, Row, Foreign
<1>6. CASE w \in ResourceRows
  BY <1>1, <1>2, <1>6, AccessAssumption DEF ResourceRows, Row, Foreign
<1> QED
  BY <1>2, <1>3, <1>4, <1>5, <1>6 DEF Rows

\* A foreign id is asked for by an operation on one row, and its only call is that operation.
LEMMA ForeignAsked ==
  ASSUME TypeOK, NEW r \in Requests, NEW a \in Asks[r], NEW i \in IdsFor(a[2]),
         Send(r, a[1], a[2], i), Foreign(r)'
  PROVE  op'[r] \in ByIdOps /\ CallsOf(a[2]) = {a[2]} /\ op'[r] = a[2]
<1>1. who'[r] = (IF a[2] \in Public THEN Nobody ELSE a[1]) /\ op'[r] = a[2] /\ id'[r] = i
  BY DEF Send, TypeOK
<1>2. a[2] \notin Public
  BY <1>1 DEF Foreign, TenantOf
<1>3. i # Unknown
  BY <1>1, AccessAssumption DEF Foreign
<1>4. a[2] \in {"users.get", "users.role", "users.remove", "invitations.revoke",
                "resources.get", "resources.remove"}
  BY <1>2, <1>3 DEF IdsFor, Public
<1> QED
  BY <1>1, <1>4 DEF ByIdOps, ById, FromRow, CallsOf

\* Inside its transaction a foreign id finds nothing.
LEMMA ForeignFindsNothing ==
  ASSUME AccessInv, NEW r \in Requests, NEW k \in Conns, Open(r, k), Foreign(r), doing[r] \in ByIdOps
  PROVE  Missing(r, k)
<1>1. Found(r, k) = {}
  BY InvSees, ForeignOwedNothing DEF SeesExactlyOwn, AccessInv
<1> QED
  BY <1>1 DEF Missing, Single, ByIdOps

\* A request that is left alone keeps its place.
Untouched(q) ==
  /\ at'[q] = at[q] /\ who'[q] = who[q] /\ op'[q] = op[q] /\ id'[q] = id[q]
  /\ left'[q] = left[q] /\ doing'[q] = doing[q] /\ alarm'[q] = alarm[q] /\ answer'[q] = answer[q]

LEMMA ForeignUntouched ==
  ASSUME NEW q \in Requests, KeptAt(q), Untouched(q)
  PROVE  KeptAt(q)' /\ LooksMissing(q)
  BY DEF KeptAt, ForeignWay, Foreign, Untouched, LooksMissing

LEMMA ForeignSend ==
  ASSUME AccessInv, NEW r \in Requests, KeptAt(r), NEW a \in Asks[r], NEW i \in IdsFor(a[2]),
         Send(r, a[1], a[2], i)
  PROVE  KeptAt(r)' /\ LooksMissing(r) /\ \A q \in Requests \ {r} : Untouched(q)
<1>1. TypeOK /\ at[r] = "idle" /\ alarm' = alarm /\ doing' = doing
  BY DEF AccessInv, Send
<1>2. at'[r] \in {"called", "answered"} /\ (at'[r] = "called" => left'[r] = CallsOf(a[2]))
  BY <1>1 DEF Send, Answer, TypeOK
<1>3. KeptAt(r)'
  BY <1>1, <1>2, ForeignAsked DEF KeptAt, ForeignWay
<1>4. \A q \in Requests \ {r} : Untouched(q)
  BY <1>1 DEF Send, Answer, TypeOK, Untouched
<1> QED
  BY <1>1, <1>3, <1>4 DEF LooksMissing

LEMMA ForeignCalled ==
  ASSUME AccessInv, NEW r \in Requests, KeptAt(r),
         Lose(r) \/ Complete(r) \/ \E c \in left[r] : Deny(r, c) \/ ReadRegistry(r, c)
  PROVE  KeptAt(r)' /\ LooksMissing(r) /\ \A q \in Requests \ {r} : Untouched(q)
<1>1. TypeOK /\ at[r] = "called" /\ alarm' = alarm /\ UNCHANGED <<request, doing, status>>
  BY DEF AccessInv, Lose, Complete, Deny, ReadRegistry
<1>2. \A q \in Requests \ {r} : Untouched(q)
  BY <1>1 DEF Lose, Complete, Deny, ReadRegistry, Answer, TypeOK, Untouched, request
<1>3. alarm'[r] = "none"
  BY <1>1 DEF KeptAt
<1>4. CASE Foreign(r) /\ ServiceAdmits(RolesOf(who[r]), op[r])
  <2>1. left[r] = {op[r]} /\ op[r] \in ByIdOps
    BY <1>1, <1>4 DEF KeptAt, ForeignWay
  <2>2. Protected(op[r])
    BY <2>1 DEF ByIdOps, ById, FromRow, Protected, Table
  <2>3. Lose(r)
    BY <1>4, <2>1, <2>2 DEF Complete, Deny, ReadRegistry
  <2>4. at'[r] = "answered" /\ answer'[r] = "failed"
    BY <1>1, <2>3 DEF Lose, Answer, TypeOK
  <2> QED
    BY <1>2, <1>3, <2>4 DEF KeptAt, LooksMissing, AnsweredAsMissing
<1>5. CASE ~(Foreign(r) /\ ServiceAdmits(RolesOf(who[r]), op[r]))
  <2>1. ~(Foreign(r)' /\ ServiceAdmits(RolesOf(who'[r]), op'[r]))
    BY <1>1, <1>5 DEF Foreign, request
  <2> QED
    BY <1>2, <1>3, <1>5, <2>1 DEF KeptAt, LooksMissing
<1> QED
  BY <1>4, <1>5

LEMMA ForeignProbe ==
  ASSUME AccessInv, NEW r \in Requests, KeptAt(r), Probe(r) \/ ProbeFails(r)
  PROVE  KeptAt(r)' /\ LooksMissing(r) /\ \A q \in Requests \ {r} : Untouched(q)
<1>1. TypeOK /\ at[r] = "missing" /\ Answer(r, "notFound") /\ UNCHANGED <<request, doing, status>>
  BY DEF AccessInv, Probe, ProbeFails
<1>2. at'[r] = "answered" /\ answer'[r] = "notFound"
  BY <1>1 DEF Answer, TypeOK
<1>3. alarm'[r] \in {"lost", IF Exists(id[r]) THEN "raised" ELSE "quiet"}
  BY <1>1 DEF Probe, ProbeFails, TypeOK
<1>4. id[r] = Unknown => ~Exists(id[r])
  BY AccessAssumption DEF Exists, UserExists, ResourceExists, Members
<1>5. \A q \in Requests \ {r} : Untouched(q)
  BY <1>1 DEF Probe, ProbeFails, Answer, TypeOK, Untouched, request
<1> QED
  BY <1>2, <1>3, <1>4, <1>5 DEF KeptAt, LooksMissing, AnsweredAsMissing

LEMMA ForeignForget ==
  ASSUME AccessInv, NEW r \in Requests, Forget(r)
  PROVE  KeptAt(r)' /\ LooksMissing(r) /\ \A q \in Requests \ {r} : Untouched(q)
<1>1. at'[r] = "idle" /\ alarm'[r] = "none" /\ answer'[r] = "none"
  BY DEF AccessInv, Forget, TypeOK
<1>2. \A q \in Requests \ {r} : Untouched(q)
  BY DEF AccessInv, Forget, TypeOK, Untouched
<1> QED
  BY <1>1, <1>2 DEF KeptAt, LooksMissing

LEMMA ForeignBegin ==
  ASSUME AccessInv, NEW r \in Requests, KeptAt(r), NEW c \in left[r], NEW k \in Conns, Begin(r, c, k)
  PROVE  KeptAt(r)' /\ LooksMissing(r) /\ \A q \in Requests \ {r} : Untouched(q)
<1>1. TypeOK /\ at[r] = "called" /\ UNCHANGED <<request, answer, alarm, status>>
  BY DEF AccessInv, Begin
<1>2. at'[r] = "open" /\ doing'[r] = c
  BY <1>1 DEF Begin, TypeOK
<1>3. \A q \in Requests \ {r} : Untouched(q)
  BY <1>1 DEF Begin, TypeOK, Untouched, request
<1>4. Foreign(r)' => Foreign(r)
  BY <1>1 DEF Foreign, request
<1>5. who'[r] = who[r] /\ op'[r] = op[r]
  BY <1>1 DEF request
<1> QED
  BY <1>1, <1>2, <1>3, <1>4, <1>5 DEF KeptAt, ForeignWay, LooksMissing

LEMMA ForeignInside ==
  ASSUME AccessInv, NEW r \in Requests, KeptAt(r), NEW k \in Conns,
         \/ Miss(r, k) \/ Refuse(r, k) \/ Finish(r, k) \/ Abort(r, k)
         \/ \E x \in Resources : Create(r, k, x)
  PROVE  KeptAt(r)' /\ LooksMissing(r) /\ \A q \in Requests \ {r} : Untouched(q)
<1>1. TypeOK /\ Open(r, k) /\ at[r] = "open" /\ UNCHANGED <<request, alarm>>
      /\ doing' = [doing EXCEPT ![r] = None]
  BY DEF AccessInv, Miss, Refuse, Finish, Abort, Create, End, Open
<1>2. \A q \in Requests \ {r} : Untouched(q)
  <2> SUFFICES ASSUME NEW q \in Requests \ {r} PROVE Untouched(q)
    OBVIOUS
  <2>1. at'[q] = at[q] /\ left'[q] = left[q] /\ answer'[q] = answer[q]
    BY <1>1 DEF Miss, Refuse, Finish, Abort, Create, Answer, TypeOK
  <2> QED
    BY <1>1, <2>1 DEF TypeOK, Untouched, request
<1>3. alarm'[r] = "none" /\ who'[r] = who[r] /\ op'[r] = op[r] /\ (Foreign(r)' <=> Foreign(r))
  BY <1>1 DEF KeptAt, request, Foreign
<1>4. CASE Foreign(r) /\ ServiceAdmits(RolesOf(who[r]), op[r])
  <2>1. doing[r] = op[r] /\ op[r] \in ByIdOps
    BY <1>1, <1>4 DEF KeptAt, ForeignWay
  <2>2. Missing(r, k)
    BY <1>1, <1>4, <2>1, ForeignFindsNothing
  <2>3. doing[r] # "resources.create" /\ doing[r] # "users.roleOf"
    BY <2>1 DEF ByIdOps, ById, FromRow
  <2>4. Miss(r, k) \/ Abort(r, k)
    BY <2>2, <2>3 DEF Refuse, Finish, Create
  <2>5. \/ at'[r] = "answered" /\ answer'[r] = "failed"
        \/ at'[r] = "answered" /\ answer'[r] = "notFound" /\ op[r] \notin Probed
        \/ at'[r] = "missing" /\ answer' = answer /\ op[r] \in Probed
    BY <1>1, <2>1, <2>3, <2>4 DEF Miss, Abort, Answer, TypeOK
  <2> QED
    BY <1>2, <1>3, <2>1, <2>5 DEF KeptAt, ForeignWay, LooksMissing, AnsweredAsMissing
<1>5. CASE ~(Foreign(r) /\ ServiceAdmits(RolesOf(who[r]), op[r]))
  BY <1>2, <1>3, <1>5 DEF KeptAt, LooksMissing
<1> QED
  BY <1>4, <1>5

-----------------------------------------------------------------------------
(* Theorems *)

LEMMA InitInv == Init => AccessInv
<1> SUFFICES ASSUME Init PROVE AccessInv
  OBVIOUS
<1>1. TypeOK
  BY DEF Init, TypeOK, Ids
<1>2. FreeIsClean /\ HeldIsScoped /\ OneEach
  BY DEF Init, FreeIsClean, HeldIsScoped, OneEach
<1> QED
  BY <1>1, <1>2 DEF AccessInv

LEMMA StutterInv == AccessInv /\ UNCHANGED vars => AccessInv'
<1> SUFFICES ASSUME AccessInv, UNCHANGED vars PROVE AccessInv'
  OBVIOUS
<1>1. TypeOK'
  BY DEF AccessInv, TypeOK, vars
<1>2. FreeIsClean' /\ HeldIsScoped' /\ OneEach'
  BY DEF AccessInv, FreeIsClean, HeldIsScoped, OneEach, vars
<1> QED
  BY <1>1, <1>2 DEF AccessInv

LEMMA NextInv == AccessInv /\ [Next]_vars => AccessInv'
  BY SendInv, CalledInv, ProbeInv, ForgetInv, BeginInv, InsideInv, StutterInv DEF Next

\* The strengthening of the properties that every step preserves.
THEOREM AccessInvariant == Spec => []AccessInv
  BY InitInv, NextInv, PTL DEF Spec

LEMMA ForeignInit == Init => ForeignKept
  BY DEF Init, ForeignKept, KeptAt

LEMMA ForeignNext ==
  ASSUME AccessInv, ForeignKept, [Next]_vars
  PROVE  ForeignKept' /\ \A r \in Requests : LooksMissing(r)
<1>1. CASE UNCHANGED vars
  <2>1. \A q \in Requests : Untouched(q)
    BY <1>1 DEF vars, Untouched
  <2> QED
    BY <2>1, ForeignUntouched DEF ForeignKept
<1>2. CASE Next
  <2>1. PICK r \in Requests :
          KeptAt(r)' /\ LooksMissing(r) /\ \A q \in Requests \ {r} : Untouched(q)
    BY <1>2, ForeignSend, ForeignCalled, ForeignProbe, ForeignForget, ForeignBegin, ForeignInside
       DEF Next, ForeignKept
  <2> QED
    BY <2>1, ForeignUntouched DEF ForeignKept
<1> QED
  BY <1>1, <1>2

\* Every variable has its type.
THEOREM AccessTypes == Spec => []TypeOK
<1>1. AccessInv => TypeOK
  BY DEF AccessInv
<1> QED
  BY <1>1, AccessInvariant, PTL

\* Tenant isolation: a transaction finds its caller's rows, all of them and no others.
THEOREM TenantIsolation == Spec => []SeesExactlyOwn
  BY InvSees, AccessInvariant, PTL

\* No existence oracle: a foreign id is answered as an unknown one is, and only the alarm differs.
THEOREM NoExistenceOracle == Spec => ForeignLooksMissing
<1>1. AccessInv /\ ForeignKept /\ [Next]_vars => ForeignKept'
  BY ForeignNext
<1>2. AccessInv /\ ForeignKept /\ [Next]_vars => [\A r \in Requests : LooksMissing(r)]_vars
  BY ForeignNext
<1> QED
  BY <1>1, <1>2, ForeignInit, AccessInvariant, PTL DEF Spec, ForeignLooksMissing
-----------------------------------------------------------------------------
(* Abilities *)

\* The last rule that matches decides.
LEMMA LastDecides ==
  ASSUME NEW roles, NEW need, NEW rules, rules = RulesOf(roles), DOMAIN rules \subseteq Int,
         NEW last \in DOMAIN rules, Matches(rules[last], need), rules[last].allows,
         \A i \in DOMAIN rules : Matches(rules[i], need) => i <= last
  PROVE  Able(roles, need)
<1> DEFINE hits == {i \in DOMAIN rules : Matches(rules[i], need)}
<1>1. last \in hits /\ \A i \in hits : last >= i /\ i \in Int
  OBVIOUS
<1>2. Max(hits) = last
  BY <1>1 DEF Max
<1> QED
  BY <1>1, <1>2 DEF Able

\* A user with one role has the rules of that role.
LEMMA RulesOfOne ==
  /\ RulesOf({"platform_admin"}) = PlatformRules
  /\ RulesOf({"org_admin"}) = AdminRules
  /\ RulesOf({"org_member"}) = MemberRules
<1>1. RulesOf({"platform_admin"}) = PlatformRules \o <<>> \o <<>>
  BY DEF RulesOf
<1>2. RulesOf({"org_admin"}) = <<>> \o AdminRules \o <<>>
  BY DEF RulesOf
<1>3. RulesOf({"org_member"}) = <<>> \o <<>> \o MemberRules
  BY DEF RulesOf
<1> QED
  BY <1>1, <1>2, <1>3 DEF PlatformRules, AdminRules, MemberRules

\* What each role is able to do, of what its pages ask for.
LEMMA PlatformAble ==
  ASSUME NEW need \in {Need("read", "organization"), Need("read", "audit")}
  PROVE  Able({"platform_admin"}, need)
<1> DEFINE last == IF need = Need("read", "organization") THEN 1 ELSE 5
<1>1. DOMAIN PlatformRules = 1..7
  BY DEF PlatformRules
<1>2. Matches(PlatformRules[last], need) /\ PlatformRules[last].allows
  BY DEF PlatformRules, Can, Cannot, Matches, Need
<1>3. \A i \in 1..7 : Matches(PlatformRules[i], need) => i = last
  BY DEF PlatformRules, Can, Cannot, Matches, Need
<1> QED
  BY <1>1, <1>2, <1>3, LastDecides, RulesOfOne

LEMMA AdminAble ==
  ASSUME NEW need,
         \/ need.subject \in {"user", "resource"}
         \/ need \in {Need("read", "organization"), Need("read", "subscription"),
                      Need("update", "subscription"), Need("read", "audit")}
  PROVE  Able({"org_admin"}, need)
<1> DEFINE last == CASE need.subject = "user" -> 1 [] need.subject = "resource" -> 2
                     [] need.subject = "organization" -> 3 [] need.subject = "audit" -> 6
                     [] OTHER -> IF need.action = "read" THEN 4 ELSE 5
<1>1. DOMAIN AdminRules = 1..7
  BY DEF AdminRules
<1>2. Matches(AdminRules[last], need) /\ AdminRules[last].allows
  BY DEF AdminRules, Can, Matches, Need
<1>3. \A i \in 1..7 : Matches(AdminRules[i], need) => i = last
  BY DEF AdminRules, Can, Matches, Need
<1>4. last \in 1..7
  OBVIOUS
<1> QED
  BY <1>1, <1>2, <1>3, <1>4, LastDecides, RulesOfOne

LEMMA MemberAble ==
  ASSUME NEW need \in {Need("read", "organization"), Need("read", "subscription"), Need("read", "user"),
                       Need("read", "resource"), Need("create", "resource"), Need("delete", "resource")}
  PROVE  Able({"org_member"}, need)
<1> DEFINE last == CASE need.subject = "organization" -> 6 [] need.subject = "subscription" -> 7
                     [] need.subject = "user" -> 5
                     [] OTHER -> CASE need.action = "read" -> 1 [] need.action = "create" -> 2
                                   [] OTHER -> 4
<1>1. DOMAIN MemberRules = 1..10
  BY DEF MemberRules
<1>2. Matches(MemberRules[last], need) /\ MemberRules[last].allows
  BY DEF MemberRules, Can, Cannot, Matches, Need
<1>3. \A i \in 1..10 : Matches(MemberRules[i], need) => i = last
  BY DEF MemberRules, Can, Cannot, Matches, Need
<1>4. last \in 1..10
  BY DEF Need
<1> QED
  BY <1>1, <1>2, <1>3, <1>4, LastDecides, RulesOfOne

\* What the guard of each service asks for.
LEMMA AbilityOf ==
  ASSUME NEW table \in Abilities, NEW c \in DOMAIN table
  PROVE  \/ table = TenantAbilities /\ table[c] = Need("read", "organization")
         \/ /\ table = SubscriptionAbilities
            /\ table[c] = Need(IF c = "subscriptions.change" THEN "update" ELSE "read", "subscription")
         \/ table = UserAbilities /\ \E a : table[c] = Need(a, "user") /\ (c = "users.list" => a = "read")
         \/ /\ table = InvitationAbilities
            /\ table[c] = Need(IF c = "invitations.revoke" THEN "delete" ELSE "read", "user")
         \/ /\ table = ResourceAbilities
            /\ \E a \in {"create", "delete", "read"} : table[c] = Need(a, "resource")
         \/ table = AuditAbilities /\ table[c] = Need("read", "audit")
<1>1. CASE table = TenantAbilities
  BY <1>1 DEF TenantAbilities
<1>2. CASE table = SubscriptionAbilities
  BY <1>2 DEF SubscriptionAbilities
<1>3. CASE table = UserAbilities
  BY <1>3 DEF UserAbilities
<1>4. CASE table = InvitationAbilities
  BY <1>4 DEF InvitationAbilities
<1>5. CASE table = ResourceAbilities
  BY <1>5 DEF ResourceAbilities
<1>6. CASE table = AuditAbilities
  BY <1>6 DEF AuditAbilities
<1> QED
  BY <1>1, <1>2, <1>3, <1>4, <1>5, <1>6 DEF Abilities

\* An admin is admitted to all but the platform's own calls.
LEMMA AdminAdmitted ==
  ASSUME NEW c, c \notin PlatformOnly
  PROVE  ServiceAdmits({"org_admin"}, c)
<1> SUFFICES ASSUME NEW table \in Abilities, c \in DOMAIN table
             PROVE  Able({"org_admin"}, table[c])
  BY DEF ServiceAdmits
<1>1. \/ table[c].subject \in {"user", "resource"}
      \/ table[c] \in {Need("read", "organization"), Need("read", "subscription"),
                       Need("update", "subscription"), Need("read", "audit")}
  BY AbilityOf DEF Need
<1> QED
  BY <1>1, AdminAble

\* A member, to the organisation, the plan, the people and the resources.
LEMMA MemberAdmitted ==
  ASSUME NEW c \in {"organizations.me", "subscriptions.current", "users.list", "invitations.accept"}
                   \cup ResourceRoutes
  PROVE  ServiceAdmits({"org_member"}, c)
<1>1. c \notin PlatformOnly
  BY DEF PlatformOnly, ResourceRoutes
<1>2. SUFFICES ASSUME NEW table \in Abilities, c \in DOMAIN table
               PROVE  Able({"org_member"}, table[c])
  BY <1>1 DEF ServiceAdmits
<1>3. table \in {TenantAbilities, SubscriptionAbilities, UserAbilities, ResourceAbilities}
  BY <1>2 DEF Abilities, InvitationAbilities, AuditAbilities, ResourceRoutes
<1>4. CASE table = TenantAbilities \/ table = ResourceAbilities
  BY <1>2, <1>4, MemberAble DEF TenantAbilities, ResourceAbilities
<1>5. CASE table = SubscriptionAbilities
  BY <1>2, <1>5, MemberAble DEF SubscriptionAbilities, ResourceRoutes
<1>6. CASE table = UserAbilities
  BY <1>2, <1>6, MemberAble DEF UserAbilities, ResourceRoutes
<1> QED
  BY <1>3, <1>4, <1>5, <1>6

LEMMA PlatformAdmitted ==
  ASSUME NEW c \in PlatformOnly \cup {"usage.aggregate", "invitations.accept"}
  PROVE  ServiceAdmits({"platform_admin"}, c)
<1>1. SUFFICES ASSUME NEW table \in Abilities, c \in DOMAIN table
               PROVE  Able({"platform_admin"}, table[c])
  BY DEF ServiceAdmits
<1>2. table \in {TenantAbilities, AuditAbilities}
  BY <1>1 DEF Abilities, PlatformOnly, SubscriptionAbilities, UserAbilities, InvitationAbilities,
              ResourceAbilities
<1> QED
  BY <1>1, <1>2, PlatformAble DEF TenantAbilities, AuditAbilities

LEMMA PublicAdmitted ==
  ASSUME NEW o \in Public, NEW c \in CallsOf(o), NEW roles
  PROVE  ServiceAdmits(roles, c)
<1>1. c \in {"users.roleOf", "invitations.accept"}
  BY DEF Public, CallsOf
<1>2. \A table \in Abilities : c \notin DOMAIN table
  BY <1>1 DEF Abilities, TenantAbilities, SubscriptionAbilities, UserAbilities, InvitationAbilities,
              ResourceAbilities, AuditAbilities
<1> QED
  BY <1>1, <1>2 DEF ServiceAdmits, PlatformOnly

\* What a page offers its user, the services admit, but for a member's audit page.
LEMMA OfferedAdmitted ==
  ASSUME NEW role \in Roles, NEW o \in Offered(role), NEW c \in CallsOf(o),
         ~(role = "org_member" /\ o = "audit.list")
  PROVE  ServiceAdmits({role}, c)
<1>1. CASE role = "org_admin"
  <2>1. o \notin PlatformOnly /\ o # "organizations.get"
    BY <1>1 DEF Offered, PlatformOnly, AcceptInvitePage, PublicOnlyRoute, TenantRoute, PlatformAdminRoute,
       TenantShell, StorageUpsellCard, UserMenu, DashboardPage, QuickActionsPanel, ResourcesPage,
       ResourceFormDialog, ResourceDetailPage, AuditPage, OrgAdminRoute, UsersPage, InviteUserDialog,
       PlanPage
  <2>2. c \notin PlatformOnly
    BY <2>1 DEF CallsOf, PlatformOnly
  <2> QED
    BY <1>1, <2>2, AdminAdmitted
<1>2. CASE role = "org_member"
  <2>1. o \in {"organizations.me", "subscriptions.current", "auth.logout", "dashboard", "invitations.accept"}
              \cup ResourceRoutes
    BY <1>2 DEF Offered, AcceptInvitePage, PublicOnlyRoute, TenantRoute, PlatformAdminRoute,
       TenantShell, StorageUpsellCard, UserMenu, DashboardPage, ResourcesPage,
       ResourceFormDialog, ResourceDetailPage, AuditPage, OrgAdminRoute, ResourceRoutes
  <2>2. c \in {"organizations.me", "subscriptions.current", "users.list", "invitations.accept"}
              \cup ResourceRoutes
    BY <2>1 DEF CallsOf, ResourceRoutes
  <2> QED
    BY <1>2, <2>2, MemberAdmitted
<1>3. CASE role = "platform_admin"
  <2>1. o \in PlatformOnly \cup {"usage.aggregate", "auth.logout", "invitations.accept"}
    BY <1>3 DEF Offered, PlatformOnly, AcceptInvitePage, PublicOnlyRoute, TenantRoute, PlatformAdminRoute,
       AdminShell, UserMenu, AdminOrganizationsPage, AdminOrganizationDetailPage, AdminSecurityPage
  <2>2. c \in PlatformOnly \cup {"usage.aggregate", "invitations.accept"}
    BY <2>1 DEF CallsOf, PlatformOnly
  <2> QED
    BY <1>3, <2>2, PlatformAdmitted
<1> QED
  BY <1>1, <1>2, <1>3 DEF Roles

\* What is offered to a visitor needs no token.
LEMMA VisitorOffered == Offered("visitor") \subseteq Public
  BY DEF Offered, AcceptInvitePage, PublicOnlyRoute, LoginPage, SignupPage, TenantRoute,
         PlatformAdminRoute, Public

\* The platform's routes are offered to platform admins only.
LEMMA PlatformOffered ==
  /\ Offered("org_admin") \cap Platform = {}
  /\ Offered("org_member") \cap Platform = {}
  BY DEF Offered, Platform, AcceptInvitePage, PublicOnlyRoute, TenantRoute, PlatformAdminRoute,
         TenantShell, StorageUpsellCard, UserMenu, DashboardPage, QuickActionsPanel, ResourcesPage,
         ResourceFormDialog, ResourceDetailPage, AuditPage, OrgAdminRoute, UsersPage, InviteUserDialog,
         PlanPage

\* The gateway lets pass what is offered.
LEMMA GatewayPasses ==
  ASSUME NEW p \in People, NEW o \in Offered(RoleOf[p])
  PROVE  GatewayVerdict(RolesOf(p), o) = "pass"
<1>1. RoleOf[p] \in Roles /\ RolesOf(p) = {RoleOf[p]}
  BY AccessAssumption DEF RolesOf
<1>2. o \in Platform => RoleOf[p] = "platform_admin"
  BY <1>1, PlatformOffered DEF Roles
<1> QED
  BY <1>1, <1>2 DEF GatewayVerdict

-----------------------------------------------------------------------------
(* The way of a request *)

LEMMA TravelsUntouched ==
  ASSUME NEW q \in Requests, OnItsWay(q), Permitted(q), Untouched(q)
  PROVE  OnItsWay(q)' /\ Permitted(q)'
<1>1. RoleShown(q)' = RoleShown(q)
  BY DEF RoleShown, Untouched
<1> QED
  BY <1>1 DEF OnItsWay, Permitted, TurnedAway, Untouched

LEMMA TravelsSend ==
  ASSUME AccessInv, NEW r \in Requests, OnItsWay(r), NEW a \in Asks[r], NEW i \in IdsFor(a[2]),
         Send(r, a[1], a[2], i)
  PROVE  OnItsWay(r)' /\ Permitted(r)'
<1> DEFINE p == a[1]
           o == a[2]
           verdict == GatewayVerdict(RolesOf(p), o)
<1>1. TypeOK /\ at[r] = "idle" /\ answer[r] = "none" /\ p \in People \cup {Nobody} /\ o \in Ops
  BY AccessAssumption DEF AccessInv, Send, OnItsWay
<1>2. who'[r] = (IF o \in Public THEN Nobody ELSE p) /\ op'[r] = o
  BY <1>1 DEF Send, TypeOK
<1>3. CASE verdict = "pass"
  <2>1. at'[r] = "called" /\ left'[r] = CallsOf(o) /\ answer'[r] = "none"
    BY <1>1, <1>3 DEF Send, TypeOK
  <2>2. p = Nobody => o \in Public
    BY <1>3 DEF GatewayVerdict, RolesOf
  <2>3. OnItsWay(r)'
    BY <1>1, <1>2, <2>1, <2>2 DEF OnItsWay
  <2>4. Permitted(r)'
    BY <2>1 DEF Permitted, TurnedAway
  <2> QED
    BY <2>3, <2>4
<1>4. CASE verdict # "pass"
  <2>1. at'[r] = "answered"
    BY <1>1, <1>4 DEF Send, Answer, TypeOK
  <2>2. RoleShown(r)' = (IF who'[r] = Nobody THEN "visitor" ELSE RoleOf[who'[r]])
    BY DEF RoleShown
  <2>3. o \notin Offered(RoleShown(r)')
    <3>1. o \notin Public /\ who'[r] = p
      BY <1>2, <1>4 DEF GatewayVerdict
    <3>2. CASE p = Nobody
      BY <2>2, <3>1, <3>2, VisitorOffered
    <3>3. CASE p \in People
      BY <1>4, <2>2, <3>1, <3>3, AccessAssumption, GatewayPasses
    <3> QED
      BY <1>1, <3>2, <3>3
  <2>4. Permitted(r)'
    BY <1>2, <2>3 DEF Permitted
  <2>5. OnItsWay(r)'
    BY <2>1 DEF OnItsWay
  <2> QED
    BY <2>4, <2>5
<1> QED
  BY <1>3, <1>4

\* A service denies what was not offered, or a member's audit page.
LEMMA DeniedUnoffered ==
  ASSUME AccessInv, NEW r \in Requests, OnItsWay(r), at[r] = "called", NEW c \in left[r],
         ~ServiceAdmits(RolesOf(who[r]), c), op[r] \in Offered(RoleShown(r))
  PROVE  RoleShown(r) = "org_member" /\ op[r] = "audit.list"
<1>1. TypeOK /\ c \in CallsOf(op[r]) /\ (who[r] = Nobody => op[r] \in Public)
  BY DEF AccessInv, OnItsWay
<1>2. who[r] # Nobody
  BY <1>1, PublicAdmitted
<1>3. who[r] \in People /\ RoleOf[who[r]] \in Roles /\ RoleShown(r) = RoleOf[who[r]]
      /\ RolesOf(who[r]) = {RoleOf[who[r]]}
  BY <1>1, <1>2, AccessAssumption DEF TypeOK, RoleShown, RolesOf
<1> QED
  BY <1>1, <1>3, OfferedAdmitted

LEMMA TravelsCalled ==
  ASSUME AccessInv, NEW r \in Requests, OnItsWay(r),
         Lose(r) \/ Complete(r) \/ \E c \in left[r] : Deny(r, c) \/ ReadRegistry(r, c)
  PROVE  OnItsWay(r)' /\ Permitted(r)'
<1>1. TypeOK /\ at[r] = "called" /\ answer[r] = "none" /\ who'[r] = who[r] /\ op'[r] = op[r] /\ id' = id
  BY DEF AccessInv, OnItsWay, Lose, Complete, Deny, ReadRegistry, request
<1>2. CASE \E c \in left[r] : Deny(r, c)
  <2>1. at'[r] = "answered"
    BY <1>1, <1>2 DEF Deny, Answer, TypeOK
  <2>2. op[r] \in Offered(RoleShown(r)) => RoleShown(r) = "org_member" /\ op[r] = "audit.list"
    BY <1>1, <1>2, DeniedUnoffered DEF Deny
  <2>3. RoleShown(r)' = RoleShown(r)
    BY <1>1 DEF RoleShown
  <2> QED
    BY <1>1, <2>1, <2>2, <2>3 DEF OnItsWay, Permitted
<1>3. CASE Lose(r) \/ Complete(r)
  <2>1. at'[r] = "answered" /\ answer'[r] \in {"failed", "ok"}
    BY <1>1, <1>3 DEF Lose, Complete, Answer, TypeOK
  <2> QED
    BY <2>1 DEF OnItsWay, Permitted, TurnedAway
<1>4. CASE \E c \in left[r] : ReadRegistry(r, c)
  <2>1. \/ at'[r] = "answered" /\ answer'[r] = "notFound"
        \/ at'[r] = "called" /\ answer'[r] = "none" /\ left'[r] \subseteq left[r]
    BY <1>1, <1>4 DEF ReadRegistry, Answer, TypeOK
  <2> QED
    BY <1>1, <2>1 DEF OnItsWay, Permitted, TurnedAway
<1> QED
  BY <1>2, <1>3, <1>4

LEMMA TravelsProbe ==
  ASSUME AccessInv, NEW r \in Requests, Probe(r) \/ ProbeFails(r) \/ Forget(r)
  PROVE  OnItsWay(r)' /\ Permitted(r)'
<1>1. \/ at'[r] = "answered" /\ answer'[r] = "notFound"
      \/ at'[r] = "idle" /\ answer'[r] = "none"
  BY DEF AccessInv, TypeOK, Probe, ProbeFails, Forget, Answer
<1> QED
  BY <1>1 DEF OnItsWay, Permitted, TurnedAway

LEMMA TravelsBegin ==
  ASSUME AccessInv, NEW r \in Requests, OnItsWay(r), NEW c \in left[r], NEW k \in Conns, Begin(r, c, k)
  PROVE  OnItsWay(r)' /\ Permitted(r)'
<1>1. TypeOK /\ at[r] = "called" /\ answer[r] = "none" /\ UNCHANGED <<request, answer>>
  BY DEF AccessInv, OnItsWay, Begin
<1>2. at'[r] = "open" /\ doing'[r] = c /\ left'[r] \subseteq left[r]
  BY <1>1 DEF Begin, TypeOK
<1> QED
  BY <1>1, <1>2 DEF OnItsWay, Permitted, TurnedAway, request

\* Only a resource somebody else created is refused to a member who asks to remove it.
LEMMA RefusedForeignWork ==
  ASSUME AccessInv, NEW r \in Requests, OnItsWay(r), at[r] = "open", ~MayModify(r),
         op[r] \in Offered(RoleShown(r))
  PROVE  RoleShown(r) = "org_member" /\ op[r] = "resources.remove" /\ CreatorOf[id[r]] # who[r]
<1>1. TypeOK /\ doing[r] = "resources.remove" /\ CreatorOf[id[r]] # who[r] /\ RoleOf[who[r]] # "org_admin"
  BY DEF AccessInv, MayModify
<1>2. op[r] = "resources.remove"
  BY <1>1 DEF OnItsWay, CallsOf
<1>3. who[r] # Nobody
  BY <1>2 DEF OnItsWay, Public
<1>4. who[r] \in People /\ RoleOf[who[r]] \in Roles /\ RoleShown(r) = RoleOf[who[r]]
  BY <1>1, <1>3, AccessAssumption DEF TypeOK, RoleShown
<1>5. "resources.remove" \notin Offered("platform_admin")
  BY DEF Offered, AcceptInvitePage, PublicOnlyRoute, TenantRoute, PlatformAdminRoute, AdminShell,
         UserMenu, AdminOrganizationsPage, AdminOrganizationDetailPage, AdminSecurityPage
<1> QED
  BY <1>1, <1>2, <1>4, <1>5 DEF Roles

LEMMA TravelsInside ==
  ASSUME AccessInv, NEW r \in Requests, OnItsWay(r), NEW k \in Conns,
         \/ Miss(r, k) \/ Refuse(r, k) \/ Finish(r, k) \/ Abort(r, k)
         \/ \E x \in Resources : Create(r, k, x)
  PROVE  OnItsWay(r)' /\ Permitted(r)'
<1>1. TypeOK /\ at[r] = "open" /\ answer[r] = "none" /\ who' = who /\ op' = op /\ id' = id
  BY DEF AccessInv, OnItsWay, Miss, Refuse, Finish, Abort, Create, End, Open, request
<1>2. CASE Refuse(r, k)
  <2>1. at'[r] = "answered"
    BY <1>1, <1>2 DEF Refuse, Answer, TypeOK
  <2>2. RoleShown(r)' = RoleShown(r)
    BY <1>1 DEF RoleShown
  <2> QED
    BY <1>1, <1>2, <2>1, <2>2, RefusedForeignWork DEF Refuse, OnItsWay, Permitted
<1>3. CASE Miss(r, k) /\ doing[r] = "users.roleOf"
  <2>1. at'[r] = "answered" /\ answer'[r] = "unauthorized"
    BY <1>1, <1>3 DEF Miss, Answer, TypeOK, Probed
  <2>2. op[r] \in AuthRoutes
    BY <1>1, <1>3 DEF OnItsWay, CallsOf, Ops, AuthRoutes, OnboardingRoutes, InvitationRoutes,
       OrganizationRoutes, UserRoutes, SubscriptionRoutes, ResourceRoutes, AuditRoutes, DashboardRoutes
  <2> QED
    BY <1>1, <2>1, <2>2 DEF OnItsWay, Permitted, TurnedAway
<1>4. CASE Abort(r, k) \/ (Miss(r, k) /\ doing[r] # "users.roleOf")
  <2>1. \/ at'[r] = "answered" /\ answer'[r] \in {"failed", "notFound"}
        \/ at'[r] = "missing" /\ answer'[r] = "none"
    BY <1>1, <1>4 DEF Miss, Abort, Answer, TypeOK
  <2> QED
    BY <2>1 DEF OnItsWay, Permitted, TurnedAway
<1>5. CASE Finish(r, k) \/ \E x \in Resources : Create(r, k, x)
  <2>1. at'[r] = "called" /\ answer'[r] = "none" /\ left' = left
    BY <1>1, <1>5 DEF Finish, Create, TypeOK
  <2> QED
    BY <1>1, <2>1 DEF OnItsWay, Permitted, TurnedAway
<1> QED
  BY <1>2, <1>3, <1>4, <1>5

LEMMA PermissionInit == Init => PermissionInv
  BY DEF Init, PermissionInv, Travels, OnItsWay, OfferedIsPermitted, Permitted, TurnedAway

LEMMA PermissionNext ==
  ASSUME AccessInv, ForeignKept, PermissionInv, [Next]_vars
  PROVE  PermissionInv'
<1> USE DEF PermissionInv, Travels, OfferedIsPermitted
<1>1. CASE UNCHANGED vars
  <2>1. \A q \in Requests : Untouched(q)
    BY <1>1 DEF vars, Untouched
  <2> QED
    BY <2>1, TravelsUntouched
<1>2. CASE Next
  <2>1. PICK r \in Requests :
          /\ OnItsWay(r)' /\ Permitted(r)'
          /\ \A q \in Requests \ {r} : Untouched(q)
    <3>1. \A r \in Requests : KeptAt(r) /\ OnItsWay(r) /\ Permitted(r)
      BY DEF ForeignKept
    <3> QED
      BY <1>2, <3>1, ForeignSend, ForeignCalled, ForeignProbe, ForeignForget, ForeignBegin, ForeignInside,
         TravelsSend, TravelsCalled, TravelsProbe, TravelsBegin, TravelsInside DEF Next
  <2> QED
    BY <2>1, TravelsUntouched
<1> QED
  BY <1>1, <1>2

\* The three tables agree: for any people, roles and requests, whoever is turned away was not offered
\* what he asked for, with the two exceptions.
THEOREM PagesKeepToPermissions == Spec => []OfferedIsPermitted
<1>1. AccessInv /\ ForeignKept /\ [Next]_vars => ForeignKept'
  BY ForeignNext
<1>2. AccessInv /\ ForeignKept /\ PermissionInv /\ [Next]_vars => PermissionInv'
  BY PermissionNext
<1>3. PermissionInv => OfferedIsPermitted
  BY DEF PermissionInv
<1> QED
  BY <1>1, <1>2, <1>3, ForeignInit, PermissionInit, AccessInvariant, PTL DEF Spec
=============================================================================
