---------------------------- MODULE SessionsProofs ----------------------------
(***************************************************************************)
(* SessionsInv is an invariant of Sessions, for any tabs, requests, calls  *)
(* and bounds; with it, the safety properties of SessionsProps.            *)
(***************************************************************************)
EXTENDS SessionsProps, FiniteSetTheorems, TLAPS

-----------------------------------------------------------------------------
(* Numbers of tokens *)

LEMMA Bounds ==
  /\ MaxTokens \in Nat /\ MaxFaults \in Nat
  /\ NoCall \notin Calls /\ NoTab \notin Tabs
  /\ 0 \in Held /\ Tokens \subseteq Held
  BY SessionsAssumption DEF Held, Tokens

LEMMA HeldIsToken == \A t \in Held : t # 0 => t \in Tokens
  BY SessionsAssumption DEF Held, Tokens

-----------------------------------------------------------------------------
(* Types *)

CallType  == [at : Ats, tab : Tabs \cup {NoTab}, token : Held, answer : Held]
QueryType == [at : {"idle", "sent", "waiting", "denied", "notDenied"}, token : Held,
              retried : BOOLEAN, body : Held]

CallIs(a, b, t, u)  == [at |-> a, tab |-> b, token |-> t, answer |-> u]
QueryIs(a, t, r, u) == [at |-> a, token |-> t, retried |-> r, body |-> u]

\* The records after an update of one or two of their fields, field by field.
LEMMA CallUpdates ==
  ASSUME NEW r \in CallType, NEW a, NEW u
  PROVE  /\ [r EXCEPT !.at = a] = CallIs(a, r.tab, r.token, r.answer)
         /\ [r EXCEPT !.tab = u] = CallIs(r.at, u, r.token, r.answer)
         /\ [r EXCEPT !.at = a, !.answer = u] = CallIs(a, r.tab, r.token, u)
<1>1. [r EXCEPT !.at = a] = CallIs(a, r.tab, r.token, r.answer)
  BY DEF CallType, CallIs
<1>2. [r EXCEPT !.tab = u] = CallIs(r.at, u, r.token, r.answer)
  BY DEF CallType, CallIs
<1>3. [CallIs(a, r.tab, r.token, r.answer) EXCEPT !.answer = u] = CallIs(a, r.tab, r.token, u)
  BY DEF CallIs
<1> QED
  BY <1>1, <1>2, <1>3

LEMMA QueryUpdates ==
  ASSUME NEW r \in QueryType, NEW a, NEW t
  PROVE  /\ [r EXCEPT !.at = a] = QueryIs(a, r.token, r.retried, r.body)
         /\ [r EXCEPT !.at = a, !.retried = TRUE] = QueryIs(a, r.token, TRUE, r.body)
         /\ [r EXCEPT !.at = a, !.token = t] = QueryIs(a, t, r.retried, r.body)
<1>1. [r EXCEPT !.at = a] = QueryIs(a, r.token, r.retried, r.body)
  BY DEF QueryType, QueryIs
<1>2. [QueryIs(a, r.token, r.retried, r.body) EXCEPT !.retried = TRUE] = QueryIs(a, r.token, TRUE, r.body)
  <2>1. ASSUME NEW v
        PROVE  [QueryIs(a, r.token, r.retried, r.body) EXCEPT !.retried = v] = QueryIs(a, r.token, v, r.body)
    BY DEF QueryIs
  <2> QED
    BY <2>1
<1>3. [QueryIs(a, r.token, r.retried, r.body) EXCEPT !.token = t] = QueryIs(a, t, r.retried, r.body)
  BY DEF QueryIs
<1> QED
  BY <1>1, <1>2, <1>3

LEMMA RecordTypes ==
  ASSUME TypeOK
  PROVE  /\ call \in [Calls -> CallType] /\ query \in [Tabs -> [Queries -> QueryType]]
         /\ \A c \in Calls : call[c] \in CallType
         /\ \A b \in Tabs, q \in Queries : query[b][q] \in QueryType
  BY DEF TypeOK, CallType, QueryType

\* Where a call and a request go.
MoveCall(c, a, b, u)  == call' = [call EXCEPT ![c] = CallIs(a, b, call[c].token, u)]

LEMMA CallSteps ==
  ASSUME TypeOK, NEW c \in Calls
  PROVE  /\ FindToken(c) =>
              \/ MoveCall(c, "reuse", call[c].tab, call[c].answer) /\ row[call[c].token] = "revoked"
              \/ MoveCall(c, "roles", call[c].tab, call[c].answer) /\ row[call[c].token] # "revoked"
         /\ RevokeFamily(c) \/ RefuseRefresh(c) => MoveCall(c, "refused", call[c].tab, call[c].answer)
         /\ Rotate(c) => MoveCall(c, "granted", call[c].tab, minted + 1)
         /\ RefreshLost(c) => MoveCall(c, call[c].at, NoTab, call[c].answer)
<1> DEFINE r == call[c]
<1>1. r \in CallType
  BY RecordTypes
<1>2. \A a, u : /\ [r EXCEPT !.at = a] = CallIs(a, r.tab, r.token, r.answer)
                /\ [r EXCEPT !.tab = u] = CallIs(r.at, u, r.token, r.answer)
                /\ [r EXCEPT !.at = a, !.answer = u] = CallIs(a, r.tab, r.token, u)
  BY <1>1, CallUpdates
<1>3. ASSUME FindToken(c)
      PROVE  \/ MoveCall(c, "reuse", r.tab, r.answer) /\ row[r.token] = "revoked"
             \/ MoveCall(c, "roles", r.tab, r.answer) /\ row[r.token] # "revoked"
  <2>1. CASE row[r.token] = "revoked"
    <3>1. call' = [call EXCEPT ![c] = [r EXCEPT !.at = "reuse"]]
      BY <1>3, <2>1, RecordTypes DEF FindToken
    <3> QED
      BY <1>2, <2>1, <3>1 DEF MoveCall
  <2>2. CASE row[r.token] # "revoked"
    <3>1. call' = [call EXCEPT ![c] = [r EXCEPT !.at = "roles"]]
      BY <1>3, <2>2, RecordTypes DEF FindToken
    <3> QED
      BY <1>2, <2>2, <3>1 DEF MoveCall
  <2> QED
    BY <2>1, <2>2
<1>4. RevokeFamily(c) \/ RefuseRefresh(c) => call' = [call EXCEPT ![c] = [r EXCEPT !.at = "refused"]]
  BY RecordTypes DEF RevokeFamily, RefuseRefresh
<1>5. Rotate(c) => call' = [call EXCEPT ![c] = [r EXCEPT !.at = "granted", !.answer = minted + 1]]
  BY RecordTypes DEF Rotate
<1>6. RefreshLost(c) => call' = [call EXCEPT ![c] = [r EXCEPT !.tab = NoTab]]
  BY RecordTypes DEF RefreshLost
<1> QED
  BY <1>2, <1>3, <1>4, <1>5, <1>6 DEF MoveCall

\* The requests of tab b that a refresh has kept waiting, after its answer.
Replayed(b, t) == [q \in Queries |-> QueryIs("sent", t, query[b][q].retried, query[b][q].body)]

LEMMA QuerySteps ==
  ASSUME TypeOK
  PROVE  /\ \A b \in Tabs, q \in Queries :
              /\ Unauthorized(b, q) /\ ~(query[b][q].retried \/ stored[b] = 0) =>
                   Ask(b, q, QueryIs("waiting", query[b][q].token, TRUE, query[b][q].body))
              /\ LogoutDeny(b, q) =>
                   \/ /\ Ask(b, q, QueryIs("denied", query[b][q].token, query[b][q].retried, query[b][q].body))
                      /\ denied' = denied \cup {query[b][q].token}
                   \/ /\ Ask(b, q, QueryIs("notDenied", query[b][q].token, query[b][q].retried, query[b][q].body))
                      /\ denied' = denied
         /\ \A c \in Calls : RefreshGranted(c) => query' = Waiters(call[c].tab, Replayed(call[c].tab, call[c].answer))
<1>1. ASSUME NEW b \in Tabs, NEW q \in Queries, NEW a, NEW t
      PROVE  /\ [query[b][q] EXCEPT !.at = a] = QueryIs(a, query[b][q].token, query[b][q].retried, query[b][q].body)
             /\ [query[b][q] EXCEPT !.at = a, !.retried = TRUE] = QueryIs(a, query[b][q].token, TRUE, query[b][q].body)
             /\ [query[b][q] EXCEPT !.at = a, !.token = t] = QueryIs(a, t, query[b][q].retried, query[b][q].body)
  BY RecordTypes, QueryUpdates
<1>2. ASSUME NEW b \in Tabs, NEW q \in Queries, Unauthorized(b, q), ~(query[b][q].retried \/ stored[b] = 0)
      PROVE  Ask(b, q, QueryIs("waiting", query[b][q].token, TRUE, query[b][q].body))
  <2>1. Ask(b, q, [query[b][q] EXCEPT !.at = "waiting", !.retried = TRUE])
    BY <1>2 DEF Unauthorized, HandleUnauthorized
  <2> QED
    BY <1>1, <2>1
<1>3. ASSUME NEW b \in Tabs, NEW q \in Queries, LogoutDeny(b, q)
      PROVE  \/ /\ Ask(b, q, QueryIs("denied", query[b][q].token, query[b][q].retried, query[b][q].body))
                /\ denied' = denied \cup {query[b][q].token}
             \/ /\ Ask(b, q, QueryIs("notDenied", query[b][q].token, query[b][q].retried, query[b][q].body))
                /\ denied' = denied
  <2>1. \/ Ask(b, q, [query[b][q] EXCEPT !.at = "denied"]) /\ denied' = denied \cup {query[b][q].token}
        \/ Ask(b, q, [query[b][q] EXCEPT !.at = "notDenied"]) /\ denied' = denied
    BY <1>3 DEF LogoutDeny
  <2> QED
    BY <1>1, <2>1
<1>4. ASSUME NEW c \in Calls, RefreshGranted(c)
      PROVE  query' = Waiters(call[c].tab, Replayed(call[c].tab, call[c].answer))
  <2> DEFINE b == call[c].tab
  <2>1. b \in Tabs
    BY <1>4, RecordTypes DEF RefreshGranted, CallType
  <2>2. [q \in Queries |-> [query[b][q] EXCEPT !.at = "sent", !.token = call[c].answer]]
          = Replayed(b, call[c].answer)
    <3>1. ASSUME NEW q \in Queries
          PROVE  [query[b][q] EXCEPT !.at = "sent", !.token = call[c].answer]
                   = QueryIs("sent", call[c].answer, query[b][q].retried, query[b][q].body)
      <4>1. query[b][q] \in QueryType
        BY <2>1, RecordTypes
      <4> QED
        BY <4>1, QueryUpdates
    <3> QED
      BY <3>1, Zenon DEF Replayed
  <2>3. query' = Waiters(b, [q \in Queries |-> [query[b][q] EXCEPT !.at = "sent", !.token = call[c].answer]])
    BY <1>4, Zenon DEF RefreshGranted
  <2> QED
    BY <2>2, <2>3, Zenon
<1> QED
  BY <1>2, <1>3, <1>4

\* What a step on the rows leaves of their types.
LEMMA RevokeType ==
  ASSUME TypeOK, NEW ts
  PROVE  Revoke(ts) \in [Tokens -> {"none", "live", "revoked"}]
  BY DEF Revoke, TypeOK

LEMMA MintType ==
  ASSUME TypeOK, NEW f \in Held, NEW o \in [Tokens -> {"none", "live", "revoked"}], Mint(f, o)
  PROVE  /\ minted' \in Held /\ minted + 1 \in Tokens /\ minted' = minted + 1
         /\ row' \in [Tokens -> {"none", "live", "revoked"}] /\ family' \in [Tokens -> Held]
<1>1. minted \in Nat /\ minted < MaxTokens
  BY Bounds DEF Mint, TypeOK, Held
<1>2. minted + 1 \in Tokens /\ minted + 1 \in Held
  BY <1>1, Bounds DEF Tokens, Held
<1> QED
  BY <1>1, <1>2 DEF Mint, TypeOK

\* redirectToLogin and the end of a logout change the page and forget.
LEMMA RedirectType ==
  ASSUME TypeOK, NEW b \in Tabs, Redirect(b)
  PROVE  /\ page' \in [Tabs -> {"login", "app", "leaving", "signedOut"}]
         /\ access' \in [Tabs -> Held] /\ stored' \in [Tabs -> Held] /\ cached' \in [Tabs -> BOOLEAN]
  BY Bounds DEF TypeOK, Redirect, Forget

LEMMA SignedOutType ==
  ASSUME TypeOK, NEW b \in Tabs, SignedOut(b)
  PROVE  /\ page' \in [Tabs -> {"login", "app", "leaving", "signedOut"}]
         /\ access' \in [Tabs -> Held] /\ stored' \in [Tabs -> Held] /\ cached' \in [Tabs -> BOOLEAN]
  BY Bounds DEF TypeOK, SignedOut, Forget

LEMMA AskType ==
  ASSUME TypeOK, NEW b \in Tabs, NEW q \in Queries, NEW r \in QueryType, Ask(b, q, r)
  PROVE  query' \in [Tabs -> [Queries -> QueryType]]
  BY DEF TypeOK, QueryType, Ask

LEMMA NoQueryType == NoQuery \in QueryType
  BY Bounds DEF NoQuery, QueryType

LEMMA WaitersType ==
  ASSUME TypeOK, NEW b \in Tabs, NEW r \in [Queries -> QueryType], query' = Waiters(b, r)
  PROVE  query' \in [Tabs -> [Queries -> QueryType]]
  BY DEF TypeOK, QueryType, Waiters

\* A refresh begins on a free call, with the token in sessionStorage.
LEMMA StartCall ==
  ASSUME NEW b \in Tabs, Start(b)
  PROVE  \E c \in Calls :
           /\ call[c].at = "free"
           /\ call' = [call EXCEPT ![c] = [at |-> "find", tab |-> b, token |-> stored[b], answer |-> 0]]
           /\ refreshing' = [refreshing EXCEPT ![b] = c]
  BY DEF Start

\* A call under way has a token that was minted.
LEMMA BusyToken ==
  ASSUME TypeOK, MintedFirst, NEW c \in Calls, Busy(c)
  PROVE  /\ call[c].token \in Tokens /\ call[c].token \in 1..minted
         /\ row[call[c].token] # "none" /\ family[call[c].token] \in 1..minted
<1>1. call[c].token \in 1..minted /\ minted \in 0..MaxTokens
  BY DEF MintedFirst, TypeOK, Held
<1>2. call[c].token \in Tokens /\ call[c].token <= minted
  BY <1>1, Bounds DEF Tokens
<1> QED
  BY <1>1, <1>2 DEF MintedFirst
\* A call that moves and stays with its tab leaves the calls what they were.
MoveCallType(c) ==
  \A a \in Ats \ {"free"}, u \in Held :
    MoveCall(c, a, call[c].tab, u) /\ call[c].at # "free" =>
      /\ call' \in [Calls -> CallType]
      /\ UNCHANGED refreshing =>
           \A b \in Tabs : refreshing[b] # NoCall =>
             call'[refreshing[b]].tab = b /\ call'[refreshing[b]].at # "free"

LEMMA MoveCallTypes ==
  ASSUME TypeOK, NEW c \in Calls
  PROVE  MoveCallType(c)
<1> SUFFICES ASSUME NEW a \in Ats \ {"free"}, NEW u \in Held, MoveCall(c, a, call[c].tab, u), call[c].at # "free"
             PROVE  /\ call' \in [Calls -> CallType]
                    /\ UNCHANGED refreshing =>
                         \A b \in Tabs : refreshing[b] # NoCall =>
                           call'[refreshing[b]].tab = b /\ call'[refreshing[b]].at # "free"
  BY DEF MoveCallType
<1>1. CallIs(a, call[c].tab, call[c].token, u) \in CallType
  BY RecordTypes DEF CallType, CallIs
<1>2. call' = [call EXCEPT ![c] = CallIs(a, call[c].tab, call[c].token, u)]
  BY DEF MoveCall
<1>3. call' \in [Calls -> CallType]
  BY <1>1, <1>2, RecordTypes
<1>4. \A d \in Calls : call'[d].tab = call[d].tab /\ (call[d].at # "free" => call'[d].at # "free")
  BY <1>2, RecordTypes DEF CallIs
<1> QED
  BY <1>3, <1>4 DEF TypeOK

\* The steps of a refresh on the server, and the answer nobody waits for.
LEMMA ServerType ==
  ASSUME TypeOK, MintedFirst, NEW c \in Calls,
         FindToken(c) \/ RevokeFamily(c) \/ Rotate(c) \/ RefuseRefresh(c) \/ RefreshUnheard(c)
  PROVE  TypeOK'
<1> USE DEF tab, ghosts, authDb
<1>0. /\ call[c] \in CallType /\ MoveCallType(c)
  BY RecordTypes, MoveCallTypes
<1>1. CASE FindToken(c)
  BY <1>0, <1>1, CallSteps DEF FindToken, TypeOK, MoveCallType, Ats, CallType
<1>2. CASE RevokeFamily(c)
  <2>1. Revoke(Tokens) \in [Tokens -> {"none", "live", "revoked"}]
    BY RevokeType
  <2> QED
    BY <1>0, <1>2, <2>1, CallSteps DEF RevokeFamily, TypeOK, MoveCallType, Ats, CallType
<1>3. CASE Rotate(c)
  <2> DEFINE t == call[c].token
  <2>1. t \in Tokens /\ Revoke({t}) \in [Tokens -> {"none", "live", "revoked"}]
    BY <1>3, RevokeType, BusyToken DEF Rotate, Busy
  <2>2. family[t] \in Held
    BY <2>1 DEF TypeOK
  <2>3. /\ minted' \in Held /\ minted + 1 \in Held
        /\ row' \in [Tokens -> {"none", "live", "revoked"}] /\ family' \in [Tokens -> Held]
    BY <1>3, <2>1, <2>2, MintType, Bounds DEF Rotate
  <2> QED
    BY <1>0, <1>3, <2>3, CallSteps DEF Rotate, TypeOK, MoveCallType, Ats, CallType
<1>4. CASE RefuseRefresh(c)
  BY <1>0, <1>4, CallSteps DEF RefuseRefresh, TypeOK, MoveCallType, Ats, CallType
<1>5. CASE RefreshUnheard(c)
  BY <1>5, Bounds DEF RefreshUnheard, TypeOK, Ats, FreeCall
<1> QED
  BY <1>1, <1>2, <1>3, <1>4, <1>5

\* What is left of the requests when a refresh fails or succeeds.
LEMMA FailsType ==
  ASSUME TypeOK, NEW b \in Tabs, Fails(b)
  PROVE  /\ page' \in [Tabs -> {"login", "app", "leaving", "signedOut"}]
         /\ access' \in [Tabs -> Held] /\ stored' \in [Tabs -> Held] /\ cached' \in [Tabs -> BOOLEAN]
         /\ query' \in [Tabs -> [Queries -> QueryType]]
         /\ refreshing' = [refreshing EXCEPT ![b] = NoCall]
<1>1. [q \in Queries |-> NoQuery] \in [Queries -> QueryType]
  BY NoQueryType
<1> QED
  BY <1>1, RedirectType, WaitersType DEF Fails

\* An answer reaches its tab, or never will.
LEMMA AnswerType ==
  ASSUME TypeOK, NEW c \in Calls, RefreshGranted(c) \/ RefreshRefused(c) \/ RefreshLost(c)
  PROVE  TypeOK'
<1> DEFINE b == call[c].tab
<1> USE DEF tab, ghosts, authDb
<1>1. b \in Tabs /\ call[c] \in CallType
  BY RecordTypes DEF RefreshGranted, RefreshRefused, RefreshLost, CallType
<1>2. /\ refreshing' = [refreshing EXCEPT ![b] = NoCall]
      /\ call' = [call EXCEPT ![c] = FreeCall] \/ MoveCall(c, call[c].at, NoTab, call[c].answer)
  BY CallSteps DEF RefreshGranted, RefreshRefused, RefreshLost, Fails
<1>3. FreeCall \in CallType /\ CallIs(call[c].at, NoTab, call[c].token, call[c].answer) \in CallType
  BY <1>1, Bounds DEF CallType, CallIs, FreeCall, Ats
<1>4. /\ call' \in [Calls -> CallType] /\ refreshing' \in [Tabs -> Calls \cup {NoCall}]
      /\ \A d \in Calls \ {c} : call'[d] = call[d]
  BY <1>1, <1>2, <1>3, RecordTypes DEF MoveCall, TypeOK
<1>5. ASSUME NEW d \in Tabs, refreshing'[d] # NoCall
      PROVE  call'[refreshing'[d]].tab = d /\ call'[refreshing'[d]].at # "free"
  <2>1. d # b /\ refreshing'[d] = refreshing[d]
    BY <1>1, <1>2, <1>5 DEF TypeOK
  <2>2. refreshing[d] \in Calls /\ call[refreshing[d]].tab = d /\ call[refreshing[d]].at # "free"
    BY <1>5, <2>1 DEF TypeOK
  <2>3. refreshing[d] # c
    BY <2>1, <2>2
  <2> QED
    BY <1>4, <2>1, <2>2, <2>3
<1>6. CASE RefreshGranted(c)
  <2>1. Replayed(b, call[c].answer) \in [Queries -> QueryType]
    BY <1>1, RecordTypes DEF Replayed, QueryIs, QueryType, CallType
  <2>2. query' \in [Tabs -> [Queries -> QueryType]]
    BY <1>1, <1>6, <2>1, WaitersType, QuerySteps
  <2>3. access' \in [Tabs -> Held] /\ stored' \in [Tabs -> Held]
    BY <1>1, <1>6 DEF RefreshGranted, TypeOK, CallType
  <2> QED
    BY <1>4, <1>5, <1>6, <2>2, <2>3 DEF RefreshGranted, TypeOK, CallType, QueryType
<1>7. CASE RefreshRefused(c) \/ RefreshLost(c)
  <2>1. Fails(b)
    BY <1>7 DEF RefreshRefused, RefreshLost
  <2>2. /\ page' \in [Tabs -> {"login", "app", "leaving", "signedOut"}]
        /\ access' \in [Tabs -> Held] /\ stored' \in [Tabs -> Held] /\ cached' \in [Tabs -> BOOLEAN]
        /\ query' \in [Tabs -> [Queries -> QueryType]]
    BY <1>1, <2>1, FailsType
  <2>3. faults' \in 0..MaxFaults /\ UNCHANGED <<row, family, minted, denied, ended>>
    BY <1>7, Bounds DEF RefreshRefused, RefreshLost, Fault, TypeOK
  <2> QED
    BY <1>4, <1>5, <2>2, <2>3 DEF TypeOK, CallType, QueryType
<1> QED
  BY <1>6, <1>7

\* A 401 gives up, waits for the refresh under way, or begins one.
LEMMA UnauthorizedType ==
  ASSUME TypeOK, NEW b \in Tabs, NEW q \in Queries, Unauthorized(b, q)
  PROVE  TypeOK'
<1> DEFINE w == QueryIs("waiting", query[b][q].token, TRUE, query[b][q].body)
<1> USE DEF tab, ghosts, authDb
<1>1. w \in QueryType
  <2>1. query[b][q] \in QueryType
    BY RecordTypes
  <2> QED
    BY <2>1 DEF QueryType, QueryIs
<1>2. query' \in [Tabs -> [Queries -> QueryType]]
  <2>1. CASE query[b][q].retried \/ stored[b] = 0
    BY <2>1, NoQueryType, AskType DEF Unauthorized, HandleUnauthorized
  <2>2. CASE ~(query[b][q].retried \/ stored[b] = 0)
    BY <1>1, <2>2, QuerySteps, AskType
  <2> QED
    BY <2>1, <2>2
<1>3. CASE query[b][q].retried \/ stored[b] = 0
  BY <1>2, <1>3, RedirectType DEF Unauthorized, HandleUnauthorized, TypeOK, QueryType
<1>4. CASE ~(query[b][q].retried \/ stored[b] = 0) /\ refreshing[b] # NoCall
  <2>1. UNCHANGED <<row, family, minted, denied, call, page, access, stored, cached, refreshing, ended, faults>>
    BY <1>4 DEF Unauthorized, HandleUnauthorized
  <2> QED
    BY <1>2, <2>1 DEF TypeOK, QueryType
<1>5. CASE ~(query[b][q].retried \/ stored[b] = 0) /\ refreshing[b] = NoCall
  <2>1. PICK c \in Calls :
           /\ call[c].at = "free"
           /\ call' = [call EXCEPT ![c] = [at |-> "find", tab |-> b, token |-> stored[b], answer |-> 0]]
           /\ refreshing' = [refreshing EXCEPT ![b] = c]
    BY <1>5, StartCall DEF Unauthorized, HandleUnauthorized
  <2>2. UNCHANGED <<row, family, minted, denied, page, access, stored, cached, ended, faults>>
    BY <1>5 DEF Unauthorized, HandleUnauthorized
  <2>3. call' \in [Calls -> CallType] /\ refreshing' \in [Tabs -> Calls \cup {NoCall}]
    BY <2>1, RecordTypes, Bounds DEF TypeOK, CallType, Ats
  <2>4. \A d \in Tabs : refreshing'[d] # NoCall =>
          call'[refreshing'[d]].tab = d /\ call'[refreshing'[d]].at # "free"
    BY <2>1 DEF TypeOK
  <2> QED
    BY <1>2, <2>2, <2>3, <2>4 DEF TypeOK, CallType, QueryType
<1> QED
  BY <1>3, <1>4, <1>5

\* The other steps of a request.
LEMMA QueryStepType ==
  ASSUME TypeOK, QueryKnows, NEW b \in Tabs, NEW q \in Queries,
         \/ Send(b, q) \/ SignOut(b, q) \/ Served(b, q) \/ ServedError(b, q)
         \/ LogoutDeny(b, q) \/ LogoutRevoke(b, q) \/ LogoutLost(b, q)
  PROVE  TypeOK'
<1> USE DEF tab, ghosts, authDb
<1>1. CASE Send(b, q) \/ SignOut(b, q)
  <2>1. \E t \in Held : Ask(b, q, [at |-> "sent", token |-> access[b], retried |-> FALSE, body |-> t])
    BY <1>1, Bounds DEF Send, SignOut, Request, TypeOK
  <2>2. query' \in [Tabs -> [Queries -> QueryType]]
    BY <2>1, AskType DEF QueryType, TypeOK
  <2> QED
    BY <1>1, <2>2 DEF Send, SignOut, Request, TypeOK, QueryType
<1>2. CASE Served(b, q)
  BY <1>2, NoQueryType, AskType DEF Served, TypeOK, QueryType
<1>3. CASE ServedError(b, q)
  BY <1>3, NoQueryType, AskType, RedirectType DEF ServedError, TypeOK, QueryType
<1>4. CASE LogoutDeny(b, q)
  <2>1. query[b][q].token \in Tokens
    BY <1>4, HeldIsToken DEF LogoutDeny, Accepts, TypeOK
  <2>2. \A a \in {"denied", "notDenied"} :
          QueryIs(a, query[b][q].token, query[b][q].retried, query[b][q].body) \in QueryType
    BY RecordTypes DEF QueryIs, QueryType
  <2>3. query' \in [Tabs -> [Queries -> QueryType]]
    BY <1>4, <2>2, AskType, QuerySteps
  <2> QED
    BY <1>4, <2>1, <2>3 DEF LogoutDeny, TypeOK, QueryType
<1>5. CASE LogoutRevoke(b, q)
  <2>1. query[b][q].at = "denied" => query[b][q].token \in denied
    BY DEF QueryKnows
  <2> QED
    BY <1>5, <2>1, NoQueryType, AskType, SignedOutType, RevokeType DEF LogoutRevoke, TypeOK, QueryType
<1>6. CASE LogoutLost(b, q)
  <2>1. query' \in [Tabs -> [Queries -> QueryType]]
    BY <1>6, NoQueryType, AskType DEF LogoutLost
  <2>2. faults' \in 0..MaxFaults
    BY <1>6, Bounds DEF LogoutLost, Fault, TypeOK
  <2>3. SignedOut(b) /\ UNCHANGED <<row, family, minted, denied, call, refreshing, ended>>
    BY <1>6 DEF LogoutLost
  <2> QED
    BY <2>1, <2>2, <2>3, SignedOutType DEF TypeOK, QueryType
<1> QED
  BY <1>1, <1>2, <1>3, <1>4, <1>5, <1>6

\* A login, and a document load.
LEMMA PageType ==
  ASSUME TypeOK, NEW b \in Tabs, Login(b) \/ Leave(b) \/ Reload(b)
  PROVE  TypeOK'
<1> USE DEF tab, ghosts, authDb
<1>1. CASE Login(b)
  <2>1. minted + 1 \in Held
    BY <1>1, Bounds DEF Login, Mint, TypeOK, Held
  <2>2. /\ minted' \in Held
        /\ row' \in [Tokens -> {"none", "live", "revoked"}] /\ family' \in [Tokens -> Held]
    <3>1. Mint(minted + 1, row) /\ row \in [Tokens -> {"none", "live", "revoked"}]
      BY <1>1 DEF Login, TypeOK
    <3> QED
      BY <2>1, <3>1, MintType
  <2> QED
    BY <1>1, <2>1, <2>2 DEF Login, TypeOK
<1>2. CASE Leave(b) \/ Reload(b)
  <2>1. Load(b) /\ faults' \in 0..MaxFaults
    BY <1>2, Bounds DEF Leave, Reload, Fault, TypeOK
  <2>2. query' \in [Tabs -> [Queries -> QueryType]]
    BY <2>1, NoQueryType DEF Load, TypeOK, QueryType
  <2>3. call' \in [Calls -> [at : Ats, tab : Tabs \cup {NoTab}, token : Held, answer : Held]]
    BY <2>1 DEF Load, TypeOK
  <2> QED
    BY <2>1, <2>2, <2>3, Bounds DEF Load, TypeOK, QueryType
<1> QED
  BY <1>1, <1>2

-----------------------------------------------------------------------------
(* What steps leave in the hands of tabs and calls *)

\* A 401 that begins a refresh.
Starts(b, q) == Unauthorized(b, q) /\ ~(query[b][q].retried \/ stored[b] = 0) /\ refreshing[b] = NoCall

\* The steps that hand out no token: neither a rotation, a login nor an answer with a token.
CallQuiet(c) == \/ FindToken(c) \/ RevokeFamily(c) \/ RefuseRefresh(c) \/ RefreshUnheard(c)
                \/ RefreshRefused(c) \/ RefreshLost(c)
RequestQuiet(b, q) == \/ Unauthorized(b, q) \/ Served(b, q) \/ ServedError(b, q) \/ LogoutDeny(b, q)
                      \/ LogoutRevoke(b, q) \/ LogoutLost(b, q) \/ Send(b, q) \/ SignOut(b, q)
LoadQuiet(b) == Leave(b) \/ Reload(b)

\* Giving up, in any of its forms: tokens are forgotten, and the login page neither comes nor goes.
Forgets ==
  \A d \in Tabs : /\ stored'[d] \in {0, stored[d]} /\ access'[d] \in {0, access[d]}
                  /\ page'[d] = "login" <=> page[d] = "login"
                  /\ page'[d] # "app" => ~cached'[d]

LEMMA RedirectForgets ==
  ASSUME TypeOK, PageKnows, NEW b \in Tabs, Redirect(b)
  PROVE  Forgets
  BY DEF TypeOK, PageKnows, Redirect, Forget, Forgets

LEMMA SignedOutForgets ==
  ASSUME TypeOK, PageKnows, NEW b \in Tabs, SignedOut(b)
  PROVE  Forgets
  BY DEF TypeOK, PageKnows, SignedOut, Forget, Forgets

LEMMA StillForgets ==
  ASSUME PageKnows, UNCHANGED <<page, access, stored, cached>>
  PROVE  Forgets
  BY DEF PageKnows, Forgets

LEMMA QuietForgets ==
  ASSUME TypeOK, PageKnows,
         \/ \E c \in Calls : CallQuiet(c) \/ Rotate(c)
         \/ \E b \in Tabs, q \in Queries : RequestQuiet(b, q)
  PROVE  Forgets
<1> USE DEF tab, authDb, ghosts
<1>1. ASSUME NEW c \in Calls, CallQuiet(c) \/ Rotate(c) PROVE Forgets
  <2>1. CASE RefreshRefused(c) \/ RefreshLost(c)
    <3>1. call[c].tab \in Tabs /\ Redirect(call[c].tab)
      BY <2>1, RecordTypes DEF RefreshRefused, RefreshLost, Fails, CallType
    <3> QED
      BY <3>1, RedirectForgets
  <2>2. CASE ~(RefreshRefused(c) \/ RefreshLost(c))
    <3>1. UNCHANGED <<page, access, stored, cached>>
      BY <1>1, <2>2 DEF CallQuiet, FindToken, RevokeFamily, RefuseRefresh, RefreshUnheard, Rotate
    <3> QED
      BY <3>1, StillForgets
  <2> QED
    BY <2>1, <2>2
<1>2. ASSUME NEW b \in Tabs, NEW q \in Queries, RequestQuiet(b, q) PROVE Forgets
  <2>1. \/ Redirect(b)
        \/ SignedOut(b)
        \/ UNCHANGED <<page, access, stored, cached>>
    BY <1>2 DEF RequestQuiet, Unauthorized, HandleUnauthorized, Served, ServedError, LogoutDeny,
                LogoutRevoke, LogoutLost, Send, SignOut, Request
  <2> QED
    BY <2>1, RedirectForgets, SignedOutForgets, StillForgets
<1> QED
  BY <1>1, <1>2

\* What a step does to the calls: each is as before, moves on, is left by its tab or is done with.
CallsQuiet ==
  \A c \in Calls :
    \/ call'[c] = call[c]
    \/ /\ call[c].at # "free" /\ call'[c] = FreeCall
    \/ /\ call[c].at # "free" /\ call'[c].at # "free" /\ call'[c].token = call[c].token
       /\ call'[c].answer = call[c].answer /\ call'[c].tab \in {call[c].tab, NoTab}
       /\ call'[c].at = "granted" <=> call[c].at = "granted"

LEMMA MovedQuiet ==
  ASSUME TypeOK, NEW c \in Calls, call[c].at # "free", NEW a, a # "free",
         a = "granted" <=> call[c].at = "granted",
         NEW b \in {call[c].tab, NoTab}, MoveCall(c, a, b, call[c].answer)
  PROVE  CallsQuiet
<1>1. \A d \in Calls : call'[d] = IF d = c THEN CallIs(a, b, call[c].token, call[c].answer) ELSE call[d]
  BY RecordTypes DEF MoveCall
<1> QED
  BY <1>1 DEF CallsQuiet, CallIs

LEMMA FreedQuiet ==
  ASSUME TypeOK, NEW c \in Calls, call[c].at # "free", call' = [call EXCEPT ![c] = FreeCall]
  PROVE  CallsQuiet
<1>1. \A d \in Calls : call'[d] = IF d = c THEN FreeCall ELSE call[d]
  BY RecordTypes
<1> QED
  BY <1>1 DEF CallsQuiet

LEMMA LeftQuiet ==
  ASSUME TypeOK, MintedFirst, NEW b \in Tabs, Load(b)
  PROVE  /\ \A c \in Calls : call'[c] = IF call[c].tab = b THEN CallIs(call[c].at, NoTab, call[c].token, call[c].answer)
                                        ELSE call[c]
         /\ CallsQuiet
<1>1. \A c \in Calls : call'[c] = IF call[c].tab = b THEN [call[c] EXCEPT !.tab = NoTab] ELSE call[c]
  BY DEF Load
<1>2. \A c \in Calls : [call[c] EXCEPT !.tab = NoTab] = CallIs(call[c].at, NoTab, call[c].token, call[c].answer)
  <2>1. ASSUME NEW c \in Calls
        PROVE  [call[c] EXCEPT !.tab = NoTab] = CallIs(call[c].at, NoTab, call[c].token, call[c].answer)
    BY RecordTypes, CallUpdates
  <2> QED
    BY <2>1
<1>3. \A c \in Calls : call'[c] = IF call[c].tab = b THEN CallIs(call[c].at, NoTab, call[c].token, call[c].answer)
                                  ELSE call[c]
  BY <1>1, <1>2
<1>4. \A c \in Calls : call[c].tab = b => call[c].at # "free"
  BY Bounds DEF MintedFirst, Busy
<1>5. ASSUME NEW c \in Calls, call[c].tab = b
      PROVE  /\ call[c].at # "free" /\ call'[c].at = call[c].at /\ call'[c].token = call[c].token
             /\ call'[c].answer = call[c].answer /\ call'[c].tab = NoTab
  <2>1. call'[c] = CallIs(call[c].at, NoTab, call[c].token, call[c].answer)
    BY <1>3, <1>5
  <2>2. call'[c] = [at |-> call[c].at, tab |-> NoTab, token |-> call[c].token, answer |-> call[c].answer]
    BY <2>1 DEF CallIs
  <2> QED
    BY <1>4, <1>5, <2>2
<1>6. ASSUME NEW c \in Calls, call[c].tab # b
      PROVE  call'[c] = call[c]
  BY <1>3, <1>6
<1>7. CallsQuiet
  BY <1>5, <1>6 DEF CallsQuiet
<1> QED
  BY <1>3, <1>7

LEMMA QuietCalls ==
  ASSUME TypeOK, MintedFirst,
         \/ \E c \in Calls : CallQuiet(c)
         \/ \E b \in Tabs, q \in Queries : RequestQuiet(b, q) /\ ~Starts(b, q)
         \/ \E b \in Tabs : LoadQuiet(b)
  PROVE  CallsQuiet
<1> USE DEF tab, authDb, ghosts
<1>1. ASSUME NEW c \in Calls, CallQuiet(c) PROVE CallsQuiet
  <2>1. CASE FindToken(c)
    BY <2>1, CallSteps, MovedQuiet DEF FindToken
  <2>2. CASE RevokeFamily(c)
    BY <2>2, CallSteps, MovedQuiet DEF RevokeFamily
  <2>3. CASE RefuseRefresh(c)
    BY <2>3, CallSteps, MovedQuiet DEF RefuseRefresh
  <2>4. CASE RefreshUnheard(c)
    BY <2>4, FreedQuiet DEF RefreshUnheard
  <2>5. CASE RefreshRefused(c)
    BY <2>5, FreedQuiet DEF RefreshRefused
  <2>6. CASE RefreshLost(c)
    <3>1. call[c].at # "free"
      BY <2>6 DEF RefreshLost, MintedFirst, Busy
    <3> QED
      BY <2>6, <3>1, CallSteps, MovedQuiet
  <2> QED
    BY <1>1, <2>1, <2>2, <2>3, <2>4, <2>5, <2>6 DEF CallQuiet
<1>2. ASSUME NEW b \in Tabs, NEW q \in Queries, RequestQuiet(b, q), ~Starts(b, q) PROVE CallsQuiet
  <2>1. UNCHANGED call
    BY <1>2 DEF RequestQuiet, Starts, Unauthorized, HandleUnauthorized, Served, ServedError, LogoutDeny,
                LogoutRevoke, LogoutLost, Send, SignOut, Request
  <2> QED
    BY <2>1 DEF CallsQuiet
<1>3. ASSUME NEW b \in Tabs, LoadQuiet(b) PROVE CallsQuiet
  BY <1>3, LeftQuiet DEF LoadQuiet, Leave, Reload
<1> QED
  BY <1>1, <1>2, <1>3

\* What a step puts into the requests: nothing, what was there, or what the tab has.
QueriesLess ==
  \A b \in Tabs, q \in Queries :
    /\ query'[b][q].token \in {0, query[b][q].token, access[b]}
    /\ query'[b][q].body \in {0, query[b][q].body, stored[b]}

LEMMA AskLess ==
  ASSUME TypeOK, NEW b \in Tabs, NEW q \in Queries, NEW r, Ask(b, q, r),
         r.token \in {0, query[b][q].token, access[b]}, r.body \in {0, query[b][q].body, stored[b]}
  PROVE  QueriesLess
<1>1. ASSUME NEW d \in Tabs, NEW p \in Queries
      PROVE  query'[d][p] = IF d = b /\ p = q THEN r ELSE query[d][p]
  BY DEF Ask, TypeOK
<1> QED
  BY <1>1 DEF QueriesLess

LEMMA RequestLess ==
  ASSUME TypeOK, NEW b \in Tabs, NEW q \in Queries, RequestQuiet(b, q)
  PROVE  QueriesLess
<1> DEFINE r == query[b][q]
<1>1. CASE Send(b, q) \/ SignOut(b, q)
  <2>1. \E t \in {0, stored[b]} : Ask(b, q, QueryIs("sent", access[b], FALSE, t))
    BY <1>1 DEF Send, SignOut, Request, QueryIs
  <2> QED
    BY <2>1, AskLess DEF QueryIs
<1>2. CASE \/ Served(b, q) \/ ServedError(b, q) \/ LogoutRevoke(b, q) \/ LogoutLost(b, q)
           \/ Unauthorized(b, q) /\ (r.retried \/ stored[b] = 0)
  <2>1. Ask(b, q, NoQuery)
    BY <1>2 DEF Served, ServedError, LogoutRevoke, LogoutLost, Unauthorized, HandleUnauthorized
  <2> QED
    BY <2>1, AskLess DEF NoQuery
<1>3. CASE \/ LogoutDeny(b, q)
           \/ Unauthorized(b, q) /\ ~(r.retried \/ stored[b] = 0)
  <2>1. PICK a, v : Ask(b, q, QueryIs(a, r.token, v, r.body))
    BY <1>3, QuerySteps
  <2> QED
    BY <2>1, AskLess DEF QueryIs
<1>4. \/ Send(b, q) \/ SignOut(b, q)
      \/ Served(b, q) \/ ServedError(b, q) \/ LogoutRevoke(b, q) \/ LogoutLost(b, q)
      \/ LogoutDeny(b, q) \/ Unauthorized(b, q)
  BY Zenon DEF RequestQuiet
<1>5. CASE Unauthorized(b, q)
  BY <1>2, <1>3, <1>5, Zenon
<1> QED
  BY <1>1, <1>2, <1>3, <1>4, <1>5

LEMMA ClearedLess ==
  ASSUME TypeOK, NEW b \in Tabs,
         \/ query' = Waiters(b, [q \in Queries |-> NoQuery])
         \/ query' = [query EXCEPT ![b] = [q \in Queries |-> NoQuery]]
         \/ UNCHANGED query
  PROVE  /\ QueriesLess
         /\ \A d \in Tabs, q \in Queries : query'[d][q] \in {query[d][q], NoQuery}
<1>1. ASSUME NEW d \in Tabs, NEW q \in Queries
      PROVE  query'[d][q] \in {query[d][q], NoQuery}
  <2>1. CASE query' = Waiters(b, [p \in Queries |-> NoQuery])
    BY <2>1 DEF TypeOK, Waiters
  <2>2. CASE query' = [query EXCEPT ![b] = [p \in Queries |-> NoQuery]]
    BY <2>2 DEF TypeOK
  <2> QED
    BY <2>1, <2>2
<1> QED
  BY <1>1 DEF QueriesLess, NoQuery

\* A step that hands out no token leaves tabs with what they have.
LEMMA LessHeld ==
  ASSUME TypeOK, QueriesLess,
         \A b \in Tabs : stored'[b] \in {0, stored[b]} /\ access'[b] \in {0, access[b]},
         \A c \in Calls, b \in Tabs : call'[c].tab = b =>
           \/ call[c].tab = b /\ call'[c].token = call[c].token
           \/ call'[c].token = stored[b]
  PROVE  \A b \in Tabs, t \in Tokens : Has(b, t)' => Has(b, t)
<1> SUFFICES ASSUME NEW b \in Tabs, NEW t \in Tokens, Has(b, t)'
             PROVE  Has(b, t)
  OBVIOUS
<1>0. t # 0
  BY DEF Has
<1>1. \/ t \in {stored'[b], access'[b]}
      \/ \E q \in Queries : t \in {query'[b][q].token, query'[b][q].body}
      \/ \E c \in Calls : call'[c].tab = b /\ call'[c].token = t
  BY DEF Has
<1>2. CASE t \in {stored'[b], access'[b]}
  BY <1>0, <1>2 DEF Has
<1>3. CASE \E q \in Queries : t \in {query'[b][q].token, query'[b][q].body}
  BY <1>0, <1>3 DEF Has, QueriesLess
<1>4. CASE \E c \in Calls : call'[c].tab = b /\ call'[c].token = t
  BY <1>0, <1>4 DEF Has
<1> QED
  BY <1>1, <1>2, <1>3, <1>4

\* What a step that hands out no token does to the rows, the calls and what tabs have.
Quiet ==
  /\ UNCHANGED <<family, minted>>
  /\ \A t \in Tokens : /\ row'[t] = "live" => row[t] = "live"
                       /\ row'[t] = "none" <=> row[t] = "none"
  /\ CallsQuiet
  /\ \A b \in Tabs : stored'[b] \in {0, stored[b]}
  /\ \A b \in Tabs, t \in Tokens : Has(b, t)' => Has(b, t)

LEMMA RevokeRows ==
  ASSUME TypeOK, NEW ts, row' = Revoke(ts) \/ UNCHANGED row
  PROVE  \A t \in Tokens : /\ row'[t] = "live" => row[t] = "live"
                           /\ row'[t] = "none" <=> row[t] = "none"
  BY DEF TypeOK, Revoke

LEMMA QuietRows ==
  ASSUME TypeOK,
         \/ \E c \in Calls : CallQuiet(c)
         \/ \E b \in Tabs, q \in Queries : RequestQuiet(b, q)
         \/ \E b \in Tabs : LoadQuiet(b)
  PROVE  /\ UNCHANGED <<family, minted>>
         /\ \A t \in Tokens : /\ row'[t] = "live" => row[t] = "live"
                              /\ row'[t] = "none" <=> row[t] = "none"
<1> USE DEF tab, authDb, ghosts
<1>1. UNCHANGED <<family, minted>> /\ \E ts : row' = Revoke(ts) \/ UNCHANGED row
  <2>1. ASSUME NEW c \in Calls, CallQuiet(c)
        PROVE  UNCHANGED <<family, minted>> /\ \E ts : row' = Revoke(ts) \/ UNCHANGED row
    BY <2>1 DEF CallQuiet, FindToken, RevokeFamily, RefuseRefresh, RefreshUnheard, RefreshRefused, RefreshLost
  <2>2. ASSUME NEW b \in Tabs, NEW q \in Queries, RequestQuiet(b, q)
        PROVE  UNCHANGED <<family, minted>> /\ \E ts : row' = Revoke(ts) \/ UNCHANGED row
    BY <2>2 DEF RequestQuiet, Unauthorized, Served, ServedError, LogoutDeny, LogoutRevoke, LogoutLost,
                Send, SignOut, Request
  <2>3. ASSUME NEW b \in Tabs, LoadQuiet(b)
        PROVE  UNCHANGED <<family, minted>> /\ \E ts : row' = Revoke(ts) \/ UNCHANGED row
    BY <2>3 DEF LoadQuiet, Leave, Reload, Load
  <2> QED
    BY <2>1, <2>2, <2>3
<1> QED
  BY <1>1, RevokeRows

LEMMA QuietSteps ==
  ASSUME TypeOK, MintedFirst, PageKnows,
         \/ \E c \in Calls : CallQuiet(c)
         \/ \E b \in Tabs, q \in Queries : RequestQuiet(b, q) /\ ~Starts(b, q)
         \/ \E b \in Tabs : LoadQuiet(b)
  PROVE  Quiet
<1> USE DEF tab, authDb, ghosts
<1>1. CallsQuiet
  BY QuietCalls
<1>2. /\ UNCHANGED <<family, minted>>
      /\ \A t \in Tokens : /\ row'[t] = "live" => row[t] = "live"
                           /\ row'[t] = "none" <=> row[t] = "none"
  BY QuietRows
<1>3. /\ QueriesLess
      /\ \A b \in Tabs : stored'[b] \in {0, stored[b]} /\ access'[b] \in {0, access[b]}
  <2>1. ASSUME NEW c \in Calls, CallQuiet(c)
        PROVE  <1>3!:
    <3>1. \A b \in Tabs : stored'[b] \in {0, stored[b]} /\ access'[b] \in {0, access[b]}
      BY <2>1, QuietForgets DEF Forgets
    <3>2. CASE RefreshRefused(c) \/ RefreshLost(c)
      <4>1. call[c].tab \in Tabs /\ query' = Waiters(call[c].tab, [q \in Queries |-> NoQuery])
        BY <3>2, RecordTypes DEF RefreshRefused, RefreshLost, Fails, CallType
      <4> QED
        BY <3>1, <4>1, ClearedLess
    <3>3. CASE ~(RefreshRefused(c) \/ RefreshLost(c))
      <4>1. UNCHANGED query
        BY <2>1, <3>3 DEF CallQuiet, FindToken, RevokeFamily, RefuseRefresh, RefreshUnheard
      <4> QED
        BY <3>1, <4>1 DEF QueriesLess
    <3> QED
      BY <3>2, <3>3
  <2>2. ASSUME NEW b \in Tabs, NEW q \in Queries, RequestQuiet(b, q)
        PROVE  <1>3!:
    <3>1. \A d \in Tabs : stored'[d] \in {0, stored[d]} /\ access'[d] \in {0, access[d]}
      BY <2>2, QuietForgets DEF Forgets
    <3> QED
      BY <2>2, <3>1, RequestLess
  <2>3. ASSUME NEW b \in Tabs, LoadQuiet(b)
        PROVE  <1>3!:
    <3>1. Load(b)
      BY <2>3 DEF LoadQuiet, Leave, Reload
    <3>2. \A d \in Tabs : stored'[d] \in {0, stored[d]} /\ access'[d] \in {0, access[d]}
      BY <3>1 DEF Load, TypeOK
    <3>3. QueriesLess
      BY <3>1, ClearedLess DEF Load
    <3> QED
      BY <3>2, <3>3
  <2> QED
    BY <2>1, <2>2, <2>3
<1>4. \A c \in Calls, b \in Tabs : call'[c].tab = b => call[c].tab = b /\ call'[c].token = call[c].token
  BY <1>1, Bounds DEF CallsQuiet, FreeCall
<1>5. \A b \in Tabs, t \in Tokens : Has(b, t)' => Has(b, t)
  BY <1>3, <1>4, LessHeld
<1> QED
  BY <1>1, <1>2, <1>3, <1>5 DEF Quiet

\* A 401 begins a refresh: the call c, made with the token in sessionStorage.
Begins(b, c) ==
  /\ call[c].at = "free" /\ refreshing[b] = NoCall /\ page[b] # "login" /\ stored[b] # 0
  /\ call'[c] = CallIs("find", b, stored[b], 0) /\ \A d \in Calls \ {c} : call'[d] = call[d]
  /\ refreshing'[b] = c /\ \A d \in Tabs \ {b} : refreshing'[d] = refreshing[d]
  /\ UNCHANGED <<authDb, denied, page, access, stored, cached, ghosts>>
  /\ \A d \in Tabs, t \in Tokens : Has(d, t)' => Has(d, t)

LEMMA StartsSteps ==
  ASSUME TypeOK, PageKnows, NEW b \in Tabs, NEW q \in Queries, Starts(b, q)
  PROVE  \E c \in Calls : Begins(b, c)
<1> USE DEF tab, authDb, ghosts
<1>1. Start(b) /\ UNCHANGED <<authDb, denied, page, access, stored, cached, ghosts>>
  BY DEF Starts, Unauthorized, HandleUnauthorized
<1>2. PICK c \in Calls :
           /\ call[c].at = "free"
           /\ call' = [call EXCEPT ![c] = [at |-> "find", tab |-> b, token |-> stored[b], answer |-> 0]]
           /\ refreshing' = [refreshing EXCEPT ![b] = c]
  BY <1>1, StartCall
<1>3. /\ call'[c] = CallIs("find", b, stored[b], 0) /\ \A d \in Calls \ {c} : call'[d] = call[d]
      /\ refreshing'[b] = c /\ \A d \in Tabs \ {b} : refreshing'[d] = refreshing[d]
  BY <1>2 DEF TypeOK, CallIs
<1>4. page[b] # "login" /\ stored[b] # 0 /\ refreshing[b] = NoCall
  BY DEF Starts, Unauthorized, PageKnows
<1>5. QueriesLess
  BY RequestLess DEF Starts, RequestQuiet
<1>6. ASSUME NEW x \in Calls, NEW d \in Tabs, call'[x].tab = d
      PROVE  \/ call[x].tab = d /\ call'[x].token = call[x].token
             \/ call'[x].token = stored[d]
  <2>1. CASE x = c
    BY <1>3, <1>6, <2>1 DEF CallIs
  <2>2. CASE x # c
    BY <1>3, <1>6, <2>2
  <2> QED
    BY <2>1, <2>2
<1>7. \A d \in Tabs : stored'[d] \in {0, stored[d]} /\ access'[d] \in {0, access[d]}
  BY <1>1
<1>8. \A d \in Tabs, t \in Tokens : Has(d, t)' => Has(d, t)
  BY <1>5, <1>6, <1>7, LessHeld
<1>9. call[c].at = "free"
  BY <1>2
<1> QED
  BY <1>1, <1>3, <1>4, <1>8, <1>9 DEF Begins

\* The answer c brings its tab the token it was given, which is of the tab's login.
Grants(c, b) ==
  /\ call[c].at = "granted" /\ call[c].tab = b
  /\ call'[c] = FreeCall /\ \A d \in Calls \ {c} : call'[d] = call[d]
  /\ refreshing'[b] = NoCall /\ \A d \in Tabs \ {b} : refreshing'[d] = refreshing[d]
  /\ stored'[b] = call[c].answer /\ \A d \in Tabs \ {b} : stored'[d] = stored[d]
  /\ UNCHANGED <<authDb, denied, page, cached, ghosts>>
  /\ \A d \in Tabs, t \in Tokens : Has(d, t)' => Has(d, t) \/ (d = b /\ t = call[c].answer)

LEMMA GrantsSteps ==
  ASSUME TypeOK, NEW c \in Calls, RefreshGranted(c)
  PROVE  Grants(c, call[c].tab) /\ call[c].tab \in Tabs
<1> DEFINE b == call[c].tab
<1> USE DEF authDb, ghosts
<1>1. b \in Tabs /\ call[c].at = "granted"
  BY RecordTypes DEF RefreshGranted, CallType
<1>2. /\ call'[c] = FreeCall /\ \A d \in Calls \ {c} : call'[d] = call[d]
      /\ refreshing'[b] = NoCall /\ \A d \in Tabs \ {b} : refreshing'[d] = refreshing[d]
      /\ stored'[b] = call[c].answer /\ \A d \in Tabs \ {b} : stored'[d] = stored[d]
      /\ access'[b] = call[c].answer /\ \A d \in Tabs \ {b} : access'[d] = access[d]
  BY <1>1 DEF RefreshGranted, TypeOK
<1>3. query' = Waiters(b, Replayed(b, call[c].answer))
  BY QuerySteps
<1>4. ASSUME NEW d \in Tabs, NEW q \in Queries
      PROVE  /\ query'[d][q].token = query[d][q].token \/ (d = b /\ query'[d][q].token = call[c].answer)
             /\ query'[d][q].body = query[d][q].body
  <2>1. CASE d = b /\ query[b][q].at = "waiting"
    <3>1. query'[d][q] = QueryIs("sent", call[c].answer, query[b][q].retried, query[b][q].body)
      BY <1>1, <1>3, <2>1 DEF Waiters, Replayed, TypeOK
    <3> QED
      BY <2>1, <3>1 DEF QueryIs
  <2>2. CASE ~(d = b /\ query[b][q].at = "waiting")
    BY <1>1, <1>3, <2>2 DEF Waiters, TypeOK
  <2> QED
    BY <2>1, <2>2
<1>5. ASSUME NEW d \in Tabs, NEW t \in Tokens, Has(d, t)'
      PROVE  Has(d, t) \/ (d = b /\ t = call[c].answer)
  <2>0. t # 0
    BY <1>5 DEF Has
  <2>1. CASE t \in {stored'[d], access'[d]}
    BY <1>2, <2>0, <2>1 DEF Has
  <2>2. CASE \E q \in Queries : t \in {query'[d][q].token, query'[d][q].body}
    BY <1>4, <2>0, <2>2 DEF Has
  <2>3. CASE \E x \in Calls : call'[x].tab = d /\ call'[x].token = t
    <3>1. PICK x \in Calls : call'[x].tab = d /\ call'[x].token = t
      BY <2>3
    <3>2. x # c
      BY <1>2, <3>1, Bounds DEF FreeCall
    <3> QED
      BY <1>2, <2>0, <3>1, <3>2 DEF Has
  <2> QED
    BY <1>5, <2>1, <2>2, <2>3 DEF Has
<1>6. UNCHANGED <<authDb, denied, page, cached, ghosts>>
  BY DEF RefreshGranted
<1> QED
  BY <1>1, <1>2, <1>5, <1>6 DEF Grants

\* A rotation: call c has the successor n of its token.
Rotates(c, n) ==
  /\ call[c].at = "roles" /\ n = minted + 1 /\ n \in Tokens /\ minted' = n
  /\ family'[n] = family[call[c].token] /\ \A t \in Tokens \ {n} : family'[t] = family[t]
  /\ row'[n] = "live" /\ row'[call[c].token] # "live"
  /\ \A t \in Tokens \ {n, call[c].token} : row'[t] = row[t]
  /\ \A t \in Tokens \ {n} : row'[t] = "none" <=> row[t] = "none"
  /\ call'[c] = CallIs("granted", call[c].tab, call[c].token, n)
  /\ \A d \in Calls \ {c} : call'[d] = call[d]
  /\ UNCHANGED <<denied, tab, ghosts>>
  /\ \A d \in Tabs, t \in Tokens : Has(d, t)' => Has(d, t)

LEMMA RotatesSteps ==
  ASSUME TypeOK, MintedFirst, NEW c \in Calls, Rotate(c)
  PROVE  Rotates(c, minted + 1)
<1> DEFINE n == minted + 1
           t == call[c].token
<1> USE DEF tab, ghosts
<1>1. call[c].at = "roles" /\ Mint(family[t], Revoke({t})) /\ UNCHANGED <<denied, tab, ghosts>>
  BY DEF Rotate
<1>2. /\ t \in Tokens /\ t \in 1..minted /\ row[t] # "none"
      /\ Revoke({t}) \in [Tokens -> {"none", "live", "revoked"}] /\ family[t] \in Held
  BY <1>1, RevokeType, BusyToken DEF Busy, TypeOK
<1>3. minted' = n /\ n \in Tokens /\ minted \in Nat
  <2>1. minted' = n /\ n \in Tokens
    BY <1>1, <1>2, MintType
  <2> QED
    BY <2>1, Bounds DEF TypeOK, Held
<1>4. n # t
  BY <1>2, <1>3
<1>5. /\ family' = [family EXCEPT ![n] = family[t]]
      /\ row' = [Revoke({t}) EXCEPT ![n] = "live"]
  BY <1>1 DEF Mint
<1>6. family'[n] = family[t] /\ \A u \in Tokens \ {n} : family'[u] = family[u]
  BY <1>3, <1>5 DEF TypeOK
<1>7. \A u \in Tokens : Revoke({t})[u] = IF u = t /\ row[u] = "live" THEN "revoked" ELSE row[u]
  BY DEF Revoke
<1>8. row'[n] = "live" /\ \A u \in Tokens \ {n} : row'[u] = Revoke({t})[u]
  BY <1>2, <1>3, <1>5
<1>9. /\ row'[t] # "live" /\ \A u \in Tokens \ {n, t} : row'[u] = row[u]
      /\ \A u \in Tokens \ {n} : row'[u] = "none" <=> row[u] = "none"
  BY <1>2, <1>4, <1>7, <1>8
<1>10. call'[c] = CallIs("granted", call[c].tab, t, n) /\ \A d \in Calls \ {c} : call'[d] = call[d]
  BY CallSteps, RecordTypes DEF MoveCall
<1>11. \A d \in Calls : call'[d].tab = call[d].tab /\ call'[d].token = call[d].token
  BY <1>10 DEF CallIs
<1>12. \A d \in Tabs, u \in Tokens : Has(d, u)' => Has(d, u)
  BY <1>1, <1>11 DEF Has
<1> QED
  BY <1>1, <1>3, <1>6, <1>8, <1>9, <1>10, <1>12 DEF Rotates

\* A login: tab b has the token n of a new family, and nothing else.
Enters(b, n) ==
  /\ page[b] = "login" /\ n = minted + 1 /\ n \in Tokens /\ minted' = n
  /\ family'[n] = n /\ \A t \in Tokens \ {n} : family'[t] = family[t]
  /\ row'[n] = "live" /\ \A t \in Tokens \ {n} : row'[t] = row[t]
  /\ stored'[b] = n /\ \A d \in Tabs \ {b} : stored'[d] = stored[d]
  /\ page'[b] = "app" /\ \A d \in Tabs \ {b} : page'[d] = page[d] /\ cached'[d] = cached[d]
  /\ UNCHANGED <<denied, call, refreshing, query, ghosts>>
  /\ \A t \in Tokens : Has(b, t)' => t = n
  /\ \A d \in Tabs \ {b}, t \in Tokens : Has(d, t)' => Has(d, t)

LEMMA EntersSteps ==
  ASSUME TypeOK, OnePromise, PageKnows, QueryKnows, NEW b \in Tabs, Login(b)
  PROVE  Enters(b, minted + 1)
<1> DEFINE n == minted + 1
<1> USE DEF ghosts
<1>1. /\ page[b] = "login" /\ Mint(n, row)
      /\ UNCHANGED <<denied, call, refreshing, query, ghosts>>
  BY DEF Login
<1>2. n \in Held
  BY <1>1, Bounds DEF Mint, TypeOK, Held
<1>3. minted' = n /\ n \in Tokens
  BY <1>1, <1>2, MintType DEF TypeOK
<1>4. /\ family'[n] = n /\ \A t \in Tokens \ {n} : family'[t] = family[t]
      /\ row'[n] = "live" /\ \A t \in Tokens \ {n} : row'[t] = row[t]
  BY <1>1, <1>3 DEF Mint, TypeOK
<1>5. /\ stored'[b] = n /\ \A d \in Tabs \ {b} : stored'[d] = stored[d]
      /\ access'[b] = n /\ \A d \in Tabs \ {b} : access'[d] = access[d]
      /\ page'[b] = "app" /\ \A d \in Tabs \ {b} : page'[d] = page[d] /\ cached'[d] = cached[d]
  BY DEF Login, TypeOK
<1>6. refreshing[b] = NoCall /\ \A q \in Queries : query[b][q].at = "idle"
  BY <1>1 DEF PageKnows
<1>7. \A q \in Queries : query[b][q].token = 0 /\ query[b][q].body = 0
  BY <1>6 DEF QueryKnows, NoQuery
<1>8. \A c \in Calls : call[c].tab # b
  BY <1>6, Bounds DEF OnePromise
<1>9. \A t \in Tokens : Has(b, t)' => t = n
  BY <1>1, <1>5, <1>7, <1>8 DEF Has
<1>10. \A d \in Tabs \ {b}, t \in Tokens : Has(d, t)' => Has(d, t)
  BY <1>1, <1>5 DEF Has
<1> QED
  BY <1>1, <1>3, <1>4, <1>5, <1>9, <1>10 DEF Enters

-----------------------------------------------------------------------------
(* MintedFirst *)

LEMMA MintedQuiet ==
  ASSUME TypeOK, MintedFirst, Quiet, ended' \subseteq 1..minted
  PROVE  MintedFirst'
<1>1. ASSUME NEW t \in Tokens
      PROVE  /\ t <= minted' => row'[t] # "none" /\ family'[t] \in 1..minted'
             /\ t > minted' => row'[t] = "none"
  BY DEF MintedFirst, Quiet
<1>2. ASSUME NEW c \in Calls
      PROVE  /\ Busy(c)' => call'[c].token \in 1..minted'
             /\ ~Busy(c)' => call'[c].tab = NoTab
             /\ call'[c].at = "granted" =>
                  call'[c].answer \in 1..minted' /\ family'[call'[c].answer] = family'[call'[c].token]
  BY DEF MintedFirst, Quiet, CallsQuiet, Busy, FreeCall
<1>3. \A b \in Tabs, t \in Tokens : Has(b, t)' => t <= minted'
  BY DEF MintedFirst, Quiet
<1>4. ended' \subseteq 1..minted'
  BY DEF Quiet
<1> QED
  BY <1>1, <1>2, <1>3, <1>4 DEF MintedFirst

\* What is stored is held; what is held was minted.
LEMMA StoredHas ==
  ASSUME TypeOK, MintedFirst, NEW b \in Tabs, stored[b] # 0
  PROVE  stored[b] \in Tokens /\ Has(b, stored[b]) /\ stored[b] \in 1..minted
<1>1. stored[b] \in Tokens /\ stored[b] \in Nat \ {0} /\ minted \in Nat
  BY HeldIsToken, Bounds DEF TypeOK, Held
<1>2. Has(b, stored[b])
  BY DEF Has
<1>3. stored[b] <= minted
  BY <1>1, <1>2 DEF MintedFirst
<1> QED
  BY <1>1, <1>2, <1>3

LEMMA CallHas ==
  ASSUME TypeOK, MintedFirst, NEW c \in Calls, call[c].tab # NoTab
  PROVE  /\ call[c].tab \in Tabs /\ call[c].at # "free"
         /\ call[c].token \in Tokens /\ Has(call[c].tab, call[c].token)
<1>1. call[c].tab \in Tabs /\ Busy(c)
  BY RecordTypes DEF MintedFirst, CallType
<1>2. call[c].token \in Tokens /\ call[c].token # 0
  BY <1>1, BusyToken, Bounds DEF Tokens
<1> QED
  BY <1>1, <1>2 DEF Has, Busy

LEMMA MintedBegins ==
  ASSUME TypeOK, MintedFirst, NEW b \in Tabs, NEW c \in Calls, Begins(b, c)
  PROVE  MintedFirst'
<1> USE DEF authDb, ghosts
<1>1. stored[b] \in 1..minted
  BY StoredHas DEF Begins
<1>2. UNCHANGED <<row, family, minted, ended>>
  BY DEF Begins
<1>3. ASSUME NEW d \in Calls
      PROVE  /\ Busy(d)' => call'[d].token \in 1..minted
             /\ ~Busy(d)' => call'[d].tab = NoTab
             /\ call'[d].at = "granted" =>
                  call'[d].answer \in 1..minted /\ family[call'[d].answer] = family[call'[d].token]
  <2>1. CASE d = c
    BY <1>1, <2>1 DEF Begins, CallIs, Busy
  <2>2. CASE d # c
    <3>1. call'[d] = call[d]
      BY <2>2 DEF Begins
    <3> QED
      BY <3>1 DEF Busy, MintedFirst
  <2> QED
    BY <2>1, <2>2
<1>4. \A d \in Tabs, t \in Tokens : Has(d, t)' => t <= minted
  BY DEF MintedFirst, Begins
<1> QED
  BY <1>2, <1>3, <1>4 DEF MintedFirst

LEMMA MintedGrants ==
  ASSUME TypeOK, MintedFirst, NEW c \in Calls, NEW b \in Tabs, Grants(c, b)
  PROVE  MintedFirst'
<1> USE DEF authDb, ghosts
<1>1. UNCHANGED <<row, family, minted, ended>>
  BY DEF Grants
<1>2. ASSUME NEW d \in Calls
      PROVE  /\ Busy(d)' => call'[d].token \in 1..minted
             /\ ~Busy(d)' => call'[d].tab = NoTab
             /\ call'[d].at = "granted" =>
                  call'[d].answer \in 1..minted /\ family[call'[d].answer] = family[call'[d].token]
  <2>1. call'[d] \in {FreeCall, call[d]}
    BY DEF Grants
  <2> QED
    BY <2>1 DEF FreeCall, Busy, MintedFirst
<1>3. call[c].answer \in 1..minted
  BY DEF MintedFirst, Grants
<1>4. ASSUME NEW d \in Tabs, NEW t \in Tokens, Has(d, t)'
      PROVE  t <= minted
  BY <1>3, <1>4 DEF MintedFirst, Grants
<1> QED
  BY <1>1, <1>2, <1>4 DEF MintedFirst

LEMMA MintedRotates ==
  ASSUME TypeOK, MintedFirst, NEW c \in Calls, NEW n, Rotates(c, n)
  PROVE  MintedFirst'
<1> DEFINE u == call[c].token
<1> USE DEF ghosts, tab
<1>0. /\ u \in Tokens /\ u \in 1..minted /\ family[u] \in 1..minted
      /\ minted \in Nat /\ n = minted + 1 /\ n \in Tokens /\ minted' = n
  BY BusyToken DEF Rotates, Busy, TypeOK, Held
<1>1. ASSUME NEW t \in Tokens
      PROVE  /\ t <= minted' => row'[t] # "none" /\ family'[t] \in 1..minted'
             /\ t > minted' => row'[t] = "none"
  <2>1. CASE t = n
    BY <1>0, <2>1 DEF Rotates
  <2>2. CASE t # n
    <3>1. t \in Nat /\ (t <= n <=> t <= minted) /\ (t > n => t > minted)
      BY <1>0, <2>2 DEF Tokens
    <3>2. /\ t <= minted => row[t] # "none" /\ family[t] \in 1..minted
          /\ t > minted => row[t] = "none"
      BY DEF MintedFirst
    <3>3. family'[t] = family[t] /\ (row'[t] = "none" <=> row[t] = "none")
      BY <2>2 DEF Rotates
    <3> QED
      BY <1>0, <3>1, <3>2, <3>3
  <2> QED
    BY <2>1, <2>2
<1>2. ASSUME NEW d \in Calls
      PROVE  /\ Busy(d)' => call'[d].token \in 1..n
             /\ ~Busy(d)' => call'[d].tab = NoTab
             /\ call'[d].at = "granted" =>
                  call'[d].answer \in 1..n /\ family'[call'[d].answer] = family'[call'[d].token]
  <2>1. CASE d = c
    <3>1. u # n /\ family'[u] = family[u] /\ family'[n] = family[u]
      BY <1>0 DEF Rotates
    <3> QED
      BY <1>0, <2>1, <3>1 DEF Rotates, CallIs, Busy
  <2>2. CASE d # c
    <3>1. call'[d] = call[d]
      BY <2>2 DEF Rotates
    <3>2. \A t \in 1..minted : t \in 1..n /\ t \in Tokens /\ t # n
      BY <1>0, Bounds DEF Tokens
    <3>3. \A t \in 1..minted : family'[t] = family[t]
      BY <3>2 DEF Rotates
    <3>4. /\ Busy(d) => call[d].token \in 1..minted
          /\ ~Busy(d) => call[d].tab = NoTab
          /\ call[d].at = "granted" =>
               call[d].answer \in 1..minted /\ family[call[d].answer] = family[call[d].token]
      BY DEF MintedFirst
    <3> QED
      BY <3>1, <3>2, <3>3, <3>4 DEF Busy
  <2> QED
    BY <2>1, <2>2
<1>3. ASSUME NEW d \in Tabs, NEW t \in Tokens, Has(d, t)'
      PROVE  t <= n
  BY <1>0, <1>3 DEF MintedFirst, Rotates, Tokens
<1>4. ended' = ended /\ ended \subseteq 1..minted /\ 1..minted \subseteq 1..n
  BY <1>0 DEF MintedFirst, Rotates
<1> QED
  BY <1>0, <1>1, <1>2, <1>3, <1>4 DEF MintedFirst

LEMMA MintedEnters ==
  ASSUME TypeOK, MintedFirst, NEW b \in Tabs, NEW n, Enters(b, n)
  PROVE  MintedFirst'
<1> USE DEF ghosts
<1>0. minted \in Nat /\ n = minted + 1 /\ n \in Tokens /\ minted' = n
  BY DEF Enters, TypeOK, Held
<1>1. ASSUME NEW t \in Tokens
      PROVE  /\ t <= minted' => row'[t] # "none" /\ family'[t] \in 1..minted'
             /\ t > minted' => row'[t] = "none"
  <2>1. CASE t = n
    BY <1>0, <2>1 DEF Enters
  <2>2. CASE t # n
    <3>1. t \in Nat /\ (t <= n <=> t <= minted) /\ (t > n => t > minted)
      BY <1>0, <2>2 DEF Tokens
    <3>2. /\ t <= minted => row[t] # "none" /\ family[t] \in 1..minted
          /\ t > minted => row[t] = "none"
      BY DEF MintedFirst
    <3>3. family'[t] = family[t] /\ row'[t] = row[t]
      BY <2>2 DEF Enters
    <3> QED
      BY <1>0, <3>1, <3>2, <3>3
  <2> QED
    BY <2>1, <2>2
<1>2. \A t \in 1..minted : t \in 1..n /\ t \in Tokens /\ t # n
  BY <1>0, Bounds DEF Tokens
<1>3. \A t \in 1..minted : family'[t] = family[t]
  BY <1>2 DEF Enters
<1>4. ASSUME NEW d \in Calls
      PROVE  /\ Busy(d)' => call'[d].token \in 1..n
             /\ ~Busy(d)' => call'[d].tab = NoTab
             /\ call'[d].at = "granted" =>
                  call'[d].answer \in 1..n /\ family'[call'[d].answer] = family'[call'[d].token]
  <2>1. call' = call
    BY DEF Enters
  <2>2. /\ Busy(d) => call[d].token \in 1..minted
        /\ ~Busy(d) => call[d].tab = NoTab
        /\ call[d].at = "granted" => Busy(d) /\
             call[d].answer \in 1..minted /\ family[call[d].answer] = family[call[d].token]
    BY DEF MintedFirst, Busy
  <2> QED
    BY <1>2, <1>3, <2>1, <2>2 DEF Busy
<1>5. ASSUME NEW d \in Tabs, NEW t \in Tokens, Has(d, t)'
      PROVE  t <= n
  BY <1>0, <1>5 DEF MintedFirst, Enters, Tokens
<1>6. ended' = ended /\ ended \subseteq 1..minted
  BY DEF MintedFirst, Enters
<1> QED
  BY <1>0, <1>1, <1>2, <1>4, <1>5, <1>6 DEF MintedFirst

-----------------------------------------------------------------------------
(* OneFamily *)

\* Whatever a tab gets is of the login it already has a token of.
Inherits ==
  \A b \in Tabs, t \in Tokens : Has(b, t)' =>
    \E u \in Tokens : Has(b, u) /\ family[u] = family'[t]

LEMMA FamilyInherits ==
  ASSUME OneFamily, Inherits
  PROVE  OneFamily'
<1> SUFFICES ASSUME NEW b \in Tabs, NEW d \in Tabs, NEW t \in Tokens, NEW u \in Tokens,
                    Has(b, t)', Has(d, u)'
             PROVE  family'[t] = family'[u] <=> b = d
  BY DEF OneFamily
<1>1. PICK v \in Tokens : Has(b, v) /\ family[v] = family'[t]
  BY DEF Inherits
<1>2. PICK w \in Tokens : Has(d, w) /\ family[w] = family'[u]
  BY DEF Inherits
<1> QED
  BY <1>1, <1>2 DEF OneFamily

LEMMA QuietInherits ==
  ASSUME Quiet
  PROVE  Inherits
  BY DEF Quiet, Inherits

LEMMA BeginsInherits ==
  ASSUME NEW b \in Tabs, NEW c \in Calls, Begins(b, c)
  PROVE  Inherits
  BY DEF Begins, Inherits, authDb

LEMMA GrantsInherits ==
  ASSUME TypeOK, MintedFirst, NEW c \in Calls, NEW b \in Tabs, Grants(c, b)
  PROVE  Inherits
<1>1. /\ call[c].token \in Tokens /\ Has(b, call[c].token)
      /\ family[call[c].answer] = family[call[c].token]
  BY CallHas, Bounds DEF Grants, MintedFirst
<1>2. family' = family
  BY DEF Grants, authDb
<1> QED
  BY <1>1, <1>2 DEF Grants, Inherits

\* The families of the tokens minted so far stay what they are.
LEMMA OldFamily ==
  ASSUME TypeOK, MintedFirst, NEW n \in Tokens, n = minted + 1,
         \A t \in Tokens \ {n} : family'[t] = family[t]
  PROVE  /\ \A t \in Tokens : t <= minted => family'[t] = family[t] /\ family[t] < n
         /\ \A b \in Tabs, t \in Tokens : Has(b, t) => family'[t] = family[t] /\ family[t] < n /\ t # n
<1>1. minted \in Nat
  BY DEF TypeOK, Held
<1>2. ASSUME NEW t \in Tokens, t <= minted
      PROVE  family'[t] = family[t] /\ family[t] < n /\ t # n
  BY <1>1, <1>2 DEF MintedFirst, Tokens
<1> QED
  BY <1>2 DEF MintedFirst

LEMMA RotatesInherits ==
  ASSUME TypeOK, MintedFirst, NEW c \in Calls, NEW n, Rotates(c, n)
  PROVE  Inherits
<1>1. n \in Tokens /\ n = minted + 1 /\ \A t \in Tokens \ {n} : family'[t] = family[t]
  BY DEF Rotates
<1>2. \A b \in Tabs, t \in Tokens : Has(b, t) => family'[t] = family[t]
  BY <1>1, OldFamily
<1> QED
  BY <1>2 DEF Rotates, Inherits

LEMMA FamilyEnters ==
  ASSUME TypeOK, MintedFirst, OneFamily, NEW b \in Tabs, NEW n, Enters(b, n)
  PROVE  OneFamily'
<1>1. n \in Tokens /\ n = minted + 1 /\ \A t \in Tokens \ {n} : family'[t] = family[t]
  BY DEF Enters
<1>2. \A d \in Tabs, t \in Tokens : Has(d, t) => family'[t] = family[t] /\ family[t] < n
  BY <1>1, OldFamily
<1>3. ASSUME NEW d \in Tabs \ {b}, NEW t \in Tokens, Has(d, t)'
      PROVE  Has(d, t) /\ family'[t] = family[t] /\ family'[t] # n
  <2>1. Has(d, t)
    BY <1>3 DEF Enters
  <2>2. family'[t] = family[t] /\ family[t] < n
    BY <1>2, <2>1
  <2> QED
    BY <2>1, <2>2, <1>1 DEF TypeOK, Held, Tokens
<1>4. \A t \in Tokens : Has(b, t)' => family'[t] = n
  BY DEF Enters
<1> SUFFICES ASSUME NEW d \in Tabs, NEW e \in Tabs, NEW t \in Tokens, NEW u \in Tokens,
                    Has(d, t)', Has(e, u)'
             PROVE  family'[t] = family'[u] <=> d = e
  BY DEF OneFamily
<1> QED
  BY <1>3, <1>4 DEF OneFamily

-----------------------------------------------------------------------------
(* EndedIsOver *)

LEMMA EndedQuiet ==
  ASSUME EndedIsOver, Quiet, ended' = ended
  PROVE  EndedIsOver'
<1> SUFFICES ASSUME NEW t \in ended
             PROVE  /\ \A u \in Tokens : row'[u] = "live" => family'[u] # family'[t]
                    /\ \A b \in Tabs : stored'[b] # 0 => family'[stored'[b]] # family'[t]
                    /\ \A c \in Calls : Busy(c)' => family'[call'[c].token] # family'[t]
  BY DEF EndedIsOver
<1>1. \A c \in Calls : Busy(c)' => Busy(c) /\ call'[c].token = call[c].token
  BY DEF Quiet, CallsQuiet, Busy, FreeCall
<1> QED
  BY <1>1 DEF Quiet, EndedIsOver

\* Only a logout that went through adds to ended.
LEMMA EndedSame ==
  \/ \E c \in Calls : CallQuiet(c)
  \/ \E b \in Tabs, q \in Queries : RequestQuiet(b, q) /\ ~LogoutRevoke(b, q)
  \/ \E b \in Tabs : LoadQuiet(b)
  => ended' = ended
  BY DEF CallQuiet, FindToken, RevokeFamily, RefuseRefresh, RefreshUnheard, RefreshRefused, RefreshLost,
         RequestQuiet, Unauthorized, Served, ServedError, LogoutDeny, LogoutLost, Send, SignOut, Request,
         LoadQuiet, Leave, Reload, Load, ghosts

LEMMA EndedRevoke ==
  ASSUME TypeOK, MintedFirst, QueryKnows, OneFamily, EndedIsOver, Quiet,
         NEW b \in Tabs, NEW q \in Queries, LogoutRevoke(b, q)
  PROVE  EndedIsOver' /\ ended' \subseteq 1..minted
<1> DEFINE t == query[b][q].token
           u == query[b][q].body
<1>1. ended' = ended
      \/ (ended' = ended \cup {t} /\ Alone(u) /\ row' = Revoke({u}) /\ stored'[b] = 0)
  BY DEF LogoutRevoke, SignedOut, Forget, TypeOK
<1>2. CASE ended' = ended
  BY <1>2, EndedQuiet DEF MintedFirst
<1>3. CASE ended' = ended \cup {t} /\ Alone(u) /\ row' = Revoke({u}) /\ stored'[b] = 0
  <2>1. t \in Tokens /\ u \in Tokens /\ t # 0 /\ u # 0
    BY HeldIsToken DEF LogoutRevoke, QueryKnows, TypeOK
  <2>2. Has(b, t) /\ Has(b, u)
    BY <2>1 DEF Has
  <2>3. family[t] = family[u] /\ t \in 1..minted
    BY <2>1, <2>2, Bounds DEF OneFamily, MintedFirst, Tokens
  <2>4. ASSUME NEW v \in Tokens, row'[v] = "live"
        PROVE  family[v] # family[t]
    <3>1. row[v] = "live" /\ v # u
      BY <1>3, <2>4 DEF Revoke, TypeOK
    <3> QED
      BY <1>3, <2>3, <3>1 DEF Alone
  <2>5. ASSUME NEW d \in Tabs, stored'[d] # 0
        PROVE  family[stored'[d]] # family[t]
    <3>1. stored'[d] = stored[d] /\ d # b
      BY <1>3, <2>5 DEF Quiet
    <3>2. stored[d] \in Tokens /\ Has(d, stored[d])
      BY <2>5, <3>1, StoredHas
    <3> QED
      BY <2>1, <2>2, <3>1, <3>2 DEF OneFamily
  <2>6. ASSUME NEW c \in Calls, Busy(c)'
        PROVE  family[call'[c].token] # family[t]
    <3>1. Busy(c) /\ call'[c].token = call[c].token
      BY <2>6 DEF Quiet, CallsQuiet, Busy, FreeCall
    <3> QED
      BY <1>3, <2>3, <3>1 DEF Alone, Busy
  <2>7. \A v \in ended :
          /\ \A w \in Tokens : row'[w] = "live" => family[w] # family[v]
          /\ \A d \in Tabs : stored'[d] # 0 => family[stored'[d]] # family[v]
          /\ \A c \in Calls : Busy(c)' => family[call'[c].token] # family[v]
    <3>1. \A c \in Calls : Busy(c)' => Busy(c) /\ call'[c].token = call[c].token
      BY DEF Quiet, CallsQuiet, Busy, FreeCall
    <3> QED
      BY <3>1 DEF Quiet, EndedIsOver
  <2>8. family' = family
    BY DEF Quiet
  <2>9. EndedIsOver'
    BY <1>3, <2>4, <2>5, <2>6, <2>7, <2>8 DEF EndedIsOver
  <2> QED
    BY <1>3, <2>3, <2>9 DEF MintedFirst
<1> QED
  BY <1>1, <1>2, <1>3

LEMMA EndedBegins ==
  ASSUME TypeOK, MintedFirst, EndedIsOver, NEW b \in Tabs, NEW c \in Calls, Begins(b, c)
  PROVE  EndedIsOver'
<1> USE DEF authDb, ghosts
<1>1. UNCHANGED <<row, family, stored, ended>> /\ stored[b] # 0
  BY DEF Begins
<1>2. ASSUME NEW t \in ended, NEW d \in Calls, Busy(d)'
      PROVE  family[call'[d].token] # family[t]
  <2>1. CASE d = c
    BY <1>1, <2>1 DEF Begins, CallIs, EndedIsOver
  <2>2. CASE d # c
    BY <1>2, <2>2 DEF Begins, EndedIsOver, Busy
  <2> QED
    BY <2>1, <2>2
<1> QED
  BY <1>1, <1>2 DEF EndedIsOver

LEMMA EndedGrants ==
  ASSUME TypeOK, MintedFirst, EndedIsOver, NEW c \in Calls, NEW b \in Tabs, Grants(c, b)
  PROVE  EndedIsOver'
<1> USE DEF authDb, ghosts
<1>1. UNCHANGED <<row, family, ended>> /\ Busy(c) /\ family[call[c].answer] = family[call[c].token]
  BY DEF Grants, MintedFirst, Busy
<1>2. ASSUME NEW t \in ended, NEW d \in Tabs, stored'[d] # 0
      PROVE  family[stored'[d]] # family[t]
  <2>1. CASE d = b
    BY <1>1, <2>1 DEF Grants, EndedIsOver
  <2>2. CASE d # b
    BY <1>2, <2>2 DEF Grants, EndedIsOver
  <2> QED
    BY <2>1, <2>2
<1>3. ASSUME NEW t \in ended, NEW d \in Calls, Busy(d)'
      PROVE  family[call'[d].token] # family[t]
  BY <1>3 DEF Grants, FreeCall, Busy, EndedIsOver
<1> QED
  BY <1>1, <1>2, <1>3 DEF EndedIsOver

LEMMA EndedRotates ==
  ASSUME TypeOK, MintedFirst, EndedIsOver, NEW c \in Calls, NEW n, Rotates(c, n)
  PROVE  EndedIsOver'
<1> USE DEF tab, ghosts
<1>1. /\ n \in Tokens /\ n = minted + 1 /\ \A t \in Tokens \ {n} : family'[t] = family[t]
      /\ family'[n] = family[call[c].token] /\ UNCHANGED <<stored, ended>> /\ Busy(c)
  BY DEF Rotates, Busy
<1>2. \A t \in 1..minted : t \in Tokens /\ t # n /\ family'[t] = family[t]
  BY <1>1, Bounds DEF Tokens, TypeOK, Held
<1>3. ended \subseteq 1..minted
  BY DEF MintedFirst
<1>4. ASSUME NEW t \in ended
      PROVE  /\ \A u \in Tokens : row'[u] = "live" => family'[u] # family[t]
             /\ \A b \in Tabs : stored[b] # 0 => family'[stored[b]] # family[t]
             /\ \A d \in Calls : Busy(d)' => family'[call'[d].token] # family[t]
  <2>1. ASSUME NEW u \in Tokens, row'[u] = "live"
        PROVE  family'[u] # family[t]
    BY <1>1, <2>1 DEF Rotates, EndedIsOver
  <2>2. ASSUME NEW b \in Tabs, stored[b] # 0
        PROVE  family'[stored[b]] # family[t]
    BY <1>2, <2>2, StoredHas DEF EndedIsOver
  <2>3. ASSUME NEW d \in Calls, Busy(d)'
        PROVE  family'[call'[d].token] # family[t]
    <3>1. Busy(d) /\ call'[d].token = call[d].token
      BY <1>1, <2>3 DEF Rotates, CallIs, Busy
    <3>2. call[d].token \in 1..minted
      BY <3>1, BusyToken
    <3> QED
      BY <1>2, <3>1, <3>2 DEF EndedIsOver
  <2> QED
    BY <2>1, <2>2, <2>3
<1>5. \A t \in ended : family'[t] = family[t]
  BY <1>2, <1>3
<1> QED
  BY <1>1, <1>4, <1>5 DEF EndedIsOver

LEMMA EndedEnters ==
  ASSUME TypeOK, MintedFirst, EndedIsOver, NEW b \in Tabs, NEW n, Enters(b, n)
  PROVE  EndedIsOver'
<1> USE DEF ghosts
<1>1. /\ n \in Tokens /\ n = minted + 1 /\ \A t \in Tokens \ {n} : family'[t] = family[t]
      /\ family'[n] = n /\ UNCHANGED <<call, ended>>
  BY DEF Enters
<1>2. \A t \in 1..minted : t \in Tokens /\ t # n /\ t <= minted
  BY <1>1, Bounds DEF Tokens, TypeOK, Held
<1>3. \A t \in 1..minted : family'[t] = family[t] /\ family[t] # n
  <2>1. \A t \in Tokens : t <= minted => family'[t] = family[t] /\ family[t] < n
    BY <1>1, OldFamily
  <2>2. \A t \in Tokens : family[t] \in Nat
    BY DEF TypeOK, Held
  <2>3. n \in Nat
    BY <1>1 DEF Tokens
  <2> QED
    BY <1>2, <2>1, <2>2, <2>3
<1>4. ended \subseteq 1..minted
  BY DEF MintedFirst
<1>5. ASSUME NEW t \in ended
      PROVE  /\ \A u \in Tokens : row'[u] = "live" => family'[u] # family[t]
             /\ \A d \in Tabs : stored'[d] # 0 => family'[stored'[d]] # family[t]
             /\ \A d \in Calls : Busy(d)' => family'[call'[d].token] # family[t]
  <2>1. ASSUME NEW u \in Tokens, row'[u] = "live"
        PROVE  family'[u] # family[t]
    BY <1>1, <1>3, <1>4, <2>1 DEF Enters, EndedIsOver
  <2>2. ASSUME NEW d \in Tabs, stored'[d] # 0
        PROVE  family'[stored'[d]] # family[t]
    <3>1. CASE d = b
      BY <1>1, <1>3, <1>4, <3>1 DEF Enters
    <3>2. CASE d # b
      <4>1. stored'[d] = stored[d] /\ stored[d] \in 1..minted
        BY <2>2, <3>2, StoredHas DEF Enters
      <4> QED
        BY <1>3, <2>2, <4>1 DEF EndedIsOver
    <3> QED
      BY <3>1, <3>2
  <2>3. ASSUME NEW d \in Calls, Busy(d)'
        PROVE  family'[call'[d].token] # family[t]
    <3>1. Busy(d) /\ call'[d].token = call[d].token
      BY <1>1, <2>3 DEF Busy
    <3>2. call[d].token \in 1..minted
      BY <3>1, BusyToken
    <3> QED
      BY <1>3, <3>1, <3>2 DEF EndedIsOver
  <2> QED
    BY <2>1, <2>2, <2>3
<1>6. \A t \in ended : family'[t] = family[t]
  BY <1>3, <1>4
<1> QED
  BY <1>1, <1>5, <1>6 DEF EndedIsOver

-----------------------------------------------------------------------------
(* OnePromise *)

\* What a step that hands out no token does to the promises.
Promises ==
  \A b \in Tabs :
    \/ refreshing'[b] = refreshing[b]
    \/ refreshing'[b] = NoCall /\ \A c \in Calls : call'[c].tab # b

LEMMA PromiseQuiet ==
  ASSUME TypeOK, TypeOK', MintedFirst, OnePromise, Quiet, Promises
  PROVE  OnePromise'
<1>1. ASSUME NEW c \in Calls, call'[c].tab # NoTab
      PROVE  refreshing'[call'[c].tab] = c
  <2>1. call'[c].tab = call[c].tab
    BY <1>1, Bounds DEF Quiet, CallsQuiet, FreeCall
  <2>2. call[c].tab \in Tabs /\ refreshing[call[c].tab] = c
    BY <1>1, <2>1, CallHas DEF OnePromise
  <2> QED
    BY <2>1, <2>2 DEF Promises
<1>2. ASSUME NEW b \in Tabs, refreshing'[b] # NoCall
      PROVE  stored'[b] \in {0, call'[refreshing'[b]].token}
  <2>1. refreshing'[b] = refreshing[b] /\ refreshing[b] \in Calls
    BY <1>2 DEF Promises, TypeOK
  <2>2. call'[refreshing[b]].at # "free"
    BY <1>2, <2>1 DEF TypeOK
  <2>3. call'[refreshing[b]].token = call[refreshing[b]].token
    BY <2>1, <2>2 DEF Quiet, CallsQuiet, FreeCall
  <2>4. stored[b] \in {0, call[refreshing[b]].token}
    BY <1>2, <2>1 DEF OnePromise
  <2> QED
    BY <2>1, <2>3, <2>4 DEF Quiet
<1> QED
  BY <1>1, <1>2 DEF OnePromise

LEMMA QuietPromises ==
  ASSUME TypeOK, MintedFirst, OnePromise,
         \/ \E c \in Calls : CallQuiet(c)
         \/ \E b \in Tabs, q \in Queries : RequestQuiet(b, q) /\ ~Starts(b, q)
         \/ \E b \in Tabs : LoadQuiet(b)
  PROVE  Promises
<1> USE DEF tab, authDb, ghosts
<1>1. ASSUME NEW c \in Calls, RefreshRefused(c) \/ RefreshLost(c)
      PROVE  Promises
  <2> DEFINE b == call[c].tab
  <2>1. b \in Tabs /\ refreshing' = [refreshing EXCEPT ![b] = NoCall]
    BY <1>1, CallHas DEF RefreshRefused, RefreshLost, Fails
  <2>2. call'[c].tab = NoTab /\ \A d \in Calls \ {c} : call'[d] = call[d]
    <3>1. CASE RefreshRefused(c)
      BY <3>1, RecordTypes DEF RefreshRefused, FreeCall
    <3>2. CASE RefreshLost(c)
      BY <3>2, CallSteps, RecordTypes DEF MoveCall, CallIs
    <3> QED
      BY <1>1, <3>1, <3>2
  <2>3. \A d \in Calls : call'[d].tab # b
    BY <2>1, <2>2, Bounds DEF OnePromise
  <2> QED
    BY <2>1, <2>3 DEF Promises, TypeOK
<1>2. ASSUME NEW b \in Tabs, LoadQuiet(b)
      PROVE  Promises
  <2>1. Load(b)
    BY <1>2 DEF LoadQuiet, Leave, Reload
  <2>2. ASSUME NEW c \in Calls
        PROVE  call'[c].tab # b
    <3>1. call'[c] = IF call[c].tab = b THEN CallIs(call[c].at, NoTab, call[c].token, call[c].answer)
                                        ELSE call[c]
      BY <2>1, LeftQuiet
    <3> QED
      BY <3>1, Bounds DEF CallIs
  <2>3. refreshing' = [refreshing EXCEPT ![b] = NoCall]
    BY <2>1 DEF Load
  <2> QED
    BY <2>2, <2>3 DEF Promises, TypeOK
<1>3. ASSUME NEW c \in Calls, CallQuiet(c), ~(RefreshRefused(c) \/ RefreshLost(c))
      PROVE  Promises
  BY <1>3 DEF CallQuiet, FindToken, RevokeFamily, RefuseRefresh, RefreshUnheard, Promises
<1>4. ASSUME NEW b \in Tabs, NEW q \in Queries, RequestQuiet(b, q), ~Starts(b, q)
      PROVE  Promises
  BY <1>4 DEF RequestQuiet, Starts, Unauthorized, HandleUnauthorized, Served, ServedError, LogoutDeny,
              LogoutRevoke, LogoutLost, Send, SignOut, Request, Promises
<1> QED
  BY <1>1, <1>2, <1>3, <1>4

LEMMA PromiseBegins ==
  ASSUME TypeOK, MintedFirst, OnePromise, NEW b \in Tabs, NEW c \in Calls, Begins(b, c)
  PROVE  OnePromise'
<1>1. ASSUME NEW d \in Calls, call'[d].tab # NoTab
      PROVE  refreshing'[call'[d].tab] = d
  <2>1. CASE d = c
    BY <2>1 DEF Begins, CallIs
  <2>2. CASE d # c
    <3>1. call'[d] = call[d] /\ call[d].tab \in Tabs /\ refreshing[call[d].tab] = d
      BY <1>1, <2>2, CallHas DEF Begins, OnePromise
    <3>2. call[d].tab # b
      BY <3>1, Bounds DEF Begins
    <3> QED
      BY <3>1, <3>2 DEF Begins
  <2> QED
    BY <2>1, <2>2
<1>2. ASSUME NEW d \in Tabs, refreshing'[d] # NoCall
      PROVE  stored'[d] \in {0, call'[refreshing'[d]].token}
  <2>1. stored' = stored
    BY DEF Begins
  <2>2. CASE d = b
    BY <2>1, <2>2 DEF Begins, CallIs
  <2>3. CASE d # b
    <3>1. refreshing'[d] = refreshing[d]
      BY <2>3 DEF Begins
    <3>2. refreshing[d] \in Calls /\ refreshing[d] # c
      BY <1>2, <3>1 DEF TypeOK, Begins
    <3> QED
      BY <1>2, <2>1, <3>1, <3>2 DEF Begins, OnePromise
  <2> QED
    BY <2>2, <2>3
<1> QED
  BY <1>1, <1>2 DEF OnePromise

LEMMA PromiseGrants ==
  ASSUME TypeOK, MintedFirst, OnePromise, NEW c \in Calls, NEW b \in Tabs, Grants(c, b)
  PROVE  OnePromise'
<1>1. ASSUME NEW d \in Calls, call'[d].tab # NoTab
      PROVE  refreshing'[call'[d].tab] = d
  <2>1. d # c /\ call'[d] = call[d]
    BY <1>1 DEF Grants, FreeCall
  <2>2. call[d].tab \in Tabs /\ refreshing[call[d].tab] = d /\ refreshing[b] = c
    BY <1>1, <2>1, CallHas, Bounds DEF OnePromise, Grants
  <2> QED
    BY <2>1, <2>2 DEF Grants
<1>2. ASSUME NEW d \in Tabs, refreshing'[d] # NoCall
      PROVE  stored'[d] \in {0, call'[refreshing'[d]].token}
  <2>1. d # b /\ refreshing'[d] = refreshing[d] /\ stored'[d] = stored[d]
    BY <1>2 DEF Grants
  <2>2. refreshing[d] \in Calls /\ call[refreshing[d]].tab = d
    BY <1>2, <2>1 DEF TypeOK
  <2>3. refreshing[d] # c
    BY <2>1, <2>2 DEF Grants
  <2> QED
    BY <1>2, <2>1, <2>2, <2>3 DEF Grants, OnePromise
<1> QED
  BY <1>1, <1>2 DEF OnePromise

LEMMA PromiseRotates ==
  ASSUME TypeOK, OnePromise, NEW c \in Calls, NEW n, Rotates(c, n)
  PROVE  OnePromise'
<1>1. \A d \in Calls : call'[d].tab = call[d].tab /\ call'[d].token = call[d].token
  BY DEF Rotates, CallIs
<1>2. UNCHANGED <<refreshing, stored>> /\ \A b \in Tabs : refreshing[b] # NoCall => refreshing[b] \in Calls
  BY DEF Rotates, tab, TypeOK
<1> QED
  BY <1>1, <1>2 DEF OnePromise

LEMMA PromiseEnters ==
  ASSUME OnePromise, PageKnows, NEW b \in Tabs, NEW n, Enters(b, n)
  PROVE  OnePromise'
<1>1. refreshing[b] = NoCall /\ UNCHANGED <<refreshing, call>>
  BY DEF Enters, PageKnows
<1> QED
  BY <1>1 DEF OnePromise, Enters

-----------------------------------------------------------------------------
(* PageKnows and QueryKnows *)

LEMMA PageCalls ==
  ASSUME TypeOK, MintedFirst, PageKnows, OnePromise, NEW c \in Calls, CallQuiet(c)
  PROVE  PageKnows'
<1> USE DEF tab, authDb, ghosts
<1>1. Forgets /\ Promises
  BY QuietForgets, QuietPromises
<1>2. \A b \in Tabs, q \in Queries : query'[b][q] \in {query[b][q], NoQuery}
  <2>1. CASE RefreshRefused(c) \/ RefreshLost(c)
    <3>1. call[c].tab \in Tabs /\ query' = Waiters(call[c].tab, [q \in Queries |-> NoQuery])
      BY <2>1, RecordTypes DEF RefreshRefused, RefreshLost, Fails, CallType
    <3> QED
      BY <3>1, ClearedLess
  <2>2. CASE ~(RefreshRefused(c) \/ RefreshLost(c))
    BY <2>2 DEF CallQuiet, FindToken, RevokeFamily, RefuseRefresh, RefreshUnheard
  <2> QED
    BY <2>1, <2>2
<1> QED
  BY <1>1, <1>2 DEF PageKnows, Forgets, Promises, NoQuery

\* A request under way is of a page that is not the login page.
LEMMA RequestPage ==
  ASSUME PageKnows, QueryKnows, NEW b \in Tabs, NEW q \in Queries, RequestQuiet(b, q)
  PROVE  page[b] # "login"
<1>1. CASE Send(b, q) \/ SignOut(b, q)
  BY <1>1 DEF Send, SignOut, Request
<1>2. CASE ~(Send(b, q) \/ SignOut(b, q))
  <2>1. query[b][q].at # "idle"
    BY <1>2 DEF RequestQuiet, Unauthorized, Served, ServedError, LogoutDeny, LogoutRevoke, LogoutLost,
                IsLogout, QueryKnows, NoQuery
  <2> QED
    BY <2>1 DEF PageKnows
<1> QED
  BY <1>1, <1>2

LEMMA PageRequests ==
  ASSUME TypeOK, MintedFirst, PageKnows, QueryKnows, OnePromise,
         NEW b \in Tabs, NEW q \in Queries, RequestQuiet(b, q)
  PROVE  PageKnows'
<1>1. page[b] # "login" /\ Forgets
  BY RequestPage, QuietForgets
<1>2. PICK r : Ask(b, q, r)
  <2>1. CASE Unauthorized(b, q)
    BY <2>1 DEF Unauthorized, HandleUnauthorized
  <2>2. CASE ~Unauthorized(b, q)
    BY <2>2 DEF RequestQuiet, Served, ServedError, LogoutDeny, LogoutRevoke, LogoutLost, Send, SignOut, Request
  <2> QED
    BY <2>1, <2>2
<1>3. \A d \in Tabs \ {b} : query'[d] = query[d]
  BY <1>2 DEF Ask, TypeOK
<1>4. \A d \in Tabs \ {b} : refreshing[d] = NoCall => refreshing'[d] = NoCall
  <2>1. CASE Starts(b, q)
    BY <2>1, StartsSteps DEF Begins
  <2>2. CASE ~Starts(b, q)
    BY <2>2, QuietPromises DEF Promises
  <2> QED
    BY <2>1, <2>2
<1> QED
  BY <1>1, <1>3, <1>4 DEF PageKnows, Forgets

LEMMA PageLoads ==
  ASSUME TypeOK, PageKnows, NEW b \in Tabs, LoadQuiet(b)
  PROVE  PageKnows'
<1>1. Load(b)
  BY DEF LoadQuiet, Leave, Reload
<1>2. ASSUME NEW d \in Tabs \ {b}
      PROVE  /\ page'[d] = page[d] /\ cached'[d] = cached[d]
             /\ refreshing'[d] = refreshing[d] /\ query'[d] = query[d]
  BY <1>1 DEF Load, TypeOK
<1>3. refreshing'[b] = NoCall /\ \A q \in Queries : query'[b][q] = NoQuery
  BY <1>1 DEF Load, TypeOK
<1>4. page'[b] # "app" => ~cached'[b]
  BY <1>1 DEF Load, TypeOK
<1> QED
  BY <1>2, <1>3, <1>4 DEF PageKnows, NoQuery

LEMMA PageGrants ==
  ASSUME TypeOK, PageKnows, NEW c \in Calls, RefreshGranted(c)
  PROVE  PageKnows'
<1> DEFINE b == call[c].tab
<1>1. Grants(c, b) /\ b \in Tabs
  BY GrantsSteps
<1>2. page' = page /\ cached' = cached /\ \A d \in Tabs \ {b} : refreshing'[d] = refreshing[d]
  BY <1>1 DEF Grants
<1>3. refreshing[b] # NoCall \/ page[b] # "login" \/ refreshing'[b] = NoCall
  BY <1>1 DEF Grants
<1>4. query' = Waiters(b, Replayed(b, call[c].answer))
  BY QuerySteps
<1>5. ASSUME NEW d \in Tabs, NEW q \in Queries, query[d][q].at = "idle"
      PROVE  query'[d][q].at = "idle"
  BY <1>1, <1>4, <1>5 DEF Waiters, TypeOK
<1> QED
  BY <1>1, <1>2, <1>5 DEF PageKnows, Grants

LEMMA PageRotates ==
  ASSUME PageKnows, NEW c \in Calls, NEW n, Rotates(c, n)
  PROVE  PageKnows'
  BY DEF PageKnows, Rotates, tab

LEMMA PageEnters ==
  ASSUME PageKnows, NEW b \in Tabs, NEW n, Enters(b, n)
  PROVE  PageKnows'
  BY DEF PageKnows, Enters

\* What a request knows, of any one request and denylist.
Knows(r, den) ==
  /\ r.at = "idle" => r = NoQuery
  /\ r.at \in {"denied", "notDenied"} => r.token # 0 /\ r.body # 0
  /\ r.at = "denied" => r.token \in den

LEMMA KnowsAll == QueryKnows <=> \A b \in Tabs, q \in Queries : Knows(query[b][q], denied)
  BY DEF QueryKnows, Knows

LEMMA KnowsAsk ==
  ASSUME TypeOK, QueryKnows, denied \subseteq denied',
         NEW b \in Tabs, NEW q \in Queries, NEW r, Ask(b, q, r), Knows(r, denied')
  PROVE  QueryKnows'
<1>1. ASSUME NEW d \in Tabs, NEW p \in Queries
      PROVE  query'[d][p] = IF d = b /\ p = q THEN r ELSE query[d][p]
  BY DEF Ask, TypeOK
<1>2. \A d \in Tabs, p \in Queries : Knows(query'[d][p], denied')
  BY <1>1, KnowsAll DEF Knows
<1> QED
  BY <1>2 DEF QueryKnows, Knows

LEMMA KnowsStill ==
  ASSUME QueryKnows, denied' = denied,
         \A b \in Tabs, q \in Queries :
           \/ query'[b][q] \in {query[b][q], NoQuery}
           \/ query'[b][q].at = "sent"
  PROVE  QueryKnows'
<1>1. ASSUME NEW b \in Tabs, NEW q \in Queries
      PROVE  Knows(query'[b][q], denied')
  <2>1. CASE query'[b][q] = query[b][q]
    BY <2>1, KnowsAll
  <2>2. CASE query'[b][q] = NoQuery
    BY <2>2 DEF Knows, NoQuery
  <2>3. CASE query'[b][q].at = "sent"
    BY <2>3 DEF Knows
  <2> QED
    BY <2>1, <2>2, <2>3
<1> QED
  BY <1>1 DEF QueryKnows, Knows

LEMMA KnowsRequests ==
  ASSUME TypeOK, QueryKnows, NEW b \in Tabs, NEW q \in Queries, RequestQuiet(b, q)
  PROVE  QueryKnows'
<1> DEFINE r == query[b][q]
<1>1. CASE Send(b, q) \/ SignOut(b, q)
  <2>1. PICK t : Ask(b, q, QueryIs("sent", access[b], FALSE, t))
    BY <1>1 DEF Send, SignOut, Request, QueryIs
  <2>2. denied' = denied
    BY <1>1 DEF Send, SignOut, Request
  <2> QED
    BY <2>1, <2>2, KnowsAsk DEF QueryIs, Knows
<1>2. CASE \/ Served(b, q) \/ ServedError(b, q) \/ LogoutRevoke(b, q) \/ LogoutLost(b, q)
           \/ Unauthorized(b, q) /\ (r.retried \/ stored[b] = 0)
  <2>1. Ask(b, q, NoQuery) /\ denied' = denied
    BY <1>2 DEF Served, ServedError, LogoutRevoke, LogoutLost, Unauthorized, HandleUnauthorized
  <2> QED
    BY <2>1, KnowsAsk DEF NoQuery, Knows
<1>3. CASE Unauthorized(b, q) /\ ~(r.retried \/ stored[b] = 0)
  <2>1. Ask(b, q, QueryIs("waiting", r.token, TRUE, r.body))
    BY <1>3, QuerySteps
  <2>2. denied' = denied
    BY <1>3 DEF Unauthorized
  <2> QED
    BY <2>1, <2>2, KnowsAsk DEF QueryIs, Knows
<1>4. CASE LogoutDeny(b, q)
  <2>1. r.token # 0 /\ r.body # 0
    BY <1>4 DEF LogoutDeny, Accepts, IsLogout
  <2>2. \/ /\ Ask(b, q, QueryIs("denied", r.token, r.retried, r.body))
           /\ denied' = denied \cup {r.token}
        \/ /\ Ask(b, q, QueryIs("notDenied", r.token, r.retried, r.body))
           /\ denied' = denied
    BY <1>4, QuerySteps
  <2>3. CASE Ask(b, q, QueryIs("denied", r.token, r.retried, r.body)) /\ denied' = denied \cup {r.token}
    BY <2>1, <2>3, KnowsAsk DEF QueryIs, Knows
  <2>4. CASE Ask(b, q, QueryIs("notDenied", r.token, r.retried, r.body)) /\ denied' = denied
    BY <2>1, <2>4, KnowsAsk DEF QueryIs, Knows
  <2> QED
    BY <2>2, <2>3, <2>4
<1>5. \/ Send(b, q) \/ SignOut(b, q)
      \/ Served(b, q) \/ ServedError(b, q) \/ LogoutRevoke(b, q) \/ LogoutLost(b, q)
      \/ LogoutDeny(b, q) \/ Unauthorized(b, q)
  BY Zenon DEF RequestQuiet
<1> QED
  BY <1>1, <1>2, <1>3, <1>4, <1>5

LEMMA KnowsCalls ==
  ASSUME TypeOK, MintedFirst, QueryKnows,
         NEW c \in Calls, CallQuiet(c) \/ Rotate(c) \/ RefreshGranted(c)
  PROVE  QueryKnows'
<1> USE DEF tab, authDb, ghosts
<1>1. denied' = denied
  BY DEF CallQuiet, FindToken, RevokeFamily, RefuseRefresh, RefreshUnheard, RefreshRefused, RefreshLost,
         Rotate, RefreshGranted
<1>2. CASE RefreshRefused(c) \/ RefreshLost(c)
  <2>1. call[c].tab \in Tabs /\ query' = Waiters(call[c].tab, [q \in Queries |-> NoQuery])
    BY <1>2, CallHas DEF RefreshRefused, RefreshLost, Fails
  <2> QED
    BY <1>1, <2>1, ClearedLess, KnowsStill
<1>3. CASE RefreshGranted(c)
  <2>1. call[c].tab \in Tabs /\ query' = Waiters(call[c].tab, Replayed(call[c].tab, call[c].answer))
    BY <1>3, GrantsSteps, QuerySteps
  <2>2. \A b \in Tabs, q \in Queries : query'[b][q] = query[b][q] \/ query'[b][q].at = "sent"
    BY <2>1 DEF Waiters, Replayed, QueryIs, TypeOK
  <2> QED
    BY <1>1, <2>2, KnowsStill
<1>4. CASE ~(RefreshRefused(c) \/ RefreshLost(c) \/ RefreshGranted(c))
  <2>1. query' = query
    BY <1>4 DEF CallQuiet, FindToken, RevokeFamily, RefuseRefresh, RefreshUnheard, Rotate
  <2> QED
    BY <1>1, <2>1, KnowsStill
<1> QED
  BY <1>2, <1>3, <1>4

LEMMA KnowsPages ==
  ASSUME TypeOK, QueryKnows, NEW b \in Tabs, LoadQuiet(b) \/ Login(b)
  PROVE  QueryKnows'
<1>1. denied' = denied /\ (query' = query \/ query' = [query EXCEPT ![b] = [q \in Queries |-> NoQuery]])
  BY DEF LoadQuiet, Leave, Reload, Load, Login
<1> QED
  BY <1>1, ClearedLess, KnowsStill

-----------------------------------------------------------------------------
(* Orderly and Innocent: the steps that hand out no token *)

\* In ordinary use a call is left only by a page that goes to the login page, and a promise given up
\* on a page that stays was for a refusal.
Settles ==
  /\ faults' = 0 => faults = 0
  /\ \A b \in Tabs : page'[b] # "login" => page[b] # "login"
  /\ faults' = 0 =>
       /\ \A c \in Calls : call[c].tab # NoTab /\ call'[c].tab = NoTab /\ Busy(c)' =>
            page'[call[c].tab] = "login"
       /\ \A b \in Tabs : page'[b] # "login" /\ refreshing[b] # NoCall /\ refreshing'[b] = NoCall =>
            call[refreshing[b]].at # "granted"

\* The faults of the steps that are not faults.
LEMMA FaultsStep ==
  ASSUME TypeOK, Fault
  PROVE  faults' # 0 /\ faults' \in Nat
  BY Bounds DEF Fault, TypeOK

LEMMA SettlesCalls ==
  ASSUME TypeOK, MintedFirst, OnePromise, PageKnows, NEW c \in Calls, CallQuiet(c)
  PROVE  Settles
<1> USE DEF tab, authDb, ghosts
<1>1. \A b \in Tabs : page'[b] # "login" => page[b] # "login"
  BY QuietForgets DEF Forgets
<1>2. CASE RefreshLost(c)
  <2>1. faults' # 0
    BY <1>2, FaultsStep DEF RefreshLost
  <2> QED
    BY <1>1, <2>1 DEF Settles
<1>3. CASE ~RefreshLost(c)
  <2>1. faults' = faults
    BY <1>3 DEF CallQuiet, FindToken, RevokeFamily, RefuseRefresh, RefreshUnheard, RefreshRefused
  <2>2. ASSUME NEW d \in Calls, call[d].tab # NoTab, call'[d].tab = NoTab, Busy(d)'
        PROVE  FALSE
    <3>1. CASE FindToken(c) \/ RevokeFamily(c) \/ RefuseRefresh(c)
      <4>1. PICK a : MoveCall(c, a, call[c].tab, call[c].answer)
        BY <3>1, CallSteps
      <4>2. call'[d].tab = call[d].tab
        BY <4>1, RecordTypes DEF MoveCall, CallIs
      <4> QED
        BY <2>2, <4>2
    <3>2. CASE RefreshUnheard(c) \/ RefreshRefused(c)
      <4>1. call' = [call EXCEPT ![c] = FreeCall]
        BY <3>2 DEF RefreshUnheard, RefreshRefused
      <4>2. call'[d] \in {FreeCall, call[d]}
        BY <4>1, RecordTypes
      <4> QED
        BY <2>2, <4>2 DEF FreeCall, Busy
    <3> QED
      BY <1>3, <3>1, <3>2 DEF CallQuiet
  <2>3. ASSUME NEW b \in Tabs, refreshing[b] # NoCall, refreshing'[b] = NoCall
        PROVE  call[refreshing[b]].at # "granted"
    <3>1. RefreshRefused(c)
      BY <1>3, <2>3 DEF CallQuiet, FindToken, RevokeFamily, RefuseRefresh, RefreshUnheard
    <3>2. refreshing' = [refreshing EXCEPT ![call[c].tab] = NoCall] /\ call[c].at = "refused"
      BY <3>1 DEF RefreshRefused, Fails
    <3>3. b = call[c].tab
      BY <2>3, <3>2 DEF TypeOK
    <3>4. refreshing[b] = c
      BY <3>3, Bounds DEF OnePromise
    <3> QED
      BY <3>2, <3>4
  <2> QED
    BY <1>1, <2>1, <2>2, <2>3 DEF Settles
<1> QED
  BY <1>2, <1>3

LEMMA SettlesRequests ==
  ASSUME TypeOK, MintedFirst, PageKnows, NEW b \in Tabs, NEW q \in Queries, RequestQuiet(b, q), ~Starts(b, q)
  PROVE  Settles
<1> USE DEF tab, authDb, ghosts
<1>1. \A d \in Tabs : page'[d] # "login" => page[d] # "login"
  BY QuietForgets DEF Forgets
<1>2. call' = call /\ refreshing' = refreshing
  BY DEF RequestQuiet, Starts, Unauthorized, HandleUnauthorized, Served, ServedError, LogoutDeny,
         LogoutRevoke, LogoutLost, Send, SignOut, Request
<1>3. faults' = 0 => faults = 0
  <2>1. CASE LogoutLost(b, q)
    BY <2>1, FaultsStep DEF LogoutLost
  <2>2. CASE ~LogoutLost(b, q)
    BY <2>2 DEF RequestQuiet, Unauthorized, Served, ServedError, LogoutDeny, LogoutRevoke, Send, SignOut, Request
  <2> QED
    BY <2>1, <2>2
<1> QED
  BY <1>1, <1>2, <1>3 DEF Settles

LEMMA SettlesLoads ==
  ASSUME TypeOK, MintedFirst, PageKnows, NEW b \in Tabs, LoadQuiet(b)
  PROVE  Settles
<1>1. Load(b)
  BY DEF LoadQuiet, Leave, Reload
<1>2. \A d \in Tabs \ {b} : page'[d] = page[d] /\ refreshing'[d] = refreshing[d]
  BY <1>1 DEF Load, TypeOK
<1>3. page[b] # "login"
  BY DEF LoadQuiet, Leave, Reload
<1>4. \A d \in Tabs : page'[d] # "login" => page[d] # "login"
  BY <1>2, <1>3
<1>5. CASE Reload(b)
  <2>1. faults' # 0
    BY <1>5, FaultsStep DEF Reload
  <2> QED
    BY <1>4, <2>1 DEF Settles
<1>6. CASE Leave(b)
  <2>1. faults' = faults /\ ~cached[b]
    BY <1>6 DEF Leave, PageKnows
  <2>2. page'[b] = "login"
    BY <1>1, <2>1 DEF Load, TypeOK
  <2>3. ASSUME NEW c \in Calls, call[c].tab # NoTab, call'[c].tab = NoTab
        PROVE  call[c].tab = b
    <3>1. CASE call[c].tab # b
      <4>1. call'[c] = call[c]
        BY <1>1, <3>1 DEF Load
      <4> QED
        BY <2>3, <4>1
    <3> QED
      BY <3>1
  <2> QED
    BY <1>2, <1>4, <2>1, <2>2, <2>3 DEF Settles
<1> QED
  BY <1>5, <1>6 DEF LoadQuiet

LEMMA OrderlyQuiet ==
  ASSUME TypeOK, MintedFirst, OnePromise, OneFamily, Orderly, Quiet, Promises, Settles
  PROVE  Orderly'
<1> SUFFICES ASSUME faults' = 0
    PROVE
      /\ \A t, u \in Tokens : row'[t] = "live" /\ row'[u] = "live" /\ family'[t] = family'[u] => t = u
      /\ \A c, d \in Calls : Busy(c)' /\ Busy(d)' /\ family'[call'[c].token] = family'[call'[d].token] => c = d
      /\ \A c \in Calls : Busy(c)' => Sole(Latest(c))'
      /\ \A b \in Tabs : page'[b] # "login" =>
           /\ \A c \in Calls, t \in Tokens :
                Busy(c)' /\ call'[c].tab = NoTab /\ Has(b, t)' => family'[call'[c].token] # family'[t]
           /\ stored'[b] # 0 /\ refreshing'[b] = NoCall => Sole(stored[b])'
  BY DEF Orderly
<1>0. faults = 0 /\ family' = family
  BY DEF Settles, Quiet
<1>1. ASSUME NEW t, Sole(t)
      PROVE  \A u \in Tokens : row'[u] = "live" /\ family'[u] = family'[t] => u = t
  BY <1>0, <1>1 DEF Sole, Quiet
<1>2. ASSUME NEW c \in Calls, Busy(c)'
      PROVE  Busy(c) /\ call'[c].token = call[c].token /\ Latest(c)' = Latest(c)
  <2>1. Busy(c) /\ call'[c].token = call[c].token /\ call'[c].answer = call[c].answer
        /\ (call'[c].at = "granted" <=> call[c].at = "granted")
    BY <1>2 DEF Quiet, CallsQuiet, Busy, FreeCall
  <2> QED
    BY <2>1 DEF Latest
<1>3. \A t, u \in Tokens : row'[t] = "live" /\ row'[u] = "live" /\ family'[t] = family'[u] => t = u
  BY <1>0 DEF Orderly, Quiet
<1>4. \A c, d \in Calls : Busy(c)' /\ Busy(d)' /\ family'[call'[c].token] = family'[call'[d].token] => c = d
  BY <1>0, <1>2 DEF Orderly
<1>5. ASSUME NEW c \in Calls, Busy(c)'
      PROVE  Sole(Latest(c))'
  <2>1. Sole(Latest(c)) /\ Latest(c)' = Latest(c)
    BY <1>0, <1>2, <1>5 DEF Orderly
  <2> QED
    BY <1>1, <2>1 DEF Sole
<1>6. ASSUME NEW b \in Tabs, page'[b] # "login", NEW c \in Calls, NEW t \in Tokens,
             Busy(c)', call'[c].tab = NoTab, Has(b, t)'
      PROVE  family'[call'[c].token] # family'[t]
  <2>1. Has(b, t) /\ page[b] # "login" /\ Busy(c) /\ call'[c].token = call[c].token
    BY <1>2, <1>6 DEF Quiet, Settles
  <2>2. CASE call[c].tab = NoTab
    BY <1>0, <2>1, <2>2 DEF Orderly
  <2>3. CASE call[c].tab # NoTab
    <3>1. call[c].tab # b
      BY <1>6, <2>3 DEF Settles
    <3>2. call[c].tab \in Tabs /\ call[c].token \in Tokens /\ Has(call[c].tab, call[c].token)
      BY <2>3, CallHas
    <3> QED
      BY <1>0, <2>1, <3>1, <3>2 DEF OneFamily
  <2> QED
    BY <2>2, <2>3
<1>7. ASSUME NEW b \in Tabs, page'[b] # "login", stored'[b] # 0, refreshing'[b] = NoCall
      PROVE  Sole(stored[b])'
  <2>1. stored'[b] = stored[b] /\ page[b] # "login"
    BY <1>7 DEF Quiet, Settles
  <2>2. Sole(stored[b])
    <3>1. CASE refreshing[b] = NoCall
      BY <1>0, <1>7, <2>1, <3>1 DEF Orderly
    <3>2. CASE refreshing[b] # NoCall
      <4>1. /\ refreshing[b] \in Calls /\ Busy(refreshing[b])
            /\ call[refreshing[b]].at # "granted" /\ stored[b] = call[refreshing[b]].token
        BY <1>7, <2>1, <3>2 DEF TypeOK, Busy, OnePromise, Settles
      <4> QED
        BY <1>0, <4>1 DEF Orderly, Latest
    <3> QED
      BY <3>1, <3>2
  <2> QED
    BY <1>1, <2>1, <2>2 DEF Sole
<1> QED
  BY <1>3, <1>4, <1>5, <1>6, <1>7

\* As long as nobody signs out, such a step leaves the rows alone, signs nobody out and finds no reuse.
Harmless ==
  faults' = 0 /\ ~signedOut' =>
    /\ ~signedOut /\ UNCHANGED <<row, alarm>>
    /\ \A b \in Tabs, q \in Queries : query'[b][q].body \in {0, query[b][q].body}
    /\ \A c \in Calls : Busy(c)' => call'[c].at # "reuse"

LEMMA HarmlessCalls ==
  ASSUME TypeOK, MintedFirst, PageKnows, OnePromise, Innocent, Settles, Quiet, NEW c \in Calls, CallQuiet(c)
  PROVE  Harmless
<1> SUFFICES ASSUME faults' = 0, ~signedOut'
             PROVE  /\ ~signedOut /\ UNCHANGED <<row, alarm>>
                    /\ \A b \in Tabs, q \in Queries : query'[b][q].body \in {0, query[b][q].body}
                    /\ \A d \in Calls : Busy(d)' => call'[d].at # "reuse"
  BY DEF Harmless
<1> USE DEF tab, authDb, ghosts
<1>1. ~signedOut /\ faults = 0
  BY DEF Settles, CallQuiet, FindToken, RevokeFamily, RefuseRefresh, RefreshUnheard, RefreshRefused, RefreshLost
<1>2. \A d \in Calls : Busy(d) => call[d].at # "reuse" /\ row[Latest(d)] = "live"
  BY <1>1 DEF Innocent
<1>3. ~RevokeFamily(c)
  BY <1>2 DEF RevokeFamily, Busy
<1>4. UNCHANGED <<row, alarm>>
  BY <1>3 DEF CallQuiet, FindToken, RefuseRefresh, RefreshUnheard, RefreshRefused, RefreshLost
<1>5. ASSUME NEW b \in Tabs, NEW q \in Queries
      PROVE  query'[b][q].body \in {0, query[b][q].body}
  <2>1. CASE RefreshRefused(c) \/ RefreshLost(c)
    <3>1. call[c].tab \in Tabs /\ query' = Waiters(call[c].tab, [p \in Queries |-> NoQuery])
      BY <2>1, CallHas DEF RefreshRefused, RefreshLost, Fails
    <3>2. query'[b][q] \in {query[b][q], NoQuery}
      BY <3>1, ClearedLess
    <3> QED
      BY <3>2 DEF NoQuery
  <2>2. CASE ~(RefreshRefused(c) \/ RefreshLost(c))
    BY <2>2 DEF CallQuiet, FindToken, RevokeFamily, RefuseRefresh, RefreshUnheard
  <2> QED
    BY <2>1, <2>2
<1>6. ASSUME NEW d \in Calls, Busy(d)'
      PROVE  call'[d].at # "reuse"
  <2>1. Busy(d) /\ call[d].at # "reuse"
    BY <1>2, <1>6 DEF Quiet, CallsQuiet, FreeCall, Busy
  <2>2. CASE FindToken(c)
    <3>1. row[call[c].token] = "live"
      BY <1>2, <2>2 DEF FindToken, Busy, Latest
    <3>2. MoveCall(c, "roles", call[c].tab, call[c].answer)
      BY <2>2, <3>1, CallSteps
    <3> QED
      BY <2>1, <3>2, RecordTypes DEF MoveCall, CallIs
  <2>3. CASE RefuseRefresh(c)
    <3>1. MoveCall(c, "refused", call[c].tab, call[c].answer)
      BY <2>3, CallSteps
    <3> QED
      BY <2>1, <3>1, RecordTypes DEF MoveCall, CallIs
  <2>4. CASE RefreshLost(c)
    <3>1. MoveCall(c, call[c].at, NoTab, call[c].answer)
      BY <2>4, CallSteps
    <3> QED
      BY <2>1, <3>1, RecordTypes DEF MoveCall, CallIs
  <2>5. CASE RefreshUnheard(c) \/ RefreshRefused(c)
    <3>1. call' = [call EXCEPT ![c] = FreeCall]
      BY <2>5 DEF RefreshUnheard, RefreshRefused
    <3>2. call'[d] \in {FreeCall, call[d]}
      BY <3>1, RecordTypes
    <3> QED
      BY <2>1, <3>2 DEF FreeCall
  <2> QED
    BY <1>3, <2>2, <2>3, <2>4, <2>5 DEF CallQuiet
<1> QED
  BY <1>1, <1>4, <1>5, <1>6

LEMMA HarmlessRequests ==
  ASSUME TypeOK, QueryKnows, Innocent, Settles, NEW b \in Tabs, NEW q \in Queries,
         RequestQuiet(b, q), ~Starts(b, q)
  PROVE  Harmless
<1> SUFFICES ASSUME faults' = 0, ~signedOut'
             PROVE  /\ ~signedOut /\ UNCHANGED <<row, alarm>>
                    /\ \A d \in Tabs, p \in Queries : query'[d][p].body \in {0, query[d][p].body}
                    /\ \A d \in Calls : Busy(d)' => call'[d].at # "reuse"
  BY DEF Harmless
<1> USE DEF tab, authDb, ghosts
<1>1. ~SignOut(b, q)
  BY DEF SignOut
<1>2. ~signedOut /\ faults = 0
  BY <1>1 DEF Settles, RequestQuiet, Unauthorized, Served, ServedError, LogoutDeny, LogoutRevoke, LogoutLost, Send
<1>3. query[b][q].body = 0
  BY <1>2 DEF Innocent
<1>4. ~LogoutDeny(b, q) /\ ~LogoutRevoke(b, q) /\ ~LogoutLost(b, q)
  BY <1>3 DEF LogoutDeny, LogoutRevoke, LogoutLost, IsLogout, QueryKnows
<1>5. UNCHANGED <<row, alarm, call>>
  BY <1>1, <1>4 DEF RequestQuiet, Starts, Unauthorized, HandleUnauthorized, Served, ServedError, Send, Request
<1>6. PICK r : Ask(b, q, r) /\ r.body = 0
  <2>1. CASE Send(b, q)
    <3>1. Ask(b, q, QueryIs("sent", access[b], FALSE, 0))
      BY <2>1 DEF Send, Request, QueryIs
    <3> QED
      BY <3>1 DEF QueryIs
  <2>2. CASE \/ Served(b, q) \/ ServedError(b, q)
             \/ Unauthorized(b, q) /\ (query[b][q].retried \/ stored[b] = 0)
    <3>1. Ask(b, q, NoQuery)
      BY <2>2 DEF Served, ServedError, Unauthorized, HandleUnauthorized
    <3> QED
      BY <3>1 DEF NoQuery
  <2>3. CASE Unauthorized(b, q) /\ ~(query[b][q].retried \/ stored[b] = 0)
    <3>1. Ask(b, q, QueryIs("waiting", query[b][q].token, TRUE, query[b][q].body))
      BY <2>3, QuerySteps
    <3> QED
      BY <1>3, <3>1 DEF QueryIs
  <2> QED
    BY <1>1, <1>4, <2>1, <2>2, <2>3 DEF RequestQuiet
<1>7. \A d \in Tabs, p \in Queries : query'[d][p].body \in {0, query[d][p].body}
  BY <1>6 DEF Ask, TypeOK
<1>8. \A d \in Calls : Busy(d) => call[d].at # "reuse"
  BY <1>2 DEF Innocent
<1> QED
  BY <1>2, <1>5, <1>7, <1>8 DEF Busy

LEMMA HarmlessLoads ==
  ASSUME TypeOK, MintedFirst, Innocent, Settles, NEW b \in Tabs, LoadQuiet(b)
  PROVE  Harmless
<1>1. Load(b)
  BY DEF LoadQuiet, Leave, Reload
<1>2. UNCHANGED <<row, alarm, signedOut>>
  BY <1>1 DEF Load, authDb
<1>3. ASSUME NEW d \in Tabs, NEW q \in Queries
      PROVE  query'[d][q].body \in {0, query[d][q].body}
  <2>1. query'[d][q] \in {query[d][q], NoQuery}
    BY <1>1, ClearedLess DEF Load
  <2> QED
    BY <2>1 DEF NoQuery
<1>4. ASSUME NEW c \in Calls
      PROVE  call'[c].at = call[c].at
  <2>1. call'[c] = IF call[c].tab = b THEN CallIs(call[c].at, NoTab, call[c].token, call[c].answer)
                                      ELSE call[c]
    BY <1>1, LeftQuiet
  <2> QED
    BY <2>1 DEF CallIs
<1> QED
  BY <1>2, <1>3, <1>4 DEF Harmless, Settles, Innocent, Busy

LEMMA InnocentQuiet ==
  ASSUME TypeOK, MintedFirst, OnePromise, Innocent, Quiet, Settles, Harmless
  PROVE  Innocent'
<1> SUFFICES ASSUME faults' = 0, ~signedOut'
    PROVE
      /\ ~alarm'
      /\ \A b \in Tabs, q \in Queries : query'[b][q].body = 0
      /\ \A c \in Calls : Busy(c)' => call'[c].at # "reuse" /\ row'[Latest(c)'] = "live"
      /\ \A b \in Tabs : page'[b] # "login" /\ stored'[b] # 0 /\ refreshing'[b] = NoCall =>
           row'[stored'[b]] = "live"
  BY DEF Innocent
<1>0. faults = 0 /\ ~signedOut /\ UNCHANGED <<row, alarm>>
  BY DEF Settles, Harmless
<1>1. ~alarm' /\ \A b \in Tabs, q \in Queries : query'[b][q].body = 0
  BY <1>0 DEF Innocent, Harmless
<1>2. ASSUME NEW c \in Calls, Busy(c)'
      PROVE  call'[c].at # "reuse" /\ row'[Latest(c)'] = "live"
  <2>1. Busy(c) /\ call'[c].token = call[c].token /\ call'[c].answer = call[c].answer
        /\ (call'[c].at = "granted" <=> call[c].at = "granted")
    BY <1>2 DEF Quiet, CallsQuiet, Busy, FreeCall
  <2>2. Latest(c)' = Latest(c)
    BY <2>1 DEF Latest
  <2>3. row[Latest(c)] = "live"
    BY <1>0, <2>1 DEF Innocent
  <2>4. call'[c].at # "reuse"
    BY <1>2 DEF Harmless
  <2> QED
    BY <1>0, <2>2, <2>3, <2>4
<1>3. ASSUME NEW b \in Tabs, page'[b] # "login", stored'[b] # 0, refreshing'[b] = NoCall
      PROVE  row'[stored'[b]] = "live"
  <2>1. stored'[b] = stored[b] /\ page[b] # "login"
    BY <1>3 DEF Quiet, Settles
  <2>2. CASE refreshing[b] = NoCall
    BY <1>0, <1>3, <2>1, <2>2 DEF Innocent
  <2>3. CASE refreshing[b] # NoCall
    <3>1. /\ refreshing[b] \in Calls /\ Busy(refreshing[b])
          /\ call[refreshing[b]].at # "granted" /\ stored[b] = call[refreshing[b]].token
      BY <1>3, <2>1, <2>3 DEF TypeOK, Busy, OnePromise, Settles
    <3> QED
      BY <1>0, <2>1, <3>1 DEF Innocent, Latest
  <2> QED
    BY <2>2, <2>3
<1> QED
  BY <1>1, <1>2, <1>3

-----------------------------------------------------------------------------
(* Orderly and Innocent: a refresh begins *)

LEMMA OrderlyBegins ==
  ASSUME TypeOK, MintedFirst, OnePromise, OneFamily, Orderly, NEW b \in Tabs, NEW c \in Calls, Begins(b, c)
  PROVE  Orderly'
<1> USE DEF authDb, ghosts
<1> SUFFICES ASSUME faults = 0
    PROVE
      /\ \A t, u \in Tokens : row[t] = "live" /\ row[u] = "live" /\ family[t] = family[u] => t = u
      /\ \A d, e \in Calls : Busy(d)' /\ Busy(e)' /\ family[call'[d].token] = family[call'[e].token] => d = e
      /\ \A d \in Calls : Busy(d)' => Sole(Latest(d)')
      /\ \A a \in Tabs : page[a] # "login" =>
           /\ \A d \in Calls, t \in Tokens :
                Busy(d)' /\ call'[d].tab = NoTab /\ Has(a, t)' => family[call'[d].token] # family[t]
           /\ stored[a] # 0 /\ refreshing'[a] = NoCall => Sole(stored[a])
  <2>1. UNCHANGED <<faults, row, family, page, stored>>
    BY DEF Begins
  <2>2. \A t : Sole(t)' <=> \A u \in Tokens : row[u] = "live" /\ family[u] = family[t'] => u = t'
    BY <2>1 DEF Sole
  <2> QED
    BY <2>1 DEF Orderly, Sole
<1>1. /\ call'[c].at = "find" /\ call'[c].tab = b /\ call'[c].token = stored[b]
      /\ \A d \in Calls \ {c} : call'[d] = call[d]
  BY DEF Begins, CallIs
<1>2. stored[b] \in Tokens /\ Has(b, stored[b]) /\ page[b] # "login" /\ refreshing[b] = NoCall
  BY StoredHas DEF Begins
<1>3. Sole(stored[b])
  BY <1>2, Bounds DEF Orderly, Begins
<1>4. ASSUME NEW d \in Calls \ {c}, Busy(d)
      PROVE  family[call[d].token] # family[stored[b]]
  <2>1. CASE call[d].tab = NoTab
    BY <1>2, <1>4, <2>1 DEF Orderly
  <2>2. CASE call[d].tab # NoTab
    <3>1. call[d].tab \in Tabs /\ call[d].token \in Tokens /\ Has(call[d].tab, call[d].token)
      BY <2>2, CallHas
    <3>2. call[d].tab # b
      BY <1>2, <2>2, Bounds DEF OnePromise
    <3> QED
      BY <1>2, <3>1, <3>2 DEF OneFamily
  <2> QED
    BY <2>1, <2>2
<1>5. ASSUME NEW d \in Calls, NEW e \in Calls, Busy(d)', Busy(e)',
             family[call'[d].token] = family[call'[e].token]
      PROVE  d = e
  BY <1>1, <1>4, <1>5 DEF Orderly, Busy
<1>6. ASSUME NEW d \in Calls, Busy(d)'
      PROVE  Sole(Latest(d)')
  <2>1. CASE d = c
    BY <1>1, <1>3, <2>1 DEF Latest
  <2>2. CASE d # c
    <3>1. Busy(d) /\ Latest(d)' = Latest(d)
      BY <1>1, <1>6, <2>2 DEF Latest, Busy
    <3> QED
      BY <3>1 DEF Orderly
  <2> QED
    BY <2>1, <2>2
<1>7. ASSUME NEW a \in Tabs, page[a] # "login"
      PROVE  /\ \A d \in Calls, t \in Tokens :
                  Busy(d)' /\ call'[d].tab = NoTab /\ Has(a, t)' => family[call'[d].token] # family[t]
             /\ stored[a] # 0 /\ refreshing'[a] = NoCall => Sole(stored[a])
  <2>1. ASSUME NEW d \in Calls, NEW t \in Tokens, Busy(d)', call'[d].tab = NoTab, Has(a, t)'
        PROVE  family[call'[d].token] # family[t]
    <3>1. d # c /\ call'[d] = call[d]
      BY <1>1, <2>1, Bounds
    <3>2. Has(a, t)
      BY <2>1 DEF Begins
    <3> QED
      BY <1>7, <2>1, <3>1, <3>2 DEF Orderly, Busy
  <2>2. refreshing'[a] = NoCall => refreshing[a] = NoCall
    BY Bounds DEF Begins
  <2> QED
    BY <1>7, <2>1, <2>2 DEF Orderly
<1>8. \A t, u \in Tokens : row[t] = "live" /\ row[u] = "live" /\ family[t] = family[u] => t = u
  BY DEF Orderly
<1> QED
  BY <1>5, <1>6, <1>7, <1>8

LEMMA InnocentBegins ==
  ASSUME TypeOK, Innocent, NEW b \in Tabs, NEW c \in Calls, Begins(b, c),
         NEW q \in Queries, Starts(b, q)
  PROVE  Innocent'
<1> USE DEF authDb, ghosts
<1>1. UNCHANGED <<row, page, stored, alarm, signedOut, faults>>
  BY DEF Begins
<1>2. /\ call'[c].at = "find" /\ call'[c].token = stored[b]
      /\ \A d \in Calls \ {c} : call'[d] = call[d]
      /\ page[b] # "login" /\ stored[b] # 0 /\ refreshing[b] = NoCall
  BY DEF Begins, CallIs
<1>3. Ask(b, q, QueryIs("waiting", query[b][q].token, TRUE, query[b][q].body))
  BY QuerySteps DEF Starts
<1>4. \A a \in Tabs, p \in Queries : query'[a][p].body = query[a][p].body
  BY <1>3 DEF Ask, QueryIs, TypeOK
<1> SUFFICES ASSUME faults = 0, ~signedOut
    PROVE
      /\ \A d \in Calls : Busy(d)' => call'[d].at # "reuse" /\ row[Latest(d)'] = "live"
      /\ \A a \in Tabs : page[a] # "login" /\ stored[a] # 0 /\ refreshing'[a] = NoCall =>
           row[stored[a]] = "live"
  BY <1>1, <1>4 DEF Innocent
<1>5. ASSUME NEW d \in Calls, Busy(d)'
      PROVE  call'[d].at # "reuse" /\ row[Latest(d)'] = "live"
  <2>1. CASE d = c
    BY <1>2, <2>1 DEF Latest, Innocent
  <2>2. CASE d # c
    <3>1. call'[d] = call[d] /\ Busy(d) /\ Latest(d)' = Latest(d)
      BY <1>2, <1>5, <2>2 DEF Latest, Busy
    <3> QED
      BY <3>1 DEF Innocent
  <2> QED
    BY <2>1, <2>2
<1>6. \A a \in Tabs : refreshing'[a] = NoCall => refreshing[a] = NoCall
  BY Bounds DEF Begins
<1> QED
  BY <1>5, <1>6 DEF Innocent

-----------------------------------------------------------------------------
(* Orderly and Innocent: an answer with a token *)

LEMMA OrderlyGrants ==
  ASSUME TypeOK, MintedFirst, Orderly, NEW c \in Calls, NEW b \in Tabs, Grants(c, b)
  PROVE  Orderly'
<1> USE DEF authDb, ghosts
<1>1. UNCHANGED <<row, family, page, faults>>
  BY DEF Grants
<1>2. \A t : Sole(t) => \A u \in Tokens : row'[u] = "live" /\ family'[u] = family'[t] => u = t
  BY <1>1 DEF Sole
<1>3. \A d \in Calls : Busy(d)' => Busy(d) /\ d # c /\ call'[d] = call[d] /\ Latest(d)' = Latest(d)
  BY DEF Grants, FreeCall, Busy, Latest
<1>4. /\ call[c].token \in Tokens /\ Has(b, call[c].token) /\ Busy(c) /\ Latest(c) = call[c].answer
      /\ family[call[c].answer] = family[call[c].token]
  BY CallHas, Bounds DEF Grants, MintedFirst, Busy, Latest
<1> SUFFICES ASSUME faults = 0
    PROVE
      /\ \A t, u \in Tokens : row[t] = "live" /\ row[u] = "live" /\ family[t] = family[u] => t = u
      /\ \A d, e \in Calls : Busy(d)' /\ Busy(e)' /\ family[call'[d].token] = family[call'[e].token] => d = e
      /\ \A d \in Calls : Busy(d)' => Sole(Latest(d)')
      /\ \A a \in Tabs : page[a] # "login" =>
           /\ \A d \in Calls, t \in Tokens :
                Busy(d)' /\ call'[d].tab = NoTab /\ Has(a, t)' => family[call'[d].token] # family[t]
           /\ stored'[a] # 0 /\ refreshing'[a] = NoCall => Sole(stored'[a])
  BY <1>1 DEF Orderly, Sole
<1>5. ASSUME NEW a \in Tabs, page[a] # "login", NEW d \in Calls, NEW t \in Tokens,
             Busy(d)', call'[d].tab = NoTab, Has(a, t)'
      PROVE  family[call'[d].token] # family[t]
  <2>1. Busy(d) /\ call'[d] = call[d]
    BY <1>3, <1>5
  <2>2. CASE Has(a, t)
    BY <1>5, <2>1, <2>2 DEF Orderly
  <2>3. CASE a = b /\ t = call[c].answer
    BY <1>4, <1>5, <2>1, <2>3 DEF Orderly
  <2> QED
    BY <1>5, <2>2, <2>3 DEF Grants
<1>6. ASSUME NEW a \in Tabs, page[a] # "login", stored'[a] # 0, refreshing'[a] = NoCall
      PROVE  Sole(stored'[a])
  <2>1. CASE a = b
    BY <1>4, <2>1 DEF Grants, Orderly
  <2>2. CASE a # b
    BY <1>6, <2>2 DEF Grants, Orderly
  <2> QED
    BY <2>1, <2>2
<1>7. \A d \in Calls : Busy(d)' => Sole(Latest(d)')
  BY <1>3 DEF Orderly
<1>8. \A d, e \in Calls : Busy(d)' /\ Busy(e)' /\ family[call'[d].token] = family[call'[e].token] => d = e
  BY <1>3 DEF Orderly
<1>9. \A t, u \in Tokens : row[t] = "live" /\ row[u] = "live" /\ family[t] = family[u] => t = u
  BY DEF Orderly
<1> QED
  BY <1>5, <1>6, <1>7, <1>8, <1>9

LEMMA InnocentGrants ==
  ASSUME TypeOK, Innocent, NEW c \in Calls, RefreshGranted(c)
  PROVE  Innocent'
<1> DEFINE b == call[c].tab
<1> USE DEF authDb, ghosts
<1>1. Grants(c, b) /\ b \in Tabs
  BY GrantsSteps
<1>2. UNCHANGED <<row, page, alarm, signedOut, faults>>
  BY <1>1 DEF Grants
<1>3. query' = Waiters(b, Replayed(b, call[c].answer))
  BY QuerySteps
<1>4. \A a \in Tabs, q \in Queries : query'[a][q].body = query[a][q].body
  BY <1>1, <1>3 DEF Waiters, Replayed, QueryIs, TypeOK
<1>5. \A d \in Calls : Busy(d)' => Busy(d) /\ call'[d] = call[d] /\ Latest(d)' = Latest(d)
  BY <1>1 DEF Grants, FreeCall, Busy, Latest
<1> SUFFICES ASSUME faults = 0, ~signedOut
    PROVE
      /\ \A d \in Calls : Busy(d)' => call'[d].at # "reuse" /\ row[Latest(d)'] = "live"
      /\ \A a \in Tabs : page[a] # "login" /\ stored'[a] # 0 /\ refreshing'[a] = NoCall =>
           row[stored'[a]] = "live"
  BY <1>2, <1>4 DEF Innocent
<1>6. row[call[c].answer] = "live"
  BY <1>1 DEF Grants, Innocent, Busy, Latest
<1>7. \A d \in Calls : Busy(d)' => call'[d].at # "reuse" /\ row[Latest(d)'] = "live"
  BY <1>5 DEF Innocent
<1>8. ASSUME NEW a \in Tabs, page[a] # "login", stored'[a] # 0, refreshing'[a] = NoCall
      PROVE  row[stored'[a]] = "live"
  <2>1. CASE a = b
    BY <1>1, <1>6, <2>1 DEF Grants
  <2>2. CASE a # b
    BY <1>1, <1>8, <2>2 DEF Grants, Innocent
  <2> QED
    BY <2>1, <2>2
<1> QED
  BY <1>7, <1>8

-----------------------------------------------------------------------------
(* Orderly and Innocent: a rotation *)

\* The other logins' tokens: those of another refresh, and of a tab whose promise is not this one.
LEMMA Others ==
  ASSUME TypeOK, MintedFirst, OnePromise, OneFamily, Orderly, faults = 0,
         NEW c \in Calls, Busy(c)
  PROVE  /\ \A d \in Calls \ {c} : Busy(d) => /\ Latest(d) \in 1..minted
                                            /\ family[Latest(d)] # family[call[c].token]
         /\ \A b \in Tabs : page[b] # "login" /\ stored[b] # 0 /\ refreshing[b] = NoCall =>
              family[stored[b]] # family[call[c].token]
<1>1. ASSUME NEW d \in Calls \ {c}, Busy(d)
      PROVE  Latest(d) \in 1..minted /\ family[Latest(d)] # family[call[c].token]
  <2>1. Latest(d) \in 1..minted /\ family[Latest(d)] = family[call[d].token]
    BY <1>1, BusyToken DEF Latest, MintedFirst
  <2> QED
    BY <1>1, <2>1 DEF Orderly
<1>2. ASSUME NEW b \in Tabs, page[b] # "login", stored[b] # 0, refreshing[b] = NoCall
      PROVE  family[stored[b]] # family[call[c].token]
  <2>1. stored[b] \in Tokens /\ Has(b, stored[b])
    BY <1>2, StoredHas
  <2>2. CASE call[c].tab = NoTab
    BY <1>2, <2>1, <2>2 DEF Orderly
  <2>3. CASE call[c].tab # NoTab
    <3>1. call[c].tab \in Tabs /\ call[c].token \in Tokens /\ Has(call[c].tab, call[c].token)
      BY <2>3, CallHas
    <3>2. call[c].tab # b
      BY <1>2, <2>3, Bounds DEF OnePromise
    <3> QED
      BY <2>1, <3>1, <3>2 DEF OneFamily
  <2> QED
    BY <2>2, <2>3
<1> QED
  BY <1>1, <1>2

LEMMA OrderlyRotates ==
  ASSUME TypeOK, MintedFirst, OnePromise, OneFamily, Orderly, NEW c \in Calls, NEW n, Rotates(c, n)
  PROVE  Orderly'
<1> DEFINE f == family[call[c].token]
<1> USE DEF tab, ghosts
<1>0. UNCHANGED <<page, stored, refreshing, faults>>
  BY DEF Rotates
<1> SUFFICES ASSUME faults = 0
    PROVE
      /\ \A t, u \in Tokens : row'[t] = "live" /\ row'[u] = "live" /\ family'[t] = family'[u] => t = u
      /\ \A d, e \in Calls : Busy(d)' /\ Busy(e)' /\ family'[call'[d].token] = family'[call'[e].token] => d = e
      /\ \A d \in Calls : Busy(d)' => Sole(Latest(d))'
      /\ \A a \in Tabs : page[a] # "login" =>
           /\ \A d \in Calls, t \in Tokens :
                Busy(d)' /\ call'[d].tab = NoTab /\ Has(a, t)' => family'[call'[d].token] # family'[t]
           /\ stored[a] # 0 /\ refreshing[a] = NoCall => Sole(stored[a])'
  BY <1>0 DEF Orderly
<1>1. /\ Busy(c) /\ call[c].token \in 1..minted /\ call[c].token \in Tokens
      /\ n \in Tokens /\ n = minted + 1 /\ minted \in Nat
  BY BusyToken DEF Rotates, Busy, TypeOK, Held
<1>2. /\ \A t \in 1..minted : t \in Tokens /\ t # n /\ family'[t] = family[t]
      /\ family'[n] = f
  BY <1>1, Bounds DEF Rotates, Tokens
<1>3. Sole(call[c].token)
  <2>1. Latest(c) = call[c].token
    BY DEF Rotates, Latest
  <2> QED
    BY <1>1, <2>1 DEF Orderly
<1>4. ASSUME NEW t \in Tokens, row'[t] = "live", t # n
      PROVE  row[t] = "live" /\ family'[t] = family[t] /\ family[t] # f
  <2>1. t # call[c].token /\ row[t] = "live" /\ family'[t] = family[t]
    BY <1>4 DEF Rotates
  <2> QED
    BY <1>3, <2>1 DEF Sole
<1>5. ASSUME NEW t \in Tokens, NEW u \in Tokens, row'[t] = "live", row'[u] = "live", family'[t] = family'[u]
      PROVE  t = u
  <2>1. CASE t = n \/ u = n
    BY <1>2, <1>4, <1>5, <2>1
  <2>2. CASE t # n /\ u # n
    BY <1>4, <1>5, <2>2 DEF Orderly
  <2> QED
    BY <2>1, <2>2
<1>6. ASSUME NEW t \in 1..minted, family[t] # f, Sole(t)
      PROVE  Sole(t)'
  <2>1. ASSUME NEW u \in Tokens, row'[u] = "live", family'[u] = family'[t]
        PROVE  u = t
    <3>1. u # n /\ family'[t] = family[t]
      BY <1>2, <1>6, <2>1
    <3> QED
      BY <1>4, <1>6, <2>1, <3>1 DEF Sole
  <2> QED
    BY <2>1 DEF Sole
<1>7. ASSUME NEW d \in Calls, Busy(d)'
      PROVE  /\ Busy(d) /\ call'[d].token = call[d].token /\ call'[d].tab = call[d].tab
             /\ call[d].token \in 1..minted /\ family'[call'[d].token] = family[call[d].token]
  <2>1. Busy(d) /\ call'[d].token = call[d].token /\ call'[d].tab = call[d].tab
    BY <1>1, <1>7 DEF Rotates, CallIs, Busy
  <2> QED
    BY <1>2, <2>1, BusyToken
<1>8. ASSUME NEW d \in Calls, Busy(d)'
      PROVE  Sole(Latest(d))'
  <2>1. CASE d = c
    <3>1. Latest(d)' = n
      BY <2>1 DEF Rotates, CallIs, Latest
    <3>2. row'[n] = "live"
      BY DEF Rotates
    <3> QED
      BY <1>1, <1>5, <3>1, <3>2 DEF Sole
  <2>2. CASE d # c
    <3>1. Busy(d) /\ Latest(d)' = Latest(d)
      BY <1>7, <1>8, <2>2 DEF Rotates, Latest
    <3>2. Sole(Latest(d)) /\ Latest(d) \in 1..minted /\ family[Latest(d)] # f
      BY <1>1, <2>2, <3>1, Others DEF Orderly
    <3>3. \A u \in Tokens : row'[u] = "live" /\ family'[u] = family'[Latest(d)] => u = Latest(d)
      BY <1>6, <3>2 DEF Sole
    <3> QED
      BY <3>1, <3>3 DEF Sole
  <2> QED
    BY <2>1, <2>2
<1>9. ASSUME NEW a \in Tabs, page[a] # "login", NEW d \in Calls, NEW t \in Tokens,
             Busy(d)', call'[d].tab = NoTab, Has(a, t)'
      PROVE  family'[call'[d].token] # family'[t]
  <2>1. Has(a, t) /\ t \in 1..minted
    BY <1>1, <1>9 DEF Rotates, MintedFirst, Tokens
  <2> QED
    BY <1>2, <1>7, <1>9, <2>1 DEF Orderly
<1>10. ASSUME NEW a \in Tabs, page[a] # "login", stored[a] # 0, refreshing[a] = NoCall
       PROVE  Sole(stored[a])'
  <2>1. Sole(stored[a]) /\ stored[a] \in 1..minted /\ family[stored[a]] # f
    BY <1>1, <1>10, Others, StoredHas DEF Orderly
  <2>2. \A u \in Tokens : row'[u] = "live" /\ family'[u] = family'[stored[a]] => u = stored[a]
    BY <1>6, <2>1 DEF Sole
  <2> QED
    BY <1>0, <2>2 DEF Sole
<1>11. ASSUME NEW d \in Calls, NEW e \in Calls, Busy(d)', Busy(e)',
              family'[call'[d].token] = family'[call'[e].token]
       PROVE  d = e
  BY <1>7, <1>11 DEF Orderly
<1> QED
  BY <1>5, <1>8, <1>9, <1>10, <1>11

LEMMA InnocentRotates ==
  ASSUME TypeOK, MintedFirst, OnePromise, OneFamily, Orderly, Innocent, NEW c \in Calls, NEW n, Rotates(c, n)
  PROVE  Innocent'
<1> USE DEF tab, ghosts
<1>0. UNCHANGED <<page, stored, refreshing, query, alarm, signedOut, faults>>
  BY DEF Rotates
<1> SUFFICES ASSUME faults = 0, ~signedOut
    PROVE
      /\ \A d \in Calls : Busy(d)' => call'[d].at # "reuse" /\ row'[Latest(d)'] = "live"
      /\ \A a \in Tabs : page[a] # "login" /\ stored[a] # 0 /\ refreshing[a] = NoCall =>
           row'[stored[a]] = "live"
  BY <1>0 DEF Innocent
<1>1. Busy(c) /\ n = minted + 1 /\ minted \in Nat
  BY DEF Rotates, Busy, TypeOK, Held
<1>2. ASSUME NEW t \in 1..minted, family[t] # family[call[c].token], row[t] = "live"
      PROVE  row'[t] = "live"
  <2>1. t \in Tokens /\ t # n /\ t # call[c].token
    BY <1>1, <1>2, Bounds DEF Tokens, TypeOK, Held
  <2> QED
    BY <1>2, <2>1 DEF Rotates
<1>3. ASSUME NEW d \in Calls, Busy(d)'
      PROVE  call'[d].at # "reuse" /\ row'[Latest(d)'] = "live"
  <2>1. CASE d = c
    BY <2>1 DEF Rotates, CallIs, Latest
  <2>2. CASE d # c
    <3>1. call'[d] = call[d] /\ Busy(d) /\ Latest(d)' = Latest(d)
      BY <1>3, <2>2 DEF Rotates, Latest, Busy
    <3>2. Latest(d) \in 1..minted /\ family[Latest(d)] # family[call[c].token]
      BY <1>1, <2>2, <3>1, Others
    <3>3. call[d].at # "reuse" /\ row[Latest(d)] = "live"
      BY <3>1 DEF Innocent
    <3> QED
      BY <1>2, <3>1, <3>2, <3>3
  <2> QED
    BY <2>1, <2>2
<1>4. ASSUME NEW a \in Tabs, page[a] # "login", stored[a] # 0, refreshing[a] = NoCall
      PROVE  row'[stored[a]] = "live"
  <2>1. stored[a] \in 1..minted /\ family[stored[a]] # family[call[c].token]
    BY <1>1, <1>4, Others, StoredHas
  <2> QED
    BY <1>2, <1>4, <2>1 DEF Innocent
<1> QED
  BY <1>3, <1>4

-----------------------------------------------------------------------------
(* Orderly and Innocent: a login *)

LEMMA OrderlyEnters ==
  ASSUME TypeOK, MintedFirst, Orderly, NEW b \in Tabs, NEW n, Enters(b, n)
  PROVE  Orderly'
<1> USE DEF ghosts
<1>0. UNCHANGED <<call, refreshing, faults>>
  BY DEF Enters
<1> SUFFICES ASSUME faults = 0
    PROVE
      /\ \A t, u \in Tokens : row'[t] = "live" /\ row'[u] = "live" /\ family'[t] = family'[u] => t = u
      /\ \A d, e \in Calls : Busy(d) /\ Busy(e) /\ family'[call[d].token] = family'[call[e].token] => d = e
      /\ \A d \in Calls : Busy(d) => Sole(Latest(d))'
      /\ \A a \in Tabs : page'[a] # "login" =>
           /\ \A d \in Calls, t \in Tokens :
                Busy(d) /\ call[d].tab = NoTab /\ Has(a, t)' => family'[call[d].token] # family'[t]
           /\ stored'[a] # 0 /\ refreshing[a] = NoCall => Sole(stored[a])'
  BY <1>0 DEF Orderly, Busy
<1>1. n \in Tokens /\ n = minted + 1 /\ minted \in Nat /\ \A t \in Tokens \ {n} : family'[t] = family[t]
  BY DEF Enters, TypeOK, Held
<1>2. \A t \in 1..minted : t \in Tokens /\ t # n /\ t <= minted
  BY <1>1, Bounds DEF Tokens
<1>3. \A t \in 1..minted : family'[t] = family[t] /\ family'[t] # n
  <2>1. \A t \in Tokens : t <= minted => family'[t] = family[t] /\ family[t] < n
    BY <1>1, OldFamily
  <2>2. \A t \in Tokens : family[t] \in Nat
    BY DEF TypeOK, Held
  <2> QED
    BY <1>1, <1>2, <2>1, <2>2
<1>4. ASSUME NEW t \in Tokens, row'[t] = "live", t # n
      PROVE  row[t] = "live" /\ t \in 1..minted
  <2>1. row'[t] = row[t]
    BY <1>4 DEF Enters
  <2>2. ~(t > minted)
    BY <1>4, <2>1 DEF MintedFirst
  <2> QED
    BY <1>1, <1>4, <2>1, <2>2 DEF Tokens
<1>5. row'[n] = "live" /\ family'[n] = n
  BY DEF Enters
<1>6. ASSUME NEW t \in Tokens, NEW u \in Tokens, row'[t] = "live", row'[u] = "live", family'[t] = family'[u]
      PROVE  t = u
  <2>1. CASE t = n \/ u = n
    BY <1>3, <1>4, <1>5, <1>6, <2>1
  <2>2. CASE t # n /\ u # n
    BY <1>3, <1>4, <1>6, <2>2 DEF Orderly
  <2> QED
    BY <2>1, <2>2
<1>7. ASSUME NEW t \in 1..minted, Sole(t)
      PROVE  \A u \in Tokens : row'[u] = "live" /\ family'[u] = family'[t] => u = t
  <2>1. ASSUME NEW u \in Tokens, row'[u] = "live", family'[u] = family'[t]
        PROVE  u = t
    <3>1. u # n
      BY <1>3, <1>5, <1>7, <2>1
    <3> QED
      BY <1>3, <1>4, <1>7, <2>1, <3>1 DEF Sole
  <2> QED
    BY <2>1
<1>8. ASSUME NEW d \in Calls, Busy(d)
      PROVE  Sole(Latest(d))'
  <2>1. Latest(d) \in 1..minted /\ Sole(Latest(d)) /\ Latest(d)' = Latest(d)
    BY <1>0, <1>8, BusyToken DEF Latest, MintedFirst, Orderly
  <2>2. \A u \in Tokens : row'[u] = "live" /\ family'[u] = family'[Latest(d)] => u = Latest(d)
    BY <1>7, <2>1
  <2> QED
    BY <2>1, <2>2 DEF Sole
<1>9. ASSUME NEW a \in Tabs, page'[a] # "login", NEW d \in Calls, NEW t \in Tokens,
             Busy(d), call[d].tab = NoTab, Has(a, t)'
      PROVE  family'[call[d].token] # family'[t]
  <2>1. call[d].token \in 1..minted
    BY <1>9, BusyToken
  <2>2. CASE a = b
    BY <1>3, <1>5, <1>9, <2>1, <2>2 DEF Enters
  <2>3. CASE a # b
    <3>1. Has(a, t) /\ page[a] # "login"
      BY <1>9, <2>3 DEF Enters
    <3>2. t \in 1..minted
      BY <1>1, <3>1 DEF MintedFirst, Tokens
    <3> QED
      BY <1>3, <1>9, <2>1, <3>1, <3>2 DEF Orderly
  <2> QED
    BY <2>2, <2>3
<1>10. ASSUME NEW a \in Tabs, page'[a] # "login", stored'[a] # 0, refreshing[a] = NoCall
       PROVE  Sole(stored[a])'
  <2>1. CASE a = b
    <3>1. stored'[a] = n
      BY <2>1 DEF Enters
    <3> QED
      BY <1>1, <1>5, <1>6, <3>1 DEF Sole
  <2>2. CASE a # b
    <3>1. stored'[a] = stored[a] /\ page[a] # "login"
      BY <1>10, <2>2 DEF Enters
    <3>2. stored[a] \in 1..minted /\ Sole(stored[a])
      BY <1>10, <3>1, StoredHas DEF Orderly
    <3>3. \A u \in Tokens : row'[u] = "live" /\ family'[u] = family'[stored[a]] => u = stored[a]
      BY <1>7, <3>2
    <3> QED
      BY <3>1, <3>3 DEF Sole
  <2> QED
    BY <2>1, <2>2
<1>11. ASSUME NEW d \in Calls, NEW e \in Calls, Busy(d), Busy(e),
              family'[call[d].token] = family'[call[e].token]
       PROVE  d = e
  <2>1. call[d].token \in 1..minted /\ call[e].token \in 1..minted
    BY <1>11, BusyToken
  <2> QED
    BY <1>3, <1>11, <2>1 DEF Orderly
<1> QED
  BY <1>6, <1>8, <1>9, <1>10, <1>11

LEMMA InnocentEnters ==
  ASSUME TypeOK, MintedFirst, Innocent, NEW b \in Tabs, NEW n, Enters(b, n)
  PROVE  Innocent'
<1> USE DEF ghosts
<1>0. UNCHANGED <<call, refreshing, query, alarm, signedOut, faults>>
  BY DEF Enters
<1> SUFFICES ASSUME faults = 0, ~signedOut
    PROVE
      /\ \A d \in Calls : Busy(d) => call[d].at # "reuse" /\ row'[Latest(d)] = "live"
      /\ \A a \in Tabs : page'[a] # "login" /\ stored'[a] # 0 /\ refreshing[a] = NoCall =>
           row'[stored'[a]] = "live"
  BY <1>0 DEF Innocent, Busy, Latest
<1>1. n = minted + 1 /\ minted \in Nat
  BY DEF Enters, TypeOK, Held
<1>2. \A t \in 1..minted : row'[t] = row[t]
  BY <1>1, Bounds DEF Enters, Tokens, TypeOK, Held
<1>3. ASSUME NEW d \in Calls, Busy(d)
      PROVE  call[d].at # "reuse" /\ row'[Latest(d)] = "live"
  <2>1. Latest(d) \in 1..minted
    BY <1>3, BusyToken DEF Latest, MintedFirst
  <2> QED
    BY <1>2, <1>3, <2>1 DEF Innocent
<1>4. ASSUME NEW a \in Tabs, page'[a] # "login", stored'[a] # 0, refreshing[a] = NoCall
      PROVE  row'[stored'[a]] = "live"
  <2>1. CASE a = b
    BY <2>1 DEF Enters
  <2>2. CASE a # b
    <3>1. stored'[a] = stored[a] /\ page[a] # "login"
      BY <1>4, <2>2 DEF Enters
    <3>2. stored[a] \in 1..minted
      BY <1>4, <3>1, StoredHas
    <3> QED
      BY <1>2, <1>4, <3>1, <3>2 DEF Innocent
  <2> QED
    BY <2>1, <2>2
<1> QED
  BY <1>3, <1>4

-----------------------------------------------------------------------------
(* The theorems *)

LEMMA InitInv ==
  ASSUME Init
  PROVE  SessionsInv
<1>1. \A b \in Tabs, t \in Tokens : ~Has(b, t)
  BY Bounds DEF Init, Has, NoQuery, FreeCall
<1>2. TypeOK
  BY Bounds DEF Init, TypeOK, NoQuery, FreeCall, Ats
<1>3. MintedFirst
  BY <1>1 DEF Init, MintedFirst, Busy, FreeCall, Tokens
<1>4. OnePromise /\ PageKnows /\ QueryKnows
  BY DEF Init, OnePromise, PageKnows, QueryKnows, FreeCall, NoQuery
<1>5. OneFamily /\ EndedIsOver
  BY <1>1 DEF Init, OneFamily, EndedIsOver
<1>6. Orderly
  BY DEF Init, Orderly, Busy, FreeCall
<1>7. Innocent
  BY DEF Init, Innocent, Busy, FreeCall, NoQuery
<1> QED
  BY <1>2, <1>3, <1>4, <1>5, <1>6, <1>7 DEF SessionsInv

\* A step that hands out no token, and begins no refresh.
LEMMA InvQuiet ==
  ASSUME SessionsInv, TypeOK', PageKnows', QueryKnows', Quiet, Promises, Settles, Harmless,
         EndedIsOver', ended' \subseteq 1..minted
  PROVE  SessionsInv'
<1>1. MintedFirst'
  BY MintedQuiet DEF SessionsInv
<1>2. OnePromise' /\ OneFamily'
  BY PromiseQuiet, QuietInherits, FamilyInherits DEF SessionsInv
<1>3. Orderly' /\ Innocent'
  BY OrderlyQuiet, InnocentQuiet DEF SessionsInv
<1> QED
  BY <1>1, <1>2, <1>3 DEF SessionsInv

LEMMA InvCalls ==
  ASSUME SessionsInv, NEW c \in Calls, CallQuiet(c)
  PROVE  SessionsInv'
<1> USE DEF SessionsInv
<1>1. TypeOK'
  <2>1. CASE RefreshRefused(c) \/ RefreshLost(c)
    BY <2>1, AnswerType
  <2>2. CASE ~(RefreshRefused(c) \/ RefreshLost(c))
    BY <2>2, ServerType DEF CallQuiet
  <2> QED
    BY <2>1, <2>2
<1>2. Quiet /\ Promises
  BY QuietSteps, QuietPromises
<1>3. Settles
  BY SettlesCalls
<1>4. Harmless
  BY <1>2, <1>3, HarmlessCalls
<1>5. PageKnows' /\ QueryKnows'
  BY PageCalls, KnowsCalls
<1>6. EndedIsOver' /\ ended' \subseteq 1..minted
  BY <1>2, EndedSame, EndedQuiet DEF MintedFirst
<1> QED
  BY <1>1, <1>2, <1>3, <1>4, <1>5, <1>6, InvQuiet

LEMMA InvRequests ==
  ASSUME SessionsInv, NEW b \in Tabs, NEW q \in Queries, RequestQuiet(b, q)
  PROVE  SessionsInv'
<1> USE DEF SessionsInv
<1>1. TypeOK'
  <2>1. CASE Unauthorized(b, q)
    BY <2>1, UnauthorizedType
  <2>2. CASE ~Unauthorized(b, q)
    BY <2>2, QueryStepType DEF RequestQuiet
  <2> QED
    BY <2>1, <2>2
<1>2. PageKnows' /\ QueryKnows'
  BY PageRequests, KnowsRequests
<1>3. CASE Starts(b, q)
  <2>1. PICK c \in Calls : Begins(b, c)
    BY <1>3, StartsSteps
  <2>2. MintedFirst' /\ OnePromise' /\ EndedIsOver'
    BY <2>1, MintedBegins, PromiseBegins, EndedBegins
  <2>3. OneFamily'
    BY <2>1, BeginsInherits, FamilyInherits
  <2>4. Orderly' /\ Innocent'
    BY <1>3, <2>1, OrderlyBegins, InnocentBegins
  <2> QED
    BY <1>1, <1>2, <2>2, <2>3, <2>4
<1>4. CASE ~Starts(b, q)
  <2>1. Quiet /\ Promises
    BY <1>4, QuietSteps, QuietPromises
  <2>2. Settles
    BY <1>4, SettlesRequests
  <2>3. Harmless
    BY <1>4, <2>2, HarmlessRequests
  <2>4. EndedIsOver' /\ ended' \subseteq 1..minted
    <3>1. CASE LogoutRevoke(b, q)
      BY <2>1, <3>1, EndedRevoke
    <3>2. CASE ~LogoutRevoke(b, q)
      BY <2>1, <3>2, EndedSame, EndedQuiet DEF MintedFirst
    <3> QED
      BY <3>1, <3>2
  <2> QED
    BY <1>1, <1>2, <2>1, <2>2, <2>3, <2>4, InvQuiet
<1> QED
  BY <1>3, <1>4

LEMMA InvLoads ==
  ASSUME SessionsInv, NEW b \in Tabs, LoadQuiet(b)
  PROVE  SessionsInv'
<1> USE DEF SessionsInv
<1>1. TypeOK' /\ PageKnows' /\ QueryKnows'
  BY PageType, PageLoads, KnowsPages DEF LoadQuiet
<1>2. Quiet /\ Promises
  BY QuietSteps, QuietPromises
<1>3. Settles
  BY SettlesLoads
<1>4. Harmless
  BY <1>3, HarmlessLoads
<1>5. EndedIsOver' /\ ended' \subseteq 1..minted
  BY <1>2, EndedSame, EndedQuiet DEF MintedFirst
<1> QED
  BY <1>1, <1>2, <1>3, <1>4, <1>5, InvQuiet

LEMMA InvRotate ==
  ASSUME SessionsInv, NEW c \in Calls, Rotate(c)
  PROVE  SessionsInv'
<1> USE DEF SessionsInv
<1> DEFINE n == minted + 1
<1>1. TypeOK' /\ Rotates(c, n)
  BY ServerType, RotatesSteps
<1>2. MintedFirst' /\ OnePromise' /\ PageKnows' /\ QueryKnows'
  BY <1>1, MintedRotates, PromiseRotates, PageRotates, KnowsCalls
<1>3. OneFamily' /\ EndedIsOver'
  BY <1>1, RotatesInherits, FamilyInherits, EndedRotates
<1>4. Orderly' /\ Innocent'
  BY <1>1, OrderlyRotates, InnocentRotates
<1> QED
  BY <1>1, <1>2, <1>3, <1>4

LEMMA InvGranted ==
  ASSUME SessionsInv, NEW c \in Calls, RefreshGranted(c)
  PROVE  SessionsInv'
<1> USE DEF SessionsInv
<1> DEFINE b == call[c].tab
<1>1. TypeOK' /\ Grants(c, b) /\ b \in Tabs
  BY AnswerType, GrantsSteps
<1>2. MintedFirst' /\ OnePromise' /\ PageKnows' /\ QueryKnows'
  BY <1>1, MintedGrants, PromiseGrants, PageGrants, KnowsCalls
<1>3. OneFamily' /\ EndedIsOver'
  BY <1>1, GrantsInherits, FamilyInherits, EndedGrants
<1>4. Orderly' /\ Innocent'
  BY <1>1, OrderlyGrants, InnocentGrants
<1> QED
  BY <1>1, <1>2, <1>3, <1>4

LEMMA InvLogin ==
  ASSUME SessionsInv, NEW b \in Tabs, Login(b)
  PROVE  SessionsInv'
<1> USE DEF SessionsInv
<1> DEFINE n == minted + 1
<1>1. TypeOK' /\ Enters(b, n)
  BY PageType, EntersSteps
<1>2. MintedFirst' /\ OnePromise' /\ PageKnows' /\ QueryKnows'
  BY <1>1, MintedEnters, PromiseEnters, PageEnters, KnowsPages
<1>3. OneFamily' /\ EndedIsOver'
  BY <1>1, FamilyEnters, EndedEnters
<1>4. Orderly' /\ Innocent'
  BY <1>1, OrderlyEnters, InnocentEnters
<1> QED
  BY <1>1, <1>2, <1>3, <1>4

LEMMA InvStutters ==
  ASSUME SessionsInv, UNCHANGED vars
  PROVE  SessionsInv'
<1> USE DEF SessionsInv, vars
<1>1. TypeOK' /\ OnePromise' /\ PageKnows' /\ QueryKnows'
  BY DEF TypeOK, OnePromise, PageKnows, QueryKnows
<1>2. \A b \in Tabs, t \in Tokens : Has(b, t)' <=> Has(b, t)
  BY DEF Has
<1>3. MintedFirst' /\ OneFamily' /\ EndedIsOver'
  BY <1>2 DEF MintedFirst, OneFamily, EndedIsOver, Busy
<1>4. Orderly' /\ Innocent'
  BY <1>2 DEF Orderly, Innocent, Busy, Latest, Sole
<1> QED
  BY <1>1, <1>3, <1>4

\* The state of the sessions hangs together: see SessionsInv.
THEOREM InvHolds == Spec => []SessionsInv
<1>1. Init => SessionsInv
  BY InitInv
<1>2. SessionsInv /\ [Next]_vars => SessionsInv'
  <2> SUFFICES ASSUME SessionsInv, [Next]_vars
               PROVE  SessionsInv'
    OBVIOUS
  <2>1. ASSUME NEW c \in Calls, CallStep(c) \/ RefreshLost(c)
        PROVE  SessionsInv'
    BY <2>1, InvCalls, InvRotate, InvGranted DEF CallStep, CallQuiet
  <2>2. ASSUME NEW b \in Tabs, NEW q \in Queries,
               QueryStep(b, q) \/ LogoutLost(b, q) \/ Send(b, q) \/ SignOut(b, q)
        PROVE  SessionsInv'
    BY <2>2, InvRequests DEF QueryStep, RequestQuiet
  <2>3. ASSUME NEW b \in Tabs, Leave(b) \/ Login(b) \/ Reload(b)
        PROVE  SessionsInv'
    BY <2>3, InvLoads, InvLogin DEF LoadQuiet
  <2> QED
    BY <2>1, <2>2, <2>3, InvStutters DEF Next
<1> QED
  BY <1>1, <1>2, PTL DEF Spec

\* Every variable of Sessions keeps its type, and the promise of a tab is a call that will answer it.
THEOREM SessionsTyped == Spec => []TypeOK
<1>1. SessionsInv => TypeOK
  BY DEF SessionsInv
<1> QED
  BY <1>1, InvHolds, PTL

\* Rotation is single-use: without reloads and lost answers a login has one live refresh token at most,
\* whatever requests of whatever tabs meet a 401, refresh, sign out or log in again, in any order.
THEOREM SingleUse == Spec => []OneLivePerLogin
<1>1. SessionsInv => OneLivePerLogin
  <2> SUFFICES ASSUME SessionsInv, faults = 0, NEW f \in Tokens
               PROVE  Cardinality(Live(f)) <= 1
    BY DEF OneLivePerLogin
  <2>1. \A t, u \in Live(f) : t = u
    BY DEF SessionsInv, Orderly, Live
  <2>2. CASE Live(f) = {}
    BY <2>2, FS_EmptySet
  <2>3. CASE Live(f) # {}
    <3>1. PICK t : t \in Live(f)
      BY <2>3
    <3>2. Live(f) = {t}
      BY <2>1, <3>1
    <3>3. Cardinality({t}) = 1
      BY FS_Singleton
    <3> QED
      BY <3>2, <3>3
  <2> QED
    BY <2>2, <2>3
<1> QED
  BY <1>1, InvHolds, PTL

\* The reuse alarm is never false: without a reload, a lost answer or a logout no refresh presents a
\* token that is revoked already.
THEOREM AlarmIsTrue == Spec => []NoFalseAlarm
<1>1. SessionsInv => NoFalseAlarm
  <2>1. ASSUME TypeOK, Innocent
        PROVE  NoFalseAlarm
    BY <2>1 DEF NoFalseAlarm, Innocent, TypeOK
  <2> QED
    BY <2>1 DEF SessionsInv
<1> QED
  BY <1>1, InvHolds, PTL

\* A logout that went through alone is final, faults or not: what the tab had opens nothing, and
\* nothing is left that could renew the login.
THEOREM LogoutIsFinal == Spec => []LoggedOutStaysOut
<1>1. SessionsInv => LoggedOutStaysOut
  BY DEF SessionsInv, EndedIsOver, TypeOK, LoggedOutStaysOut, Accepts, Live
<1> QED
  BY <1>1, InvHolds, PTL
=============================================================================
