------------------------------ MODULE Sessions ------------------------------
(***************************************************************************)
(* The sessions of one user: the refresh tokens of auth-service, the       *)
(* access tokens and the denylist the gateway checks, and the browser tabs *)
(* that hold them.  A refresh token and the access token minted with it    *)
(* have one number.  A login starts a family; each rotation adds to it.    *)
(*                                                                         *)
(* Server: a refresh is three steps (find the row, fetch the role, rotate) *)
(* without a lock between them.  Browser: the access token lives in memory,*)
(* the refresh token in sessionStorage, every 401 of a tab shares one      *)
(* refresh, a request is replayed once, and giving up is a hard navigation *)
(* to /login, which other answers may still get ahead of.                  *)
(*                                                                         *)
(* A request with a refresh token in its body, read when it was made, is a *)
(* logout; any other stands for any other call of a page.                  *)
(***************************************************************************)
EXTENDS Integers, FiniteSets

CONSTANTS
  Tabs, Queries,
  Calls,       \* refresh calls under way at once
  MaxTokens,   \* bound on tokens minted
  MaxFaults,   \* bound on reloads and lost answers
  NoCall, NoTab

ASSUME SessionsAssumption ==
  /\ NoCall \notin Calls /\ NoTab \notin Tabs
  /\ MaxTokens \in Nat /\ MaxFaults \in Nat

Tokens == 1..MaxTokens
Held   == 0..MaxTokens   \* 0: no token

VARIABLES
  row,       \* row[t]: "none", "live" or "revoked" (revoked_at is set)
  family,    \* family[t]: the login the token descends from
  minted,    \* tokens minted so far
  denied,    \* the denylist
  call,      \* the refresh calls
  page,      \* page[b]: "login", "app", "leaving" (redirectToLogin) or "signedOut"
  access,    \* the access token in memory
  stored,    \* the refresh token in sessionStorage
  cached,    \* the user in sessionStorage
  refreshing,\* refreshPromise: the call it waits for
  query,     \* the requests of each tab
  alarm,     \* there was a refresh_token_reuse event
  signedOut, \* a logout was begun
  ended,     \* access tokens whose logout went through alone (see Alone)
  faults

authDb   == <<row, family, minted>>
tab      == <<page, access, stored, cached, refreshing, query>>
ghosts   == <<alarm, signedOut, ended, faults>>
vars == <<row, family, minted, denied, call, page, access, stored, cached,
          refreshing, query, alarm, signedOut, ended, faults>>

NoQuery  == [at |-> "idle", token |-> 0, retried |-> FALSE, body |-> 0]
FreeCall == [at |-> "free", tab |-> NoTab, token |-> 0, answer |-> 0]

Init ==
  /\ row = [t \in Tokens |-> "none"] /\ family = [t \in Tokens |-> 0] /\ minted = 0
  /\ denied = {}
  /\ call = [c \in Calls |-> FreeCall]
  /\ page = [b \in Tabs |-> "login"]
  /\ access = [b \in Tabs |-> 0] /\ stored = [b \in Tabs |-> 0] /\ cached = [b \in Tabs |-> FALSE]
  /\ refreshing = [b \in Tabs |-> NoCall]
  /\ query = [b \in Tabs |-> [q \in Queries |-> NoQuery]]
  /\ alarm = FALSE /\ signedOut = FALSE /\ ended = {} /\ faults = 0

Fault == faults < MaxFaults /\ faults' = faults + 1

-----------------------------------------------------------------------------
(* auth-service *)

\* issue and rotate: the new row of family f; what else happens to the rows is in others.
Mint(f, others) ==
  /\ minted < MaxTokens
  /\ minted' = minted + 1
  /\ family' = [family EXCEPT ![minted + 1] = f]
  /\ row' = [others EXCEPT ![minted + 1] = "live"]

Revoke(ts) == [t \in Tokens |-> IF t \in ts /\ row[t] = "live" THEN "revoked" ELSE row[t]]

\* findByTokenHash, outside any transaction.
FindToken(c) ==
  /\ call[c].at = "find"
  /\ call' = [call EXCEPT ![c].at = IF row[call[c].token] = "revoked" THEN "reuse" ELSE "roles"]
  /\ UNCHANGED <<authDb, denied, tab, ghosts>>

\* revokeAllForCredential, the event, 403.
RevokeFamily(c) ==
  /\ call[c].at = "reuse"
  /\ row' = Revoke(Tokens)
  /\ alarm' = TRUE
  /\ call' = [call EXCEPT ![c].at = "refused"]
  /\ UNCHANGED <<family, minted, denied, tab, signedOut, ended, faults>>

\* Mutant: the presented token stays as it is.
Rotate_KeepsOld(c) ==
  /\ call[c].at = "roles"
  /\ Mint(family[call[c].token], row)
  /\ call' = [call EXCEPT ![c].at = "granted", ![c].answer = minted + 1]
  /\ UNCHANGED <<denied, tab, ghosts>>

\* rotate: insert the successor, revoke the presented token, whatever it is by now.
Rotate(c) ==
  /\ call[c].at = "roles"
  /\ Mint(family[call[c].token], Revoke({call[c].token}))
  /\ call' = [call EXCEPT ![c].at = "granted", ![c].answer = minted + 1]
  /\ UNCHANGED <<denied, tab, ghosts>>

\* Expired, or no role to be had: the user is removed, not there yet, or user-service fails.
RefuseRefresh(c) ==
  /\ call[c].at = "roles"
  /\ call' = [call EXCEPT ![c].at = "refused"]
  /\ UNCHANGED <<authDb, denied, tab, ghosts>>

-----------------------------------------------------------------------------
(* The browser *)

Ask(b, q, r) == query' = [query EXCEPT ![b][q] = r]

Forget(b) == /\ access' = [access EXCEPT ![b] = 0] /\ stored' = [stored EXCEPT ![b] = 0]
             /\ cached' = [cached EXCEPT ![b] = FALSE]

\* redirectToLogin: once; what is stored goes, the page goes too, but not at once.
Redirect(b) ==
  IF page[b] \in {"app", "signedOut"}
    THEN page' = [page EXCEPT ![b] = "leaving"] /\ Forget(b)
    ELSE UNCHANGED <<page, access, stored, cached>>

\* A logout that settles, well or badly: everything is forgotten, and a navigation begins.
SignedOut(b) == /\ Forget(b)
                /\ page' = [page EXCEPT ![b] = IF page[b] = "app" THEN "signedOut" ELSE page[b]]

\* performRefresh, on a call of its own: the server may go on with one nobody waits for.
Start(b) ==
  LET free == {c \in Calls : call[c].at = "free"}
      c    == CHOOSE c \in free : TRUE
  IN  /\ free # {}
      /\ call' = [call EXCEPT ![c] = [at |-> "find", tab |-> b, token |-> stored[b], answer |-> 0]]
      /\ refreshing' = [refreshing EXCEPT ![b] = c]

\* Mutant: every 401 starts a refresh of its own.
HandleUnauthorized_EachOwn(b, q) ==
  IF query[b][q].retried \/ stored[b] = 0
    THEN Redirect(b) /\ Ask(b, q, NoQuery) /\ UNCHANGED <<refreshing, call>>
    ELSE /\ Ask(b, q, [query[b][q] EXCEPT !.at = "waiting", !.retried = TRUE])
         /\ Start(b)
         /\ UNCHANGED <<page, access, stored, cached>>

\* A 401: give up, or wait for the one refresh of this tab.
HandleUnauthorized(b, q) ==
  IF query[b][q].retried \/ stored[b] = 0
    THEN Redirect(b) /\ Ask(b, q, NoQuery) /\ UNCHANGED <<refreshing, call>>
    ELSE /\ Ask(b, q, [query[b][q] EXCEPT !.at = "waiting", !.retried = TRUE])
         /\ IF refreshing[b] # NoCall
              THEN UNCHANGED <<refreshing, call>>
              ELSE Start(b)
         /\ UNCHANGED <<page, access, stored, cached>>

Waiters(b, r) ==
  [query EXCEPT ![b] = [q \in Queries |-> IF query[b][q].at = "waiting" THEN r[q] ELSE query[b][q]]]

\* The pair is stored and every waiting request is replayed with it.
RefreshGranted(c) ==
  LET b == call[c].tab IN
  /\ call[c].at = "granted" /\ b # NoTab
  /\ access' = [access EXCEPT ![b] = call[c].answer]
  /\ stored' = [stored EXCEPT ![b] = call[c].answer]
  /\ query' = Waiters(b, [q \in Queries |-> [query[b][q] EXCEPT !.at = "sent", !.token = call[c].answer]])
  /\ refreshing' = [refreshing EXCEPT ![b] = NoCall]
  /\ call' = [call EXCEPT ![c] = FreeCall]
  /\ UNCHANGED <<authDb, denied, page, cached, ghosts>>

\* Mutant: the failure is not caught.
Fails_Uncaught(b) ==
  /\ UNCHANGED <<page, access, stored, cached, query>>
  /\ refreshing' = [refreshing EXCEPT ![b] = NoCall]

\* The refresh fails for its tab: refused, timed out or lost.
Fails(b) ==
  /\ Redirect(b)
  /\ query' = Waiters(b, [q \in Queries |-> NoQuery])
  /\ refreshing' = [refreshing EXCEPT ![b] = NoCall]

RefreshRefused(c) ==
  /\ call[c].at = "refused" /\ call[c].tab # NoTab
  /\ Fails(call[c].tab)
  /\ call' = [call EXCEPT ![c] = FreeCall]
  /\ UNCHANGED <<authDb, denied, ghosts>>

\* No answer in time; the server goes on.
RefreshLost(c) ==
  /\ call[c].tab # NoTab
  /\ Fault
  /\ Fails(call[c].tab)
  /\ call' = [call EXCEPT ![c].tab = NoTab]
  /\ UNCHANGED <<authDb, denied, alarm, signedOut, ended>>

\* An answer nobody waits for.
RefreshUnheard(c) ==
  /\ call[c].at \in {"granted", "refused"} /\ call[c].tab = NoTab
  /\ call' = [call EXCEPT ![c] = FreeCall]
  /\ UNCHANGED <<authDb, denied, tab, ghosts>>

\* The request interceptor attaches the token in memory, if there is one.
Request(b, q, body) ==
  /\ page[b] = "app" /\ query[b][q].at = "idle"
  /\ Ask(b, q, [at |-> "sent", token |-> access[b], retried |-> FALSE, body |-> body])
  /\ UNCHANGED <<authDb, denied, call, page, access, stored, cached, refreshing, alarm, ended, faults>>

Send(b, q) == Request(b, q, 0) /\ UNCHANGED signedOut

IsLogout(b, q) == query[b][q].body # 0

\* The Sign out button, off while a logout is under way.
SignOut(b, q) ==
  /\ stored[b] # 0 /\ \A p \in Queries : ~IsLogout(b, p)
  /\ Request(b, q, stored[b])
  /\ signedOut' = TRUE

-----------------------------------------------------------------------------
(* The gateway *)

\* JwtStrategy: there is a token, its signature and expiry hold, and it is not on the denylist.
Accepts(t) == t # 0 /\ t \notin denied

\* Any token may have expired since it was attached, and with Redis away the denylist cannot be
\* read, which refuses too.
Unauthorized(b, q) ==
  /\ query[b][q].at = "sent"
  /\ HandleUnauthorized(b, q)
  /\ UNCHANGED <<authDb, denied, ghosts>>

\* The caller's answer, or its error.
Served(b, q) ==
  /\ query[b][q].at = "sent" /\ ~IsLogout(b, q)
  /\ Accepts(query[b][q].token) \/ ~query[b][q].retried
  /\ Ask(b, q, NoQuery)
  /\ UNCHANGED <<authDb, denied, call, page, access, stored, cached, refreshing, ghosts>>

\* Any other answer, or none, is left to the caller, but the catch of the refresh is around a
\* replayed request.
ServedError(b, q) ==
  /\ query[b][q].at = "sent" /\ ~IsLogout(b, q)
  /\ query[b][q].retried
  /\ Redirect(b) /\ Ask(b, q, NoQuery)
  /\ UNCHANGED <<authDb, denied, call, refreshing, ghosts>>

\* Mutant: the gateway asks auth-service only.
LogoutDeny_Skipped(b, q) ==
  /\ query[b][q].at = "sent" /\ IsLogout(b, q) /\ Accepts(query[b][q].token)
  /\ Ask(b, q, [query[b][q] EXCEPT !.at = "denied"])
  /\ UNCHANGED <<authDb, denied, call, page, access, stored, cached, refreshing, ghosts>>

\* logout at the gateway: deny first; that Redis does not take it is logged.
LogoutDeny(b, q) ==
  /\ query[b][q].at = "sent" /\ IsLogout(b, q) /\ Accepts(query[b][q].token)
  /\ \/ /\ denied' = denied \cup {query[b][q].token}
        /\ Ask(b, q, [query[b][q] EXCEPT !.at = "denied"])
     \/ /\ UNCHANGED denied
        /\ Ask(b, q, [query[b][q] EXCEPT !.at = "notDenied"])
  /\ UNCHANGED <<authDb, call, page, access, stored, cached, refreshing, ghosts>>

\* The login of token t has no other live token and no refresh under way.
Alone(t) == /\ \A u \in Tokens : row[u] = "live" /\ family[u] = family[t] <=> u = t
            /\ \A c \in Calls : call[c].at # "free" => family[call[c].token] # family[t]

\* Then auth-service revokes the token of the body, the tab forgets everything and leaves.
LogoutRevoke(b, q) ==
  /\ query[b][q].at \in {"denied", "notDenied"}
  /\ row' = Revoke({query[b][q].body})
  /\ ended' = IF Alone(query[b][q].body) /\ query[b][q].at = "denied"
                THEN ended \cup {query[b][q].token} ELSE ended
  /\ SignedOut(b) /\ Ask(b, q, NoQuery)
  /\ UNCHANGED <<family, minted, denied, call, refreshing, alarm, signedOut, faults>>

\* The answer is an error or gets lost: signed out here, whatever the server did.
LogoutLost(b, q) ==
  /\ query[b][q].at # "waiting" /\ IsLogout(b, q)
  /\ Fault
  /\ SignedOut(b) /\ Ask(b, q, NoQuery)
  /\ UNCHANGED <<authDb, denied, call, refreshing, alarm, signedOut, ended>>

-----------------------------------------------------------------------------
(* Pages *)

Login(b) ==
  /\ page[b] = "login"
  /\ Mint(minted + 1, row)
  /\ access' = [access EXCEPT ![b] = minted + 1] /\ stored' = [stored EXCEPT ![b] = minted + 1]
  /\ cached' = [cached EXCEPT ![b] = TRUE]
  /\ page' = [page EXCEPT ![b] = "app"]
  /\ UNCHANGED <<denied, call, refreshing, query, ghosts>>

\* Mutant: the promise outlives the document.
Load_KeepsPromise(b) ==
  LET restored == cached[b] /\ stored[b] # 0 IN
  /\ page' = [page EXCEPT ![b] = IF restored THEN "app" ELSE "login"]
  /\ cached' = [cached EXCEPT ![b] = restored]
  /\ access' = [access EXCEPT ![b] = 0]
  /\ query' = [query EXCEPT ![b] = [q \in Queries |-> NoQuery]]
  /\ call' = [c \in Calls |-> IF call[c].tab = b THEN [call[c] EXCEPT !.tab = NoTab] ELSE call[c]]
  /\ UNCHANGED <<authDb, denied, refreshing, stored, alarm, signedOut, ended>>

\* A document load: memory is gone, sessionStorage is read; a cached user needs a token.
Load(b) ==
  LET restored == cached[b] /\ stored[b] # 0 IN
  /\ page' = [page EXCEPT ![b] = IF restored THEN "app" ELSE "login"]
  /\ cached' = [cached EXCEPT ![b] = restored]
  /\ access' = [access EXCEPT ![b] = 0]
  /\ refreshing' = [refreshing EXCEPT ![b] = NoCall]
  /\ query' = [query EXCEPT ![b] = [q \in Queries |-> NoQuery]]
  /\ call' = [c \in Calls |-> IF call[c].tab = b THEN [call[c] EXCEPT !.tab = NoTab] ELSE call[c]]
  /\ UNCHANGED <<authDb, denied, stored, alarm, signedOut, ended>>

Leave(b)  == page[b] \in {"leaving", "signedOut"} /\ Load(b) /\ UNCHANGED faults
Reload(b) == page[b] = "app" /\ Fault /\ Load(b)

-----------------------------------------------------------------------------

CallStep(c) == \/ FindToken(c) \/ RevokeFamily(c) \/ Rotate(c) \/ RefuseRefresh(c)
               \/ RefreshGranted(c) \/ RefreshRefused(c) \/ RefreshUnheard(c)

QueryStep(b, q) == \/ Unauthorized(b, q) \/ Served(b, q) \/ ServedError(b, q)
                   \/ LogoutDeny(b, q) \/ LogoutRevoke(b, q)

Next ==
  \/ \E c \in Calls : CallStep(c) \/ RefreshLost(c)
  \/ \E b \in Tabs : \/ Leave(b) \/ Login(b) \/ Reload(b)
                     \/ \E q \in Queries : \/ QueryStep(b, q) \/ LogoutLost(b, q)
                                           \/ Send(b, q) \/ SignOut(b, q)

Spec == Init /\ [][Next]_vars

(***************************************************************************)
(* Servers answer what they were asked, and a page that leaves is gone     *)
(* some time.  Nobody has to log in or to ask for anything.                *)
(***************************************************************************)
FairSpec == /\ Spec
            /\ \A c \in Calls : WF_vars(CallStep(c))
            /\ \A b \in Tabs : WF_vars(Leave(b))
            /\ \A b \in Tabs, q \in Queries : WF_vars(QueryStep(b, q))
=============================================================================
