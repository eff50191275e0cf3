---------------------------- MODULE SessionsProps ----------------------------
(***************************************************************************)
(* The properties of Sessions.                                             *)
(***************************************************************************)
EXTENDS Sessions

Ats == {"free", "find", "roles", "reuse", "granted", "refused"}

\* Every variable has its type; the promise of a tab is a call that will answer that tab.
TypeOK ==
  /\ row \in [Tokens -> {"none", "live", "revoked"}] /\ family \in [Tokens -> Held]
  /\ minted \in Held
  /\ denied \subseteq Tokens
  /\ call \in [Calls -> [at : Ats, tab : Tabs \cup {NoTab}, token : Held, answer : Held]]
  /\ page \in [Tabs -> {"login", "app", "leaving", "signedOut"}]
  /\ access \in [Tabs -> Held] /\ stored \in [Tabs -> Held] /\ cached \in [Tabs -> BOOLEAN]
  /\ refreshing \in [Tabs -> Calls \cup {NoCall}]
  /\ query \in [Tabs -> [Queries -> [at : {"idle", "sent", "waiting", "denied", "notDenied"}, token : Held,
                                     retried : BOOLEAN, body : Held]]]
  /\ ended \subseteq denied /\ faults \in 0..MaxFaults
  /\ \A b \in Tabs : refreshing[b] # NoCall =>
        call[refreshing[b]].tab = b /\ call[refreshing[b]].at # "free"

Live(f) == {t \in Tokens : row[t] = "live" /\ family[t] = f}

\* In ordinary use rotation is single-use: however many requests of a tab meet a 401, together or
\* late, and whatever else is signed out, a login has one live refresh token at most.
OneLivePerLogin == faults = 0 => \A f \in Tokens : Cardinality(Live(f)) <= 1

\* In ordinary use nobody is taken for a thief.
NoFalseAlarm == alarm => faults > 0 \/ signedOut

\* A request never hangs: it is answered, or its page leaves.
QueriesSettle ==
  \A b \in Tabs, q \in Queries : query[b][q].at # "idle" ~> query[b][q].at = "idle"

\* A logout that went through with nothing of its login under way ends the login for good: the
\* access token it was made with opens nothing and no refresh token is left to renew it.
LoggedOutStaysOut == \A t \in ended : ~Accepts(t) /\ Live(family[t]) = {}
-----------------------------------------------------------------------------
(* The inductive invariant *)

Busy(c) == call[c].at # "free"

\* What tab b has of token t: in memory, in sessionStorage, in a request or in its refresh.
Has(b, t) ==
  /\ t # 0
  /\ \/ t \in {stored[b], access[b]}
     \/ \E q \in Queries : t \in {query[b][q].token, query[b][q].body}
     \/ \E c \in Calls : call[c].tab = b /\ call[c].token = t

\* What was handed out was minted, every minted token has a row and a minted family, and the rest
\* of the table is empty.
MintedFirst ==
  /\ \A t \in Tokens : /\ t <= minted => row[t] # "none" /\ family[t] \in 1..minted
                       /\ t > minted => row[t] = "none"
  /\ \A c \in Calls : /\ Busy(c) => call[c].token \in 1..minted
                      /\ ~Busy(c) => call[c].tab = NoTab
                      /\ call[c].at = "granted" =>
                           /\ call[c].answer \in 1..minted
                           /\ family[call[c].answer] = family[call[c].token]
  /\ \A b \in Tabs, t \in Tokens : Has(b, t) => t <= minted
  /\ ended \subseteq 1..minted

\* One refresh of a tab is under way, the one its promise waits for, and sessionStorage still has the
\* token it was made with, or nothing.
OnePromise ==
  /\ \A c \in Calls : call[c].tab # NoTab => refreshing[call[c].tab] = c
  /\ \A b \in Tabs : refreshing[b] # NoCall => stored[b] \in {0, call[refreshing[b]].token}

\* The login page has nothing under way, and only the application has a user.
PageKnows ==
  \A b \in Tabs :
    /\ page[b] = "login" => refreshing[b] = NoCall /\ \A q \in Queries : query[b][q].at = "idle"
    /\ page[b] # "app" => ~cached[b]

\* Requests: an idle one has nothing; one that the gateway has denied has a denied token.
QueryKnows ==
  \A b \in Tabs, q \in Queries :
    /\ query[b][q].at = "idle" => query[b][q] = NoQuery
    /\ query[b][q].at \in {"denied", "notDenied"} => query[b][q].token # 0 /\ query[b][q].body # 0
    /\ query[b][q].at = "denied" => query[b][q].token \in denied

\* All a tab has is of one login, and no other tab has anything of that login.
OneFamily ==
  \A b, d \in Tabs : \A t, u \in Tokens :
    Has(b, t) /\ Has(d, u) => (family[t] = family[u] <=> b = d)

\* The login of an ended access token is over: nothing is live, stored or under way.
EndedIsOver ==
  \A t \in ended :
    /\ \A u \in Tokens : row[u] = "live" => family[u] # family[t]
    /\ \A b \in Tabs : stored[b] # 0 => family[stored[b]] # family[t]
    /\ \A c \in Calls : Busy(c) => family[call[c].token] # family[t]

\* The token that a refresh leaves its login with.
Latest(c) == IF call[c].at = "granted" THEN call[c].answer ELSE call[c].token

\* t is the only token of its login that can be live.
Sole(t) == \A u \in Tokens : row[u] = "live" /\ family[u] = family[t] => u = t

\* In ordinary use a login has one refresh under way at most, a refresh nobody waits for has left the
\* tab's login behind, and whoever may use a token next has the only one.
Orderly ==
  faults = 0 =>
    /\ \A t, u \in Tokens : row[t] = "live" /\ row[u] = "live" /\ family[t] = family[u] => t = u
    /\ \A c, d \in Calls : Busy(c) /\ Busy(d) /\ family[call[c].token] = family[call[d].token] => c = d
    /\ \A c \in Calls : Busy(c) => Sole(Latest(c))
    /\ \A b \in Tabs : page[b] # "login" =>
         /\ \A c \in Calls, t \in Tokens :
              Busy(c) /\ call[c].tab = NoTab /\ Has(b, t) => family[call[c].token] # family[t]
         /\ stored[b] # 0 /\ refreshing[b] = NoCall => Sole(stored[b])

\* As long as nobody signs out either, that token is live.
Innocent ==
  faults = 0 /\ ~signedOut =>
    /\ ~alarm
    /\ \A b \in Tabs, q \in Queries : query[b][q].body = 0
    /\ \A c \in Calls : Busy(c) => call[c].at # "reuse" /\ row[Latest(c)] = "live"
    /\ \A b \in Tabs : page[b] # "login" /\ stored[b] # 0 /\ refreshing[b] = NoCall =>
         row[stored[b]] = "live"

SessionsInv == /\ TypeOK /\ MintedFirst /\ OnePromise /\ PageKnows /\ QueryKnows
               /\ OneFamily /\ EndedIsOver
               /\ Orderly /\ Innocent
=============================================================================
