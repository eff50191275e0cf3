----------------------------- MODULE SeatsProps -----------------------------
(***************************************************************************)
(* The properties of Seats.                                                *)
(***************************************************************************)
EXTENDS Seats

-----------------------------------------------------------------------------
(* Types *)

(***************************************************************************)
(* Every variable has its type; a request is about a row of the table its  *)
(* place needs, which a read of it has found.                              *)
(***************************************************************************)
TypeOK ==
  /\ used \in Int /\ max \in PlanSizes /\ again \in Nat
  /\ created \subseteq Invitations /\ expired \subseteq created
  /\ accepted \subseteq created /\ revoked \subseteq created
  /\ members \subseteq Emails /\ removed \subseteq members /\ admins \subseteq members
  /\ creds \subseteq Emails
  /\ subLock \in Workers \cup {None}
  /\ invLock \in [Invitations -> Workers \cup {None}]
  /\ pc \in [Workers -> Places]
  /\ arg \in [Workers -> Invitations \cup Emails \cup PlanSizes \cup {None}]
  /\ seen \in [Workers -> [used : Int, max : Int]]
  /\ ids \in [Workers -> SUBSET created]
  /\ \A w \in Workers : /\ pc[w] \in OnNewInvitation => arg[w] \in Invitations
                        /\ pc[w] \in OnInvitation => arg[w] \in created
                        /\ pc[w] \in OnUser => arg[w] \in members
                        /\ pc[w] \in OnPlan => arg[w] \in PlanSizes

-----------------------------------------------------------------------------
(* The seat limit *)

\* The upper CHECK is only a backstop: an invite that passed its count check, or a plan change
\* that passed its comparison, writes a row that satisfies it, because nobody can move the
\* counter or the ceiling between the read under the row lock and the write.
BackstopUnneeded ==
  \A w \in Workers :
    /\ pc[w] = "inviteBody" /\ seen[w].used < seen[w].max => used + 1 <= max
    /\ pc[w] = "planBody" /\ seen[w].used <= arg[w] => used <= arg[w]

Count == Cardinality(Pending) + Cardinality(Active)

\* The founder's row is created by the provisioning consumer, which takes no seat.
FounderSeat == IF Founder \in members THEN 1 ELSE 0

\* However the requests overlap, the counter never claims a seat that nobody holds: it is at
\* most the open invitations plus the active users other than the exempt founder.
NoPhantomSeat == used <= Count - FounderSeat

\* The counter is exact but for the seats that were given back twice: whatever overlaps, an
\* invite, an acceptance, a removal, a revocation or a sweep moves the counter by what it moves
\* the holders, and only a release of a row that had been released in the meantime does not.
SeatsExact == used = Count - FounderSeat - again

\* The organisation never has more counted holders than seats.  The code breaks this: two
\* removals of one user, or two revocations of one invitation, each give a seat back.
NeverOversold == Count - FounderSeat <= max

-----------------------------------------------------------------------------
(* Invitations and people *)

\* A person beyond the founder has come through exactly one accepted invitation, which is the
\* only one accepted for that address, and holds a credential.
OneInvitationPerPerson ==
  /\ members \ {Founder} = { EmailOf[i] : i \in accepted }
  /\ \A i, j \in accepted : EmailOf[i] = EmailOf[j] => i = j
  /\ members \subseteq creds

\* A user row appears only out of an invitation that is open at that very moment: a revocation
\* or a sweep that committed after the acceptor's checks is never overlooked.
AcceptConsumesPending ==
  [][\A i \in Invitations : i \in accepted' \ accepted => i \in Pending]_accepted

\* An organisation that has had its admin always has one.  The code breaks this: the count of
\* admins and the write that lowers it are two statements under no lock.
SomeAdmin == Founder \in members => ActiveAdmins # {}

-----------------------------------------------------------------------------
(* The inductive invariant behind the safety properties *)

\* The subscription row is locked by exactly the request inside such a transaction, and what
\* that request read of the row is still what the row holds.
SubLocked ==
  \A w \in Workers : /\ pc[w] \in HoldsSub <=> subLock = w
                     /\ subLock = w => seen[w] = [used |-> used, max |-> max]

\* An acceptance that has locked its invitation finds it open until it commits.
InvLocked ==
  \A w \in Workers : pc[w] \in HoldsInv => invLock[arg[w]] = w /\ arg[w] \in Pending

\* An id is used by one invite only.
FreshIds ==
  \A w \in Workers :
    pc[w] \in OnNewInvitation =>
      /\ arg[w] \notin created
      /\ \A v \in Workers \ {w} : pc[v] \in OnNewInvitation => arg[v] # arg[w]

\* Nobody calls before the founding admin has a row.
CallersExist == \A w \in Workers : pc[w] # "idle" => Founder \in members

\* The row satisfies its constraints.
SeatLimit == 0 <= used /\ used <= max

\* SeatsExact is not inductive without the rest.
SeatsInv == /\ TypeOK
            /\ SubLocked /\ InvLocked /\ FreshIds /\ CallersExist
            /\ SeatLimit /\ SeatsExact

\* Past the call to auth-service the invitee has a credential, and so is not the founder, whose
\* credential was there before: OneInvitationPerPerson is not inductive without this.
CredentialFirst ==
  /\ Founder \in creds
  /\ \A w \in Workers :
       pc[w] \in {"acceptLockInvitation", "acceptLockSub", "acceptBody"} =>
         EmailOf[arg[w]] \in creds /\ EmailOf[arg[w]] # Founder

PeopleInv == SeatsInv /\ CredentialFirst /\ OneInvitationPerPerson

-----------------------------------------------------------------------------
(* Liveness *)

\* Every request ends, in spite of deadlocks between acceptance and the other paths.
EveryRequestEnds == \A w \in Workers : pc[w] # "idle" ~> pc[w] = "idle"

\* An invitation that expires without being accepted eventually gives its seat back.  The code
\* breaks this: the hourly job finds no organisation to sweep.
ExpiredReleased == \A i \in Invitations : i \in Pending \cap expired ~> i \notin Pending

-----------------------------------------------------------------------------
(* Refinement *)

Ledger == INSTANCE SeatLedger WITH
            holders <- Count, exempt <- FounderSeat, drift <- again

\* Seats implements the abstract ledger, in every interleaving.
LedgerSpec == Ledger!Spec
=============================================================================
