------------------------------ MODULE MCSeats ------------------------------
(***************************************************************************)
(* Small instances of Seats: the founder, one or two people to invite, one *)
(* of them twice, and two handlers.                                        *)
(***************************************************************************)
EXTENDS SeatsProps, TLC

CONSTANTS w1, w2, i1, i2, i3, founder, ann, bob

\* Two invitations to one address, and one to another.
MCAnnTwice == (i1 :> ann) @@ (i3 :> ann)
MCAnnAndBob == (i1 :> ann) @@ (i2 :> bob)
MCAnnTwiceAndBob == MCAnnAndBob @@ MCAnnTwice

\* Every operation overlaps every other, and all but plan and role changes themselves.
MCPair == (w1 :> Operations) @@ (w2 :> Operations \ {"role", "plan"})

MCReleases == [w \in Workers |-> {"invite", "accept", "remove", "revoke"}]
MCAdmins   == [w \in Workers |-> {"invite", "accept", "remove", "role"}]

\* The cron job runs on one of the handlers.
MCExpiry == [w \in Workers |-> IF w = w1 THEN {"sweep"} ELSE {"invite", "accept"}]
=============================================================================
