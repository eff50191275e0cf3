----------------------------- MODULE SeatLedger -----------------------------
(***************************************************************************)
(* What the seat accounting of one organisation promises, with no          *)
(* transactions, locks or rows: a counter `used` under a ceiling `max`,    *)
(* the number of seat holders (active users and open invitations), the     *)
(* number of holders admitted without a seat, and the drift: the seats     *)
(* that came back for holders who had lost theirs already.  Holders are    *)
(* only ever admitted one by one, under the ceiling and with a seat each,  *)
(* except for the founding admin; the counter and the holders part in a    *)
(* release and nowhere else, and then for good.                            *)
(***************************************************************************)
EXTENDS Integers

CONSTANT PlanSizes          \* plans.max_users of the plans on offer

VARIABLES used, max, holders, exempt, drift

lvars == <<used, max, holders, exempt, drift>>

Init == used = 0 /\ max \in PlanSizes /\ holders = 0 /\ exempt = 0 /\ drift = 0

\* The founding admin joins without taking a seat.
Exempt == /\ exempt = 0
          /\ exempt' = 1
          /\ holders' = holders + 1
          /\ UNCHANGED <<used, max, drift>>

\* A new holder is admitted only under the ceiling.
Grant == /\ used < max
         /\ used' = used + 1
         /\ holders' = holders + 1
         /\ UNCHANGED <<max, exempt, drift>>

\* One or more seats come back in one step, d of them for holders who had given theirs back.
Release == \E n \in 1..used : \E d \in 0..n :
             /\ used' = used - n
             /\ holders' = holders - (n - d)
             /\ drift' = drift + d
             /\ UNCHANGED <<max, exempt>>

\* A plan change never undercuts the seats that are held.
Resize == \E m \in PlanSizes :
            /\ used <= m
            /\ max' = m
            /\ UNCHANGED <<used, holders, exempt, drift>>

Next == Exempt \/ Grant \/ Release \/ Resize

Spec == Init /\ [][Next]_lvars
=============================================================================
