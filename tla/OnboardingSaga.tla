--------------------------- MODULE OnboardingSaga ---------------------------
(***************************************************************************)
(* What the signup of an organisation promises, whatever requests, retries *)
(* and failures do: the saga of an idempotency key walks                   *)
(*                                                                         *)
(*   PENDING, ORG_CREATED, CREDENTIALS_CREATED, SUBSCRIBED, COMPLETE       *)
(*                                                                         *)
(* one step at a time, never backwards, and is bound once and for all to   *)
(* one organisation that no other key is bound to.  Onboarding is checked  *)
(* to implement it when a key is always submitted with the same form.      *)
(***************************************************************************)
EXTENDS Naturals

CONSTANTS Keys, Slugs, None

VARIABLES stage,   \* stage[k]: 0 is no saga, 1 is PENDING, 5 is COMPLETE
          bound    \* bound[k]: the organisation of the saga

svars == <<stage, bound>>

Init == /\ stage = [k \in Keys |-> 0]
        /\ bound = [k \in Keys |-> None]

Advance(k) == /\ stage[k] \in {0, 2, 3, 4}
              /\ stage' = [stage EXCEPT ![k] = @ + 1]
              /\ UNCHANGED bound

\* The step to ORG_CREATED creates the organisation.
Bind(k, s) == /\ stage[k] = 1
              /\ \A j \in Keys : bound[j] # s
              /\ stage' = [stage EXCEPT ![k] = 2]
              /\ bound' = [bound EXCEPT ![k] = s]

Next == \E k \in Keys : Advance(k) \/ \E s \in Slugs : Bind(k, s)

Spec == Init /\ [][Next]_svars
=============================================================================
