---------------------------- MODULE MCOnboarding ----------------------------
(***************************************************************************)
(* Small instances of Onboarding.                                          *)
(***************************************************************************)
EXTENDS OnboardingProps, TLC

CONSTANTS r1, r2, k1, k2, k3, s1, s2, e1, e2

Form(k, s, e) == [key |-> k, slug |-> s, email |-> e]

\* Three signups: the second wants the name of the first, the third its email.
MCRivals == {Form(k1, s1, e1), Form(k2, s1, e2), Form(k3, s2, e1)}

\* One form, submitted again and again.
MCOne == {Form(k1, s1, e1)}
=============================================================================
