----------------------------- MODULE MCSessions -----------------------------
(* The instance of Sessions for TLC: one tab, a request and the logout, two calls. *)
EXTENDS SessionsProps
=============================================================================
