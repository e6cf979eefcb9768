------------------------------ MODULE MCSignIn ------------------------------
(***************************************************************************)
(* Nothing to bound: every request, every configuration.                   *)
(***************************************************************************)
EXTENDS SignIn
=============================================================================
