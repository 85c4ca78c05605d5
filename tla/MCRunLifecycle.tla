--------------------------- MODULE MCRunLifecycle ---------------------------
(* Model-checking instance of RunLifecycle. *)
EXTENDS RunLifecycle
=============================================================================
