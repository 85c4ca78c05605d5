--------------------------- MODULE MCJobExecution ---------------------------
(* Model-checking instance of JobExecution. *)
EXTENDS JobExecution
=============================================================================
