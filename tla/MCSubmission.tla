---------------------------- MODULE MCSubmission ----------------------------
(* Model-checking instance of Submission. *)
EXTENDS Submission, TLC

\* Handlers are interchangeable, and so are keys.
Symmetry == Permutations(Handlers) \cup Permutations(Keys)
=============================================================================
