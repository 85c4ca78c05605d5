---------------------------- MODULE MCRunStore ----------------------------
(* Model-checking instance of RunStore. *)
EXTENDS RunStore, TLC

\* Thread ids are interchangeable, and so are run ids.
Symmetry == Permutations(Threads) \cup Permutations(Runs)
=============================================================================
