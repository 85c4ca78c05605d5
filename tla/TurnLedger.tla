----------------------------- MODULE TurnLedger -----------------------------
(***************************************************************************)
(* What a run's turn budget promises, whatever goes wrong inside a turn:   *)
(* at most Budget turns are ever spent, a spent turn is completed, lost or *)
(* refunded, and only the turn in progress can be refunded.                *)
(***************************************************************************)
EXTENDS Integers

CONSTANT Budget   \* run.maximum_turns

VARIABLES
    spent,      \* turns charged to the run
    completed,  \* turns whose result was saved
    open        \* a charged turn is in progress

ledger == <<spent, completed, open>>

\* Type invariant: never more than the budget is spent.
LedgerTypeOK ==
    /\ spent \in 0..Budget
    /\ completed \in Nat
    /\ open \in BOOLEAN

LedgerInit == spent = 0 /\ completed = 0 /\ open = FALSE

Spend ==
    /\ ~open /\ spent < Budget
    /\ spent' = spent + 1
    /\ open' = TRUE
    /\ UNCHANGED completed

Complete ==
    /\ open
    /\ completed' = completed + 1
    /\ open' = FALSE
    /\ UNCHANGED spent

Refund ==
    /\ open
    /\ spent' = spent - 1
    /\ open' = FALSE
    /\ UNCHANGED completed

Lose ==
    /\ open
    /\ open' = FALSE
    /\ UNCHANGED <<spent, completed>>

LedgerNext == Spend \/ Complete \/ Refund \/ Lose

LedgerSpec == LedgerInit /\ [][LedgerNext]_ledger

\* Every completed turn was paid for, and the one in progress besides.
Covered == completed <= spent /\ (open => completed < spent)
=============================================================================
