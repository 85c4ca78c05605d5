-------------------------- MODULE TurnLedgerProofs --------------------------
(* What the ledger of turns guarantees, for every budget.                  *)
EXTENDS TurnLedger, TLAPS

\* The strengthening: in Lose and Refund the open turn must still be covered
\* once it no longer counts as open.
LedgerInv == LedgerTypeOK /\ Covered

\* Spending, completing, refunding and losing a turn keep the ledger covered.
LEMMA LedgerStep ==
    ASSUME Budget \in Nat, LedgerInv, [LedgerNext]_ledger
    PROVE  LedgerInv'
<1> USE DEF LedgerInv, LedgerTypeOK, Covered
<1>1. CASE Spend
  BY <1>1 DEF Spend
<1>2. CASE Complete
  <2>1. ~open' /\ open' \in BOOLEAN
    BY <1>2, Zenon DEF Complete
  <2>2. spent' \in 0..Budget /\ completed' \in Nat /\ completed' <= spent'
    BY <1>2 DEF Complete
  <2> QED
    BY <2>1, <2>2, Zenon
<1>3. CASE Refund
  <2>1. ~open' /\ open' \in BOOLEAN
    BY <1>3, Zenon DEF Refund
  <2>2. spent' \in 0..Budget /\ completed' \in Nat /\ completed' <= spent'
    BY <1>3 DEF Refund
  <2> QED
    BY <2>1, <2>2, Zenon
<1>4. CASE Lose
  BY <1>4 DEF Lose
<1>5. CASE UNCHANGED ledger
  BY <1>5 DEF ledger
<1> QED
  BY <1>1, <1>2, <1>3, <1>4, <1>5 DEF LedgerNext

\* Whatever is refunded or lost, at most the budget is spent, and every
\* completed turn and the one in progress are paid for; _run_agent_turn
\* implements this ledger (AgentTurn.BudgetIsALedger).
THEOREM LedgerIsSound ==
    ASSUME Budget \in Nat
    PROVE  LedgerSpec => [](LedgerTypeOK /\ Covered)
<1>1. LedgerInit => LedgerInv
  <2> SUFFICES ASSUME LedgerInit PROVE LedgerInv
    OBVIOUS
  <2>1. ~open /\ open \in BOOLEAN
    BY Zenon DEF LedgerInit
  <2>2. spent \in 0..Budget /\ completed \in Nat /\ completed <= spent
    BY DEF LedgerInit
  <2> QED
    BY <2>1, <2>2, Zenon DEF LedgerInv, LedgerTypeOK, Covered
<1>2. LedgerInv /\ [LedgerNext]_ledger => LedgerInv'
  BY LedgerStep
<1>3. LedgerInv => LedgerTypeOK /\ Covered
  BY DEF LedgerInv
<1> QED
  BY <1>1, <1>2, <1>3, PTL DEF LedgerSpec
=============================================================================
