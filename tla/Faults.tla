-------------------------------- MODULE Faults --------------------------------
(***************************************************************************)
(* What may go wrong, what people do and the runs beyond the repeated ones   *)
(* are bounded together, for the programs of the repository.                 *)
(***************************************************************************)
EXTENDS Naturals

CONSTANT Budget
ASSUME BudgetAssumption == Budget \in Nat

VARIABLE spent   \* how much of the budget is spent

Spend == spent < Budget /\ spent' = spent + 1
Free == UNCHANGED spent

=============================================================================
