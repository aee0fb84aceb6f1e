---------------------------- MODULE MCBudgetLedger -----------------------------
(* Limits and usages of BudgetLedger for model checking. *)
EXTENDS BudgetLedger

U(c, t) == [d \in Dimensions |-> IF d = "cost" THEN c ELSE t]

\* Scopes with different limits, tight in different dimensions.
SmallLimits == [s \in Scopes |-> IF s = "tenant" THEN U(2, 4) ELSE U(3, 2)]

SmallEstimates == {U(1, 1), U(2, 0)}

\* Usage below, at and above the estimates.
SmallActuals == {U(0, 1), U(1, 2), U(2, 0)}
================================================================================
