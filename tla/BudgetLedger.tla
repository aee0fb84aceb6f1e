------------------------------ MODULE BudgetLedger -----------------------------
(***************************************************************************)
(* control_plane/budget.py, InMemoryBudgetController: executions bind to   *)
(* budget scopes once, reserve an estimate in all of them together, and    *)
(* reconcile the reservation with what was actually used.  One lock makes  *)
(* each method a transaction; executions interleave between the methods.   *)
(*                                                                         *)
(* Abstracted: input and output tokens are one token count (the limit is   *)
(* on their total), revisions and the released difference of a receipt,    *)
(* which no code reads back.                                               *)
(***************************************************************************)
EXTENDS Integers, FiniteSetsExt

CONSTANTS
  Executions, Scopes, Ids, NoExecution,
  DrawsFail,        \* the identifier source given may draw a blank or a repeated one;
                    \* the default, uuid4, does not
  Limits,           \* cost and token limit of each scope
  Estimates,        \* usages callers reserve
  Actuals           \* usages callers report; one that learns none reports its estimate

Dimensions == {"cost", "tokens"}
Usage == [Dimensions -> Nat]
Zero == [d \in Dimensions |-> 0]

ASSUME BudgetAssumption ==
  /\ Limits \in [Scopes -> Usage]
  /\ Estimates \cup Actuals \subseteq Usage
  /\ NoExecution \notin Executions /\ DrawsFail \in BOOLEAN

VARIABLES
  bindings,      \* _bindings: scopes of each execution, {} before bind
  reserved,      \* _balances[scope].reserved
  actual,        \* _balances[scope].actual
  reservations,  \* _reservations by identifier, state "none" before
  stranded       \* ghost: what was debited for reservations that were never made

budgetVars == <<bindings, reserved, actual, reservations, stranded>>

NoReservation == [state |-> "none", execution |-> NoExecution, scopes |-> {},
                  estimate |-> Zero, used |-> Zero]

Plus(u, v)  == [d \in Dimensions |-> u[d] + v[d]]
Minus(u, v) == [d \in Dimensions |-> u[d] - v[d]]

BudgetInit ==
  /\ bindings = [e \in Executions |-> {}]
  /\ reserved = [s \in Scopes |-> Zero]
  /\ actual = [s \in Scopes |-> Zero]
  /\ reservations = [i \in Ids |-> NoReservation]
  /\ stranded = [s \in Scopes |-> Zero]

\* bind: the first binding of an execution is its only one.
Bind(e, ss) ==
  /\ bindings[e] = {}
  /\ ss # {}
  /\ bindings' = [bindings EXCEPT ![e] = ss]
  /\ UNCHANGED <<reserved, actual, reservations, stranded>>

Available(s) == Minus(Limits[s], Plus(reserved[s], actual[s]))

\* Mutant of Exhausted: a reservation is refused only when no scope can take it.
ExhaustedEverywhere(ss, u) ==
  \A s \in ss : \E d \in Dimensions : u[d] > Available(s)[d]

\* _exhaustion: some scope cannot take the estimate in some dimension.
Exhausted(ss, u) == \E s \in ss, d \in Dimensions : u[d] > Available(s)[d]

\* Mutant of Debited: only one scope of the set.
DebitedOne(balance, ss, u) ==
  LET one == CHOOSE s \in ss : TRUE
  IN [balance EXCEPT ![one] = Plus(balance[one], u)]

\* Every scope of the set with u added.
Debited(balance, ss, u) ==
  [s \in Scopes |-> IF s \in ss THEN Plus(balance[s], u) ELSE balance[s]]

\* reserve up to the draw of an identifier: all bound scopes are debited.
Debit(e, u) ==
  /\ bindings[e] # {}
  /\ ~ Exhausted(bindings[e], u)
  /\ reserved' = Debited(reserved, bindings[e], u)

\* reserve: an identifier is drawn that no reservation has.
Reserve(e, u, i) ==
  /\ Debit(e, u)
  /\ reservations[i].state = "none"
  /\ reservations' = [reservations EXCEPT ![i] =
       [state |-> "active", execution |-> e, scopes |-> bindings[e],
        estimate |-> u, used |-> Zero]]
  /\ UNCHANGED <<bindings, actual, stranded>>

\* reserve raises for the identifier drawn, the debit made.
DrawFails(e, u) ==
  /\ DrawsFail
  /\ Debit(e, u)
  /\ stranded' = [s \in Scopes |->
       IF s \in bindings[e] THEN Plus(stranded[s], u) ELSE stranded[s]]
  /\ UNCHANGED <<bindings, actual, reservations>>

\* reconcile: in every scope of the reservation the estimate is replaced by the
\* actual usage, which may exceed it.  Again with the same usage changes nothing.
Reconcile(i, u) ==
  LET r == reservations[i]
  IN /\ r.state = "active"
     /\ reserved' = [s \in Scopes |->
          IF s \in r.scopes THEN Minus(reserved[s], r.estimate) ELSE reserved[s]]
     /\ actual' = Debited(actual, r.scopes, u)
     /\ reservations' = [reservations EXCEPT ![i] =
          [r EXCEPT !.state = "reconciled", !.used = u]]
     /\ UNCHANGED <<bindings, stranded>>

BudgetNext ==
  \/ \E e \in Executions, ss \in SUBSET Scopes : Bind(e, ss)
  \/ \E e \in Executions, u \in Estimates, i \in Ids : Reserve(e, u, i)
  \/ \E e \in Executions, u \in Estimates : DrawFails(e, u)
  \/ \E i \in Ids, u \in Actuals \cup Estimates : Reconcile(i, u)

BudgetSpec == BudgetInit /\ [][BudgetNext]_budgetVars

--------------------------------------------------------------------------------
(* Properties *)

\* The reservations of a scope in a given state.
Of(s, st) == {i \in Ids : reservations[i].state = st /\ s \in reservations[i].scopes}

Total(amounts, ids) == MapThenSumSet(LAMBDA i : amounts[i], ids)

Estimated(d) == [i \in Ids |-> reservations[i].estimate[d]]
Used(d)      == [i \in Ids |-> reservations[i].used[d]]

\* The books balance: what a scope holds reserved is the estimates of its open
\* reservations and what failed draws left behind, what it holds spent is the usage of
\* its reconciled ones.  A partial debit or a second reconciliation would leave a
\* difference nobody can release (architecture.md 290).
LedgerBalanced ==
  \A s \in Scopes, d \in Dimensions :
    /\ reserved[s][d] = Total(Estimated(d), Of(s, "active")) + stranded[s][d]
    /\ actual[s][d] = Total(Used(d), Of(s, "reconciled"))

\* What the reconciled reservations of a scope used beyond their estimates.
Excess(d) == [i \in Ids |-> LET r == reservations[i] IN
                IF r.used[d] > r.estimate[d] THEN r.used[d] - r.estimate[d] ELSE 0]

Overrun(s, d) == Total(Excess(d), Of(s, "reconciled"))

\* A scope exceeds its limit only by what providers used beyond the estimates:
\* concurrent reservations alone, failed ones among them, never oversubscribe it.
OnlyOverrunExceedsLimit ==
  \A s \in Scopes, d \in Dimensions :
    reserved[s][d] + actual[s][d] <= Limits[s][d] + Overrun(s, d)

================================================================================
