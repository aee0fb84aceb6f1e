----------------------------- MODULE MCInteractive -----------------------------
(* Instances of Interactive for TLC. *)
EXTENDS Interactive, TLC

CONSTANTS r1, r2, m1, m2, p1

\* coordinator.py names an operation after its index and task type, or after its
\* task and the index of its pack: requests of one kind share names.
MCModelNames == r1 :> {m1, m2} @@ r2 :> {m1}
MCPackNames  == r1 :> {p1} @@ r2 :> {p1}

\* None, the second or both of the requests carry a task.
MCTasked == {{}, {r2}, {r1, r2}}

SystemLimit(concurrency) ==
  <<"system", "system">> :> [concurrency |-> concurrency, requests |-> Unlimited,
                             tokens |-> Unlimited]

\* As many concurrent calls as there are names, so that a name is refused first.
MCCapacityLimits == SystemLimit(2)

\* As _build_coordinator configures it: room for several calls.
RoomyLimits == SystemLimit(4)

MCCapacityScopes == {<<"system", "system">>}

OneEach == [cost |-> 1, tokens |-> 1]
TwoEach == [cost |-> 2, tokens |-> 2]

MCBudgetScopes == {"job"}
MCBudgetLimits == "job" :> TwoEach
MCEstimates == {OneEach}
MCActuals == {TwoEach}

\* A reservation is known by the call it was made for.
MCIds == ModelCalls
================================================================================
