----------------------------- MODULE ModelCapacity -----------------------------
(***************************************************************************)
(* model_routing/capacity.py, HierarchicalCapacity: concurrency, requests  *)
(* and tokens per window, admitted in every configured scope of an         *)
(* operation or in none.  One lock makes each method a transaction.        *)
(*                                                                         *)
(* A timestamp is the age of an event: callers read the clock and acquire  *)
(* without an await in between, so events are recorded in time order, and  *)
(* only whether an event is older than the window matters.  The ghost      *)
(* variable "window" is the true rolling window, kept by the clock.        *)
(***************************************************************************)
EXTENDS Integers, Sequences, FiniteSets, Functions

CONSTANTS
  OperationIds,   \* operation identifiers, the keys of leases
  Scopes,         \* configured scopes, <<kind, identifier>>
  Limits,         \* concurrency, requests and tokens per window of each scope
  Unlimited,      \* a limit that is None
  Window          \* _WINDOW_SECONDS, in ticks

Bound == Nat \cup {Unlimited}

\* What the users of this module assume of its constants.
CapacityConstants ==
  /\ Limits \in [Scopes -> [concurrency: Bound, requests: Bound, tokens: Bound]]
  /\ Unlimited \notin Nat
  /\ Window \in Nat \ {0}

VARIABLES
  active,   \* _active
  events,   \* _events: admissions not yet pruned, oldest first
  leases,   \* _leases: scopes by operation identifier
  window    \* ghost: every admission younger than the window, in each scope

vars == <<active, events, leases, window>>

\* scopes_for, restricted to the configured scopes.
ScopesFor(op, candidate) ==
  {<<"system", "system">>,
   <<IF op.path = "interactive" THEN "request" ELSE "job", op.scope>>,
   <<"tenant", op.tenant>>,
   <<"provider", candidate.provider>>,
   <<"model", candidate.model>>} \cap Scopes

Init ==
  /\ active = [s \in Scopes |-> 0]
  /\ events = [s \in Scopes |-> <<>>]
  /\ leases = <<>>
  /\ window = [s \in Scopes |-> <<>>]

\* What is left of some events when those as old as the horizon leave from the left.
Younger(es, horizon) ==
  LET old == {i \in DOMAIN es : \A j \in 1 .. i : es[j].age >= horizon}
  IN SubSeq(es, Cardinality(old) + 1, Len(es))

\* Mutant of Pruned: an event leaves one tick before the window does.
PrunedEarly(s) == Younger(events[s], Window - 1)

\* _prune: events as old as the window leave.
Pruned(s) == Younger(events[s], Window)

SumOfTokens(es) ==
  LET sum[n \in 0 .. Len(es)] == IF n = 0 THEN 0 ELSE sum[n - 1] + es[n].tokens
  IN sum[Len(es)]

Within(n, limit) == limit = Unlimited \/ n <= limit

\* _fits, for one scope.
FitsScope(s, tokens) ==
  /\ Within(active[s] + 1, Limits[s].concurrency)
  /\ Within(Len(Pruned(s)) + 1, Limits[s].requests)
  /\ Within(SumOfTokens(Pruned(s)) + tokens, Limits[s].tokens)

Fits(op, candidate) ==
  \A s \in ScopesFor(op, candidate) : FitsScope(s, op.tokens)

\* The candidates acquire_first looks at: up to the first that fits.
Tried(op, ordered) ==
  {i \in 1 .. Len(ordered) : \A j \in 1 .. i - 1 : ~ Fits(op, ordered[j])}

Fitting(op, ordered) == {i \in Tried(op, ordered) : Fits(op, ordered[i])}

\* acquire_first succeeds: no lease under this identifier, and some candidate fits.
Admissible(op, ordered) ==
  /\ op.id \notin DOMAIN leases
  /\ Fitting(op, ordered) # {}

Granted(op, ordered) ==
  UNION {ScopesFor(op, ordered[i]) : i \in Fitting(op, ordered)}

\* The scopes a call prunes, whether or not it succeeds.
Touched(op, ordered) ==
  IF op.id \in DOMAIN leases THEN {}
  ELSE UNION {ScopesFor(op, ordered[i]) : i \in Tried(op, ordered)}

\* Events after pruning some scopes and recording an admission in others.
Recorded(touched, granted, tokens) ==
  [s \in Scopes |->
     LET kept == IF s \in touched THEN Pruned(s) ELSE events[s]
     IN IF s \in granted THEN Append(kept, [age |-> 0, tokens |-> tokens]) ELSE kept]

Counted(granted, tokens) ==
  [s \in Scopes |-> IF s \in granted THEN Append(window[s], [age |-> 0, tokens |-> tokens])
                    ELSE window[s]]

\* acquire_first: one more operation in every scope of the granted candidate.
\* "touched" adds what calls before it in the same step have pruned.
Acquire(op, ordered, touched) ==
  /\ Admissible(op, ordered)
  /\ LET granted == Granted(op, ordered)
     IN /\ active' = [s \in Scopes |-> IF s \in granted THEN active[s] + 1 ELSE active[s]]
        /\ events' = Recorded(touched \cup Touched(op, ordered), granted, op.tokens)
        /\ leases' = [i \in DOMAIN leases \cup {op.id} |->
                        IF i = op.id THEN granted ELSE leases[i]]
        /\ window' = Counted(granted, op.tokens)

\* acquire_first returns None; what it pruned stays pruned.
Refuse(touched) ==
  /\ events' = Recorded(touched, {}, 0)
  /\ UNCHANGED <<active, leases, window>>

\* acquire_first and at once release, for a caller refused by something else: the
\* admission stays in the rate windows.
AcquireAndRelease(op, ordered) ==
  /\ Admissible(op, ordered)
  /\ LET granted == Granted(op, ordered)
     IN /\ events' = Recorded(Touched(op, ordered), granted, op.tokens)
        /\ window' = Counted(granted, op.tokens)
  /\ UNCHANGED <<active, leases>>

\* Mutant of Release: the lease is dropped, its slots are kept.
ReleaseLeaseOnly(id) ==
  /\ id \in DOMAIN leases
  /\ leases' = Restrict(leases, DOMAIN leases \ {id})
  /\ UNCHANGED <<active, events, window>>

\* release, with the lease the operation holds: concurrency only.
Release(id) ==
  /\ id \in DOMAIN leases
  /\ active' = [s \in Scopes |-> IF s \in leases[id] THEN active[s] - 1 ELSE active[s]]
  /\ leases' = Restrict(leases, DOMAIN leases \ {id})
  /\ UNCHANGED <<events, window>>

Older(e) == [e EXCEPT !.age = IF e.age < Window THEN e.age + 1 ELSE e.age]

Aged(es) == [i \in DOMAIN es |-> Older(es[i])]

\* A tick of the clock.
Age ==
  /\ events' = [s \in Scopes |-> Aged(events[s])]
  /\ window' = [s \in Scopes |-> Younger(Aged(window[s]), Window)]
  /\ UNCHANGED <<active, leases>>

--------------------------------------------------------------------------------
(* Properties *)

Holders(s) == {i \in DOMAIN leases : s \in leases[i]}

\* The active count of a scope is the number of leases over it, and never more
\* than its limit: an operation counts in all of its scopes or in none, through
\* refused candidates, completions and identifiers used again (capacity.py 57).
ActiveIsLeased ==
  \A s \in Scopes :
    /\ active[s] = Cardinality(Holders(s))
    /\ Within(active[s], Limits[s].concurrency)

\* No window of the clock ever holds more requests or tokens than the limits of
\* the scope, though events are pruned only when an admission looks at the scope.
RateWithinWindow ==
  \A s \in Scopes :
    /\ Within(Len(window[s]), Limits[s].requests)
    /\ Within(SumOfTokens(window[s]), Limits[s].tokens)
================================================================================
