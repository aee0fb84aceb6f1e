------------------------------ MODULE MCModelQueue -----------------------------
(* Instances of ModelQueue for TLC. *)
EXTENDS ModelQueue

CONSTANTS a1, a2, b1   \* operation identifiers, two of tenant a, one of tenant b

MCIds == {a1, a2, b1}

MCOperations ==
  {[id |-> a1, path |-> "interactive", scope |-> "r1", tenant |-> "a", tokens |-> 1],
   [id |-> a2, path |-> "bulk",        scope |-> "j1", tenant |-> "a", tokens |-> 2],
   [id |-> b1, path |-> "interactive", scope |-> "r2", tenant |-> "b", tokens |-> 1]}

Cheap    == [provider |-> "p", model |-> "cheap"]
Fallback == [provider |-> "p", model |-> "fallback"]

MCRanked == <<Cheap, Fallback>>

MCEligibility == {{}, {Cheap, Fallback}}

MCLimits == <<"system", "system">> :> [concurrency |-> 2, requests |-> 2, tokens |-> 3]
         @@ <<"tenant", "a">>      :> [concurrency |-> 1, requests |-> Unlimited, tokens |-> 2]
         @@ <<"model", "cheap">>   :> [concurrency |-> 1, requests |-> 1, tokens |-> Unlimited]

MCScopes == DOMAIN MCLimits

MCOrders == {"fifo", "interactive_first", "tenant_round_robin"}
================================================================================
