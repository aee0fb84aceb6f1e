----------------------------- MODULE WorkLifecycle -----------------------------
(***************************************************************************)
(* What the durable repository promises the bulk pipeline about one work   *)
(* item, with leases, attempts, artifacts and the outbox abstracted away:  *)
(* progress only moves forward through the checkpoint stages, an item ends *)
(* at most once, and an item ends either by reaching the last stage or by  *)
(* a recorded outcome, never by both.  DurableWork refines it.             *)
(***************************************************************************)
EXTENDS Naturals

CONSTANTS
  Keys,        \* idempotency keys of the submitted items
  Outcomes,    \* terminal work item states
  NoOutcome,   \* "no terminal record yet"
  LastStage    \* order of the checkpoint stage that completes an item

VARIABLES
  progress,    \* highest completed checkpoint stage of an item, 0 for none
  outcome      \* terminal outcome of an item

vars == <<progress, outcome>>

Open(k) == outcome[k] = NoOutcome /\ progress[k] # LastStage

Init ==
  /\ progress = [k \in Keys |-> 0]
  /\ outcome = [k \in Keys |-> NoOutcome]

\* A checkpoint: an open item moves to some later stage.
Advance(k) ==
  /\ Open(k)
  /\ \E s \in 1 .. LastStage :
       /\ s > progress[k]
       /\ progress' = [progress EXCEPT ![k] = s]
  /\ UNCHANGED outcome

\* A terminal record: an open item gets the one outcome it will ever have.
Finish(k) ==
  /\ Open(k)
  /\ \E o \in Outcomes : outcome' = [outcome EXCEPT ![k] = o]
  /\ UNCHANGED progress

Next == \E k \in Keys : Advance(k) \/ Finish(k)

Spec == Init /\ [][Next]_vars
================================================================================
