----------------------------- MODULE MCBulkWorker ------------------------------
(***************************************************************************)
(* The situations in which BulkWorker is checked.                          *)
(***************************************************************************)
EXTENDS BulkWorker

CONSTANTS w1, w2, k1, k2

OwnName == [w \in Workers |-> w]
OneName == [w \in Workers |-> "worker-resumed"]

\* Two workers and one item, everything in order, write-back like the prototype's.
Steady ==
  [keys |-> {k1}, workers |-> {w1, w2}, name |-> OwnName, writeBack |-> "enabled",
   boundary |-> "shared", uniqueKey |-> FALSE, fitsLease |-> TRUE, horizon |-> 4,
   revocable |-> TRUE, rejectable |-> TRUE, start |-> {0}, crashes |-> 0]

\* A job of two items without write-back.
Disabled ==
  [Steady EXCEPT !.keys = {k1, k2}, !.workers = {w1}, !.writeBack = "disabled",
                 !.start = {3, 4}]

\* The configuration says nothing of write-back.
Unconfigured ==
  [Steady EXCEPT !.workers = {w1}, !.writeBack = "unavailable", !.start = {4}]

\* Workers crash around the effect and leave their leases to expire.
Recovery ==
  [Steady EXCEPT !.start = {4}, !.crashes = 2, !.revocable = FALSE, !.rejectable = FALSE]

\* The same outside a shared transaction.
Verified == [Recovery EXCEPT !.boundary = "non_shared"]

\* Leases expire under running workers; the target keeps keys unique.
Expiry ==
  [Steady EXCEPT !.start = {4}, !.crashes = 1, !.revocable = FALSE, !.rejectable = FALSE,
                 !.boundary = "non_shared", !.uniqueKey = TRUE,
                 !.fitsLease = FALSE, !.horizon = 3]

\* Leases expire under workers that share a name.
SharedName ==
  [Steady EXCEPT !.start = {3}, !.revocable = FALSE, !.rejectable = FALSE, !.name = OneName,
                 !.fitsLease = FALSE, !.horizon = 3]

AllSettings == {Steady, Disabled, Unconfigured, Recovery, Verified, Expiry, SharedName}

OneWorker ==
  [Steady EXCEPT !.workers = {w1}, !.start = {4}, !.revocable = FALSE, !.rejectable = FALSE]

\* A crash after it, and a revoked approval.
RevokedSettings == {[OneWorker EXCEPT !.crashes = 1, !.revocable = TRUE]}

\* Two items with write-back.
MixedSettings == {[OneWorker EXCEPT !.keys = {k1, k2}]}
================================================================================
