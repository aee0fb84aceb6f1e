----------------------------- MODULE BulkDelivery ------------------------------
(***************************************************************************)
(* From submission to claim: BulkCoordinator.submit, relay_pending and     *)
(* claim_delivery (bulk/coordinator.py) over the durable store and the     *)
(* at-least-once broker (bulk/memory.py, InMemoryNotificationBroker), with *)
(* consumers that run the claimed work to its terminal record              *)
(* (BulkWorkExecutor.execute_claim; its stages are in BulkWorker).         *)
(*                                                                         *)
(* The relay and the consumers may crash between any two of their calls.   *)
(* Who calls redeliver_unacknowledged, and when, is outside the code: it   *)
(* may happen at any moment, but the times it takes back what a live       *)
(* consumer still handles are bounded (a broker with a visibility timeout; *)
(* without the bound the front of the queue can starve its rest).          *)
(*                                                                         *)
(* Abstracted: payloads; notification contents beyond the key (they are    *)
(* copied from the item, so claim_delivery's comparison always succeeds).  *)
(***************************************************************************)
EXTENDS Integers, SequencesExt

CONSTANTS
  Consumers,         \* their names are the lease owners
  Keys, Refs, NoOwner, NoRef,
  Lease, MaxClock, MaxAttempts,
  DeliveryIds,       \* bound: delivery identifiers in use at once
  RelayCrashes,      \* bound: crashes of the relay
  ConsumerCrashes,   \* bound: crashes of consumers
  EarlyRedeliveries  \* bound: redeliveries of what a live consumer still handles

VARIABLES
  items, checkpoints, terminal, outbox, clock,   \* the store, see DurableWork
  relay,      \* relay_pending: events of its snapshot and the one just published
  queued,     \* _queued: notifications, by key, in order
  inflight,   \* _inflight: deliveries in the order they were handed out
  consumer,   \* what each consumer is doing
  faults      \* so far: crashes of the relay and of consumers, early redeliveries

Store == INSTANCE DurableWork WITH
  ItemIds <- Keys, Payloads <- Keys, Events <- Keys, Owners <- Consumers,
  Outcomes <- {"succeeded"}, NoId <- NoRef, NoPayload <- NoRef

ASSUME DeliveryAssumption ==
  {RelayCrashes, ConsumerCrashes, EarlyRedeliveries, Lease, MaxClock, MaxAttempts}
    \subseteq Nat

storeVars  == <<items, checkpoints, terminal, outbox, clock>>
brokerVars == <<queued, inflight>>
vars == <<storeVars, relay, brokerVars, consumer, faults>>

NoDelivery == 0

IdleRelay    == [todo |-> {}, sent |-> NoRef]
IdleConsumer == [pc |-> "idle", key |-> NoRef, id |-> NoDelivery, now |-> 0]

Init ==
  /\ Store!Init
  /\ relay = IdleRelay
  /\ queued = <<>>
  /\ inflight = <<>>
  /\ consumer = [c \in Consumers |-> IdleConsumer]
  /\ faults = [relay |-> 0, consumer |-> 0, early |-> 0]

--------------------------------------------------------------------------------
(* Submission and relay *)

\* submit: the payload is stored first, then item and event appear together.
Submit(k) ==
  /\ Store!CreateWithOutbox(k, k, k, k)
  /\ UNCHANGED <<relay, brokerVars, consumer, faults>>

PendingEvents == {r.event : r \in {q \in outbox : q.status = "pending"}}

\* relay_pending starts from a snapshot of the pending events.
StartRelay ==
  /\ relay = IdleRelay
  /\ PendingEvents # {}
  /\ relay' = [todo |-> PendingEvents, sent |-> NoRef]
  /\ UNCHANGED <<storeVars, brokerVars, consumer, faults>>

\* publish, then mark_published: two calls, in the snapshot's order.
PublishNext(e) ==
  /\ e \in relay.todo /\ relay.sent = NoRef
  /\ queued' = Append(queued, e)
  /\ relay' = [relay EXCEPT !.sent = e]
  /\ UNCHANGED <<storeVars, inflight, consumer, faults>>

MarkSent ==
  /\ relay.sent # NoRef
  /\ \/ Store!MarkPublished(relay.sent)
     \/ relay.sent \notin PendingEvents /\ UNCHANGED storeVars
  /\ relay' = [todo |-> relay.todo \ {relay.sent}, sent |-> NoRef]
  /\ UNCHANGED <<brokerVars, consumer, faults>>

RelayCrash ==
  /\ relay # IdleRelay
  /\ faults.relay < RelayCrashes
  /\ faults' = [faults EXCEPT !.relay = faults.relay + 1]
  /\ relay' = IdleRelay
  /\ UNCHANGED <<storeVars, brokerVars, consumer>>

--------------------------------------------------------------------------------
(* Broker and consumers *)

InflightIds == {inflight[i].id : i \in 1 .. Len(inflight)}

\* receive hands out the first notification under an identifier not in use.
Receive(c) ==
  /\ consumer[c].pc = "idle"
  /\ queued # <<>>
  /\ LET used == InflightIds \cup {consumer[d].id : d \in Consumers}
         free == DeliveryIds \ used
         id   == CHOOSE n \in free : TRUE
     IN /\ free # {}
        /\ inflight' = Append(inflight, [id |-> id, key |-> Head(queued)])
        /\ consumer' = [consumer EXCEPT ![c] =
             [pc |-> "claim", key |-> Head(queued), id |-> id, now |-> clock]]
  /\ queued' = Tail(queued)
  /\ UNCHANGED <<storeVars, relay, faults>>

\* What redelivery takes back: at most EarlyRedeliveries times a notification that
\* a live consumer still handles.
TakesBack ==
  /\ inflight # <<>>
  /\ LET held == \E c \in Consumers : consumer[c].id \in InflightIds
     IN /\ held => faults.early < EarlyRedeliveries
        /\ faults' = [faults EXCEPT !.early = faults.early + IF held THEN 1 ELSE 0]
  /\ inflight' = <<>>

\* Mutant of Redeliver: cleared before the notifications are taken.
RedeliverCleared ==
  /\ TakesBack
  /\ UNCHANGED <<storeVars, relay, queued, consumer>>

\* redeliver_unacknowledged: back to the front, in the order handed out.
Redeliver ==
  /\ TakesBack
  /\ queued' = [i \in 1 .. Len(inflight) |-> inflight[i].key] \o queued
  /\ UNCHANGED <<storeVars, relay, consumer>>

\* claim_delivery: the claim, acquired or not.
ClaimDelivery(c) ==
  LET k == consumer[c].key
      t == consumer[c].now
  IN /\ consumer[c].pc = "claim"
     /\ \/ Store!Claim(k, c, t) /\ consumer' = [consumer EXCEPT ![c].pc = "acquired"]
        \/ /\ ~ Store!Claimable(k, t)
           /\ consumer' = [consumer EXCEPT ![c].pc = "duplicate"]
           /\ UNCHANGED storeVars
     /\ UNCHANGED <<relay, brokerVars, faults>>

\* Mutant of Acknowledge: an identifier no longer in flight removes the oldest.
AcknowledgeOldest(c) ==
  /\ consumer[c].pc \in {"acquired", "duplicate"}
  /\ inflight' = IF inflight = <<>> THEN inflight ELSE Tail(inflight)
  /\ consumer' = [consumer EXCEPT ![c] =
       IF consumer[c].pc = "acquired"
       THEN [consumer[c] EXCEPT !.pc = "execute", !.id = NoDelivery, !.now = clock]
       ELSE IdleConsumer]
  /\ UNCHANGED <<storeVars, relay, queued, faults>>

\* claim_delivery then acknowledges, whether or not the claim was acquired.  A
\* delivery given back to the queue meanwhile is not found, which is no error.
Acknowledge(c) ==
  /\ consumer[c].pc \in {"acquired", "duplicate"}
  /\ \/ \E i \in 1 .. Len(inflight) :
          inflight[i].id = consumer[c].id /\ inflight' = RemoveAt(inflight, i)
     \/ consumer[c].id \notin InflightIds /\ UNCHANGED inflight
  /\ consumer' = [consumer EXCEPT ![c] =
       IF consumer[c].pc = "acquired"
       THEN [consumer[c] EXCEPT !.pc = "execute", !.id = NoDelivery, !.now = clock]
       ELSE IdleConsumer]
  /\ UNCHANGED <<storeVars, relay, queued, faults>>

\* execute_claim with the time read at its start; a lost lease raises.
Execute(c) ==
  LET k == consumer[c].key
  IN /\ consumer[c].pc = "execute"
     /\ \/ \E ref \in Refs : Store!Terminalize(k, c, "succeeded", ref, consumer[c].now)
        \/ /\ ~ Store!Owned(k, c, consumer[c].now)
           /\ UNCHANGED storeVars
     /\ consumer' = [consumer EXCEPT ![c] = IdleConsumer]
     /\ UNCHANGED <<relay, brokerVars, faults>>

ConsumerCrash(c) ==
  /\ consumer[c].pc # "idle"
  /\ faults.consumer < ConsumerCrashes
  /\ faults' = [faults EXCEPT !.consumer = faults.consumer + 1]
  /\ consumer' = [consumer EXCEPT ![c] = IdleConsumer]
  /\ UNCHANGED <<storeVars, relay, brokerVars>>

Tick == Store!Tick /\ UNCHANGED <<relay, brokerVars, consumer, faults>>

RelayStep == StartRelay \/ MarkSent \/ \E e \in Keys : PublishNext(e)

ConsumerStep(c) ==
  Receive(c) \/ ClaimDelivery(c) \/ Acknowledge(c) \/ Execute(c)

Next ==
  \/ \E k \in Keys : Submit(k)
  \/ RelayStep \/ RelayCrash
  \/ \E c \in Consumers : ConsumerStep(c) \/ ConsumerCrash(c)
  \/ Redeliver
  \/ Tick

Spec == Init /\ [][Next]_vars

\* The relay is run again while events are pending, a live consumer keeps
\* receiving, the broker redelivers what stays unacknowledged, and time passes.
FairSpec ==
  /\ Spec
  /\ WF_vars(RelayStep) /\ WF_vars(Redeliver) /\ WF_vars(Tick)
  /\ \A c \in Consumers : WF_vars(ConsumerStep(c))

--------------------------------------------------------------------------------
(* Properties *)

\* Until an item is first claimed its notification exists somewhere: as a pending
\* outbox event, in the queue or in flight.  No crash of relay or consumer, no
\* redelivery and no acknowledgement of another delivery loses it.
NotificationKept ==
  \A k \in Keys :
    Store!Created(k) /\ items[k].attempt = 0 =>
      \/ k \in PendingEvents
      \/ \E i \in 1 .. Len(queued) : queued[i] = k
      \/ \E i \in 1 .. Len(inflight) : inflight[i].key = k

\* Every submitted item is eventually claimed, though the relay and consumers may
\* crash (architecture.md 310, "Relay retries; duplicate notification is expected
\* and deduplicated by claim/key").
SubmittedIsClaimed == \A k \in Keys : Store!Created(k) ~> items[k].attempt > 0

================================================================================
