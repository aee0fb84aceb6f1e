-------------------------- MODULE BulkDeliveryProofs --------------------------
(***************************************************************************)
(* No notification of unclaimed work is lost, for every set of keys and    *)
(* consumers and any number of crashes and redeliveries.  A notification   *)
(* is taken off its place only after it reached the next one, which needs  *)
(* three facts: what the relay marks as published is in the broker or      *)
(* claimed, what a consumer acknowledges is claimed, and the identifier it *)
(* acknowledges is that of its own key.                                    *)
(***************************************************************************)
EXTENDS BulkDelivery, SequenceTheorems, TLAPS

Delivery == [id: DeliveryIds, key: Keys]
RelayState == [todo: SUBSET Keys, sent: Keys \cup {NoRef}]
ConsumerState ==
  [pc: {"idle", "claim", "acquired", "duplicate", "execute"}, key: Keys \cup {NoRef},
   id: DeliveryIds \cup {NoDelivery}, now: Nat]

TypeInv ==
  /\ relay \in RelayState
  /\ queued \in Seq(Keys)
  /\ inflight \in Seq(Delivery)
  /\ consumer \in [Consumers -> ConsumerState]

Occurs(x, s) == \E i \in 1 .. Len(s) : s[i] = x

Queued(k)   == Occurs(k, queued)
InFlight(k) == \E d \in Delivery : d.key = k /\ Occurs(d, inflight)
Held(k)     == k \in PendingEvents \/ Queued(k) \/ InFlight(k)

\* Work that was never claimed is pending, so that any claim of it succeeds.
NewIsPending ==
  \A k \in Keys : items[k].attempt = 0 <=> items[k].state \in {"absent", "pending"}

StoreInv ==
  /\ items \in [Keys -> Store!WorkItem]
  /\ outbox \subseteq Store!OutboxRecord
  /\ clock \in Nat
  /\ NewIsPending
  /\ \A r \in outbox : Store!Created(r.event)

\* Every key under way belongs to a submitted item.
AllSubmitted ==
  /\ \A k \in Keys : k \in relay.todo \/ Queued(k) \/ InFlight(k) => Store!Created(k)
  /\ \A c \in Consumers : consumer[c].pc # "idle" =>
       consumer[c].key \in Keys /\ Store!Created(consumer[c].key)

\* What the relay is about to mark is in the broker, or claimed already.
SentIsKept ==
  relay.sent # NoRef => \/ Queued(relay.sent) \/ InFlight(relay.sent)
                        \/ items[relay.sent].attempt > 0

\* What a consumer is about to acknowledge is claimed ...
AnsweredIsClaimed ==
  \A c \in Consumers : consumer[c].pc \in {"acquired", "duplicate"} =>
    items[consumer[c].key].attempt > 0

\* ... and its delivery, if it is in flight still, is of the consumer's key.
OwnDelivery ==
  \A c \in Consumers : \A d \in Delivery :
    /\ consumer[c].pc \in {"claim", "acquired", "duplicate"}
    /\ Occurs(d, inflight) /\ d.id = consumer[c].id
    => d.key = consumer[c].key

\* The promise itself, in these words.
Notified == \A k \in Keys : Store!Created(k) /\ items[k].attempt = 0 => Held(k)

DeliveryInv ==
  /\ StoreInv
  /\ TypeInv
  /\ AllSubmitted
  /\ SentIsKept
  /\ AnsweredIsClaimed
  /\ OwnDelivery
  /\ Notified

--------------------------------------------------------------------------------
(* Sequences *)

\* Removing a position keeps the elements at all the others and adds none.
LEMMA RemovedAt ==
  ASSUME NEW S, NEW s \in Seq(S), NEW i \in 1 .. Len(s)
  PROVE  /\ RemoveAt(s, i) \in Seq(S)
         /\ \A x : Occurs(x, s) /\ x # s[i] => Occurs(x, RemoveAt(s, i))
         /\ \A x : Occurs(x, RemoveAt(s, i)) => Occurs(x, s)
<1> DEFINE r == RemoveAt(s, i)
<1> DEFINE a == SubSeq(s, 1, i - 1)  b == SubSeq(s, i + 1, Len(s))
<1>1. Len(s) \in Nat /\ \A n \in 1 .. Len(s) : s[n] \in S
  OBVIOUS
<1>2. a \in Seq(S) /\ Len(a) = i - 1 /\ \A n \in 1 .. i - 1 : a[n] = s[n]
  BY <1>1, SubSeqProperties
<1>3. b \in Seq(S) /\ Len(b) = Len(s) - i /\ \A n \in 1 .. Len(s) - i : b[n] = s[i + n]
  <2>1. \A n \in i + 1 .. Len(s) : s[n] \in S
    BY <1>1
  <2>2. /\ b \in Seq(S) /\ Len(b) = IF i + 1 <= Len(s) THEN Len(s) - (i + 1) + 1 ELSE 0
        /\ \A n \in 1 .. Len(s) - (i + 1) + 1 : b[n] = s[(i + 1) + n - 1]
    BY <1>1, <2>1, SubSeqProperties
  <2> QED
    BY <1>1, <2>2
<1>4. r = a \o b
  BY DEF RemoveAt
<1> HIDE DEF r, a, b
<1>5. r \in Seq(S) /\ Len(r) = Len(s) - 1
  BY <1>1, <1>2, <1>3, <1>4, ConcatProperties
<1>6. \A n \in 1 .. Len(r) : r[n] = IF n < i THEN s[n] ELSE s[n + 1]
  <2> SUFFICES ASSUME NEW n \in 1 .. Len(r) PROVE r[n] = IF n < i THEN s[n] ELSE s[n + 1]
    OBVIOUS
  <2>1. r[n] = IF n <= Len(a) THEN a[n] ELSE b[n - Len(a)]
    BY <1>1, <1>5, <1>2, <1>3, <1>4, ConcatProperties
  <2>2. CASE n < i
    BY <1>1, <1>5, <1>2, <2>1, <2>2
  <2>3. CASE n >= i
    <3>1. n - (i - 1) \in 1 .. Len(s) - i
      BY <1>1, <1>5, <2>3
    <3>2. b[n - (i - 1)] = s[i + (n - (i - 1))]
      BY <1>3, <3>1
    <3> QED
      BY <1>1, <1>5, <1>2, <2>1, <2>3, <3>2
  <2> QED
    BY <2>2, <2>3, <1>5, <1>1
<1>7. ASSUME NEW j \in 1 .. Len(s), j # i PROVE \E n \in 1 .. Len(r) : r[n] = s[j]
  <2>1. CASE j < i
    BY <1>5, <1>6, <2>1
  <2>2. CASE j > i
    <3>1. j - 1 \in 1 .. Len(r) /\ r[j - 1] = s[j]
      BY <1>5, <1>6, <2>2
    <3> QED
      BY <3>1
  <2> QED
    BY <1>7, <2>1, <2>2
<1>8. ASSUME NEW n \in 1 .. Len(r) PROVE \E j \in 1 .. Len(s) : r[n] = s[j]
  <2>1. n \in 1 .. Len(s) /\ n + 1 \in 1 .. Len(s)
    BY <1>5
  <2> QED
    BY <1>6, <2>1
<1> QED
  BY <1>5, <1>7, <1>8 DEF r, Occurs

\* What occurs in a concatenation, in an appended sequence, and in a tail.
LEMMA OccursInConcat ==
  ASSUME NEW S, NEW s \in Seq(S), NEW t \in Seq(S), NEW x
  PROVE  Occurs(x, s \o t) <=> Occurs(x, s) \/ Occurs(x, t)
<1>1. Len(s) \in Nat /\ Len(t) \in Nat
  OBVIOUS
<1>2. /\ Len(s \o t) = Len(s) + Len(t)
      /\ \A i \in 1 .. Len(s) + Len(t) :
           (s \o t)[i] = IF i <= Len(s) THEN s[i] ELSE t[i - Len(s)]
  BY ConcatProperties
<1>3. ASSUME NEW i \in 1 .. Len(s) + Len(t), (s \o t)[i] = x
      PROVE  (\E j \in 1 .. Len(s) : s[j] = x) \/ (\E j \in 1 .. Len(t) : t[j] = x)
  <2>1. CASE i <= Len(s)
    BY <1>1, <1>2, <1>3, <2>1
  <2>2. CASE i > Len(s)
    <3>1. i - Len(s) \in 1 .. Len(t) /\ t[i - Len(s)] = x
      BY <1>1, <1>2, <1>3, <2>2
    <3> QED
      BY <3>1
  <2> QED
    BY <1>1, <2>1, <2>2
<1>4. ASSUME NEW j \in 1 .. Len(s), s[j] = x
      PROVE  \E i \in 1 .. Len(s) + Len(t) : (s \o t)[i] = x
  BY <1>1, <1>2, <1>4
<1>5. ASSUME NEW j \in 1 .. Len(t), t[j] = x
      PROVE  \E i \in 1 .. Len(s) + Len(t) : (s \o t)[i] = x
  <2>1. Len(s) + j \in 1 .. Len(s) + Len(t) /\ (s \o t)[Len(s) + j] = x
    BY <1>1, <1>2, <1>5
  <2> QED
    BY <2>1
<1> QED
  BY <1>2, <1>3, <1>4, <1>5 DEF Occurs

LEMMA OccursInAppend ==
  ASSUME NEW S, NEW s \in Seq(S), NEW e \in S, NEW x
  PROVE  Occurs(x, Append(s, e)) <=> x = e \/ Occurs(x, s)
<1>1. /\ Len(s) \in Nat /\ Len(Append(s, e)) = Len(s) + 1
      /\ Append(s, e)[Len(s) + 1] = e
      /\ \A i \in 1 .. Len(s) : Append(s, e)[i] = s[i]
  OBVIOUS
<1>2. \A i : i \in 1 .. Len(s) + 1 <=> i \in 1 .. Len(s) \/ i = Len(s) + 1
  BY <1>1
<1> QED
  BY <1>1, <1>2 DEF Occurs

LEMMA OccursInTail ==
  ASSUME NEW S, NEW s \in Seq(S), s # <<>>, NEW x
  PROVE  Occurs(x, s) <=> x = Head(s) \/ Occurs(x, Tail(s))
<1>1. /\ Len(s) \in Nat \ {0} /\ Head(s) = s[1]
      /\ Len(Tail(s)) = Len(s) - 1
      /\ \A i \in 1 .. Len(s) - 1 : Tail(s)[i] = s[i + 1]
  BY HeadTailProperties
<1>2. ASSUME NEW i \in 1 .. Len(s), i # 1 PROVE i - 1 \in 1 .. Len(s) - 1 /\ Tail(s)[i - 1] = s[i]
  BY <1>1, <1>2
<1>3. ASSUME NEW i \in 1 .. Len(s) - 1 PROVE i + 1 \in 1 .. Len(s) /\ Tail(s)[i] = s[i + 1]
  BY <1>1
<1> QED
  BY <1>1, <1>2, <1>3 DEF Occurs

\* Redelivery puts the keys of what was in flight in front of the queue.
LEMMA Redelivered ==
  ASSUME TypeInv, queued' = [i \in 1 .. Len(inflight) |-> inflight[i].key] \o queued
  PROVE  /\ queued' \in Seq(Keys)
         /\ \A k : Queued(k)' <=> Queued(k) \/ InFlight(k)
<1>1. inflight \in Seq(Delivery) /\ queued \in Seq(Keys)
  BY DEF TypeInv
<1>2. PICK front : front = [i \in 1 .. Len(inflight) |-> inflight[i].key]
  OBVIOUS
<1>3. queued' = front \o queued
  BY <1>2
<1>4. Len(inflight) \in Nat /\ \A i \in 1 .. Len(inflight) : inflight[i] \in Delivery
  BY <1>1, ElementOfSeq
<1>5. \A i \in 1 .. Len(inflight) : inflight[i].key \in Keys
  BY <1>4 DEF Delivery
<1>6. front \in [1 .. Len(inflight) -> Keys]
  BY <1>2, <1>5
<1>7. front \in Seq(Keys)
  BY <1>4, <1>6, SeqDef
<1>8. Len(front) = Len(inflight)
  BY <1>4, <1>6, <1>7
<1>9. \A k : Occurs(k, front) <=> InFlight(k)
  BY <1>2, <1>4, <1>8 DEF InFlight, Occurs
<1>10. \A k : Occurs(k, front \o queued) <=> Occurs(k, front) \/ Occurs(k, queued)
  BY <1>1, <1>7, OccursInConcat
<1>11. front \o queued \in Seq(Keys)
  BY <1>1, <1>7, ConcatProperties
<1> QED
  BY <1>3, <1>9, <1>10, <1>11 DEF Queued

--------------------------------------------------------------------------------
(* What the store's transactions do *)

\* Submitted work stays submitted, and claimed work claimed.
Advances ==
  \A k \in Keys : /\ Store!Created(k) => Store!Created(k)'
                  /\ items[k].attempt > 0 => items'[k].attempt > 0

LEMMA StoreSubmits ==
  ASSUME StoreInv, NEW k \in Keys, Store!CreateWithOutbox(k, k, k, k)
  PROVE  /\ StoreInv' /\ Advances
         /\ PendingEvents' = PendingEvents \cup {k}
         /\ \A j \in Keys : j # k => items'[j] = items[j]
<1>1. /\ items \in [Keys -> Store!WorkItem] /\ outbox \subseteq Store!OutboxRecord
      /\ clock' = clock /\ ~ Store!Created(k)
      /\ items' = [items EXCEPT ![k] =
           [Store!AbsentItem EXCEPT !.itemId = k, !.payload = k, !.state = "pending"]]
      /\ outbox' = outbox \cup {[event |-> k, key |-> k, itemId |-> k,
                                 payload |-> k, status |-> "pending"]}
  BY DEF StoreInv, Store!CreateWithOutbox
<1>2. PICK new : new = [Store!AbsentItem EXCEPT !.itemId = k, !.payload = k, !.state = "pending"]
  OBVIOUS
<1>3. new \in Store!WorkItem /\ new.attempt = 0 /\ new.state = "pending"
  BY <1>2 DEF Store!AbsentItem, Store!WorkItem, Store!WorkStates
<1>4. items' \in [Keys -> Store!WorkItem] /\ items'[k] = new
      /\ \A j \in Keys : j # k => items'[j] = items[j]
  BY <1>1, <1>2, <1>3
<1>5. outbox' \subseteq Store!OutboxRecord
  BY <1>1 DEF Store!OutboxRecord
<1>6. NewIsPending' /\ Advances
  BY <1>1, <1>3, <1>4 DEF StoreInv, Advances, NewIsPending, Store!Created
<1>7. PendingEvents' = PendingEvents \cup {k}
  <2>1. PICK r : r = [event |-> k, key |-> k, itemId |-> k, payload |-> k,
                      status |-> "pending"]
    OBVIOUS
  <2>2. outbox' = outbox \cup {r} /\ r.event = k /\ r.status = "pending"
    BY <1>1, <2>1
  <2>3. \A q \in outbox' : q \in outbox \/ q = r
    BY <2>2
  <2> QED
    BY <2>2, <2>3 DEF PendingEvents
<1>8. \A r \in outbox' : Store!Created(r.event)'
  <2>1. ASSUME NEW r \in outbox PROVE r.event \in Keys /\ Store!Created(r.event)
    BY <1>1 DEF StoreInv, Store!OutboxRecord
  <2>2. Store!Created(k)'
    BY <1>3, <1>4 DEF Store!Created
  <2> QED
    BY <1>1, <1>6, <2>1, <2>2 DEF Advances
<1> QED
  BY <1>1, <1>4, <1>5, <1>6, <1>7, <1>8 DEF StoreInv

LEMMA StoreMarks ==
  ASSUME StoreInv, NEW e \in Keys, Store!MarkPublished(e)
  PROVE  StoreInv' /\ items' = items /\ PendingEvents \ {e} \subseteq PendingEvents'
<1>1. PICK r \in outbox :
        /\ r.event = e
        /\ outbox' = (outbox \ {r}) \cup {[r EXCEPT !.status = "published"]}
  BY DEF Store!MarkPublished
<1>2. items' = items /\ clock' = clock
  BY DEF Store!MarkPublished
<1>3. PICK new : new = [r EXCEPT !.status = "published"]
  OBVIOUS
<1>4. new \in Store!OutboxRecord /\ new.event = e
  BY <1>1, <1>3 DEF StoreInv, Store!OutboxRecord
<1>5. outbox' = (outbox \ {r}) \cup {new}
  BY <1>1, <1>3
<1>6. PendingEvents \ {e} \subseteq PendingEvents'
  BY <1>1, <1>5 DEF PendingEvents
<1>7. NewIsPending' /\ \A q \in outbox' : Store!Created(q.event)'
  BY <1>1, <1>2, <1>4, <1>5 DEF StoreInv, NewIsPending, Store!Created
<1> QED
  BY <1>2, <1>4, <1>5, <1>6, <1>7 DEF StoreInv

\* A step that replaces one item by a later state of it.
LEMMA StoreMoves ==
  ASSUME StoreInv, NEW k \in Keys, NEW new \in Store!WorkItem,
         new.attempt > 0, new.state \notin {"absent", "pending"},
         items' = [items EXCEPT ![k] = new], outbox' = outbox, clock' = clock
  PROVE  /\ StoreInv' /\ Advances /\ PendingEvents' = PendingEvents
         /\ items'[k].attempt > 0
<1>1. /\ items' \in [Keys -> Store!WorkItem] /\ items'[k] = new
      /\ \A j \in Keys : j # k => items'[j] = items[j]
  BY DEF StoreInv
<1>2. new.attempt \in Nat
  BY DEF Store!WorkItem
<1>3. NewIsPending' /\ Advances
  BY <1>1, <1>2 DEF StoreInv, Advances, NewIsPending, Store!Created
<1>4. \A r \in outbox' : Store!Created(r.event)'
  BY <1>3 DEF StoreInv, Advances, Store!OutboxRecord
<1>5. PendingEvents' = PendingEvents
  BY DEF PendingEvents
<1> QED
  BY <1>1, <1>3, <1>4, <1>5 DEF StoreInv

LEMMA StoreClaims ==
  ASSUME StoreInv, NEW k \in Keys, NEW c \in Consumers, NEW t \in Nat, Store!Claim(k, c, t)
  PROVE  /\ StoreInv' /\ Advances /\ PendingEvents' = PendingEvents
         /\ items'[k].attempt > 0
<1>1. items[k] \in Store!WorkItem /\ Lease \in Nat
  BY DeliveryAssumption DEF StoreInv, DeliveryAssumption
<1>2. items[k].attempt + 1 \in Nat \ {0} /\ t + Lease \in Nat
  BY <1>1 DEF Store!WorkItem
<1>3. PICK a \in Nat, x \in Nat : a = items[k].attempt + 1 /\ x = t + Lease /\ a # 0
  BY <1>2
<1>4. PICK new : new = [items[k] EXCEPT !.state = "in_progress", !.attempt = a,
                                        !.owner = c, !.expires = x]
  OBVIOUS
<1>5. items' = [items EXCEPT ![k] = new] /\ outbox' = outbox /\ clock' = clock
  BY <1>3, <1>4 DEF Store!Claim
<1>6. new \in Store!WorkItem /\ new.attempt = a /\ new.state = "in_progress"
  BY <1>1, <1>4 DEF Store!WorkItem, Store!WorkStates
<1>7. new.attempt > 0 /\ new.state \notin {"absent", "pending"}
  BY <1>3, <1>6
<1> QED
  BY <1>5, <1>6, <1>7, StoreMoves

LEMMA StoreTerminalizes ==
  ASSUME StoreInv, NEW k \in Keys, NEW c \in Consumers, NEW t \in Nat, NEW ref \in Refs,
         Store!Terminalize(k, c, "succeeded", ref, t)
  PROVE  StoreInv' /\ Advances /\ PendingEvents' = PendingEvents
<1>1. PICK new : new = Store!Released(k, "completed", ref)
  OBVIOUS
<1>2. /\ items' = [items EXCEPT ![k] = new] /\ outbox' = outbox /\ clock' = clock
      /\ items[k].state = "in_progress"
  BY <1>1 DEF Store!Terminalize, Store!Owned
<1>3. items[k] \in Store!WorkItem /\ items[k].attempt > 0
  BY <1>2 DEF StoreInv, NewIsPending, Store!WorkItem
<1>4. new \in Store!WorkItem /\ new.attempt > 0 /\ new.state = "completed"
  BY <1>1, <1>3 DEF Store!Released, Store!WorkItem, Store!WorkStates
<1> QED
  BY <1>2, <1>4, StoreMoves

LEMMA StoreStays ==
  ASSUME StoreInv, items' = items, outbox' = outbox, clock' \in Nat
  PROVE  StoreInv' /\ Advances /\ PendingEvents' = PendingEvents
BY DEF StoreInv, Advances, NewIsPending, PendingEvents, Store!Created

--------------------------------------------------------------------------------
(* The invariant *)

LEMMA DeliveryInit == Init => DeliveryInv
<1> SUFFICES ASSUME Init PROVE DeliveryInv
  OBVIOUS
<1>1. /\ items = [k \in Keys |-> Store!AbsentItem] /\ outbox = {} /\ clock = 0
      /\ relay = IdleRelay /\ queued = <<>> /\ inflight = <<>>
      /\ consumer = [c \in Consumers |-> IdleConsumer]
  BY DEF Init, Store!Init
<1>2. StoreInv
  BY <1>1 DEF StoreInv, NewIsPending, Store!AbsentItem, Store!WorkItem, Store!WorkStates
<1>3. TypeInv
  BY <1>1 DEF TypeInv, IdleRelay, IdleConsumer, RelayState, ConsumerState, NoDelivery
<1>4. \A x : ~ Occurs(x, <<>>)
  BY DEF Occurs
<1>5. AllSubmitted /\ SentIsKept /\ AnsweredIsClaimed /\ OwnDelivery
  BY <1>1, <1>4 DEF AllSubmitted, SentIsKept, AnsweredIsClaimed, OwnDelivery, Queued,
                    InFlight, IdleRelay, IdleConsumer
<1>6. Notified
  BY <1>1 DEF Notified, Store!Created, Store!AbsentItem
<1> QED
  BY <1>2, <1>3, <1>5, <1>6 DEF DeliveryInv

\* What is left to show of a step: the store's part and the keys that moved.
BrokerSame == relay' = relay /\ queued' = queued /\ inflight' = inflight

LEMMA BrokerFrame ==
  ASSUME queued' = queued, inflight' = inflight
  PROVE  \A k : (Queued(k)' <=> Queued(k)) /\ (InFlight(k)' <=> InFlight(k))
BY DEF Queued, InFlight, Occurs

\* A step that leaves relay, broker and consumers alone.
LEMMA QuietStep ==
  ASSUME DeliveryInv, StoreInv', Advances, BrokerSame, consumer' = consumer,
         PendingEvents \subseteq PendingEvents',
         \A k \in Keys : Store!Created(k)' /\ ~ Store!Created(k) => k \in PendingEvents',
         \A k \in Keys : Store!Created(k) /\ items'[k].attempt = 0 => items[k].attempt = 0
  PROVE  DeliveryInv'
<1>1. \A k : (Queued(k)' <=> Queued(k)) /\ (InFlight(k)' <=> InFlight(k))
  BY BrokerFrame DEF BrokerSame
<1>2. TypeInv'
  BY DEF DeliveryInv, TypeInv, BrokerSame
<1>3. AllSubmitted'
  BY <1>1 DEF DeliveryInv, AllSubmitted, Advances, BrokerSame
<1>4. SentIsKept'
  <2>1. relay.sent # NoRef => relay.sent \in Keys
    BY DEF DeliveryInv, TypeInv, RelayState
  <2> QED
    BY <1>1, <2>1 DEF DeliveryInv, SentIsKept, Advances, BrokerSame
<1>5. AnsweredIsClaimed'
  BY DEF DeliveryInv, AnsweredIsClaimed, AllSubmitted, Advances
<1>6. OwnDelivery'
  BY DEF DeliveryInv, OwnDelivery, Occurs, BrokerSame
<1>7. Notified'
  BY <1>1 DEF DeliveryInv, Notified, Held
<1> QED
  BY <1>2, <1>3, <1>4, <1>5, <1>6, <1>7 DEF DeliveryInv

LEMMA SubmitStep ==
  ASSUME DeliveryInv, NEW k \in Keys, Submit(k)
  PROVE  DeliveryInv'
<1>1. Store!CreateWithOutbox(k, k, k, k) /\ BrokerSame /\ consumer' = consumer
  BY DEF Submit, BrokerSame, brokerVars
<1>2. /\ StoreInv' /\ Advances
      /\ PendingEvents' = PendingEvents \cup {k}
      /\ \A j \in Keys : j # k => items'[j] = items[j]
  BY <1>1, StoreSubmits DEF DeliveryInv
<1>3. ~ Store!Created(k)
  BY <1>1 DEF Store!CreateWithOutbox
<1>4. \A j \in Keys : Store!Created(j)' /\ ~ Store!Created(j) => j \in PendingEvents'
  BY <1>2 DEF Store!Created
<1>5. \A j \in Keys : Store!Created(j) /\ items'[j].attempt = 0 => items[j].attempt = 0
  BY <1>2, <1>3
<1> QED
  BY <1>1, <1>2, <1>4, <1>5, QuietStep

LEMMA TickStep ==
  ASSUME DeliveryInv, Tick
  PROVE  DeliveryInv'
<1>1. /\ items' = items /\ outbox' = outbox /\ clock' = clock + 1
      /\ BrokerSame /\ consumer' = consumer
  BY DEF Tick, Store!Tick, BrokerSame, brokerVars
<1>2. StoreInv' /\ Advances /\ PendingEvents' = PendingEvents
  BY <1>1, StoreStays DEF DeliveryInv, StoreInv
<1> QED
  BY <1>1, <1>2, QuietStep DEF Store!Created

\* The store as a step of relay, broker or consumer finds and leaves it.
StoreSame == UNCHANGED storeVars

LEMMA StoreFrame ==
  ASSUME DeliveryInv, StoreSame
  PROVE  /\ StoreInv' /\ Advances /\ PendingEvents' = PendingEvents /\ items' = items
         /\ \A k : Store!Created(k)' <=> Store!Created(k)
<1>1. items' = items /\ outbox' = outbox /\ clock' = clock
  BY DEF StoreSame, storeVars
<1>2. StoreInv' /\ Advances /\ PendingEvents' = PendingEvents
  BY <1>1, StoreStays DEF DeliveryInv, StoreInv
<1> QED
  BY <1>1, <1>2 DEF Store!Created

\* A step of the relay that marks nothing.
LEMMA RelayFrame ==
  ASSUME DeliveryInv, StoreSame, consumer' = consumer, queued' = queued,
         inflight' = inflight, relay' \in RelayState, relay'.sent = NoRef,
         \A k \in relay'.todo : Store!Created(k)
  PROVE  DeliveryInv'
<1>1. /\ StoreInv' /\ Advances /\ PendingEvents' = PendingEvents /\ items' = items
      /\ \A k : Store!Created(k)' <=> Store!Created(k)
  BY StoreFrame
<1>2. \A k : (Queued(k)' <=> Queued(k)) /\ (InFlight(k)' <=> InFlight(k))
  BY BrokerFrame
<1>3. TypeInv' /\ SentIsKept'
  BY DEF DeliveryInv, TypeInv, SentIsKept
<1>4. AllSubmitted' /\ AnsweredIsClaimed' /\ Notified'
  BY <1>1, <1>2 DEF DeliveryInv, AllSubmitted, AnsweredIsClaimed, Notified, Held
<1>5. OwnDelivery'
  BY DEF DeliveryInv, OwnDelivery, Occurs
<1> QED
  BY <1>1, <1>3, <1>4, <1>5 DEF DeliveryInv

LEMMA PendingIsSubmitted ==
  ASSUME DeliveryInv
  PROVE  \A k \in PendingEvents : k \in Keys /\ Store!Created(k)
BY DEF DeliveryInv, StoreInv, PendingEvents, Store!OutboxRecord

LEMMA StartRelayStep ==
  ASSUME DeliveryInv, StartRelay
  PROVE  DeliveryInv'
<1>1. /\ StoreSame /\ consumer' = consumer /\ queued' = queued /\ inflight' = inflight
      /\ relay' = [todo |-> PendingEvents, sent |-> NoRef]
  BY DEF StartRelay, StoreSame, brokerVars
<1>2. \A k \in PendingEvents : k \in Keys /\ Store!Created(k)
  BY PendingIsSubmitted
<1>3. relay' \in RelayState /\ relay'.sent = NoRef /\ relay'.todo = PendingEvents
  BY <1>1, <1>2 DEF RelayState
<1> QED
  BY <1>1, <1>2, <1>3, RelayFrame

LEMMA RelayCrashStep ==
  ASSUME DeliveryInv, RelayCrash
  PROVE  DeliveryInv'
<1>1. /\ StoreSame /\ consumer' = consumer /\ queued' = queued /\ inflight' = inflight
      /\ relay' = IdleRelay
  BY DEF RelayCrash, StoreSame, brokerVars
<1>2. relay' \in RelayState /\ relay'.sent = NoRef /\ relay'.todo = {}
  BY <1>1 DEF RelayState, IdleRelay
<1> QED
  BY <1>1, <1>2, RelayFrame

LEMMA PublishStep ==
  ASSUME DeliveryInv, NEW e \in Keys, PublishNext(e)
  PROVE  DeliveryInv'
<1>1. /\ StoreSame /\ consumer' = consumer /\ inflight' = inflight
      /\ e \in relay.todo /\ queued' = Append(queued, e)
      /\ relay' = [relay EXCEPT !.sent = e]
  BY DEF PublishNext, StoreSame
<1>2. relay \in RelayState /\ queued \in Seq(Keys)
  BY DEF DeliveryInv, TypeInv
<1>3. relay' \in RelayState /\ relay'.sent = e /\ relay'.todo = relay.todo
  BY <1>1, <1>2 DEF RelayState
<1>4. \A k : Queued(k)' <=> k = e \/ Queued(k)
  BY <1>1, <1>2, OccursInAppend DEF Queued
<1>5. \A k : InFlight(k)' <=> InFlight(k)
  BY <1>1 DEF InFlight, Occurs
<1>6. /\ StoreInv' /\ PendingEvents' = PendingEvents /\ items' = items
      /\ \A k : Store!Created(k)' <=> Store!Created(k)
  BY <1>1, StoreFrame
<1>7. TypeInv'
  <2>1. queued' \in Seq(Keys)
    BY <1>1, <1>2
  <2> QED
    BY <1>1, <1>3, <2>1 DEF DeliveryInv, TypeInv
<1>8. AllSubmitted' /\ SentIsKept' /\ AnsweredIsClaimed' /\ Notified'
  BY <1>1, <1>3, <1>4, <1>5, <1>6
  DEF DeliveryInv, AllSubmitted, SentIsKept, AnsweredIsClaimed, Notified, Held
<1>9. OwnDelivery'
  BY <1>1 DEF DeliveryInv, OwnDelivery, Occurs
<1> QED
  BY <1>6, <1>7, <1>8, <1>9 DEF DeliveryInv

LEMMA MarkSentStep ==
  ASSUME DeliveryInv, MarkSent
  PROVE  DeliveryInv'
<1> DEFINE e == relay.sent
<1>1. /\ e # NoRef /\ consumer' = consumer /\ queued' = queued /\ inflight' = inflight
      /\ relay' = [todo |-> relay.todo \ {e}, sent |-> NoRef]
      /\ Store!MarkPublished(e) \/ (e \notin PendingEvents /\ StoreSame)
  BY DEF MarkSent, StoreSame, brokerVars
<1>2. e \in Keys /\ relay.todo \subseteq Keys
  BY <1>1 DEF DeliveryInv, TypeInv, RelayState
<1>3. relay' \in RelayState /\ relay'.sent = NoRef /\ relay'.todo = relay.todo \ {e}
  BY <1>1, <1>2 DEF RelayState
<1>4. CASE StoreSame
  <2>1. \A k \in relay'.todo : Store!Created(k)
    BY <1>2, <1>3 DEF DeliveryInv, AllSubmitted
  <2> QED
    BY <1>1, <1>3, <1>4, <2>1, RelayFrame
<1>5. CASE Store!MarkPublished(e)
  <2>1. StoreInv' /\ items' = items /\ PendingEvents \ {e} \subseteq PendingEvents'
    BY <1>2, <1>5, StoreMarks DEF DeliveryInv
  <2>2. \A k : Store!Created(k)' <=> Store!Created(k)
    BY <2>1 DEF Store!Created
  <2>3. \A k : (Queued(k)' <=> Queued(k)) /\ (InFlight(k)' <=> InFlight(k))
    BY <1>1, BrokerFrame
  <2>4. TypeInv' /\ SentIsKept'
    BY <1>1, <1>3 DEF DeliveryInv, TypeInv, SentIsKept
  <2>5. AllSubmitted' /\ AnsweredIsClaimed'
    BY <1>1, <1>3, <2>1, <2>2, <2>3 DEF DeliveryInv, AllSubmitted, AnsweredIsClaimed
  <2>6. OwnDelivery'
    BY <1>1 DEF DeliveryInv, OwnDelivery, Occurs
  <2>7. Queued(e) \/ InFlight(e) \/ items[e].attempt > 0
    BY <1>1 DEF DeliveryInv, SentIsKept
  <2>8. Notified'
    BY <2>1, <2>2, <2>3, <2>7 DEF DeliveryInv, Notified, Held
  <2> QED
    BY <2>1, <2>4, <2>5, <2>6, <2>8 DEF DeliveryInv
<1> QED
  BY <1>1, <1>4, <1>5

\* A step of one consumer, to the state new, that leaves relay and broker alone.
LEMMA ConsumerFrame ==
  ASSUME DeliveryInv, StoreInv', Advances, BrokerSame, PendingEvents' = PendingEvents,
         NEW c \in Consumers, NEW new \in ConsumerState,
         consumer' = [consumer EXCEPT ![c] = new],
         new.pc # "idle" => /\ new.key = consumer[c].key /\ consumer[c].pc # "idle",
         new.pc \in {"acquired", "duplicate"} =>
           /\ consumer[c].pc = "claim" /\ new.id = consumer[c].id
           /\ items'[new.key].attempt > 0,
         new.pc # "claim",
         \A k \in Keys : Store!Created(k)' => Store!Created(k),
         \A k \in Keys : Store!Created(k) /\ items'[k].attempt = 0 => items[k].attempt = 0
  PROVE  DeliveryInv'
<1>1. \A k : (Queued(k)' <=> Queued(k)) /\ (InFlight(k)' <=> InFlight(k))
  BY BrokerFrame DEF BrokerSame
<1>2. /\ consumer \in [Consumers -> ConsumerState]
      /\ consumer' \in [Consumers -> ConsumerState] /\ consumer'[c] = new
      /\ \A d \in Consumers : d # c => consumer'[d] = consumer[d]
  BY DEF DeliveryInv, TypeInv
<1>3. TypeInv'
  BY <1>2 DEF DeliveryInv, TypeInv, BrokerSame
<1>4. AllSubmitted'
  BY <1>1, <1>2 DEF DeliveryInv, AllSubmitted, Advances, BrokerSame
<1>5. SentIsKept'
  <2>1. relay.sent # NoRef => relay.sent \in Keys
    BY DEF DeliveryInv, TypeInv, RelayState
  <2> QED
    BY <1>1, <2>1 DEF DeliveryInv, SentIsKept, Advances, BrokerSame
<1>6. AnsweredIsClaimed'
  BY <1>2 DEF DeliveryInv, AnsweredIsClaimed, AllSubmitted, Advances
<1>7. OwnDelivery'
  <2> SUFFICES ASSUME NEW d \in Consumers, NEW x \in Delivery,
                      consumer'[d].pc \in {"claim", "acquired", "duplicate"},
                      Occurs(x, inflight), x.id = consumer'[d].id
               PROVE  x.key = consumer'[d].key
    BY DEF OwnDelivery, Occurs, BrokerSame
  <2>1. CASE d = c
    BY <1>2, <2>1 DEF DeliveryInv, OwnDelivery
  <2>2. CASE d # c
    BY <1>2, <2>2 DEF DeliveryInv, OwnDelivery
  <2> QED
    BY <2>1, <2>2
<1>8. Notified'
  BY <1>1 DEF DeliveryInv, Notified, Held
<1> QED
  BY <1>3, <1>4, <1>5, <1>6, <1>7, <1>8 DEF DeliveryInv

LEMMA IdleType == IdleConsumer \in ConsumerState /\ IdleConsumer.pc = "idle"
BY DEF IdleConsumer, ConsumerState, NoDelivery

LEMMA ConsumerCrashStep ==
  ASSUME DeliveryInv, NEW c \in Consumers, ConsumerCrash(c)
  PROVE  DeliveryInv'
<1>1. StoreSame /\ BrokerSame /\ consumer' = [consumer EXCEPT ![c] = IdleConsumer]
  BY DEF ConsumerCrash, StoreSame, BrokerSame, brokerVars
<1>2. /\ StoreInv' /\ Advances /\ PendingEvents' = PendingEvents /\ items' = items
      /\ \A k : Store!Created(k)' <=> Store!Created(k)
  BY <1>1, StoreFrame
<1> QED
  BY <1>1, <1>2, IdleType, ConsumerFrame

LEMMA ExecuteStep ==
  ASSUME DeliveryInv, NEW c \in Consumers, Execute(c)
  PROVE  DeliveryInv'
<1> DEFINE k == consumer[c].key
<1> DEFINE t == consumer[c].now
<1>1. /\ consumer[c].pc = "execute" /\ BrokerSame
      /\ consumer' = [consumer EXCEPT ![c] = IdleConsumer]
      /\ \/ \E ref \in Refs : Store!Terminalize(k, c, "succeeded", ref, t)
         \/ StoreSame
  BY DEF Execute, StoreSame, BrokerSame, brokerVars
<1>2. CASE StoreSame
  <2>1. /\ StoreInv' /\ Advances /\ PendingEvents' = PendingEvents /\ items' = items
        /\ \A j : Store!Created(j)' <=> Store!Created(j)
    BY <1>2, StoreFrame
  <2> QED
    BY <1>1, <2>1, IdleType, ConsumerFrame
<1>3. CASE \E ref \in Refs : Store!Terminalize(k, c, "succeeded", ref, t)
  <2>1. PICK ref \in Refs : Store!Terminalize(k, c, "succeeded", ref, t)
    BY <1>3
  <2>2. k \in Keys /\ Store!Created(k) /\ t \in Nat
    BY <1>1 DEF DeliveryInv, AllSubmitted, TypeInv, ConsumerState
  <2>3. StoreInv' /\ Advances /\ PendingEvents' = PendingEvents
    BY <2>1, <2>2, StoreTerminalizes DEF DeliveryInv
  <2>4. \A j \in Keys : j # k => items'[j] = items[j]
    BY <2>1, <2>2 DEF Store!Terminalize, DeliveryInv, StoreInv
  <2>5. items[k].attempt > 0
    BY <2>1, <2>2 DEF Store!Terminalize, Store!Owned, DeliveryInv, StoreInv, NewIsPending,
                      Store!WorkItem
  <2>6. items'[k].attempt > 0
    BY <2>2, <2>3, <2>5 DEF Advances
  <2>7. \A j \in Keys : /\ Store!Created(j)' => Store!Created(j)
                        /\ items'[j].attempt = 0 => items[j].attempt = 0
    BY <2>2, <2>4, <2>6 DEF Store!Created
  <2> QED
    BY <1>1, <2>3, <2>7, IdleType, ConsumerFrame
<1> QED
  BY <1>1, <1>2, <1>3

LEMMA ClaimStep ==
  ASSUME DeliveryInv, NEW c \in Consumers, ClaimDelivery(c)
  PROVE  DeliveryInv'
<1> DEFINE k == consumer[c].key
<1> DEFINE t == consumer[c].now
<1>1. /\ consumer[c].pc = "claim" /\ BrokerSame
      /\ \/ Store!Claim(k, c, t) /\ consumer' = [consumer EXCEPT ![c].pc = "acquired"]
         \/ /\ ~ Store!Claimable(k, t) /\ StoreSame
            /\ consumer' = [consumer EXCEPT ![c].pc = "duplicate"]
  BY DEF ClaimDelivery, StoreSame, BrokerSame, brokerVars
<1>2. k \in Keys /\ Store!Created(k) /\ t \in Nat /\ consumer[c] \in ConsumerState
  BY <1>1 DEF DeliveryInv, AllSubmitted, TypeInv, ConsumerState
<1>3. CASE Store!Claim(k, c, t) /\ consumer' = [consumer EXCEPT ![c].pc = "acquired"]
  <2>1. PICK new : new = [consumer[c] EXCEPT !.pc = "acquired"]
    OBVIOUS
  <2>2. /\ new \in ConsumerState /\ new.pc = "acquired" /\ new.key = k
        /\ new.id = consumer[c].id
    BY <1>2, <2>1 DEF ConsumerState
  <2>3. consumer' = [consumer EXCEPT ![c] = new]
    BY <1>3, <2>1 DEF DeliveryInv, TypeInv
  <2>4. /\ StoreInv' /\ Advances /\ PendingEvents' = PendingEvents
        /\ items'[k].attempt > 0
    BY <1>2, <1>3, StoreClaims DEF DeliveryInv
  <2>5. \A j \in Keys : j # k => items'[j] = items[j]
    BY <1>2, <1>3 DEF Store!Claim, DeliveryInv, StoreInv
  <2>6. \A j \in Keys : /\ Store!Created(j)' => Store!Created(j)
                        /\ items'[j].attempt = 0 => items[j].attempt = 0
    BY <1>2, <2>4, <2>5 DEF Store!Created
  <2> QED
    BY <1>1, <2>2, <2>3, <2>4, <2>6, ConsumerFrame
<1>4. CASE /\ ~ Store!Claimable(k, t) /\ StoreSame
           /\ consumer' = [consumer EXCEPT ![c].pc = "duplicate"]
  <2>1. PICK new : new = [consumer[c] EXCEPT !.pc = "duplicate"]
    OBVIOUS
  <2>2. /\ new \in ConsumerState /\ new.pc = "duplicate" /\ new.key = k
        /\ new.id = consumer[c].id
    BY <1>2, <2>1 DEF ConsumerState
  <2>3. consumer' = [consumer EXCEPT ![c] = new]
    BY <1>4, <2>1 DEF DeliveryInv, TypeInv
  <2>4. items[k].state \in {"completed", "in_progress"}
    BY <1>2, <1>4 DEF Store!Claimable
  <2>5. items[k].attempt > 0
    BY <1>2, <2>4 DEF DeliveryInv, StoreInv, NewIsPending, Store!WorkItem
  <2>6. /\ StoreInv' /\ Advances /\ PendingEvents' = PendingEvents /\ items' = items
        /\ \A j : Store!Created(j)' <=> Store!Created(j)
    BY <1>4, StoreFrame
  <2> QED
    BY <1>1, <2>2, <2>3, <2>5, <2>6, ConsumerFrame
<1> QED
  BY <1>1, <1>3, <1>4

LEMMA RedeliverStep ==
  ASSUME DeliveryInv, Redeliver
  PROVE  DeliveryInv'
<1>1. /\ StoreSame /\ relay' = relay /\ consumer' = consumer /\ inflight' = <<>>
      /\ queued' = [i \in 1 .. Len(inflight) |-> inflight[i].key] \o queued
  BY DEF Redeliver, TakesBack, StoreSame
<1>2. /\ StoreInv' /\ PendingEvents' = PendingEvents /\ items' = items
      /\ \A k : Store!Created(k)' <=> Store!Created(k)
  BY <1>1, StoreFrame
<1>3. /\ queued' \in Seq(Keys)
      /\ \A k : Queued(k)' <=> Queued(k) \/ InFlight(k)
  BY <1>1, Redelivered DEF DeliveryInv
<1>4. \A x : ~ Occurs(x, inflight)'
  BY <1>1 DEF Occurs
<1>5. \A k : ~ InFlight(k)'
  BY <1>4 DEF InFlight
<1>6. inflight' \in Seq(Delivery)
  BY <1>1
<1>7. TypeInv' /\ OwnDelivery'
  BY <1>1, <1>3, <1>4, <1>6 DEF DeliveryInv, TypeInv, OwnDelivery
<1>8. AllSubmitted' /\ SentIsKept' /\ AnsweredIsClaimed' /\ Notified'
  BY <1>1, <1>2, <1>3, <1>5
  DEF DeliveryInv, AllSubmitted, SentIsKept, AnsweredIsClaimed, Notified, Held
<1> QED
  BY <1>2, <1>7, <1>8 DEF DeliveryInv

LEMMA ReceiveStep ==
  ASSUME DeliveryInv, NEW c \in Consumers, Receive(c)
  PROVE  DeliveryInv'
<1>1. PICK n \in DeliveryIds :
        /\ n \notin InflightIds /\ \A d \in Consumers : consumer[d].id # n
        /\ queued # <<>> /\ queued' = Tail(queued)
        /\ inflight' = Append(inflight, [id |-> n, key |-> Head(queued)])
        /\ consumer' = [consumer EXCEPT ![c] =
             [pc |-> "claim", key |-> Head(queued), id |-> n, now |-> clock]]
        /\ StoreSame /\ relay' = relay
  BY DEF Receive, StoreSame
<1>2. /\ queued \in Seq(Keys) /\ inflight \in Seq(Delivery) /\ clock \in Nat
      /\ consumer \in [Consumers -> ConsumerState]
  BY DEF DeliveryInv, TypeInv, StoreInv
<1>3. PICK k \in Keys : k = Head(queued)
  BY <1>1, <1>2, HeadTailProperties
<1>4. PICK x \in Delivery : x = [id |-> n, key |-> k]
  BY DEF Delivery
<1>5. PICK new \in ConsumerState : new = [pc |-> "claim", key |-> k, id |-> n, now |-> clock]
  BY <1>2 DEF ConsumerState
<1>6. /\ inflight' = Append(inflight, x) /\ x.id = n /\ x.key = k
      /\ consumer' = [consumer EXCEPT ![c] = new]
      /\ new.pc = "claim" /\ new.key = k /\ new.id = n
  BY <1>1, <1>3, <1>4, <1>5
<1>7. /\ consumer' \in [Consumers -> ConsumerState] /\ consumer'[c] = new
      /\ \A d \in Consumers : d # c => consumer'[d] = consumer[d]
  BY <1>2, <1>6
<1>8. \A j : Queued(j) <=> j = k \/ Queued(j)'
  BY <1>1, <1>2, <1>3, OccursInTail DEF Queued
<1>9. \A y : Occurs(y, inflight)' <=> y = x \/ Occurs(y, inflight)
  BY <1>2, <1>6, OccursInAppend DEF Occurs
<1>10. \A j : InFlight(j)' <=> j = k \/ InFlight(j)
  BY <1>6, <1>9 DEF InFlight
<1>11. /\ StoreInv' /\ PendingEvents' = PendingEvents /\ items' = items
       /\ \A j : Store!Created(j)' <=> Store!Created(j)
  BY <1>1, StoreFrame
<1>12. TypeInv'
  <2>1. queued' \in Seq(Keys) /\ inflight' \in Seq(Delivery)
    BY <1>1, <1>2, <1>6, HeadTailProperties
  <2> QED
    BY <1>1, <1>7, <2>1 DEF DeliveryInv, TypeInv
<1>13. AllSubmitted'
  <2>1. Store!Created(k)
    BY <1>8 DEF DeliveryInv, AllSubmitted
  <2> QED
    BY <1>1, <1>6, <1>7, <1>8, <1>10, <1>11, <2>1 DEF DeliveryInv, AllSubmitted
<1>14. SentIsKept' /\ Notified'
  BY <1>1, <1>8, <1>10, <1>11 DEF DeliveryInv, SentIsKept, Notified, Held
<1>15. AnsweredIsClaimed'
  BY <1>6, <1>7, <1>11 DEF DeliveryInv, AnsweredIsClaimed
<1>16. OwnDelivery'
  <2> SUFFICES ASSUME NEW d \in Consumers, NEW y \in Delivery,
                      consumer'[d].pc \in {"claim", "acquired", "duplicate"},
                      Occurs(y, inflight)', y.id = consumer'[d].id
               PROVE  y.key = consumer'[d].key
    BY DEF OwnDelivery
  <2>1. Occurs(y, inflight) => y.id # n
    BY <1>1 DEF Occurs, InflightIds
  <2>2. CASE d = c
    BY <1>6, <1>7, <1>9, <2>1, <2>2
  <2>3. CASE d # c
    BY <1>1, <1>6, <1>7, <1>9, <2>3 DEF DeliveryInv, OwnDelivery
  <2> QED
    BY <2>2, <2>3
<1> QED
  BY <1>11, <1>12, <1>13, <1>14, <1>15, <1>16 DEF DeliveryInv

LEMMA AcknowledgeStep ==
  ASSUME DeliveryInv, NEW c \in Consumers, Acknowledge(c)
  PROVE  DeliveryInv'
<1> DEFINE k == consumer[c].key
<1>1. /\ consumer[c].pc \in {"acquired", "duplicate"}
      /\ StoreSame /\ relay' = relay /\ queued' = queued
      /\ consumer' = [consumer EXCEPT ![c] =
           IF consumer[c].pc = "acquired"
           THEN [consumer[c] EXCEPT !.pc = "execute", !.id = NoDelivery, !.now = clock]
           ELSE IdleConsumer]
      /\ \/ \E i \in 1 .. Len(inflight) :
              inflight[i].id = consumer[c].id /\ inflight' = RemoveAt(inflight, i)
         \/ inflight' = inflight
  BY DEF Acknowledge, StoreSame
<1>2. /\ k \in Keys /\ consumer \in [Consumers -> ConsumerState] /\ clock \in Nat
      /\ inflight \in Seq(Delivery) /\ items[k].attempt > 0
  BY <1>1 DEF DeliveryInv, AllSubmitted, AnsweredIsClaimed, TypeInv, StoreInv
<1>3. PICK new : new = IF consumer[c].pc = "acquired"
           THEN [consumer[c] EXCEPT !.pc = "execute", !.id = NoDelivery, !.now = clock]
           ELSE IdleConsumer
  OBVIOUS
<1>4. new \in ConsumerState /\ (new.pc = "idle" \/ (new.pc = "execute" /\ new.key = k))
  <2>1. CASE consumer[c].pc = "acquired"
    <3>1. new = [consumer[c] EXCEPT !.pc = "execute", !.id = NoDelivery, !.now = clock]
      BY <1>3, <2>1
    <3>2. consumer[c] \in ConsumerState
      BY <1>2
    <3> QED
      BY <1>2, <3>1, <3>2 DEF ConsumerState
  <2>2. CASE consumer[c].pc # "acquired"
    BY <1>3, <2>2, IdleType
  <2> QED
    BY <2>1, <2>2
<1>5. /\ consumer' \in [Consumers -> ConsumerState] /\ consumer'[c] = new
      /\ \A d \in Consumers : d # c => consumer'[d] = consumer[d]
  BY <1>1, <1>2, <1>3, <1>4
\* Only a delivery of the consumer's own key, which is claimed, leaves the broker.
<1>6. /\ inflight' \in Seq(Delivery)
      /\ \A x : Occurs(x, inflight)' => Occurs(x, inflight)
      /\ \A x \in Delivery : Occurs(x, inflight) => Occurs(x, inflight)' \/ x.key = k
  <2>1. CASE inflight' = inflight
    BY <1>2, <2>1 DEF Occurs
  <2>2. ASSUME NEW i \in 1 .. Len(inflight), inflight[i].id = consumer[c].id,
               inflight' = RemoveAt(inflight, i)
        PROVE  <1>6!1 /\ <1>6!2 /\ <1>6!3
    <3>1. PICK r : r = RemoveAt(inflight, i)
      OBVIOUS
    <3>2. /\ r \in Seq(Delivery)
          /\ \A x : Occurs(x, inflight) /\ x # inflight[i] => Occurs(x, r)
          /\ \A x : Occurs(x, r) => Occurs(x, inflight)
      BY <1>2, <3>1, RemovedAt
    <3>3. \A x : Occurs(x, inflight)' <=> Occurs(x, r)
      BY <2>2, <3>1 DEF Occurs
    <3>4. inflight[i] \in Delivery /\ Occurs(inflight[i], inflight)
      BY <1>2 DEF Occurs
    <3>5. inflight[i].key = k
      BY <1>1, <2>2, <3>4 DEF DeliveryInv, OwnDelivery
    <3> QED
      BY <2>2, <3>1, <3>2, <3>3, <3>5
  <2> QED
    BY <1>1, <2>1, <2>2
<1>7. /\ StoreInv' /\ PendingEvents' = PendingEvents /\ items' = items
      /\ \A j : Store!Created(j)' <=> Store!Created(j)
  BY <1>1, StoreFrame
<1>8. /\ \A j : Queued(j)' <=> Queued(j)
      /\ \A j : InFlight(j)' => InFlight(j)
      /\ \A j : InFlight(j) => InFlight(j)' \/ j = k
  BY <1>1, <1>6 DEF Queued, InFlight, Occurs
<1>9. TypeInv'
  BY <1>1, <1>5, <1>6 DEF DeliveryInv, TypeInv
<1>10. AllSubmitted'
  BY <1>1, <1>4, <1>5, <1>7, <1>8 DEF DeliveryInv, AllSubmitted
<1>11. SentIsKept' /\ AnsweredIsClaimed'
  BY <1>1, <1>2, <1>4, <1>5, <1>7, <1>8 DEF DeliveryInv, SentIsKept, AnsweredIsClaimed
<1>12. Notified'
  <2>1. items[k].attempt # 0
    BY <1>2
  <2> QED
    BY <1>7, <1>8, <2>1 DEF DeliveryInv, Notified, Held
<1>13. OwnDelivery'
  BY <1>4, <1>5, <1>6 DEF DeliveryInv, OwnDelivery
<1> QED
  BY <1>7, <1>9, <1>10, <1>11, <1>12, <1>13 DEF DeliveryInv

LEMMA StutterStep ==
  ASSUME DeliveryInv, UNCHANGED vars
  PROVE  DeliveryInv'
<1>1. StoreSame /\ consumer' = consumer /\ BrokerSame
  BY DEF vars, StoreSame, storeVars, brokerVars, BrokerSame
<1>2. /\ StoreInv' /\ Advances /\ PendingEvents' = PendingEvents /\ items' = items
      /\ \A k : Store!Created(k)' <=> Store!Created(k)
  BY <1>1, StoreFrame
<1> QED
  BY <1>1, <1>2, QuietStep

LEMMA DeliveryStep == DeliveryInv /\ [Next]_vars => DeliveryInv'
<1> SUFFICES ASSUME DeliveryInv, [Next]_vars PROVE DeliveryInv'
  OBVIOUS
<1>1. ASSUME NEW k \in Keys, Submit(k) PROVE DeliveryInv'
  BY <1>1, SubmitStep
<1>2. CASE RelayStep
  BY <1>2, StartRelayStep, PublishStep, MarkSentStep DEF RelayStep
<1>3. CASE RelayCrash
  BY <1>3, RelayCrashStep
<1>4. ASSUME NEW c \in Consumers, ConsumerStep(c) PROVE DeliveryInv'
  BY <1>4, ReceiveStep, ClaimStep, AcknowledgeStep, ExecuteStep DEF ConsumerStep
<1>5. ASSUME NEW c \in Consumers, ConsumerCrash(c) PROVE DeliveryInv'
  BY <1>5, ConsumerCrashStep
<1>6. CASE Redeliver
  BY <1>6, RedeliverStep
<1>7. CASE Tick
  BY <1>7, TickStep
<1>8. CASE UNCHANGED vars
  BY <1>8, StutterStep
<1> QED
  BY <1>1, <1>2, <1>3, <1>4, <1>5, <1>6, <1>7, <1>8 DEF Next

\* Until an item is first claimed, the outbox, the queue or the deliveries in
\* flight hold its notification: relay_pending, redeliver_unacknowledged and
\* claim_delivery lose none, wherever relay and consumers crash.
THEOREM NotificationsKept == Spec => []NotificationKept
<1>1. DeliveryInv => NotificationKept
  BY DEF DeliveryInv, Notified, Held, Queued, InFlight, Occurs, NotificationKept
<1> QED
  BY <1>1, DeliveryInit, DeliveryStep, PTL DEF Spec
================================================================================
