----------------------------- MODULE BulkTaskProofs ----------------------------
(***************************************************************************)
(* The data of one bulk item, for all rows, limits, sizes and outputs.     *)
(*                                                                         *)
(* Preparation.  The packing loop keeps, row by row, a chain of closed     *)
(* packs that ends where the open pack begins; when the rows are packed,   *)
(* the chain is greedy and so is what the first checkpoint records.        *)
(*                                                                         *)
(* Acceptance.  The packs cut the rows without a gap, so the records that  *)
(* were validated and ordered pack by pack are, put together, one for each *)
(* row in its order: by induction along the packs, on the recursion of     *)
(* FlattenSeq.  Cut at the same packs again they are valid again.  Nothing *)
(* here needs the ids of the rows to differ.                               *)
(***************************************************************************)
EXTENDS BulkTask, SequenceTheorems, WellFoundedInduction, TLAPS

Pack == [first : Nat, last : Nat]

\* Packs that follow each other from the first row to the row "end", each of them
\* greedy up to the next one.
Chain(d, ps, end) ==
  /\ ps \in Seq(Pack)
  /\ Len(ps) = 0 => end = 0
  /\ Len(ps) > 0 => ps[1].first = 1 /\ ps[Len(ps)].last = end
  /\ \A i \in 1 .. Len(ps) :
       /\ ps[i].first <= ps[i].last /\ ps[i].last <= end
       /\ Fits(d, RowsOf(ps[i]))
       /\ i < Len(ps) =>
            /\ ps[i + 1].first = ps[i].last + 1
            /\ ~ Fits(d, Slice(ps[i].first, ps[i].last + 1))

\* A greedy packing that stays within the rows.
Packed(d, ps) ==
  /\ Greedy(d, ps)
  /\ ps \in Seq(Pack)
  /\ \A i \in 1 .. Len(ps) : ps[i].last <= Len(Rows)

\* The last of some packs has no room for row r.
Full(d, ps, r) == Len(ps) > 0 => ~ Fits(d, Slice(ps[Len(ps)].first, r))

\* Rows first .. next - 1 fill the open pack; the closed ones lead up to it.
PackingInv ==
  pc = "packing" =>
    /\ first \in Nat /\ next \in Nat
    /\ 1 <= first /\ first <= next /\ next <= Len(Rows) + 1
    /\ first = next => next = 1
    /\ first < next => Fits(registered, Slice(first, next - 1))
    /\ Chain(registered, packs, first - 1)
    /\ Full(registered, packs, first)

PreparedPacked == stage > 0 => Packed(prepared.definition, prepared.packs)

IInv ==
  /\ invocation \in Invocations
  /\ PackingInv
  /\ pc = "storing" => Packed(registered, packs)
  /\ pc # "idle" => stage = 0
  /\ stage \in Nat
  /\ PreparedPacked

--------------------------------------------------------------------------------

\* An invocation has a first row.
LEMMA RowsExist ==
  ASSUME invocation \in Invocations
  PROVE  Len(Rows) \in Nat /\ Len(Rows) > 0
  BY InvocationsHaveRows DEF Rows, IsSequence

\* Closing the open pack f .. n - 1 makes the chain one pack longer.
LEMMA ChainGrows ==
  ASSUME NEW d, NEW ps, NEW f \in Nat, NEW n \in Nat,
         1 <= f, f < n,
         Chain(d, ps, f - 1), Full(d, ps, f),
         Fits(d, Slice(f, n - 1))
  PROVE  Chain(d, Append(ps, [first |-> f, last |-> n - 1]), n - 1)
<1> DEFINE new == [first |-> f, last |-> n - 1]
           qs  == Append(ps, new)
<1>1. new \in Pack
  BY DEF Pack
<1>2. ps \in Seq(Pack) /\ Len(ps) \in Nat
  BY DEF Chain
<1>3. /\ qs \in Seq(Pack)
      /\ Len(qs) = Len(ps) + 1
      /\ \A i \in 1 .. Len(ps) : qs[i] = ps[i]
      /\ qs[Len(ps) + 1] = new
  BY <1>1, <1>2
<1>4. new.first = f /\ new.last = n - 1
  OBVIOUS
<1> HIDE DEF new, qs
<1>5. qs[1].first = 1 /\ qs[Len(qs)].last = n - 1
  <2>1. CASE Len(ps) = 0
    BY <2>1, <1>2, <1>3, <1>4 DEF Chain
  <2>2. CASE Len(ps) > 0
    BY <2>2, <1>2, <1>3, <1>4 DEF Chain
  <2> QED
    BY <2>1, <2>2, <1>2
<1>6. ASSUME NEW i \in 1 .. Len(ps) PROVE ps[i].last \in Nat /\ ps[i].last <= n - 1
  <2>1. ps[i] \in Pack /\ ps[i].last <= f - 1
    BY <1>2 DEF Chain
  <2> QED
    BY <2>1 DEF Pack
<1>7. ASSUME NEW i \in 1 .. Len(qs)
      PROVE  /\ qs[i].first <= qs[i].last /\ qs[i].last <= n - 1
             /\ Fits(d, RowsOf(qs[i]))
             /\ i < Len(qs) => /\ qs[i + 1].first = qs[i].last + 1
                               /\ ~ Fits(d, Slice(qs[i].first, qs[i].last + 1))
  <2>1. CASE i = Len(ps) + 1
    <3>1. qs[i] = new /\ RowsOf(qs[i]) = Slice(f, n - 1)
      BY <2>1, <1>3, <1>4 DEF RowsOf
    <3> QED
      BY <3>1, <2>1, <1>2, <1>3, <1>4
  <2>2. CASE i < Len(ps)
    <3>1. i \in 1 .. Len(ps) /\ i + 1 \in 1 .. Len(ps)
      BY <2>2, <1>2, <1>3
    <3>2. qs[i] = ps[i] /\ qs[i + 1] = ps[i + 1]
      BY <3>1, <1>3
    <3> QED
      BY <3>1, <3>2, <2>2, <1>2, <1>3, <1>6 DEF Chain
  <2>3. CASE i = Len(ps)
    <3>1. qs[i] = ps[i] /\ qs[i + 1] = new
      BY <2>3, <1>2, <1>3
    <3>2. ps[i].last + 1 = f
      BY <2>3, <1>2 DEF Chain
    <3>3. ~ Fits(d, Slice(ps[i].first, f))
      BY <2>3, <1>2 DEF Full
    <3> QED
      BY <3>1, <3>2, <3>3, <2>3, <1>2, <1>3, <1>4, <1>6 DEF Chain
  <2> QED
    BY <2>1, <2>2, <2>3, <1>2, <1>3
<1>8. Chain(d, qs, n - 1)
  BY <1>2, <1>3, <1>5, <1>7 DEF Chain
<1> QED
  BY <1>8 DEF qs, new

\* A chain that ends at the last row is a greedy packing of the rows.
LEMMA ChainIsGreedy ==
  ASSUME NEW d, NEW ps, Len(Rows) \in Nat, Len(Rows) > 0, Chain(d, ps, Len(Rows))
  PROVE  Packed(d, ps)
<1>1. Len(ps) \in Nat
  BY DEF Chain
<1> QED
  BY <1>1 DEF Chain, Greedy, Packed

\* The initial state is inductive.
LEMMA InitIInv == Init => IInv
  BY DEF Init, IInv, PackingInv, PreparedPacked

\* The preparation under way stays as it is when its variables do.
LEMMA PreparationKept ==
  ASSUME IInv, UNCHANGED <<invocation, registered, preparation>>
  PROVE  PackingInv' /\ (pc = "storing" => Packed(registered, packs))' /\ pc' = pc
<1>1. pc' = pc /\ first' = first /\ next' = next /\ packs' = packs
  BY DEF preparation
<1>2. PackingInv'
  BY <1>1 DEF IInv, PackingInv, Chain, Full, RowsOf, Slice, Rows, Fits
<1>3. (pc = "storing" => Packed(registered, packs))'
  BY <1>1 DEF IInv, Packed, Greedy, RowsOf, Slice, Rows, Fits
<1> QED
  BY <1>1, <1>2, <1>3

\* The recorded preparation stays greedy while it and the rows are the same.
LEMMA PreparedKept ==
  ASSUME PreparedPacked, UNCHANGED <<invocation, prepared>>, stage' > 0 => stage > 0
  PROVE  PreparedPacked'
  BY DEF PreparedPacked, Packed, Greedy, RowsOf, Slice, Rows, Fits

\* Every step of the preparation and every other step preserves the invariant.
LEMMA NextIInv == IInv /\ [Next]_vars => IInv'
<1> SUFFICES ASSUME IInv, [Next]_vars PROVE IInv'
  OBVIOUS
<1>0. Len(Rows) \in Nat /\ Len(Rows) > 0
  BY RowsExist DEF IInv
<1>1. CASE Resolve
  <2>1. UNCHANGED <<invocation, registered, prepared, stage>> /\ stage = 0
    BY <1>1 DEF Resolve, Idle, End, process
  <2>2. CASE UNCHANGED preparation
    BY <2>1, <2>2, PreparationKept, PreparedKept DEF IInv
  <2>3. CASE pc' = "packing" /\ first' = 1 /\ next' = 1 /\ packs' = <<>>
    <3>1. PackingInv'
      BY <2>1, <2>3, <1>0 DEF PackingInv, Chain, Full, Rows, Pack
    <3> QED
      BY <2>1, <2>3, <3>1, PreparedKept DEF IInv
  <2> QED
    BY <2>2, <2>3, <1>1 DEF Resolve
<1>2. CASE Join
  <2>1. UNCHANGED <<invocation, registered, prepared, stage, pc, first, packs>> /\ next' = next + 1
    BY <1>2 DEF Join, StillPacking, process
  <2>2. pc = "packing" /\ next <= Len(Rows) /\ Fits(registered, Slice(first, next))
    BY <1>2 DEF Join, Packing
  <2>3. PackingInv'
    <3>1. next' - 1 = next
      BY <2>1, <2>2 DEF IInv, PackingInv
    <3>2. Chain(registered, packs, first - 1)' /\ Full(registered, packs, first)'
      BY <2>1, <2>2 DEF IInv, PackingInv, Chain, Full, RowsOf, Slice, Rows, Fits
    <3>3. Fits(registered, Slice(first, next - 1))'
      BY <2>1, <2>2, <3>1 DEF Slice, Rows, Fits
    <3> QED
      BY <2>1, <2>2, <3>2, <3>3, <1>0 DEF IInv, PackingInv, Rows
  <2> QED
    BY <2>1, <2>2, <2>3, PreparedKept DEF IInv
<1>3. CASE Split
  <2>1. /\ UNCHANGED <<invocation, registered, prepared, stage, pc>>
        /\ next' = next + 1 /\ first' = next /\ packs' = Closed
    BY <1>3 DEF Split, StillPacking, process, NextFirst
  <2>2. /\ pc = "packing" /\ next <= Len(Rows) /\ first < next
        /\ ~ Fits(registered, Slice(first, next))
        /\ Fits(registered, Slice(next, next))
    BY <1>3 DEF Split, Packing
  <2>3. Chain(registered, Closed, next - 1)
    BY <2>2, ChainGrows DEF IInv, PackingInv, Closed
  <2>4. Full(registered, Closed, next)
    <3>1. packs \in Seq(Pack) /\ [first |-> first, last |-> next - 1] \in Pack
      BY <2>2 DEF IInv, PackingInv, Chain, Pack
    <3>2. Closed[Len(Closed)] = [first |-> first, last |-> next - 1]
      BY <3>1 DEF Closed
    <3> QED
      BY <3>2, <2>2 DEF Full
  <2>5. PackingInv'
    <3>1. next' - 1 = next /\ first' - 1 = next - 1 /\ next \in Nat
      BY <2>1, <2>2 DEF IInv, PackingInv
    <3>2. Chain(registered, packs, first - 1)' /\ Full(registered, packs, first)'
      BY <2>1, <2>3, <2>4, <3>1 DEF Chain, Full, RowsOf, Slice, Rows, Fits
    <3>3. Fits(registered, Slice(first, next - 1))'
      BY <2>1, <2>2, <3>1 DEF Slice, Rows, Fits
    <3> QED
      BY <2>1, <2>2, <3>1, <3>2, <3>3, <1>0 DEF IInv, PackingInv, Rows
  <2> QED
    BY <2>1, <2>2, <2>5, PreparedKept DEF IInv
<1>4. CASE Oversized
  BY <1>4, PreparedKept DEF Oversized, End, process, IInv, PackingInv
<1>5. CASE ClosePacks
  <2>1. UNCHANGED <<invocation, registered, prepared, stage>> /\ packs' = Closed /\ pc' = "storing"
    BY <1>5 DEF ClosePacks, process
  <2>2. pc = "packing" /\ next = Len(Rows) + 1 /\ first < next
    BY <1>5, <1>0 DEF ClosePacks, IInv, PackingInv
  <2>3. Chain(registered, Closed, next - 1)
    BY <2>2, ChainGrows DEF IInv, PackingInv, Closed
  <2>4. next - 1 = Len(Rows)
    BY <2>2, <1>0
  <2>5. Packed(registered, Closed)
    BY <2>3, <2>4, <1>0, ChainIsGreedy
  <2>6. Packed(registered, packs)'
    BY <2>1, <2>5 DEF Packed, Greedy, RowsOf, Slice, Rows, Fits
  <2>7. stage = 0 /\ PreparedPacked'
    BY <2>1, <2>2, PreparedKept DEF IInv
  <2> QED
    BY <2>1, <2>6, <2>7 DEF IInv, PackingInv
<1>6. CASE Store
  BY <1>6, PreparationKept, PreparedKept DEF Store, process, IInv
<1>7. CASE CheckpointPrepared
  <2>1. /\ UNCHANGED <<invocation, registered>> /\ pc = "storing" /\ pc' = "idle" /\ stage' = 1
        /\ prepared' = [definition |-> registered, packs |-> packs]
    BY <1>7 DEF CheckpointPrepared, process
  <2>2. Packed(registered, packs)
    BY <2>1 DEF IInv
  <2>3. Packed(prepared.definition, prepared.packs)'
    BY <2>1, <2>2 DEF Packed, Greedy, RowsOf, Slice, Rows, Fits
  <2> QED
    BY <2>1, <2>3 DEF IInv, PackingInv, PreparedPacked
<1>8. CASE Unloadable
  BY <1>8, PreparationKept, PreparedKept DEF Unloadable, End, process, IInv
<1>9. ASSUME NEW s \in 1 .. 4, At(s), NEW value, Advance(value)
      PROVE  IInv'
  BY <1>9, PreparationKept, PreparedKept DEF At, Advance, process, IInv
<1>10. ASSUME NEW state, End(state), UNCHANGED preparation
       PROVE  IInv'
  BY <1>10, PreparationKept, PreparedKept DEF End, process, IInv
<1>11. CASE InvokePacks
  BY <1>9, <1>10, <1>11 DEF InvokePacks
<1>12. CASE ParseResponses
  BY <1>9, <1>10, <1>12 DEF ParseResponses
<1>13. CASE ValidateResponses
  BY <1>9, <1>10, <1>13 DEF ValidateResponses
<1>14. CASE WriteAccepted
  BY <1>9, <1>10, <1>14 DEF WriteAccepted
<1>15. CASE Interrupt
  BY <1>15, PreparedKept DEF Interrupt, process, IInv, PackingInv
<1>16. CASE UNCHANGED vars
  BY <1>16, PreparationKept, PreparedKept DEF vars, process, IInv
<1> QED
  BY <1>1, <1>2, <1>3, <1>4, <1>5, <1>6, <1>7, <1>8, <1>11, <1>12, <1>13, <1>14, <1>15, <1>16
     DEF Next, Prepare

\* What the first checkpoint records is the greedy packing of the invocation's rows
\* under the recorded definition, for all rows, limits and sizes, however often the
\* preparation is interrupted.
THEOREM PreparationIsGreedy == Spec => []PreparedIsGreedy
<1>1. IInv => PreparedIsGreedy
  BY DEF IInv, PreparedPacked, Packed, PreparedIsGreedy
<1> QED
  BY <1>1, InitIInv, NextIInv, PTL DEF Spec

--------------------------------------------------------------------------------
(* Induction along the packs, in the form of a least counterexample *)

Below == {p \in Nat \X Nat : p[1] < p[2]}

LEMMA BelowIsWellFounded == IsWellFoundedOn(Below, Nat)
<1>1. Below = OpToRel(<, Nat)
  BY DEF Below, OpToRel
<1> QED BY <1>1, NatLessThanWellFounded

LEMMA SmallestNumber ==
  ASSUME NEW T \in SUBSET Nat, T # {}
  PROVE \E n \in T : \A m \in T : n <= m
<1>1. PICK n \in T : \A m \in T : <<m, n>> \notin Below
  BY WFMin, BelowIsWellFounded
<1>2. ASSUME NEW m \in T PROVE n <= m
  <2>1. <<m, n>> \in Nat \X Nat /\ <<m, n>>[1] = m /\ <<m, n>>[2] = n
    OBVIOUS
  <2>2. ~ (m < n)
    BY <1>1, <2>1 DEF Below
  <2> QED BY <2>1, <2>2
<1> QED BY <1>2

--------------------------------------------------------------------------------
\* G solves the recursion of FlattenSeq for the first n of some sequences.
Flattens(seqs, n, G) ==
  G = [i \in 1 .. n |-> IF i = 1 THEN seqs[i] ELSE G[i - 1] \o seqs[i]]

\* There is a solution for every number of sequences.
LEMMA FlatteningsExist ==
  ASSUME NEW seqs, NEW n \in Nat
  PROVE  \E G : Flattens(seqs, n, G)
<1> DEFINE B == {m \in Nat : ~ \E G : Flattens(seqs, m, G)}
<1> SUFFICES ASSUME B # {} PROVE FALSE
  OBVIOUS
<1>1. PICK m \in B : \A k \in B : m <= k
  <2>1. B \in SUBSET Nat
    OBVIOUS
  <2> HIDE DEF B
  <2> QED
    BY <2>1, SmallestNumber
<1>2. m # 0
  <2>1. Flattens(seqs, 0, [i \in 1 .. 0 |-> 0])
    BY DEF Flattens
  <2> QED
    BY <1>1, <2>1
<1>3. m \in Nat /\ m - 1 \in Nat /\ m - 1 \notin B
  BY <1>1, <1>2
<1>4. PICK G : Flattens(seqs, m - 1, G)
  BY <1>3
<1> DEFINE H == [i \in 1 .. m |->
                   IF i < m THEN G[i] ELSE IF m = 1 THEN seqs[1] ELSE G[m - 1] \o seqs[m]]
<1>5. ASSUME NEW i \in 1 .. m
      PROVE  H[i] = IF i = 1 THEN seqs[i] ELSE H[i - 1] \o seqs[i]
  <2>1. CASE i < m
    <3>1. i \in 1 .. m - 1
      BY <2>1, <1>3
    <3>2. G[i] = IF i = 1 THEN seqs[i] ELSE G[i - 1] \o seqs[i]
      BY <3>1, <1>4 DEF Flattens
    <3>3. i # 1 => i - 1 \in 1 .. m /\ i - 1 < m
      BY <3>1, <1>3
    <3> QED
      BY <2>1, <3>2, <3>3
  <2>2. CASE i = m
    <3>1. i # 1 => i - 1 \in 1 .. m /\ i - 1 < m
      BY <2>2, <1>3
    <3> QED
      BY <2>2, <3>1
  <2> QED
    BY <2>1, <2>2, <1>3
<1>6. H = [i \in 1 .. m |-> H[i]]
  OBVIOUS
<1> HIDE DEF H
<1>7. Flattens(seqs, m, H)
  BY <1>5, <1>6 DEF Flattens
<1> QED
  BY <1>1, <1>7

\* FlattenSeq is the last element of a solution.
LEMMA FlattenedLast ==
  ASSUME NEW seqs, Len(seqs) \in Nat \ {0}
  PROVE  \E G : Flattens(seqs, Len(seqs), G) /\ FlattenSeq(seqs) = G[Len(seqs)]
<1> DEFINE R == CHOOSE g : Flattens(seqs, Len(seqs), g)
<1>1. Flattens(seqs, Len(seqs), R)
  BY FlatteningsExist
<1>2. FlattenSeq(seqs) = R[Len(seqs)]
  BY DEF FlattenSeq, Flattens
<1> QED
  BY <1>1, <1>2

--------------------------------------------------------------------------------
\* A record accepted for a row names it and meets the rules.
For(record, row) == record.id = row.id /\ record.ok

\* Records for the rows up to row n, in their order.
InOrderUpTo(records, n) ==
  /\ Len(records) = n
  /\ \A k \in 1 .. n : For(records[k], Rows[k])

\* Records any model may return.
Records == UNION {ToSet(o) : o \in Outputs}

\* Ids of two sequences are the same when the lengths and the ids of all elements are.
LEMMA SameIds ==
  ASSUME NEW s, NEW t, Len(s) \in Nat, Len(t) = Len(s),
         \A i \in 1 .. Len(s) : s[i].id = t[i].id
  PROVE  Ids(s) = Ids(t)
BY DEF Ids

LEMMA PartsSame ==
  ASSUME NEW s, NEW t, Len(s) \in Nat, Len(t) \in Nat, Ids(s) = Ids(t)
  PROVE  Len(s) = Len(t) /\ \A i \in 1 .. Len(s) : s[i].id = t[i].id
<1>1. DOMAIN Ids(s) = 1 .. Len(s) /\ DOMAIN Ids(t) = 1 .. Len(t)
  BY DEF Ids
<1>2. Len(s) = Len(t)
  BY <1>1
<1>3. ASSUME NEW i \in 1 .. Len(s) PROVE s[i].id = t[i].id
  <2>1. Ids(s)[i] = s[i].id /\ Ids(t)[i] = t[i].id
    BY <1>2 DEF Ids
  <2> QED BY <2>1
<1> QED BY <1>2, <1>3

\* The records of a valid output, ordered, are records for the rows, one each.
LEMMA OrderedRecords ==
  ASSUME NEW rs, NEW o \in Outputs, Len(rs) \in Nat, Valid(rs, o)
  PROVE  /\ InOrder(rs, o) \in Seq(Records)
         /\ Len(InOrder(rs, o)) = Len(rs)
         /\ \A i \in 1 .. Len(rs) : For(InOrder(rs, o)[i], rs[i])
<1>1. o \in Seq(ToSet(o)) /\ ToSet(o) \subseteq Records /\ Len(o) \in Nat /\ DOMAIN o = 1 .. Len(o)
  BY OutputsAreRecords DEF IsSequence, Records
<1>2. ASSUME NEW i \in 1 .. Len(rs)
      PROVE  \E r \in ToSet(o) : r.id = rs[i].id
  <2>1. Ids(rs)[i] = rs[i].id /\ DOMAIN Ids(rs) = 1 .. Len(rs)
    BY DEF Ids
  <2>2. rs[i].id \in ToSet(Ids(rs))
    BY <2>1 DEF ToSet
  <2>3. rs[i].id \in ToSet(Ids(o))
    BY <2>2 DEF Valid, Corresponds
  <2>4. PICK j \in 1 .. Len(o) : rs[i].id = Ids(o)[j]
    BY <2>3 DEF ToSet, Ids
  <2>5. o[j] \in ToSet(o) /\ Ids(o)[j] = o[j].id
    BY <1>1 DEF ToSet, Ids
  <2> QED
    BY <2>4, <2>5
<1>3. \A r \in ToSet(o) : r.ok
  BY <1>1 DEF Valid, MeetsRules, ToSet
<1> DEFINE c(i) == CHOOSE r \in ToSet(o) : r.id = rs[i].id
<1>4. \A i \in 1 .. Len(rs) : c(i) \in ToSet(o) /\ c(i).id = rs[i].id
  BY <1>2
<1>5. InOrder(rs, o) = [i \in 1 .. Len(rs) |-> c(i)]
  BY DEF InOrder
<1> HIDE DEF c
<1>6. InOrder(rs, o) \in Seq(Records) /\ Len(InOrder(rs, o)) = Len(rs)
  BY <1>1, <1>4, <1>5
<1> QED
  BY <1>3, <1>4, <1>5, <1>6 DEF For

\* The rows of a pack of the packing.
LEMMA RowsOfPack ==
  ASSUME NEW d, NEW ps, Packed(d, ps), invocation \in Invocations, NEW i \in 1 .. Len(ps)
  PROVE  /\ ps[i].first \in Nat /\ 1 <= ps[i].first /\ ps[i].last \in Nat
         /\ ps[i].first <= ps[i].last /\ ps[i].last <= Len(Rows)
         /\ Len(RowsOf(ps[i])) = ps[i].last - ps[i].first + 1
         /\ \A k \in 1 .. Len(RowsOf(ps[i])) : RowsOf(ps[i])[k] = Rows[ps[i].first + k - 1]
<1>1. Rows \in Seq(ToSet(Rows)) /\ Len(Rows) \in Nat
  BY InvocationsHaveRows DEF IsSequence, Rows
<1>2. ps \in Seq(Pack) /\ Len(ps) \in Nat /\ ps[i] \in Pack
  BY DEF Packed
<1>3. ps[i].first \in Nat /\ ps[i].last \in Nat /\ ps[i].first <= ps[i].last /\ ps[i].last <= Len(Rows)
  BY <1>2 DEF Packed, Greedy, Pack
<1>4. 1 <= ps[i].first
  <2>1. CASE i = 1
    BY <2>1, <1>2 DEF Packed, Greedy
  <2>2. CASE i # 1
    <3>1. i - 1 \in 1 .. Len(ps) /\ i - 1 < Len(ps) /\ (i - 1) + 1 = i
      BY <2>2, <1>2
    <3>2. ps[i - 1] \in Pack /\ ps[i].first = ps[i - 1].last + 1
      BY <1>2, <3>1 DEF Packed, Greedy
    <3> QED
      BY <3>2, <1>3 DEF Pack
  <2> QED
    BY <2>1, <2>2
<1>5. /\ SubSeq(Rows, ps[i].first, ps[i].last) \in Seq(ToSet(Rows))
      /\ Len(SubSeq(Rows, ps[i].first, ps[i].last)) = ps[i].last - ps[i].first + 1
      /\ \A k \in 1 .. ps[i].last - ps[i].first + 1 :
           SubSeq(Rows, ps[i].first, ps[i].last)[k] = Rows[ps[i].first + k - 1]
  BY <1>1, <1>3, <1>4
<1> QED
  BY <1>3, <1>4, <1>5 DEF RowsOf, Slice

\* Outputs that are valid pack by pack give, ordered and put together, records for
\* all the rows.
LEMMA AllInOrder ==
  ASSUME NEW d, NEW ps, Packed(d, ps), invocation \in Invocations,
         NEW os \in [1 .. Len(ps) -> Outputs],
         \A i \in 1 .. Len(ps) : Valid(RowsOf(ps[i]), os[i])
  PROVE  LET all == FlattenSeq([i \in 1 .. Len(ps) |-> InOrder(RowsOf(ps[i]), os[i])])
         IN  all \in Seq(Records) /\ InOrderUpTo(all, Len(Rows))
<1> DEFINE part(i) == InOrder(RowsOf(ps[i]), os[i])
           parts   == [i \in 1 .. Len(ps) |-> part(i)]
<1>1. Len(ps) \in Nat \ {0} /\ ps[1].first = 1 /\ ps[Len(ps)].last = Len(Rows)
  BY DEF Packed, Greedy
<1>2. ASSUME NEW i \in 1 .. Len(ps)
      PROVE  /\ part(i) \in Seq(Records)
             /\ Len(part(i)) = ps[i].last - ps[i].first + 1
             /\ \A k \in 1 .. ps[i].last - ps[i].first + 1 :
                  For(part(i)[k], Rows[ps[i].first + k - 1])
  <2>1. /\ ps[i].first \in Nat /\ ps[i].last \in Nat /\ ps[i].first <= ps[i].last
        /\ Len(RowsOf(ps[i])) = ps[i].last - ps[i].first + 1
        /\ \A k \in 1 .. Len(RowsOf(ps[i])) : RowsOf(ps[i])[k] = Rows[ps[i].first + k - 1]
    BY RowsOfPack
  <2>2. Len(RowsOf(ps[i])) \in Nat /\ os[i] \in Outputs /\ Valid(RowsOf(ps[i]), os[i])
    BY <2>1
  <2>3. /\ part(i) \in Seq(Records)
        /\ Len(part(i)) = Len(RowsOf(ps[i]))
        /\ \A k \in 1 .. Len(RowsOf(ps[i])) : For(part(i)[k], RowsOf(ps[i])[k])
    BY <2>2, OrderedRecords
  <2> HIDE DEF part
  <2> QED
    BY <2>1, <2>3
<1>3. parts = [i \in 1 .. Len(ps) |-> part(i)] /\ Len(parts) = Len(ps)
  BY <1>1
<1> HIDE DEF part, parts
<1>4. PICK G : Flattens(parts, Len(ps), G) /\ FlattenSeq(parts) = G[Len(ps)]
  BY <1>1, <1>3, FlattenedLast
<1> DEFINE OK(i) == G[i] \in Seq(Records) /\ InOrderUpTo(G[i], ps[i].last)
           B     == {i \in 1 .. Len(ps) : ~ OK(i)}
<1>5. B = {}
  <2> SUFFICES ASSUME B # {} PROVE FALSE
    OBVIOUS
  <2>1. PICK i \in B : \A j \in B : i <= j
    <3>1. B \in SUBSET Nat
      BY <1>1
    <3> HIDE DEF B
    <3> QED
      BY <3>1, SmallestNumber
  <2>2. i \in 1 .. Len(ps) /\ ~ OK(i)
    BY <2>1
  <2>3. /\ ps[i].first \in Nat /\ ps[i].last \in Nat /\ 1 <= ps[i].first
        /\ ps[i].first <= ps[i].last
    BY <2>2, RowsOfPack
  <2>4. i = 1 => G[i] = part(i)
    BY <2>2, <1>3, <1>4 DEF Flattens
  <2>5. CASE i = 1
    <3>1. ps[i].last - ps[i].first + 1 = ps[i].last /\ ps[i].first = 1
      BY <2>5, <2>3, <1>1
    <3>2. \A k \in 1 .. ps[i].last : ps[i].first + k - 1 = k
      BY <3>1, <2>3
    <3> QED
      BY <2>2, <2>4, <2>5, <3>1, <3>2, <1>2 DEF InOrderUpTo
  <2>6. CASE i # 1
    <3>1. i - 1 \in 1 .. Len(ps) /\ i - 1 < Len(ps) /\ i - 1 < i /\ (i - 1) + 1 = i
      BY <2>6, <2>2, <1>1
    <3>2. OK(i - 1)
      <4>1. i - 1 \notin B
        BY <2>1, <3>1, <2>2, <1>1
      <4> QED
        BY <4>1, <3>1
    <3>3. G[i] = G[i - 1] \o part(i)
      BY <2>6, <2>2, <1>3, <1>4 DEF Flattens
    <3>4. ps[i].first = ps[i - 1].last + 1 /\ ps[i - 1].last \in Nat
      BY <3>1, RowsOfPack DEF Packed, Greedy
    <3> DEFINE f == ps[i].first
               l == ps[i].last
               p == ps[i - 1].last
               g == G[i - 1]
               q == part(i)
    <3>5. /\ g \in Seq(Records) /\ q \in Seq(Records) /\ Len(g) = p /\ Len(q) = l - f + 1
          /\ \A k \in 1 .. p : For(g[k], Rows[k])
          /\ \A k \in 1 .. l - f + 1 : For(q[k], Rows[f + k - 1])
      BY <3>2, <2>2, <1>2 DEF InOrderUpTo
    <3>6. f \in Nat /\ l \in Nat /\ p \in Nat /\ f = p + 1 /\ f <= l
      BY <2>3, <3>4
    <3>7. G[i] = g \o q
      BY <3>3
    <3> HIDE DEF f, l, p, g, q
    <3>8. /\ g \o q \in Seq(Records) /\ Len(g \o q) = l
          /\ \A k \in 1 .. l : (g \o q)[k] = IF k <= p THEN g[k] ELSE q[k - p]
      BY <3>5, <3>6
    <3>9. ASSUME NEW k \in 1 .. l PROVE For((g \o q)[k], Rows[k])
      <4>1. CASE k <= p
        BY <4>1, <3>5, <3>6, <3>8
      <4>2. CASE ~ (k <= p)
        <5>1. k - p \in 1 .. l - f + 1 /\ f + (k - p) - 1 = k
          BY <4>2, <3>6
        <5>2. For(q[k - p], Rows[f + (k - p) - 1])
          BY <5>1, <3>5
        <5> QED
          BY <4>2, <5>1, <5>2, <3>8
      <4> QED
        BY <4>1, <4>2
    <3>10. InOrderUpTo(g \o q, l)
      BY <3>8, <3>9 DEF InOrderUpTo
    <3>11. OK(i)
      BY <3>7, <3>8, <3>10 DEF l
    <3> QED
      BY <3>11, <2>2
  <2> QED
    BY <2>5, <2>6
<1>6. OK(Len(ps))
  BY <1>1, <1>5
<1>7. FlattenSeq(parts) \in Seq(Records) /\ InOrderUpTo(FlattenSeq(parts), Len(Rows))
  BY <1>1, <1>4, <1>6
<1> QED
  BY <1>7 DEF parts, part

\* Records for all the rows are valid for every pack they are cut into.
LEMMA CutIsValid ==
  ASSUME rules, Packed(prepared.definition, prepared.packs), invocation \in Invocations,
         NEW records \in Seq(Records), InOrderUpTo(records, Len(Rows))
  PROVE  AllValid(Cut(records))
<1> DEFINE ps == prepared.packs
<1> SUFFICES ASSUME NEW i \in 1 .. Len(ps) PROVE Valid(RowsOf(ps[i]), Cut(records)[i])
  BY DEF AllValid
<1>0. /\ ps[i].first \in Nat /\ 1 <= ps[i].first /\ ps[i].last \in Nat
      /\ ps[i].first <= ps[i].last /\ ps[i].last <= Len(Rows)
      /\ Len(RowsOf(ps[i])) = ps[i].last - ps[i].first + 1
      /\ \A k \in 1 .. Len(RowsOf(ps[i])) : RowsOf(ps[i])[k] = Rows[ps[i].first + k - 1]
  <2> HIDE DEF ps
  <2>1. Packed(prepared.definition, ps)
    BY DEF ps
  <2> QED
    BY <2>1, RowsOfPack
<1> DEFINE f == ps[i].first
           l == ps[i].last
           rs == RowsOf(ps[i])
           c == SubSeq(records, f, l)
<1>1. Cut(records)[i] = c
  BY DEF Cut
<1>2. /\ f \in Nat /\ 1 <= f /\ l \in Nat /\ f <= l /\ l <= Len(Rows) /\ Len(rs) = l - f + 1
      /\ \A k \in 1 .. Len(rs) : rs[k] = Rows[f + k - 1]
  BY <1>0
<1>3. Len(records) = Len(Rows) /\ \A k \in 1 .. Len(Rows) : For(records[k], Rows[k])
  BY DEF InOrderUpTo
<1>4. Len(Rows) \in Nat
  BY RowsExist
<1> HIDE DEF f, l, rs, ps
<1>5. /\ Len(c) = l - f + 1
      /\ \A k \in 1 .. l - f + 1 : c[k] = records[f + k - 1]
  BY <1>2, <1>3, <1>4
<1> HIDE DEF c
<1>6. ASSUME NEW k \in 1 .. l - f + 1 PROVE For(c[k], rs[k])
  <2>1. f + k - 1 \in 1 .. Len(Rows)
    BY <1>2, <1>4
  <2> QED
    BY <2>1, <1>2, <1>3, <1>5
<1>7. MeetsRules(c)
  BY <1>5, <1>6 DEF MeetsRules, For
<1>8. Len(c) = Len(rs) /\ Ids(c) = Ids(rs)
  BY <1>2, <1>5, <1>6, SameIds DEF For
<1> QED
  BY <1>1, <1>7, <1>8 DEF Valid, Corresponds, rs

--------------------------------------------------------------------------------
(* The stages after the preparation *)

NumPacks == Len(prepared.packs)

\* What the last checkpoint holds: outputs as they came, outputs the parser accepts,
\* and from then on records for all the rows.
ArtifactInv ==
  /\ stage = 2 => artifact \in [1 .. NumPacks -> Outputs \cup {Malformed}]
  /\ stage = 3 => artifact \in [1 .. NumPacks -> Outputs]
  /\ stage >= 4 => artifact \in Seq(Records) /\ InOrderUpTo(artifact, Len(Rows))

StagesInv == IInv /\ ArtifactInv

\* Records for all the rows name them in their order and meet the rules.
LEMMA RecordsNameRows ==
  ASSUME IInv, NEW records, InOrderUpTo(records, Len(Rows))
  PROVE  Ids(records) = Ids(Rows) /\ \A i \in 1 .. Len(records) : records[i].ok
<1>1. Len(Rows) \in Nat
  BY RowsExist DEF IInv
<1> QED
  BY <1>1, SameIds DEF InOrderUpTo, For

\* Steps that leave the stage, its artifact and its preparation alone.
LEMMA ArtifactKept ==
  ASSUME ArtifactInv, UNCHANGED <<invocation, prepared, artifact, stage>>
  PROVE  ArtifactInv'
BY DEF ArtifactInv, NumPacks, InOrderUpTo, Rows, For, Records

\* Every step of the item keeps what the checkpoints hold.
LEMMA NextStagesInv == StagesInv /\ [Next]_vars => StagesInv'
<1> SUFFICES ASSUME IInv, ArtifactInv, [Next]_vars, IInv' PROVE ArtifactInv'
  BY NextIInv DEF StagesInv
<1>1. CASE Resolve \/ Join \/ Split \/ Oversized \/ ClosePacks \/ Store \/ Interrupt \/ UNCHANGED vars
  <2>1. UNCHANGED <<invocation, prepared, artifact, stage>>
    BY <1>1 DEF Resolve, Join, Split, Oversized, ClosePacks, Store, Interrupt, StillPacking, End, vars
  <2> QED
    BY <2>1, ArtifactKept
<1>2. ASSUME NEW state, End(state) PROVE ArtifactInv'
  BY <1>2, ArtifactKept DEF End
<1>3. CASE CheckpointPrepared
  BY <1>3 DEF CheckpointPrepared, ArtifactInv
<1>4. CASE InvokePacks
  <2>1. ASSUME NEW outputs \in [1 .. NumPacks -> Outputs \cup {Malformed}], At(1), Advance(outputs)
        PROVE ArtifactInv'
    BY <2>1 DEF At, Advance, ArtifactInv, NumPacks
  <2> QED
    BY <1>2, <1>4, <2>1 DEF InvokePacks, NumPacks
<1>5. CASE ParseResponses
  <2>1. CASE Advance(artifact) /\ \A i \in DOMAIN artifact : Parses(artifact[i])
    <3>1. stage = 2 /\ stage' = 3 /\ UNCHANGED <<artifact, prepared>>
      BY <1>5, <2>1 DEF ParseResponses, At, Advance
    <3>2. artifact \in [1 .. NumPacks -> Outputs \cup {Malformed}]
      BY <3>1 DEF ArtifactInv
    <3>3. artifact \in [1 .. NumPacks -> Outputs]
      BY <3>2, <2>1 DEF Parses
    <3> QED
      BY <3>1, <3>3 DEF ArtifactInv, NumPacks
  <2> QED
    BY <1>2, <1>5, <2>1 DEF ParseResponses
<1>6. CASE ValidateResponses
  <2> DEFINE all == FlattenSeq([i \in 1 .. Len(prepared.packs) |->
                      InOrder(RowsOf(prepared.packs[i]), artifact[i])])
  <2>1. CASE AllValid(artifact) /\ Advance(all)
    <3>1. stage = 3 /\ stage' = 4 /\ artifact' = all /\ UNCHANGED invocation
      BY <1>6, <2>1 DEF ValidateResponses, At, Advance
    <3>2. all \in Seq(Records) /\ InOrderUpTo(all, Len(Rows))
      <4>1. artifact \in [1 .. Len(prepared.packs) -> Outputs]
        BY <3>1 DEF ArtifactInv, NumPacks
      <4>2. Packed(prepared.definition, prepared.packs) /\ invocation \in Invocations
        BY <3>1 DEF IInv, PreparedPacked
      <4>3. \A i \in 1 .. Len(prepared.packs) : Valid(RowsOf(prepared.packs[i]), artifact[i])
        BY <2>1 DEF AllValid
      <4> QED
        BY <4>1, <4>2, <4>3, AllInOrder
    <3> HIDE DEF all
    <3> QED
      BY <3>1, <3>2 DEF ArtifactInv, InOrderUpTo, Rows, For, Records
  <2> QED
    BY <1>2, <1>6, <2>1 DEF ValidateResponses
<1>7. CASE WriteAccepted
  <2>1. CASE Advance(artifact)
    <3>1. stage = 4 /\ stage' = 5 /\ UNCHANGED <<artifact, invocation>>
      BY <1>7, <2>1 DEF WriteAccepted, At, Advance
    <3> QED
      BY <3>1 DEF ArtifactInv, InOrderUpTo, Rows, For, Records
  <2> QED
    BY <1>2, <1>7, <2>1 DEF WriteAccepted
<1>8. CASE Unloadable
  BY <1>2, <1>8 DEF Unloadable
<1> QED
  BY <1>1, <1>3, <1>4, <1>5, <1>6, <1>7, <1>8 DEF Next, Prepare

LEMMA InitStagesInv == Init => StagesInv
  BY InitIInv DEF Init, StagesInv, ArtifactInv

\* The records accepted are one for each row, in the order of the rows and within
\* the rules: for all rows, limits and outputs, wherever the packs are cut and
\* however often the item is interrupted.
THEOREM AcceptedKeepsOrder == Spec => []AcceptedInOrder
<1>1. StagesInv => AcceptedInOrder
  BY RecordsNameRows DEF StagesInv, ArtifactInv, AcceptedInOrder
<1> QED
  BY <1>1, InitStagesInv, NextStagesInv, PTL DEF Spec

\* Validated a second time, pack by pack, accepted records are accepted again: the
\* item ends before the write only when the definition or the rules are gone.
THEOREM AcceptanceStands == Spec => AcceptedStaysAccepted
<1>1. ASSUME StagesInv, [Next]_vars
      PROVE  [stage = 4 /\ rules /\ ending' # ending => ending' = "policy-rejected"]_vars
  <2> SUFFICES ASSUME stage = 4, rules, ending' # ending PROVE ending' = "policy-rejected"
    OBVIOUS
  <2>1. pc = "idle" /\ Packed(prepared.definition, prepared.packs) /\ invocation \in Invocations
    BY <1>1 DEF StagesInv, IInv, PreparedPacked
  <2>2. AllValid(Cut(artifact))
    BY <1>1, <2>1, CutIsValid DEF StagesInv, ArtifactInv
  <2>3. ~ Resolve /\ ~ Oversized /\ ~ InvokePacks /\ ~ ParseResponses /\ ~ ValidateResponses
    BY <2>1 DEF Resolve, Idle, Oversized, Packing, InvokePacks, ParseResponses, ValidateResponses, At
  <2>4. CASE Unloadable
    BY <2>4 DEF Unloadable, End
  <2>5. ~ WriteAccepted
    BY <2>2 DEF WriteAccepted, Advance
  <2>6. CASE Join \/ Split \/ ClosePacks \/ Store \/ CheckpointPrepared \/ Interrupt \/ UNCHANGED vars
    BY <2>6 DEF Join, Split, StillPacking, ClosePacks, Store, CheckpointPrepared, Interrupt, vars
  <2> QED
    BY <1>1, <2>3, <2>4, <2>5, <2>6 DEF Next, Prepare
<1> QED
  BY <1>1, InitStagesInv, NextStagesInv, PTL DEF Spec, AcceptedStaysAccepted
================================================================================
