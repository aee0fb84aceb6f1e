------------------------------- MODULE MCBulkTask ------------------------------
(* Instances of BulkTask for TLC. *)
EXTENDS BulkTask, TLC

Row(id, size) == [id |-> id, size |-> size]

\* Rows that share packs, fill them, or are too large for the first definition.
MCRowSeqs ==
  {<<Row("a", 1)>>, <<Row("a", 4)>>} \cup
  {<<Row("a", 1), Row("b", y), Row("c", z)>> : y \in {1, 3, 4}, z \in {1, 4}}

MCInvocations ==
  [rows: MCRowSeqs, requested: {"none"}, valid: {TRUE}]
  \cup [rows: {<<Row("a", 1)>>}, requested: {"bound", "other"}, valid: BOOLEAN]

MCDefinitions == {"d1", "d2"}

\* The second definition has a longer prompt and more room.
MCLimits == [d \in MCDefinitions |->
  IF d = "d1" THEN [items |-> 2, input |-> 3, output |-> 4, bytes |-> 12]
  ELSE [items |-> 3, input |-> 5, output |-> 6, bytes |-> 17]]

SizeOf(rs) == FoldSeq(LAMBDA r, n : r.size + n, 0, rs)

\* Bytes of the payload, with the prompt of the definition, and the estimates of
\* _PrototypeTokenEstimator with other units.
MCPayloadBytes(d, rs) == 4 * SizeOf(rs) + (IF d = "d1" THEN 0 ELSE 1)
MCInputTokens(d, rs)  == (MCPayloadBytes(d, rs) + 3) \div 4
MCOutputTokens(d, rs) == 2 * Len(rs)

Good(id) == [id |-> id, ok |-> TRUE]

\* Some of the rows in any order, a row twice, a row nobody asked about, and a
\* record against the rules.
MCOutputs ==
  UNION {{[i \in DOMAIN s |-> Good(s[i])] : s \in SetToSeqs(ids)} : ids \in SUBSET {"a", "b", "c"}}
  \cup {<<Good("a"), Good("a")>>, <<Good("a"), Good("x")>>, <<[id |-> "a", ok |-> FALSE]>>}
================================================================================
