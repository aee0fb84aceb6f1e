-------------------------------- MODULE BulkTask -------------------------------
(***************************************************************************)
(* One bulk task item, seen through its data: the preparation of its rows  *)
(* into packs (tasks/runtime.py, tasks/packing.py), the model outputs,     *)
(* their parsing and validation (tasks/validation.py, validation/          *)
(* validator.py), stage by stage as in composition/prototype.py            *)
(* _BulkPipeline, with what each checkpoint keeps.                         *)
(*                                                                         *)
(* The worker may stop anywhere and the item resumes at its last           *)
(* checkpoint, perhaps in a process whose registries have another          *)
(* definition or no validation rules under the bound versions.  Leases and *)
(* write-back are BulkWorker's.                                            *)
(*                                                                         *)
(* Abstracted: a payload is its definition and its rows, an output record  *)
(* is the row it names and whether its fields meet the bound rules.        *)
(***************************************************************************)
EXTENDS Integers, SequencesExt

CONSTANTS
  Invocations,      \* [rows, requested, valid]: what items are submitted with
  Definitions,      \* definitions some process registers under the bound version
  NoDefinition,     \* none registered
  Limits,           \* packing_limits of each definition
  PayloadBytes(_, _), InputTokens(_, _), OutputTokens(_, _),   \* of rows in a pack
  Outputs,          \* record sequences a model may return, or Malformed
  Malformed         \* an output the parser rejects

IsSequence(s) == s \in Seq(ToSet(s))

\* TaskInvocation refuses an invocation without rows; an output that the parser
\* accepts is an array of records.
ASSUME InvocationsHaveRows == \A i \in Invocations : IsSequence(i.rows) /\ Len(i.rows) > 0
ASSUME OutputsAreRecords == \A o \in Outputs : IsSequence(o)

VARIABLES
  invocation,
  registered,   \* the definition under the bound version in this process
  rules,        \* the bound validation rules are registered in this process
  stage,        \* checkpoints recorded, 0 to 5
  ending,       \* terminal state recorded, or "none"
  pc, first, next, packs,   \* the preparation under way: _build_candidates and prepare
  stored,       \* payloads in the object store
  prepared,     \* artifact of the first checkpoint
  artifact      \* result_reference: artifact of the last checkpoint

preparation == <<pc, first, next, packs>>
process == <<registered, rules>>
vars == <<invocation, process, stage, ending, preparation, stored, prepared, artifact>>

Rows == invocation.rows

NotPrepared == [definition |-> NoDefinition, packs |-> <<>>]

Init ==
  /\ invocation \in Invocations
  /\ registered \in Definitions \cup {NoDefinition}
  /\ rules \in BOOLEAN
  /\ stage = 0 /\ ending = "none"
  /\ pc = "idle" /\ first = 1 /\ next = 1 /\ packs = <<>>
  /\ stored = {}
  /\ prepared = NotPrepared
  /\ artifact = <<>>

End(state) ==
  /\ ending' = state
  /\ UNCHANGED <<invocation, process, stage, stored, prepared, artifact>>

--------------------------------------------------------------------------------
(* Preparation *)

\* _fits: the candidate pack of some rows is within every limit.
Fits(d, rs) ==
  /\ Len(rs) <= Limits[d].items
  /\ InputTokens(d, rs) <= Limits[d].input
  /\ OutputTokens(d, rs) <= Limits[d].output
  /\ PayloadBytes(d, rs) <= Limits[d].bytes

Slice(i, j) == SubSeq(Rows, i, j)

RowsOf(pack) == Slice(pack.first, pack.last)

Idle == /\ ending = "none" /\ stage = 0
        /\ pc = "idle"

\* TaskRuntime.prepare up to the packer: resolution, then the invocation's contract.
Resolve ==
  /\ Idle
  /\ IF invocation.requested = "other" \/ registered = NoDefinition
     THEN End("policy-rejected") /\ UNCHANGED preparation
     ELSE IF ~ invocation.valid
     THEN End("validation-failed") /\ UNCHANGED preparation
     ELSE /\ pc' = "packing" /\ first' = 1 /\ next' = 1 /\ packs' = <<>>
          /\ UNCHANGED <<invocation, process, stage, ending, stored, prepared, artifact>>

Packing == pc = "packing" /\ next <= Len(Rows)

StillPacking ==
  /\ next' = next + 1
  /\ UNCHANGED <<invocation, process, stage, ending, pc, stored, prepared, artifact>>

\* The row joins the current pack.
Join ==
  /\ Packing
  /\ Fits(registered, Slice(first, next))
  /\ StillPacking
  /\ UNCHANGED <<first, packs>>

Closed == Append(packs, [first |-> first, last |-> next - 1])

\* Mutant of NextFirst: the row that did not fit is left out.
NextFirstSkipping == next + 1

\* The next pack begins with the row that did not fit.
NextFirst == next

\* The row does not fit: the pack is closed and the row begins the next one.
Split ==
  /\ Packing
  /\ ~ Fits(registered, Slice(first, next))
  /\ first < next
  /\ Fits(registered, Slice(next, next))
  /\ packs' = Closed
  /\ first' = NextFirst
  /\ StillPacking

\* The row does not even fit a pack of its own: nothing has been stored.
Oversized ==
  /\ Packing
  /\ ~ Fits(registered, Slice(first, next))
  /\ first = next \/ ~ Fits(registered, Slice(next, next))
  /\ pc' = "idle"
  /\ End("validation-failed")
  /\ UNCHANGED <<first, next, packs>>

\* The rows are packed; the payloads of the packs are put one after the other.
ClosePacks ==
  /\ pc = "packing" /\ next > Len(Rows)
  /\ packs' = Closed
  /\ pc' = "storing"
  /\ UNCHANGED <<invocation, process, stage, ending, first, next, stored, prepared, artifact>>

Payload(pack) == [definition |-> registered, rows |-> RowsOf(pack)]

\* The next pack whose payload is not in the store yet.
Storable(pack) == pc = "storing" /\ Payload(pack) \notin stored

Store ==
  /\ \E i \in 1 .. Len(packs) :
       /\ Storable(packs[i])
       /\ \A j \in 1 .. i - 1 : ~ Storable(packs[j])
       /\ stored' = stored \cup {Payload(packs[i])}
  /\ UNCHANGED <<invocation, process, stage, ending, preparation, prepared, artifact>>

\* Stage ACCEPTED: the prepared task is checkpointed.
CheckpointPrepared ==
  /\ pc = "storing"
  /\ \A i \in 1 .. Len(packs) : Payload(packs[i]) \in stored
  /\ prepared' = [definition |-> registered, packs |-> packs]
  /\ stage' = 1 /\ pc' = "idle"
  /\ UNCHANGED <<invocation, process, ending, first, next, packs, stored, artifact>>

--------------------------------------------------------------------------------
(* The stages after it *)

\* _load_prepared: the definition is registered, with the hash of the checkpoint.
Loaded == registered # NoDefinition /\ registered = prepared.definition

At(s) == ending = "none" /\ stage = s

Advance(value) ==
  /\ stage' = stage + 1
  /\ artifact' = value
  /\ UNCHANGED <<invocation, process, ending, preparation, stored, prepared>>

\* Whatever the stage, a definition that is gone or different ends the item.
Unloadable ==
  /\ \E s \in 1 .. 4 : At(s)
  /\ ~ Loaded
  /\ End("policy-rejected") /\ UNCHANGED preparation

\* MODEL_COMPLETED: every pack is invoked, and each output is kept as it came; or
\* a call is refused by policy or budget, or raises.
InvokePacks ==
  /\ At(1) /\ Loaded
  /\ \/ \E outputs \in [1 .. Len(prepared.packs) -> Outputs \cup {Malformed}] :
          Advance(outputs)
     \/ /\ \E state \in {"policy-rejected", "budget-exhausted", "retry-exhausted"} : End(state)
        /\ UNCHANGED preparation

\* The parser accepts an output: strict JSON of records with exactly the schema's fields.
Parses(output) == output # Malformed

\* RESULT_STORED: the outputs are parsed; one that is malformed ends the item.
ParseResponses ==
  /\ At(2) /\ Loaded
  /\ IF \A i \in DOMAIN artifact : Parses(artifact[i])
     THEN Advance(artifact)
     ELSE End("validation-failed") /\ UNCHANGED preparation

Ids(rs) == [i \in 1 .. Len(rs) |-> rs[i].id]

\* The bound rules accept the fields of every record.
MeetsRules(records) == rules /\ \A i \in 1 .. Len(records) : records[i].ok

\* The records name exactly these rows, each of them once.
Corresponds(rs, records) ==
  ToSet(Ids(records)) = ToSet(Ids(rs)) /\ Len(records) = Len(rs)

\* TaskOutputValidator.validate for the rows of a pack.
Valid(rs, records) == MeetsRules(records) /\ Corresponds(rs, records)

\* Mutant of InOrder: the records stay in the order of the output.
AsReturned(rs, records) == records

\* _order_records: the records in the order of the rows.
InOrder(rs, records) ==
  [i \in 1 .. Len(rs) |->
     CHOOSE r \in ToSet(records) : r.id = rs[i].id]

AllValid(outputs) ==
  \A i \in 1 .. Len(prepared.packs) : Valid(RowsOf(prepared.packs[i]), outputs[i])

\* VALIDATED: validate_packs accepts the records of all packs together or none.
ValidateResponses ==
  /\ At(3) /\ Loaded
  /\ IF AllValid(artifact)
     THEN Advance(FlattenSeq([i \in 1 .. Len(prepared.packs) |->
                    InOrder(RowsOf(prepared.packs[i]), artifact[i])]))
     ELSE End("validation-failed") /\ UNCHANGED preparation

\* Mutant of Cut: every slice starts at the first record.
CutFromStart(records) ==
  [i \in 1 .. Len(prepared.packs) |->
     SubSeq(records, 1, prepared.packs[i].last - prepared.packs[i].first + 1)]

\* _validate_responses of accepted records: they are cut at the sizes of the packs.
Cut(records) ==
  [i \in 1 .. Len(prepared.packs) |->
     SubSeq(records, prepared.packs[i].first, prepared.packs[i].last)]

\* COMPLETED: the accepted records are validated again before they are written.
\* Records that are not accepted leave nothing to write, which raises.
WriteAccepted ==
  /\ At(4) /\ Loaded
  /\ IF AllValid(Cut(artifact))
     THEN Advance(artifact)
     ELSE End("retry-exhausted") /\ UNCHANGED preparation

\* The worker stops: only checkpoints and stored payloads are left, for a process
\* that may have another definition or no rules.
Interrupt ==
  /\ ending = "none" /\ stage < 5
  /\ registered' \in Definitions \cup {NoDefinition}
  /\ rules' \in BOOLEAN
  /\ pc' = "idle" /\ first' = 1 /\ next' = 1 /\ packs' = <<>>
  /\ UNCHANGED <<invocation, stage, ending, stored, prepared, artifact>>

Prepare == Resolve \/ Join \/ Split \/ Oversized \/ ClosePacks \/ Store \/ CheckpointPrepared

Next ==
  \/ Prepare
  \/ Unloadable
  \/ InvokePacks \/ ParseResponses \/ ValidateResponses \/ WriteAccepted
  \/ Interrupt

Spec == Init /\ [][Next]_vars

--------------------------------------------------------------------------------
(* Properties *)

\* Packs cut the rows of an invocation, in order and without a gap, each pack is
\* not empty and fits, and none could have taken the next row too.
Greedy(d, ps) ==
  /\ Len(ps) > 0 /\ ps[1].first = 1 /\ ps[Len(ps)].last = Len(Rows)
  /\ \A i \in 1 .. Len(ps) :
       /\ ps[i].first <= ps[i].last
       /\ Fits(d, RowsOf(ps[i]))
       /\ i < Len(ps) =>
            /\ ps[i + 1].first = ps[i].last + 1
            /\ ~ Fits(d, Slice(ps[i].first, ps[i].last + 1))

\* A prepared task holds the greedy packs of its rows under its definition
\* (test_task_packing.py, property 33).
PreparedIsGreedy == stage > 0 => Greedy(prepared.definition, prepared.packs)

\* Accepted records name the rows of the invocation, each once and in its order,
\* whatever order the model returned them in and wherever the packs were cut.
AcceptedInOrder ==
  stage >= 4 => Ids(artifact) = Ids(Rows) /\ \A i \in 1 .. Len(artifact) : artifact[i].ok

\* Records accepted once are accepted again before they are written: the item can
\* only end otherwise when the definition or the rules are gone from the process.
AcceptedStaysAccepted ==
  [][stage = 4 /\ rules /\ ending' # ending => ending' = "policy-rejected"]_vars
================================================================================
