--------------------------- MODULE InteractiveProofs ---------------------------
(***************************************************************************)
(* Proofs about Interactive, for any requests, names, limits and bounds.   *)
(*                                                                         *)
(* A response is right because of what the coordinator knows when it       *)
(* builds it: PhaseInv says what the aggregator holds and how far the      *)
(* tasks are in each phase of execute, and ResponseInv keeps what the      *)
(* response was made of.  A step of a coordinator touches one request      *)
(* (Local), a step of a task one task, and that one forwards (TaskChange). *)
(* What a task holds is given back because a name is in use by one call    *)
(* at a time (OneCallPerName), which the lease itself sees to.             *)
(*                                                                         *)
(* The second half is about BudgetLedger: sums over finitely many          *)
(* reservations, the balance of its books for all its users, and that the  *)
(* interactive path uses it by its transactions only.                      *)
(***************************************************************************)
EXTENDS Interactive, FiniteSetTheorems, WellFoundedInduction, TLAPS

\* The phases after the response was built.
Answered == {"telemetry", "closing", "returned"}

Phases == {"new", "accepted", "query", "models"} \cup Answered

Results == {"none", "ok", "late", "no_eligible_model", "capacity_unavailable"} \cup Reasons

TaskState == [pc: {"none", "created", "running", "cancelled", "ended"}, result: Results]

TypeInv ==
  /\ clock \in Nat /\ tasked \in Tasked
  /\ phase \in [Executions -> Phases]
  /\ deadline \in [Executions -> Nat] /\ begun \in [Executions -> Nat] /\ due \in [Executions -> Int]
  /\ DOMAIN aggregator = Executions /\ aggregator = [r \in Executions |-> aggregator[r]]
  /\ DOMAIN response = Executions /\ response = [r \in Executions |-> response[r]]
  /\ task \in [Calls -> TaskState]

\* A task has a result when it has ended.
TaskInv == \A c \in Calls : task[c].pc = "ended" <=> task[c].result # "none"

ModelWork(r) == ModelNames[r] \cup PackNames[r]

\* What was asked for at admission, and what the models are asked for after the read.
Asked(r) == Aggregation({"query"} \cup IF r \in tasked THEN {"prepare"} ELSE ModelOps(r))
AfterRead(r) == With(Aggregation({"query"} \cup ModelOps(r)), {"query"}, "completed")

\* What may be pending when the tasks have been made.
AfterLoop(r) == {With(AfterRead(r), late, "deadline_exceeded") : late \in SUBSET ModelOps(r)}

\* What the coordinator knows in each of its phases.
PhaseInv(r) ==
  /\ phase[r] \notin Answered => response[r] = NoResponse
  /\ phase[r] = "new" => aggregator[r] = <<>>
  /\ phase[r] \in {"accepted", "query"} => aggregator[r] = Asked(r)
  /\ phase[r] = "models" => aggregator[r] \in AfterLoop(r) /\ QueryTask(r).result = "ok"
  /\ phase[r] \in {"new", "accepted"} => QueryTask(r) = NoTask
  /\ phase[r] \in {"new", "accepted", "query"} => \A o \in ModelWork(r) : task[<<r, o>>] = NoTask
  /\ phase[r] \in {"query", "models"} =>
       /\ clock <= due[r] /\ due[r] = WaitEnds(r)
       /\ \A c \in Calls : c[1] = r => task[c].pc # "cancelled" /\ task[c].result # "late"

\* An aggregation that accounts for a request: its operations, decided by "values",
\* and what it calls completed is what a task ended with.
Accounts(r, agg, values) ==
  /\ agg = [o \in DOMAIN agg |-> agg[o]]
  /\ \A o \in DOMAIN agg : agg[o] \in values
  /\ \/ DOMAIN agg = {"query"} \cup ModelOps(r)
     \/ r \in tasked /\ DOMAIN agg = {"query", "prepare"}
  /\ \A o \in DOMAIN agg : agg[o] = "completed" =>
       <<r, o>> \in Calls /\ task[<<r, o>>].result = "ok"

Decided == {"completed"} \cup Reasons

\* The response is the aggregation as it was finalized.
ResponseInv(r) ==
  phase[r] \in Answered =>
    LET agg  == aggregator[r]
        done == {o \in DOMAIN agg : agg[o] = "completed"}
    IN /\ Accounts(r, agg, Decided)
       /\ response[r].results = done
       /\ response[r].omitted = [o \in DOMAIN agg \ done |-> agg[o]]
       /\ response[r].complete <=> done = DOMAIN agg
       /\ response[r].at <= deadline[r] - ResponseReserve \/ response[r].at = begun[r]

CoordinatorInv ==
  /\ TypeInv /\ TaskInv
  /\ \A r \in Executions : PhaseInv(r) /\ ResponseInv(r)

Busy(c) == task[c].pc \in {"running", "cancelled"}

\* A name is in use by one call at a time.
OneCallPerName == \A c, d \in ModelCalls : Busy(c) /\ Busy(d) /\ c[2] = d[2] => c = d

LeakInv ==
  /\ DOMAIN reservations = Ids
  /\ OneCallPerName
  /\ NothingLeaks

--------------------------------------------------------------------------------
(* Calls and operations *)

LEMMA CallParts ==
  ASSUME NEW c \in Calls
  PROVE  /\ c[1] \in Executions /\ c = <<c[1], c[2]>>
         /\ c[2] = "query" \/ c[2] \in ModelWork(c[1])
BY DEF Calls, ModelWork

LEMMA CallOf ==
  ASSUME NEW r \in Executions, NEW o, o = "query" \/ o \in ModelWork(r)
  PROVE  <<r, o>> \in Calls
BY DEF Calls, ModelWork

LEMMA OperationNames ==
  ASSUME NEW r \in Executions
  PROVE  /\ ModelOps(r) \subseteq ModelWork(r) /\ ModelWork(r) \subseteq Names
         /\ "query" \notin ModelWork(r) /\ "prepare" \notin ModelWork(r)
<1>1. ModelWork(r) \subseteq Names
  BY DEF ModelWork, Names
<1> QED
  BY <1>1, InteractiveAssumption DEF ModelOps, ModelWork

LEMMA ModelCallParts ==
  ASSUME NEW c \in ModelCalls
  PROVE  c \in Calls /\ c[2] \in Names /\ c \in Ids
<1>1. c \in Calls /\ c[2] # "query" /\ c \in Ids
  BY InteractiveAssumption DEF ModelCalls
<1> QED
  BY <1>1, CallParts, OperationNames

LEMMA ReasonIsNamed ==
  ASSUME NEW result \in Results \ {"none", "ok", "late"}
  PROVE  Reason(result) \in Reasons
BY DEF Reason, Results, Reasons

LEMMA InitCorrect ==
  ASSUME Init
  PROVE  CoordinatorInv /\ LeakInv
<1>1. \A r \in Executions : <<r, "query">> \in Calls /\
        \A o \in ModelWork(r) : <<r, o>> \in Calls
  BY CallOf
<1>2. NoTask \in TaskState
  BY DEF NoTask, TaskState, Results
<1>3. TypeInv
  BY <1>2 DEF Init, TypeInv, Phases, Answered
<1>4. TaskInv
  BY DEF Init, TaskInv, NoTask
<1>5. ASSUME NEW r \in Executions
      PROVE  PhaseInv(r) /\ ResponseInv(r)
  BY <1>1 DEF Init, PhaseInv, ResponseInv, QueryTask, Answered
<1>6. \A c \in ModelCalls : ~ Busy(c) /\ reservations[c].state = "none"
  BY ModelCallParts DEF Init, Busy, NoTask, BudgetInit, NoReservation
<1>7. DOMAIN reservations = Ids /\ DOMAIN leases = {}
  BY DEF Init, BudgetInit, Capacity!Init
<1> QED
  BY <1>3, <1>4, <1>5, <1>6, <1>7 DEF CoordinatorInv, LeakInv, OneCallPerName, NothingLeaks, Busy

--------------------------------------------------------------------------------
(* A step of a coordinator *)

\* What a step of request r leaves alone.
Local(r) ==
  /\ UNCHANGED <<clock, tasked, deadline>>
  /\ \A q \in Executions \ {r} :
       /\ phase'[q] = phase[q] /\ begun'[q] = begun[q] /\ due'[q] = due[q]
       /\ aggregator'[q] = aggregator[q] /\ response'[q] = response[q]
  /\ \A c \in Calls : c[1] # r => task'[c] = task[c]

LEMMA OthersUndisturbed ==
  ASSUME CoordinatorInv, NEW r \in Executions, Local(r), NEW q \in Executions, q # r
  PROVE  PhaseInv(q)' /\ ResponseInv(q)'
<1>1. \A c \in Calls : c[1] = q => task'[c] = task[c]
  BY DEF Local
<1>2. \A o : <<q, o>> \in Calls => task'[<<q, o>>] = task[<<q, o>>]
  BY <1>1
<1>3. <<q, "query">> \in Calls /\ \A o \in ModelWork(q) : <<q, o>> \in Calls
  BY CallOf
<1>4. /\ phase'[q] = phase[q] /\ begun'[q] = begun[q] /\ due'[q] = due[q]
      /\ aggregator'[q] = aggregator[q] /\ response'[q] = response[q]
      /\ clock' = clock /\ tasked' = tasked /\ deadline' = deadline
  BY DEF Local
<1>5. PhaseInv(q) /\ ResponseInv(q)
  BY DEF CoordinatorInv
<1>6. PhaseInv(q)'
  <2>1. (Asked(q))' = Asked(q) /\ (AfterLoop(q))' = AfterLoop(q) /\ (WaitEnds(q))' = WaitEnds(q)
    BY <1>4 DEF Asked, AfterLoop, AfterRead, WaitEnds, ModelOps, With, Aggregation
  <2>2. (QueryTask(q))' = QueryTask(q)
    BY <1>2, <1>3 DEF QueryTask
  <2> QED
    BY <1>1, <1>2, <1>3, <1>4, <1>5, <2>1, <2>2 DEF PhaseInv
<1>7. ResponseInv(q)'
  <2>1. Accounts(q, aggregator[q], Decided) => Accounts(q, aggregator[q], Decided)'
    BY <1>2, <1>4 DEF Accounts, ModelOps
  <2> QED
    BY <1>4, <1>5, <2>1 DEF ResponseInv
<1> QED
  BY <1>6, <1>7

LEMMA WithDecides ==
  ASSUME NEW agg, NEW ops, NEW value
  PROVE  /\ DOMAIN With(agg, ops, value) = DOMAIN agg
         /\ \A o \in DOMAIN agg :
              With(agg, ops, value)[o] = IF o \in ops THEN value ELSE agg[o]
         /\ With(agg, ops, value) =
              [o \in DOMAIN With(agg, ops, value) |-> With(agg, ops, value)[o]]
BY DEF With

\* The end of execute: whatever was undecided is omitted, and the response says so.
LEMMA RespondAccounts ==
  ASSUME TypeInv, TaskInv, NEW r \in Executions, NEW agg, Respond(r, agg),
         Accounts(r, agg, Decided \cup {"pending"}),
         clock <= WaitEnds(r) \/ begun'[r] = clock,
         begun' \in [Executions -> Nat], Local(r)
  PROVE  TypeInv' /\ TaskInv' /\ PhaseInv(r)' /\ ResponseInv(r)'
<1> DEFINE final == Finalized(agg)
           done  == {o \in DOMAIN final : final[o] = "completed"}
<1>1. DOMAIN final = DOMAIN agg /\ final = [o \in DOMAIN final |-> final[o]]
  BY WithDecides DEF Finalized
<1>2. \A o \in DOMAIN agg :
        final[o] = IF agg[o] = "pending" THEN "deadline_exceeded" ELSE agg[o]
  BY WithDecides DEF Finalized, PendingOf
<1>3. \A c \in Calls : task'[c] \in TaskState /\
        (task'[c].pc = "ended" <=> task'[c].result # "none") /\
        (task[c].result = "ok" => task'[c].result = "ok")
  <2> SUFFICES ASSUME NEW c \in Calls
               PROVE  task'[c] \in TaskState /\
                      (task'[c].pc = "ended" <=> task'[c].result # "none") /\
                      (task[c].result = "ok" => task'[c].result = "ok")
    OBVIOUS
  <2>1. /\ task[c] \in TaskState
        /\ task[c].pc = "ended" <=> task[c].result # "none"
    BY DEF TypeInv, TaskInv
  <2>2. task'[c] = Cancelled(r, task)[c]
    BY DEF Respond
  <2>3. \/ task'[c] = task[c]
        \/ task[c].pc = "created" /\ task'[c] = [pc |-> "ended", result |-> "late"]
        \/ task[c].pc = "running" /\ task'[c] = [task[c] EXCEPT !.pc = "cancelled"]
    BY <2>2 DEF Cancelled
  <2> QED
    BY <2>1, <2>3 DEF TaskState, Results
<1>4. TypeInv'
  <2>1. task' \in [Calls -> TaskState]
    BY <1>3 DEF Respond, Cancelled
  <2> QED
    BY <2>1 DEF TypeInv, Respond, Phases, Answered
<1>5. TaskInv'
  BY <1>3 DEF TaskInv
<1>6. phase'[r] = "telemetry"
  BY DEF TypeInv, Respond
<1>7. PhaseInv(r)'
  BY <1>6 DEF PhaseInv, Answered
<1>8. ResponseInv(r)'
  <2>1. aggregator'[r] = final
    BY DEF TypeInv, Respond
  <2>2. /\ response'[r].results = done
        /\ response'[r].omitted = [o \in DOMAIN final \ done |-> final[o]]
        /\ response'[r].complete <=> done = DOMAIN final
        /\ response'[r].at = clock
    BY DEF TypeInv, Respond
  <2>3. Accounts(r, final, Decided)'
    <3>1. \A o \in DOMAIN final : final[o] \in Decided
      BY <1>1, <1>2 DEF Accounts, Decided, Reasons
    <3>2. \A o \in DOMAIN final : final[o] = "completed" =>
            <<r, o>> \in Calls /\ task'[<<r, o>>].result = "ok"
      BY <1>1, <1>2, <1>3 DEF Accounts
    <3>3. (ModelOps(r))' = ModelOps(r) /\ tasked' = tasked
      BY DEF Local, ModelOps
    <3> QED
      BY <1>1, <3>1, <3>2, <3>3 DEF Accounts, Decided, Reasons
  <2>4. response'[r].at <= deadline'[r] - ResponseReserve \/ response'[r].at = begun'[r]
    BY <2>2 DEF Local, WaitEnds
  <2> QED
    BY <2>1, <2>2, <2>3, <2>4 DEF ResponseInv
<1> QED
  BY <1>4, <1>5, <1>7, <1>8

LEMMA RespondIsLocal ==
  ASSUME TypeInv, NEW r \in Executions, NEW agg, Respond(r, agg),
         begun' = begun \/ begun' = [begun EXCEPT ![r] = clock]
  PROVE  Local(r) /\ begun' \in [Executions -> Nat]
<1>1. \A c \in Calls : c[1] # r => task'[c] = task[c]
  BY DEF Respond, Cancelled
<1> QED
  BY <1>1 DEF Respond, Local, TypeInv

LEMMA AskedAccounts ==
  ASSUME NEW r \in Executions
  PROVE  Accounts(r, Asked(r), {"pending"}) /\ Accounts(r, Asked(r), Decided \cup {"pending"})
BY DEF Accounts, Asked, Aggregation

\* What the read has decided stands for a task that ended with a result.
LEMMA AfterReadAccounts ==
  ASSUME NEW r \in Executions, QueryTask(r).result = "ok"
  PROVE  /\ Accounts(r, AfterRead(r), {"completed", "pending"})
         /\ DOMAIN AfterRead(r) = {"query"} \cup ModelOps(r)
         /\ AfterRead(r)["query"] = "completed"
         /\ \A o \in ModelOps(r) : AfterRead(r)[o] = "pending"
<1>1. <<r, "query">> \in Calls
  BY CallOf
<1>2. "query" \notin ModelOps(r)
  BY OperationNames
<1> QED
  BY <1>1, <1>2 DEF Accounts, AfterRead, With, Aggregation, QueryTask

LEMMA AfterLoopAccounts ==
  ASSUME NEW r \in Executions, QueryTask(r).result = "ok", NEW agg \in AfterLoop(r)
  PROVE  /\ Accounts(r, agg, {"completed", "pending", "deadline_exceeded"})
         /\ agg["query"] = "completed"
         /\ \A o \in DOMAIN agg \ {"query"} : agg[o] # "completed"
<1>1. PICK late \in SUBSET ModelOps(r) : agg = With(AfterRead(r), late, "deadline_exceeded")
  BY DEF AfterLoop
<1>2. "query" \notin ModelOps(r)
  BY OperationNames
<1>3. /\ DOMAIN agg = DOMAIN AfterRead(r) /\ agg = [o \in DOMAIN agg |-> agg[o]]
      /\ \A o \in DOMAIN agg :
           agg[o] = IF o \in late THEN "deadline_exceeded" ELSE AfterRead(r)[o]
  BY <1>1, WithDecides
<1>4. Accounts(r, AfterRead(r), {"completed", "pending"}) /\ "query" \in DOMAIN agg
  BY <1>3, AfterReadAccounts
<1>5. Accounts(r, agg, {"completed", "pending", "deadline_exceeded"})
  BY <1>3, <1>4 DEF Accounts
<1> QED
  BY <1>2, <1>3, <1>5, AfterReadAccounts

LEMMA BeginStep ==
  ASSUME CoordinatorInv, NEW r \in Executions, Begin(r)
  PROVE  Local(r) /\ TypeInv' /\ TaskInv' /\ PhaseInv(r)' /\ ResponseInv(r)'
<1>1. /\ TypeInv /\ TaskInv /\ PhaseInv(r) /\ phase[r] = "accepted"
      /\ begun' = [begun EXCEPT ![r] = clock] /\ begun'[r] = clock
  BY DEF CoordinatorInv, Begin, TypeInv
<1>2. aggregator[r] = Asked(r)
  BY <1>1 DEF PhaseInv
<1>3. CASE clock >= deadline[r] - ResponseReserve
  <2>1. Respond(r, aggregator[r])
    BY <1>3 DEF Begin
  <2>2. Local(r) /\ begun' \in [Executions -> Nat]
    BY <1>1, <2>1, RespondIsLocal
  <2>3. Accounts(r, aggregator[r], Decided \cup {"pending"})
    BY <1>2, AskedAccounts
  <2> QED
    BY <1>1, <2>1, <2>2, <2>3, RespondAccounts
<1>4. CASE ~ clock >= deadline[r] - ResponseReserve
  <2>1. /\ task' = [task EXCEPT ![<<r, "query">>].pc = "running"]
        /\ phase' = [phase EXCEPT ![r] = "query"]
        /\ due' = [due EXCEPT ![r] = WaitEnds(r)]
        /\ UNCHANGED <<clock, tasked, deadline, aggregator, response>>
    BY <1>4 DEF Begin
  <2>2. /\ <<r, "query">> \in Calls /\ \A c \in Calls : c = <<c[1], c[2]>>
        /\ "query" \notin ModelWork(r)
        /\ \A o \in ModelWork(r) : <<r, o>> \in Calls
    BY CallParts, CallOf, OperationNames
  <2>3. task[<<r, "query">>] = NoTask
    BY <1>1 DEF PhaseInv, QueryTask
  <2>4. task'[<<r, "query">>] = [pc |-> "running", result |-> "none"]
    BY <1>1, <2>1, <2>2, <2>3 DEF TypeInv, NoTask
  <2>5. \A c \in Calls : c # <<r, "query">> => task'[c] = task[c]
    BY <1>1, <2>1 DEF TypeInv
  <2>6. Local(r)
    BY <1>1, <2>1, <2>5 DEF Local, TypeInv
  <2>7. deadline[r] \in Nat /\ clock \in Nat /\ ResponseReserve \in Nat
    BY <1>1, InteractiveAssumption DEF TypeInv
  <2>8. TypeInv'
    <3>1. task' \in [Calls -> TaskState]
      <4>1. task \in [Calls -> TaskState]
        BY <1>1 DEF TypeInv
      <4>2. [task[<<r, "query">>] EXCEPT !.pc = "running"] \in TaskState
        BY <2>3 DEF TaskState, Results, NoTask
      <4> QED
        BY <2>1, <4>1, <4>2
    <3>2. WaitEnds(r) \in Int
      BY <2>7 DEF WaitEnds
    <3> QED
      BY <1>1, <2>1, <3>1, <3>2 DEF TypeInv, Phases, Answered
  <2>9. TaskInv'
    BY <1>1, <2>2, <2>4, <2>5 DEF TaskInv
  <2>10. PhaseInv(r)' /\ ResponseInv(r)'
    <3>1. phase'[r] = "query" /\ due'[r] = WaitEnds(r) /\ (WaitEnds(r))' = WaitEnds(r)
      BY <1>1, <2>1 DEF TypeInv, WaitEnds
    <3>2. clock <= WaitEnds(r)
      BY <1>4, <2>7 DEF WaitEnds
    <3>3. aggregator'[r] = (Asked(r))' /\ response'[r] = NoResponse
      BY <1>1, <1>2, <2>1 DEF PhaseInv, Asked, ModelOps, Answered
    <3>4. \A o \in ModelWork(r) : task'[<<r, o>>] = NoTask
      BY <1>1, <2>2, <2>5 DEF PhaseInv
    <3>5. \A c \in Calls : c[1] = r => task'[c].pc # "cancelled" /\ task'[c].result # "late"
      BY <2>2, <2>4, <3>4, CallParts DEF NoTask
    <3>6. ResponseInv(r)'
      BY <3>1 DEF ResponseInv, Answered
    <3> QED
      BY <2>1, <3>1, <3>2, <3>3, <3>4, <3>5, <3>6 DEF PhaseInv
  <2> QED
    BY <2>6, <2>8, <2>9, <2>10
<1> QED
  BY <1>3, <1>4

LEMMA QueryTimesOutStep ==
  ASSUME CoordinatorInv, NEW r \in Executions, QueryTimesOut(r)
  PROVE  Local(r) /\ TypeInv' /\ TaskInv' /\ PhaseInv(r)' /\ ResponseInv(r)'
<1>1. /\ TypeInv /\ TaskInv /\ PhaseInv(r) /\ phase[r] = "query" /\ begun' = begun
      /\ Respond(r, aggregator[r])
  BY DEF CoordinatorInv, QueryTimesOut
<1>2. aggregator[r] = Asked(r) /\ clock <= WaitEnds(r)
  BY <1>1 DEF PhaseInv
<1>3. Local(r) /\ begun' \in [Executions -> Nat]
  BY <1>1, RespondIsLocal
<1>4. Accounts(r, aggregator[r], Decided \cup {"pending"})
  BY <1>2, AskedAccounts
<1> QED
  BY <1>1, <1>2, <1>3, <1>4, RespondAccounts

\* A task of the waiting request ended by itself: with a result or for a reason.
LEMMA OwnResult ==
  ASSUME TypeInv, TaskInv, NEW r \in Executions, PhaseInv(r), phase[r] \in {"query", "models"},
         NEW o, <<r, o>> \in Calls,
         task[<<r, o>>].pc = "ended", task[<<r, o>>].result # "ok"
  PROVE  Reason(task[<<r, o>>].result) \in Reasons
<1>1. task[<<r, o>>].result # "late"
  BY DEF PhaseInv
<1>2. task[<<r, o>>].result \in Results \ {"none", "ok", "late"}
  BY <1>1 DEF TypeInv, TaskInv, TaskState
<1> QED
  BY <1>2, ReasonIsNamed

LEMMA QueryFailsStep ==
  ASSUME CoordinatorInv, NEW r \in Executions, QueryFails(r)
  PROVE  Local(r) /\ TypeInv' /\ TaskInv' /\ PhaseInv(r)' /\ ResponseInv(r)'
<1> DEFINE reason == Reason(QueryTask(r).result)
           agg == With(aggregator[r], {"query"}, reason)
           last == With(agg, PendingOf(agg), "dependency_failed")
<1>1. /\ TypeInv /\ TaskInv /\ PhaseInv(r) /\ phase[r] = "query" /\ begun' = begun
      /\ Respond(r, last)
  BY DEF CoordinatorInv, QueryFails
<1>2. aggregator[r] = Asked(r) /\ clock <= WaitEnds(r)
  BY <1>1 DEF PhaseInv
<1>3. Local(r) /\ begun' \in [Executions -> Nat]
  BY <1>1, RespondIsLocal
<1>4. reason \in Reasons
  BY <1>1, CallOf, OwnResult DEF QueryFails, QueryTask
<1>5. /\ DOMAIN last = DOMAIN Asked(r)
      /\ \A o \in DOMAIN last : last[o] \in {reason, "dependency_failed"}
      /\ last = [o \in DOMAIN last |-> last[o]]
  <2>1. \A o \in DOMAIN Asked(r) : Asked(r)[o] = "pending"
    BY DEF Asked, Aggregation
  <2>2. DOMAIN agg = DOMAIN Asked(r) /\
        \A o \in DOMAIN agg : agg[o] = IF o = "query" THEN reason ELSE "pending"
    BY <1>2, <2>1, WithDecides
  <2> QED
    BY <1>4, <2>2, WithDecides DEF PendingOf
<1>6. Accounts(r, last, Decided \cup {"pending"})
  <2>1. Accounts(r, Asked(r), {"pending"})
    BY AskedAccounts
  <2>2. \A o \in DOMAIN last : last[o] \in Reasons /\ last[o] # "completed"
    BY <1>4, <1>5 DEF Reasons
  <2> QED
    BY <1>5, <2>1, <2>2 DEF Accounts, Decided
<1> QED
  BY <1>1, <1>2, <1>3, <1>6, RespondAccounts

LEMMA RunModelsStep ==
  ASSUME CoordinatorInv, NEW r \in Executions, phase[r] = "query",
         QueryTask(r).pc = "ended", QueryTask(r).result = "ok",
         RunModels(r, AfterRead(r)), begun' = begun
  PROVE  Local(r) /\ TypeInv' /\ TaskInv' /\ PhaseInv(r)' /\ ResponseInv(r)'
<1>1. TypeInv /\ TaskInv /\ PhaseInv(r) /\ clock <= WaitEnds(r)
  BY DEF CoordinatorInv, PhaseInv
<1>2. PICK late \in OutOfTime(r) :
        LET timely == ModelOps(r) \ late
            known  == With(AfterRead(r), late, "deadline_exceeded")
        IN IF timely = {} THEN Respond(r, known)
           ELSE /\ aggregator' = [aggregator EXCEPT ![r] = known]
                /\ task' = [c \in Calls |-> IF c[1] = r /\ c[2] \in timely
                                            THEN [NoTask EXCEPT !.pc = "created"] ELSE task[c]]
                /\ phase' = [phase EXCEPT ![r] = "models"]
                /\ due' = [due EXCEPT ![r] = WaitEnds(r)]
                /\ UNCHANGED <<clock, tasked, deadline, response, capacityVars, budgetVars>>
  BY DEF RunModels
<1> DEFINE timely == ModelOps(r) \ late
           known  == With(AfterRead(r), late, "deadline_exceeded")
<1>3. late \in SUBSET ModelOps(r) /\ clock <= WaitEnds(r)
  BY <1>1 DEF OutOfTime
<1>4. known \in AfterLoop(r)
  BY <1>3 DEF AfterLoop
<1>5. CASE timely = {}
  <2>1. Respond(r, known)
    BY <1>2, <1>5
  <2>2. Local(r) /\ begun' \in [Executions -> Nat]
    BY <1>1, <2>1, RespondIsLocal
  <2>3. Accounts(r, known, Decided \cup {"pending"})
    BY <1>4, AfterLoopAccounts DEF Accounts, Decided, Reasons
  <2> QED
    BY <1>1, <2>1, <2>2, <2>3, RespondAccounts
<1>6. CASE timely # {}
  <2> DEFINE created == [pc |-> "created", result |-> "none"]
  <2>1. /\ aggregator' = [aggregator EXCEPT ![r] = known]
        /\ task' = [c \in Calls |-> IF c[1] = r /\ c[2] \in timely
                                    THEN [NoTask EXCEPT !.pc = "created"] ELSE task[c]]
        /\ phase' = [phase EXCEPT ![r] = "models"]
        /\ due' = [due EXCEPT ![r] = WaitEnds(r)]
        /\ UNCHANGED <<clock, tasked, deadline, response>>
    BY <1>2, <1>6
  <2>2. \A c \in Calls : IF c[1] = r /\ c[2] \in timely
                         THEN task'[c] = created ELSE task'[c] = task[c]
    BY <2>1 DEF NoTask
  <2>3. Local(r)
    BY <1>1, <2>1, <2>2 DEF Local, TypeInv
  <2>4. deadline[r] \in Nat /\ ResponseReserve \in Nat
    BY <1>1, InteractiveAssumption DEF TypeInv
  <2>5. TypeInv'
    <3>1. created \in TaskState
      BY DEF TaskState, Results
    <3>2. task' \in [Calls -> TaskState]
      BY <1>1, <2>1, <2>2, <3>1 DEF TypeInv
    <3>3. WaitEnds(r) \in Int
      BY <2>4 DEF WaitEnds
    <3> QED
      BY <1>1, <2>1, <3>2, <3>3 DEF TypeInv, Phases
  <2>6. TaskInv'
    BY <1>1, <2>2 DEF TaskInv
  <2>7. phase'[r] = "models" /\ due'[r] = WaitEnds(r) /\ (WaitEnds(r))' = WaitEnds(r)
    BY <1>1, <2>1 DEF TypeInv, WaitEnds
  <2>8. aggregator'[r] \in (AfterLoop(r))' /\ response'[r] = NoResponse
    <3>1. (AfterLoop(r))' = AfterLoop(r)
      BY <2>1 DEF AfterLoop, AfterRead, ModelOps
    <3>2. aggregator'[r] = known /\ response'[r] = NoResponse
      BY <1>1, <2>1 DEF PhaseInv, TypeInv, Answered
    <3> QED
      BY <1>4, <3>1, <3>2
  <2>9. task'[<<r, "query">>] = task[<<r, "query">>]
    BY <2>2, CallOf, OperationNames
  <2>10. \A c \in Calls : c[1] = r => task'[c].pc # "cancelled" /\ task'[c].result # "late"
    BY <1>1, <2>2 DEF PhaseInv
  <2>11. ResponseInv(r)'
    BY <2>7 DEF ResponseInv, Answered
  <2> HIDE DEF known, timely, created
  <2> QED
    BY <1>1, <2>1, <2>3, <2>5, <2>6, <2>7, <2>8, <2>9, <2>10, <2>11
       DEF PhaseInv, QueryTask, Answered
<1> QED
  BY <1>5, <1>6

LEMMA QuerySucceedsStep ==
  ASSUME CoordinatorInv, NEW r \in Executions, QuerySucceeds(r)
  PROVE  Local(r) /\ TypeInv' /\ TaskInv' /\ PhaseInv(r)' /\ ResponseInv(r)'
<1> DEFINE Read(ops) == With(Aggregation({"query"} \cup ops), {"query"}, "completed")
           failed == With(Read({"prepare"}), {"prepare"}, "validation_failed")
<1>1. /\ TypeInv /\ TaskInv /\ PhaseInv(r) /\ phase[r] = "query" /\ begun' = begun
      /\ QueryTask(r).pc = "ended" /\ QueryTask(r).result = "ok"
  BY DEF CoordinatorInv, QuerySucceeds
<1>2. aggregator[r] = Asked(r) /\ clock <= WaitEnds(r)
  BY <1>1 DEF PhaseInv
<1>3. ASSUME r \in tasked, Respond(r, failed)
      PROVE  Local(r) /\ TypeInv' /\ TaskInv' /\ PhaseInv(r)' /\ ResponseInv(r)'
  <2>1. Local(r) /\ begun' \in [Executions -> Nat]
    BY <1>1, <1>3, RespondIsLocal
  <2>2. /\ DOMAIN failed = {"query", "prepare"} /\ failed = [o \in DOMAIN failed |-> failed[o]]
        /\ failed["query"] = "completed" /\ failed["prepare"] = "validation_failed"
    BY DEF With, Aggregation
  <2>3. <<r, "query">> \in Calls /\ task[<<r, "query">>].result = "ok"
    BY <1>1, CallOf DEF QueryTask
  <2>4. Accounts(r, failed, Decided \cup {"pending"})
    BY <1>3, <2>2, <2>3 DEF Accounts, Decided, Reasons
  <2> QED
    BY <1>1, <1>2, <1>3, <2>1, <2>4, RespondAccounts
<1>4. ASSUME RunModels(r, AfterRead(r))
      PROVE  Local(r) /\ TypeInv' /\ TaskInv' /\ PhaseInv(r)' /\ ResponseInv(r)'
  BY <1>1, <1>4, RunModelsStep
<1>5. r \notin tasked => With(aggregator[r], {"query"}, "completed") = AfterRead(r)
  BY <1>2 DEF Asked, AfterRead
<1>6. Read(ModelOps(r)) = AfterRead(r)
  BY DEF AfterRead
<1>7. (r \in tasked /\ Respond(r, failed)) \/ RunModels(r, AfterRead(r))
  BY <1>5, <1>6 DEF QuerySucceeds
<1> QED
  BY <1>3, <1>4, <1>7

LEMMA CollectModelsStep ==
  ASSUME CoordinatorInv, NEW r \in Executions, CollectModels(r)
  PROVE  Local(r) /\ TypeInv' /\ TaskInv' /\ PhaseInv(r)' /\ ResponseInv(r)'
<1> DEFINE last == [o \in DOMAIN aggregator[r] |->
              IF o \in PendingOf(aggregator[r]) THEN CollectedOutcome(<<r, o>>)
              ELSE aggregator[r][o]]
<1>1. /\ TypeInv /\ TaskInv /\ PhaseInv(r) /\ phase[r] = "models" /\ begun' = begun
      /\ Respond(r, last)
  BY DEF CoordinatorInv, CollectModels
<1>2. aggregator[r] \in AfterLoop(r) /\ clock <= WaitEnds(r) /\ QueryTask(r).result = "ok"
  BY <1>1 DEF PhaseInv
<1>3. Local(r) /\ begun' \in [Executions -> Nat]
  BY <1>1, RespondIsLocal
<1>4. /\ Accounts(r, aggregator[r], {"completed", "pending", "deadline_exceeded"})
      /\ DOMAIN aggregator[r] = {"query"} \cup ModelOps(r)
      /\ aggregator[r]["query"] = "completed"
  <2>1. DOMAIN aggregator[r] = {"query"} \cup ModelOps(r)
    <3>1. PICK late \in SUBSET ModelOps(r) :
            aggregator[r] = With(AfterRead(r), late, "deadline_exceeded")
      BY <1>2 DEF AfterLoop
    <3>2. DOMAIN aggregator[r] = DOMAIN AfterRead(r)
      BY <3>1, WithDecides
    <3> QED
      BY <1>2, <3>2, AfterReadAccounts
  <2> QED
    BY <1>2, <2>1, AfterLoopAccounts
<1>5. ASSUME NEW o \in ModelOps(r)
      PROVE  /\ <<r, o>> \in Calls /\ CollectedOutcome(<<r, o>>) \in Decided
             /\ CollectedOutcome(<<r, o>>) = "completed" => task[<<r, o>>].result = "ok"
  <2>1. <<r, o>> \in Calls
    BY CallOf, OperationNames
  <2>2. CASE task[<<r, o>>].pc = "ended" /\ task[<<r, o>>].result # "ok"
    <3>1. Reason(task[<<r, o>>].result) \in Reasons
      BY <1>1, <2>1, <2>2, OwnResult
    <3> QED
      BY <2>1, <2>2, <3>1 DEF CollectedOutcome, Decided, Reasons
  <2> QED
    BY <2>1, <2>2 DEF CollectedOutcome, Decided, Reasons
<1>6. Accounts(r, last, Decided \cup {"pending"})
  <2>1. PendingOf(aggregator[r]) \subseteq ModelOps(r)
    BY <1>4 DEF PendingOf
  <2>2. DOMAIN last = DOMAIN aggregator[r] /\ last = [o \in DOMAIN last |-> last[o]]
    OBVIOUS
  <2>3. \A o \in DOMAIN last : \/ o \in ModelOps(r) /\ last[o] = CollectedOutcome(<<r, o>>)
                               \/ last[o] = aggregator[r][o] /\ last[o] # "pending"
    BY <2>1 DEF PendingOf
  <2> HIDE DEF last
  <2> QED
    BY <1>4, <1>5, <2>2, <2>3 DEF Accounts, Decided, Reasons
<1> QED
  BY <1>1, <1>2, <1>3, <1>6, RespondAccounts

\* Handing the response over changes nothing else.
LEMMA ReturningStep ==
  ASSUME CoordinatorInv, NEW r \in Executions, TelemetryEnds(r) \/ LoopCloses(r)
  PROVE  /\ Local(r) /\ TypeInv' /\ TaskInv' /\ PhaseInv(r)' /\ ResponseInv(r)'
         /\ UNCHANGED <<aggregator, response, task, capacityVars, budgetVars>>
<1>1. TypeInv /\ TaskInv /\ PhaseInv(r) /\ ResponseInv(r)
  BY DEF CoordinatorInv
<1>2. /\ phase[r] \in Answered
      /\ UNCHANGED <<clock, tasked, deadline, begun, due, aggregator, response, task,
                     capacityVars, budgetVars>>
      /\ \E p \in Answered : phase' = [phase EXCEPT ![r] = p]
  BY DEF TelemetryEnds, LoopCloses, Answered
<1>3. phase'[r] \in Answered /\ phase' \in [Executions -> Phases]
      /\ \A q \in Executions \ {r} : phase'[q] = phase[q]
  BY <1>1, <1>2 DEF TypeInv, Phases
<1>4. Local(r) /\ TypeInv' /\ TaskInv'
  BY <1>1, <1>2, <1>3 DEF Local, TypeInv, TaskInv
<1>5. PhaseInv(r)'
  BY <1>3 DEF PhaseInv, Answered
<1>6. ResponseInv(r)'
  BY <1>1, <1>2, <1>3 DEF ResponseInv, Accounts, ModelOps
<1> QED
  BY <1>2, <1>4, <1>5, <1>6

LEMMA CoordinatorMoves ==
  ASSUME CoordinatorInv, NEW r \in Executions, CoordinatorStep(r) \/ TelemetryEnds(r)
  PROVE  CoordinatorInv' /\ Local(r)
<1>1. Local(r) /\ TypeInv' /\ TaskInv' /\ PhaseInv(r)' /\ ResponseInv(r)'
  BY BeginStep, QueryTimesOutStep, QueryFailsStep, QuerySucceedsStep, CollectModelsStep,
     ReturningStep DEF CoordinatorStep
<1>2. \A q \in Executions \ {r} : PhaseInv(q)' /\ ResponseInv(q)'
  BY <1>1, OthersUndisturbed
<1> QED
  BY <1>1, <1>2 DEF CoordinatorInv

--------------------------------------------------------------------------------
(* The other steps *)

AcceptedAt(r) ==
  /\ phase' = [phase EXCEPT ![r] = "accepted"]
  /\ deadline' = [deadline EXCEPT ![r] = clock + Duration]
  /\ aggregator' = [aggregator EXCEPT ![r] = Asked(r)]
  /\ UNCHANGED <<clock, tasked, begun, due, task, response>>

LEMMA AcceptStep ==
  ASSUME CoordinatorInv, NEW r \in Executions, Accept(r)
  PROVE  CoordinatorInv'
<1>1. TypeInv /\ TaskInv /\ PhaseInv(r) /\ phase[r] = "new" /\ AcceptedAt(r)
  BY DEF CoordinatorInv, Accept, AcceptedAt, Asked
<1>2. TypeInv' /\ TaskInv'
  <2>1. clock + Duration \in Nat
    BY <1>1, InteractiveAssumption DEF TypeInv
  <2> QED
    BY <1>1, <2>1 DEF TypeInv, TaskInv, Phases, AcceptedAt
<1>3. ASSUME NEW q \in Executions
      PROVE  PhaseInv(q)' /\ ResponseInv(q)'
  <2>1. /\ (Asked(q))' = Asked(q) /\ (AfterLoop(q))' = AfterLoop(q)
        /\ (QueryTask(q))' = QueryTask(q) /\ (ModelOps(q))' = ModelOps(q)
    BY <1>1 DEF AcceptedAt, Asked, AfterLoop, AfterRead, QueryTask, ModelOps
  <2>2. CASE q = r
    <3>1. phase'[q] = "accepted" /\ aggregator'[q] = Asked(q)
      BY <1>1, <2>2 DEF TypeInv, AcceptedAt
    <3> QED
      BY <1>1, <2>1, <2>2, <3>1 DEF PhaseInv, ResponseInv, AcceptedAt, Answered
  <2>3. CASE q # r
    <3>1. /\ phase'[q] = phase[q] /\ deadline'[q] = deadline[q] /\ aggregator'[q] = aggregator[q]
          /\ UNCHANGED <<clock, tasked, begun, due, task, response>>
      BY <1>1, <2>3 DEF TypeInv, AcceptedAt
    <3>2. PhaseInv(q) /\ ResponseInv(q)
      BY DEF CoordinatorInv
    <3>3. PhaseInv(q)'
      BY <2>1, <3>1, <3>2 DEF PhaseInv, WaitEnds
    <3>4. ResponseInv(q)'
      BY <2>1, <3>1, <3>2 DEF ResponseInv, Accounts
    <3> QED
      BY <3>3, <3>4
  <2> QED
    BY <2>2, <2>3
<1> QED
  BY <1>2, <1>3 DEF CoordinatorInv

LEMMA TickStep ==
  ASSUME CoordinatorInv, Tick
  PROVE  CoordinatorInv'
<1>1. /\ TypeInv /\ TaskInv /\ clock' = clock + 1
      /\ UNCHANGED <<tasked, phase, deadline, begun, due, aggregator, response, task>>
  BY DEF CoordinatorInv, Tick, coordinatorVars
<1>2. TypeInv' /\ TaskInv'
  BY <1>1 DEF TypeInv, TaskInv
<1>3. ASSUME NEW r \in Executions
      PROVE  PhaseInv(r)' /\ ResponseInv(r)'
  <2>1. PhaseInv(r) /\ ResponseInv(r) /\ CoordinatorWaits(r)
    BY DEF CoordinatorInv, Tick
  <2>2. phase[r] \in {"query", "models"} => clock' <= due[r]
    BY <1>1, <2>1 DEF CoordinatorWaits, TypeInv
  <2>3. PhaseInv(r)'
    BY <1>1, <2>1, <2>2
       DEF PhaseInv, Asked, AfterLoop, AfterRead, WaitEnds, QueryTask, ModelOps
  <2>4. ResponseInv(r)'
    BY <1>1, <2>1 DEF ResponseInv, Accounts, ModelOps
  <2> QED
    BY <2>3, <2>4
<1> QED
  BY <1>2, <1>3 DEF CoordinatorInv

\* What a step of one task does: it goes on, and only a cancelled one ends late.
TaskChange(c, after) ==
  /\ task[c].pc \in {"created", "running", "cancelled"}
  /\ after \in TaskState
  /\ after.pc = "ended" <=> after.result # "none"
  /\ after.pc \in {"running", "ended"}
  /\ after.result = "late" => task[c].pc = "cancelled"
  /\ task' = [task EXCEPT ![c] = after]
  /\ UNCHANGED <<clock, coordinatorVars>>

LEMMA TaskChangeKeeps ==
  ASSUME CoordinatorInv, NEW c \in Calls, NEW after, TaskChange(c, after)
  PROVE  CoordinatorInv'
<1>1. /\ TypeInv /\ TaskInv /\ UNCHANGED <<clock, coordinatorVars>>
      /\ task[c].pc \notin {"none", "ended"} /\ task[c].result = "none"
  BY DEF CoordinatorInv, TaskChange, TaskInv
<1>2. task'[c] = after /\ \A d \in Calls : d # c => task'[d] = task[d]
  BY <1>1 DEF TypeInv, TaskChange
<1>3. TypeInv' /\ TaskInv'
  BY <1>1, <1>2 DEF TypeInv, TaskInv, TaskChange, coordinatorVars
<1>4. \A d \in Calls : task[d].pc \in {"none", "ended"} => task'[d] = task[d]
  BY <1>1, <1>2
<1>5. \A d \in Calls : task[d].result = "ok" => task'[d].result = "ok"
  BY <1>1, <1>2
<1>6. \A d \in Calls : task[d] = NoTask => task'[d] = NoTask
  BY <1>4 DEF NoTask
<1>7. ASSUME NEW r \in Executions
      PROVE  PhaseInv(r)' /\ ResponseInv(r)'
  <2>1. PhaseInv(r) /\ ResponseInv(r)
    BY DEF CoordinatorInv
  <2>2. <<r, "query">> \in Calls /\ \A o \in ModelWork(r) : <<r, o>> \in Calls
    BY CallOf
  <2>3. /\ (Asked(r))' = Asked(r) /\ (AfterLoop(r))' = AfterLoop(r)
        /\ (ModelOps(r))' = ModelOps(r) /\ (WaitEnds(r))' = WaitEnds(r)
    BY <1>1 DEF coordinatorVars, Asked, AfterLoop, AfterRead, ModelOps, WaitEnds
  <2>4. phase[r] \in {"query", "models"} =>
          \A d \in Calls : d[1] = r => task'[d].pc # "cancelled" /\ task'[d].result # "late"
    <3>1. phase[r] \in {"query", "models"} /\ c[1] = r => after.pc # "cancelled" /\ after.result # "late"
      BY <2>1 DEF PhaseInv, TaskChange
    <3> QED
      BY <1>2, <2>1, <3>1 DEF PhaseInv
  <2>5. PhaseInv(r)'
    BY <1>1, <1>5, <1>6, <2>1, <2>2, <2>3, <2>4 DEF PhaseInv, QueryTask, coordinatorVars
  <2>6. ResponseInv(r)'
    BY <1>1, <1>5, <2>1, <2>3 DEF ResponseInv, Accounts, coordinatorVars
  <2> QED
    BY <2>5, <2>6
<1> QED
  BY <1>3, <1>7 DEF CoordinatorInv

LEMMA EndedChanges ==
  ASSUME TypeInv, NEW c \in Calls, NEW result, Ended(c, result),
         result \in Results \ {"none"}, result = "late" => task[c].pc = "cancelled",
         task[c].pc \in {"created", "running", "cancelled"},
         UNCHANGED <<clock, coordinatorVars>>
  PROVE  \E after : TaskChange(c, after) /\ after.pc = "ended"
<1> DEFINE after == [pc |-> "ended", result |-> IF task[c].pc = "cancelled" THEN "late" ELSE result]
<1>1. after \in TaskState /\ after.pc = "ended" /\ after.result # "none"
  BY DEF TaskState, Results
<1>2. TaskChange(c, after)
  BY <1>1 DEF TaskChange, Ended
<1> QED
  BY <1>1, <1>2

LEMMA TaskMoves ==
  ASSUME CoordinatorInv, NEW c \in Calls, TaskStep(c)
  PROVE  CoordinatorInv'
<1> SUFFICES \E after : TaskChange(c, after)
  BY TaskChangeKeeps
<1>1. TypeInv /\ c = <<c[1], c[2]>> /\ UNCHANGED <<clock, coordinatorVars>>
  BY CallParts DEF CoordinatorInv, TaskStep, ModelStarts, ModelEnds, QueryEnds, CancellationHonoured
<1>2. PlanFailures \cup CallFailures \cup QueryFailures \cup
        {"ok", "late", "validation_failed", "budget_exhausted", "capacity_unavailable", "model_failure"}
      \subseteq Results \ {"none"}
  BY DEF PlanFailures, CallFailures, QueryFailures, Results, Reasons
<1>3. CASE ModelStarts(c)
  <2>1. task[c].pc = "created"
    BY <1>3 DEF ModelStarts
  <2>2. CASE task' = [task EXCEPT ![c].pc = "running"]
    <3> DEFINE after == [task[c] EXCEPT !.pc = "running"]
    <3>1. after \in TaskState /\ after.pc = "running" /\ after.result = "none"
      BY <1>1, <2>1 DEF TypeInv, TaskState, TaskInv, CoordinatorInv
    <3>2. task' = [task EXCEPT ![c] = after]
      BY <2>2
    <3>3. TaskChange(c, after)
      BY <1>1, <2>1, <3>1, <3>2 DEF TaskChange
    <3> QED
      BY <3>3
  <2>3. CASE \E result \in PlanFailures \cup {"capacity_unavailable", "budget_exhausted"} : Ended(c, result)
    <3>1. PICK result \in PlanFailures \cup {"capacity_unavailable", "budget_exhausted"} : Ended(c, result)
      BY <2>3
    <3>2. result # "late"
      BY DEF PlanFailures
    <3> QED
      BY <1>1, <1>2, <2>1, <3>1, <3>2, EndedChanges
  <2> QED
    BY <1>3, <2>2, <2>3 DEF ModelStarts
<1>4. CASE ModelEnds(c)
  <2>1. task[c].pc \in {"running", "cancelled"}
    BY <1>4 DEF ModelEnds
  <2>2. PICK result \in {"ok", "validation_failed", "model_failure"} \cup CallFailures : Ended(c, result)
    BY <1>4 DEF ModelEnds
  <2>3. result # "late"
    BY DEF CallFailures
  <2> QED
    BY <1>1, <1>2, <2>1, <2>2, <2>3, EndedChanges
<1>5. CASE c \notin ModelCalls /\ QueryEnds(c[1])
  <2>1. c[2] = "query"
    BY <1>5 DEF ModelCalls
  <2>2. c = <<c[1], "query">>
    BY <1>1, <2>1
  <2>3. task[c].pc \in {"running", "cancelled"}
    BY <1>5, <2>2 DEF QueryEnds, QueryTask
  <2>4. PICK result \in {"ok"} \cup QueryFailures : Ended(c, result)
    BY <1>5, <2>2 DEF QueryEnds
  <2>5. result # "late"
    BY DEF QueryFailures
  <2> QED
    BY <1>1, <1>2, <2>3, <2>4, <2>5, EndedChanges
<1>6. CASE CancellationHonoured(c)
  BY <1>1, <1>2, <1>6, EndedChanges DEF CancellationHonoured
<1> QED
  BY <1>3, <1>4, <1>5, <1>6 DEF TaskStep

LEMMA CoordinatorInvStep ==
  ASSUME CoordinatorInv, [Next]_vars
  PROVE  CoordinatorInv'
<1>1. CASE UNCHANGED vars
  <2>1. /\ UNCHANGED <<clock, tasked, phase, deadline, begun, due, aggregator, response, task>>
        /\ TypeInv /\ TaskInv
    BY <1>1 DEF vars, coordinatorVars, CoordinatorInv
  <2>2. TypeInv' /\ TaskInv'
    BY <2>1 DEF TypeInv, TaskInv
  <2>3. ASSUME NEW r \in Executions
        PROVE  PhaseInv(r)' /\ ResponseInv(r)'
    <3>1. PhaseInv(r) /\ ResponseInv(r)
      BY DEF CoordinatorInv
    <3>2. PhaseInv(r)'
      BY <2>1, <3>1 DEF PhaseInv, Asked, AfterLoop, AfterRead, ModelOps, QueryTask, WaitEnds
    <3>3. ResponseInv(r)'
      BY <2>1, <3>1 DEF ResponseInv, Accounts, ModelOps
    <3> QED
      BY <3>2, <3>3
  <2> QED
    BY <2>2, <2>3 DEF CoordinatorInv
<1> QED
  BY <1>1, CoordinatorMoves, AcceptStep, TaskMoves, TickStep DEF Next

--------------------------------------------------------------------------------
(* What a call holds *)

LEMMA CoordinatorHoldsNothing ==
  ASSUME CoordinatorInv, NEW r \in Executions, CoordinatorStep(r) \/ TelemetryEnds(r)
  PROVE  /\ UNCHANGED <<capacityVars, budgetVars>>
         /\ \A c \in ModelCalls : Busy(c)' <=> Busy(c)
<1>1. TypeInv /\ PhaseInv(r) /\ \A c \in ModelCalls : c \in Calls /\ c[2] # "query"
  BY DEF CoordinatorInv, ModelCalls
<1>2. ASSUME NEW agg, Respond(r, agg)
      PROVE  /\ UNCHANGED <<capacityVars, budgetVars>>
             /\ \A c \in ModelCalls : Busy(c)' <=> Busy(c)
  <2>1. ASSUME NEW c \in ModelCalls
        PROVE  Busy(c)' <=> Busy(c)
    <3>1. task[c] \in TaskState /\ task'[c] = Cancelled(r, task)[c] /\ c \in Calls
      BY <1>1, <1>2 DEF TypeInv, Respond
    <3>2. \/ task'[c] = task[c]
          \/ task[c].pc = "created" /\ task'[c] = [pc |-> "ended", result |-> "late"]
          \/ task[c].pc = "running" /\ task'[c] = [task[c] EXCEPT !.pc = "cancelled"]
      BY <3>1 DEF Cancelled
    <3> QED
      BY <3>1, <3>2 DEF Busy, TaskState
  <2> QED
    BY <1>2, <2>1 DEF Respond
<1>3. CASE Begin(r)
  <2>1. CASE clock >= deadline[r] - ResponseReserve
    BY <1>2, <1>3, <2>1 DEF Begin
  <2>2. CASE ~ clock >= deadline[r] - ResponseReserve
    <3>1. /\ task' = [task EXCEPT ![<<r, "query">>].pc = "running"]
          /\ UNCHANGED <<capacityVars, budgetVars>>
      BY <1>3, <2>2 DEF Begin
    <3>2. \A c \in ModelCalls : task'[c] = task[c]
      BY <1>1, <3>1 DEF TypeInv
    <3> QED
      BY <3>1, <3>2 DEF Busy
  <2> QED
    BY <2>1, <2>2
<1>4. CASE QueryTimesOut(r) \/ QueryFails(r) \/ CollectModels(r)
  <2>1. \E agg : Respond(r, agg)
    BY <1>4 DEF QueryTimesOut, QueryFails, CollectModels
  <2> QED
    BY <1>2, <2>1
<1>5. CASE QuerySucceeds(r)
  <2>1. phase[r] = "query" /\ \E agg : Respond(r, agg) \/ RunModels(r, agg)
    BY <1>5 DEF QuerySucceeds
  <2>2. ASSUME NEW agg, RunModels(r, agg), ~ \E other : Respond(r, other)
        PROVE  /\ UNCHANGED <<capacityVars, budgetVars>>
               /\ \A c \in ModelCalls : Busy(c)' <=> Busy(c)
    <3>1. /\ UNCHANGED <<capacityVars, budgetVars>>
          /\ \E timely \in SUBSET ModelOps(r) :
               task' = [c \in Calls |-> IF c[1] = r /\ c[2] \in timely
                                       THEN [NoTask EXCEPT !.pc = "created"] ELSE task[c]]
      <4>1. PICK late \in OutOfTime(r) :
              LET timely == ModelOps(r) \ late
              IN /\ task' = [c \in Calls |-> IF c[1] = r /\ c[2] \in timely
                                             THEN [NoTask EXCEPT !.pc = "created"] ELSE task[c]]
                 /\ UNCHANGED <<capacityVars, budgetVars>>
        BY <2>2 DEF RunModels
      <4>2. ModelOps(r) \ late \in SUBSET ModelOps(r)
        OBVIOUS
      <4> QED
        BY <4>1, <4>2
    <3>2. ASSUME NEW c \in ModelCalls
          PROVE  Busy(c)' <=> Busy(c)
      <4>1. CASE c[1] = r /\ c[2] \in ModelOps(r)
        <5>1. c[2] \in ModelWork(r) /\ c = <<r, c[2]>> /\ c \in Calls
          BY <1>1, <4>1, CallParts, OperationNames
        <5>2. task[c] = NoTask
          BY <1>1, <2>1, <5>1 DEF PhaseInv
        <5>3. task'[c] = task[c] \/ task'[c].pc = "created"
          BY <3>1, <4>1, <5>1 DEF NoTask
        <5> QED
          BY <5>2, <5>3 DEF Busy, NoTask
      <4>2. CASE ~ (c[1] = r /\ c[2] \in ModelOps(r))
        BY <1>1, <3>1, <4>2 DEF Busy
      <4> QED
        BY <4>1, <4>2
    <3> QED
      BY <3>1, <3>2
  <2> QED
    BY <1>2, <2>1, <2>2
<1>6. CASE LoopCloses(r) \/ TelemetryEnds(r)
  BY <1>6, ReturningStep DEF Busy
<1> QED
  BY <1>3, <1>4, <1>5, <1>6 DEF CoordinatorStep

\* A call that ends gives back its reservation and its lease, and nobody else's.
LEMMA SettleGivesBack ==
  ASSUME LeakInv, TypeInv, NEW c \in ModelCalls, Busy(c), NEW result, Ended(c, result),
         NEW usage, Settle(c, usage)
  PROVE  LeakInv'
<1>1. /\ ~ Busy(c)' /\ \A d \in ModelCalls : d # c => (Busy(d)' <=> Busy(d))
  BY ModelCallParts DEF TypeInv, Ended, Busy
<1>2. /\ DOMAIN reservations' = Ids
      /\ reservations'[c].state = "reconciled"
      /\ \A d \in ModelCalls : d # c => reservations'[d] = reservations[d]
  BY ModelCallParts DEF LeakInv, Settle, Reconcile
<1>3. DOMAIN leases' = DOMAIN leases \ {c[2]}
  BY DEF Settle, Capacity!Release, Capacity!Restrict
<1>4. OneCallPerName'
  BY <1>1 DEF LeakInv, OneCallPerName
<1>5. \A d \in ModelCalls : (reservations'[d].state = "active") <=> Busy(d)'
  BY <1>1, <1>2 DEF LeakInv, NothingLeaks, Busy
<1>6. ASSUME NEW n \in Names
      PROVE  (n \in DOMAIN leases') <=> \E d \in ModelCalls : d[2] = n /\ Busy(d)'
  <2>1. (n \in DOMAIN leases) <=> \E d \in ModelCalls : d[2] = n /\ Busy(d)
    BY DEF LeakInv, NothingLeaks, Busy
  <2>2. \A d \in ModelCalls : Busy(d) /\ d[2] = c[2] => d = c
    BY DEF LeakInv, OneCallPerName
  <2> QED
    BY <1>1, <1>3, <2>1, <2>2
<1> QED
  BY <1>2, <1>4, <1>5, <1>6 DEF LeakInv, NothingLeaks, Busy

\* A call that starts takes a lease under a name nobody uses.
LEMMA StartTakes ==
  ASSUME LeakInv, TypeInv, NEW c \in ModelCalls,
         Capacity!Acquire(Operation(c), Candidates, {}), Reserve(c[1], Estimate, c),
         task' = [task EXCEPT ![c].pc = "running"]
  PROVE  LeakInv'
<1>1. /\ Busy(c)' /\ \A d \in ModelCalls : d # c => (Busy(d)' <=> Busy(d))
  BY ModelCallParts DEF TypeInv, Busy, TaskState
<1>2. /\ DOMAIN reservations' = Ids
      /\ reservations'[c].state = "active"
      /\ \A d \in ModelCalls : d # c => reservations'[d] = reservations[d]
  BY ModelCallParts DEF LeakInv, Reserve
<1>3. DOMAIN leases' = DOMAIN leases \cup {c[2]} /\ c[2] \notin DOMAIN leases
  BY DEF Capacity!Acquire, Capacity!Admissible, Operation
<1>4. \A d \in ModelCalls : Busy(d) => d[2] # c[2]
  BY <1>3, ModelCallParts DEF LeakInv, NothingLeaks, Busy
<1>5. OneCallPerName'
  BY <1>1, <1>4 DEF LeakInv, OneCallPerName
<1>6. \A d \in ModelCalls : (reservations'[d].state = "active") <=> Busy(d)'
  BY <1>1, <1>2 DEF LeakInv, NothingLeaks, Busy
<1>7. ASSUME NEW n \in Names
      PROVE  (n \in DOMAIN leases') <=> \E d \in ModelCalls : d[2] = n /\ Busy(d)'
  <2>1. (n \in DOMAIN leases) <=> \E d \in ModelCalls : d[2] = n /\ Busy(d)
    BY DEF LeakInv, NothingLeaks, Busy
  <2> QED
    BY <1>1, <1>3, <1>4, <2>1
<1> QED
  BY <1>2, <1>5, <1>6, <1>7 DEF LeakInv, NothingLeaks, Busy

LEMMA HoldingsKept ==
  ASSUME LeakInv, UNCHANGED <<leases, reservations>>,
         \A c \in ModelCalls : Busy(c)' <=> Busy(c)
  PROVE  LeakInv'
BY DEF LeakInv, OneCallPerName, NothingLeaks, Busy

LEMMA LeakStep ==
  ASSUME CoordinatorInv, LeakInv, [Next]_vars
  PROVE  LeakInv'
<1>1. TypeInv /\ \A c \in ModelCalls : c \in Calls
  BY ModelCallParts DEF CoordinatorInv
<1>2. ASSUME NEW r \in Executions, Accept(r)
      PROVE  LeakInv'
  <2>1. UNCHANGED <<task, leases, reservations>>
    BY <1>2 DEF Accept, capacityVars, Bind
  <2> QED
    BY <2>1, HoldingsKept DEF Busy
<1>3. ASSUME NEW r \in Executions, CoordinatorStep(r) \/ TelemetryEnds(r)
      PROVE  LeakInv'
  BY <1>3, CoordinatorHoldsNothing, HoldingsKept DEF capacityVars, budgetVars
<1>4. ASSUME NEW c \in ModelCalls, ModelStarts(c)
      PROVE  LeakInv'
  <2>1. CASE /\ Capacity!Acquire(Operation(c), Candidates, {})
             /\ Reserve(c[1], Estimate, c)
             /\ task' = [task EXCEPT ![c].pc = "running"]
    BY <1>1, <2>1, StartTakes
  <2>2. CASE UNCHANGED <<leases, reservations>> /\ \E result : Ended(c, result)
    <3>1. task[c].pc = "created"
      BY <1>4 DEF ModelStarts
    <3>2. \A d \in ModelCalls : Busy(d)' <=> Busy(d)
      BY <1>1, <2>2, <3>1 DEF TypeInv, Ended, Busy
    <3> QED
      BY <2>2, <3>2, HoldingsKept
  <2> QED
    BY <1>4, <2>1, <2>2
       DEF ModelStarts, Capacity!Refuse, Capacity!AcquireAndRelease, capacityVars, budgetVars
<1>5. ASSUME NEW c \in ModelCalls, ModelEnds(c) \/ CancellationHonoured(c)
      PROVE  LeakInv'
  <2>1. Busy(c) /\ \E result, usage : Ended(c, result) /\ Settle(c, usage)
    BY <1>5 DEF ModelEnds, CancellationHonoured, Busy
  <2> QED
    BY <1>1, <2>1, SettleGivesBack
<1>6. ASSUME NEW c \in Calls \ ModelCalls, QueryEnds(c[1]) \/ CancellationHonoured(c)
      PROVE  LeakInv'
  <2>1. c[2] = "query" /\ c = <<c[1], "query">>
    BY CallParts DEF ModelCalls
  <2>2. (\E result : Ended(c, result)) /\ UNCHANGED <<leases, reservations>>
    BY <1>6, <2>1 DEF QueryEnds, CancellationHonoured, capacityVars, budgetVars
  <2>3. \A d \in ModelCalls : task'[d] = task[d]
    BY <1>1, <2>1, <2>2 DEF Ended, ModelCalls, TypeInv
  <2> QED
    BY <2>2, <2>3, HoldingsKept DEF Busy
<1>7. CASE Tick \/ UNCHANGED vars
  <2>1. UNCHANGED <<task, leases, reservations>>
    BY <1>7 DEF Tick, vars, capacityVars, budgetVars, Capacity!Age
  <2> QED
    BY <2>1, HoldingsKept DEF Busy
<1> QED
  BY <1>2, <1>3, <1>4, <1>5, <1>6, <1>7 DEF Next, TaskStep

--------------------------------------------------------------------------------
(* What is decided stays decided *)

Stands(r) ==
  /\ phase[r] \in Answered => response'[r] = response[r]
  /\ \A o \in DOMAIN aggregator[r] :
       aggregator[r][o] # "pending" => /\ o \in DOMAIN aggregator'[r]
                                       /\ aggregator'[r][o] = aggregator[r][o]

LEMMA OwnDecisionsStand ==
  ASSUME CoordinatorInv, NEW r \in Executions, CoordinatorStep(r)
  PROVE  Stands(r)
<1>1. TypeInv /\ PhaseInv(r)
  BY DEF CoordinatorInv
<1>2. CASE phase[r] \in {"accepted", "query"}
  <2>1. aggregator[r] = Asked(r)
    BY <1>1, <1>2 DEF PhaseInv
  <2> QED
    BY <1>2, <2>1 DEF Stands, Asked, Aggregation, Answered
<1>3. CASE CollectModels(r)
  <2> DEFINE agg  == aggregator[r]
             last == [o \in DOMAIN agg |->
                IF o \in PendingOf(agg) THEN CollectedOutcome(<<r, o>>) ELSE agg[o]]
  <2>1. phase[r] = "models" /\ Respond(r, last)
    BY <1>3 DEF CollectModels
  <2>2. aggregator'[r] = Finalized(last)
    BY <1>1, <2>1 DEF Respond, TypeInv
  <2>3. ASSUME NEW o \in DOMAIN agg, agg[o] # "pending"
        PROVE  o \in DOMAIN aggregator'[r] /\ aggregator'[r][o] = agg[o]
    <3>1. o \in DOMAIN last /\ last[o] = agg[o] /\ o \notin PendingOf(last)
      BY <2>3 DEF PendingOf
    <3> HIDE DEF last
    <3> QED
      BY <2>2, <3>1, WithDecides DEF Finalized
  <2> QED
    BY <2>1, <2>3 DEF Stands, Answered
<1>4. LoopCloses(r) => Stands(r)
  BY ReturningStep DEF Stands
<1>5. phase[r] \in {"accepted", "query"} \/ CollectModels(r) \/ LoopCloses(r)
  BY DEF CoordinatorStep, Begin, QueryTimesOut, QueryFails, QuerySucceeds
<1> QED
  BY <1>2, <1>3, <1>4, <1>5

LEMMA DecisionsStandStep ==
  ASSUME CoordinatorInv, [Next]_vars, NEW q \in Executions
  PROVE  Stands(q)
<1>1. TypeInv /\ PhaseInv(q)
  BY DEF CoordinatorInv
<1>2. UNCHANGED <<aggregator, response>> => Stands(q)
  BY DEF Stands
<1>3. ASSUME NEW r \in Executions, Accept(r)
      PROVE  Stands(q)
  <2>1. CASE q = r
    <3>1. phase[q] = "new" /\ aggregator[q] = <<>>
      BY <1>1, <1>3, <2>1 DEF Accept, PhaseInv
    <3> QED
      BY <3>1 DEF Stands, Answered
  <2>2. CASE q # r
    BY <1>1, <1>3, <2>2 DEF Accept, TypeInv, Stands
  <2> QED
    BY <2>1, <2>2
<1>4. ASSUME NEW r \in Executions, CoordinatorStep(r)
      PROVE  Stands(q)
  BY <1>4, OwnDecisionsStand, CoordinatorMoves DEF Local, Stands
<1>5. ASSUME NEW r \in Executions, TelemetryEnds(r)
      PROVE  Stands(q)
  BY <1>2, <1>5 DEF TelemetryEnds
<1>6. ASSUME NEW c \in Calls, TaskStep(c)
      PROVE  Stands(q)
  BY <1>2, <1>6 DEF TaskStep, ModelStarts, ModelEnds, QueryEnds, CancellationHonoured,
     coordinatorVars
<1>7. Tick \/ UNCHANGED vars => Stands(q)
  BY <1>2 DEF Tick, vars, coordinatorVars
<1> QED
  BY <1>3, <1>4, <1>5, <1>6, <1>7 DEF Next

--------------------------------------------------------------------------------
(* Theorems *)

InteractiveInv == CoordinatorInv /\ LeakInv

LEMMA InteractiveCorrect == Spec => []InteractiveInv
<1>1. Init => InteractiveInv
  BY InitCorrect DEF InteractiveInv
<1>2. InteractiveInv /\ [Next]_vars => InteractiveInv'
  BY CoordinatorInvStep, LeakStep DEF InteractiveInv
<1> QED
  BY <1>1, <1>2, PTL DEF Spec

LEMMA RespondedPhase ==
  ASSUME CoordinatorInv, NEW r \in Executions, Responded(r)
  PROVE  phase[r] \in Answered /\ ResponseInv(r)
BY DEF CoordinatorInv, PhaseInv, Responded

\* Whatever ends, fails or is cancelled, and in whatever order, the response of
\* InteractiveCoordinator.execute names every requested operation once: a result its
\* task ended with, or an omission with its reason.
THEOREM ResponsesAccountForAll == Spec => []ResponseAccountsForAll
<1>1. CoordinatorInv => ResponseAccountsForAll
  <2> SUFFICES ASSUME CoordinatorInv, NEW r \in Executions, Responded(r)
               PROVE  LET given   == response[r].results
                          omitted == DOMAIN response[r].omitted
                      IN /\ given \cap omitted = {}
                         /\ given \cup omitted = DOMAIN aggregator[r]
                         /\ \/ given \cup omitted = {"query"} \cup ModelOps(r)
                            \/ r \in tasked /\ given \cup omitted = {"query", "prepare"}
                         /\ \A o \in given : task[<<r, o>>].result = "ok"
                         /\ \A o \in omitted : response[r].omitted[o] \in Reasons
                         /\ response[r].complete <=> omitted = {}
    BY DEF ResponseAccountsForAll
  <2> DEFINE agg  == aggregator[r]
             done == {o \in DOMAIN agg : agg[o] = "completed"}
  <2>1. ResponseInv(r) /\ phase[r] \in Answered
    BY RespondedPhase
  <2>2. /\ Accounts(r, agg, Decided)
        /\ response[r].results = done
        /\ response[r].omitted = [o \in DOMAIN agg \ done |-> agg[o]]
        /\ response[r].complete <=> done = DOMAIN agg
    BY <2>1 DEF ResponseInv
  <2>3. \A o \in DOMAIN agg \ done : agg[o] \in Reasons
    BY <2>2 DEF Accounts, Decided
  <2>4. DOMAIN response[r].omitted = DOMAIN agg \ done
    BY <2>2
  <2>5. \A o \in done : task[<<r, o>>].result = "ok"
    BY <2>2 DEF Accounts
  <2> QED
    BY <2>2, <2>3, <2>4, <2>5 DEF Accounts
<1> QED
  BY <1>1, InteractiveCorrect, PTL DEF InteractiveInv

\* Of a request that began in time the response is built while the response reserve is
\* left, of one that began too late in the instant it began (execute, _collect_models);
\* nothing is said of the telemetry awaited between that and the return.
THEOREM DecisionsAreInTime == Spec => []DecidedInTime
<1>1. CoordinatorInv => DecidedInTime
  BY RespondedPhase DEF DecidedInTime, ResponseInv
<1> QED
  BY <1>1, InteractiveCorrect, PTL DEF InteractiveInv

\* However a model call ends (an answer, a failure, an answer after its cancellation,
\* the cancellation), its budget reservation and its capacity lease end with it, and
\* neither ends before.
THEOREM CallsLeakNothing == Spec => []NothingLeaks
<1>1. LeakInv => NothingLeaks
  BY DEF LeakInv
<1> QED
  BY <1>1, InteractiveCorrect, PTL DEF InteractiveInv

\* PartialAggregator is told of an operation once, and a response given is final.
THEOREM DecisionsStand == Spec => DecidedOnce
<1> DEFINE Once ==
      \A r \in Executions :
        /\ Responded(r) => response'[r] = response[r]
        /\ \A o \in DOMAIN aggregator[r] :
             aggregator[r][o] # "pending" => /\ o \in DOMAIN aggregator'[r]
                                             /\ aggregator'[r][o] = aggregator[r][o]
<1>1. InteractiveInv /\ [Next]_vars => [Once]_vars
  <2> SUFFICES ASSUME CoordinatorInv, [Next]_vars PROVE Once
    BY DEF InteractiveInv
  <2> QED
    BY DecisionsStandStep, RespondedPhase DEF Stands
<1> QED
  BY <1>1, InteractiveCorrect, PTL DEF Spec, DecidedOnce

--------------------------------------------------------------------------------
(* Sums over finite sets *)

\* Induction over finite sets, in the form of a least counterexample.
Below == {p \in Nat \X Nat : p[1] < p[2]}

LEMMA BelowIsWellFounded == IsWellFoundedOn(Below, Nat)
<1>1. Below = OpToRel(<, Nat)
  BY DEF Below, OpToRel
<1> QED BY <1>1, NatLessThanWellFounded

LEMMA SmallestNumber ==
  ASSUME NEW T \in SUBSET Nat, T # {}
  PROVE \E n \in T : \A m \in T : n <= m
<1>1. PICK n \in T : \A m \in T : <<m, n>> \notin Below
  BY WFMin, BelowIsWellFounded
<1>2. ASSUME NEW m \in T PROVE n <= m
  <2>1. <<m, n>> \in Nat \X Nat /\ <<m, n>>[1] = m /\ <<m, n>>[2] = n
    OBVIOUS
  <2>2. ~ (m < n)
    BY <1>1, <2>1 DEF Below
  <2> QED BY <2>1, <2>2
<1> QED BY <1>2

LEMMA SmallestSet ==
  ASSUME NEW S, IsFiniteSet(S), NEW B \in SUBSET SUBSET S, B # {}
  PROVE \E s \in B : \A x \in s : s \ {x} \notin B
<1> DEFINE N == {Cardinality(s) : s \in B}
<1>1. \A s \in B : IsFiniteSet(s) /\ Cardinality(s) \in Nat
  BY FS_Subset, FS_CardinalityType
<1>2. PICK n \in N : \A m \in N : n <= m
  <2>1. N \in SUBSET Nat /\ N # {}
    BY <1>1
  <2> HIDE DEF N
  <2> QED BY <2>1, SmallestNumber
<1>3. PICK s \in B : n = Cardinality(s)
  BY <1>2
<1>4. ASSUME NEW x \in s, s \ {x} \in B PROVE FALSE
  <2>1. Cardinality(s \ {x}) = n - 1
    BY <1>1, <1>3, FS_RemoveElement
  <2>2. n <= Cardinality(s \ {x})
    BY <1>2, <1>4
  <2> QED BY <2>1, <2>2, <1>1, <1>3
<1> QED BY <1>4

\* The recursion by which MapThenSumSet adds up the subsets of S.
Chosen(s) == CHOOSE x \in s : TRUE

SumOver(f, S, g) == g = [s \in SUBSET S |-> IF s = {} THEN 0 ELSE f[Chosen(s)] + g[s \ {Chosen(s)}]]

\* Sums of the subsets of S that do not depend on the order.
Sums(f, S, G) ==
  /\ G \in [SUBSET S -> Int]
  /\ G[{}] = 0
  /\ \A s \in SUBSET S : \A x \in s : G[s] = f[x] + G[s \ {x}]

\* Addition commutes: there are sums that do not depend on the order.  Those of a set
\* with one more element are made of those of the set.
LEMMA SumsExist ==
  ASSUME NEW S, IsFiniteSet(S), NEW f, \A x \in S : f[x] \in Int
  PROVE \E G : Sums(f, S, G)
<1> DEFINE B == {T \in SUBSET S : ~ \E G : Sums(f, T, G)}
<1> SUFFICES ASSUME B # {} PROVE FALSE
  OBVIOUS
<1>1. PICK T \in B : \A x \in T : T \ {x} \notin B
  <2>1. B \in SUBSET SUBSET S
    OBVIOUS
  <2> HIDE DEF B
  <2> QED BY <2>1, SmallestSet
<1>2. T # {}
  <2>1. Sums(f, {}, [s \in SUBSET {} |-> 0])
    BY DEF Sums
  <2> QED BY <1>1, <2>1
<1>3. PICK x \in T : TRUE
  BY <1>2
<1> DEFINE U == T \ {x}
<1>4. x \in S /\ x \notin U /\ T = U \cup {x} /\ U \in SUBSET S
  BY <1>1
<1>5. PICK G : Sums(f, U, G)
  BY <1>1, <1>3, <1>4
<1> DEFINE H == [s \in SUBSET T |-> IF x \in s THEN f[x] + G[s \ {x}] ELSE G[s]]
<1>6. \A s \in SUBSET T : s \ {x} \in SUBSET U /\ (x \notin s => s \in SUBSET U /\ s \ {x} = s)
  BY <1>4
<1>7. H \in [SUBSET T -> Int] /\ H[{}] = 0
  BY <1>4, <1>5, <1>6 DEF Sums
<1>8. ASSUME NEW s \in SUBSET T, NEW y \in s PROVE H[s] = f[y] + H[s \ {y}]
  <2>1. CASE y = x
    <3>1. s \ {y} \in SUBSET T /\ x \notin s \ {y} /\ x \in s
      BY <2>1
    <3> QED BY <2>1, <3>1
  <2>2. CASE y # x /\ x \in s
    <3>1. s \ {y} \in SUBSET T /\ x \in s \ {y} /\ s \ {x} \in SUBSET U /\ y \in s \ {x}
          /\ (s \ {x}) \ {y} = (s \ {y}) \ {x} /\ (s \ {x}) \ {y} \in SUBSET U
      BY <2>2, <1>4
    <3>2. G[s \ {x}] = f[y] + G[(s \ {x}) \ {y}]
      BY <3>1, <1>5 DEF Sums
    <3>3. G[(s \ {y}) \ {x}] \in Int /\ f[y] \in Int /\ f[x] \in Int
      BY <3>1, <1>5, <1>4, <1>1 DEF Sums
    <3>4. H[s] = f[x] + G[s \ {x}] /\ H[s \ {y}] = f[x] + G[(s \ {y}) \ {x}]
      BY <2>2, <3>1
    <3>5. G[(s \ {x}) \ {y}] = G[(s \ {y}) \ {x}]
      BY <3>1
    <3> QED BY <3>2, <3>3, <3>4, <3>5
  <2>3. CASE x \notin s
    <3>1. s \ {y} \in SUBSET T /\ x \notin s \ {y} /\ s \in SUBSET U
      BY <2>3, <1>4
    <3>2. H[s] = G[s] /\ H[s \ {y}] = G[s \ {y}]
      BY <2>3, <3>1
    <3> QED BY <3>1, <3>2, <1>5 DEF Sums
  <2> QED BY <2>1, <2>2, <2>3
<1>9. Sums(f, T, H)
  <2> HIDE DEF H
  <2> QED BY <1>7, <1>8 DEF Sums
<1> QED BY <1>1, <1>9

\* They solve the recursion, which has one solution.
LEMMA TotalSums ==
  ASSUME NEW S, IsFiniteSet(S), NEW f, NEW G, Sums(f, S, G)
  PROVE Total(f, S) = G[S]
<1>1. SumOver(f, S, G)
  <2>1. ASSUME NEW s \in SUBSET S
        PROVE G[s] = IF s = {} THEN 0 ELSE f[Chosen(s)] + G[s \ {Chosen(s)}]
    <3>1. s # {} => Chosen(s) \in s
      BY DEF Chosen
    <3> QED BY <3>1 DEF Sums
  <2>2. G = [s \in SUBSET S |-> G[s]]
    BY DEF Sums
  <2> QED BY <2>1, <2>2 DEF SumOver
<1> DEFINE R == CHOOSE g : SumOver(f, S, g)
<1>2. SumOver(f, S, R)
  BY <1>1
<1>3. Total(f, S) = R[S]
  BY DEF Total, MapThenSumSet, MapThenFoldSet, SumOver, Chosen
<1> HIDE DEF R
<1> DEFINE B == {s \in SUBSET S : R[s] # G[s]}
<1>4. B = {}
  <2> SUFFICES ASSUME B # {} PROVE FALSE
    OBVIOUS
  <2>1. PICK s \in B : \A x \in s : s \ {x} \notin B
    <3>1. B \in SUBSET SUBSET S
      OBVIOUS
    <3> HIDE DEF B
    <3> QED BY <3>1, SmallestSet
  <2>2. R[s] = IF s = {} THEN 0 ELSE f[Chosen(s)] + R[s \ {Chosen(s)}]
    BY <1>2, <2>1 DEF SumOver
  <2>3. G[s] = IF s = {} THEN 0 ELSE f[Chosen(s)] + G[s \ {Chosen(s)}]
    BY <1>1, <2>1 DEF SumOver
  <2>4. s # {} => Chosen(s) \in s
    BY DEF Chosen
  <2>5. s # {} => R[s \ {Chosen(s)}] = G[s \ {Chosen(s)}]
    BY <2>1, <2>4
  <2> QED BY <2>1, <2>2, <2>3, <2>5
<1> QED BY <1>3, <1>4

\* One more element adds its amount.
LEMMA TotalAdds ==
  ASSUME NEW S, IsFiniteSet(S), NEW f, \A x \in S : f[x] \in Int,
         NEW z, z \notin S, f[z] \in Int
  PROVE Total(f, S \cup {z}) = Total(f, S) + f[z]
<1> DEFINE T == S \cup {z}
<1>1. IsFiniteSet(T)
  BY FS_AddElement
<1>2. PICK G : Sums(f, T, G)
  BY <1>1, SumsExist
<1> DEFINE H == [s \in SUBSET S |-> G[s]]
<1>3. Sums(f, S, H)
  BY <1>2 DEF Sums
<1>4. Total(f, S) = H[S] /\ Total(f, T) = G[T]
  <2> HIDE DEF T, H
  <2> QED BY <1>1, <1>2, <1>3, TotalSums
<1>5. T \ {z} = S /\ z \in T /\ T \in SUBSET T /\ S \in SUBSET T
  OBVIOUS
<1>6. G[T] = f[z] + G[T \ {z}]
  BY <1>2, <1>5 DEF Sums
<1>7. G[S] \in Int /\ H[S] = G[S]
  <2> HIDE DEF T
  <2> QED BY <1>2, <1>5 DEF Sums
<1>8. G[T] = f[z] + G[S]
  BY <1>5, <1>6
<1>9. Total(f, T) = f[z] + Total(f, S)
  <2> HIDE DEF T, H
  <2> QED BY <1>4, <1>7, <1>8
<1>10. Total(f, S) \in Int
  <2> HIDE DEF T, H
  <2> QED BY <1>4, <1>7
<1> QED BY <1>9, <1>10

\* A total depends on the amounts of its set only.
LEMMA TotalAgrees ==
  ASSUME NEW S, IsFiniteSet(S), NEW f, \A x \in S : f[x] \in Int,
         NEW g, \A x \in S : g[x] = f[x]
  PROVE Total(g, S) = Total(f, S) /\ Total(f, S) \in Int
<1>1. PICK G : Sums(f, S, G)
  BY SumsExist
<1>2. Sums(g, S, G)
  BY <1>1 DEF Sums
<1>3. G[S] \in Int
  BY <1>1 DEF Sums
<1> QED
  BY <1>1, <1>2, <1>3, TotalSums

--------------------------------------------------------------------------------
(* The books *)

Known == {i \in Ids : reservations[i].state # "none"}

Reservation ==
  [state: {"none", "active", "reconciled"}, execution: Executions \cup {NoExecution},
   scopes: SUBSET Scopes, estimate: Usage, used: Usage]

\* The reservations made are finitely many, so that their totals can be followed.
LedgerInv ==
  /\ bindings \in [Executions -> SUBSET Scopes]
  /\ {reserved, actual, stranded} \subseteq [Scopes -> [{"cost", "tokens"} -> Int]]
  /\ reservations \in [Ids -> Reservation]
  /\ IsFiniteSet(Known)
  /\ LedgerBalanced /\ OnlyOverrunExceedsLimit
  /\ \A s \in Scopes, d \in {"cost", "tokens"} : 0 <= Overrun(s, d)

\* The amounts of the reservations of a scope, which are finitely many.
LEMMA ScopeFinite ==
  ASSUME LedgerInv, NEW s \in Scopes, NEW st \in {"active", "reconciled"},
         NEW d \in {"cost", "tokens"}
  PROVE /\ IsFiniteSet(Of(s, st))
        /\ \A i \in Ids : /\ Estimated(d)[i] = reservations[i].estimate[d]
                                 /\ Used(d)[i] = reservations[i].used[d]
                                 /\ Estimated(d)[i] \in Nat /\ Used(d)[i] \in Nat
                                 /\ Excess(d)[i] \in Nat
                                 /\ Excess(d)[i] =
                                      IF reservations[i].used[d] > reservations[i].estimate[d]
                                      THEN reservations[i].used[d] - reservations[i].estimate[d] ELSE 0
<1>1. Of(s, st) \in SUBSET Known
  BY DEF Of, Known
<1>2. IsFiniteSet(Of(s, st))
  BY <1>1, FS_Subset DEF LedgerInv
<1>3. ASSUME NEW i \in Ids
      PROVE reservations[i].estimate[d] \in Nat /\ reservations[i].used[d] \in Nat
  BY DEF LedgerInv, Reservation, Usage, Dimensions
<1> QED
  BY <1>2, <1>3 DEF Estimated, Used, Excess

\* What LedgerInv says of one scope in one dimension.
Sound(s, d) ==
  /\ reserved[s][d] = Total(Estimated(d), Of(s, "active")) + stranded[s][d]
  /\ actual[s][d] = Total(Used(d), Of(s, "reconciled"))
  /\ reserved[s][d] + actual[s][d] <= Limits[s][d] + Overrun(s, d)
  /\ 0 <= Overrun(s, d)

LEMMA LedgerParts ==
  LedgerInv <=>
    /\ bindings \in [Executions -> SUBSET Scopes]
    /\ {reserved, actual, stranded} \subseteq [Scopes -> [{"cost", "tokens"} -> Int]]
    /\ reservations \in [Ids -> Reservation]
    /\ IsFiniteSet(Known)
    /\ \A s \in Scopes, d \in {"cost", "tokens"} : Sound(s, d)
BY DEF LedgerInv, Sound, LedgerBalanced, OnlyOverrunExceedsLimit, Dimensions

LEMMA LimitTypes == Limits \in [Scopes -> Usage]
BY BudgetAssumption DEF Usage, Dimensions

\* reserve: an identifier nobody has joins the open reservations of the bound scopes,
\* each of which has room for the estimate.
LEMMA ReserveStep ==
  ASSUME LedgerInv, NEW e \in Executions, NEW u \in Usage, NEW i \in Ids,
         Reserve(e, u, i)
  PROVE  LedgerInv'
<1> DEFINE new == [state |-> "active", execution |-> e, scopes |-> bindings[e],
                   estimate |-> u, used |-> [d \in {"cost", "tokens"} |-> 0]]
<1>1. /\ bindings \in [Executions -> SUBSET Scopes]
      /\ reserved \in [Scopes -> [{"cost", "tokens"} -> Int]]
      /\ actual \in [Scopes -> [{"cost", "tokens"} -> Int]]
      /\ stranded \in [Scopes -> [{"cost", "tokens"} -> Int]]
      /\ reservations \in [Ids -> Reservation]
      /\ IsFiniteSet(Known)
      /\ bindings[e] \in SUBSET Scopes
  BY DEF LedgerInv
<1>2. new \in Reservation
  BY <1>1 DEF Reservation, Usage, Dimensions
<1>3. /\ bindings' = bindings /\ actual' = actual /\ reservations[i].state = "none"
      /\ stranded' = stranded
      /\ reservations' = [reservations EXCEPT ![i] = new]
      /\ reserved' = [s \in Scopes |->
           IF s \in bindings[e] THEN [d \in {"cost", "tokens"} |-> reserved[s][d] + u[d]]
           ELSE reserved[s]]
  BY DEF Reserve, Debit, Debited, Plus, Dimensions, Zero
<1>4. \A s \in bindings[e], d \in {"cost", "tokens"} :
        ~ (u[d] > Limits[s][d] - (reserved[s][d] + actual[s][d]))
  BY <1>1 DEF Reserve, Debit, Exhausted, Available, Minus, Plus, Dimensions
<1> HIDE DEF new
<1>5. /\ reservations' \in [Ids -> Reservation]
      /\ reservations'[i] = new
      /\ \A j \in Ids : j # i => reservations'[j] = reservations[j]
  BY <1>1, <1>2, <1>3
<1>6. new.state = "active" /\ new.scopes = bindings[e] /\ new.estimate = u
  BY DEF new
<1>7. \A s \in Scopes, d \in {"cost", "tokens"} :
        /\ reserved'[s][d] = IF s \in bindings[e] THEN reserved[s][d] + u[d] ELSE reserved[s][d]
        /\ reserved[s][d] \in Int /\ u[d] \in Nat /\ actual[s][d] \in Int
        /\ Limits[s][d] \in Nat /\ stranded[s][d] \in Int
  BY <1>1, <1>3, LimitTypes DEF Usage, Dimensions
<1>8. reserved' \in [Scopes -> [{"cost", "tokens"} -> Int]]
  BY <1>1, <1>3 DEF Usage, Dimensions
<1>9. IsFiniteSet(Known')
  <2>1. Known' = Known \cup {i}
    BY <1>5, <1>6 DEF Known
  <2> QED
    BY <1>1, <2>1, FS_AddElement
<1>10. ASSUME NEW s \in Scopes, NEW d \in {"cost", "tokens"} PROVE Sound(s, d)'
  <2> DEFINE est == Estimated(d)
             used == Used(d)
             exc == Excess(d)
             A == Of(s, "active")
             R == Of(s, "reconciled")
  <2>1. Sound(s, d) /\ IsFiniteSet(A) /\ IsFiniteSet(R)
    BY LedgerParts, ScopeFinite
  <2>2. \A j \in Ids : j # i =>
          est'[j] = est[j] /\ used'[j] = used[j] /\ exc'[j] = exc[j]
    BY <1>5 DEF Estimated, Used, Excess
  <2>3. est'[i] = u[d]
    BY <1>5, <1>6 DEF Estimated
  <2>4. i \notin A /\ i \notin R /\ A \subseteq Ids /\ R \subseteq Ids
    BY <1>3 DEF Of
  <2>5. A' = (IF s \in bindings[e] THEN A \cup {i} ELSE A) /\ R' = R
    BY <1>3, <1>5, <1>6 DEF Of
  <2>6. \A j \in Ids : est[j] \in Int /\ used[j] \in Int /\ exc[j] \in Int
    BY ScopeFinite
  <2>7. Total(used', R) = Total(used, R) /\ Total(exc', R) = Total(exc, R)
        /\ Total(exc, R) \in Int
    <3> HIDE DEF used, exc, R
    <3> QED BY <2>1, <2>2, <2>4, <2>6, TotalAgrees
  <2>8. /\ Total(est, A) \in Int /\ Total(est', A) = Total(est, A)
        /\ Total(est', A \cup {i}) = Total(est, A) + u[d]
    <3> HIDE DEF est, A
    <3>1. est'[i] \in Int /\ \A x \in A : est[x] \in Int /\ est'[x] = est[x]
      BY <1>7, <2>2, <2>3, <2>4, <2>6
    <3>2. Total(est, A) \in Int /\ Total(est', A) = Total(est, A)
      BY <2>1, <3>1, TotalAgrees
    <3>3. Total(est', A \cup {i}) = Total(est', A) + est'[i]
      BY <2>1, <2>4, <3>1, TotalAdds
    <3> QED BY <2>3, <3>2, <3>3
  <2>9. /\ reserved'[s][d] = Total(est', A') + stranded'[s][d]
        /\ actual'[s][d] = Total(used', R')
    <3>1. /\ reserved[s][d] = Total(est, A) + stranded[s][d]
          /\ actual[s][d] = Total(used, R)
      BY <2>1 DEF Sound
    <3>2. actual'[s][d] = Total(used', R')
      BY <1>3, <2>5, <2>7, <3>1
    <3> HIDE DEF est, A, used, R
    <3> QED BY <1>3, <1>7, <2>5, <2>8, <3>1, <3>2
  <2>10. Overrun(s, d)' = Overrun(s, d) /\ Overrun(s, d) \in Int
    BY <2>5, <2>7 DEF Overrun
  <2>11. reserved'[s][d] + actual'[s][d] <= Limits[s][d] + Overrun(s, d)
    BY <1>3, <1>4, <1>7, <2>1, <2>10 DEF Sound
  <2> QED
    BY <2>1, <2>9, <2>10, <2>11 DEF Sound
<1> QED
  <2>1. /\ bindings' \in [Executions -> SUBSET Scopes]
        /\ {reserved', actual', stranded'} \subseteq [Scopes -> [{"cost", "tokens"} -> Int]]
        /\ reservations' \in [Ids -> Reservation]
    BY <1>1, <1>3, <1>5, <1>8
  <2> QED
    BY <2>1, <1>9, <1>10 DEF LedgerInv, Sound, LedgerBalanced, OnlyOverrunExceedsLimit, Dimensions

\* reconcile: a reservation leaves the open ones of its scopes and joins the
\* reconciled ones, with what it used beyond the estimate as overrun.
LEMMA ReconcileStep ==
  ASSUME LedgerInv, NEW i \in Ids, NEW u \in Usage, Reconcile(i, u)
  PROVE  LedgerInv'
<1> DEFINE r == reservations[i]
           new == [r EXCEPT !.state = "reconciled", !.used = u]
<1>1. /\ bindings \in [Executions -> SUBSET Scopes]
      /\ reserved \in [Scopes -> [{"cost", "tokens"} -> Int]]
      /\ actual \in [Scopes -> [{"cost", "tokens"} -> Int]]
      /\ stranded \in [Scopes -> [{"cost", "tokens"} -> Int]]
      /\ reservations \in [Ids -> Reservation]
      /\ IsFiniteSet(Known)
      /\ r \in Reservation
  BY DEF LedgerInv
<1>2. new \in Reservation /\ new.state = "reconciled" /\ new.scopes = r.scopes
      /\ new.estimate = r.estimate /\ new.used = u /\ r.estimate \in Usage
  BY <1>1 DEF Reservation
<1>3. /\ bindings' = bindings /\ stranded' = stranded /\ r.state = "active"
      /\ reservations' = [reservations EXCEPT ![i] = new]
      /\ reserved' = [s \in Scopes |->
           IF s \in r.scopes THEN [d \in {"cost", "tokens"} |-> reserved[s][d] - r.estimate[d]]
           ELSE reserved[s]]
      /\ actual' = [s \in Scopes |->
           IF s \in r.scopes THEN [d \in {"cost", "tokens"} |-> actual[s][d] + u[d]]
           ELSE actual[s]]
  BY DEF Reconcile, Debited, Plus, Minus, Dimensions
<1> HIDE DEF new
<1>4. /\ reservations' \in [Ids -> Reservation]
      /\ reservations'[i] = new
      /\ \A j \in Ids : j # i => reservations'[j] = reservations[j]
  BY <1>1, <1>2, <1>3
<1>5. \A s \in Scopes, d \in {"cost", "tokens"} :
        /\ reserved'[s][d] = IF s \in r.scopes THEN reserved[s][d] - r.estimate[d] ELSE reserved[s][d]
        /\ actual'[s][d] = IF s \in r.scopes THEN actual[s][d] + u[d] ELSE actual[s][d]
        /\ reserved[s][d] \in Int /\ u[d] \in Nat /\ actual[s][d] \in Int
        /\ r.estimate[d] \in Nat /\ Limits[s][d] \in Nat /\ stranded[s][d] \in Int
  BY <1>1, <1>2, <1>3, LimitTypes DEF Usage, Dimensions
<1>6. /\ reserved' \in [Scopes -> [{"cost", "tokens"} -> Int]]
      /\ actual' \in [Scopes -> [{"cost", "tokens"} -> Int]]
  <2>1. ASSUME NEW s \in Scopes
        PROVE  /\ [d \in {"cost", "tokens"} |-> reserved[s][d] - r.estimate[d]]
                     \in [{"cost", "tokens"} -> Int]
               /\ [d \in {"cost", "tokens"} |-> actual[s][d] + u[d]] \in [{"cost", "tokens"} -> Int]
               /\ reserved[s] \in [{"cost", "tokens"} -> Int]
               /\ actual[s] \in [{"cost", "tokens"} -> Int]
    BY <1>1, <1>5
  <2> QED
    BY <1>3, <2>1
<1>7. IsFiniteSet(Known')
  <2>1. Known' = Known
    BY <1>2, <1>3, <1>4 DEF Known
  <2> QED
    BY <1>1, <2>1
<1>8. ASSUME NEW s \in Scopes, NEW d \in {"cost", "tokens"} PROVE Sound(s, d)'
  <2> DEFINE est == Estimated(d)
             used == Used(d)
             exc == Excess(d)
             A == Of(s, "active")
             R == Of(s, "reconciled")
             more == IF u[d] > r.estimate[d] THEN u[d] - r.estimate[d] ELSE 0
  <2>1. Sound(s, d) /\ IsFiniteSet(A) /\ IsFiniteSet(R)
    BY LedgerParts, ScopeFinite
  <2>2. \A j \in Ids : j # i =>
          est'[j] = est[j] /\ used'[j] = used[j] /\ exc'[j] = exc[j]
    BY <1>4 DEF Estimated, Used, Excess
  <2>3. est[i] = r.estimate[d] /\ used'[i] = u[d] /\ exc'[i] = more
    BY <1>2, <1>4 DEF Estimated, Used, Excess
  <2>4. i \notin A' /\ i \notin R /\ A \subseteq Ids /\ R \subseteq Ids
    BY <1>2, <1>3, <1>4 DEF Of
  <2>5. /\ A = IF s \in r.scopes THEN A' \cup {i} ELSE A'
        /\ R' = IF s \in r.scopes THEN R \cup {i} ELSE R
    BY <1>2, <1>3, <1>4 DEF Of
  <2>6. \A j \in Ids : est[j] \in Int /\ used[j] \in Int /\ exc[j] \in Int
    BY ScopeFinite
  <2>7. IsFiniteSet(A') /\ A' \subseteq Ids
    <3>1. A' \in SUBSET A
      BY <2>5
    <3> QED BY <2>1, <2>4, <3>1, FS_Subset
  <2>8. /\ Total(est', A') \in Int /\ Total(est', A') = Total(est, A')
        /\ Total(est, A' \cup {i}) = Total(est, A') + est[i]
    <3> HIDE DEF est, A
    <3>1. est[i] \in Int /\ \A x \in A' : est[x] \in Int /\ est'[x] = est[x]
      BY <2>2, <2>4, <2>6, <2>7
    <3>2. Total(est, A') \in Int /\ Total(est', A') = Total(est, A')
      BY <2>7, <3>1, TotalAgrees
    <3>3. Total(est, A' \cup {i}) = Total(est, A') + est[i]
      BY <2>4, <2>7, <3>1, TotalAdds
    <3> QED BY <3>2, <3>3
  <2>9. /\ Total(used', R) = Total(used, R) /\ Total(used, R) \in Int
        /\ Total(used', R \cup {i}) = Total(used', R) + u[d]
    <3> HIDE DEF used, R
    <3>1. used'[i] \in Int /\ \A x \in R : used[x] \in Int /\ used'[x] = used[x] /\ used'[x] \in Int
      BY <1>5, <2>2, <2>3, <2>4, <2>6
    <3>2. Total(used, R) \in Int /\ Total(used', R) = Total(used, R)
      BY <2>1, <3>1, TotalAgrees
    <3>3. Total(used', R \cup {i}) = Total(used', R) + used'[i]
      BY <2>1, <2>4, <3>1, TotalAdds
    <3> QED BY <2>3, <3>2, <3>3
  <2>10. /\ Total(exc', R) = Total(exc, R) /\ Total(exc, R) \in Int
         /\ Total(exc', R \cup {i}) = Total(exc', R) + more
    <3> HIDE DEF exc, R
    <3>1. exc'[i] \in Int /\ \A x \in R : exc[x] \in Int /\ exc'[x] = exc[x] /\ exc'[x] \in Int
      BY <1>5, <2>2, <2>3, <2>4, <2>6
    <3>2. Total(exc, R) \in Int /\ Total(exc', R) = Total(exc, R)
      BY <2>1, <3>1, TotalAgrees
    <3>3. Total(exc', R \cup {i}) = Total(exc', R) + exc'[i]
      BY <2>1, <2>4, <3>1, TotalAdds
    <3> QED BY <2>3, <3>2, <3>3
  <2>11. reserved'[s][d] = Total(est', A') + stranded'[s][d]
    <3> HIDE DEF est, A
    <3>1. reserved[s][d] = Total(est, A) + stranded[s][d]
      BY <2>1 DEF Sound, est, A
    <3> QED BY <1>3, <1>5, <2>3, <2>5, <2>8, <3>1
  <2>12. actual'[s][d] = Total(used', R')
    <3>1. actual[s][d] = Total(used, R)
      BY <2>1 DEF Sound
    <3> HIDE DEF used, R
    <3> QED BY <1>5, <2>5, <2>9, <3>1
  <2>13. /\ Overrun(s, d) \in Int
         /\ Overrun(s, d)' = Overrun(s, d) + (IF s \in r.scopes THEN more ELSE 0)
    <3>1. Overrun(s, d) = Total(exc, R) /\ Overrun(s, d)' = Total(exc', R')
      BY DEF Overrun
    <3> HIDE DEF exc, R, more
    <3> QED BY <2>5, <2>10, <3>1
  <2>14. /\ reserved'[s][d] + actual'[s][d] <= Limits[s][d] + Overrun(s, d)'
         /\ 0 <= Overrun(s, d)'
    <3>1. /\ reserved[s][d] + actual[s][d] <= Limits[s][d] + Overrun(s, d)
          /\ 0 <= Overrun(s, d)
      BY <2>1 DEF Sound
    <3> QED BY <1>5, <2>13, <3>1
  <2> QED
    BY <2>11, <2>12, <2>14 DEF Sound
<1> QED
  <2>1. /\ bindings' \in [Executions -> SUBSET Scopes]
        /\ {reserved', actual', stranded'} \subseteq [Scopes -> [{"cost", "tokens"} -> Int]]
        /\ reservations' \in [Ids -> Reservation]
    BY <1>1, <1>3, <1>4, <1>6
  <2> QED
    BY <2>1, <1>7, <1>8 DEF LedgerInv, Sound, LedgerBalanced, OnlyOverrunExceedsLimit, Dimensions

\* A reservation that fails for its identifier: the debit of each bound scope is
\* stranded, and each of them had room for it.
LEMMA DrawFailsStep ==
  ASSUME LedgerInv, NEW e \in Executions, NEW u \in Usage, DrawFails(e, u)
  PROVE  LedgerInv'
<1>1. /\ bindings \in [Executions -> SUBSET Scopes]
      /\ reserved \in [Scopes -> [{"cost", "tokens"} -> Int]]
      /\ actual \in [Scopes -> [{"cost", "tokens"} -> Int]]
      /\ stranded \in [Scopes -> [{"cost", "tokens"} -> Int]]
      /\ bindings[e] \in SUBSET Scopes
  BY DEF LedgerInv
<1>2. /\ UNCHANGED <<bindings, actual, reservations>>
      /\ reserved' = [s \in Scopes |->
           IF s \in bindings[e] THEN [d \in {"cost", "tokens"} |-> reserved[s][d] + u[d]]
           ELSE reserved[s]]
      /\ stranded' = [s \in Scopes |->
           IF s \in bindings[e] THEN [d \in {"cost", "tokens"} |-> stranded[s][d] + u[d]]
           ELSE stranded[s]]
  BY DEF DrawFails, Debit, Debited, Plus, Dimensions
<1>3. \A s \in bindings[e], d \in {"cost", "tokens"} :
        ~ (u[d] > Limits[s][d] - (reserved[s][d] + actual[s][d]))
  BY <1>1 DEF DrawFails, Debit, Exhausted, Available, Minus, Plus, Dimensions
<1>4. \A s \in Scopes, d \in {"cost", "tokens"} :
        /\ reserved'[s][d] = IF s \in bindings[e] THEN reserved[s][d] + u[d] ELSE reserved[s][d]
        /\ stranded'[s][d] = IF s \in bindings[e] THEN stranded[s][d] + u[d] ELSE stranded[s][d]
        /\ {reserved[s][d], actual[s][d], stranded[s][d]} \subseteq Int
        /\ u[d] \in Nat /\ Limits[s][d] \in Nat
  BY <1>1, <1>2, LimitTypes DEF Usage, Dimensions
<1>5. {reserved', actual', stranded'} \subseteq [Scopes -> [{"cost", "tokens"} -> Int]]
  BY <1>1, <1>2 DEF Usage, Dimensions
<1>6. ASSUME NEW s \in Scopes, NEW d \in {"cost", "tokens"} PROVE Sound(s, d)'
  <2> DEFINE est == Estimated(d)
             A == Of(s, "active")
             R == Of(s, "reconciled")
  <2>1. Sound(s, d) /\ IsFiniteSet(A) /\ IsFiniteSet(R)
    BY LedgerParts, ScopeFinite
  <2>2. est' = est /\ A' = A /\ R' = R /\ Used(d)' = Used(d) /\ Excess(d)' = Excess(d)
    BY <1>2 DEF Estimated, Used, Excess, Of
  <2>3. Total(est, A) \in Int
    <3>1. \A x \in A : est[x] \in Int
      <4>1. A \subseteq Ids /\ \A x \in Ids : est[x] \in Nat
        BY ScopeFinite DEF Of
      <4> QED BY <4>1
    <3> HIDE DEF est, A
    <3> QED BY <2>1, <3>1, TotalAgrees
  <2>4. Overrun(s, d) \in Int
    <3> DEFINE exc == Excess(d)
    <3>1. \A x \in R : exc[x] \in Int
      <4>1. R \subseteq Ids /\ \A x \in Ids : exc[x] \in Nat
        BY ScopeFinite DEF Of
      <4> QED BY <4>1
    <3>2. Overrun(s, d) = Total(exc, R)
      BY DEF Overrun
    <3> HIDE DEF exc, R
    <3> QED BY <2>1, <3>1, <3>2, TotalAgrees
  <2>5. Overrun(s, d)' = Overrun(s, d)
    BY <2>2 DEF Overrun
  <2>6. Sound(s, d) <=>
          /\ reserved[s][d] = Total(est, A) + stranded[s][d]
          /\ actual[s][d] = Total(Used(d), R)
          /\ reserved[s][d] + actual[s][d] <= Limits[s][d] + Overrun(s, d)
          /\ 0 <= Overrun(s, d)
    BY DEF Sound
  <2>7. Sound(s, d)' <=>
          /\ reserved'[s][d] = Total(est, A) + stranded'[s][d]
          /\ actual[s][d] = Total(Used(d), R)
          /\ reserved'[s][d] + actual[s][d] <= Limits[s][d] + Overrun(s, d)
          /\ 0 <= Overrun(s, d)
    BY <1>2, <2>2, <2>5 DEF Sound
  <2> HIDE DEF est, A, R
  <2> QED
    BY <1>3, <1>4, <2>1, <2>3, <2>4, <2>6, <2>7
<1>7. Known' = Known /\ reservations' = reservations /\ bindings' = bindings
  BY <1>2 DEF Known
<1> QED
  BY <1>5, <1>6, <1>7, LedgerParts
     DEF LedgerInv, Sound, LedgerBalanced, OnlyOverrunExceedsLimit, Dimensions

\* bind changes no balance.
LEMMA LedgerUnchanged ==
  ASSUME LedgerInv, UNCHANGED <<reserved, actual, reservations, stranded>>,
         bindings' \in [Executions -> SUBSET Scopes]
  PROVE  LedgerInv'
<1>1. Known' = Known
  BY DEF Known
<1>2. ASSUME NEW s \in Scopes, NEW d \in {"cost", "tokens"} PROVE Sound(s, d)'
  <2>1. /\ Of(s, "active")' = Of(s, "active")
        /\ Of(s, "reconciled")' = Of(s, "reconciled")
        /\ Estimated(d)' = Estimated(d)
        /\ Used(d)' = Used(d)
        /\ Excess(d)' = Excess(d)
    BY DEF Of, Estimated, Used, Excess
  <2>2. Overrun(s, d)' = Overrun(s, d)
    BY <2>1 DEF Overrun
  <2>3. Sound(s, d)
    BY LedgerParts
  <2> QED
    BY <2>1, <2>2, <2>3 DEF Sound
<1> QED
  BY <1>1, <1>2, LedgerParts
     DEF LedgerInv, Sound, LedgerBalanced, OnlyOverrunExceedsLimit, Dimensions

LEMMA LedgerStep == LedgerInv /\ [BudgetNext]_budgetVars => LedgerInv'
<1> SUFFICES ASSUME LedgerInv, [BudgetNext]_budgetVars PROVE LedgerInv'
  OBVIOUS
<1>1. ASSUME NEW e \in Executions, NEW ss \in SUBSET Scopes, Bind(e, ss)
      PROVE LedgerInv'
  <2>1. /\ bindings' \in [Executions -> SUBSET Scopes]
        /\ UNCHANGED <<reserved, actual, reservations, stranded>>
    BY <1>1 DEF Bind, LedgerInv
  <2> QED
    BY <2>1, LedgerUnchanged
<1>2. CASE UNCHANGED budgetVars
  <2>1. /\ bindings' \in [Executions -> SUBSET Scopes]
        /\ UNCHANGED <<reserved, actual, reservations, stranded>>
    BY <1>2 DEF budgetVars, LedgerInv
  <2> QED
    BY <2>1, LedgerUnchanged
<1>3. Estimates \subseteq Usage /\ Actuals \subseteq Usage
  BY BudgetAssumption
<1> QED
  BY <1>1, <1>2, <1>3, ReserveStep, ReconcileStep, DrawFailsStep DEF BudgetNext

LEMMA LedgerInit == BudgetInit => LedgerInv
<1> SUFFICES ASSUME BudgetInit PROVE LedgerInv
  OBVIOUS
<1>1. /\ bindings = [e \in Executions |-> {}]
      /\ reserved = [s \in Scopes |-> [d \in {"cost", "tokens"} |-> 0]]
      /\ actual = [s \in Scopes |-> [d \in {"cost", "tokens"} |-> 0]]
      /\ stranded = [s \in Scopes |-> [d \in {"cost", "tokens"} |-> 0]]
      /\ reservations = [i \in Ids |->
           [state |-> "none", execution |-> NoExecution, scopes |-> {},
            estimate |-> [d \in {"cost", "tokens"} |-> 0], used |-> [d \in {"cost", "tokens"} |-> 0]]]
  BY DEF BudgetInit, Zero, Dimensions, NoReservation
<1>2. reservations \in [Ids -> Reservation]
  BY <1>1 DEF Reservation, Usage, Dimensions
<1>3. Known = {}
  BY <1>1 DEF Known
<1>4. IsFiniteSet(Known)
  BY <1>3, FS_EmptySet
<1>5. ASSUME NEW s \in Scopes, NEW d \in {"cost", "tokens"} PROVE Sound(s, d)
  <2>1. Of(s, "active") = {} /\ Of(s, "reconciled") = {}
    BY <1>1 DEF Of
  <2>2. ASSUME NEW f PROVE Total(f, {}) = 0
    <3>1. Sums(f, {}, [x \in SUBSET {} |-> 0])
      BY DEF Sums
    <3>2. [x \in SUBSET {} |-> 0][{}] = 0
      OBVIOUS
    <3> QED
      BY <3>1, <3>2, TotalSums, FS_EmptySet
  <2>3. Overrun(s, d) = 0
    BY <2>1, <2>2 DEF Overrun
  <2>4. Limits[s][d] \in Nat
    BY LimitTypes DEF Usage, Dimensions
  <2>5. reserved[s][d] = 0 /\ actual[s][d] = 0 /\ stranded[s][d] = 0
    BY <1>1
  <2> QED
    BY <2>1, <2>2, <2>3, <2>4, <2>5 DEF Sound
<1>6. {reserved, actual, stranded} \subseteq [Scopes -> [{"cost", "tokens"} -> Int]]
      /\ bindings \in [Executions -> SUBSET Scopes]
  BY <1>1
<1> QED
  BY <1>2, <1>4, <1>5, <1>6, LedgerParts

\* The books balance whatever executions reserve and reconcile, in any order: no
\* partial debit, no second reconciliation, and a debit without a reservation only
\* where a draw failed (budget.py, reserve and reconcile under one lock).
THEOREM BooksBalance == BudgetSpec => []LedgerBalanced
<1>1. LedgerInv => LedgerBalanced
  BY DEF LedgerInv
<1> QED
  BY <1>1, LedgerInit, LedgerStep, PTL DEF BudgetSpec

\* Concurrent reservations never oversubscribe a scope: it exceeds its limit by no
\* more than what providers used beyond the estimates (budget.py, _exhaustion).
THEOREM LimitsHold == BudgetSpec => []OnlyOverrunExceedsLimit
<1>1. LedgerInv => OnlyOverrunExceedsLimit
  BY DEF LedgerInv
<1> QED
  BY <1>1, LedgerInit, LedgerStep, PTL DEF BudgetSpec

--------------------------------------------------------------------------------
(* The interactive path uses the ledger by its transactions only *)

\* A step of the interactive path as a step of the ledger.
LEMMA InLedger ==
  ASSUME [Next]_vars PROVE [BudgetNext]_budgetVars
<1>1. ASSUME NEW c \in ModelCalls
      PROVE  c \in Ids /\ c[1] \in Executions
  BY InteractiveAssumption, ModelCallParts, CallParts
<1>2. ASSUME NEW c \in ModelCalls, ModelStarts(c) PROVE [BudgetNext]_budgetVars
  <2>1. UNCHANGED budgetVars \/ Reserve(c[1], Estimate, c)
    BY <1>2 DEF ModelStarts
  <2> QED
    BY <1>1, <2>1, InteractiveAssumption DEF BudgetNext
<1>3. ASSUME NEW c \in ModelCalls, ModelEnds(c) \/ CancellationHonoured(c)
      PROVE  [BudgetNext]_budgetVars
  <2>1. \E u \in Actuals \cup Estimates : Reconcile(c, u)
    BY <1>3, InteractiveAssumption DEF ModelEnds, CancellationHonoured, Settle
  <2> QED
    BY <1>1, <2>1 DEF BudgetNext
<1>4. ASSUME NEW c \in Calls, TaskStep(c) PROVE [BudgetNext]_budgetVars
  <2>1. c \notin ModelCalls => UNCHANGED budgetVars
    BY <1>4 DEF TaskStep, QueryEnds, CancellationHonoured
  <2> QED
    BY <1>2, <1>3, <1>4, <2>1 DEF TaskStep
<1>5. ASSUME NEW r \in Executions, Accept(r) \/ CoordinatorStep(r) \/ TelemetryEnds(r)
      PROVE  [BudgetNext]_budgetVars
  <2>1. CASE Accept(r)
    BY <2>1 DEF Accept, BudgetNext
  <2>2. CASE CoordinatorStep(r) \/ TelemetryEnds(r)
    BY <2>2 DEF CoordinatorStep, Begin, Respond, QueryTimesOut, QueryFails, QuerySucceeds,
                RunModels, CollectModels, LoopCloses, TelemetryEnds
  <2> QED
    BY <1>5, <2>1, <2>2
<1>6. CASE Tick \/ UNCHANGED vars
  BY <1>6 DEF Tick, vars
<1> QED
  BY <1>4, <1>5, <1>6 DEF Next

\* Every step of the interactive path is a transaction of the ledger or leaves it
\* alone, so what holds of the ledger holds of it here: admission binds, a call that
\* starts reserves, a call that ends reconciles (integration.py, BoundBudgetAdapter).
THEOREM LedgerImplemented == Spec => BudgetSpec
<1>1. Init => BudgetInit
  BY DEF Init
<1>2. [Next]_vars => [BudgetNext]_budgetVars
  BY InLedger
<1> QED
  BY <1>1, <1>2, PTL DEF Spec, BudgetSpec

\* Where no draw fails, nothing is stranded.
LEMMA NothingStranded ==
  ASSUME ~ DrawsFail
  PROVE  BudgetSpec => [](stranded = [s \in Scopes |-> Zero])
<1>1. BudgetInit => stranded = [s \in Scopes |-> Zero]
  BY DEF BudgetInit
<1>2. stranded = [s \in Scopes |-> Zero] /\ [BudgetNext]_budgetVars
        => (stranded = [s \in Scopes |-> Zero])'
  <2>1. [BudgetNext]_budgetVars => stranded' = stranded
    BY DEF BudgetNext, budgetVars, Bind, Reserve, DrawFails, Reconcile
  <2> QED
    BY <2>1 DEF Zero
<1> QED
  BY <1>1, <1>2, PTL DEF BudgetSpec

\* So the budget of the interactive path balances exactly and is not oversubscribed.
THEOREM CallsKeepTheBooks ==
  Spec => [](/\ LedgerBalanced /\ OnlyOverrunExceedsLimit
             /\ stranded = [s \in Scopes |-> Zero])
<1>1. ~ DrawsFail
  BY InteractiveAssumption
<1>2. BudgetSpec => [](stranded = [s \in Scopes |-> Zero])
  BY <1>1, NothingStranded
<1> QED
  BY <1>2, LedgerImplemented, BooksBalance, LimitsHold, PTL
================================================================================
