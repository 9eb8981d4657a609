---------------------------- MODULE StageProofs ----------------------------
(***************************************************************************)
(* What holds of every Run, for every number of attempts, crashes and      *)
(* polls and every set of capabilities, in three parts.                    *)
(*                                                                         *)
(* Types and approval: the invariant IndInv of StageSafety is inductive,   *)
(* one lemma per conjunct (TypeStep, ControlStep, ApprovalStep), each with *)
(* one step per action.                                                    *)
(*                                                                         *)
(* History: stages in order, attempts one at a time, ledgers in agreement, *)
(* the end earned and final.  HistoryOK is inductive together with IndInv. *)
(* Two lemmas about the steps carry the proof, WhoWrites and WhereNext:    *)
(* which steps write a variable, and which lead to a node; each conjunct   *)
(* of the invariant is then disturbed by a few steps only.                 *)
(*                                                                         *)
(* Promise: the stage loop implements ApprovedExecution; every step is one *)
(* move of one attempt, or changes nothing the promise speaks of.          *)
(* PhasesOK says what the phase of an attempt is read from; it is          *)
(* inductive on top of the history of the Run.                             *)
(***************************************************************************)
EXTENDS StageSafety, TLAPS

USE DEF At, Written, Checkpointed, Raises, Begin, request, graph, tables,
        files, process, world

(***************************************************************************)
(* Types and approval.                                                     *)
(***************************************************************************)

\* The next route is the least stage that remains (route_next_stage).
LEMMA NextRouteRemains ==
  ASSUME Remaining # {}
  PROVE  /\ NextRoute \in Remaining /\ NextRoute \in Stages
         /\ NextRoute > cursor
         /\ \A t \in Remaining : NextRoute <= t
<1>1. \E s \in Remaining : \A t \in Remaining : s <= t
  <2>1. Remaining \subseteq 1 .. 4
    BY DEF Remaining, Stages
  <2>2. CASE 1 \in Remaining
    BY <2>1, <2>2
  <2>3. CASE 1 \notin Remaining /\ 2 \in Remaining
    BY <2>1, <2>3
  <2>4. CASE 1 \notin Remaining /\ 2 \notin Remaining /\ 3 \in Remaining
    BY <2>1, <2>4
  <2>5. CASE 1 \notin Remaining /\ 2 \notin Remaining /\ 3 \notin Remaining
    <3>1. \A x \in Remaining : x = 4
      BY <2>1, <2>5
    <3> QED
      BY <3>1
  <2> QED
    BY <2>2, <2>3, <2>4, <2>5
<1>2. NextRoute \in Remaining /\ \A t \in Remaining : NextRoute <= t
  BY <1>1 DEF NextRoute
<1> QED
  BY <1>2 DEF Remaining

\* The initial state satisfies the invariant.
LEMMA InitInv == Init => IndInv
<1> SUFFICES ASSUME Init PROVE IndInv
  OBVIOUS
<1> USE ConstantsAssumption
<1>1. RequestOK /\ FilesOK /\ ProcessOK /\ WorldOK
  BY DEF Init, RequestOK, FilesOK, ProcessOK, WorldOK, Attempts, Jobs, NoRun,
         RunStatus
<1>2. FlagsOK
  BY DEF Init, FlagsOK
<1>3. GraphOK
  BY DEF Init, GraphOK, Nodes
<1>4. TablesOK
  BY DEF Init, TablesOK, Attempts, StageRows, AttemptRows, JobReports, NoJob,
         RunStatus
<1>5. ControlOK
  BY DEF Init, ControlOK, AttemptNodes, PlanNodes, ResultNodes, RetryNodes,
         Gates
<1>6. ApprovalOK
  BY DEF Init, ApprovalOK, ApprovedBeforeStart, PlanNodes
<1> QED
  BY <1>1, <1>2, <1>3, <1>4, <1>5, <1>6 DEF IndInv, TypeOK

\* Operation keys, outcomes and refusals are of their types (_stable_id,
\* ControlStageOutcome, _blocked_outcome).
LEMMA KeyTypes ==
  ASSUME NEW s \in Stages
  PROVE  /\ \A n \in 0 .. MaxAttempts :
              StartKey(s, n) \in Keys /\ PrepareKey(s, n) \in Keys
         /\ \A status \in {"BLOCKED_MISSING_INPUT", "CAPABILITY_UNAVAILABLE",
                           "PERMANENT_FAILED"} : BlockedKey(s, status) \in Keys
  BY ConstantsAssumption
     DEF Keys, StartKey, PrepareKey, BlockedKey, OpNames, Stages

\* An outcome of typed parts is one (ControlStageOutcome).
LEMMA OutcomeType ==
  ASSUME NEW kind \in OutcomeKinds, NEW status \in StageStatus,
         NEW key \in Keys, NEW ref \in Keys \cup {NoKey},
         NEW why \in {"none", "user", "inconsistent"}, NEW j \in JobReports
  PROVE  Outcome(kind, status, key, ref, why, j) \in Outcomes
  BY DEF Outcome, Outcomes

\* No job is a report too.
LEMMA NoJobType == NoJob \in JobReports
  BY DEF NoJob, JobReports

\* A refused stage has an outcome of the type (_blocked_outcome).
LEMMA RefusalType ==
  ASSUME NEW s \in Stages,
         NEW status \in {"BLOCKED_MISSING_INPUT", "CAPABILITY_UNAVAILABLE",
                         "PERMANENT_FAILED"}
  PROVE  Refusal(s, status) \in Outcomes
<1>1. RefusalKind(status) \in OutcomeKinds /\ status \in StageStatus
  BY DEF RefusalKind, OutcomeKinds, StageStatus
<1>2. BlockedKey(s, status) \in Keys
  BY KeyTypes
<1> QED
  BY <1>1, <1>2, OutcomeType, NoJobType DEF Refusal

\* The attempt at hand is within its bound (_next_attempt,
\* record_stage_outcome).
LEMMA AttemptTypes ==
  ASSUME IndInv, cursor \in Stages
  PROVE  /\ FiledAttempt(cursor) \in 0 .. MaxAttempts
         /\ FiledAttempt(cursor) # 0
         /\ node \in AttemptNodes => NextAttempt(cursor) \in Attempts
         /\ FiledAttempt(cursor) \in Attempts
  BY ConstantsAssumption
     DEF IndInv, TypeOK, GraphOK, ControlOK, FiledAttempt, NextAttempt,
         Attempts

\* What a poll or a cancellation of a job is turned into.
LEMMA PollTypes ==
  ASSUME NEW previous \in Outcomes, NEW j \in Jobs
  PROVE  /\ Polled(j) \in Jobs
         /\ Report(Polled(j)) \in JobReports
         /\ \A rep \in JobReports :
              JobOutcome(previous, rep, StageStatusOf(rep)) \in Outcomes
         /\ \A status \in {"RETRYABLE_FAILED", "PERMANENT_FAILED"} :
              PollFailure(previous, status) \in Outcomes
<1>1. /\ previous.key \in Keys /\ previous.ref \in Keys \cup {NoKey}
      /\ previous.job \in JobReports
  BY DEF Outcomes
<1>2. Polled(j) \in Jobs
  <2>1. j.seq + 1 \in Nat
    BY DEF Jobs
  <2>2. [status |-> j.status, seen |-> j.status, seq |-> j.seq + 1] \in Jobs
    BY <2>1 DEF Jobs
  <2> QED
    BY <2>2 DEF Polled
<1>3. Report(Polled(j)) \in JobReports
  BY <1>2 DEF Report, Jobs, JobReports
<1>4. ASSUME NEW rep \in JobReports
      PROVE  JobOutcome(previous, rep, StageStatusOf(rep)) \in Outcomes
  <2>1. StageStatusOf(rep) \in StageStatus
    BY DEF StageStatusOf, StageStatus
  <2>2. \A status \in StageStatus :
          (IF rep.status \in TerminalJob THEN CompletionKind(status)
                                         ELSE "WAITING_EXTERNAL")
            \in OutcomeKinds
    BY DEF CompletionKind, OutcomeKinds
  <2> QED
    BY <1>1, <2>1, <2>2, OutcomeType DEF JobOutcome
<1>5. ASSUME NEW status \in {"RETRYABLE_FAILED", "PERMANENT_FAILED"}
      PROVE  PollFailure(previous, status) \in Outcomes
  <2>1. status \in StageStatus /\ "FAILED" \in OutcomeKinds
    BY DEF StageStatus, OutcomeKinds
  <2> QED
    BY <1>1, <2>1, OutcomeType, NoJobType DEF PollFailure
<1> QED
  BY <1>2, <1>3, <1>4, <1>5

\* A waiting Run has a stage, its outcome and its job.
LEMMA WaitingTypes ==
  ASSUME IndInv, WaitingExternal
  PROVE  /\ cursor \in Stages /\ outcome[cursor] \in Outcomes
         /\ FiledAttempt(cursor) \in Attempts
         /\ job[cursor][FiledAttempt(cursor)] \in Jobs
<1>1. cursor \in Stages /\ outcome[cursor].kind = "WAITING_EXTERNAL"
  BY DEF WaitingExternal
<1>2. outcome[cursor] \in Outcomes \cup {NoOutcome}
  BY <1>1 DEF IndInv, TypeOK, GraphOK
<1>3. FiledAttempt(cursor) \in Attempts
  BY <1>1, AttemptTypes
<1> QED
  BY <1>1, <1>2, <1>3 DEF NoOutcome, IndInv, TypeOK, WorldOK

\* The pending outcome is typed, and is there when a node reads it.
Delivers == /\ pend' \in Outcomes \cup {NoOutcome}
            /\ node' \in ResultNodes => pend' \in Outcomes

\* Every step that makes an outcome makes one of the type.
LEMMA OutcomesMade ==
  ASSUME IndInv
  PROVE  /\ RouteSelect \/ ValidateInput \/ PrepareFails \/ GateDone => Delivers
         /\ ValidateResult \/ RetryGate => Delivers
         /\ ResumeReconcile \/ CancelExternal => Delivers
         /\ ExecuteStart => local' \in Outcomes
<1> USE ConstantsAssumption DEF IndInv, TypeOK
<1>1. ASSUME RouteSelect PROVE Delivers
  <2>1. NextRoute \in Stages
    BY <1>1, NextRouteRemains DEF RouteSelect
  <2> QED
    BY <1>1, <2>1, RefusalType DEF RouteSelect, Delivers, ResultNodes
<1>2. ASSUME ValidateInput PROVE Delivers
  <2>1. cursor \in Stages
    BY <1>2 DEF ValidateInput, ControlOK, AttemptNodes
  <2>2. CASE ~MissingInput(cursor) /\ pend' = NoOutcome
              /\ node' = "prepare_stage_plan"
    BY <2>2 DEF Delivers, ResultNodes
  <2>3. CASE \E status \in (IF MissingInput(cursor)
                              THEN {"BLOCKED_MISSING_INPUT"} ELSE InputFaults) :
               pend' = Refusal(cursor, status)
    BY <2>1, <2>3, RefusalType DEF Delivers
  <2> QED
    BY <1>2, <2>2, <2>3 DEF ValidateInput
<1>3. ASSUME PrepareFails PROVE Delivers
  <2>1. cursor \in Stages
    BY <1>3 DEF PrepareFails, ControlOK, AttemptNodes
  <2>2. PrepareKey(cursor, NextAttempt(cursor)) \in Keys
    <3>1. node \in AttemptNodes
      BY <1>3 DEF PrepareFails, AttemptNodes
    <3> QED
      BY <2>1, <3>1, AttemptTypes, KeyTypes DEF Attempts
  <2>3. PICK status \in PrepareFaults :
          pend' = Outcome("FAILED", status,
                          PrepareKey(cursor, NextAttempt(cursor)), NoKey,
                          "none", NoJob)
    BY <1>3 DEF PrepareFails
  <2>4. status \in StageStatus /\ "FAILED" \in OutcomeKinds
    BY DEF StageStatus, OutcomeKinds
  <2> QED
    BY <2>2, <2>3, <2>4, OutcomeType, NoJobType DEF Delivers
<1>4. ASSUME GateDone PROVE Delivers
  <2>1. cursor \in Stages /\ node \in AttemptNodes
    BY <1>4 DEF GateDone, ControlOK, AttemptNodes, PlanNodes
  <2>2. StartKey(cursor, NextAttempt(cursor)) \in Keys
    BY <2>1, AttemptTypes, KeyTypes DEF Attempts
  <2>3. CASE answer = "approve"
    BY <1>4, <2>3 DEF GateDone, Delivers, ResultNodes, GraphOK
  <2>4. CASE answer # "approve"
    <3>1. "COMPLETED" \in OutcomeKinds /\ "CANCELLED" \in StageStatus
      BY DEF OutcomeKinds, StageStatus
    <3>2. Outcome("COMPLETED", "CANCELLED",
                  StartKey(cursor, NextAttempt(cursor)), NoKey, "user", NoJob)
            \in Outcomes
      BY <2>2, <3>1, OutcomeType, NoJobType
    <3> QED
      BY <1>4, <2>4, <3>2 DEF GateDone, Delivers
  <2> QED
    BY <2>3, <2>4
<1>5. ASSUME ValidateResult PROVE Delivers
  <2>1. pend \in Outcomes
    BY <1>5 DEF ValidateResult, ControlOK, ResultNodes
  <2>3. Outcome("FAILED", "PERMANENT_FAILED", pend.key, pend.ref,
                "inconsistent", pend.job) \in Outcomes
    BY <2>1 DEF Outcomes, Outcome, OutcomeKinds, StageStatus
  <2> QED
    BY <1>5, <2>1, <2>3 DEF ValidateResult, Delivers
<1>6. ASSUME RetryGate PROVE Delivers
  <2>1. outcome[cursor] \in Outcomes
    BY <1>6 DEF RetryGate, ControlOK, RetryNodes
  <2>2. CASE answer = "retry"
    BY <1>6, <2>2 DEF RetryGate, Delivers, ResultNodes, GraphOK
  <2>3. CASE answer # "retry"
    <3>1. "COMPLETED" \in OutcomeKinds /\ "CANCELLED" \in StageStatus
      BY DEF OutcomeKinds, StageStatus
    <3>2. /\ outcome[cursor].key \in Keys
          /\ outcome[cursor].ref \in Keys \cup {NoKey}
      BY <2>1 DEF Outcomes
    <3>3. Outcome("COMPLETED", "CANCELLED", outcome[cursor].key,
                  outcome[cursor].ref, "user", NoJob) \in Outcomes
      BY <3>1, <3>2, OutcomeType, NoJobType
    <3> QED
      BY <1>6, <2>3, <3>3 DEF RetryGate, Delivers
  <2> QED
    BY <2>2, <2>3
<1>7. ASSUME ResumeReconcile PROVE Delivers
  <2> DEFINE previous == outcome[cursor]
             rep == Report(Polled(job[cursor][FiledAttempt(cursor)]))
  <2>1. /\ previous \in Outcomes
        /\ job[cursor][FiledAttempt(cursor)] \in Jobs
    BY <1>7, WaitingTypes DEF ResumeReconcile
  <2>2. \/ pend' = JobOutcome(previous, rep, StageStatusOf(rep))
        \/ \E status \in {"RETRYABLE_FAILED", "PERMANENT_FAILED"} :
             pend' = PollFailure(previous, status)
    BY <1>7, Zenon DEF ResumeReconcile
  <2> QED
    BY <2>1, <2>2, PollTypes DEF Delivers
<1>8. ASSUME CancelExternal PROVE Delivers
  <2> DEFINE previous == outcome[cursor]
             rep == [status |-> "CANCELLED", seq |-> previous.job.seq + 1]
  <2>1. previous \in Outcomes /\ job[cursor][FiledAttempt(cursor)] \in Jobs
    BY <1>8, WaitingTypes DEF CancelExternal
  <2>2. \/ pend' = PollFailure(previous, "PERMANENT_FAILED")
        \/ pend' = Outcome("COMPLETED", "CANCELLED", previous.key,
                           previous.ref, "user", rep)
    BY <1>8, Zenon DEF CancelExternal
  <2>3. Outcome("COMPLETED", "CANCELLED", previous.key, previous.ref, "user",
                rep) \in Outcomes
    <3>1. "COMPLETED" \in OutcomeKinds /\ "CANCELLED" \in StageStatus
      BY DEF OutcomeKinds, StageStatus
    <3>2. /\ previous.key \in Keys /\ previous.ref \in Keys \cup {NoKey}
          /\ previous.job.seq \in Nat
      BY <2>1 DEF Outcomes, JobReports
    <3>3. rep \in JobReports
      BY <3>2 DEF JobReports, JobStatus
    <3> QED
      BY <3>1, <3>2, <3>3, OutcomeType
  <2> QED
    BY <2>1, <2>2, <2>3, PollTypes DEF Delivers
<1>9. ASSUME ExecuteStart PROVE local' \in Outcomes
  <2> DEFINE key == StartKey(cursor, NextAttempt(cursor))
  <2>1. cursor \in Stages /\ node \in AttemptNodes
    BY <1>9 DEF ExecuteStart, ControlOK, AttemptNodes, PlanNodes
  <2>2. key \in Keys /\ RefOf(cursor, key) \in Keys \cup {NoKey}
    BY <2>1, AttemptTypes, KeyTypes DEF Attempts, RefOf
  <2>3. \/ \E status \in StartStatuses :
             local' = Outcome(CompletionKind(status), status, key,
                              RefOf(cursor, key), "none", NoJob)
        \/ local' = Outcome("WAITING_EXTERNAL", "RUNNING", key,
                            RefOf(cursor, key), "none",
                            [status |-> "SUBMITTED", seq |-> 0])
        \/ local' = Outcome("FAILED", "RETRYABLE_FAILED", key,
                            RefOf(cursor, key), "none", NoJob)
    BY <1>9, Zenon DEF ExecuteStart
  <2>4. /\ StartStatuses \subseteq StageStatus
        /\ {"RUNNING", "RETRYABLE_FAILED"} \subseteq StageStatus
        /\ {"WAITING_EXTERNAL", "FAILED"} \subseteq OutcomeKinds
        /\ \A status \in StartStatuses : CompletionKind(status) \in OutcomeKinds
        /\ [status |-> "SUBMITTED", seq |-> 0] \in JobReports
    BY DEF StageStatus, OutcomeKinds, CompletionKind, JobReports, JobStatus
  <2> QED
    BY <2>2, <2>3, <2>4, OutcomeType, NoJobType
<1> QED
  BY <1>1, <1>2, <1>3, <1>4, <1>5, <1>6, <1>7, <1>8, <1>9

\* A durable write that keeps what it wrote typed keeps everything typed.
LEMMA WriteType ==
  ASSUME TypeOK, Written, step < 5, TablesOK', FilesOK',
         local' \in Outcomes \cup {NoOutcome},
         starts' \subseteq Stages \X Attempts,
         job' \in [Stages -> [Attempts -> Jobs]]
  PROVE  TypeOK'
<1>1. RequestOK' /\ FlagsOK' /\ GraphOK'
  BY DEF TypeOK, RequestOK, FlagsOK, GraphOK
<1>2. ProcessOK' /\ WorldOK'
  BY DEF TypeOK, ProcessOK, WorldOK
<1> QED
  BY <1>1, <1>2 DEF TypeOK

\* A checkpoint that keeps the graph typed keeps everything typed.
LEMMA CheckpointType ==
  ASSUME TypeOK, Checkpointed, GraphOK', FlagsOK',
         answer' \in {"none", answer}
  PROVE  TypeOK'
<1>1. RequestOK' /\ TablesOK' /\ FilesOK'
  BY DEF TypeOK, RequestOK, TablesOK, FilesOK
<1>2. ProcessOK' /\ WorldOK'
  BY DEF TypeOK, ProcessOK, WorldOK
<1> QED
  BY <1>1, <1>2 DEF TypeOK

\* A refused write loses the process and nothing else.
LEMMA RaiseType ==
  ASSUME TypeOK, NEW check \in {"stage", "attempt", "operation",
                                "approval"},
         Raises(check)
  PROVE  TypeOK'
<1>1. RequestOK' /\ TablesOK' /\ FilesOK' /\ FlagsOK'
  BY DEF TypeOK, RequestOK, TablesOK, FilesOK, FlagsOK
<1>2. ProcessOK' /\ WorldOK' /\ GraphOK'
  BY DEF TypeOK, ProcessOK, WorldOK, GraphOK
<1> QED
  BY <1>1, <1>2 DEF TypeOK

\* A command starts a process and keeps what is stored.
LEMMA BeginType ==
  ASSUME TypeOK, NEW a \in {"none", "approve", "reject", "retry", "cancel"},
         Begin(a), GraphOK', interrupted' = interrupted,
         starts' = starts, job' \in [Stages -> [Attempts -> Jobs]]
  PROVE  TypeOK'
<1>1. RequestOK' /\ TablesOK' /\ FilesOK' /\ FlagsOK'
  BY DEF TypeOK, RequestOK, TablesOK, FilesOK, FlagsOK
<1>2. ProcessOK' /\ WorldOK'
  BY DEF TypeOK, ProcessOK, WorldOK
<1> QED
  BY <1>1, <1>2 DEF TypeOK

\* A row is written with values of its columns' types.
LEMMA StageRowType ==
  ASSUME TypeOK, NEW s \in Stages, NEW status \in StageStatus,
         NEW n \in 0 .. MaxAttempts, NEW ref \in Keys \cup {NoKey},
         UpsertStage(s, status, n, ref)
  PROVE  stageRow' \in [Stages -> StageRows]
<1>1. stageRow[s].ref \in Keys \cup {NoKey}
  BY DEF TypeOK, TablesOK, StageRows
<1>2. [status |-> status, attempt |-> n,
       ref |-> IF ref # NoKey THEN ref ELSE stageRow[s].ref] \in StageRows
  BY <1>1 DEF StageRows
<1> QED
  BY <1>2 DEF TypeOK, TablesOK, UpsertStage

\* The same of an attempt's row (record_stage_attempt).
LEMMA AttemptRowType ==
  ASSUME TypeOK, NEW s \in Stages, NEW n \in Attempts, NEW key \in Keys,
         NEW status \in StageStatus, NEW plan \in 0 .. MaxAttempts,
         RecordAttempt(s, n, key, status, plan)
  PROVE  attemptRow' \in [Stages -> [Attempts -> AttemptRows]]
<1>1. attemptRow[s][n].plan \in 0 .. MaxAttempts
  BY DEF TypeOK, TablesOK, AttemptRows
<1>2. [status |-> status, key |-> key,
       plan |-> IF attemptRow[s][n].key = NoKey THEN plan
                ELSE attemptRow[s][n].plan] \in AttemptRows
  BY <1>1 DEF AttemptRows
<1> QED
  BY <1>2 DEF TypeOK, TablesOK, RecordAttempt

\* The statuses the graph writes on the way are in the vocabulary.
LEMMA StatusTypes ==
  /\ {"VALIDATING_INPUT", "WAITING_APPROVAL", "READY", "RUNNING"}
       \subseteq StageStatus
  /\ NoKey \in Keys \cup {NoKey}
  BY DEF StageStatus

\* The stage and the attempt a node works on are there.
LEMMA CursorTypes ==
  ASSUME IndInv
  PROVE  /\ node \in AttemptNodes =>
              cursor \in Stages /\ NextAttempt(cursor) \in Attempts
         /\ node \in ResultNodes =>
              /\ cursor \in Stages /\ pend \in Outcomes
              /\ FiledAttempt(cursor) \in Attempts
  BY AttemptTypes DEF IndInv, ControlOK

\* A job the backend moves on is a job.
LEMMA MovedTypes ==
  ASSUME NEW j \in Jobs, NEW status \in JobStatus
  PROVE  MovedTo(j, status) \in Jobs
  BY DEF MovedTo, Jobs

\* A step leaves the cursor, the counter and the pending outcome as the next
\* node expects them.
LEMMA TypeStep == IndInv /\ [Next]_vars => TypeOK'
<1> SUFFICES ASSUME IndInv, [Next]_vars PROVE TypeOK'
  OBVIOUS
<1> USE ConstantsAssumption
<1>1. CASE RouteMarkRun
  <2>1. run' \in RunStatus
    BY <1>1 DEF RouteMarkRun, RunStatus, RunAfter, FinalStatus
  <2> QED
    BY <1>1, <2>1, WriteType
       DEF RouteMarkRun, IndInv, TypeOK, TablesOK, FilesOK, ProcessOK, WorldOK
<1>2. CASE RouteSelect
  <2>1. NextRoute \in 0 .. 5
    BY <1>2, NextRouteRemains DEF RouteSelect, Stages
  <2>2. GraphOK' /\ FlagsOK'
    BY <1>2, <2>1, OutcomesMade, ConstantsAssumption
       DEF RouteSelect, Delivers, IndInv, TypeOK, GraphOK, FlagsOK, Nodes
  <2> QED
    BY <1>2, <2>2, CheckpointType DEF RouteSelect, IndInv
<1>3. CASE RouteExhausted
  <2>1. GraphOK' /\ FlagsOK'
    BY <1>3, ConstantsAssumption
       DEF RouteExhausted, IndInv, TypeOK, GraphOK, FlagsOK, Nodes
  <2> QED
    BY <1>3, <2>1, CheckpointType DEF RouteExhausted, IndInv
<1>4. CASE ValidateMarkStage
  <2>1. cursor \in Stages /\ NextAttempt(cursor) \in 0 .. MaxAttempts
    BY <1>4, CursorTypes
       DEF ValidateMarkStage, AttemptNodes, PlanNodes, Attempts
  <2>2. stageRow' \in [Stages -> StageRows]
    BY <1>4, <2>1, StageRowType, StatusTypes DEF ValidateMarkStage, IndInv
  <2> QED
    BY <1>4, <2>2, WriteType
       DEF ValidateMarkStage, IndInv, TypeOK, TablesOK, FilesOK, ProcessOK,
           WorldOK
<1>5. CASE ValidateInput
  <2>1. GraphOK' /\ FlagsOK'
    BY <1>5, OutcomesMade, ConstantsAssumption
       DEF ValidateInput, Delivers, IndInv, TypeOK, GraphOK, FlagsOK, Nodes
  <2> QED
    BY <1>5, <2>1, CheckpointType DEF ValidateInput, IndInv
<1>6. CASE PrepareFreeze
  <2>1. cursor \in Stages /\ NextAttempt(cursor) \in Attempts
    BY <1>6, CursorTypes DEF PrepareFreeze, AttemptNodes, PlanNodes
  <2>2. FilesOK'
    BY <1>6, <2>1 DEF PrepareFreeze, IndInv, TypeOK, FilesOK
  <2> QED
    BY <1>6, <2>2, WriteType
       DEF PrepareFreeze, IndInv, TypeOK, TablesOK, ProcessOK, WorldOK
<1>7. CASE PrepareFails
  <2>1. cursor \in Stages /\ NextAttempt(cursor) \in 0 .. MaxAttempts
    BY <1>7, CursorTypes DEF PrepareFails, AttemptNodes, PlanNodes, Attempts
  <2>2. GraphOK' /\ FlagsOK'
    BY <1>7, <2>1, OutcomesMade, ConstantsAssumption
       DEF PrepareFails, Delivers, IndInv, TypeOK, GraphOK, FlagsOK, Nodes
  <2> QED
    BY <1>7, <2>2, CheckpointType DEF PrepareFails, IndInv
<1>8. CASE PrepareMarkAttempt
  <2>1. cursor \in Stages /\ NextAttempt(cursor) \in Attempts
    BY <1>8, CursorTypes DEF PrepareMarkAttempt, AttemptNodes, PlanNodes
  <2>2. attemptRow' \in [Stages -> [Attempts -> AttemptRows]]
    BY <1>8, <2>1, AttemptRowType, KeyTypes, StatusTypes
       DEF PrepareMarkAttempt, IndInv, Attempts
  <2> QED
    BY <1>8, <2>2, WriteType
       DEF PrepareMarkAttempt, IndInv, TypeOK, TablesOK, FilesOK, ProcessOK,
           WorldOK
<1>9. CASE PrepareDone
  <2>1. cursor \in Stages /\ NextAttempt(cursor) \in 0 .. MaxAttempts
    BY <1>9, CursorTypes DEF PrepareDone, AttemptNodes, PlanNodes, Attempts
  <2>2. GraphOK' /\ FlagsOK'
    BY <1>9, <2>1, ConstantsAssumption
       DEF PrepareDone, IndInv, TypeOK, GraphOK, FlagsOK, Nodes
  <2> QED
    BY <1>9, <2>2, CheckpointType DEF PrepareDone, IndInv
<1>10. CASE DecideApproval
  <2>1. GraphOK' /\ FlagsOK'
    BY <1>10, ConstantsAssumption
       DEF DecideApproval, RouteAfterDecision, IndInv, TypeOK, GraphOK,
           FlagsOK, Nodes
  <2> QED
    BY <1>10, <2>1, CheckpointType DEF DecideApproval, IndInv
<1>11. CASE ApprovalEnsure
  <2>1. cursor \in Stages /\ prepared \in Attempts
    BY <1>11, CursorTypes DEF ApprovalEnsure, AttemptNodes, PlanNodes
  <2>2. /\ "PENDING" \in ApprovalStatus
        /\ \/ approval' = approval
           \/ approval' = [approval EXCEPT ![cursor][prepared] = "PENDING"]
    BY <1>11 DEF ApprovalEnsure, ApprovalStatus
  <2>3. approval' \in [Stages -> [Attempts -> ApprovalStatus \cup {"NONE"}]]
    <3>1. CASE approval' = approval
      BY <3>1 DEF IndInv, TypeOK, TablesOK
    <3>2. CASE approval' = [approval EXCEPT ![cursor][prepared] = "PENDING"]
      BY <2>1, <2>2, <3>2 DEF IndInv, TypeOK, TablesOK
    <3> QED
      BY <2>2, <3>1, <3>2
  <2> QED
    BY <1>11, <2>3, WriteType
       DEF ApprovalEnsure, IndInv, TypeOK, TablesOK, FilesOK, ProcessOK,
           WorldOK
<1>12. CASE ApprovalMarkStage
  <2>1. cursor \in Stages /\ NextAttempt(cursor) \in 0 .. MaxAttempts
    BY <1>12, CursorTypes
       DEF ApprovalMarkStage, AttemptNodes, PlanNodes, Attempts
  <2>2. stageRow' \in [Stages -> StageRows]
    BY <1>12, <2>1, StageRowType, StatusTypes DEF ApprovalMarkStage, IndInv
  <2> QED
    BY <1>12, <2>2, WriteType
       DEF ApprovalMarkStage, IndInv, TypeOK, TablesOK, FilesOK, ProcessOK,
           WorldOK
<1>13. CASE ApprovalMarkRun
  <2>1. run' \in RunStatus
    BY <1>13 DEF ApprovalMarkRun, RunStatus, RunAfter, FinalStatus
  <2> QED
    BY <1>13, <2>1, WriteType
       DEF ApprovalMarkRun, IndInv, TypeOK, TablesOK, FilesOK, ProcessOK,
           WorldOK
<1>14. CASE ApprovalPrepared
  <2>1. GraphOK' /\ FlagsOK'
    BY <1>14, ConstantsAssumption
       DEF ApprovalPrepared, IndInv, TypeOK, GraphOK, FlagsOK, Nodes
  <2> QED
    BY <1>14, <2>1, CheckpointType DEF ApprovalPrepared, IndInv
<1>15. CASE Interrupt
  <2>1. RequestOK' /\ FlagsOK' /\ TablesOK' /\ FilesOK'
    BY <1>15
       DEF Interrupt, IndInv, TypeOK, RequestOK, FlagsOK, TablesOK, FilesOK
  <2>2. GraphOK' /\ ProcessOK' /\ WorldOK'
    BY <1>15 DEF Interrupt, IndInv, TypeOK, GraphOK, ProcessOK, WorldOK
  <2> QED
    BY <2>1, <2>2 DEF TypeOK
<1>16. CASE GateDecide
  <2>1. cursor \in Stages /\ prepared \in Attempts
    BY <1>16, CursorTypes DEF GateDecide, AttemptNodes, PlanNodes
  <2>2. CASE approval[cursor][prepared] \in {"PENDING", Decided}
    <3>1. Decided \in ApprovalStatus
      BY DEF Decided, ApprovalStatus
    <3>2. approval' = [approval EXCEPT ![cursor][prepared] = Decided]
      BY <1>16, <2>2 DEF GateDecide
    <3>3. approval' \in [Stages -> [Attempts -> ApprovalStatus \cup {"NONE"}]]
      BY <2>1, <3>1, <3>2 DEF IndInv, TypeOK, TablesOK
    <3> QED
      BY <1>16, <2>2, <3>3, WriteType
         DEF GateDecide, IndInv, TypeOK, TablesOK, FilesOK, ProcessOK, WorldOK
  <2>3. CASE approval[cursor][prepared] \notin {"PENDING", Decided}
    BY <1>16, <2>3, RaiseType DEF GateDecide, IndInv
  <2> QED
    BY <2>2, <2>3
<1>17. CASE GateDone
  <2>1. answer \in {"approve", "reject"}
    BY <1>17 DEF GateDone, IndInv, TypeOK, ProcessOK, ControlOK
  <2>2. GraphOK' /\ FlagsOK'
    BY <1>17, <2>1, OutcomesMade, ConstantsAssumption
       DEF GateDone, Delivers, IndInv, TypeOK, GraphOK, FlagsOK, Nodes
  <2> QED
    BY <1>17, <2>2, CheckpointType DEF GateDone, IndInv
<1>18. CASE ReadyMarkStage
  <2>1. cursor \in Stages /\ NextAttempt(cursor) \in 0 .. MaxAttempts
    BY <1>18, CursorTypes DEF ReadyMarkStage, AttemptNodes, PlanNodes, Attempts
  <2>2. stageRow' \in [Stages -> StageRows]
    BY <1>18, <2>1, StageRowType, StatusTypes DEF ReadyMarkStage, IndInv
  <2> QED
    BY <1>18, <2>2, WriteType
       DEF ReadyMarkStage, IndInv, TypeOK, TablesOK, FilesOK, ProcessOK,
           WorldOK
<1>19. CASE ReadyDone
  <2>1. GraphOK' /\ FlagsOK'
    BY <1>19, ConstantsAssumption
       DEF ReadyDone, IndInv, TypeOK, GraphOK, FlagsOK, Nodes
  <2> QED
    BY <1>19, <2>1, CheckpointType DEF ReadyDone, IndInv
<1>20. CASE ExecuteMarkStage
  <2>1. cursor \in Stages /\ NextAttempt(cursor) \in 0 .. MaxAttempts
    BY <1>20, CursorTypes
       DEF ExecuteMarkStage, AttemptNodes, PlanNodes, Attempts
  <2>2. stageRow' \in [Stages -> StageRows]
    BY <1>20, <2>1, StageRowType, StatusTypes DEF ExecuteMarkStage, IndInv
  <2> QED
    BY <1>20, <2>2, WriteType
       DEF ExecuteMarkStage, IndInv, TypeOK, TablesOK, FilesOK, ProcessOK,
           WorldOK
<1>21. CASE ExecuteMarkRun
  <2>1. run' \in RunStatus
    BY <1>21 DEF ExecuteMarkRun, RunStatus, RunAfter, FinalStatus
  <2> QED
    BY <1>21, <2>1, WriteType
       DEF ExecuteMarkRun, IndInv, TypeOK, TablesOK, FilesOK, ProcessOK,
           WorldOK
<1>22. CASE ExecuteMarkAttempt
  <2>1. cursor \in Stages /\ NextAttempt(cursor) \in Attempts
    BY <1>22, CursorTypes DEF ExecuteMarkAttempt, AttemptNodes, PlanNodes
  <2>2. attemptRow' \in [Stages -> [Attempts -> AttemptRows]]
    BY <1>22, <2>1, AttemptRowType, KeyTypes, StatusTypes
       DEF ExecuteMarkAttempt, IndInv, Attempts
  <2> QED
    BY <1>22, <2>2, WriteType
       DEF ExecuteMarkAttempt, IndInv, TypeOK, TablesOK, FilesOK, ProcessOK,
           WorldOK
<1>23. CASE ExecuteStart
  <2>1. cursor \in Stages /\ NextAttempt(cursor) \in Attempts
    BY <1>23, CursorTypes DEF ExecuteStart, AttemptNodes, PlanNodes
  <2>2. starts' \subseteq Stages \X Attempts
    BY <1>23, <2>1 DEF ExecuteStart, IndInv, TypeOK, WorldOK
  <2>3. /\ Submitted \in Jobs
        /\ \/ job' = job
           \/ job' = [job EXCEPT ![cursor][NextAttempt(cursor)] = Submitted]
    BY <1>23 DEF ExecuteStart, Submitted, Jobs, JobStatus
  <2>4. job' \in [Stages -> [Attempts -> Jobs]]
    BY <2>1, <2>3 DEF IndInv, TypeOK, WorldOK
  <2> QED
    BY <1>23, <2>2, <2>4, OutcomesMade, WriteType
       DEF ExecuteStart, IndInv, TypeOK, TablesOK, FilesOK
<1>24. CASE ExecuteDone
  <2>1. /\ cursor \in Stages /\ NextAttempt(cursor) \in 0 .. MaxAttempts
        /\ local \in Outcomes
    BY <1>24, CursorTypes
       DEF ExecuteDone, AttemptNodes, PlanNodes, Attempts, IndInv, ControlOK
  <2>2. GraphOK' /\ FlagsOK'
    BY <1>24, <2>1 DEF ExecuteDone, IndInv, TypeOK, GraphOK, FlagsOK, Nodes
  <2> QED
    BY <1>24, <2>2, CheckpointType DEF ExecuteDone, IndInv
<1>25. CASE ValidateResult
  <2>1. GraphOK' /\ FlagsOK'
    BY <1>25, OutcomesMade, ConstantsAssumption
       DEF ValidateResult, Delivers, IndInv, TypeOK, GraphOK, FlagsOK, Nodes
  <2> QED
    BY <1>25, <2>1, CheckpointType DEF ValidateResult, IndInv
<1>26. CASE RecordStage
  <2>1. /\ cursor \in Stages /\ FiledAttempt(cursor) \in Attempts
        /\ pend \in Outcomes
    BY <1>26, CursorTypes DEF RecordStage, ResultNodes
  <2>2. stageRow' \in [Stages -> StageRows]
    BY <1>26, <2>1, StageRowType DEF RecordStage, IndInv, Outcomes, Attempts
  <2> QED
    BY <1>26, <2>2, WriteType
       DEF RecordStage, IndInv, TypeOK, TablesOK, FilesOK, ProcessOK, WorldOK
<1>27. CASE RecordLedger
  <2>1. /\ cursor \in Stages /\ FiledAttempt(cursor) \in Attempts
        /\ pend \in Outcomes
    BY <1>27, CursorTypes DEF RecordLedger, ResultNodes
  <2>2. operations' \subseteq Outcomes
    BY <1>27, <2>1 DEF RecordLedger, RecordOperation, IndInv, TypeOK, TablesOK
  <2> QED
    BY <1>27, <2>2, WriteType
       DEF RecordLedger, IndInv, TypeOK, TablesOK, FilesOK, ProcessOK, WorldOK
<1>28. CASE RecordStageAttempt
  <2>1. /\ cursor \in Stages /\ FiledAttempt(cursor) \in Attempts
        /\ pend \in Outcomes
    BY <1>28, CursorTypes DEF RecordStageAttempt, ResultNodes
  <2>2. planRef[cursor] \in 0 .. MaxAttempts
    BY <2>1 DEF IndInv, TypeOK, GraphOK
  <2>3. attemptRow' \in [Stages -> [Attempts -> AttemptRows]]
    BY <1>28, <2>1, <2>2, AttemptRowType
       DEF RecordStageAttempt, IndInv, Outcomes
  <2> QED
    BY <1>28, <2>3, WriteType
       DEF RecordStageAttempt, IndInv, TypeOK, TablesOK, FilesOK, ProcessOK,
           WorldOK
<1>29. CASE RecordJob
  <2>1. /\ cursor \in Stages /\ FiledAttempt(cursor) \in Attempts
        /\ pend \in Outcomes
    BY <1>29, CursorTypes DEF RecordJob, ResultNodes
  <2>2. pend.job \in JobReports
    BY <2>1 DEF Outcomes
  <2>3. \/ jobRow' = jobRow
        \/ jobRow' = [jobRow EXCEPT ![cursor][FiledAttempt(cursor)] = pend.job]
    BY <1>29 DEF RecordJob
  <2>4. jobRow' \in [Stages -> [Attempts -> JobReports]]
    <3>1. CASE jobRow' = jobRow
      BY <3>1 DEF IndInv, TypeOK, TablesOK
    <3>2. CASE jobRow' = [jobRow EXCEPT ![cursor][FiledAttempt(cursor)]
                                        = pend.job]
      BY <2>1, <2>2, <3>2 DEF IndInv, TypeOK, TablesOK
    <3> QED
      BY <2>3, <3>1, <3>2
  <2> QED
    BY <1>29, <2>4, WriteType
       DEF RecordJob, IndInv, TypeOK, TablesOK, FilesOK, ProcessOK, WorldOK
<1>30. CASE RecordRefused
  BY <1>30, RaiseType DEF RecordRefused, IndInv
<1>31. CASE RecordRun
  <2>1. run' \in RunStatus
    BY <1>31 DEF RecordRun, RunStatus, RunAfter, FinalStatus
  <2> QED
    BY <1>31, <2>1, WriteType
       DEF RecordRun, IndInv, TypeOK, TablesOK, FilesOK, ProcessOK, WorldOK
<1>32. CASE RecordDone
  <2>1. /\ cursor \in Stages /\ FiledAttempt(cursor) \in 0 .. MaxAttempts
        /\ pend \in Outcomes
    BY <1>32, CursorTypes DEF RecordDone, ResultNodes, Attempts
  <2>2. GraphOK' /\ FlagsOK'
    BY <1>32, <2>1
       DEF RecordDone, RouteAfterRecord, IndInv, TypeOK, GraphOK, FlagsOK,
           Nodes
  <2> QED
    BY <1>32, <2>2, CheckpointType DEF RecordDone, RouteAfterRecord, IndInv
<1>33. CASE RetryMarkRun
  <2>1. run' \in RunStatus
    BY <1>33 DEF RetryMarkRun, RunStatus, RunAfter, FinalStatus
  <2> QED
    BY <1>33, <2>1, WriteType
       DEF RetryMarkRun, IndInv, TypeOK, TablesOK, FilesOK, ProcessOK, WorldOK
<1>34. CASE RetryPrepared
  <2>1. GraphOK' /\ FlagsOK'
    BY <1>34, ConstantsAssumption
       DEF RetryPrepared, IndInv, TypeOK, GraphOK, FlagsOK, Nodes
  <2> QED
    BY <1>34, <2>1, CheckpointType DEF RetryPrepared, IndInv
<1>35. CASE RetryGate
  <2>1. answer \in {"retry", "cancel"}
    BY <1>35 DEF RetryGate, IndInv, TypeOK, ProcessOK, ControlOK
  <2>2. GraphOK' /\ FlagsOK'
    BY <1>35, <2>1, OutcomesMade, ConstantsAssumption
       DEF RetryGate, Delivers, IndInv, TypeOK, GraphOK, FlagsOK, Nodes
  <2> QED
    BY <1>35, <2>2, CheckpointType DEF RetryGate, IndInv
<1>36. CASE ReportWrite
  <2>1. FilesOK'
    BY <1>36 DEF ReportWrite, FinalStatus, IndInv, TypeOK, FilesOK, RunStatus
  <2> QED
    BY <1>36, <2>1, WriteType
       DEF ReportWrite, IndInv, TypeOK, TablesOK, ProcessOK, WorldOK
<1>37. CASE ReportMarkRun
  <2>1. run' \in RunStatus
    BY <1>37 DEF ReportMarkRun, RunStatus, RunAfter, FinalStatus
  <2> QED
    BY <1>37, <2>1, WriteType
       DEF ReportMarkRun, IndInv, TypeOK, TablesOK, FilesOK, ProcessOK, WorldOK
<1>38. CASE ReportDone
  <2>1. GraphOK' /\ FlagsOK'
    BY <1>38, ConstantsAssumption
       DEF ReportDone, IndInv, TypeOK, GraphOK, FlagsOK, Nodes
  <2> QED
    BY <1>38, <2>1, CheckpointType DEF ReportDone, IndInv
<1>39. CASE Approve
  <2>1. GraphOK' /\ starts' = starts /\ job' = job /\ interrupted' = interrupted
    BY <1>39 DEF Approve, IndInv, TypeOK, GraphOK
  <2>2. \E a \in {"none", "approve", "reject", "retry", "cancel"} : Begin(a)
    BY <1>39 DEF Approve
  <2> QED
    BY <2>1, <2>2, BeginType DEF IndInv, TypeOK, WorldOK
<1>40. CASE RespondApproval
  <2>1. GraphOK' /\ starts' = starts /\ job' = job /\ interrupted' = interrupted
    BY <1>40 DEF RespondApproval, IndInv, TypeOK, GraphOK
  <2>2. \E a \in {"none", "approve", "reject", "retry", "cancel"} : Begin(a)
    BY <1>40 DEF RespondApproval
  <2> QED
    BY <2>1, <2>2, BeginType DEF IndInv, TypeOK, WorldOK
<1>41. CASE RespondRetry
  <2>1. GraphOK' /\ starts' = starts /\ job' = job /\ interrupted' = interrupted
    BY <1>41 DEF RespondRetry, IndInv, TypeOK, GraphOK
  <2>2. \E a \in {"none", "approve", "reject", "retry", "cancel"} : Begin(a)
    BY <1>41 DEF RespondRetry
  <2> QED
    BY <2>1, <2>2, BeginType DEF IndInv, TypeOK, WorldOK
<1>42. CASE ResumeNode
  <2>1. GraphOK' /\ starts' = starts /\ job' = job /\ interrupted' = interrupted
    BY <1>42 DEF ResumeNode, IndInv, TypeOK, GraphOK
  <2>2. \E a \in {"none", "approve", "reject", "retry", "cancel"} : Begin(a)
    BY <1>42 DEF ResumeNode
  <2> QED
    BY <2>1, <2>2, BeginType DEF IndInv, TypeOK, WorldOK
<1>43. CASE ResumeReconcile
  <2>1. /\ cursor \in Stages /\ outcome[cursor] \in Outcomes
        /\ FiledAttempt(cursor) \in Attempts
    BY <1>43, WaitingTypes DEF ResumeReconcile
  <2>2. job' \in [Stages -> [Attempts -> Jobs]]
    <3>1. job[cursor][FiledAttempt(cursor)] \in Jobs
      BY <2>1 DEF IndInv, TypeOK, WorldOK
    <3> QED
      BY <1>43, <2>1, <3>1, PollTypes
         DEF ResumeReconcile, IndInv, TypeOK, WorldOK, JobStatus
  <2>3. /\ Delivers /\ node' = "validate_stage_result" /\ Begin("none")
        /\ UNCHANGED <<interrupted, cursor, counter, outcome, planRef, prepared,
                       decision, retryDecision, starts>>
    BY <1>43, OutcomesMade DEF ResumeReconcile
  <2>4. GraphOK'
    BY <2>3 DEF IndInv, TypeOK, GraphOK, Delivers, Nodes
  <2> QED
    BY <2>2, <2>3, <2>4, BeginType DEF IndInv
<1>44. CASE CancelExternal
  <2>1. /\ cursor \in Stages /\ outcome[cursor] \in Outcomes
        /\ FiledAttempt(cursor) \in Attempts
    BY <1>44, WaitingTypes DEF CancelExternal
  <2>2. job' \in [Stages -> [Attempts -> Jobs]]
    <3>1. job[cursor][FiledAttempt(cursor)] \in Jobs
      BY <2>1 DEF IndInv, TypeOK, WorldOK
    <3> QED
      BY <1>44, <2>1, <3>1, MovedTypes
         DEF CancelExternal, IndInv, TypeOK, WorldOK, JobStatus
  <2>3. /\ Delivers /\ node' = "validate_stage_result" /\ Begin("none")
        /\ UNCHANGED <<interrupted, cursor, counter, outcome, planRef, prepared,
                       decision, retryDecision, starts>>
    BY <1>44, OutcomesMade DEF CancelExternal
  <2>4. GraphOK'
    BY <2>3 DEF IndInv, TypeOK, GraphOK, Delivers, Nodes
  <2> QED
    BY <2>2, <2>3, <2>4, BeginType DEF IndInv
<1>45. CASE JobStep
  <2>1. PICK s \in Stages, n \in Attempts : JobMoves(s, n)
    BY <1>45 DEF JobStep
  <2>2. job' \in [Stages -> [Attempts -> Jobs]]
    BY <2>1, MovedTypes DEF JobMoves, IndInv, TypeOK, WorldOK, TerminalJob,
                            JobStatus
  <2>3. RequestOK' /\ FlagsOK' /\ TablesOK' /\ FilesOK'
    BY <2>1 DEF JobMoves, IndInv, TypeOK, RequestOK, FlagsOK, TablesOK, FilesOK
  <2>4. GraphOK' /\ ProcessOK' /\ WorldOK'
    BY <2>1, <2>2 DEF JobMoves, IndInv, TypeOK, GraphOK, ProcessOK, WorldOK
  <2> QED
    BY <2>3, <2>4 DEF TypeOK
<1>46. CASE Crash
  <2>1. RequestOK' /\ FlagsOK' /\ TablesOK' /\ FilesOK'
    BY <1>46 DEF Crash, IndInv, TypeOK, RequestOK, FlagsOK, TablesOK, FilesOK
  <2>2. GraphOK' /\ ProcessOK' /\ WorldOK'
    BY <1>46 DEF Crash, IndInv, TypeOK, GraphOK, ProcessOK, WorldOK
  <2> QED
    BY <2>1, <2>2 DEF TypeOK
<1>47. CASE UNCHANGED vars
  <2>1. RequestOK' /\ FlagsOK' /\ TablesOK' /\ FilesOK'
    BY <1>47 DEF vars, IndInv, TypeOK, RequestOK, FlagsOK, TablesOK, FilesOK
  <2>2. GraphOK' /\ ProcessOK' /\ WorldOK'
    BY <1>47 DEF vars, IndInv, TypeOK, GraphOK, ProcessOK, WorldOK
  <2> QED
    BY <2>1, <2>2 DEF TypeOK
<1> QED
  BY <1>1, <1>2, <1>3, <1>4, <1>5, <1>6, <1>7, <1>8, <1>9, <1>10, <1>11, <1>12,
     <1>13, <1>14, <1>15, <1>16, <1>17, <1>18, <1>19, <1>20, <1>21, <1>22,
     <1>23, <1>24, <1>25, <1>26, <1>27, <1>28, <1>29, <1>30, <1>31, <1>32,
     <1>33, <1>34, <1>35, <1>36, <1>37, <1>38, <1>39, <1>40, <1>41, <1>42,
     <1>43, <1>44, <1>45, <1>46, <1>47
     DEF Next, GraphStep, Command

\* A step leaves the cursor, the counter and the pending outcome as the next
\* node expects them.
LEMMA ControlStep == IndInv /\ [Next]_vars => ControlOK'
<1> SUFFICES ASSUME IndInv, [Next]_vars PROVE ControlOK'
  OBVIOUS
<1> USE ConstantsAssumption
<1>1. CASE RouteMarkRun
  BY <1>1
     DEF RouteMarkRun, IndInv, TypeOK, GraphOK, ControlOK, AttemptNodes,
         PlanNodes, ResultNodes, RetryNodes, Gates, NextAttempt
<1>2. CASE RouteSelect
  <2>1. /\ Delivers /\ NextRoute \in Stages /\ NextRoute > cursor
        /\ NextRoute \in Nat
    BY <1>2, NextRouteRemains, OutcomesMade DEF RouteSelect, Stages
  <2>2. /\ cursor' = NextRoute /\ answer' = answer
        /\ UNCHANGED <<counter, outcome, interrupted, alive>> /\ step' = 0
        /\ node' \in {"validate_stage_input", "record_stage_outcome"}
        /\ node = "route_next_stage"
    BY <1>2 DEF RouteSelect
  <2>3. \A s \in Stages : s > NextRoute => s > cursor
    BY <2>1 DEF Stages, IndInv, TypeOK, GraphOK
  <2>4. counter[NextRoute] = 0 /\ outcome[NextRoute] = NoOutcome
    BY <2>1 DEF IndInv, ControlOK
  <2> QED
    BY <2>1, <2>2, <2>3, <2>4
       DEF IndInv, TypeOK, GraphOK, ControlOK, AttemptNodes, PlanNodes,
           ResultNodes, RetryNodes, Gates, NextAttempt,
           Delivers, NoOutcome
<1>3. CASE RouteExhausted
  BY <1>3
     DEF RouteExhausted, IndInv, TypeOK, GraphOK, ControlOK, AttemptNodes,
         PlanNodes, ResultNodes, RetryNodes, Gates, NextAttempt, Stages
<1>4. CASE ValidateMarkStage
  BY <1>4
     DEF ValidateMarkStage, IndInv, TypeOK, GraphOK, ControlOK, AttemptNodes,
         PlanNodes, ResultNodes, RetryNodes, Gates, NextAttempt
<1>5. CASE ValidateInput
  BY <1>5, OutcomesMade
     DEF ValidateInput, IndInv, TypeOK, GraphOK, ControlOK, AttemptNodes,
         PlanNodes, ResultNodes, RetryNodes, Gates, NextAttempt, Delivers
<1>6. CASE PrepareFreeze
  BY <1>6
     DEF PrepareFreeze, IndInv, TypeOK, GraphOK, ControlOK, AttemptNodes,
         PlanNodes, ResultNodes, RetryNodes, Gates, NextAttempt
<1>7. CASE PrepareFails
  BY <1>7, OutcomesMade
     DEF PrepareFails, IndInv, TypeOK, GraphOK, ControlOK, AttemptNodes,
         PlanNodes, ResultNodes, RetryNodes, Gates, NextAttempt, Delivers
<1>8. CASE PrepareMarkAttempt
  BY <1>8
     DEF PrepareMarkAttempt, IndInv, TypeOK, GraphOK, ControlOK, AttemptNodes,
         PlanNodes, ResultNodes, RetryNodes, Gates, NextAttempt
<1>9. CASE PrepareDone
  BY <1>9
     DEF PrepareDone, IndInv, TypeOK, GraphOK, ControlOK, AttemptNodes,
         PlanNodes, ResultNodes, RetryNodes, Gates, NextAttempt
<1>10. CASE DecideApproval
  BY <1>10
     DEF DecideApproval, RouteAfterDecision, IndInv, TypeOK, GraphOK,
         ControlOK, AttemptNodes, PlanNodes, ResultNodes, RetryNodes, Gates,
         NextAttempt
<1>11. CASE ApprovalEnsure
  BY <1>11
     DEF ApprovalEnsure, IndInv, TypeOK, GraphOK, ControlOK, AttemptNodes,
         PlanNodes, ResultNodes, RetryNodes, Gates, NextAttempt
<1>12. CASE ApprovalMarkStage
  BY <1>12
     DEF ApprovalMarkStage, IndInv, TypeOK, GraphOK, ControlOK, AttemptNodes,
         PlanNodes, ResultNodes, RetryNodes, Gates, NextAttempt
<1>13. CASE ApprovalMarkRun
  BY <1>13
     DEF ApprovalMarkRun, IndInv, TypeOK, GraphOK, ControlOK, AttemptNodes,
         PlanNodes, ResultNodes, RetryNodes, Gates, NextAttempt
<1>14. CASE ApprovalPrepared
  BY <1>14
     DEF ApprovalPrepared, IndInv, TypeOK, GraphOK, ControlOK, AttemptNodes,
         PlanNodes, ResultNodes, RetryNodes, Gates, NextAttempt
<1>15. CASE Interrupt
  BY <1>15
     DEF Interrupt, IndInv, TypeOK, GraphOK, ControlOK, AttemptNodes,
         PlanNodes, ResultNodes, RetryNodes, Gates, NextAttempt
<1>16. CASE GateDecide
  <2>1. /\ UNCHANGED <<graph>> /\ node = "stage_approval_gate"
        /\ answer' \in {answer, "none"}
        /\ step' = 0 \/ (answer # "none" /\ answer' = answer)
    BY <1>16 DEF GateDecide
  <2> QED
    BY <2>1 DEF IndInv, TypeOK, GraphOK, ControlOK, AttemptNodes, PlanNodes,
           ResultNodes, RetryNodes, Gates, NextAttempt
<1>17. CASE GateDone
  BY <1>17, OutcomesMade
     DEF GateDone, IndInv, TypeOK, GraphOK, ControlOK, AttemptNodes, PlanNodes,
         ResultNodes, RetryNodes, Gates, NextAttempt, Delivers
<1>18. CASE ReadyMarkStage
  BY <1>18
     DEF ReadyMarkStage, IndInv, TypeOK, GraphOK, ControlOK, AttemptNodes,
         PlanNodes, ResultNodes, RetryNodes, Gates, NextAttempt
<1>19. CASE ReadyDone
  BY <1>19
     DEF ReadyDone, IndInv, TypeOK, GraphOK, ControlOK, AttemptNodes,
         PlanNodes, ResultNodes, RetryNodes, Gates, NextAttempt
<1>20. CASE ExecuteMarkStage
  BY <1>20
     DEF ExecuteMarkStage, IndInv, TypeOK, GraphOK, ControlOK, AttemptNodes,
         PlanNodes, ResultNodes, RetryNodes, Gates, NextAttempt
<1>21. CASE ExecuteMarkRun
  BY <1>21
     DEF ExecuteMarkRun, IndInv, TypeOK, GraphOK, ControlOK, AttemptNodes,
         PlanNodes, ResultNodes, RetryNodes, Gates, NextAttempt
<1>22. CASE ExecuteMarkAttempt
  BY <1>22
     DEF ExecuteMarkAttempt, IndInv, TypeOK, GraphOK, ControlOK, AttemptNodes,
         PlanNodes, ResultNodes, RetryNodes, Gates, NextAttempt
<1>23. CASE ExecuteStart
  <2>1. /\ local' \in Outcomes /\ node = "execute_or_reconcile_stage"
        /\ UNCHANGED <<graph, answer>>
    BY <1>23, OutcomesMade DEF ExecuteStart
  <2> QED
    BY <2>1 DEF IndInv, TypeOK, GraphOK, ControlOK, AttemptNodes, PlanNodes,
           ResultNodes, RetryNodes, Gates, NextAttempt
<1>24. CASE ExecuteDone
  BY <1>24
     DEF ExecuteDone, IndInv, TypeOK, GraphOK, ControlOK, AttemptNodes,
         PlanNodes, ResultNodes, RetryNodes, Gates, NextAttempt
<1>25. CASE ValidateResult
  <2>1. /\ Delivers /\ node = "validate_stage_result"
        /\ node' = "record_stage_outcome"
        /\ UNCHANGED <<interrupted, cursor, counter, outcome, answer>>
    BY <1>25, OutcomesMade DEF ValidateResult
  <2> QED
    BY <2>1
       DEF IndInv, TypeOK, GraphOK, ControlOK, AttemptNodes, PlanNodes,
           ResultNodes, RetryNodes, Gates, NextAttempt,
           Delivers
<1>26. CASE RecordStage
  BY <1>26
     DEF RecordStage, IndInv, TypeOK, GraphOK, ControlOK, AttemptNodes,
         PlanNodes, ResultNodes, RetryNodes, Gates, NextAttempt
<1>27. CASE RecordLedger
  BY <1>27
     DEF RecordLedger, IndInv, TypeOK, GraphOK, ControlOK, AttemptNodes,
         PlanNodes, ResultNodes, RetryNodes, Gates, NextAttempt
<1>28. CASE RecordStageAttempt
  BY <1>28
     DEF RecordStageAttempt, IndInv, TypeOK, GraphOK, ControlOK, AttemptNodes,
         PlanNodes, ResultNodes, RetryNodes, Gates, NextAttempt
<1>29. CASE RecordJob
  BY <1>29
     DEF RecordJob, IndInv, TypeOK, GraphOK, ControlOK, AttemptNodes,
         PlanNodes, ResultNodes, RetryNodes, Gates, NextAttempt
<1>30. CASE RecordRefused
  BY <1>30
     DEF RecordRefused, IndInv, TypeOK, GraphOK, ControlOK, AttemptNodes,
         PlanNodes, ResultNodes, RetryNodes, Gates, NextAttempt
<1>31. CASE RecordRun
  BY <1>31
     DEF RecordRun, IndInv, TypeOK, GraphOK, ControlOK, AttemptNodes,
         PlanNodes, ResultNodes, RetryNodes, Gates, NextAttempt
<1>32. CASE RecordDone
  <2>1. /\ cursor \in Stages /\ pend \in Outcomes
        /\ node = "record_stage_outcome"
        /\ outcome' = [outcome EXCEPT ![cursor] = pend]
        /\ counter' = [counter EXCEPT ![cursor] = FiledAttempt(cursor)]
        /\ UNCHANGED <<cursor, interrupted, answer>>
        /\ node' \in {"END", "prepare_retry", "route_next_stage"}
        /\ node' = "prepare_retry" => pend.kind # "WAITING_EXTERNAL"
    BY <1>32 DEF RecordDone, RouteAfterRecord, IndInv, ControlOK, ResultNodes
  <2> QED
    BY <2>1 DEF IndInv, TypeOK, GraphOK, ControlOK, AttemptNodes, PlanNodes,
           ResultNodes, RetryNodes, Gates, NextAttempt
<1>33. CASE RetryMarkRun
  BY <1>33
     DEF RetryMarkRun, IndInv, TypeOK, GraphOK, ControlOK, AttemptNodes,
         PlanNodes, ResultNodes, RetryNodes, Gates, NextAttempt
<1>34. CASE RetryPrepared
  BY <1>34
     DEF RetryPrepared, IndInv, TypeOK, GraphOK, ControlOK, AttemptNodes,
         PlanNodes, ResultNodes, RetryNodes, Gates, NextAttempt
<1>35. CASE RetryGate
  <2>1. /\ Delivers /\ node = "retry_gate" /\ answer' = "none"
        /\ interrupted' = FALSE
        /\ UNCHANGED <<cursor, counter, outcome>>
        /\ \/ answer = "retry" /\ node' = "validate_stage_input"
           \/ node' = "record_stage_outcome"
    BY <1>35, OutcomesMade DEF RetryGate
  <2> QED
    BY <2>1
       DEF IndInv, TypeOK, GraphOK, ControlOK, AttemptNodes, PlanNodes,
           ResultNodes, RetryNodes, Gates, NextAttempt,
           Delivers
<1>36. CASE ReportWrite
  BY <1>36
     DEF ReportWrite, IndInv, TypeOK, GraphOK, ControlOK, AttemptNodes,
         PlanNodes, ResultNodes, RetryNodes, Gates, NextAttempt
<1>37. CASE ReportMarkRun
  BY <1>37
     DEF ReportMarkRun, IndInv, TypeOK, GraphOK, ControlOK, AttemptNodes,
         PlanNodes, ResultNodes, RetryNodes, Gates, NextAttempt
<1>38. CASE ReportDone
  BY <1>38
     DEF ReportDone, IndInv, TypeOK, GraphOK, ControlOK, AttemptNodes,
         PlanNodes, ResultNodes, RetryNodes, Gates, NextAttempt
<1>39. CASE Approve
  BY <1>39
     DEF Approve, IndInv, TypeOK, GraphOK, ControlOK, AttemptNodes, PlanNodes,
         ResultNodes, RetryNodes, Gates, NextAttempt
<1>40. CASE RespondApproval
  BY <1>40
     DEF RespondApproval, IndInv, TypeOK, GraphOK, ControlOK, AttemptNodes,
         PlanNodes, ResultNodes, RetryNodes, Gates, NextAttempt
<1>41. CASE RespondRetry
  BY <1>41
     DEF RespondRetry, IndInv, TypeOK, GraphOK, ControlOK, AttemptNodes,
         PlanNodes, ResultNodes, RetryNodes, Gates, NextAttempt
<1>42. CASE ResumeNode
  BY <1>42
     DEF ResumeNode, IndInv, TypeOK, GraphOK, ControlOK, AttemptNodes,
         PlanNodes, ResultNodes, RetryNodes, Gates, NextAttempt
<1>43. CASE ResumeReconcile
  <2>1. /\ Delivers /\ WaitingExternal /\ node' = "validate_stage_result"
        /\ answer' = "none"
        /\ UNCHANGED <<interrupted, cursor, counter, outcome>>
    BY <1>43, OutcomesMade DEF ResumeReconcile
  <2>2. cursor \in Stages /\ ~interrupted
    BY <2>1
       DEF WaitingExternal, IndInv, TypeOK, GraphOK, ControlOK, AttemptNodes,
           PlanNodes,
           ResultNodes, RetryNodes, Gates, NextAttempt
  <2> QED
    BY <2>1, <2>2
       DEF IndInv, TypeOK, GraphOK, ControlOK, AttemptNodes, PlanNodes,
           ResultNodes, RetryNodes, Gates, NextAttempt,
           Delivers
<1>44. CASE CancelExternal
  <2>1. /\ Delivers /\ WaitingExternal /\ node' = "validate_stage_result"
        /\ answer' = "none"
        /\ UNCHANGED <<interrupted, cursor, counter, outcome>>
    BY <1>44, OutcomesMade DEF CancelExternal
  <2>2. cursor \in Stages /\ ~interrupted
    BY <2>1
       DEF WaitingExternal, IndInv, TypeOK, GraphOK, ControlOK, AttemptNodes,
           PlanNodes,
           ResultNodes, RetryNodes, Gates, NextAttempt
  <2> QED
    BY <2>1, <2>2
       DEF IndInv, TypeOK, GraphOK, ControlOK, AttemptNodes, PlanNodes,
           ResultNodes, RetryNodes, Gates, NextAttempt,
           Delivers
<1>45. CASE JobStep
  BY <1>45
     DEF JobStep, IndInv, TypeOK, GraphOK, ControlOK, AttemptNodes, PlanNodes,
         ResultNodes, RetryNodes, Gates, NextAttempt, JobMoves
<1>46. CASE Crash
  BY <1>46
     DEF Crash, IndInv, TypeOK, GraphOK, ControlOK, AttemptNodes, PlanNodes,
         ResultNodes, RetryNodes, Gates, NextAttempt
<1>47. CASE UNCHANGED vars
  BY <1>47
     DEF vars, IndInv, TypeOK, GraphOK, ControlOK, AttemptNodes, PlanNodes,
         ResultNodes, RetryNodes, Gates, NextAttempt
<1> QED
  BY <1>1, <1>2, <1>3, <1>4, <1>5, <1>6, <1>7, <1>8, <1>9, <1>10, <1>11, <1>12,
     <1>13, <1>14, <1>15, <1>16, <1>17, <1>18, <1>19, <1>20, <1>21, <1>22,
     <1>23, <1>24, <1>25, <1>26, <1>27, <1>28, <1>29, <1>30, <1>31, <1>32,
     <1>33, <1>34, <1>35, <1>36, <1>37, <1>38, <1>39, <1>40, <1>41, <1>42,
     <1>43, <1>44, <1>45, <1>46, <1>47
     DEF Next, GraphStep, Command

\* A step keeps an approval-required attempt away from its runner until its
\* own row is approved.
LEMMA ApprovalStep == IndInv /\ [Next]_vars => ApprovalOK'
<1> SUFFICES ASSUME IndInv, [Next]_vars PROVE ApprovalOK'
  OBVIOUS
<1> USE ConstantsAssumption
<1>1. CASE RouteMarkRun
  BY <1>1
     DEF RouteMarkRun, IndInv, ApprovalOK, ApprovedBeforeStart, PlanNodes,
         Gated, NextAttempt
<1>2. CASE RouteSelect
  BY <1>2
     DEF RouteSelect, IndInv, ApprovalOK, ApprovedBeforeStart, PlanNodes,
         Gated, NextAttempt, ControlOK, TypeOK, GraphOK, FilesOK, TablesOK,
         AttemptNodes, Attempts
<1>3. CASE RouteExhausted
  BY <1>3
     DEF RouteExhausted, IndInv, ApprovalOK, ApprovedBeforeStart, PlanNodes,
         Gated, NextAttempt
<1>4. CASE ValidateMarkStage
  BY <1>4
     DEF ValidateMarkStage, IndInv, ApprovalOK, ApprovedBeforeStart, PlanNodes,
         Gated, NextAttempt
<1>5. CASE ValidateInput
  BY <1>5
     DEF ValidateInput, IndInv, ApprovalOK, ApprovedBeforeStart, PlanNodes,
         Gated, NextAttempt
<1>6. CASE PrepareFreeze
  <2> DEFINE n == NextAttempt(cursor)
  <2>1. cursor \in Stages /\ n \in Attempts
    BY <1>6 DEF PrepareFreeze, IndInv, ControlOK, TypeOK, GraphOK,
                AttemptNodes, NextAttempt, Attempts
  <2>2. /\ planFile'[cursor][n] # "none"
        /\ \A s \in Stages, m \in Attempts :
             planFile[s][m] # "none" => planFile'[s][m] = planFile[s][m]
    BY <1>6, <2>1 DEF PrepareFreeze, IndInv, TypeOK, FilesOK
  <2>3. /\ UNCHANGED <<starts, approval, node, cursor, counter>>
        /\ node = "prepare_stage_plan"
    BY <1>6 DEF PrepareFreeze
  <2> QED
    BY <2>1, <2>2, <2>3
       DEF IndInv, ApprovalOK, ApprovedBeforeStart, PlanNodes, Gated,
           NextAttempt
<1>7. CASE PrepareFails
  BY <1>7
     DEF PrepareFails, IndInv, ApprovalOK, ApprovedBeforeStart, PlanNodes,
         Gated, NextAttempt, ControlOK, TypeOK, GraphOK, FilesOK, TablesOK,
         AttemptNodes, Attempts
<1>8. CASE PrepareMarkAttempt
  BY <1>8
     DEF PrepareMarkAttempt, IndInv, ApprovalOK, ApprovedBeforeStart,
         PlanNodes, Gated, NextAttempt, ControlOK, TypeOK, GraphOK, FilesOK,
         TablesOK, AttemptNodes, Attempts
<1>9. CASE PrepareDone
  BY <1>9
     DEF PrepareDone, IndInv, ApprovalOK, ApprovedBeforeStart, PlanNodes,
         Gated, NextAttempt, ControlOK, TypeOK, GraphOK, FilesOK, TablesOK,
         AttemptNodes, Attempts
<1>10. CASE DecideApproval
  BY <1>10
     DEF DecideApproval, RouteAfterDecision, IndInv, ApprovalOK,
         ApprovedBeforeStart, PlanNodes, Gated, NextAttempt, ControlOK, TypeOK,
         GraphOK, FilesOK, TablesOK, AttemptNodes, Attempts
<1>11. CASE ApprovalEnsure
  <2>1. UNCHANGED <<starts, planFile, node, cursor, counter, prepared, answer>>
        /\ node = "prepare_stage_approval"
    BY <1>11 DEF ApprovalEnsure
  <2>2. \A s \in Stages, n \in Attempts :
          approval[s][n] = "APPROVED" => approval'[s][n] = "APPROVED"
    BY <1>11 DEF ApprovalEnsure, IndInv, TypeOK, TablesOK
  <2> QED
    BY <2>1, <2>2
       DEF IndInv, ApprovalOK, ApprovedBeforeStart, PlanNodes, Gated,
           NextAttempt
<1>12. CASE ApprovalMarkStage
  BY <1>12
     DEF ApprovalMarkStage, IndInv, ApprovalOK, ApprovedBeforeStart, PlanNodes,
         Gated, NextAttempt
<1>13. CASE ApprovalMarkRun
  BY <1>13
     DEF ApprovalMarkRun, IndInv, ApprovalOK, ApprovedBeforeStart, PlanNodes,
         Gated, NextAttempt
<1>14. CASE ApprovalPrepared
  BY <1>14
     DEF ApprovalPrepared, IndInv, ApprovalOK, ApprovedBeforeStart, PlanNodes,
         Gated, NextAttempt
<1>15. CASE Interrupt
  BY <1>15
     DEF Interrupt, IndInv, ApprovalOK, ApprovedBeforeStart, PlanNodes, Gated,
         NextAttempt, Gates
<1>16. CASE GateDecide
  <2>1. CASE approval[cursor][prepared] \in {"PENDING", Decided}
    <3>1. cursor \in Stages /\ prepared \in Attempts
      BY <1>16 DEF GateDecide, IndInv, ControlOK, TypeOK, GraphOK,
                  AttemptNodes, PlanNodes, NextAttempt, Attempts
    <3>2. /\ UNCHANGED <<starts, planFile, node, cursor, counter, prepared,
                         answer>>
          /\ node = "stage_approval_gate"
      BY <1>16, <2>1 DEF GateDecide
    <3>3. approval' = [approval EXCEPT ![cursor][prepared] = Decided]
      BY <1>16, <2>1 DEF GateDecide
    <3>4. \A s \in Stages, n \in Attempts :
            approval[s][n] = "APPROVED" => approval'[s][n] = "APPROVED"
      BY <3>1, <3>3, <2>1 DEF IndInv, TypeOK, TablesOK, Decided
    <3>5. answer = "approve" => approval'[cursor][prepared] = "APPROVED"
      BY <3>1, <3>3 DEF IndInv, TypeOK, TablesOK, Decided
    <3> QED
      BY <3>2, <3>4, <3>5
         DEF IndInv, ApprovalOK, ApprovedBeforeStart, PlanNodes, Gated,
             NextAttempt
  <2>2. CASE approval[cursor][prepared] \notin {"PENDING", Decided}
    BY <1>16, <2>2
       DEF GateDecide, IndInv, ApprovalOK, ApprovedBeforeStart, PlanNodes,
           Gated, NextAttempt
  <2> QED
    BY <2>1, <2>2
<1>17. CASE GateDone
  <2>1. /\ UNCHANGED <<starts, planFile, approval, cursor, counter, prepared>>
        /\ node = "stage_approval_gate" /\ step = 1
    BY <1>17 DEF GateDone
  <2>2. \/ answer = "approve" /\ node' = "mark_stage_ready"
        \/ node' = "record_stage_outcome"
    BY <1>17 DEF GateDone
  <2> QED
    BY <2>1, <2>2
       DEF IndInv, ApprovalOK, ApprovedBeforeStart, PlanNodes, Gated
<1>18. CASE ReadyMarkStage
  BY <1>18
     DEF ReadyMarkStage, IndInv, ApprovalOK, ApprovedBeforeStart, PlanNodes,
         Gated, NextAttempt
<1>19. CASE ReadyDone
  BY <1>19
     DEF ReadyDone, IndInv, ApprovalOK, ApprovedBeforeStart, PlanNodes, Gated,
         NextAttempt
<1>20. CASE ExecuteMarkStage
  BY <1>20
     DEF ExecuteMarkStage, IndInv, ApprovalOK, ApprovedBeforeStart, PlanNodes,
         Gated, NextAttempt
<1>21. CASE ExecuteMarkRun
  BY <1>21
     DEF ExecuteMarkRun, IndInv, ApprovalOK, ApprovedBeforeStart, PlanNodes,
         Gated, NextAttempt
<1>22. CASE ExecuteMarkAttempt
  BY <1>22
     DEF ExecuteMarkAttempt, IndInv, ApprovalOK, ApprovedBeforeStart,
         PlanNodes, Gated, NextAttempt
<1>23. CASE ExecuteStart
  <2>1. /\ node = "execute_or_reconcile_stage" /\ step' = step + 1
        /\ starts' = starts \cup {<<cursor, prepared>>}
        /\ UNCHANGED <<tables, files, request, graph, answer>>
    BY <1>23 DEF ExecuteStart, At, Written, IndInv, ControlOK, PlanNodes
  <2>2. UNCHANGED <<node, cursor, counter, prepared, planFile, approval, answer>>
    BY <2>1 DEF tables, files, graph
  <2>3. /\ planFile[cursor][prepared] # "none"
        /\ Gated(cursor, prepared) => approval[cursor][prepared] = "APPROVED"
    BY <2>1 DEF IndInv, ApprovalOK, PlanNodes
  <2>4. \A s, n : <<s, n>> \in starts' => <<s, n>> \in starts \/ (s = cursor /\ n = prepared)
    BY <2>1
  <2>5. ApprovedBeforeStart'
    BY <2>2, <2>3, <2>4 DEF IndInv, ApprovalOK, ApprovedBeforeStart, Gated
  <2>6. \A s \in Stages, n \in Attempts : <<s, n>> \in starts' => planFile'[s][n] # "none"
    BY <2>2, <2>3, <2>4 DEF IndInv, ApprovalOK
  <2> QED
    BY <2>1, <2>2, <2>5, <2>6 DEF IndInv, ApprovalOK, PlanNodes, Gated
<1>24. CASE ExecuteDone
  BY <1>24
     DEF ExecuteDone, IndInv, ApprovalOK, ApprovedBeforeStart, PlanNodes,
         Gated, NextAttempt
<1>25. CASE ValidateResult
  BY <1>25
     DEF ValidateResult, IndInv, ApprovalOK, ApprovedBeforeStart, PlanNodes,
         Gated, NextAttempt
<1>26. CASE RecordStage
  BY <1>26
     DEF RecordStage, IndInv, ApprovalOK, ApprovedBeforeStart, PlanNodes,
         Gated, NextAttempt
<1>27. CASE RecordLedger
  BY <1>27
     DEF RecordLedger, IndInv, ApprovalOK, ApprovedBeforeStart, PlanNodes,
         Gated, NextAttempt
<1>28. CASE RecordStageAttempt
  BY <1>28
     DEF RecordStageAttempt, IndInv, ApprovalOK, ApprovedBeforeStart,
         PlanNodes, Gated, NextAttempt
<1>29. CASE RecordJob
  BY <1>29
     DEF RecordJob, IndInv, ApprovalOK, ApprovedBeforeStart, PlanNodes, Gated,
         NextAttempt
<1>30. CASE RecordRefused
  BY <1>30
     DEF RecordRefused, IndInv, ApprovalOK, ApprovedBeforeStart, PlanNodes,
         Gated, NextAttempt
<1>31. CASE RecordRun
  BY <1>31
     DEF RecordRun, IndInv, ApprovalOK, ApprovedBeforeStart, PlanNodes, Gated,
         NextAttempt
<1>32. CASE RecordDone
  BY <1>32
     DEF RecordDone, RouteAfterRecord, IndInv, ApprovalOK, ApprovedBeforeStart,
         PlanNodes, Gated, NextAttempt
<1>33. CASE RetryMarkRun
  BY <1>33
     DEF RetryMarkRun, IndInv, ApprovalOK, ApprovedBeforeStart, PlanNodes,
         Gated, NextAttempt
<1>34. CASE RetryPrepared
  BY <1>34
     DEF RetryPrepared, IndInv, ApprovalOK, ApprovedBeforeStart, PlanNodes,
         Gated, NextAttempt
<1>35. CASE RetryGate
  BY <1>35
     DEF RetryGate, IndInv, ApprovalOK, ApprovedBeforeStart, PlanNodes, Gated,
         NextAttempt
<1>36. CASE ReportWrite
  BY <1>36
     DEF ReportWrite, IndInv, ApprovalOK, ApprovedBeforeStart, PlanNodes,
         Gated, NextAttempt
<1>37. CASE ReportMarkRun
  BY <1>37
     DEF ReportMarkRun, IndInv, ApprovalOK, ApprovedBeforeStart, PlanNodes,
         Gated, NextAttempt
<1>38. CASE ReportDone
  BY <1>38
     DEF ReportDone, IndInv, ApprovalOK, ApprovedBeforeStart, PlanNodes, Gated,
         NextAttempt
<1>39. CASE Approve
  BY <1>39
     DEF Approve, IndInv, ApprovalOK, ApprovedBeforeStart, PlanNodes, Gated,
         NextAttempt
<1>40. CASE RespondApproval
  BY <1>40
     DEF RespondApproval, IndInv, ApprovalOK, ApprovedBeforeStart, PlanNodes,
         Gated, NextAttempt
<1>41. CASE RespondRetry
  BY <1>41
     DEF RespondRetry, IndInv, ApprovalOK, ApprovedBeforeStart, PlanNodes,
         Gated, NextAttempt
<1>42. CASE ResumeNode
  BY <1>42
     DEF ResumeNode, IndInv, ApprovalOK, ApprovedBeforeStart, PlanNodes, Gated,
         NextAttempt
<1>43. CASE ResumeReconcile
  <2>1. /\ UNCHANGED <<starts, planFile, approval>>
        /\ node' = "validate_stage_result"
    BY <1>43 DEF ResumeReconcile
  <2> QED
    BY <2>1 DEF IndInv, ApprovalOK, ApprovedBeforeStart, PlanNodes, Gated
<1>44. CASE CancelExternal
  <2>1. /\ UNCHANGED <<starts, planFile, approval>>
        /\ node' = "validate_stage_result"
    BY <1>44 DEF CancelExternal
  <2> QED
    BY <2>1 DEF IndInv, ApprovalOK, ApprovedBeforeStart, PlanNodes, Gated
<1>45. CASE JobStep
  <2>1. UNCHANGED <<graph, tables, files, process, starts>>
    BY <1>45 DEF JobStep, JobMoves
  <2> QED
    BY <2>1
       DEF IndInv, ApprovalOK, ApprovedBeforeStart, PlanNodes, Gated,
           NextAttempt
<1>46. CASE Crash
  BY <1>46
     DEF Crash, IndInv, ApprovalOK, ApprovedBeforeStart, PlanNodes, Gated,
         NextAttempt
<1>47. CASE UNCHANGED vars
  BY <1>47
     DEF vars, IndInv, ApprovalOK, ApprovedBeforeStart, PlanNodes, Gated,
         NextAttempt
<1> QED
  BY <1>1, <1>2, <1>3, <1>4, <1>5, <1>6, <1>7, <1>8, <1>9, <1>10, <1>11, <1>12,
     <1>13, <1>14, <1>15, <1>16, <1>17, <1>18, <1>19, <1>20, <1>21, <1>22,
     <1>23, <1>24, <1>25, <1>26, <1>27, <1>28, <1>29, <1>30, <1>31, <1>32,
     <1>33, <1>34, <1>35, <1>36, <1>37, <1>38, <1>39, <1>40, <1>41, <1>42,
     <1>43, <1>44, <1>45, <1>46, <1>47
     DEF Next, GraphStep, Command

-----------------------------------------------------------------------------
\* The invariant holds of every reachable state.
LEMMA Inductive == Spec => []IndInv
<1>1. IndInv /\ [Next]_vars => IndInv'
  BY TypeStep, ControlStep, ApprovalStep DEF IndInv
<1> QED
  BY InitInv, <1>1, PTL DEF Spec

\* Every variable of a Run keeps the shape its column or state key has: no
\* counter passes its bound, no status, outcome or row leaves its vocabulary,
\* in whatever order processes, users and backends act (storage.py, graph.py).
THEOREM TypeCorrect == Spec => []TypeOK
<1>1. IndInv => TypeOK
  BY DEF IndInv
<1> QED
  BY Inductive, <1>1, PTL

\* No attempt that asks for approval reaches its runner without its own
\* approved row (stage_approval_gate, execute_or_reconcile_stage).
THEOREM ApprovalSafety == Spec => []ApprovedBeforeStart
<1>1. IndInv => ApprovedBeforeStart
  BY DEF IndInv, ApprovalOK
<1> QED
  BY Inductive, <1>1, PTL

(***************************************************************************)
(* The history of a Run.                                                   *)
(***************************************************************************)

\* The steps that make an outcome of their own.
MakesOutcome == 
  \/ RouteSelect \/ ValidateInput \/ PrepareFails \/ GateDone \/ ExecuteDone
  \/ ValidateResult \/ RetryGate \/ ResumeReconcile \/ CancelExternal

\* The steps that say on the stage's row what the stage is about to do.
StageMark ==
  \/ ValidateMarkStage \/ ApprovalMarkStage \/ ReadyMarkStage
  \/ ExecuteMarkStage

Writers ==
  /\ UNCHANGED <<level, permitted, target, supplied>>
  /\ UNCHANGED planFile \/ PrepareFreeze
  /\ UNCHANGED report \/ ReportWrite
  /\ UNCHANGED starts \/ ExecuteStart
  /\ UNCHANGED approval \/ ApprovalEnsure \/ GateDecide
  /\ UNCHANGED stageRow \/ StageMark \/ RecordStage
  /\ \/ UNCHANGED attemptRow \/ PrepareMarkAttempt \/ ExecuteMarkAttempt
     \/ RecordStageAttempt
  /\ UNCHANGED operations \/ RecordLedger
  /\ UNCHANGED jobRow \/ RecordJob
  /\ \/ UNCHANGED run \/ ReportMarkRun
     \/ run' \notin TerminalRun /\ node \notin {"generate_report", "END"}
  /\ UNCHANGED outcome \/ RecordDone
  /\ UNCHANGED cursor \/ RouteSelect \/ RouteExhausted
  /\ UNCHANGED counter \/ PrepareFails \/ ExecuteDone \/ RecordDone
  /\ UNCHANGED prepared \/ PrepareDone \/ RouteSelect \/ RouteExhausted
  /\ UNCHANGED retryDecision \/ RetryPrepared \/ RetryGate
  /\ UNCHANGED pend \/ pend' = NoOutcome \/ MakesOutcome
  /\ UNCHANGED local \/ local' = NoOutcome \/ ExecuteStart

\* Who writes what: every table, file and state key has a few steps that
\* write it (orchestrator/graph.py).
LEMMA WhoWrites == [Next]_vars => Writers
<1> SUFFICES ASSUME [Next]_vars PROVE Writers
  OBVIOUS
<1>1. CASE RouteMarkRun
  BY <1>1 DEF RouteMarkRun, TerminalRun, Writers, StageMark, MakesOutcome
<1>2. CASE RouteSelect
  BY <1>2 DEF RouteSelect, Writers, StageMark, MakesOutcome
<1>3. CASE RouteExhausted
  BY <1>3 DEF RouteExhausted, Writers, StageMark, MakesOutcome
<1>4. CASE ValidateMarkStage
  BY <1>4 DEF ValidateMarkStage, Writers, StageMark, MakesOutcome
<1>5. CASE ValidateInput
  BY <1>5 DEF ValidateInput, Writers, StageMark, MakesOutcome
<1>6. CASE PrepareFreeze
  BY <1>6 DEF PrepareFreeze, Writers, StageMark, MakesOutcome
<1>7. CASE PrepareFails
  BY <1>7 DEF PrepareFails, Writers, StageMark, MakesOutcome
<1>8. CASE PrepareMarkAttempt
  BY <1>8 DEF PrepareMarkAttempt, Writers, StageMark, MakesOutcome
<1>9. CASE PrepareDone
  BY <1>9 DEF PrepareDone, Writers, StageMark, MakesOutcome
<1>10. CASE DecideApproval
  BY <1>10 DEF DecideApproval, RouteAfterDecision, Writers, StageMark,
       MakesOutcome
<1>11. CASE ApprovalEnsure
  BY <1>11 DEF ApprovalEnsure, Writers, StageMark, MakesOutcome
<1>12. CASE ApprovalMarkStage
  BY <1>12 DEF ApprovalMarkStage, Writers, StageMark, MakesOutcome
<1>13. CASE ApprovalMarkRun
  BY <1>13 DEF ApprovalMarkRun, TerminalRun, Writers, StageMark, MakesOutcome
<1>14. CASE ApprovalPrepared
  BY <1>14 DEF ApprovalPrepared, Writers, StageMark, MakesOutcome
<1>15. CASE Interrupt
  BY <1>15 DEF Interrupt, Writers, StageMark, MakesOutcome
<1>16. CASE GateDecide
  BY <1>16 DEF GateDecide, Writers, StageMark, MakesOutcome
<1>17. CASE GateDone
  BY <1>17 DEF GateDone, Writers, StageMark, MakesOutcome
<1>18. CASE ReadyMarkStage
  BY <1>18 DEF ReadyMarkStage, Writers, StageMark, MakesOutcome
<1>19. CASE ReadyDone
  BY <1>19 DEF ReadyDone, Writers, StageMark, MakesOutcome
<1>20. CASE ExecuteMarkStage
  BY <1>20 DEF ExecuteMarkStage, Writers, StageMark, MakesOutcome
<1>21. CASE ExecuteMarkRun
  BY <1>21 DEF ExecuteMarkRun, TerminalRun, Writers, StageMark, MakesOutcome
<1>22. CASE ExecuteMarkAttempt
  BY <1>22 DEF ExecuteMarkAttempt, Writers, StageMark, MakesOutcome
<1>23. CASE ExecuteStart
  BY <1>23 DEF ExecuteStart, Writers, StageMark, MakesOutcome
<1>24. CASE ExecuteDone
  BY <1>24 DEF ExecuteDone, Writers, StageMark, MakesOutcome
<1>25. CASE ValidateResult
  BY <1>25 DEF ValidateResult, Writers, StageMark, MakesOutcome
<1>26. CASE RecordStage
  BY <1>26 DEF RecordStage, Writers, StageMark, MakesOutcome
<1>27. CASE RecordLedger
  BY <1>27 DEF RecordLedger, Writers, StageMark, MakesOutcome
<1>28. CASE RecordStageAttempt
  BY <1>28 DEF RecordStageAttempt, Writers, StageMark, MakesOutcome
<1>29. CASE RecordJob
  BY <1>29 DEF RecordJob, Writers, StageMark, MakesOutcome
<1>30. CASE RecordRefused
  BY <1>30 DEF RecordRefused, Writers, StageMark, MakesOutcome
<1>31. CASE RecordRun
  BY <1>31 DEF RecordRun, RunAfter, TerminalRun, Writers, StageMark,
       MakesOutcome
<1>32. CASE RecordDone
  BY <1>32 DEF RecordDone, RouteAfterRecord, Writers, StageMark, MakesOutcome
<1>33. CASE RetryMarkRun
  BY <1>33 DEF RetryMarkRun, TerminalRun, Writers, StageMark, MakesOutcome
<1>34. CASE RetryPrepared
  BY <1>34 DEF RetryPrepared, Writers, StageMark, MakesOutcome
<1>35. CASE RetryGate
  BY <1>35 DEF RetryGate, Writers, StageMark, MakesOutcome
<1>36. CASE ReportWrite
  BY <1>36 DEF ReportWrite, Writers, StageMark, MakesOutcome
<1>37. CASE ReportMarkRun
  BY <1>37 DEF ReportMarkRun, Writers, StageMark, MakesOutcome
<1>38. CASE ReportDone
  BY <1>38 DEF ReportDone, Writers, StageMark, MakesOutcome
<1>39. CASE Approve
  BY <1>39 DEF Approve, Writers, StageMark, MakesOutcome
<1>40. CASE RespondApproval
  BY <1>40 DEF RespondApproval, Writers, StageMark, MakesOutcome
<1>41. CASE RespondRetry
  BY <1>41 DEF RespondRetry, Writers, StageMark, MakesOutcome
<1>42. CASE ResumeNode
  BY <1>42 DEF ResumeNode, Writers, StageMark, MakesOutcome
<1>43. CASE ResumeReconcile
  BY <1>43 DEF ResumeReconcile, Writers, StageMark, MakesOutcome
<1>44. CASE CancelExternal
  BY <1>44 DEF CancelExternal, Writers, StageMark, MakesOutcome
<1>45. CASE JobStep
  BY <1>45 DEF JobStep, JobMoves, Writers, StageMark, MakesOutcome
<1>46. CASE Crash
  BY <1>46 DEF Crash, Writers, StageMark, MakesOutcome
<1>47. CASE UNCHANGED vars
  BY <1>47 DEF vars, Writers, StageMark, MakesOutcome
<1> QED
  BY <1>1, <1>2, <1>3, <1>4, <1>5, <1>6, <1>7, <1>8, <1>9, <1>10, <1>11, <1>12,
       <1>13, <1>14, <1>15, <1>16, <1>17, <1>18, <1>19, <1>20, <1>21, <1>22,
       <1>23, <1>24, <1>25, <1>26, <1>27, <1>28, <1>29, <1>30, <1>31, <1>32,
       <1>33, <1>34, <1>35, <1>36, <1>37, <1>38, <1>39, <1>40, <1>41, <1>42,
       <1>43, <1>44, <1>45, <1>46, <1>47
     DEF Next, GraphStep, Command

Arrivals ==
  /\ step' = 0 \/ UNCHANGED node
  /\ UNCHANGED node \/ UNCHANGED <<tables, files, starts>>
  /\ node' = "route_next_stage" => UNCHANGED node \/ RecordDone
  /\ node' = "validate_stage_input" =>
       UNCHANGED node \/ RouteSelect \/ RetryGate
  /\ node' = "prepare_stage_plan" => UNCHANGED node \/ ValidateInput
  /\ node' = "decide_stage_approval" => UNCHANGED node \/ PrepareDone
  /\ node' = "prepare_stage_approval" => UNCHANGED node \/ DecideApproval
  /\ node' = "stage_approval_gate" => UNCHANGED node \/ ApprovalPrepared
  /\ node' = "mark_stage_ready" =>
       UNCHANGED node \/ DecideApproval \/ GateDone
  /\ node' = "execute_or_reconcile_stage" => UNCHANGED node \/ ReadyDone
  /\ node' = "validate_stage_result" =>
       \/ UNCHANGED <<node, pend>> \/ ExecuteDone
       \/ ResumeReconcile \/ CancelExternal
  /\ node' = "record_stage_outcome" =>
       \/ UNCHANGED <<node, pend>> \/ RouteSelect \/ ValidateInput
       \/ PrepareFails \/ GateDone \/ ValidateResult \/ RetryGate
  /\ node' = "prepare_retry" => UNCHANGED node \/ RecordDone
  /\ node' = "retry_gate" => UNCHANGED node \/ RetryPrepared
  /\ node' = "generate_report" => UNCHANGED node \/ RouteExhausted
  /\ node' = "END" => UNCHANGED node \/ RecordDone \/ ReportDone
  /\ node \in {"generate_report", "END"} =>
       UNCHANGED node \/ ReportDone \/ ResumeReconcile \/ CancelExternal

\* Where the graph goes next: every node is entered by a few checkpoints,
\* which write no table and no file, and by the commands that reopen a
\* waiting stage (build_orchestrator_graph, reconcile_current_stage).
LEMMA WhereNext == [Next]_vars => Arrivals
<1> SUFFICES ASSUME [Next]_vars PROVE Arrivals
  OBVIOUS
<1>1. CASE RouteMarkRun
  BY <1>1 DEF RouteMarkRun, TerminalRun, Arrivals
<1>2. CASE RouteSelect
  BY <1>2 DEF RouteSelect, Arrivals
<1>3. CASE RouteExhausted
  BY <1>3 DEF RouteExhausted, Arrivals
<1>4. CASE ValidateMarkStage
  BY <1>4 DEF ValidateMarkStage, Arrivals
<1>5. CASE ValidateInput
  BY <1>5 DEF ValidateInput, Arrivals
<1>6. CASE PrepareFreeze
  BY <1>6 DEF PrepareFreeze, Arrivals
<1>7. CASE PrepareFails
  BY <1>7 DEF PrepareFails, Arrivals
<1>8. CASE PrepareMarkAttempt
  BY <1>8 DEF PrepareMarkAttempt, Arrivals
<1>9. CASE PrepareDone
  BY <1>9 DEF PrepareDone, Arrivals
<1>10. CASE DecideApproval
  BY <1>10 DEF DecideApproval, RouteAfterDecision, Arrivals
<1>11. CASE ApprovalEnsure
  BY <1>11 DEF ApprovalEnsure, Arrivals
<1>12. CASE ApprovalMarkStage
  BY <1>12 DEF ApprovalMarkStage, Arrivals
<1>13. CASE ApprovalMarkRun
  BY <1>13 DEF ApprovalMarkRun, TerminalRun, Arrivals
<1>14. CASE ApprovalPrepared
  BY <1>14 DEF ApprovalPrepared, Arrivals
<1>15. CASE Interrupt
  BY <1>15 DEF Interrupt, Arrivals
<1>16. CASE GateDecide
  BY <1>16 DEF GateDecide, Arrivals
<1>17. CASE GateDone
  BY <1>17 DEF GateDone, Arrivals
<1>18. CASE ReadyMarkStage
  BY <1>18 DEF ReadyMarkStage, Arrivals
<1>19. CASE ReadyDone
  BY <1>19 DEF ReadyDone, Arrivals
<1>20. CASE ExecuteMarkStage
  BY <1>20 DEF ExecuteMarkStage, Arrivals
<1>21. CASE ExecuteMarkRun
  BY <1>21 DEF ExecuteMarkRun, TerminalRun, Arrivals
<1>22. CASE ExecuteMarkAttempt
  BY <1>22 DEF ExecuteMarkAttempt, Arrivals
<1>23. CASE ExecuteStart
  BY <1>23 DEF ExecuteStart, Arrivals
<1>24. CASE ExecuteDone
  BY <1>24 DEF ExecuteDone, Arrivals
<1>25. CASE ValidateResult
  BY <1>25 DEF ValidateResult, Arrivals
<1>26. CASE RecordStage
  BY <1>26 DEF RecordStage, Arrivals
<1>27. CASE RecordLedger
  BY <1>27 DEF RecordLedger, Arrivals
<1>28. CASE RecordStageAttempt
  BY <1>28 DEF RecordStageAttempt, Arrivals
<1>29. CASE RecordJob
  BY <1>29 DEF RecordJob, Arrivals
<1>30. CASE RecordRefused
  BY <1>30 DEF RecordRefused, Arrivals
<1>31. CASE RecordRun
  BY <1>31 DEF RecordRun, RunAfter, TerminalRun, Arrivals
<1>32. CASE RecordDone
  BY <1>32 DEF RecordDone, RouteAfterRecord, Arrivals
<1>33. CASE RetryMarkRun
  BY <1>33 DEF RetryMarkRun, TerminalRun, Arrivals
<1>34. CASE RetryPrepared
  BY <1>34 DEF RetryPrepared, Arrivals
<1>35. CASE RetryGate
  BY <1>35 DEF RetryGate, Arrivals
<1>36. CASE ReportWrite
  BY <1>36 DEF ReportWrite, Arrivals
<1>37. CASE ReportMarkRun
  BY <1>37 DEF ReportMarkRun, Arrivals
<1>38. CASE ReportDone
  BY <1>38 DEF ReportDone, Arrivals
<1>39. CASE Approve
  BY <1>39 DEF Approve, Arrivals
<1>40. CASE RespondApproval
  BY <1>40 DEF RespondApproval, Arrivals
<1>41. CASE RespondRetry
  BY <1>41 DEF RespondRetry, Arrivals
<1>42. CASE ResumeNode
  BY <1>42 DEF ResumeNode, Arrivals
<1>43. CASE ResumeReconcile
  BY <1>43 DEF ResumeReconcile, Arrivals
<1>44. CASE CancelExternal
  BY <1>44 DEF CancelExternal, Arrivals
<1>45. CASE JobStep
  BY <1>45 DEF JobStep, JobMoves, Arrivals
<1>46. CASE Crash
  BY <1>46 DEF Crash, Arrivals
<1>47. CASE UNCHANGED vars
  BY <1>47 DEF vars, Arrivals
<1> QED
  BY <1>1, <1>2, <1>3, <1>4, <1>5, <1>6, <1>7, <1>8, <1>9, <1>10, <1>11, <1>12,
       <1>13, <1>14, <1>15, <1>16, <1>17, <1>18, <1>19, <1>20, <1>21, <1>22,
       <1>23, <1>24, <1>25, <1>26, <1>27, <1>28, <1>29, <1>30, <1>31, <1>32,
       <1>33, <1>34, <1>35, <1>36, <1>37, <1>38, <1>39, <1>40, <1>41, <1>42,
       <1>43, <1>44, <1>45, <1>46, <1>47
     DEF Next, GraphStep, Command

Progress ==
  \/ step' = 0
  \/ UNCHANGED <<step, node, cursor, counter, outcome, pend, prepared,
                 retryDecision, tables, files, starts, local, answer>>
  \/ /\ step' = step + 1
     /\ UNCHANGED <<node, cursor, counter, outcome, pend, prepared,
                    retryDecision, answer>>
     /\ node = "prepare_stage_plan" => PrepareFreeze \/ step = 1
     /\ node = "stage_approval_gate" => GateDecide
     /\ node = "execute_or_reconcile_stage" =>
          (step = 3 /\ ExecuteStart) \/ step < 3
     /\ node = "record_stage_outcome" =>
          \/ step = 0 /\ RecordStage
          \/ step = 1 /\ RecordLedger
          \/ step = 2 /\ RecordStageAttempt
          \/ step = 3 /\ RecordJob
          \/ step = 4 /\ RecordRun
     /\ node = "generate_report" =>
          \/ step = 0 /\ ReportWrite
          \/ step = 1 /\ ReportMarkRun

\* A node goes on step by step: it starts again, stands still, or does the
\* one write its step says (orchestrator/graph.py).
LEMMA StepByStep == [Next]_vars => Progress
<1> SUFFICES ASSUME [Next]_vars PROVE Progress
  OBVIOUS
<1>1. CASE RouteMarkRun
  BY <1>1 DEF RouteMarkRun, TerminalRun, Progress
<1>2. CASE RouteSelect
  BY <1>2 DEF RouteSelect, Progress
<1>3. CASE RouteExhausted
  BY <1>3 DEF RouteExhausted, Progress
<1>4. CASE ValidateMarkStage
  BY <1>4 DEF ValidateMarkStage, Progress
<1>5. CASE ValidateInput
  BY <1>5 DEF ValidateInput, Progress
<1>6. CASE PrepareFreeze
  BY <1>6 DEF PrepareFreeze, Progress
<1>7. CASE PrepareFails
  BY <1>7 DEF PrepareFails, Progress
<1>8. CASE PrepareMarkAttempt
  BY <1>8 DEF PrepareMarkAttempt, Progress
<1>9. CASE PrepareDone
  BY <1>9 DEF PrepareDone, Progress
<1>10. CASE DecideApproval
  BY <1>10 DEF DecideApproval, RouteAfterDecision, Progress
<1>11. CASE ApprovalEnsure
  BY <1>11 DEF ApprovalEnsure, Progress
<1>12. CASE ApprovalMarkStage
  BY <1>12 DEF ApprovalMarkStage, Progress
<1>13. CASE ApprovalMarkRun
  BY <1>13 DEF ApprovalMarkRun, TerminalRun, Progress
<1>14. CASE ApprovalPrepared
  BY <1>14 DEF ApprovalPrepared, Progress
<1>15. CASE Interrupt
  BY <1>15 DEF Interrupt, Progress
<1>16. CASE GateDecide
  BY <1>16 DEF GateDecide, Progress
<1>17. CASE GateDone
  BY <1>17 DEF GateDone, Progress
<1>18. CASE ReadyMarkStage
  BY <1>18 DEF ReadyMarkStage, Progress
<1>19. CASE ReadyDone
  BY <1>19 DEF ReadyDone, Progress
<1>20. CASE ExecuteMarkStage
  BY <1>20 DEF ExecuteMarkStage, Progress
<1>21. CASE ExecuteMarkRun
  BY <1>21 DEF ExecuteMarkRun, TerminalRun, Progress
<1>22. CASE ExecuteMarkAttempt
  BY <1>22 DEF ExecuteMarkAttempt, Progress
<1>23. CASE ExecuteStart
  BY <1>23 DEF ExecuteStart, Progress
<1>24. CASE ExecuteDone
  BY <1>24 DEF ExecuteDone, Progress
<1>25. CASE ValidateResult
  BY <1>25 DEF ValidateResult, Progress
<1>26. CASE RecordStage
  <2>1. /\ UNCHANGED graph /\ step' = step + 1 /\ UNCHANGED answer
        /\ node = "record_stage_outcome" /\ step = 0
    BY <1>26 DEF RecordStage
  <2> QED
    BY <1>26, <2>1 DEF Progress
<1>27. CASE RecordLedger
  BY <1>27 DEF RecordLedger, Progress
<1>28. CASE RecordStageAttempt
  <2>1. /\ UNCHANGED graph /\ step' = step + 1 /\ UNCHANGED answer
        /\ node = "record_stage_outcome" /\ step = 2
    BY <1>28 DEF RecordStageAttempt
  <2> QED
    BY <1>28, <2>1 DEF Progress
<1>29. CASE RecordJob
  BY <1>29 DEF RecordJob, Progress
<1>30. CASE RecordRefused
  BY <1>30 DEF RecordRefused, Progress
<1>31. CASE RecordRun
  BY <1>31 DEF RecordRun, RunAfter, TerminalRun, Progress
<1>32. CASE RecordDone
  BY <1>32 DEF RecordDone, RouteAfterRecord, Progress
<1>33. CASE RetryMarkRun
  BY <1>33 DEF RetryMarkRun, TerminalRun, Progress
<1>34. CASE RetryPrepared
  BY <1>34 DEF RetryPrepared, Progress
<1>35. CASE RetryGate
  BY <1>35 DEF RetryGate, Progress
<1>36. CASE ReportWrite
  <2>1. /\ UNCHANGED graph /\ step' = step + 1 /\ UNCHANGED answer
        /\ node = "generate_report" /\ step = 0
    BY <1>36 DEF ReportWrite
  <2> QED
    BY <1>36, <2>1 DEF Progress
<1>37. CASE ReportMarkRun
  BY <1>37 DEF ReportMarkRun, Progress
<1>38. CASE ReportDone
  BY <1>38 DEF ReportDone, Progress
<1>39. CASE Approve
  BY <1>39 DEF Approve, Progress
<1>40. CASE RespondApproval
  BY <1>40 DEF RespondApproval, Progress
<1>41. CASE RespondRetry
  BY <1>41 DEF RespondRetry, Progress
<1>42. CASE ResumeNode
  BY <1>42 DEF ResumeNode, Progress
<1>43. CASE ResumeReconcile
  BY <1>43 DEF ResumeReconcile, Progress
<1>44. CASE CancelExternal
  BY <1>44 DEF CancelExternal, Progress
<1>45. CASE JobStep
  BY <1>45 DEF JobStep, JobMoves, Progress
<1>46. CASE Crash
  BY <1>46 DEF Crash, Progress
<1>47. CASE UNCHANGED vars
  BY <1>47 DEF vars, Progress
<1> QED
  BY <1>1, <1>2, <1>3, <1>4, <1>5, <1>6, <1>7, <1>8, <1>9, <1>10, <1>11, <1>12,
       <1>13, <1>14, <1>15, <1>16, <1>17, <1>18, <1>19, <1>20, <1>21, <1>22,
       <1>23, <1>24, <1>25, <1>26, <1>27, <1>28, <1>29, <1>30, <1>31, <1>32,
       <1>33, <1>34, <1>35, <1>36, <1>37, <1>38, <1>39, <1>40, <1>41, <1>42,
       <1>43, <1>44, <1>45, <1>46, <1>47
     DEF Next, GraphStep, Command

-----------------------------------------------------------------------------
(* Stages in order.                                                         *)

\* An outcome is not the absence of one.
LEMMA OutcomesAreSome ==
  ASSUME NEW o \in Outcomes PROVE o # NoOutcome /\ o.kind \in OutcomeKinds
  BY DEF Outcomes, NoOutcome, OutcomeKinds

\* Where record_stage_outcome works on, its stage and its outcome are there;
\* what it files becomes the outcome of that stage and of no other.
LEMMA Recording ==
  ASSUME IndInv, RecordDone
  PROVE  /\ cursor \in Stages /\ pend \in Outcomes /\ pend # NoOutcome
         /\ outcome'[cursor] = pend
         /\ counter'[cursor] = FiledAttempt(cursor)
         /\ \A s \in Stages : s # cursor =>
              outcome'[s] = outcome[s] /\ counter'[s] = counter[s]
<1>1. cursor \in Stages /\ pend \in Outcomes
  BY DEF RecordDone, IndInv, ControlOK, ResultNodes
<1> QED
  BY <1>1, OutcomesAreSome DEF RecordDone, IndInv, TypeOK, GraphOK

\* Only the cursor's stage starts, and only a settled one is left behind.
LEMMA OrderStep ==
  ASSUME IndInv, OrderOK, [Next]_vars
  PROVE  OrderOK'
<1> USE DEF OrderOK
<1>1. /\ cursor \in 0 .. 5
      /\ \A s \in Stages : Required(s)' = Required(s)
  BY WhoWrites DEF Writers, Required, IndInv, TypeOK, GraphOK
<1>2. cursor' \in 0 .. 5 /\ cursor' >= cursor
  <2>1. CASE RouteSelect
    BY <1>1, <2>1, NextRouteRemains DEF RouteSelect, Stages
  <2>2. CASE ~RouteSelect
    BY <1>1, <2>2, WhoWrites DEF Writers, RouteExhausted
  <2> QED
    BY <2>1, <2>2
<1>3. ASSUME NEW s \in Stages, NEW n \in Attempts, <<s, n>> \in starts'
      PROVE  s <= cursor'
  <2>1. CASE UNCHANGED starts
    BY <1>1, <1>2, <1>3, <2>1 DEF Stages
  <2>2. CASE ExecuteStart
    BY <1>1, <1>3, <2>2 DEF ExecuteStart
  <2> QED
    BY <2>1, <2>2, WhoWrites DEF Writers
<1>4. ASSUME NEW t \in Stages, t < cursor', Required(t)
      PROVE  Settled(t)'
  <2>1. CASE UNCHANGED <<cursor, outcome>>
    BY <1>4, <2>1 DEF Settled
  <2>2. CASE RecordDone
    BY <1>1, <1>4, <2>2, Recording DEF RecordDone, Settled, Stages
  <2>3. CASE RouteSelect
    <3>1. t <= cursor
      <4>1. t \notin Remaining
        <5>1. /\ Remaining \subseteq Stages
              /\ NextRoute \in Remaining /\ \A r \in Remaining : NextRoute <= r
          BY <2>3, NextRouteRemains
             DEF RouteSelect, Remaining
        <5> QED
          BY <1>4, <2>3, <5>1 DEF RouteSelect, Stages
      <4> QED
        BY <1>1, <1>4, <4>1 DEF Remaining, Disposition, Stages
    <3>2. UNCHANGED outcome /\ node = "route_next_stage"
      BY <2>3 DEF RouteSelect
    <3> QED
      BY <1>1, <1>4, <3>1, <3>2 DEF Settled, Stages
  <2>4. CASE RouteExhausted
    <3>1. t <= cursor
      BY <1>1, <1>4, <2>4 DEF RouteExhausted, Remaining, Disposition, Stages
    <3> QED
      BY <1>1, <1>4, <2>4, <3>1 DEF RouteExhausted, Settled, Stages
  <2> QED
    BY <2>1, <2>2, <2>3, <2>4, WhoWrites DEF Writers, RecordDone
<1>5. node' = "route_next_stage" /\ cursor' \in Stages => Settled(cursor)'
  <2>1. CASE RecordDone
    BY <2>1, Recording DEF RecordDone, RouteAfterRecord, Settled
  <2>2. CASE ~RecordDone /\ node' = "route_next_stage"
    <3>1. UNCHANGED <<node, outcome, cursor>>
      BY <2>2, WhoWrites, WhereNext
         DEF Writers, Arrivals, RouteSelect, RouteExhausted
    <3> QED
      BY <2>2, <3>1 DEF Settled
  <2> QED
    BY <2>1, <2>2
<1>6. node' = "generate_report" => cursor' = 5
  BY WhoWrites, WhereNext DEF Writers, Arrivals, RouteExhausted, RouteSelect
<1>7. cursor' = 5 => node' \in {"generate_report", "END"}
  <2>1. CASE UNCHANGED cursor
    BY <2>1, WhereNext
       DEF Arrivals, ReportDone, ResumeReconcile, CancelExternal,
           WaitingExternal, Stages
  <2>2. CASE RouteSelect
    BY <2>2, NextRouteRemains DEF RouteSelect, Stages
  <2>3. CASE RouteExhausted
    BY <2>3 DEF RouteExhausted
  <2> QED
    BY <2>1, <2>2, <2>3, WhoWrites DEF Writers
<1> QED
  BY <1>1, <1>3, <1>4, <1>5, <1>6, <1>7

-----------------------------------------------------------------------------
(* The ledgers.                                                             *)

\* What a waiting stage is told by its runner, or by its cancellation, is
\* filed under the key it waits for, and still waits only while the job runs
\* (reconcile_current_stage, cancel_current_external_stage).
LEMMA Polling ==
  ASSUME IndInv, ResumeReconcile \/ CancelExternal
  PROVE  /\ WaitingExternal /\ cursor \in Stages
         /\ outcome[cursor] \in Outcomes
         /\ pend'.key = outcome[cursor].key
         /\ pend'.why = "user" => pend'.status = "CANCELLED"
         /\ pend'.status \in Ended \cup {"RUNNING", "RETRYABLE_FAILED"}
         /\ pend'.status = "RUNNING" <=> pend'.kind = "WAITING_EXTERNAL"
<1>1. WaitingExternal
  BY DEF ResumeReconcile, CancelExternal
<1>2. /\ cursor \in Stages /\ outcome[cursor] \in Outcomes
      /\ job[cursor][FiledAttempt(cursor)] \in Jobs
  BY <1>1, WaitingTypes
<1> DEFINE previous == outcome[cursor]
           rep == Report(Polled(job[cursor][FiledAttempt(cursor)]))
<1>3. \/ pend' = JobOutcome(previous, rep, StageStatusOf(rep))
      \/ \E status \in {"RETRYABLE_FAILED", "PERMANENT_FAILED"} :
           pend' = PollFailure(previous, status)
      \/ \E r : pend' = Outcome("COMPLETED", "CANCELLED", previous.key,
                               previous.ref, "user", r)
  <2>1. CASE ResumeReconcile
    BY <2>1, ConstantsAssumption, Zenon DEF ResumeReconcile
  <2>2. CASE CancelExternal
    BY <2>2, Zenon DEF CancelExternal
  <2> QED
    BY <2>1, <2>2
<1>4. rep \in JobReports
  BY <1>2, PollTypes
<1>5. CASE pend' = JobOutcome(previous, rep, StageStatusOf(rep))
  <2>1. /\ pend'.key = previous.key /\ pend'.why = "none"
        /\ pend'.status = StageStatusOf(rep)
        /\ pend'.kind = IF rep.status \in TerminalJob
                          THEN CompletionKind(StageStatusOf(rep))
                          ELSE "WAITING_EXTERNAL"
    BY <1>5 DEF JobOutcome, Outcome
  <2> HIDE DEF rep
  <2> QED
    BY <1>1, <1>2, <1>4, <2>1
       DEF StageStatusOf, CompletionKind, TerminalJob, Ended, JobReports,
           JobStatus
<1>6. CASE \E status \in {"RETRYABLE_FAILED", "PERMANENT_FAILED"} :
             pend' = PollFailure(previous, status)
  BY <1>1, <1>2, <1>6 DEF PollFailure, Outcome, Ended
<1>7. CASE \E r : pend' = Outcome("COMPLETED", "CANCELLED", previous.key,
                                 previous.ref, "user", r)
  BY <1>1, <1>2, <1>7 DEF Outcome, Ended
<1> QED
  BY <1>3, <1>5, <1>6, <1>7

\* What is filed, waited for or retried is filed under a key of its own
\* stage (_stable_id, _blocked_outcome).
LEMMA KeysStep ==
  ASSUME IndInv, KeysOK, [Next]_vars
  PROVE  KeysOK'
<1> USE DEF KeysOK
<1>1. ASSUME NEW s \in Stages, outcome'[s] # NoOutcome
      PROVE  outcome'[s].key.stage = s
  <2>1. CASE RecordDone
    BY <1>1, <2>1, Recording DEF RecordDone, ResultNodes
  <2> QED
    BY <1>1, <2>1, WhoWrites DEF Writers
<1>2. ASSUME node' \in ResultNodes PROVE pend'.key.stage = cursor'
  <2>1. CASE UNCHANGED <<node, pend>>
    BY <1>2, <2>1, WhoWrites
       DEF Writers, RouteSelect, RouteExhausted, ResultNodes
  <2>2. CASE RouteSelect \/ ValidateInput
    BY <1>2, <2>2
       DEF RouteSelect, ValidateInput, Refusal, Outcome, BlockedKey,
           ResultNodes
  <2>3. CASE PrepareFails \/ GateDone
    BY <1>2, <2>3
       DEF PrepareFails, GateDone, Outcome, PrepareKey, StartKey, ResultNodes
  <2>4. CASE ExecuteDone
    BY <2>4 DEF ExecuteDone, StartKey
  <2>5. CASE ValidateResult
    BY <2>5 DEF ValidateResult, Outcome, ResultNodes
  <2>6. CASE RetryGate
    <3>1. cursor \in Stages /\ outcome[cursor] \in Outcomes
      BY <2>6 DEF RetryGate, IndInv, ControlOK, RetryNodes
    <3> QED
      BY <1>2, <2>6, <3>1, OutcomesAreSome DEF RetryGate, Outcome, ResultNodes
  <2>7. CASE ResumeReconcile \/ CancelExternal
    BY <2>7, Polling, OutcomesAreSome DEF ResumeReconcile, CancelExternal
  <2> QED
    BY <1>2, <2>1, <2>2, <2>3, <2>4, <2>5, <2>6, <2>7, WhereNext
       DEF Arrivals, ResultNodes
<1>3. ASSUME node' = "execute_or_reconcile_stage", step' = 4
      PROVE  local'.key = StartKey(cursor, prepared)'
  <2>1. CASE ExecuteStart
    BY <2>1 DEF ExecuteStart, Outcome, IndInv, ControlOK, PlanNodes
  <2>2. CASE ~ExecuteStart
    BY <1>3, <2>2, StepByStep DEF Progress, StartKey, IndInv, TypeOK, ProcessOK
  <2> QED
    BY <2>1, <2>2
<1> QED
  BY <1>1, <1>2, <1>3

\* A step touches the rows of the cursor's stage only, and none while the
\* next stage is being chosen.
LEMMA Elsewhere ==
  ASSUME IndInv, [Next]_vars, NEW s \in Stages,
         s # cursor \/ node = "route_next_stage"
  PROVE  /\ stageRow'[s] = stageRow[s] /\ attemptRow'[s] = attemptRow[s]
         /\ jobRow'[s] = jobRow[s] /\ approval'[s] = approval[s]
         /\ planFile'[s] = planFile[s] /\ counter'[s] = counter[s]
         /\ outcome'[s] = outcome[s]
<1> USE DEF IndInv, TypeOK
<1>1. stageRow'[s] = stageRow[s]
  <2>1. CASE StageMark
    BY <2>1
       DEF StageMark, ValidateMarkStage, ApprovalMarkStage, ReadyMarkStage,
           ExecuteMarkStage, UpsertStage, TablesOK
  <2>2. CASE RecordStage
    BY <2>2 DEF RecordStage, UpsertStage, TablesOK
  <2> QED
    BY <2>1, <2>2, WhoWrites DEF Writers
<1>2. attemptRow'[s] = attemptRow[s]
  <2>1. CASE PrepareMarkAttempt \/ ExecuteMarkAttempt
    BY <2>1
       DEF PrepareMarkAttempt, ExecuteMarkAttempt, RecordAttempt, TablesOK
  <2>2. CASE RecordStageAttempt
    BY <2>2 DEF RecordStageAttempt, RecordAttempt, TablesOK
  <2> QED
    BY <2>1, <2>2, WhoWrites DEF Writers
<1>3. jobRow'[s] = jobRow[s]
  BY WhoWrites DEF Writers, RecordJob, TablesOK
<1>4. approval'[s] = approval[s]
  BY WhoWrites DEF Writers, ApprovalEnsure, GateDecide, TablesOK
<1>5. planFile'[s] = planFile[s]
  BY WhoWrites DEF Writers, PrepareFreeze, FilesOK
<1>6. counter'[s] = counter[s] /\ outcome'[s] = outcome[s]
  BY WhoWrites DEF Writers, PrepareFails, ExecuteDone, RecordDone, GraphOK
<1> QED
  BY <1>1, <1>2, <1>3, <1>4, <1>5, <1>6

\* A stage that is not being recorded keeps what was filed for it.
LEMMA AgreesStep ==
  ASSUME IndInv, KeysOK, [Next]_vars, NEW s \in Stages,
         s # cursor \/ node = "route_next_stage",
         outcome[s] # NoOutcome, Agrees(s)
  PROVE  Agrees(s)'
<1>1. outcome[s] \in operations'
  <2>1. CASE RecordLedger
    BY <2>1 DEF RecordLedger, RecordOperation, KeysOK, ResultNodes, Agrees
  <2> QED
    BY <2>1, WhoWrites DEF Writers, Agrees
<1> QED
  BY <1>1, Elsewhere DEF Agrees, RowTells

\* The six writes of record_stage_outcome file one outcome, and what a stage
\* left behind has filed stays.
LEMMA FiledStep ==
  ASSUME IndInv, OrderOK, KeysOK, FiledOK, [Next]_vars
  PROVE  FiledOK'
<1> DEFINE n == FiledAttempt(cursor)
<1>1. ASSUME node' = "record_stage_outcome"
      PROVE  /\ step' > 0 => /\ stageRow'[cursor'].status = pend'.status
                             /\ stageRow'[cursor'].attempt = n'
             /\ step' > 1 => pend' \in operations'
             /\ step' > 2 => RowTells(cursor, n, pend)'
             /\ step' > 3 => (pend'.job # NoJob =>
                               jobRow'[cursor'][n'] = pend'.job)
  <2> USE <1>1 DEF FiledOK
  <2>1. CASE step' = 0
    BY <2>1
  <2>2. CASE UNCHANGED <<step, node, cursor, counter, outcome, pend, prepared,
                         retryDecision, tables, files, starts, local, answer>>
    BY <2>2 DEF RowTells, FiledAttempt
  <2>3. ASSUME step' = step + 1, UNCHANGED <<node, cursor, counter, pend>>,
               \/ step = 0 /\ RecordStage
               \/ step = 1 /\ RecordLedger
               \/ step = 2 /\ RecordStageAttempt
               \/ step = 3 /\ RecordJob
               \/ step = 4 /\ RecordRun
        PROVE  /\ step' > 0 => /\ stageRow'[cursor'].status = pend'.status
                               /\ stageRow'[cursor'].attempt = n'
               /\ step' > 1 => pend' \in operations'
               /\ step' > 2 => RowTells(cursor, n, pend)'
               /\ step' > 3 => (pend'.job # NoJob =>
                                 jobRow'[cursor'][n'] = pend'.job)
    <3>1. cursor \in Stages /\ n' = n /\ n \in Attempts
      BY <2>3, AttemptTypes
         DEF FiledAttempt, IndInv, ControlOK, ResultNodes
    <3> HIDE DEF n
    <3>2. CASE step = 0 /\ RecordStage
      BY <2>3, <3>1, <3>2
         DEF RecordStage, UpsertStage, IndInv, TypeOK, TablesOK, n
    <3>3. CASE step = 1 /\ RecordLedger
      BY <2>3, <3>1, <3>3 DEF RecordLedger, RecordOperation, n
    <3>4. CASE step = 2 /\ RecordStageAttempt
      <4>1. RowTells(cursor, n, pend)'
        BY <2>3, <3>1, <3>4
           DEF RecordStageAttempt, RecordAttempt, RowTells, IndInv, TypeOK,
               TablesOK, n
      <4> QED
        BY <2>3, <3>1, <3>4, <4>1 DEF RecordStageAttempt, n
    <3>5. CASE step = 3 /\ RecordJob
      BY <2>3, <3>1, <3>5
         DEF RecordJob, RowTells, IndInv, TypeOK, TablesOK, n
    <3>6. CASE step = 4 /\ RecordRun
      BY <2>3, <3>1, <3>6 DEF RecordRun, RowTells, n
    <3> QED
      BY <2>3, <3>2, <3>3, <3>4, <3>5, <3>6
  <2> QED
    BY <2>1, <2>2, <2>3, StepByStep DEF Progress
<1>2. ASSUME NEW s \in Stages,
             \/ node' = "route_next_stage" /\ s = cursor'
             \/ s < cursor' /\ outcome'[s] # NoOutcome
      PROVE  Agrees(s)'
  <2>0. cursor \in 0 .. 5
    BY DEF IndInv, TypeOK, GraphOK
  <2>1. CASE RecordDone /\ s = cursor
    <3>1. pend.job # NoJob => jobRow[s][n] = pend.job
      BY <2>1 DEF RecordDone, FiledOK
    <3>2. /\ stageRow[s].status = pend.status /\ stageRow[s].attempt = n
          /\ RowTells(s, n, pend) /\ pend \in operations
      BY <2>1 DEF RecordDone, FiledOK
    <3>3. /\ outcome'[s] = pend /\ counter'[s] = n
          /\ UNCHANGED <<stageRow, attemptRow, jobRow, operations>>
      BY <2>1, Recording DEF RecordDone
    <3> QED
      BY <3>1, <3>2, <3>3 DEF Agrees, RowTells
  <2>2. CASE ~(RecordDone /\ s = cursor)
    <3>1. s # cursor \/ node = "route_next_stage"
      BY <1>2, <2>0, <2>2, WhoWrites, WhereNext
         DEF Writers, Arrivals, RouteSelect, RouteExhausted, Stages
    <3>2. outcome'[s] = outcome[s]
      BY <3>1, Elsewhere
    <3>3. /\ outcome[s] # NoOutcome
          /\ \/ s < cursor
             \/ node = "route_next_stage" /\ s = cursor
      <4>1. CASE RouteSelect \/ RouteExhausted
        <5>1. node = "route_next_stage" /\ node' # "route_next_stage"
          BY <4>1 DEF RouteSelect, RouteExhausted
        <5> QED
          BY <1>2, <2>0, <3>2, <5>1 DEF IndInv, ControlOK, Stages
      <4>2. CASE ~(RouteSelect \/ RouteExhausted)
        <5>1. UNCHANGED cursor
          BY <4>2, WhoWrites DEF Writers
        <5> QED
          BY <1>2, <2>2, <3>1, <3>2, <5>1, WhereNext
             DEF Arrivals, OrderOK, Settled
      <4> QED
        BY <4>1, <4>2
    <3>4. Agrees(s)
      BY <3>3 DEF FiledOK, LedgersAgree
    <3> QED
      BY <3>1, <3>3, <3>4, AgreesStep
  <2> QED
    BY <2>1, <2>2
<1> QED
  BY <1>1, <1>2 DEF FiledOK, LedgersAgree

-----------------------------------------------------------------------------
(* Attempts, one at a time.                                                 *)

\* The counter of a stage counts up, by one, when its attempt starts, fails
\* to be prepared or, uncounted, is filed.
LEMMA CounterStep ==
  ASSUME IndInv, [Next]_vars, NEW s \in Stages
  PROVE  /\ counter[s] \in 0 .. MaxAttempts
         /\ \/ counter'[s] = counter[s]
            \/ /\ s = cursor /\ counter'[s] = counter[s] + 1
               /\ PrepareFails \/ ExecuteDone
            \/ /\ s = cursor /\ counter[s] = 0 /\ counter'[s] = 1
               /\ RecordDone
<1>1. /\ counter \in [Stages -> 0 .. MaxAttempts]
      /\ counter[s] \in 0 .. MaxAttempts
  BY DEF IndInv, TypeOK, GraphOK
<1>2. CASE PrepareFails \/ ExecuteDone
  BY <1>1, <1>2 DEF PrepareFails, ExecuteDone, NextAttempt
<1>3. CASE RecordDone
  BY <1>1, <1>3 DEF RecordDone, FiledAttempt
<1> QED
  BY <1>1, <1>2, <1>3, WhoWrites DEF Writers

\* What is filed as retryable or as waiting is the attempt counted last
\* (execute_or_reconcile_stage, prepare_stage_plan).
LEMMA CountsStep ==
  ASSUME IndInv, KeysOK, CountsOK, [Next]_vars
  PROVE  CountsOK'
<1> USE DEF CountsOK
<1>1. ASSUME node' \in ResultNodes,
             \/ pend'.status = "RETRYABLE_FAILED"
             \/ pend'.kind = "WAITING_EXTERNAL"
      PROVE  Counted(cursor, pend)'
  <2>1. CASE UNCHANGED <<node, pend>>
    BY <1>1, <2>1, WhoWrites
       DEF Writers, RouteSelect, RouteExhausted, PrepareFails, ExecuteDone,
           RecordDone, RouteAfterRecord, ResultNodes, Counted
  <2>2. CASE RouteSelect \/ ValidateInput
    <3>1. \/ pend' = NoOutcome
          \/ \E s, status :
               /\ pend' = Refusal(s, status)
               /\ status \in {"BLOCKED_MISSING_INPUT",
                              "CAPABILITY_UNAVAILABLE", "PERMANENT_FAILED"}
      BY <2>2, ConstantsAssumption DEF RouteSelect, ValidateInput
    <3> QED
      BY <1>1, <3>1 DEF Refusal, RefusalKind, Outcome, NoOutcome
  <2>3. CASE PrepareFails
    <3>1. cursor \in Stages /\ NextAttempt(cursor) \in Attempts
      BY <2>3, AttemptTypes
         DEF PrepareFails, IndInv, ControlOK, AttemptNodes
    <3> QED
      BY <2>3, <3>1
         DEF PrepareFails, Counted, Outcome, PrepareKey, IndInv, TypeOK,
             GraphOK, Attempts
  <2>4. CASE GateDone \/ RetryGate
    BY <1>1, <2>4 DEF GateDone, RetryGate, Outcome, ResultNodes
  <2>5. CASE ExecuteDone
    <3>1. /\ cursor \in Stages /\ NextAttempt(cursor) \in Attempts
          /\ prepared = NextAttempt(cursor)
      BY <2>5, AttemptTypes
         DEF ExecuteDone, IndInv, ControlOK, AttemptNodes, PlanNodes
    <3> QED
      BY <2>5, <3>1
         DEF ExecuteDone, KeysOK, Counted, StartKey, IndInv, TypeOK, GraphOK,
             Attempts
  <2>6. CASE ValidateResult
    BY <1>1, <2>6 DEF ValidateResult, Counted, Outcome, ResultNodes
  <2>7. CASE ResumeReconcile \/ CancelExternal
    <3>1. UNCHANGED <<cursor, counter>>
      BY <2>7 DEF ResumeReconcile, CancelExternal
    <3> QED
      BY <2>7, <3>1, Polling DEF WaitingExternal, Counted
  <2> QED
    BY <1>1, <2>1, <2>2, <2>3, <2>4, <2>5, <2>6, <2>7, WhereNext
       DEF Arrivals, ResultNodes
<1>2. ASSUME NEW s \in Stages, outcome'[s].kind = "WAITING_EXTERNAL"
      PROVE  Counted(s, outcome[s])'
  <2>1. CASE RecordDone /\ s = cursor
    BY <1>2, <2>1, Recording
       DEF RecordDone, Counted, FiledAttempt, ResultNodes
  <2>2. CASE ~(RecordDone /\ s = cursor)
    <3>1. outcome'[s] = outcome[s]
      BY <2>2, Recording, WhoWrites DEF Writers
    <3>2. ~(s = cursor /\ (PrepareFails \/ ExecuteDone))
      BY <1>2, <3>1
         DEF PrepareFails, ExecuteDone, IndInv, ControlOK, AttemptNodes,
             PlanNodes
    <3> QED
      BY <1>2, <2>2, <3>1, <3>2, CounterStep DEF Counted
  <2> QED
    BY <2>1, <2>2
<1> QED
  BY <1>1, <1>2

\* Only a failure that may be retried is tried again (retry_gate).
LEMMA RetriesStep ==
  ASSUME IndInv, KeysOK, FiledOK, RetriesOK, CountsOK, [Next]_vars
  PROVE  RetriesOK'
<1> USE DEF RetriesOK
<1>1. \/ UNCHANGED attemptRow \/ RecordStageAttempt
      \/ /\ node \in AttemptNodes /\ UNCHANGED graph
         /\ \A n \in Attempts : n # NextAttempt(cursor) =>
              attemptRow'[cursor][n] = attemptRow[cursor][n]
  <2>1. CASE PrepareMarkAttempt \/ ExecuteMarkAttempt
    <3>1. node \in AttemptNodes /\ UNCHANGED graph
      BY <2>1
         DEF PrepareMarkAttempt, ExecuteMarkAttempt, AttemptNodes, PlanNodes
    <3>2. cursor \in Stages
      BY <3>1 DEF IndInv, ControlOK
    <3> QED
      BY <2>1, <3>1, <3>2
         DEF PrepareMarkAttempt, ExecuteMarkAttempt, RecordAttempt, IndInv,
             TypeOK, TablesOK
  <2> QED
    BY <2>1, WhoWrites DEF Writers
<1>2. ASSUME node' \in AttemptNodes, counter'[cursor'] > 0
      PROVE  /\ LastRow(cursor)'.status = "RETRYABLE_FAILED"
             /\ LastRow(cursor)'.key.attempt = counter'[cursor']
  <2>1. \/ RouteSelect \/ RetryGate
        \/ node \in AttemptNodes /\ UNCHANGED <<cursor, counter>>
    BY <1>2, WhereNext, WhoWrites
       DEF Arrivals, Writers, AttemptNodes, PlanNodes, ValidateInput,
           PrepareDone, DecideApproval, ApprovalPrepared, GateDone, ReadyDone,
           RouteExhausted, PrepareFails, ExecuteDone, RecordDone,
           RouteAfterRecord
  <2>2. CASE RouteSelect
    BY <1>2, <2>2, NextRouteRemains DEF RouteSelect, IndInv, ControlOK
  <2>3. CASE RetryGate
    BY <1>2, <2>3
       DEF RetryGate, RetryNodes, AttemptNodes, PlanNodes, RowTells, Counted,
           LastRow
  <2>4. CASE node \in AttemptNodes /\ UNCHANGED <<cursor, counter>>
    <3>1. /\ counter[cursor] \in Attempts
          /\ counter[cursor] # NextAttempt(cursor)
      BY <1>2, <2>4
         DEF IndInv, TypeOK, GraphOK, ControlOK, Attempts, NextAttempt
    <3>2. ~RecordStageAttempt
      BY <2>4 DEF RecordStageAttempt, AttemptNodes, PlanNodes
    <3> QED
      BY <1>1, <1>2, <2>4, <3>1, <3>2 DEF LastRow
  <2> QED
    BY <2>1, <2>2, <2>3, <2>4
<1>3. ASSUME node' \in RetryNodes
      PROVE  /\ outcome'[cursor'].status = "RETRYABLE_FAILED"
             /\ Counted(cursor, outcome[cursor])'
             /\ RowTells(cursor, counter[cursor], outcome[cursor])'
  <2>1. CASE RecordDone
    <3>1. pend.status = "RETRYABLE_FAILED" /\ node \in ResultNodes
      BY <1>3, <2>1
         DEF RecordDone, RouteAfterRecord, RetryNodes, ResultNodes
    <3>2. Counted(cursor, pend) /\ RowTells(cursor, FiledAttempt(cursor), pend)
      BY <2>1, <3>1 DEF RecordDone, CountsOK, FiledOK
    <3> QED
      BY <2>1, <3>1, <3>2, Recording
         DEF RecordDone, Counted, RowTells, FiledAttempt
  <2>2. CASE ~RecordDone
    <3>1. node \in RetryNodes
      BY <1>3, <2>2, WhereNext DEF Arrivals, RetryNodes, RetryPrepared
    <3>2. UNCHANGED <<cursor, counter, outcome, attemptRow>>
      BY <1>1, <2>2, <3>1, WhoWrites
         DEF Writers, RouteSelect, RouteExhausted, PrepareFails, ExecuteDone,
             RecordStageAttempt, RetryNodes, AttemptNodes, PlanNodes
    <3> QED
      BY <3>1, <3>2 DEF Counted, RowTells
  <2> QED
    BY <2>1, <2>2
<1> QED
  BY <1>2, <1>3

\* A result is filed on the row of the attempt counted last, and only under
\* the key that row has (record_stage_attempt).
LEMMA FiledRow ==
  ASSUME IndInv, RecordStageAttempt, counter[cursor] > 0,
         LastRow(cursor).key \notin {NoKey, pend.key}
  PROVE  FALSE
  BY DEF RecordStageAttempt, AttemptAccepts, FiledAttempt, LastRow

\* A plan is frozen for the attempt after the last one counted, and for no
\* other (prepare_stage_plan).
LEMMA PlansStep ==
  ASSUME IndInv, OrderOK, KeysOK, FiledOK, AttemptsOK, [Next]_vars
  PROVE  PlansOK'
<1> SUFFICES ASSUME NEW s \in Stages, NEW n \in Attempts,
                    planFile'[s][n] # "none", n > counter'[s]
             PROVE  /\ s = cursor' /\ n = counter'[s] + 1
                    /\ outcome'[s].kind # "WAITING_EXTERNAL"
                    /\ \/ node' \in PlanNodes \cup {"prepare_stage_plan"}
                       \/ /\ node' = "record_stage_outcome"
                          /\ counter'[s] > 0 =>
                               LastRow(s)'.key \notin {NoKey, pend'.key}
  BY DEF PlansOK
<1> USE DEF AttemptsOK, PlansOK
<1>1. /\ counter[s] \in Nat /\ counter'[s] \in Nat /\ n \in Nat
      /\ counter'[s] >= counter[s]
  BY CounterStep, ConstantsAssumption DEF Attempts
<1>2. CASE planFile[s][n] = "none"
  <2>1. PrepareFreeze
    BY <1>2, WhoWrites DEF Writers
  <2>2. cursor \in Stages /\ node = "prepare_stage_plan"
    BY <2>1 DEF PrepareFreeze, IndInv, ControlOK, AttemptNodes
  <2>3. s = cursor /\ n = counter[s] + 1
    BY <1>2, <2>1, <2>2
       DEF PrepareFreeze, NextAttempt, IndInv, TypeOK, FilesOK
  <2>4. UNCHANGED graph
    BY <2>1 DEF PrepareFreeze
  <2> QED
    BY <2>2, <2>3, <2>4 DEF IndInv, ControlOK, AttemptNodes
<1>3. CASE planFile[s][n] # "none"
  <2>1. /\ s = cursor /\ n = counter[s] + 1
        /\ outcome[s].kind # "WAITING_EXTERNAL"
        /\ \/ node \in PlanNodes \cup {"prepare_stage_plan"}
           \/ /\ node = "record_stage_outcome"
              /\ counter[s] > 0 => LastRow(s).key \notin {NoKey, pend.key}
    BY <1>1, <1>3
  <2>2. counter'[s] = counter[s] /\ ~PrepareFails /\ ~ExecuteDone
    <3>1. PrepareFails \/ ExecuteDone => counter'[s] = counter[s] + 1
      BY <2>1
         DEF PrepareFails, ExecuteDone, NextAttempt, IndInv, TypeOK, GraphOK
    <3> QED
      BY <1>1, <2>1, <3>1, CounterStep
  <2>3. ~RecordDone
    <3>1. CASE RecordDone
      <4>1. counter[s] > 0
        BY <1>1, <2>1, <2>2, <3>1, Recording DEF FiledAttempt
      <4>2. LastRow(s).key = pend.key
        BY <2>1, <3>1, <4>1
           DEF RecordDone, FiledOK, RowTells, FiledAttempt, LastRow
      <4> QED
        BY <2>1, <3>1, <4>1, <4>2 DEF RecordDone, PlanNodes
    <3> QED
      BY <3>1
  <2>4. /\ UNCHANGED <<cursor, outcome>>
        /\ ~ResumeReconcile /\ ~CancelExternal
    BY <2>1, <2>3, WhoWrites, Polling
       DEF Writers, RouteSelect, RouteExhausted, PlanNodes, WaitingExternal
  <2>5. CASE node' \in PlanNodes \cup {"prepare_stage_plan"}
    BY <2>1, <2>2, <2>4, <2>5
  <2>6. CASE node' \notin PlanNodes \cup {"prepare_stage_plan"}
    <3>1. /\ node' = "record_stage_outcome"
          /\ UNCHANGED <<node, pend>> \/ GateDone
      <4>1. /\ ~RouteSelect /\ ~RouteExhausted /\ ~ValidateInput
            /\ ~ValidateResult /\ ~RetryPrepared /\ ~RetryGate /\ ~ReportDone
        BY <2>1
           DEF RouteSelect, RouteExhausted, ValidateInput, ValidateResult,
               RetryPrepared, RetryGate, ReportDone, PlanNodes
      <4>2. node' \in Nodes
        BY TypeStep DEF TypeOK, GraphOK
      <4> QED
        BY <2>1, <2>2, <2>3, <2>4, <2>6, <4>1, <4>2, WhereNext
           DEF Arrivals, PlanNodes, Nodes
    <3>2. ASSUME counter[s] > 0
          PROVE  LastRow(s)'.key \notin {NoKey, pend'.key}
      <4>1. CASE GateDone
        <5>1. node \in AttemptNodes /\ node' # node /\ node' # "mark_stage_ready"
          BY <2>6, <4>1 DEF GateDone, AttemptNodes, PlanNodes
        <5>2. pend'.key = StartKey(s, counter[s] + 1)
          BY <2>1, <4>1, <5>1 DEF GateDone, Outcome, NextAttempt
        <5>3. LastRow(s).key.attempt = counter[s]
          BY <2>1, <3>2, <5>1 DEF RetriesOK
        <5>4. UNCHANGED attemptRow
          BY <4>1 DEF GateDone
        <5> QED
          BY <1>1, <2>2, <3>2, <5>2, <5>3, <5>4
             DEF LastRow, StartKey, NoKey
      <4>2. CASE UNCHANGED <<node, pend>>
        <5>1. node = "record_stage_outcome"
          BY <3>1, <4>2
        <5>2. LastRow(s).key \notin {NoKey, pend.key}
          BY <2>1, <3>2, <5>1 DEF PlanNodes
        <5>3. UNCHANGED attemptRow
          BY <2>1, <3>2, <5>1, <5>2, FiledRow, WhoWrites
             DEF Writers, PrepareMarkAttempt, ExecuteMarkAttempt
        <5> QED
          BY <2>2, <4>2, <5>2, <5>3 DEF LastRow
      <4> QED
        BY <3>1, <4>1, <4>2
    <3> QED
      BY <2>1, <2>2, <2>4, <3>1, <3>2
  <2> QED
    BY <2>5, <2>6
<1> QED
  BY <1>2, <1>3

\* An attempt is planned or counted only after the one before it failed in a
\* way that may be retried, and that one's row stays (record_stage_outcome).
LEMMA OneByOneStep ==
  ASSUME IndInv, AttemptsOK, [Next]_vars
  PROVE  OneByOne'
<1> SUFFICES ASSUME NEW s \in Stages, NEW n \in Attempts, n > 1,
                    planFile'[s][n] # "none" \/ counter'[s] >= n
             PROVE  attemptRow'[s][n - 1].status = "RETRYABLE_FAILED"
  BY DEF OneByOne
<1> USE DEF AttemptsOK
<1>1. /\ counter[s] \in Nat /\ counter'[s] \in Nat /\ n \in Nat
      /\ n - 1 \in Attempts /\ MaxAttempts \in Nat
  BY CounterStep, ConstantsAssumption DEF Attempts
<1>2. attemptRow[s][n - 1].status = "RETRYABLE_FAILED"
  <2>1. CASE planFile[s][n] # "none" \/ counter[s] >= n
    BY <2>1 DEF OneByOne
  <2>2. CASE planFile[s][n] = "none" /\ counter[s] < n
    <3>1. /\ s = cursor /\ n = counter[s] + 1
          /\ PrepareFreeze \/ PrepareFails \/ ExecuteDone
      <4>1. CASE planFile'[s][n] # "none"
        <5>1. PrepareFreeze
          BY <2>2, <4>1, WhoWrites DEF Writers
        <5>2. cursor \in Stages
          BY <5>1 DEF PrepareFreeze, IndInv, ControlOK, AttemptNodes
        <5> QED
          BY <2>2, <4>1, <5>1, <5>2
             DEF PrepareFreeze, NextAttempt, IndInv, TypeOK, FilesOK
      <4>2. CASE counter'[s] >= n
        BY <1>1, <2>2, <4>2, CounterStep
      <4> QED
        BY <4>1, <4>2
    <3>2. node \in AttemptNodes
      BY <3>1
         DEF PrepareFreeze, PrepareFails, ExecuteDone, AttemptNodes, PlanNodes
    <3> QED
      BY <1>1, <3>1, <3>2 DEF RetriesOK, LastRow
  <2> QED
    BY <1>1, <2>1, <2>2
<1>3. CASE attemptRow'[s][n - 1] = attemptRow[s][n - 1]
  BY <1>2, <1>3
<1>4. CASE attemptRow'[s][n - 1] # attemptRow[s][n - 1]
  <2>1. s = cursor
    BY <1>4, Elsewhere
  <2>2. CASE PrepareMarkAttempt \/ ExecuteMarkAttempt
    <3>1. UNCHANGED <<planFile, counter>> /\ n - 1 = counter[s] + 1
      BY <1>1, <1>4, <2>1, <2>2
         DEF PrepareMarkAttempt, ExecuteMarkAttempt, RecordAttempt,
             NextAttempt, IndInv, TypeOK, TablesOK
    <3> QED
      BY <1>1, <3>1 DEF PlansOK
  <2>3. CASE RecordStageAttempt
    <3>1. UNCHANGED <<planFile, counter>> /\ n - 1 = FiledAttempt(s)
      BY <1>1, <1>4, <2>1, <2>3
         DEF RecordStageAttempt, RecordAttempt, IndInv, TypeOK, TablesOK
    <3>2. n > counter[s] /\ planFile[s][n] # "none"
      BY <1>1, <3>1 DEF FiledAttempt
    <3>3. n = counter[s] + 1
      BY <3>2 DEF PlansOK
    <3>4. counter[s] > 0
      BY <1>1, <3>1, <3>3 DEF FiledAttempt
    <3>5. LastRow(s).key \notin {NoKey, pend.key}
      BY <2>3, <3>2, <3>4 DEF PlansOK, RecordStageAttempt, PlanNodes
    <3> QED
      BY <2>1, <2>3, <3>4, <3>5, FiledRow
  <2> QED
    BY <1>4, <2>2, <2>3, WhoWrites DEF Writers
<1> QED
  BY <1>3, <1>4

-----------------------------------------------------------------------------
(* What is filed.                                                           *)

\* A refused stage is one that may be filed (_blocked_outcome).
LEMMA RefusalsFilable ==
  ASSUME NEW s,
         NEW status \in {"BLOCKED_MISSING_INPUT", "CAPABILITY_UNAVAILABLE",
                         "PERMANENT_FAILED"}
  PROVE  Filable(Refusal(s, status))
  BY DEF Refusal, RefusalKind, Outcome, Filable, Ended

\* Every outcome a node hands on has a status that may be filed, waits only
\* while it runs, and names its user only for a cancellation.
LEMMA OutcomesStep ==
  ASSUME IndInv, OutcomesOK, [Next]_vars
  PROVE  OutcomesOK'
<1> USE DEF OutcomesOK
<1>1. ASSUME node' \in ResultNodes PROVE Filable(pend')
  <2>1. CASE UNCHANGED <<node, pend>>
    BY <1>1, <2>1
  <2>2. CASE RouteSelect
    BY <1>1, <2>2, RefusalsFilable DEF RouteSelect, ResultNodes
  <2>3. CASE ValidateInput
    BY <1>1, <2>3, RefusalsFilable, ConstantsAssumption
       DEF ValidateInput, ResultNodes
  <2>4. CASE PrepareFails
    BY <2>4, ConstantsAssumption DEF PrepareFails, Outcome, Filable, Ended
  <2>5. CASE GateDone \/ RetryGate
    BY <1>1, <2>5
       DEF GateDone, RetryGate, Outcome, Filable, Ended, ResultNodes
  <2>6. CASE ExecuteDone
    BY <2>6 DEF ExecuteDone
  <2>7. CASE ValidateResult
    BY <2>7 DEF ValidateResult, Outcome, Filable, Ended, ResultNodes
  <2>8. CASE ResumeReconcile \/ CancelExternal
    BY <2>8, Polling DEF Filable
  <2> QED
    BY <1>1, <2>1, <2>2, <2>3, <2>4, <2>5, <2>6, <2>7, <2>8, WhereNext
       DEF Arrivals, ResultNodes
<1>2. ASSUME node' = "execute_or_reconcile_stage", step' = 4
      PROVE  Filable(local') /\ local'.why = "none"
  <2>1. CASE ExecuteStart
    <3>1. \/ \E status \in StartStatuses : \E key, ref :
               local' = Outcome(CompletionKind(status), status, key, ref,
                                "none", NoJob)
          \/ \E key, ref, j :
               local' = Outcome("WAITING_EXTERNAL", "RUNNING", key, ref,
                                "none", j)
          \/ \E key, ref :
               local' = Outcome("FAILED", "RETRYABLE_FAILED", key, ref,
                                "none", NoJob)
      BY <2>1, Zenon DEF ExecuteStart
    <3> QED
      BY <3>1, ConstantsAssumption
         DEF Outcome, CompletionKind, Filable, Ended
  <2>2. CASE ~ExecuteStart
    BY <1>2, <2>2, StepByStep DEF Progress, IndInv, TypeOK, ProcessOK
  <2> QED
    BY <2>1, <2>2
<1>3. ASSUME NEW s \in Stages, outcome'[s] # NoOutcome
      PROVE  Filable(outcome'[s])
  <2>1. CASE RecordDone
    BY <1>3, <2>1, Recording DEF RecordDone, ResultNodes
  <2> QED
    BY <1>3, <2>1, WhoWrites DEF Writers
<1> QED
  BY <1>1, <1>2, <1>3

-----------------------------------------------------------------------------
(* The end of a Run.                                                        *)

\* The final status is a function of the request, the outcomes and the last
\* answer to a retry (generate_report).
LEMMA FinalStatusStays ==
  ASSUME UNCHANGED <<level, target, outcome, retryDecision>>
  PROVE  FinalStatus' = FinalStatus
  BY DEF FinalStatus, Refused, HasResult, ResumableBlock, RequiredFailure,
         Required

\* Where the cursor is past the last stage, what the final status is read
\* from no longer changes.
LEMMA AtTheEnd ==
  ASSUME IndInv, OrderOK, cursor = 5, [Next]_vars
  PROVE  /\ node \in {"generate_report", "END"} /\ cursor' = 5
         /\ UNCHANGED <<outcome, retryDecision, starts, planFile, stageRow,
                        attemptRow, operations, jobRow, approval>>
         /\ FinalStatus' = FinalStatus
<1>1. node \in {"generate_report", "END"}
  BY DEF OrderOK
<1>2. UNCHANGED <<level, target, cursor, outcome, retryDecision, starts,
                  planFile>>
  BY <1>1, WhoWrites
     DEF Writers, RouteSelect, RouteExhausted, RecordDone, RetryPrepared,
         RetryGate, ExecuteStart, PrepareFreeze
<1>3. UNCHANGED <<operations, jobRow, approval>>
  BY <1>1, WhoWrites
     DEF Writers, RecordLedger, RecordJob, ApprovalEnsure, GateDecide
<1>4. UNCHANGED <<stageRow, attemptRow>>
  BY <1>1, WhoWrites
     DEF Writers, StageMark, ValidateMarkStage, ApprovalMarkStage,
         ReadyMarkStage, ExecuteMarkStage, RecordStage, PrepareMarkAttempt,
         ExecuteMarkAttempt, RecordStageAttempt
<1> QED
  BY <1>1, <1>2, <1>3, <1>4, FinalStatusStays

\* A declined retry is filed as a cancellation, and a Run that ended keeps
\* its status and its report.
LEMMA FinalStep ==
  ASSUME IndInv, OrderOK, OutcomesOK, FinalOK, [Next]_vars
  PROVE  FinalOK'
<1> USE DEF FinalOK
<1>0. cursor \in 0 .. 5
  BY DEF IndInv, TypeOK, GraphOK
<1>1. ASSUME retryDecision' = "cancel"
      PROVE  \/ \E s \in Stages : s < cursor' /\ outcome'[s].status = "CANCELLED"
             \/ /\ node' = "route_next_stage" /\ cursor' \in Stages
                /\ outcome'[cursor'].status = "CANCELLED"
             \/ /\ node' = "record_stage_outcome" /\ pend'.status = "CANCELLED"
                /\ outcome'[cursor'].kind # "WAITING_EXTERNAL"
  <2>1. CASE RetryGate
    BY <1>1, <2>1
       DEF RetryGate, Outcome, IndInv, TypeOK, ProcessOK, ControlOK,
           AttemptNodes, RetryNodes
  <2>2. CASE RetryPrepared
    BY <1>1, <2>2 DEF RetryPrepared
  <2>3. CASE ~RetryGate /\ ~RetryPrepared
    <3>1. retryDecision = "cancel"
      BY <1>1, <2>3, WhoWrites DEF Writers
    <3>2. ASSUME NEW s \in Stages, s < cursor,
                 outcome[s].status = "CANCELLED"
          PROVE  s < cursor' /\ outcome'[s].status = "CANCELLED"
      <4>1. cursor' >= cursor
        <5>1. CASE RouteSelect
          BY <1>0, <5>1, NextRouteRemains DEF RouteSelect, Stages
        <5>2. CASE RouteExhausted
          BY <1>0, <5>2 DEF RouteExhausted
        <5> QED
          BY <1>0, <5>1, <5>2, WhoWrites DEF Writers
      <4>2. cursor' \in 0 .. 5
        BY TypeStep DEF TypeOK, GraphOK
      <4> QED
        BY <1>0, <3>2, <4>1, <4>2, Elsewhere DEF Stages
    <3>3. CASE /\ node = "route_next_stage" /\ cursor \in Stages
               /\ outcome[cursor].status = "CANCELLED"
      <4>1. outcome'[cursor] = outcome[cursor]
        BY <3>3, Elsewhere
      <4>2. CASE RouteSelect \/ RouteExhausted
        <5>1. cursor' > cursor
          BY <3>3, <4>2, NextRouteRemains
             DEF RouteSelect, RouteExhausted, Stages
        <5> QED
          BY <3>3, <4>1, <5>1
      <4>3. CASE ~RouteSelect /\ ~RouteExhausted
        <5>1. UNCHANGED cursor
          BY <4>3, WhoWrites DEF Writers
        <5>2. node' = node
          <6>1. ~ResumeReconcile /\ ~CancelExternal
            BY <3>3, Polling DEF OrderOK, Settled, WaitingExternal
          <6>2. node' \in Nodes
            BY TypeStep DEF TypeOK, GraphOK
          <6> QED
            BY <3>3, <4>3, <6>1, <6>2, WhereNext
               DEF Arrivals, Nodes, RecordDone, RetryGate, ValidateInput,
                   PrepareDone, DecideApproval, ApprovalPrepared, GateDone,
                   ReadyDone, ExecuteDone, PrepareFails, ValidateResult,
                   RetryPrepared, ReportDone
        <5> QED
          BY <3>3, <4>1, <5>1, <5>2
      <4> QED
        BY <4>2, <4>3
    <3>4. CASE /\ node = "record_stage_outcome" /\ pend.status = "CANCELLED"
               /\ outcome[cursor].kind # "WAITING_EXTERNAL"
      <4>1. CASE RecordDone
        <5>1. Filable(pend)
          BY <3>4 DEF OutcomesOK, ResultNodes
        <5> QED
          BY <3>4, <4>1, <5>1, Recording
             DEF RecordDone, RouteAfterRecord, Filable
      <4>2. CASE ~RecordDone
        <5>1. ~ResumeReconcile /\ ~CancelExternal
          BY <3>4, Polling DEF WaitingExternal
        <5>2. UNCHANGED <<cursor, outcome>>
          BY <3>4, <4>2, WhoWrites DEF Writers, RouteSelect, RouteExhausted
        <5>3. UNCHANGED <<node, pend>>
          <6>1. node' \in Nodes
            BY TypeStep DEF TypeOK, GraphOK
          <6>2. ~MakesOutcome
            BY <3>4, <5>1
               DEF MakesOutcome, RouteSelect, ValidateInput, PrepareFails,
                   GateDone, ExecuteDone, ValidateResult, RetryGate
          <6>3. UNCHANGED node
            BY <3>4, <4>2, <5>1, <6>1, WhereNext
               DEF Arrivals, Nodes, RouteSelect, RetryGate, ValidateInput,
                   PrepareDone, DecideApproval, ApprovalPrepared, GateDone,
                   ReadyDone, ExecuteDone, PrepareFails, ValidateResult,
                   RetryPrepared, RouteExhausted, ReportDone
          <6> QED
            BY <3>4, <6>2, <6>3, WhereNext DEF Arrivals, MakesOutcome
        <5> QED
          BY <3>4, <5>2, <5>3
      <4> QED
        BY <4>1, <4>2
    <3> QED
      BY <3>1, <3>2, <3>3, <3>4
  <2> QED
    BY <2>1, <2>2, <2>3
<1>2. ASSUME node' = "generate_report", step' > 0
      PROVE  report' = FinalStatus'
  <2>1. node = "generate_report"
    BY <1>2, WhereNext DEF Arrivals
  <2>2. FinalStatus' = FinalStatus
    BY <2>1, AtTheEnd DEF OrderOK
  <2>3. CASE UNCHANGED <<step, files>>
    BY <1>2, <2>1, <2>2, <2>3
  <2>4. CASE ReportWrite
    BY <2>2, <2>4 DEF ReportWrite
  <2>5. CASE step = 1 /\ ReportMarkRun
    BY <2>1, <2>2, <2>5 DEF ReportMarkRun
  <2> QED
    BY <1>2, <2>1, <2>3, <2>4, <2>5, StepByStep DEF Progress
<1>3. ASSUME run' \in TerminalRun
      PROVE  cursor' = 5 /\ run' = FinalStatus' /\ report' = run'
  <2>1. CASE ReportMarkRun
    <3>1. /\ cursor = 5 /\ run' = FinalStatus /\ report' = report
          /\ report = FinalStatus
      BY <2>1 DEF ReportMarkRun, OrderOK
    <3> QED
      BY <3>1, AtTheEnd
  <2>2. CASE ~ReportMarkRun
    <3>1. UNCHANGED run
      BY <1>3, <2>2, WhoWrites DEF Writers
    <3>2. cursor = 5 /\ run = FinalStatus /\ report = run
      BY <1>3, <3>1
    <3>3. report' = report
      BY <3>2, WhoWrites DEF Writers, ReportWrite
    <3> QED
      BY <3>1, <3>2, <3>3, AtTheEnd
  <2> QED
    BY <2>1, <2>2
<1> QED
  BY <1>1, <1>2, <1>3

-----------------------------------------------------------------------------
(* The theorems.                                                            *)

\* A Run that has just left its plan has no history yet.
LEMMA HistoryInit == Init => HistoryOK
<1> SUFFICES ASSUME Init PROVE HistoryOK
  OBVIOUS
<1>1. OrderOK /\ KeysOK /\ OutcomesOK
  BY DEF Init, OrderOK, KeysOK, OutcomesOK, ResultNodes, Stages
<1>2. FiledOK
  BY DEF Init, FiledOK, LedgersAgree, Stages
<1>3. AttemptsOK
  BY DEF Init, AttemptsOK, OneByOne, PlansOK, RetriesOK, CountsOK,
         AttemptNodes, PlanNodes, RetryNodes, ResultNodes, NoOutcome, Attempts
<1>4. FinalOK
  BY DEF Init, FinalOK, TerminalRun
<1> QED
  BY <1>1, <1>2, <1>3, <1>4 DEF HistoryOK

\* Every step keeps the history true.
LEMMA HistoryStep == IndInv /\ HistoryOK /\ [Next]_vars => HistoryOK'
  BY OrderStep, KeysStep, OutcomesStep, FiledStep, CountsStep, RetriesStep,
     PlansStep, OneByOneStep, FinalStep
     DEF HistoryOK, AttemptsOK

\* The invariant of the history holds of every reachable state.
LEMMA History == Spec => [](IndInv /\ HistoryOK)
<1>1. Spec => []IndInv
  BY Inductive
<1> QED
  BY <1>1, HistoryInit, HistoryStep, PTL DEF Spec

\* No stage is started while an earlier stage of the plan waits for a job or
\* may still be retried: route_next_stage leaves a stage behind only when it
\* is settled, whatever crashes and is resumed in between.
THEOREM StagesInOrder == Spec => []EarlierStagesSettled
<1>1. IndInv /\ HistoryOK => EarlierStagesSettled
  <2> SUFFICES ASSUME IndInv, OrderOK, NEW s \in Stages, NEW t \in Stages,
                      NEW n \in Attempts,
                      <<s, n>> \in starts, t < s, Required(t)
               PROVE  Settled(t)
    BY DEF HistoryOK, EarlierStagesSettled, Settled
  <2>1. s <= cursor /\ cursor \in 0 .. 5
    BY DEF OrderOK, IndInv, TypeOK, GraphOK
  <2> QED
    BY <2>1 DEF OrderOK, Stages
<1> QED
  BY <1>1, History, PTL

\* No attempt is planned unless the durable row of the one before it says it
\* failed in a way that may be retried (retry_gate, prepare_stage_plan).
THEOREM RetriesFollowFailures == Spec => []RetryFollowsFailure
<1>1. IndInv /\ HistoryOK => RetryFollowsFailure
  BY DEF HistoryOK, AttemptsOK, OneByOne, RetryFollowsFailure
<1> QED
  BY <1>1, History, PTL

\* A stage the cursor has left behind has one story in its row, its last
\* attempt's row, the operation ledger, the job row and the checkpoint, each
\* of which was committed on its own (record_stage_outcome).
THEOREM LedgersInAgreement == Spec => []LedgersAgree
<1>1. IndInv /\ HistoryOK => LedgersAgree
  BY DEF HistoryOK, FiledOK
<1> QED
  BY <1>1, History, PTL

\* A Run that SUCCEEDED has a succeeded row for every required stage, one that
\* is CANCELLED a cancelled row, and the report says what the Run says
\* (generate_report).
THEOREM FinalStatusEarned == Spec => []FinalStatusIsEarned
<1>1. IndInv /\ HistoryOK => FinalStatusIsEarned
  <2> SUFFICES ASSUME IndInv, HistoryOK, run \in TerminalRun
               PROVE  /\ report = run
                      /\ run = "SUCCEEDED" => \A s \in Stages :
                           Required(s) => stageRow[s].status = "SUCCEEDED"
                      /\ run = "CANCELLED" => \E s \in Stages :
                           stageRow[s].status = "CANCELLED"
    BY DEF FinalStatusIsEarned, TerminalRun
  <2>1. cursor = 5 /\ run = FinalStatus /\ report = run
    BY DEF HistoryOK, FinalOK
  <2>2. ASSUME NEW s \in Stages, outcome[s] # NoOutcome
        PROVE  stageRow[s].status = outcome[s].status
    BY <2>1, <2>2 DEF HistoryOK, FiledOK, LedgersAgree, Agrees, Stages
  <2>3. ASSUME run = "SUCCEEDED", NEW s \in Stages, Required(s)
        PROVE  stageRow[s].status = "SUCCEEDED"
    <3>1. outcome[s] # NoOutcome
      BY <2>1, <2>3 DEF HistoryOK, OrderOK, Settled, Stages
    <3>2. /\ outcome[s].status \in Useful
          /\ outcome[s].status # "PARTIAL"
      BY <2>1, <2>3, <3>1 DEF FinalStatus, RequiredFailure
    <3> QED
      BY <2>2, <3>1, <3>2 DEF Useful
  <2>4. ASSUME run = "CANCELLED"
        PROVE  \E s \in Stages : stageRow[s].status = "CANCELLED"
    <3>1. \E s \in Stages : outcome[s].status = "CANCELLED"
      <4>1. CASE retryDecision = "cancel"
        <5>1. node \in {"generate_report", "END"}
          BY <2>1 DEF HistoryOK, OrderOK
        <5> QED
          BY <4>1, <5>1 DEF HistoryOK, FinalOK
      <4>2. CASE retryDecision # "cancel"
        <5>1. \E s \in Stages : outcome[s].why = "user"
          BY <2>1, <2>4, <4>2 DEF FinalStatus, Refused
        <5> QED
          BY <5>1 DEF HistoryOK, OutcomesOK, Filable, NoOutcome
      <4> QED
        BY <4>1, <4>2
    <3> QED
      BY <2>2, <3>1 DEF NoOutcome
  <2> QED
    BY <2>1, <2>3, <2>4
<1> QED
  BY <1>1, History, PTL

\* Nothing moves in a Run that ended: no command, replayed node or late
\* backend answer changes a row, an approval or the report, or starts a runner.
THEOREM EndIsFinal == Spec => TerminalIsFinal
<1>1. ASSUME IndInv, HistoryOK, [Next]_vars
      PROVE  [(run \in TerminalRun) =>
                UNCHANGED <<tables, planFile, report, starts>>]_vars
  <2> SUFFICES ASSUME run \in TerminalRun
               PROVE  UNCHANGED <<tables, planFile, report, starts>>
    OBVIOUS
  <2>1. cursor = 5 /\ run = FinalStatus /\ report = run
    BY <1>1 DEF HistoryOK, FinalOK
  <2>2. /\ node \in {"generate_report", "END"}
        /\ UNCHANGED <<starts, planFile, stageRow, attemptRow, operations,
                       jobRow, approval>>
    BY <1>1, <2>1, AtTheEnd DEF HistoryOK
  <2>3. UNCHANGED report
    BY <1>1, <2>1, WhoWrites DEF Writers, ReportWrite
  <2>4. UNCHANGED run
    <3>1. CASE ReportMarkRun
      BY <2>1, <3>1 DEF ReportMarkRun
    <3> QED
      BY <1>1, <2>2, <3>1, WhoWrites DEF Writers
  <2> QED
    BY <2>2, <2>3, <2>4
<1> QED
  BY <1>1, History, PTL DEF Spec, TerminalIsFinal

(***************************************************************************)
(* The promise.                                                            *)
(***************************************************************************)

\* Only a gated plan is asked about, and only its user decides it
\* (decide_stage_approval, stage_approval_gate).
LEMMA AskedStep ==
  ASSUME IndInv, AskedOK, [Next]_vars
  PROVE  AskedOK'
<1> USE DEF AskedOK
<1>1. ASSUME NEW s \in Stages, NEW n \in Attempts
      PROVE  /\ planFile[s][n] # "none" => planFile'[s][n] = planFile[s][n]
             /\ Gated(s, n) /\ planFile[s][n] # "none" => Gated(s, n)'
  <2>1. planFile[s][n] # "none" => planFile'[s][n] = planFile[s][n]
    BY WhoWrites DEF Writers, PrepareFreeze, IndInv, TypeOK, FilesOK
  <2> QED
    BY <2>1 DEF Gated
<1>2. ASSUME NEW s \in Stages, NEW n \in Attempts
      PROVE  /\ approval'[s][n] \in {"NONE", "PENDING", "APPROVED", "REJECTED"}
             /\ approval'[s][n] # "NONE" =>
                  Gated(s, n)' /\ planFile'[s][n] # "none"
  <2>1. CASE approval'[s][n] = approval[s][n]
    BY <1>1, <2>1
  <2>2. CASE approval'[s][n] # approval[s][n]
    <3>1. /\ ApprovalEnsure \/ GateDecide
          /\ cursor \in Stages /\ prepared \in Attempts
          /\ node \in {"prepare_stage_approval", "stage_approval_gate"}
      BY <2>2, WhoWrites, AttemptTypes
         DEF Writers, ApprovalEnsure, GateDecide, IndInv, ControlOK,
             AttemptNodes, PlanNodes
    <3>2. /\ s = cursor /\ n = prepared
          /\ approval'[s][n] \in {"PENDING", "APPROVED", "REJECTED"}
      BY <2>2, <3>1
         DEF ApprovalEnsure, GateDecide, Decided, IndInv, TypeOK, TablesOK
    <3>3. Gated(s, n) /\ planFile[s][n] # "none"
      BY <3>1, <3>2 DEF IndInv, ApprovalOK, PlanNodes
    <3> QED
      BY <1>1, <3>2, <3>3
  <2> QED
    BY <2>1, <2>2
<1>3. ASSUME node' \in {"prepare_stage_approval", "stage_approval_gate"}
      PROVE  Gated(cursor, prepared)'
  <2>1. /\ UNCHANGED <<cursor, prepared, planFile>>
        /\ UNCHANGED node \/ DecideApproval \/ ApprovalPrepared
    BY <1>3, WhoWrites, WhereNext
       DEF Writers, Arrivals, RouteSelect, RouteExhausted, PrepareDone,
           PrepareFreeze, DecideApproval, ApprovalPrepared
  <2>2. Gated(cursor, prepared)
    BY <1>3, <2>1
       DEF DecideApproval, RouteAfterDecision, ApprovalPrepared
  <2> QED
    BY <2>1, <2>2 DEF Gated
<1>4. ASSUME node' = "stage_approval_gate", step' > 0, answer' = "reject"
      PROVE  approval'[cursor'][prepared'] = "REJECTED"
  <2>1. CASE GateDecide
    <3>1. node = "stage_approval_gate" /\ UNCHANGED <<cursor, prepared>>
      BY <2>1 DEF GateDecide
    <3>2. /\ cursor \in Stages /\ prepared = NextAttempt(cursor)
          /\ NextAttempt(cursor) \in Attempts
      BY <3>1, AttemptTypes DEF IndInv, ControlOK, AttemptNodes, PlanNodes
    <3>3. /\ approval' = [approval EXCEPT ![cursor][prepared] = Decided]
          /\ UNCHANGED answer
      BY <1>4, <2>1 DEF GateDecide
    <3> QED
      BY <1>4, <3>1, <3>2, <3>3 DEF Decided, IndInv, TypeOK, TablesOK
  <2>2. CASE ~GateDecide
    BY <1>4, <2>2, StepByStep DEF Progress
  <2> QED
    BY <2>1, <2>2
<1> QED
  BY <1>2, <1>3, <1>4

\* An attempt ends only where its end is filed, and is counted then
\* (record_stage_outcome).
LEMMA OpenStep ==
  ASSUME IndInv, HistoryOK, OpenOK, [Next]_vars
  PROVE  OpenOK'
<1> SUFFICES ASSUME NEW s \in Stages, NEW n \in Attempts
             PROVE  /\ attemptRow'[s][n].status \in
                         Open \cup Ended \cup {"RETRYABLE_FAILED"}
                    /\ attemptRow'[s][n].key = NoKey =>
                         attemptRow'[s][n].status = "NONE"
                    /\ n > counter'[s] =>
                         \/ attemptRow'[s][n].status \in Open
                         \/ /\ s = cursor' /\ node' = "record_stage_outcome"
                            /\ n = FiledAttempt(s)'
  BY DEF OpenOK
<1>1. /\ counter[s] \in Nat /\ counter'[s] \in Nat /\ n \in Nat
      /\ counter'[s] >= counter[s]
  BY CounterStep, ConstantsAssumption DEF Attempts
<1>2. CASE attemptRow'[s][n] # attemptRow[s][n]
  <2>1. s = cursor
    BY <1>2, Elsewhere
  <2>2. CASE PrepareMarkAttempt \/ ExecuteMarkAttempt
    <3>1. /\ StartKey(cursor, NextAttempt(cursor)) \in Keys
      <4>1. node \in AttemptNodes
        BY <2>2
           DEF PrepareMarkAttempt, ExecuteMarkAttempt, AttemptNodes, PlanNodes
      <4> QED
        BY <2>1, <4>1, AttemptTypes, KeyTypes DEF Attempts
    <3>2. /\ attemptRow'[s][n].key = StartKey(cursor, NextAttempt(cursor))
          /\ attemptRow'[s][n].status \in {"READY", "RUNNING"}
      BY <1>2, <2>1, <2>2
         DEF PrepareMarkAttempt, ExecuteMarkAttempt, RecordAttempt, IndInv,
             TypeOK, TablesOK
    <3> QED
      BY <3>1, <3>2 DEF Open, Keys, NoKey, Stages
  <2>3. CASE RecordStageAttempt
    <3>1. pend \in Outcomes
      BY <2>3 DEF RecordStageAttempt, IndInv, ControlOK, ResultNodes
    <3>2. /\ attemptRow'[s][n].key = pend.key /\ n = FiledAttempt(s)
          /\ attemptRow'[s][n].status = pend.status
          /\ UNCHANGED graph /\ node = "record_stage_outcome"
      BY <1>2, <2>1, <2>3
         DEF RecordStageAttempt, RecordAttempt, IndInv, TypeOK, TablesOK
    <3>3. pend.key # NoKey
      BY <3>1 DEF Outcomes, Keys, NoKey, Stages
    <3>4. Filable(pend)
      BY <3>2 DEF HistoryOK, OutcomesOK, ResultNodes
    <3>5. s = cursor' /\ node' = "record_stage_outcome" /\ n = FiledAttempt(s)'
      BY <2>1, <3>2 DEF FiledAttempt
    <3>6. pend.status \in Ended \cup {"RUNNING", "RETRYABLE_FAILED"}
      BY <3>4 DEF Filable
    <3> QED
      BY <3>2, <3>3, <3>5, <3>6 DEF Open
  <2> QED
    BY <1>2, <2>2, <2>3, WhoWrites DEF Writers
<1>3. CASE attemptRow'[s][n] = attemptRow[s][n]
  <2>1. CASE n > counter'[s] /\ attemptRow[s][n].status \notin Open
    <3>1. /\ s = cursor /\ node = "record_stage_outcome"
          /\ n = FiledAttempt(s) /\ n > counter[s]
      BY <1>1, <2>1 DEF OpenOK
    <3>2. counter[s] = 0 /\ n = 1
      BY <1>1, <3>1 DEF FiledAttempt
    <3>3. counter'[s] = 0
      BY <1>1, <2>1, <3>2
    <3>4. ~RecordDone
      BY <3>1, <3>2, <3>3, Recording DEF FiledAttempt
    <3>5. ~ResumeReconcile /\ ~CancelExternal
      BY <3>1, <3>2, Polling
         DEF WaitingExternal, HistoryOK, AttemptsOK, CountsOK, Counted
    <3>6. UNCHANGED cursor
      BY <3>1, WhoWrites DEF Writers, RouteSelect, RouteExhausted
    <3>7. UNCHANGED node
      <4>1. node' \in Nodes
        BY TypeStep DEF TypeOK, GraphOK
      <4> QED
        BY <3>1, <3>4, <3>5, <4>1, WhereNext
           DEF Arrivals, Nodes, RouteSelect, RetryGate, ValidateInput,
               PrepareDone, DecideApproval, ApprovalPrepared, GateDone,
               ReadyDone, ExecuteDone, PrepareFails, ValidateResult,
               RetryPrepared, RouteExhausted, ReportDone
    <3> QED
      BY <1>3, <3>1, <3>2, <3>3, <3>6, <3>7 DEF FiledAttempt, OpenOK
  <2> QED
    BY <1>1, <1>3, <2>1 DEF OpenOK
<1> QED
  BY <1>2, <1>3

\* What is filed ends an attempt that was started, never planned, refused or
\* failed before (record_stage_outcome and every way that leads to it).
LEMMA StartedStep ==
  ASSUME IndInv, HistoryOK, AskedOK, StartedOK, [Next]_vars
  PROVE  StartedOK'
<1> USE DEF StartedOK
<1>1. starts \subseteq starts'
  BY WhoWrites DEF Writers, ExecuteStart
<1>2. ASSUME node' = "execute_or_reconcile_stage", step' = 4
      PROVE  <<cursor', prepared'>> \in starts'
  <2>1. CASE ExecuteStart
    <3>1. prepared = NextAttempt(cursor)
      BY <2>1 DEF ExecuteStart, IndInv, ControlOK, PlanNodes
    <3>2. starts' = starts \cup {<<cursor, NextAttempt(cursor)>>}
      BY <2>1 DEF ExecuteStart
    <3>3. UNCHANGED <<cursor, prepared>>
      BY <2>1 DEF ExecuteStart
    <3> QED
      BY <3>1, <3>2, <3>3
  <2>2. CASE ~ExecuteStart
    <3>1. /\ UNCHANGED <<step, node, cursor, prepared, starts>>
      BY <1>2, <2>2, StepByStep DEF Progress, IndInv, TypeOK, ProcessOK
    <3> QED
      BY <1>2, <3>1
  <2> QED
    BY <2>1, <2>2
<1>3. ASSUME NEW s \in Stages, outcome'[s].kind = "WAITING_EXTERNAL"
      PROVE  <<s, counter'[s]>> \in starts'
  <2>1. CASE RecordDone /\ s = cursor
    <3>1. /\ pend.kind = "WAITING_EXTERNAL" /\ node \in ResultNodes
          /\ counter'[s] = FiledAttempt(s)
      BY <1>3, <2>1, Recording DEF RecordDone, ResultNodes
    <3>2. pend.status = "RUNNING"
      BY <3>1 DEF HistoryOK, OutcomesOK, Filable
    <3> QED
      BY <1>1, <2>1, <3>1, <3>2
  <2>2. CASE ~(RecordDone /\ s = cursor)
    <3>1. outcome'[s] = outcome[s]
      BY <2>2, Recording, WhoWrites DEF Writers
    <3>2. ~(s = cursor /\ (PrepareFails \/ ExecuteDone))
      BY <1>3, <3>1
         DEF PrepareFails, ExecuteDone, IndInv, ControlOK, AttemptNodes,
             PlanNodes
    <3> QED
      BY <1>1, <1>3, <2>2, <3>1, <3>2, CounterStep
  <2> QED
    BY <2>1, <2>2
<1> DEFINE Ends(c, n, o) ==
             LET started == <<c, n>> \in starts
                 unplanned == planFile[c][n] = "none"
             IN /\ o.status = "RUNNING" => started
                /\ o.status = "RETRYABLE_FAILED" => started \/ unplanned
                /\ \/ started \/ unplanned \/ approval[c][n] = "REJECTED"
                   \/ attemptRow[c][n].status \notin Open
<1>4. node \in ResultNodes => Ends(cursor, FiledAttempt(cursor), pend)
  OBVIOUS
<1>5. ASSUME node' \in ResultNodes
      PROVE  Ends(cursor, FiledAttempt(cursor), pend)'
  <2>1. CASE UNCHANGED <<node, pend>>
    <3>1. UNCHANGED <<cursor, counter, planFile, approval, starts>>
      BY <1>5, <2>1, WhoWrites
         DEF Writers, RouteSelect, RouteExhausted, PrepareFails, ExecuteDone,
             RecordDone, RouteAfterRecord, PrepareFreeze, ApprovalEnsure,
             GateDecide, ExecuteStart, ResultNodes
    <3>2. UNCHANGED attemptRow \/ RecordStageAttempt
      BY <1>5, <2>1, WhoWrites
         DEF Writers, PrepareMarkAttempt, ExecuteMarkAttempt, ResultNodes
    <3>3. /\ cursor \in Stages /\ FiledAttempt(cursor) \in Attempts
          /\ Filable(pend) /\ Ends(cursor, FiledAttempt(cursor), pend)
      BY <1>4, <1>5, <2>1, AttemptTypes
         DEF IndInv, ControlOK, HistoryOK, OutcomesOK
    <3>4. CASE UNCHANGED attemptRow
      BY <2>1, <3>1, <3>3, <3>4 DEF FiledAttempt
    <3>5. CASE RecordStageAttempt
      <4>1. attemptRow'[cursor][FiledAttempt(cursor)].status = pend.status
        BY <3>3, <3>5
           DEF RecordStageAttempt, RecordAttempt, IndInv, TypeOK, TablesOK
      <4> QED
        BY <2>1, <3>1, <3>3, <4>1 DEF FiledAttempt, Filable, Open, Ended
    <3> QED
      BY <3>2, <3>4, <3>5
  <2>2. CASE RouteSelect
    <3>1. /\ cursor' \in Stages /\ cursor' > cursor /\ counter[cursor'] = 0
          /\ UNCHANGED <<planFile, counter>> /\ 1 \in Attempts
      BY <2>2, NextRouteRemains, ConstantsAssumption
         DEF RouteSelect, IndInv, ControlOK, Remaining, Attempts
    <3>2. planFile[cursor'][1] = "none"
      BY <3>1 DEF HistoryOK, AttemptsOK, PlansOK, IndInv, TypeOK, GraphOK
    <3>3. pend'.status \notin {"RUNNING", "RETRYABLE_FAILED"}
      BY <2>2 DEF RouteSelect, Refusal, Outcome, NoOutcome
    <3> QED
      BY <3>1, <3>2, <3>3 DEF FiledAttempt
  <2>3. CASE ValidateInput
    <3>1. /\ cursor \in Stages /\ node = "validate_stage_input"
          /\ counter[cursor] \in Nat /\ 1 \in Attempts
          /\ UNCHANGED <<cursor, counter, planFile, attemptRow>>
      BY <2>3, ConstantsAssumption
         DEF ValidateInput, IndInv, ControlOK, TypeOK, GraphOK, AttemptNodes,
             Attempts
    <3>2. pend'.status \notin {"RUNNING", "RETRYABLE_FAILED"}
      <4>1. \/ pend' = NoOutcome
            \/ \E status : /\ pend' = Refusal(cursor, status)
                           /\ status \in {"BLOCKED_MISSING_INPUT",
                                          "CAPABILITY_UNAVAILABLE",
                                          "PERMANENT_FAILED"}
        BY <2>3, ConstantsAssumption DEF ValidateInput
      <4> QED
        BY <4>1 DEF Refusal, Outcome, NoOutcome
    <3>3. CASE counter[cursor] = 0
      <4>1. planFile[cursor][1] = "none"
        BY <3>1, <3>3 DEF HistoryOK, AttemptsOK, PlansOK, PlanNodes
      <4> QED
        BY <3>1, <3>2, <3>3, <4>1 DEF FiledAttempt
    <3>4. CASE counter[cursor] > 0
      <4>1. attemptRow[cursor][counter[cursor]].status = "RETRYABLE_FAILED"
        BY <3>1, <3>4
           DEF HistoryOK, AttemptsOK, RetriesOK, LastRow, AttemptNodes
      <4> QED
        BY <3>1, <3>2, <3>4, <4>1 DEF FiledAttempt, Open
    <3> QED
      BY <3>1, <3>3, <3>4
  <2>4. CASE PrepareFails
    <3>1. /\ cursor \in Stages /\ NextAttempt(cursor) \in Attempts
          /\ planFile[cursor][NextAttempt(cursor)] = "none"
          /\ UNCHANGED <<cursor, planFile>>
      BY <2>4, AttemptTypes
         DEF PrepareFails, IndInv, ControlOK, AttemptNodes
    <3>2. counter'[cursor] = NextAttempt(cursor)
      BY <2>4, <3>1 DEF PrepareFails, IndInv, TypeOK, GraphOK
    <3>3. pend'.status # "RUNNING"
      BY <2>4, ConstantsAssumption DEF PrepareFails, Outcome
    <3> QED
      BY <3>1, <3>2, <3>3 DEF FiledAttempt, Attempts
  <2>5. CASE GateDone
    <3>1. /\ answer = "reject" /\ pend'.status = "CANCELLED"
          /\ node = "stage_approval_gate" /\ step > 0
          /\ UNCHANGED <<cursor, counter, approval, attemptRow>>
      BY <1>5, <2>5
         DEF GateDone, Outcome, ResultNodes, IndInv, ControlOK, TypeOK,
             ProcessOK
    <3>2. /\ cursor \in Stages /\ prepared = NextAttempt(cursor)
          /\ counter[cursor] \in Nat
      BY <3>1 DEF IndInv, ControlOK, TypeOK, GraphOK, AttemptNodes, PlanNodes
    <3>3. CASE counter[cursor] = 0
      <4>1. approval[cursor][1] = "REJECTED"
        BY <3>1, <3>2, <3>3 DEF AskedOK, NextAttempt
      <4> QED
        BY <3>1, <3>3, <4>1 DEF FiledAttempt
    <3>4. CASE counter[cursor] > 0
      <4>1. attemptRow[cursor][counter[cursor]].status = "RETRYABLE_FAILED"
        BY <3>1, <3>4
           DEF HistoryOK, AttemptsOK, RetriesOK, LastRow, AttemptNodes,
               PlanNodes
      <4> QED
        BY <3>1, <3>4, <4>1 DEF FiledAttempt, Open
    <3> QED
      BY <3>2, <3>3, <3>4
  <2>6. CASE ExecuteDone
    <3>1. /\ cursor \in Stages /\ NextAttempt(cursor) \in Attempts
          /\ prepared = NextAttempt(cursor)
          /\ <<cursor, prepared>> \in starts /\ UNCHANGED <<cursor, starts>>
      BY <2>6, AttemptTypes
         DEF ExecuteDone, IndInv, ControlOK, AttemptNodes, PlanNodes
    <3>2. counter'[cursor] = NextAttempt(cursor)
      BY <2>6, <3>1 DEF ExecuteDone, IndInv, TypeOK, GraphOK
    <3> QED
      BY <3>1, <3>2 DEF FiledAttempt, Attempts
  <2>7. CASE ValidateResult
    <3>1. /\ node \in ResultNodes
          /\ UNCHANGED <<cursor, counter, approval, attemptRow, planFile,
                         starts>>
          /\ UNCHANGED pend \/ pend'.status = "PERMANENT_FAILED"
      BY <2>7 DEF ValidateResult, Outcome, ResultNodes
    <3> QED
      BY <1>4, <3>1 DEF FiledAttempt
  <2>8. CASE RetryGate
    <3>1. /\ pend'.status = "CANCELLED" /\ node \in RetryNodes
          /\ UNCHANGED <<cursor, counter, attemptRow>>
      BY <1>5, <2>8 DEF RetryGate, Outcome, ResultNodes, RetryNodes
    <3>2. /\ counter[cursor] > 0
          /\ attemptRow[cursor][counter[cursor]].status = "RETRYABLE_FAILED"
      BY <3>1 DEF HistoryOK, AttemptsOK, RetriesOK, Counted, RowTells
    <3> QED
      BY <3>1, <3>2 DEF FiledAttempt, Open
  <2>9. CASE ResumeReconcile \/ CancelExternal
    <3>1. UNCHANGED <<cursor, counter, starts>>
      BY <2>9 DEF ResumeReconcile, CancelExternal
    <3>2. /\ cursor \in Stages /\ <<cursor, counter[cursor]>> \in starts
          /\ counter[cursor] > 0
      BY <2>9, Polling
         DEF WaitingExternal, HistoryOK, AttemptsOK, CountsOK, Counted
    <3> QED
      BY <3>1, <3>2 DEF FiledAttempt
  <2> QED
    BY <1>5, <2>1, <2>2, <2>3, <2>4, <2>5, <2>6, <2>7, <2>8, <2>9, WhereNext
       DEF Arrivals, ResultNodes
<1> QED
  BY <1>2, <1>3, <1>5

(* The phases are read from these facts.                                    *)

\* No attempt has been asked about, ended or started when the loop begins.
LEMMA PhasesInit == Init => PhasesOK
  BY DEF Init, PhasesOK, AskedOK, OpenOK, StartedOK, ResultNodes, NoOutcome,
         Open

\* They hold of every reachable state.
LEMMA Phases == Spec => [](IndInv /\ HistoryOK /\ PhasesOK)
<1>1. Spec => [](IndInv /\ HistoryOK)
  BY History
<1>2. IndInv /\ HistoryOK /\ PhasesOK /\ [Next]_vars => PhasesOK'
  BY AskedStep, OpenStep, StartedStep DEF PhasesOK
<1> QED
  BY <1>1, <1>2, PhasesInit, PTL DEF Spec

(* The refinement.                                                          *)

\* The phase of an attempt is read from its row, its approval, its plan and
\* whether it was started.
LEMMA SamePhase ==
  ASSUME NEW s \in Stages, NEW n \in Attempts,
         attemptRow'[s][n].status = attemptRow[s][n].status,
         approval'[s][n] = approval[s][n], planFile'[s][n] = planFile[s][n],
         <<s, n>> \in starts' <=> <<s, n>> \in starts
  PROVE  PhaseOf(s, n)' = PhaseOf(s, n) /\ Gated(s, n)' = Gated(s, n)
<1>1. Gated(s, n)' = Gated(s, n)
  BY DEF Gated
<1>2. PhaseOf(s, n)' = PhaseOf(s, n)
  BY DEF PhaseOf
<1> QED
  BY <1>1, <1>2

\* What an attempt's phase is, said of both sides of a step.
Others(s, n) ==
  \A t \in Stages, m \in Attempts : <<t, m>> # <<s, n>> =>
    PhaseOf(t, m)' = PhaseOf(t, m) /\ Gated(t, m)' = Gated(t, m)

\* A step that changes one attempt only is a move of that attempt; one that
\* changes none is a stutter.
LEMMA OneMoves ==
  ASSUME NEW s \in Stages, NEW n \in Attempts, Others(s, n)
  PROVE  /\ Gated(s, n)' = Gated(s, n) =>
              /\ \A to : PhaseOf(s, n)' = to => Promise!Moves(s, n, to)
              /\ PhaseOf(s, n)' = PhaseOf(s, n) => UNCHANGED Promise!spec_vars
         /\ PhaseOf(s, n) = "idle" /\ Promise!Due(s, n) =>
              (PhaseOf(s, n)' = "planned" => Promise!Plan(s, n))
<1> USE DEF Others
<1>1. ASSUME Gated(s, n)' = Gated(s, n), NEW to, PhaseOf(s, n)' = to
      PROVE  Promise!Moves(s, n, to)
  BY <1>1 DEF Promise!Moves
<1>2. ASSUME Gated(s, n)' = Gated(s, n), PhaseOf(s, n)' = PhaseOf(s, n)
      PROVE  UNCHANGED Promise!spec_vars
  BY <1>2 DEF Promise!spec_vars
<1>3. ASSUME PhaseOf(s, n) = "idle", Promise!Due(s, n),
             PhaseOf(s, n)' = "planned"
      PROVE  Promise!Plan(s, n)
  <2>1. Gated(s, n)' \in BOOLEAN
    BY DEF Gated
  <2> DEFINE gates == [t \in Stages |-> [m \in Attempts |-> Gated(t, m)]]
             phases == [t \in Stages |-> [m \in Attempts |-> PhaseOf(t, m)]]
  <2>2. gates' = [gates EXCEPT ![s][n] = Gated(s, n)']
    OBVIOUS
  <2>3. phases' = [phases EXCEPT ![s][n] = "planned"]
    BY <1>3
  <2>4. phases[s][n] = "idle"
    BY <1>3
  <2>5. Promise!Plan(s, n) <=>
          /\ phases[s][n] = "idle" /\ Promise!Due(s, n)
          /\ phases' = [phases EXCEPT ![s][n] = "planned"]
          /\ \E g \in BOOLEAN : gates' = [gates EXCEPT ![s][n] = g]
    BY Zenon DEF Promise!Plan
  <2> HIDE DEF gates, phases
  <2> QED
    BY <1>3, <2>1, <2>2, <2>3, <2>4, <2>5
<1> QED
  BY <1>1, <1>2, <1>3

\* An attempt after a failure that may be retried is due.
LEMMA DueAfterFailure ==
  ASSUME NEW s \in Stages, NEW n \in Attempts,
         n > 1 => attemptRow[s][n - 1].status = "RETRYABLE_FAILED"
  PROVE  Promise!Due(s, n)
<1> SUFFICES ASSUME NEW m \in Attempts, m + 1 = n
             PROVE  PhaseOf(s, m) \in {"failed", "unplanned"}
  BY DEF Promise!Due
<1>1. n > 1 /\ n - 1 = m
  BY ConstantsAssumption DEF Attempts
<1>2. attemptRow[s][m].status = "RETRYABLE_FAILED"
  BY <1>1
<1> QED
  BY <1>2 DEF PhaseOf, Ended

\* The attempt at work is open and due.
LEMMA AtWork ==
  ASSUME IndInv, HistoryOK, PhasesOK, node \in AttemptNodes
  PROVE  /\ cursor \in Stages /\ NextAttempt(cursor) \in Attempts
         /\ attemptRow[cursor][NextAttempt(cursor)].status \in Open
         /\ Promise!Due(cursor, NextAttempt(cursor))
<1>1. /\ cursor \in Stages /\ NextAttempt(cursor) \in Attempts
      /\ counter[cursor] \in Nat
  BY AttemptTypes DEF IndInv, ControlOK, TypeOK, GraphOK
<1>2. attemptRow[cursor][NextAttempt(cursor)].status \in Open
  BY <1>1 DEF PhasesOK, OpenOK, NextAttempt, AttemptNodes, PlanNodes
<1>3. NextAttempt(cursor) > 1 =>
        attemptRow[cursor][NextAttempt(cursor) - 1].status = "RETRYABLE_FAILED"
  BY <1>1 DEF HistoryOK, AttemptsOK, RetriesOK, LastRow, NextAttempt
<1> QED
  BY <1>1, <1>2, <1>3, DueAfterFailure

\* Freezing a plan plans an idle attempt that is due (prepare_stage_plan).
LEMMA FreezePlans ==
  ASSUME IndInv, HistoryOK, PhasesOK, PrepareFreeze
  PROVE  [Promise!Next]_Promise!spec_vars
<1>1. node = "prepare_stage_plan" /\ UNCHANGED <<attemptRow, approval, starts>>
  BY DEF PrepareFreeze
<1>2. PICK c \in Stages, n \in Attempts :
        /\ c = cursor /\ n = NextAttempt(cursor)
        /\ attemptRow[c][n].status \in Open /\ Promise!Due(c, n)
  BY <1>1, AtWork DEF AttemptNodes
<1>3. \/ UNCHANGED planFile
      \/ /\ planFile[c][n] = "none"
         /\ planFile'[c][n] # "none"
         /\ \A t \in Stages, m \in Attempts : <<t, m>> # <<c, n>> =>
              planFile'[t][m] = planFile[t][m]
  <2>1. \/ UNCHANGED planFile
        \/ /\ planFile[c][n] = "none"
           /\ \E kind \in PlanKinds :
                planFile' = [planFile EXCEPT ![c][n] = kind]
    BY <1>2 DEF PrepareFreeze
  <2> QED
    BY <1>2, <2>1, ConstantsAssumption DEF IndInv, TypeOK, FilesOK
<1>4. Others(c, n)
  BY <1>1, <1>3, SamePhase DEF Others
<1>5. CASE UNCHANGED planFile
  BY <1>1, <1>2, <1>4, <1>5, OneMoves, SamePhase
<1>6. CASE planFile[c][n] = "none" /\ planFile'[c][n] # "none"
  <2>1. approval[c][n] = "NONE" /\ <<c, n>> \notin starts
    BY <1>2, <1>6 DEF PhasesOK, AskedOK, IndInv, ApprovalOK
  <2>2. PhaseOf(c, n) = "idle" /\ PhaseOf(c, n)' = "planned"
    BY <1>1, <1>2, <1>6, <2>1 DEF PhaseOf, Open, Ended
  <2>3. Promise!Plan(c, n)
    BY <1>2, <1>4, <2>2, OneMoves
  <2> QED
    BY <1>2, <2>3 DEF Promise!Next
<1> QED
  BY <1>3, <1>5, <1>6

\* An approval is asked for a gated plan that nobody was asked about before
\* (prepare_stage_approval).
LEMMA EnsureAsks ==
  ASSUME IndInv, HistoryOK, PhasesOK, ApprovalEnsure
  PROVE  [Promise!Next]_Promise!spec_vars
<1>1. /\ node = "prepare_stage_approval" /\ prepared = NextAttempt(cursor)
      /\ UNCHANGED <<attemptRow, planFile, starts>>
  BY DEF ApprovalEnsure
<1>2. PICK c \in Stages, n \in Attempts :
        /\ c = cursor /\ n = NextAttempt(cursor)
        /\ attemptRow[c][n].status \in Open
  BY <1>1, AtWork DEF AttemptNodes, PlanNodes
<1>3. \/ UNCHANGED approval
      \/ /\ approval[c][n] = "NONE" /\ approval'[c][n] = "PENDING"
         /\ \A t \in Stages, m \in Attempts : <<t, m>> # <<c, n>> =>
              approval'[t][m] = approval[t][m]
  <2>1. \/ UNCHANGED approval
        \/ /\ approval[c][n] = "NONE"
           /\ approval' = [approval EXCEPT ![c][n] = "PENDING"]
    BY <1>1, <1>2 DEF ApprovalEnsure
  <2> QED
    BY <1>2, <2>1 DEF IndInv, TypeOK, TablesOK
<1>4. Gated(c, n) /\ planFile[c][n] # "none"
  BY <1>1, <1>2 DEF PhasesOK, AskedOK, IndInv, ApprovalOK, PlanNodes
<1>5. Others(c, n)
  BY <1>1, <1>3, SamePhase DEF Others
<1>6. CASE UNCHANGED approval
  BY <1>1, <1>2, <1>5, <1>6, OneMoves, SamePhase
<1>7. CASE approval[c][n] = "NONE" /\ approval'[c][n] = "PENDING"
  <2>1. <<c, n>> \notin starts
    BY <1>2, <1>4, <1>7 DEF IndInv, ApprovalOK, ApprovedBeforeStart
  <2>2. PhaseOf(c, n) = "planned" /\ PhaseOf(c, n)' = "asked"
    BY <1>1, <1>2, <1>4, <1>7, <2>1 DEF PhaseOf, Open, Ended
  <2>3. Gated(c, n)' = Gated(c, n)
    BY <1>1 DEF Gated
  <2>4. Promise!Ask(c, n)
    BY <1>2, <1>4, <1>5, <2>2, <2>3, OneMoves DEF Promise!Ask
  <2> QED
    BY <1>2, <2>4 DEF Promise!Next
<1> QED
  BY <1>3, <1>6, <1>7

\* Only an approval that is asked for is granted or refused
\* (decide_approval).
LEMMA GateGrants ==
  ASSUME IndInv, HistoryOK, PhasesOK, GateDecide
  PROVE  [Promise!Next]_Promise!spec_vars
<1>1. /\ node = "stage_approval_gate" /\ prepared = NextAttempt(cursor)
      /\ UNCHANGED <<attemptRow, planFile, starts>>
  BY DEF GateDecide
<1>2. PICK c \in Stages, n \in Attempts :
        /\ c = cursor /\ n = NextAttempt(cursor)
        /\ attemptRow[c][n].status \in Open
  BY <1>1, AtWork DEF AttemptNodes, PlanNodes
<1>3. /\ \A t \in Stages, m \in Attempts : <<t, m>> # <<c, n>> =>
           approval'[t][m] = approval[t][m]
      /\ \/ approval'[c][n] = approval[c][n]
         \/ /\ approval[c][n] = "PENDING"
            /\ approval'[c][n] \in {"APPROVED", "REJECTED"}
  <2>1. \/ UNCHANGED approval
        \/ /\ approval[c][n] \in {"PENDING", Decided}
           /\ approval' = [approval EXCEPT ![c][n] = Decided]
    BY <1>1, <1>2 DEF GateDecide
  <2> QED
    BY <1>2, <2>1 DEF Decided, IndInv, TypeOK, TablesOK
<1>4. Gated(c, n) /\ planFile[c][n] # "none"
  BY <1>1, <1>2 DEF PhasesOK, AskedOK, IndInv, ApprovalOK, PlanNodes
<1>5. Others(c, n) /\ Gated(c, n)' = Gated(c, n)
  BY <1>1, <1>3, SamePhase DEF Others, Gated
<1>6. CASE approval'[c][n] = approval[c][n]
  BY <1>1, <1>2, <1>5, <1>6, OneMoves, SamePhase
<1>7. CASE /\ approval[c][n] = "PENDING"
           /\ approval'[c][n] \in {"APPROVED", "REJECTED"}
  <2>1. <<c, n>> \notin starts
    BY <1>2, <1>4, <1>7 DEF IndInv, ApprovalOK, ApprovedBeforeStart
  <2>2. PhaseOf(c, n) = "asked"
    BY <1>2, <1>7, <2>1 DEF PhaseOf, Open, Ended
  <2>3. PhaseOf(c, n)' \in {"granted", "refused"}
    BY <1>1, <1>2, <1>7, <2>1 DEF PhaseOf, Open, Ended
  <2>4. Promise!Grant(c, n) \/ Promise!Refuse(c, n)
    BY <1>2, <1>5, <2>2, <2>3, OneMoves DEF Promise!Grant, Promise!Refuse
  <2> QED
    BY <1>2, <2>4 DEF Promise!Next
<1> QED
  BY <1>3, <1>6, <1>7

\* Marking the attempt ready or running is no move of the promise
\* (prepare_stage_plan, execute_or_reconcile_stage).
LEMMA MarksStutter ==
  ASSUME IndInv, HistoryOK, PhasesOK, PrepareMarkAttempt \/ ExecuteMarkAttempt
  PROVE  [Promise!Next]_Promise!spec_vars
<1>1. node \in AttemptNodes /\ UNCHANGED <<approval, planFile, starts>>
  BY DEF PrepareMarkAttempt, ExecuteMarkAttempt, AttemptNodes, PlanNodes
<1>2. PICK c \in Stages, n \in Attempts :
        /\ c = cursor /\ n = NextAttempt(cursor)
        /\ attemptRow[c][n].status \in Open
  BY <1>1, AtWork
<1>3. /\ \A t \in Stages, m \in Attempts : <<t, m>> # <<c, n>> =>
           attemptRow'[t][m] = attemptRow[t][m]
      /\ attemptRow'[c][n].status \in Open
  BY <1>2
     DEF PrepareMarkAttempt, ExecuteMarkAttempt, RecordAttempt, Open, IndInv,
         TypeOK, TablesOK
<1>4. Others(c, n) /\ Gated(c, n)' = Gated(c, n)
  BY <1>1, <1>3, SamePhase DEF Others, Gated
<1>5. PhaseOf(c, n)' = PhaseOf(c, n)
  BY <1>1, <1>2, <1>3 DEF PhaseOf, Open, Ended
<1> QED
  BY <1>2, <1>4, <1>5, OneMoves

\* A runner is handed a planned attempt that needs no approval or was granted
\* it, or the one it was handed before (execute_or_reconcile_stage).
LEMMA StartSubmits ==
  ASSUME IndInv, HistoryOK, PhasesOK, ExecuteStart
  PROVE  [Promise!Next]_Promise!spec_vars
<1>1. /\ node = "execute_or_reconcile_stage"
      /\ starts' = starts \cup {<<cursor, NextAttempt(cursor)>>}
      /\ UNCHANGED <<attemptRow, approval, planFile>>
  BY DEF ExecuteStart
<1>2. PICK c \in Stages, n \in Attempts :
        /\ c = cursor /\ n = NextAttempt(cursor)
        /\ attemptRow[c][n].status \in Open
  BY <1>1, AtWork DEF AttemptNodes, PlanNodes
<1>3. /\ planFile[c][n] # "none"
      /\ Gated(c, n) => approval[c][n] = "APPROVED"
      /\ ~Gated(c, n) => approval[c][n] = "NONE"
  <2>1. prepared = n
    BY <1>1, <1>2 DEF IndInv, ControlOK, PlanNodes
  <2> QED
    BY <1>1, <1>2, <2>1 DEF IndInv, ApprovalOK, PlanNodes, PhasesOK, AskedOK
<1>4. Others(c, n) /\ Gated(c, n)' = Gated(c, n)
  BY <1>1, <1>2, SamePhase DEF Others, Gated
<1>5. PhaseOf(c, n)' = "submitted"
  BY <1>1, <1>2 DEF PhaseOf, Open, Ended
<1>6. CASE <<c, n>> \in starts
  <2>1. PhaseOf(c, n) = "submitted"
    BY <1>2, <1>6 DEF PhaseOf, Open, Ended
  <2> QED
    BY <1>2, <1>4, <1>5, <2>1, OneMoves
<1>7. CASE <<c, n>> \notin starts
  <2>1. /\ Gated(c, n) => PhaseOf(c, n) = "granted"
        /\ ~Gated(c, n) => PhaseOf(c, n) = "planned"
    BY <1>2, <1>3, <1>7 DEF PhaseOf, Open, Ended
  <2>2. Promise!Submit(c, n)
    BY <1>2, <1>4, <1>5, <2>1, OneMoves DEF Promise!Submit
  <2> QED
    BY <1>2, <2>2 DEF Promise!Next
<1> QED
  BY <1>6, <1>7

\* Filing an attempt ends it, lets it wait on, or finds again a job that was
\* given up, if nothing replaced it (record_stage_outcome).
LEMMA RecordMoves ==
  ASSUME IndInv, HistoryOK, PhasesOK, RecordStageAttempt
  PROVE  [Promise!Next]_Promise!spec_vars
<1>1. /\ node = "record_stage_outcome"
      /\ UNCHANGED <<approval, planFile, starts>>
  BY DEF RecordStageAttempt
<1>2. PICK c \in Stages, n \in Attempts : c = cursor /\ n = FiledAttempt(cursor)
  BY <1>1, AttemptTypes DEF IndInv, ControlOK, ResultNodes
<1>3. PICK old, new :
        old = attemptRow[c][n].status /\ new = pend.status
  OBVIOUS
<1>4. /\ \A t \in Stages, m \in Attempts : <<t, m>> # <<c, n>> =>
           attemptRow'[t][m] = attemptRow[t][m]
      /\ attemptRow'[c][n].status = new
  BY <1>2, <1>3
     DEF RecordStageAttempt, RecordAttempt, IndInv, TypeOK, TablesOK
<1>5. Others(c, n) /\ Gated(c, n)' = Gated(c, n)
  BY <1>1, <1>2, <1>4, SamePhase DEF Others, Gated
<1>6. /\ old \in Open \cup Ended \cup {"RETRYABLE_FAILED"}
      /\ new \in Ended \cup {"RUNNING", "RETRYABLE_FAILED"}
  BY <1>1, <1>2, <1>3
     DEF PhasesOK, OpenOK, HistoryOK, OutcomesOK, Filable, ResultNodes
<1>7. old = "NONE" \/ CanMoveStage(old, new)
  BY <1>2, <1>3
     DEF RecordStageAttempt, AttemptAccepts, PhasesOK, OpenOK
<1>8. /\ new = "RUNNING" => <<c, n>> \in starts
      /\ new = "RETRYABLE_FAILED" =>
           <<c, n>> \in starts \/ planFile[c][n] = "none"
      /\ \/ <<c, n>> \in starts \/ planFile[c][n] = "none"
         \/ approval[c][n] = "REJECTED" \/ old \notin Open
      /\ planFile[c][n] = "none" =>
           approval[c][n] = "NONE" /\ <<c, n>> \notin starts
  BY <1>1, <1>2, <1>3
     DEF PhasesOK, StartedOK, AskedOK, IndInv, ApprovalOK, ResultNodes
<1>9. Promise!Due(c, n)
  <2>1. counter[c] \in Nat /\ (n > 1 => counter[c] >= n)
    BY <1>2 DEF FiledAttempt, IndInv, TypeOK, GraphOK
  <2>2. n > 1 => attemptRow[c][n - 1].status = "RETRYABLE_FAILED"
    BY <1>2, <2>1 DEF HistoryOK, AttemptsOK, OneByOne
  <2> QED
    BY <2>2, DueAfterFailure
<1>10. CASE PhaseOf(c, n)' = PhaseOf(c, n)
  BY <1>5, <1>10, OneMoves
<1>11. CASE old \in Open /\ new # "RUNNING"
  <2>1. PhaseOf(c, n) =
          IF <<c, n>> \in starts THEN "submitted"
          ELSE IF planFile[c][n] = "none" THEN "idle" ELSE "refused"
    BY <1>3, <1>8, <1>11 DEF PhaseOf, Open, Ended
  <2>2. /\ new = "RETRYABLE_FAILED" => PhaseOf(c, n)' =
             IF <<c, n>> \in starts THEN "failed" ELSE "unplanned"
        /\ new # "RETRYABLE_FAILED" => PhaseOf(c, n)' = "closed"
    BY <1>1, <1>4, <1>6, <1>11 DEF PhaseOf, Ended
  <2>3. Promise!Fail(c, n) \/ Promise!Abort(c, n) \/ Promise!Close(c, n)
    BY <1>5, <1>8, <1>9, <2>1, <2>2, OneMoves
       DEF Promise!Fail, Promise!Abort, Promise!Close
  <2> QED
    BY <2>3 DEF Promise!Next
<1>12. CASE old \in Open /\ new = "RUNNING"
  <2>1. PhaseOf(c, n) = "submitted" /\ PhaseOf(c, n)' = "submitted"
    BY <1>1, <1>3, <1>4, <1>8, <1>12 DEF PhaseOf, Open, Ended
  <2> QED
    BY <1>10, <2>1
<1>13. CASE old \in Ended
  <2>1. new \in Ended
    BY <1>6, <1>7, <1>13 DEF CanMoveStage, StageTransitions, Ended
  <2>2. PhaseOf(c, n) = "closed" /\ PhaseOf(c, n)' = "closed"
    BY <1>3, <1>4, <1>13, <2>1 DEF PhaseOf, Ended
  <2> QED
    BY <1>10, <2>2
<1>14. CASE old = "RETRYABLE_FAILED" /\ new = "RETRYABLE_FAILED"
  <2>1. PhaseOf(c, n)' = PhaseOf(c, n)
    BY <1>1, <1>3, <1>4, <1>14 DEF PhaseOf, Ended
  <2> QED
    BY <1>10, <2>1
<1>15. CASE old = "RETRYABLE_FAILED" /\ new \in Ended
  <2>1. /\ PhaseOf(c, n) \in {"failed", "unplanned"}
        /\ PhaseOf(c, n)' = "closed"
    BY <1>3, <1>4, <1>15 DEF PhaseOf, Ended
  <2>2. Promise!Close(c, n)
    BY <1>5, <2>1, OneMoves DEF Promise!Close
  <2> QED
    BY <2>2 DEF Promise!Next
<1>16. CASE old = "RETRYABLE_FAILED" /\ new = "RUNNING"
  <2>1. PhaseOf(c, n) = "failed" /\ PhaseOf(c, n)' = "submitted"
    BY <1>1, <1>3, <1>4, <1>8, <1>16 DEF PhaseOf, Open, Ended
  <2>2. counter[c] > 0 /\ n = counter[c]
    <3>1. Counted(cursor, pend)
      BY <1>1, <1>3, <1>16
         DEF HistoryOK, OutcomesOK, Filable, AttemptsOK, CountsOK, ResultNodes
    <3> QED
      BY <1>2, <3>1 DEF Counted, FiledAttempt
  <2>3. ASSUME NEW m \in Attempts, m = n + 1
        PROVE  PhaseOf(c, m) = "idle"
    <3>1. m > counter[c] /\ m # n /\ n \in Nat
      BY <2>2, <2>3, ConstantsAssumption DEF Attempts
    <3>2. planFile[c][m] = "none"
      <4>1. SUFFICES ASSUME planFile[c][m] # "none" PROVE FALSE
        OBVIOUS
      <4>2. LastRow(c).key \notin {NoKey, pend.key}
        BY <1>1, <2>2, <3>1, <4>1
           DEF HistoryOK, AttemptsOK, PlansOK, PlanNodes
      <4> QED
        BY <1>2, <2>2, <4>2, FiledRow
    <3>3. approval[c][m] = "NONE" /\ <<c, m>> \notin starts
      BY <3>2 DEF PhasesOK, AskedOK, IndInv, ApprovalOK
    <3>4. attemptRow[c][m].status \in Open
      BY <1>2, <3>1 DEF PhasesOK, OpenOK
    <3> QED
      BY <3>2, <3>3, <3>4 DEF PhaseOf, Open, Ended
  <2>4. Promise!Reopen(c, n)
    BY <1>5, <2>1, <2>3, OneMoves DEF Promise!Reopen
  <2> QED
    BY <2>4 DEF Promise!Next
<1> QED
  BY <1>6, <1>11, <1>12, <1>13, <1>14, <1>15, <1>16

\* Every step of the loop is one move of one attempt or none: only eight
\* steps write what the phases are read from, and each writes one attempt.
LEMMA PromiseStep ==
  IndInv /\ HistoryOK /\ PhasesOK /\ [Next]_vars =>
    [Promise!Next]_Promise!spec_vars
<1> SUFFICES ASSUME IndInv, HistoryOK, PhasesOK, [Next]_vars
             PROVE  [Promise!Next]_Promise!spec_vars
  OBVIOUS
<1>1. CASE UNCHANGED <<planFile, attemptRow, approval, starts>>
  <2>1. \A s \in Stages, n \in Attempts :
          PhaseOf(s, n)' = PhaseOf(s, n) /\ Gated(s, n)' = Gated(s, n)
    BY <1>1, SamePhase
  <2> QED
    BY <2>1 DEF Promise!spec_vars
<1>2. \/ UNCHANGED <<planFile, attemptRow, approval, starts>>
      \/ PrepareFreeze \/ ApprovalEnsure \/ GateDecide
      \/ PrepareMarkAttempt \/ ExecuteMarkAttempt \/ ExecuteStart
      \/ RecordStageAttempt
  BY WhoWrites DEF Writers
<1> QED
  BY <1>1, <1>2, FreezePlans, EnsureAsks, GateGrants, MarksStutter,
     StartSubmits, RecordMoves

\* Before the loop begins every attempt is idle.
LEMMA PromiseInit == Init => Promise!Init
<1> SUFFICES ASSUME Init PROVE Promise!Init
  OBVIOUS
<1>1. \A s \in Stages, n \in Attempts :
        PhaseOf(s, n) = "idle" /\ Gated(s, n) \in BOOLEAN
  BY DEF Init, PhaseOf, Ended, Gated
<1> QED
  BY <1>1 DEF Promise!Init

\* The stage loop keeps its promise: an attempt is planned before it runs,
\* runs only ungated or approved, never after a refusal, and a later attempt
\* only follows a failure that may be retried, across crashes, re-executed
\* nodes, refused writes and late answers of backends.
THEOREM PromiseKept == Spec => KeepsPromise
  BY Phases, PromiseInit, PromiseStep, PTL DEF Spec, KeepsPromise, Promise!Spec
=============================================================================
