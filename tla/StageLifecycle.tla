--------------------------- MODULE StageLifecycle ---------------------------
(***************************************************************************)
(* One Run of the orchestrator from its frozen Requirement to its report:  *)
(* the stage loop of orchestrator/graph.py, executed by one CLI process at *)
(* a time, over three stores that are committed separately:                *)
(*                                                                         *)
(*   - the LangGraph checkpoint (node, cursor, counter, outcome, ...),     *)
(*     written once, after a node returns;                                 *)
(*   - the business tables of orchestrator/storage.py (run, stageRow,      *)
(*     attemptRow, operations, approval, jobRow), one commit per call;     *)
(*   - the artifact store (planFile, report), immutable files.             *)
(*                                                                         *)
(* A node is a sequence of steps, one per durable write, numbered by       *)
(* "step"; a crash between two of them loses the process and the node is   *)
(* executed again, from its first step, by the next command.  A repository *)
(* call that refuses its arguments raises out of the command: "raised"     *)
(* remembers which check it was.                                           *)
(*                                                                         *)
(* A definition whose comment starts with "Mutant" is a wrong variant of   *)
(* the one after it; nothing uses it but the runs that show a property     *)
(* would notice it.                                                        *)
(***************************************************************************)
EXTENDS Naturals, FiniteSets, StateMachine

Stages == 1 .. 4            \* StageId: retrieval, ml, dft, many_body

CONSTANTS
  Registered,       \* stages whose capability is registered
  NeedsApproval,    \* capability.requires_approval
  NeedsInput,       \* capabilities that declare an upstream artifact
  ReportsRef,       \* runners that set operation_ref (to the operation key)
  External,         \* runners whose start may return WaitingExternal
  EvidenceLevels,   \* required evidence levels a Requirement may carry
  Budgets,          \* sets of stages the Requirement's budget may permit
  DirectTargets,    \* 0: routed by policy; s: run-stage on stage s
  PlanKinds,        \* subset of {"free", "asks"}: what a plan may request
  InputFaults,      \* stage statuses validate_input may refuse with
  PrepareFaults,    \* stage statuses a raising prepare is mapped to
  StartStatuses,    \* stage statuses a synchronous start may return
  JobEnds,          \* terminal statuses a backend job may reach
  BackendFaults,    \* stage statuses a failed backend call is mapped to
  Tampering,        \* may a native result fail its hash check?
  MaxAttempts,      \* bound on attempts per stage
  MaxPolls,         \* bound on polls of one unfinished job
  MaxCrashes        \* bound on process crashes

Attempts == 1 .. MaxAttempts

ASSUME ConstantsAssumption ==
  /\ Registered \subseteq Stages /\ NeedsApproval \subseteq Stages
  /\ NeedsInput \subseteq Stages /\ ReportsRef \subseteq Stages
  /\ External \subseteq Stages
  /\ EvidenceLevels \subseteq Nat
  /\ Budgets \subseteq SUBSET Stages
  /\ DirectTargets \subseteq 0 .. 4
  /\ PlanKinds \subseteq {"free", "asks"}
  /\ InputFaults \subseteq {"BLOCKED_MISSING_INPUT", "CAPABILITY_UNAVAILABLE",
                            "PERMANENT_FAILED"}
  /\ PrepareFaults \subseteq {"RETRYABLE_FAILED", "PERMANENT_FAILED"}
  /\ StartStatuses \subseteq {"SUCCEEDED", "PARTIAL", "RETRYABLE_FAILED",
                              "PERMANENT_FAILED"}
  /\ JobEnds \subseteq TerminalJob
  /\ BackendFaults \subseteq {"RETRYABLE_FAILED", "PERMANENT_FAILED"}
  /\ Tampering \in BOOLEAN
  /\ MaxAttempts \in Nat \ {0} /\ MaxPolls \in Nat /\ MaxCrashes \in Nat

-----------------------------------------------------------------------------
(* Values.                                                                  *)

\* Operation keys: a hash of stage and attempt for a prepared plan or a
\* failed preparation; a refusal's key holds no attempt (_blocked_outcome).
OpNames == {"start", "prepare"} \cup
           {"BLOCKED_MISSING_INPUT", "CAPABILITY_UNAVAILABLE",
            "PERMANENT_FAILED"}
Keys == [stage : Stages, attempt : 0 .. MaxAttempts, op : OpNames]
NoKey == [stage |-> 0, attempt |-> 0, op |-> "none"]

StartKey(s, n) == [stage |-> s, attempt |-> n, op |-> "start"]
PrepareKey(s, n) == [stage |-> s, attempt |-> n, op |-> "prepare"]
BlockedKey(s, status) == [stage |-> s, attempt |-> 0, op |-> status]

\* What a runner reports of a job: its status and the runner's own count of
\* polls, the status sequence.
JobReports == [status : JobStatus \cup {"NONE"}, seq : Nat]
NoJob == [status |-> "NONE", seq |-> 0]

\* A job at the backend, with the status and sequence last reported of it
\* (the runner's operation ledger).
Jobs == [status : JobStatus \cup {"NONE"}, seen : JobStatus \cup {"NONE"},
         seq : Nat]
NoRun == [status |-> "NONE", seen |-> "NONE", seq |-> 0]
Submitted == [status |-> "SUBMITTED", seen |-> "SUBMITTED", seq |-> 0]
MovedTo(j, status) == [status |-> status, seen |-> j.seen, seq |-> j.seq]

\* ControlStageOutcome.  "why" is the category of its first error as far as
\* anything depends on it: a user's refusal, or BACKEND_INCONSISTENT.
OutcomeKinds == {"COMPLETED", "WAITING_EXTERNAL", "BLOCKED", "FAILED"}
Outcomes == [kind : OutcomeKinds, status : StageStatus, key : Keys,
             ref : Keys \cup {NoKey}, why : {"none", "user", "inconsistent"},
             job : JobReports]
NoOutcome == [kind |-> "NONE", status |-> "NONE", key |-> NoKey,
              ref |-> NoKey, why |-> "none", job |-> NoJob]

Outcome(kind, status, key, ref, why, job) ==
  [kind |-> kind, status |-> status, key |-> key, ref |-> ref, why |-> why,
   job |-> job]

CompletionKind(status) ==
  IF status \in {"SUCCEEDED", "PARTIAL", "CANCELLED"} THEN "COMPLETED"
                                                      ELSE "FAILED"

RefusalKind(status) ==
  IF status = "PERMANENT_FAILED" THEN "FAILED" ELSE "BLOCKED"

Refusal(s, status) ==
  Outcome(RefusalKind(status), status, BlockedKey(s, status), NoKey, "none",
          NoJob)

Useful == {"SUCCEEDED", "PARTIAL"}
Nodes == {"route_next_stage", "validate_stage_input", "prepare_stage_plan",
          "decide_stage_approval", "prepare_stage_approval",
          "stage_approval_gate", "mark_stage_ready",
          "execute_or_reconcile_stage", "validate_stage_result",
          "record_stage_outcome", "prepare_retry", "retry_gate",
          "generate_report", "END"}
Gates == {"stage_approval_gate", "retry_gate"}

StageRows == [status : StageStatus \cup {"NONE"}, attempt : 0 .. MaxAttempts,
              ref : Keys \cup {NoKey}]
AttemptRows == [status : StageStatus \cup {"NONE"}, key : Keys \cup {NoKey},
                plan : 0 .. MaxAttempts]

VARIABLES
  level, permitted, target, supplied,            \* the frozen request
  node, interrupted, cursor, counter, outcome, planRef, prepared, pend,
  decision, retryDecision,                       \* LangGraph checkpoint
  run, stageRow, attemptRow, operations, approval, jobRow,     \* tables
  planFile, report,                              \* artifacts
  alive, step, answer, local,                    \* the CLI process
  starts, job,                                   \* runners and backends
  crashes, raised                                \* crash budget, errors seen

request == <<level, permitted, target, supplied>>
graph == <<node, interrupted, cursor, counter, outcome, planRef, prepared,
           pend, decision, retryDecision>>
tables == <<run, stageRow, attemptRow, operations, approval, jobRow>>
files == <<planFile, report>>
process == <<alive, step, answer, local>>
world == <<starts, job>>
vars == <<request, graph, tables, files, process, world, crashes, raised>>

-----------------------------------------------------------------------------
(* Routing (build_execution_plan): which stages the plan selects.           *)

Required(s) ==
  IF target = 0 THEN s = 1 \/ level >= s ELSE s = target

Disposition(s) ==
  CASE ~Required(s) -> "SKIPPED"
    [] Required(s) /\ target = 0 /\ s # 1 /\ s \notin permitted -> "BLOCKED"
    [] Required(s) /\ target # 0 /\ ~supplied -> "BLOCKED"
    [] OTHER -> IF s \in Registered THEN "SELECTED" ELSE "UNAVAILABLE"

\* Stages whose successful outcome supplies the artifact s declares: a
\* candidate manifest for ml and dft; nothing publishes a dft_result.
Producers(s) == IF s = 4 THEN {} ELSE {1, 2} \cap 1 .. (s - 1)

MissingInput(s) ==
  /\ target = 0 /\ s \in NeedsInput
  /\ \A p \in Producers(s) : outcome[p].status \notin Useful

\* _next_attempt, and the attempt record_stage_outcome files a result under.
NextAttempt(s) == counter[s] + 1
FiledAttempt(s) == IF counter[s] = 0 THEN 1 ELSE counter[s]

\* effective_stage_approval: the capability's floor or the frozen plan's wish.
Gated(s, n) == s \in NeedsApproval \/ planFile[s][n] = "asks"

WaitingExternal ==
  cursor \in Stages /\ outcome[cursor].kind = "WAITING_EXTERNAL"

-----------------------------------------------------------------------------
(* The repository's checks and writes (orchestrator/storage.py).            *)

StageAccepts(s, status, ref) ==
  stageRow[s].status # "NONE" =>
    /\ CanMoveStage(stageRow[s].status, status)
    /\ ref # NoKey /\ stageRow[s].ref # NoKey => ref = stageRow[s].ref

UpsertStage(s, status, n, ref) ==
  stageRow' = [stageRow EXCEPT ![s] =
    [status |-> status, attempt |-> n,
     ref |-> IF ref # NoKey THEN ref ELSE stageRow[s].ref]]

AttemptAccepts(s, n, key, status, plan) ==
  LET row == attemptRow[s][n]
  IN row.key # NoKey =>
       /\ row.key = key
       /\ row.plan # 0 /\ plan # 0 => row.plan = plan
       /\ CanMoveStage(row.status, status)

\* Mutant: a failure that may be retried leaves its attempt as it was.
RecordAttemptKeepsOpen(s, n, key, status, plan) ==
  attemptRow' = [attemptRow EXCEPT ![s][n] =
    [status |-> IF status = "RETRYABLE_FAILED" /\ attemptRow[s][n].key # NoKey
                  THEN attemptRow[s][n].status ELSE status,
     key |-> key,
     plan |-> IF attemptRow[s][n].key = NoKey THEN plan
              ELSE attemptRow[s][n].plan]]

RecordAttempt(s, n, key, status, plan) ==
  attemptRow' = [attemptRow EXCEPT ![s][n] =
    [status |-> status, key |-> key,
     plan |-> IF attemptRow[s][n].key = NoKey THEN plan
              ELSE attemptRow[s][n].plan]]

\* Mutant: a finished operation refuses even the same result again.
FinishedOperationRefuses(o) ==
  \A row \in operations : row.key = o.key =>
    row.status \notin {"SUCCEEDED", "PARTIAL", "PERMANENT_FAILED",
                       "CANCELLED"}

OperationAccepts(o) ==
  \A row \in operations : row.key = o.key =>
    /\ row.ref # NoKey /\ o.ref # NoKey => row.ref = o.ref
    /\ row.status \in {"SUCCEEDED", "PARTIAL", "PERMANENT_FAILED",
                       "CANCELLED"} => row = o

\* Mutant: the first result of an operation is kept.
RecordOperationOnce(o) ==
  operations' = IF \E row \in operations : row.key = o.key
                  THEN operations ELSE operations \cup {o}

RecordOperation(o) ==
  operations' = {row \in operations : row.key # o.key} \cup {o}

JobAccepts(s, n, rep) ==
  jobRow[s][n].status # "NONE" =>
    /\ rep.seq >= jobRow[s][n].seq
    /\ rep.seq = jobRow[s][n].seq => rep.status = jobRow[s][n].status
    /\ CanMoveJob(jobRow[s][n].status, rep.status)

-----------------------------------------------------------------------------
(* The process inside graph.invoke: step k of a node, a durable write that  *)
(* stays in the node, and the checkpoint that ends it.                      *)

At(n, k) == alive /\ node = n /\ step = k

Written ==
  /\ step' = step + 1
  /\ UNCHANGED <<request, graph, alive, answer, crashes, raised>>

Checkpointed ==
  /\ step' = 0 /\ local' = NoOutcome
  /\ UNCHANGED <<request, tables, files, world, crashes, raised>>

\* A repository check refused: the exception leaves the command.
Raises(check) ==
  /\ raised' = raised \cup {check}
  /\ alive' = FALSE /\ step' = 0 /\ answer' = "none" /\ local' = NoOutcome
  /\ UNCHANGED <<request, graph, tables, files, world, crashes>>

-----------------------------------------------------------------------------
(* route_next_stage                                                         *)

Remaining == {s \in Stages : s > cursor /\ Disposition(s) # "SKIPPED"}
NextRoute == CHOOSE s \in Remaining : \A t \in Remaining : s <= t

RouteMarkRun ==
  LET status == IF \E s \in Stages : outcome[s] # NoOutcome THEN "RUNNING"
                                                           ELSE "PLANNED"
  IN /\ At("route_next_stage", 0) /\ Remaining # {}
     /\ CanMoveRun(run, status)
     /\ run' = status
     /\ Written
     /\ UNCHANGED <<stageRow, attemptRow, operations, approval, jobRow, files,
                    local, world>>

RouteSelect ==
  /\ At("route_next_stage", 1) /\ Remaining # {}
  /\ cursor' = NextRoute
  /\ prepared' = 0 /\ decision' = "none"
  /\ \/ /\ Disposition(NextRoute) = "SELECTED"
        /\ pend' = NoOutcome /\ node' = "validate_stage_input"
     \/ /\ Disposition(NextRoute) = "BLOCKED"
        /\ pend' = Refusal(NextRoute, "BLOCKED_MISSING_INPUT")
        /\ node' = "record_stage_outcome"
     \/ /\ Disposition(NextRoute) = "UNAVAILABLE"
        /\ pend' = Refusal(NextRoute, "CAPABILITY_UNAVAILABLE")
        /\ node' = "record_stage_outcome"
  /\ Checkpointed
  /\ UNCHANGED <<interrupted, counter, outcome, planRef, retryDecision, alive,
                 answer>>

RouteExhausted ==
  /\ At("route_next_stage", 0) /\ Remaining = {}
  /\ cursor' = 5 /\ prepared' = 0 /\ pend' = NoOutcome
  /\ node' = "generate_report"
  /\ Checkpointed
  /\ UNCHANGED <<interrupted, counter, outcome, planRef, decision,
                 retryDecision, alive, answer>>

(* validate_stage_input                                                     *)

ValidateMarkStage ==
  /\ At("validate_stage_input", 0)
  /\ StageAccepts(cursor, "VALIDATING_INPUT", NoKey)
  /\ UpsertStage(cursor, "VALIDATING_INPUT", NextAttempt(cursor), NoKey)
  /\ Written
  /\ UNCHANGED <<run, attemptRow, operations, approval, jobRow, files, local,
                 world>>

ValidateInput ==
  /\ At("validate_stage_input", 1)
  /\ \/ /\ ~MissingInput(cursor)
        /\ pend' = NoOutcome /\ node' = "prepare_stage_plan"
     \/ \E status \in (IF MissingInput(cursor) THEN {"BLOCKED_MISSING_INPUT"}
                                              ELSE InputFaults) :
          /\ pend' = Refusal(cursor, status)
          /\ node' = "record_stage_outcome"
  /\ Checkpointed
  /\ UNCHANGED <<interrupted, cursor, counter, outcome, planRef, prepared,
                 decision, retryDecision, alive, answer>>

(* prepare_stage_plan: a plan frozen by an interrupted execution is reused. *)

PrepareFreeze ==
  LET n == NextAttempt(cursor)
  IN /\ At("prepare_stage_plan", 0)
     /\ IF planFile[cursor][n] # "none"
          THEN UNCHANGED planFile
          ELSE \E kind \in PlanKinds :
                 planFile' = [planFile EXCEPT ![cursor][n] = kind]
     /\ Written
     /\ UNCHANGED <<tables, report, local, world>>

PrepareFails ==
  LET n == NextAttempt(cursor)
  IN /\ At("prepare_stage_plan", 0)
     /\ planFile[cursor][n] = "none"
     /\ \E status \in PrepareFaults :
          pend' = Outcome("FAILED", status, PrepareKey(cursor, n), NoKey,
                          "none", NoJob)
     /\ counter' = [counter EXCEPT ![cursor] = n]
     /\ node' = "record_stage_outcome"
     /\ Checkpointed
     /\ UNCHANGED <<interrupted, cursor, outcome, planRef, prepared, decision,
                    retryDecision, alive, answer>>

PrepareMarkAttempt ==
  LET n == NextAttempt(cursor)
  IN /\ At("prepare_stage_plan", 1)
     /\ AttemptAccepts(cursor, n, StartKey(cursor, n), "READY", n)
     /\ RecordAttempt(cursor, n, StartKey(cursor, n), "READY", n)
     /\ Written
     /\ UNCHANGED <<run, stageRow, operations, approval, jobRow, files, local,
                    world>>

PrepareDone ==
  LET n == NextAttempt(cursor)
  IN /\ At("prepare_stage_plan", 2)
     /\ prepared' = n
     /\ planRef' = [planRef EXCEPT ![cursor] = n]
     /\ pend' = NoOutcome /\ node' = "decide_stage_approval"
     /\ Checkpointed
     /\ UNCHANGED <<interrupted, cursor, counter, outcome, decision,
                    retryDecision, alive, answer>>

(* decide_stage_approval, prepare_stage_approval                            *)

\* Mutant: only the capability's floor counts, not the plan's wish.
DecisionByFloor ==
  IF cursor \in NeedsApproval THEN "prepare_stage_approval"
                              ELSE "mark_stage_ready"

\* Mutant: only the plan's wish counts, not the capability's floor.
DecisionByPlan ==
  IF planFile[cursor][prepared] = "asks" THEN "prepare_stage_approval"
                                         ELSE "mark_stage_ready"

RouteAfterDecision ==
  IF Gated(cursor, prepared) THEN "prepare_stage_approval"
                             ELSE "mark_stage_ready"

DecideApproval ==
  /\ At("decide_stage_approval", 0)
  /\ decision' = "none"
  /\ node' = RouteAfterDecision
  /\ Checkpointed
  /\ UNCHANGED <<interrupted, cursor, counter, outcome, planRef, prepared,
                 pend, retryDecision, alive, answer>>

ApprovalEnsure ==
  /\ At("prepare_stage_approval", 0) /\ prepared = NextAttempt(cursor)
  /\ IF approval[cursor][prepared] = "NONE"
       THEN approval' = [approval EXCEPT ![cursor][prepared] = "PENDING"]
       ELSE UNCHANGED approval
  /\ Written
  /\ UNCHANGED <<run, stageRow, attemptRow, operations, jobRow, files, local,
                 world>>

ApprovalMarkStage ==
  /\ At("prepare_stage_approval", 1)
  /\ StageAccepts(cursor, "WAITING_APPROVAL", NoKey)
  /\ UpsertStage(cursor, "WAITING_APPROVAL", NextAttempt(cursor), NoKey)
  /\ Written
  /\ UNCHANGED <<run, attemptRow, operations, approval, jobRow, files, local,
                 world>>

ApprovalMarkRun ==
  /\ At("prepare_stage_approval", 2)
  /\ CanMoveRun(run, "WAITING_APPROVAL")
  /\ run' = "WAITING_APPROVAL"
  /\ Written
  /\ UNCHANGED <<stageRow, attemptRow, operations, approval, jobRow, files,
                 local, world>>

ApprovalPrepared ==
  /\ At("prepare_stage_approval", 3)
  /\ decision' = "none" /\ node' = "stage_approval_gate"
  /\ Checkpointed
  /\ UNCHANGED <<interrupted, cursor, counter, outcome, planRef, prepared,
                 pend, retryDecision, alive, answer>>

(* stage_approval_gate: interrupt, or resume with the user's answer.        *)

Interrupt ==
  /\ alive /\ node \in Gates /\ answer = "none"
  /\ interrupted' = TRUE
  /\ alive' = FALSE
  /\ UNCHANGED <<request, node, cursor, counter, outcome, planRef, prepared,
                 pend, decision, retryDecision, tables, files, step, answer,
                 local, world, crashes, raised>>

Decided == IF answer = "approve" THEN "APPROVED" ELSE "REJECTED"

GateDecide ==
  /\ At("stage_approval_gate", 0) /\ answer # "none"
  /\ prepared = NextAttempt(cursor)
  /\ IF approval[cursor][prepared] \in {"PENDING", Decided}
       THEN /\ approval' = [approval EXCEPT ![cursor][prepared] = Decided]
            /\ Written
            /\ UNCHANGED <<run, stageRow, attemptRow, operations, jobRow,
                           files, local, world>>
       ELSE Raises("approval")

GateDone ==
  LET key == StartKey(cursor, NextAttempt(cursor))
  IN /\ At("stage_approval_gate", 1)
     /\ decision' = answer /\ answer' = "none" /\ interrupted' = FALSE
     /\ IF answer = "approve"
          THEN node' = "mark_stage_ready" /\ UNCHANGED pend
          ELSE /\ node' = "record_stage_outcome"
               /\ pend' = Outcome("COMPLETED", "CANCELLED", key, NoKey,
                                  "user", NoJob)
     /\ Checkpointed
     /\ UNCHANGED <<cursor, counter, outcome, planRef, prepared,
                    retryDecision, alive>>

(* mark_stage_ready                                                         *)

ReadyMarkStage ==
  /\ At("mark_stage_ready", 0) /\ prepared = NextAttempt(cursor)
  /\ StageAccepts(cursor, "READY", NoKey)
  /\ UpsertStage(cursor, "READY", NextAttempt(cursor), NoKey)
  /\ Written
  /\ UNCHANGED <<run, attemptRow, operations, approval, jobRow, files, local,
                 world>>

ReadyDone ==
  /\ At("mark_stage_ready", 1)
  /\ node' = "execute_or_reconcile_stage"
  /\ Checkpointed
  /\ UNCHANGED <<interrupted, cursor, counter, outcome, planRef, prepared,
                 pend, decision, retryDecision, alive, answer>>

(* execute_or_reconcile_stage                                               *)

ExecuteMarkStage ==
  /\ At("execute_or_reconcile_stage", 0) /\ prepared = NextAttempt(cursor)
  /\ StageAccepts(cursor, "RUNNING", NoKey)
  /\ UpsertStage(cursor, "RUNNING", NextAttempt(cursor), NoKey)
  /\ Written
  /\ UNCHANGED <<run, attemptRow, operations, approval, jobRow, files, local,
                 world>>

ExecuteMarkRun ==
  /\ At("execute_or_reconcile_stage", 1)
  /\ CanMoveRun(run, "RUNNING")
  /\ run' = "RUNNING"
  /\ Written
  /\ UNCHANGED <<stageRow, attemptRow, operations, approval, jobRow, files,
                 local, world>>

ExecuteMarkAttempt ==
  LET n == NextAttempt(cursor)
  IN /\ At("execute_or_reconcile_stage", 2)
     /\ AttemptAccepts(cursor, n, StartKey(cursor, n), "RUNNING", n)
     /\ RecordAttempt(cursor, n, StartKey(cursor, n), "RUNNING", n)
     /\ Written
     /\ UNCHANGED <<run, stageRow, operations, approval, jobRow, files, local,
                    world>>

RefOf(s, key) == IF s \in ReportsRef THEN key ELSE NoKey

\* runner.start: finishes now, or submits a job (once per key) and waits; the
\* answer to a submission may be lost.
ExecuteStart ==
  LET n == NextAttempt(cursor)
      key == StartKey(cursor, n)
  IN /\ At("execute_or_reconcile_stage", 3)
     /\ starts' = starts \cup {<<cursor, n>>}
     /\ \/ /\ job[cursor][n] = NoRun
           /\ \E status \in StartStatuses :
                local' = Outcome(CompletionKind(status), status, key,
                                 RefOf(cursor, key), "none", NoJob)
           /\ UNCHANGED job
        \/ /\ cursor \in External
           /\ job' = IF job[cursor][n] # NoRun THEN job ELSE
                [job EXCEPT ![cursor][n] = Submitted]
           /\ local' = Outcome("WAITING_EXTERNAL", "RUNNING", key,
                               RefOf(cursor, key), "none",
                               [status |-> "SUBMITTED", seq |-> 0])
        \/ /\ cursor \in External /\ "RETRYABLE_FAILED" \in BackendFaults
           /\ job[cursor][n] = NoRun
           /\ job' = [job EXCEPT ![cursor][n] = Submitted]
           /\ local' = Outcome("FAILED", "RETRYABLE_FAILED", key,
                               RefOf(cursor, key), "none", NoJob)
     /\ Written
     /\ UNCHANGED <<tables, files>>

ExecuteDone ==
  /\ At("execute_or_reconcile_stage", 4)
  /\ pend' = local
  /\ counter' = [counter EXCEPT ![cursor] = NextAttempt(cursor)]
  /\ node' = "validate_stage_result"
  /\ Checkpointed
  /\ UNCHANGED <<interrupted, cursor, outcome, planRef, prepared, decision,
                 retryDecision, alive, answer>>

(* validate_stage_result: a result whose hash no longer matches is demoted. *)

ValidateResult ==
  /\ At("validate_stage_result", 0)
  /\ \/ UNCHANGED pend
     \/ /\ Tampering /\ pend.status \in Useful
        /\ pend' = Outcome("FAILED", "PERMANENT_FAILED", pend.key, pend.ref,
                           "inconsistent", pend.job)
  /\ node' = "record_stage_outcome"
  /\ Checkpointed
  /\ UNCHANGED <<interrupted, cursor, counter, outcome, planRef, prepared,
                 decision, retryDecision, alive, answer>>

(* record_stage_outcome: six durable writes, each checked.                  *)

RecordStage ==
  LET n == FiledAttempt(cursor)
  IN /\ At("record_stage_outcome", 0)
     /\ pend.job # NoJob => JobAccepts(cursor, n, pend.job)
     /\ StageAccepts(cursor, pend.status, pend.ref)
     /\ UpsertStage(cursor, pend.status, n, pend.ref)
     /\ Written
     /\ UNCHANGED <<run, attemptRow, operations, approval, jobRow, files,
                    local, world>>

RecordLedger ==
  /\ At("record_stage_outcome", 1)
  /\ OperationAccepts(pend)
  /\ RecordOperation(pend)
  /\ Written
  /\ UNCHANGED <<run, stageRow, attemptRow, approval, jobRow, files, local,
                 world>>

RecordStageAttempt ==
  LET n == FiledAttempt(cursor)
  IN /\ At("record_stage_outcome", 2)
     /\ AttemptAccepts(cursor, n, pend.key, pend.status, planRef[cursor])
     /\ RecordAttempt(cursor, n, pend.key, pend.status, planRef[cursor])
     /\ Written
     /\ UNCHANGED <<run, stageRow, operations, approval, jobRow, files, local,
                    world>>

RecordJob ==
  LET n == FiledAttempt(cursor)
  IN /\ At("record_stage_outcome", 3)
     /\ IF pend.job = NoJob THEN UNCHANGED jobRow
        ELSE jobRow' = [jobRow EXCEPT ![cursor][n] = pend.job]
     /\ Written
     /\ UNCHANGED <<run, stageRow, attemptRow, operations, approval, files,
                    local, world>>

\* The job record has no refusal of its own here: what could be refused was
\* turned into a failure when it was polled (_validate_external_outcome).
RecordRefused ==
  LET n == FiledAttempt(cursor)
  IN \/ /\ At("record_stage_outcome", 0)
        /\ pend.job # NoJob => JobAccepts(cursor, n, pend.job)
        /\ ~StageAccepts(cursor, pend.status, pend.ref)
        /\ Raises("stage")
     \/ /\ At("record_stage_outcome", 1)
        /\ ~OperationAccepts(pend)
        /\ Raises("operation")
     \/ /\ At("record_stage_outcome", 2)
        /\ ~AttemptAccepts(cursor, n, pend.key, pend.status, planRef[cursor])
        /\ Raises("attempt")

\* Mutant: a stage that failed for good ends the Run at once.
RunAfterFailsEarly(o) ==
  IF o.kind = "WAITING_EXTERNAL" \/ o.status = "RETRYABLE_FAILED" THEN "PAUSED"
  ELSE IF o.status = "PERMANENT_FAILED" THEN "FAILED" ELSE "RUNNING"

RunAfter(o) ==
  IF \/ o.kind = "WAITING_EXTERNAL"
     \/ o.status \in {"RETRYABLE_FAILED", "BLOCKED_MISSING_INPUT",
                      "CAPABILITY_UNAVAILABLE"}
    THEN "PAUSED" ELSE "RUNNING"

RecordRun ==
  /\ At("record_stage_outcome", 4)
  /\ CanMoveRun(run, RunAfter(pend))
  /\ run' = RunAfter(pend)
  /\ Written
  /\ UNCHANGED <<stageRow, attemptRow, operations, approval, jobRow, files,
                 local, world>>

\* Mutant: a stage that waits for its job does not stop the loop.
RouteAfterRecordGoesOn(o) ==
  IF o.status = "RETRYABLE_FAILED" THEN "prepare_retry" ELSE "route_next_stage"

RouteAfterRecord(o) ==
  IF o.kind = "WAITING_EXTERNAL" THEN "END"
  ELSE IF o.status = "RETRYABLE_FAILED" THEN "prepare_retry"
  ELSE "route_next_stage"

RecordDone ==
  /\ At("record_stage_outcome", 5)
  /\ outcome' = [outcome EXCEPT ![cursor] = pend]
  /\ counter' = [counter EXCEPT ![cursor] = FiledAttempt(cursor)]
  /\ pend' = NoOutcome
  /\ node' = RouteAfterRecord(pend) /\ alive' = (node' # "END")
  /\ Checkpointed
  /\ UNCHANGED <<interrupted, cursor, planRef, prepared, decision,
                 retryDecision, answer>>

(* prepare_retry and retry_gate                                             *)

RetryMarkRun ==
  /\ At("prepare_retry", 0)
  /\ CanMoveRun(run, "PAUSED")
  /\ run' = "PAUSED"
  /\ Written
  /\ UNCHANGED <<stageRow, attemptRow, operations, approval, jobRow, files,
                 local, world>>

RetryPrepared ==
  /\ At("prepare_retry", 1)
  /\ retryDecision' = "none" /\ node' = "retry_gate"
  /\ Checkpointed
  /\ UNCHANGED <<interrupted, cursor, counter, outcome, planRef, prepared,
                 pend, decision, alive, answer>>

RetryGate ==
  LET previous == outcome[cursor]
  IN /\ At("retry_gate", 0) /\ answer # "none"
     /\ retryDecision' = answer /\ answer' = "none" /\ interrupted' = FALSE
     /\ IF answer = "retry"
          THEN node' = "validate_stage_input" /\ UNCHANGED pend
          ELSE /\ node' = "record_stage_outcome"
               /\ pend' = Outcome("COMPLETED", "CANCELLED", previous.key,
                                  previous.ref, "user", NoJob)
     /\ Checkpointed
     /\ UNCHANGED <<cursor, counter, outcome, planRef, prepared, decision,
                    alive>>

(* generate_report                                                          *)

Refused == {s \in Stages : outcome[s].why = "user"}
HasResult == \E s \in Stages : outcome[s].status \in Useful
ResumableBlock ==
  \E s \in Stages : /\ target # 0
                    /\ outcome[s].status \in {"BLOCKED_MISSING_INPUT",
                                              "CAPABILITY_UNAVAILABLE"}
\* Mutant: only a blocked stage counts as a failure.
RequiredBlock ==
  \E s \in Stages : Required(s) /\ outcome[s].kind = "BLOCKED"

RequiredFailure ==
  \E s \in Stages : /\ Required(s) /\ outcome[s] # NoOutcome
                    /\ outcome[s].status \notin Useful

FinalStatus ==
  CASE retryDecision = "cancel" -> "CANCELLED"
    [] retryDecision # "cancel" /\ Refused # {} ->
         IF HasResult THEN "PARTIAL" ELSE "CANCELLED"
    [] OTHER ->
         IF ResumableBlock THEN "PAUSED"
         ELSE IF RequiredFailure THEN "FAILED"
         ELSE IF \E s \in Stages : outcome[s].status = "PARTIAL"
              THEN "PARTIAL" ELSE "SUCCEEDED"

ReportWrite ==
  /\ At("generate_report", 0)
  /\ report \in {"none", FinalStatus}
  /\ report' = FinalStatus
  /\ Written
  /\ UNCHANGED <<tables, planFile, local, world>>

ReportMarkRun ==
  /\ At("generate_report", 1)
  /\ CanMoveRun(run, FinalStatus)
  /\ run' = FinalStatus
  /\ Written
  /\ UNCHANGED <<stageRow, attemptRow, operations, approval, jobRow, files,
                 local, world>>

ReportDone ==
  /\ At("generate_report", 2)
  /\ node' = "END" /\ alive' = FALSE
  /\ Checkpointed
  /\ UNCHANGED <<interrupted, cursor, counter, outcome, planRef, prepared,
                 pend, decision, retryDecision, answer>>

-----------------------------------------------------------------------------
(* CLI commands.  A command is one process; it may crash at any step.       *)

Begin(a) ==
  /\ alive' = TRUE /\ answer' = a /\ step' = 0
  /\ UNCHANGED <<request, tables, files, local, crashes, raised>>

\* approve/reject and cancel at an approval gate: refused unless PENDING.
Approve ==
  /\ ~alive /\ interrupted /\ node = "stage_approval_gate"
  /\ approval[cursor][prepared] = "PENDING"
  /\ \E d \in {"approve", "reject"} : Begin(d)
  /\ UNCHANGED <<graph, world>>

\* respond with the payload itself, which only the gate checks.
RespondApproval ==
  /\ ~alive /\ interrupted /\ node = "stage_approval_gate"
  /\ \E d \in {"approve", "reject"} : Begin(d)
  /\ UNCHANGED <<graph, world>>

RespondRetry ==
  /\ ~alive /\ interrupted /\ node = "retry_gate"
  /\ \/ counter[cursor] < MaxAttempts /\ Begin("retry")
     \/ Begin("cancel")
  /\ UNCHANGED <<graph, world>>

\* resume of an interrupted command: invoke(None) re-executes the node.
ResumeNode ==
  /\ ~alive /\ ~interrupted /\ ~WaitingExternal /\ node # "END"
  /\ Begin("none")
  /\ UNCHANGED <<graph, world>>

\* A poll numbers its answer, except that a terminal answer is replayed.
Polled(j) ==
  IF j.seen \in TerminalJob THEN j
  ELSE [status |-> j.status, seen |-> j.status, seq |-> j.seq + 1]

Report(j) == [status |-> j.seen, seq |-> j.seq]

JobOutcome(previous, rep, status) ==
  Outcome(IF rep.status \in TerminalJob THEN CompletionKind(status)
                                        ELSE "WAITING_EXTERNAL",
          status, previous.key, previous.ref, "none", rep)

\* Stage status a runner maps a job status to.
StageStatusOf(rep) ==
  CASE rep.status = "SUCCEEDED" -> "SUCCEEDED"
    [] rep.status = "FAILED" -> "PERMANENT_FAILED"
    [] rep.status = "TIMEOUT" -> "RETRYABLE_FAILED"
    [] rep.status = "CANCELLED" -> "CANCELLED"
    [] OTHER -> "RUNNING"

\* A poll that failed: lost contact, or an answer that contradicts the ledger.
PollFailure(previous, status) ==
  Outcome("FAILED", status, previous.key, previous.ref,
          IF status = "PERMANENT_FAILED" THEN "inconsistent" ELSE "none", NoJob)

\* resume of a waiting Run: reconcile_current_stage, written over the
\* checkpoint as execute_or_reconcile_stage.
ResumeReconcile ==
  LET previous == outcome[cursor]
      n == FiledAttempt(cursor)
      polled == Polled(job[cursor][n])
      rep == Report(polled)
  IN /\ ~alive /\ ~interrupted /\ WaitingExternal
     /\ \/ /\ polled.seq <= MaxPolls \/ polled.status \in TerminalJob
           /\ job' = [job EXCEPT ![cursor][n] = polled]
           /\ pend' = IF JobAccepts(cursor, n, rep)
                        THEN JobOutcome(previous, rep, StageStatusOf(rep))
                        ELSE PollFailure(previous, "PERMANENT_FAILED")
        \/ /\ \E status \in BackendFaults : pend' = PollFailure(previous, status)
           /\ UNCHANGED job
     /\ node' = "validate_stage_result"
     /\ Begin("none")
     /\ UNCHANGED <<interrupted, cursor, counter, outcome, planRef, prepared,
                    decision, retryDecision, starts>>

\* cancel of a waiting Run: the runner reports CANCELLED whether the job was
\* stopped or had already ended (cancel_current_external_stage).
CancelExternal ==
  LET previous == outcome[cursor]
      n == FiledAttempt(cursor)
      rep == [status |-> "CANCELLED", seq |-> previous.job.seq + 1]
  IN /\ ~alive /\ WaitingExternal
     /\ job' = IF job[cursor][n].status \in TerminalJob THEN job ELSE
          [job EXCEPT ![cursor][n] = MovedTo(job[cursor][n], "CANCELLED")]
     /\ pend' = IF JobAccepts(cursor, n, rep)
                  THEN Outcome("COMPLETED", "CANCELLED", previous.key,
                               previous.ref, "user", rep)
                  ELSE PollFailure(previous, "PERMANENT_FAILED")
     /\ node' = "validate_stage_result"
     /\ Begin("none")
     /\ UNCHANGED <<interrupted, cursor, counter, outcome, planRef, prepared,
                    decision, retryDecision, starts>>

-----------------------------------------------------------------------------
(* The environment.                                                         *)

\* The backend moves a submitted job on.
JobMoves(s, n) ==
  /\ job[s][n].status \in {"SUBMITTED", "RUNNING"}
  /\ \E status \in JobEnds \cup {"RUNNING"} :
       /\ status # job[s][n].status
       /\ job' = [job EXCEPT ![s][n] = MovedTo(job[s][n], status)]
  /\ UNCHANGED <<request, graph, tables, files, process, starts, crashes,
                 raised>>

\* The process dies: what it had not written is lost.
Crash ==
  /\ alive /\ crashes < MaxCrashes
  /\ crashes' = crashes + 1
  /\ alive' = FALSE /\ step' = 0 /\ answer' = "none" /\ local' = NoOutcome
  /\ UNCHANGED <<request, graph, tables, files, world, raised>>

Init ==
  /\ level \in EvidenceLevels /\ permitted \in Budgets
  /\ target \in DirectTargets /\ supplied \in BOOLEAN
  /\ target = 0 => ~supplied
  /\ node = "route_next_stage" /\ interrupted = FALSE /\ cursor = 0
  /\ counter = [s \in Stages |-> 0]
  /\ outcome = [s \in Stages |-> NoOutcome]
  /\ planRef = [s \in Stages |-> 0] /\ prepared = 0 /\ pend = NoOutcome
  /\ decision = "none" /\ retryDecision = "none"
  /\ run = "PLANNED"
  /\ stageRow = [s \in Stages |->
                   [status |-> "NONE", attempt |-> 0, ref |-> NoKey]]
  /\ attemptRow = [s \in Stages |-> [n \in Attempts |->
                     [status |-> "NONE", key |-> NoKey, plan |-> 0]]]
  /\ operations = {}
  /\ approval = [s \in Stages |-> [n \in Attempts |-> "NONE"]]
  /\ jobRow = [s \in Stages |-> [n \in Attempts |-> NoJob]]
  /\ planFile = [s \in Stages |-> [n \in Attempts |-> "none"]]
  /\ report = "none"
  /\ alive = TRUE /\ step = 0 /\ answer = "none" /\ local = NoOutcome
  /\ starts = {}
  /\ job = [s \in Stages |-> [n \in Attempts |-> NoRun]]
  /\ crashes = 0 /\ raised = {}

GraphStep ==
  \/ RouteMarkRun \/ RouteSelect \/ RouteExhausted
  \/ ValidateMarkStage \/ ValidateInput
  \/ PrepareFreeze \/ PrepareFails \/ PrepareMarkAttempt \/ PrepareDone
  \/ DecideApproval
  \/ ApprovalEnsure \/ ApprovalMarkStage \/ ApprovalMarkRun
  \/ ApprovalPrepared
  \/ Interrupt \/ GateDecide \/ GateDone
  \/ ReadyMarkStage \/ ReadyDone
  \/ ExecuteMarkStage \/ ExecuteMarkRun \/ ExecuteMarkAttempt
  \/ ExecuteStart \/ ExecuteDone
  \/ ValidateResult
  \/ RecordStage \/ RecordLedger \/ RecordStageAttempt \/ RecordJob
  \/ RecordRefused \/ RecordRun \/ RecordDone
  \/ RetryMarkRun \/ RetryPrepared \/ RetryGate
  \/ ReportWrite \/ ReportMarkRun \/ ReportDone

Command ==
  \/ Approve \/ RespondApproval \/ RespondRetry
  \/ ResumeNode \/ ResumeReconcile \/ CancelExternal

JobStep == \E s \in Stages, n \in Attempts : JobMoves(s, n)

Next == GraphStep \/ Command \/ JobStep \/ Crash

Spec == Init /\ [][Next]_vars
=============================================================================
