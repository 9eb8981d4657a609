---------------------------- MODULE StageSafety ----------------------------
(***************************************************************************)
(* What must hold of one Run in StageLifecycle, whatever the processes,    *)
(* users and backends do.                                                  *)
(***************************************************************************)
EXTENDS StageLifecycle

\* Shape of every variable (the columns and state keys of the source).
RequestOK ==
  /\ level \in EvidenceLevels /\ permitted \in Budgets
  /\ target \in DirectTargets

FlagsOK == supplied \in BOOLEAN /\ interrupted \in BOOLEAN /\ alive \in BOOLEAN

GraphOK ==
  /\ node \in Nodes /\ cursor \in 0 .. 5
  /\ counter \in [Stages -> 0 .. MaxAttempts]
  /\ outcome \in [Stages -> Outcomes \cup {NoOutcome}]
  /\ planRef \in [Stages -> 0 .. MaxAttempts]
  /\ prepared \in 0 .. MaxAttempts
  /\ pend \in Outcomes \cup {NoOutcome}
  /\ decision \in {"none", "approve", "reject"}
  /\ retryDecision \in {"none", "retry", "cancel"}

TablesOK ==
  /\ run \in RunStatus
  /\ stageRow \in [Stages -> StageRows]
  /\ attemptRow \in [Stages -> [Attempts -> AttemptRows]]
  /\ operations \subseteq Outcomes
  /\ approval \in [Stages -> [Attempts -> ApprovalStatus \cup {"NONE"}]]
  /\ jobRow \in [Stages -> [Attempts -> JobReports]]

FilesOK ==
  /\ planFile \in [Stages -> [Attempts -> {"none", "free", "asks"}]]
  /\ report \in RunStatus \cup {"none"}

ProcessOK ==
  /\ step \in 0 .. 5
  /\ answer \in {"none", "approve", "reject", "retry", "cancel"}
  /\ local \in Outcomes \cup {NoOutcome}

WorldOK ==
  /\ starts \subseteq Stages \X Attempts
  /\ job \in [Stages -> [Attempts -> Jobs]]
  /\ crashes \in 0 .. MaxCrashes
  /\ raised \subseteq {"stage", "attempt", "operation", "approval"}

TypeOK == /\ RequestOK /\ FlagsOK /\ GraphOK /\ TablesOK /\ FilesOK
          /\ ProcessOK /\ WorldOK

-----------------------------------------------------------------------------
(* Approval.                                                                *)

\* An attempt whose capability or frozen plan asks for approval is handed to
\* a runner only after that attempt's own approval row says APPROVED, across
\* crashes, re-executed nodes and retries (effective_stage_approval,
\* stage_approval_gate, execute_or_reconcile_stage).
ApprovedBeforeStart ==
  \A s \in Stages, n \in Attempts :
    <<s, n>> \in starts /\ Gated(s, n) => approval[s][n] = "APPROVED"

-----------------------------------------------------------------------------
(* The inductive invariant.                                                 *)

\* Nodes that work on a stage, on an attempt not yet counted, and on a frozen
\* plan.
PlanNodes == {"decide_stage_approval", "prepare_stage_approval",
              "stage_approval_gate", "mark_stage_ready",
              "execute_or_reconcile_stage"}
AttemptNodes == PlanNodes \cup {"validate_stage_input", "prepare_stage_plan"}
ResultNodes == {"validate_stage_result", "record_stage_outcome"}
RetryNodes == {"prepare_retry", "retry_gate"}

\* The cursor, the attempt counter, the pending outcome and the answer are
\* what the node at hand expects, in a fresh process as in a resumed one.
ControlOK ==
  /\ node \in AttemptNodes \cup ResultNodes \cup RetryNodes =>
       cursor \in Stages
  /\ node \in AttemptNodes => counter[cursor] < MaxAttempts
  /\ node \in PlanNodes => prepared = NextAttempt(cursor)
  /\ node \in ResultNodes => pend \in Outcomes
  /\ node \in RetryNodes => outcome[cursor] \in Outcomes
  /\ node = "execute_or_reconcile_stage" /\ step = 4 => local \in Outcomes
  /\ node \in AttemptNodes \cup RetryNodes =>
       outcome[cursor].kind # "WAITING_EXTERNAL"
  /\ \A s \in Stages : s > cursor => counter[s] = 0 /\ outcome[s] = NoOutcome
  /\ interrupted => node \in Gates
  /\ answer # "none" => node \in Gates
  /\ answer \in {"approve", "reject"} => node = "stage_approval_gate"
  /\ answer \in {"retry", "cancel"} => node = "retry_gate"
  /\ node = "stage_approval_gate" /\ step > 0 => answer # "none"
  /\ answer = "retry" => counter[cursor] < MaxAttempts

\* An attempt is gated by its frozen plan, which exists from prepare on, and
\* the way to the runner leads over its own approved row.
ApprovalOK ==
  /\ ApprovedBeforeStart
  /\ \A s \in Stages, n \in Attempts :
       <<s, n>> \in starts => planFile[s][n] # "none"
  /\ node = "prepare_stage_plan" /\ step > 0 =>
       planFile[cursor][NextAttempt(cursor)] # "none"
  /\ node \in PlanNodes => planFile[cursor][prepared] # "none"
  /\ node = "stage_approval_gate" /\ step > 0 /\ answer = "approve" =>
       approval[cursor][prepared] = "APPROVED"
  /\ node \in {"mark_stage_ready", "execute_or_reconcile_stage"} =>
       (Gated(cursor, prepared) => approval[cursor][prepared] = "APPROVED")

IndInv == TypeOK /\ ControlOK /\ ApprovalOK

-----------------------------------------------------------------------------
(* Attempts and stages.                                                     *)

\* A later attempt is prepared only when the durable row of the one before
\* it says it failed in a way that may be retried (_next_attempt,
\* record_stage_outcome, retry_gate).
RetryFollowsFailure ==
  \A s \in Stages, n \in Attempts :
    n > 1 /\ planFile[s][n] # "none" =>
      attemptRow[s][n - 1].status = "RETRYABLE_FAILED"

\* A stage is started only when every earlier stage of the plan is settled:
\* neither waiting for a job nor failed with its retry still open
\* (route_after_stage_record, route_next_stage).
EarlierStagesSettled ==
  \A s, t \in Stages, n \in Attempts :
    <<s, n>> \in starts /\ t < s /\ Required(t) =>
      /\ outcome[t] # NoOutcome
      /\ outcome[t].kind # "WAITING_EXTERNAL"
      /\ outcome[t].status # "RETRYABLE_FAILED"

-----------------------------------------------------------------------------
(* The stores.                                                              *)

\* The attempt's row tells what outcome o says.
RowTells(s, n, o) ==
  attemptRow[s][n].status = o.status /\ attemptRow[s][n].key = o.key

Agrees(s) ==
  /\ stageRow[s].status = outcome[s].status
  /\ stageRow[s].attempt = counter[s]
  /\ RowTells(s, counter[s], outcome[s])
  /\ outcome[s] \in operations
  /\ outcome[s].job # NoJob => jobRow[s][counter[s]] = outcome[s].job

\* Once the cursor has passed a stage, its row, its last attempt's row, the
\* operation ledger, the job row and the checkpoint tell the same story,
\* although each was committed on its own (record_stage_outcome).
LedgersAgree ==
  \A s \in Stages : s < cursor /\ outcome[s] # NoOutcome => Agrees(s)

\* A Run that says SUCCEEDED has a succeeded row for every required stage and
\* its report says the same; one that says CANCELLED was refused by its user
\* (generate_report).
FinalStatusIsEarned ==
  /\ run \in TerminalRun => report = run
  /\ run = "SUCCEEDED" =>
       \A s \in Stages : Required(s) => stageRow[s].status = "SUCCEEDED"
  /\ run = "CANCELLED" => \E s \in Stages : stageRow[s].status = "CANCELLED"

\* A terminal Run is final: no command, replayed node or late backend answer
\* changes a row, an approval, the report or starts anything.
TerminalIsFinal ==
  [][(run \in TerminalRun) =>
       UNCHANGED <<tables, planFile, report, starts>>]_vars

\* Whatever was lost in crashes, a live process always has a next step: the
\* run-status and stage-status matrices refuse no write the graph makes
\* outside the checks that raise (state_machine.py against graph.py).
ProcessNeverStuck == alive => ENABLED GraphStep

\* Where no stage is retried, no repository check refuses what the graph files:
\* only a user's second thought about a decided approval is refused.
NothingRefused == raised \subseteq {"approval"}

Ended == {"SUCCEEDED", "PARTIAL", "PERMANENT_FAILED", "CANCELLED",
          "BLOCKED_MISSING_INPUT", "CAPABILITY_UNAVAILABLE"}

-----------------------------------------------------------------------------
(* What makes them inductive: the invariant of the history of a Run.        *)

Settled(t) ==
  /\ outcome[t] # NoOutcome
  /\ outcome[t].kind # "WAITING_EXTERNAL"
  /\ outcome[t].status # "RETRYABLE_FAILED"

\* The stages behind the cursor are settled, and nothing ahead of it started.
OrderOK ==
  /\ \A s \in Stages, n \in Attempts : <<s, n>> \in starts => s <= cursor
  /\ \A t \in Stages : t < cursor /\ Required(t) => Settled(t)
  /\ node = "route_next_stage" /\ cursor \in Stages => Settled(cursor)
  /\ node = "generate_report" => cursor = 5
  /\ cursor = 5 => node \in {"generate_report", "END"}

\* The key of an outcome names its stage (_stable_id, _blocked_outcome).
KeysOK ==
  /\ \A s \in Stages : outcome[s] # NoOutcome => outcome[s].key.stage = s
  /\ node \in ResultNodes => pend.key.stage = cursor
  /\ node = "execute_or_reconcile_stage" /\ step = 4 =>
       local.key = StartKey(cursor, prepared)

\* record_stage_outcome has filed what the steps behind it file, and what it
\* filed stands until the cursor moves on.
FiledOK ==
  /\ node = "record_stage_outcome" =>
       LET n == FiledAttempt(cursor)
       IN /\ step > 0 => /\ stageRow[cursor].status = pend.status
                         /\ stageRow[cursor].attempt = n
          /\ step > 1 => pend \in operations
          /\ step > 2 => RowTells(cursor, n, pend)
          /\ step > 3 => (pend.job # NoJob => jobRow[cursor][n] = pend.job)
  /\ node = "route_next_stage" /\ cursor \in Stages => Agrees(cursor)
  /\ LedgersAgree

LastRow(s) == attemptRow[s][counter[s]]

\* A stage waits for, or may retry, the attempt it counted last.
Counted(s, o) == counter[s] > 0 /\ o.key.attempt = counter[s]

\* Attempts are taken one at a time: all but the last one counted failed in a
\* way that may be retried, and so did the one before a plan.
OneByOne ==
  \A s \in Stages, n \in Attempts :
    n > 1 /\ (planFile[s][n] # "none" \/ counter[s] >= n) =>
      attemptRow[s][n - 1].status = "RETRYABLE_FAILED"

\* A plan that is not counted yet is the next one of the stage at work, or
\* one whose refusal is being filed; filing it does not reopen a failed
\* attempt, whose row has another key.
PlansOK ==
  \A s \in Stages, n \in Attempts :
    planFile[s][n] # "none" /\ n > counter[s] =>
      /\ s = cursor /\ n = counter[s] + 1
      /\ outcome[s].kind # "WAITING_EXTERNAL"
      /\ \/ node \in PlanNodes \cup {"prepare_stage_plan"}
         \/ /\ node = "record_stage_outcome"
            /\ counter[s] > 0 => LastRow(s).key \notin {NoKey, pend.key}

\* A stage that tries again, or may, failed in its last attempt.
RetriesOK ==
  /\ node \in AttemptNodes /\ counter[cursor] > 0 =>
       /\ LastRow(cursor).status = "RETRYABLE_FAILED"
       /\ LastRow(cursor).key.attempt = counter[cursor]
  /\ node \in RetryNodes =>
       /\ outcome[cursor].status = "RETRYABLE_FAILED"
       /\ Counted(cursor, outcome[cursor])
       /\ RowTells(cursor, counter[cursor], outcome[cursor])

\* What is retried or waited for is the attempt counted last.
CountsOK ==
  /\ node \in ResultNodes /\
     (pend.status = "RETRYABLE_FAILED" \/ pend.kind = "WAITING_EXTERNAL") =>
       Counted(cursor, pend)
  /\ \A s \in Stages :
       outcome[s].kind = "WAITING_EXTERNAL" => Counted(s, outcome[s])

AttemptsOK == OneByOne /\ PlansOK /\ RetriesOK /\ CountsOK

\* What may be filed: a stage that ended or may be retried, or one that runs
\* on because it waits for its job.
Filable(o) ==
  /\ o.status \in Ended \cup {"RUNNING", "RETRYABLE_FAILED"}
  /\ o.status = "RUNNING" <=> o.kind = "WAITING_EXTERNAL"
  /\ o.why = "user" => o.status = "CANCELLED"

OutcomesOK ==
  /\ node \in ResultNodes => Filable(pend)
  /\ node = "execute_or_reconcile_stage" /\ step = 4 =>
       Filable(local) /\ local.why = "none"
  /\ \A s \in Stages : outcome[s] # NoOutcome => Filable(outcome[s])

\* A Run ends only in generate_report, with the status its outcomes call for;
\* a retry its user declined is a cancelled stage.
FinalOK ==
  /\ retryDecision = "cancel" =>
       \/ \E s \in Stages : s < cursor /\ outcome[s].status = "CANCELLED"
       \/ /\ node = "route_next_stage" /\ cursor \in Stages
          /\ outcome[cursor].status = "CANCELLED"
       \/ /\ node = "record_stage_outcome" /\ pend.status = "CANCELLED"
          /\ outcome[cursor].kind # "WAITING_EXTERNAL"
  /\ node = "generate_report" /\ step > 0 => report = FinalStatus
  /\ run \in TerminalRun => cursor = 5 /\ run = FinalStatus /\ report = run

HistoryOK ==
  OrderOK /\ KeysOK /\ OutcomesOK /\ FiledOK /\ AttemptsOK /\ FinalOK

Open == {"NONE", "READY", "RUNNING"}

\* Only a gated plan has an approval row, and only approve and reject decide
\* it.
AskedOK ==
  /\ \A s \in Stages, n \in Attempts :
       /\ approval[s][n] \in {"NONE", "PENDING", "APPROVED", "REJECTED"}
       /\ approval[s][n] # "NONE" => Gated(s, n) /\ planFile[s][n] # "none"
  /\ node \in {"prepare_stage_approval", "stage_approval_gate"} =>
       Gated(cursor, prepared)
  /\ node = "stage_approval_gate" /\ step > 0 /\ answer = "reject" =>
       approval[cursor][prepared] = "REJECTED"

\* An attempt is open or ended, and open until it is counted, unless its end
\* is being filed.
OpenOK ==
  \A s \in Stages, n \in Attempts :
    /\ attemptRow[s][n].status \in Open \cup Ended \cup {"RETRYABLE_FAILED"}
    /\ attemptRow[s][n].key = NoKey => attemptRow[s][n].status = "NONE"
    /\ n > counter[s] =>
         \/ attemptRow[s][n].status \in Open
         \/ s = cursor /\ node = "record_stage_outcome" /\ n = FiledAttempt(s)

\* What is filed ends an attempt that was started, never planned, refused, or
\* had failed already; only a started one waits, and only a started or an
\* unplanned one fails in a way that may be retried.
StartedOK ==
  /\ node = "execute_or_reconcile_stage" /\ step = 4 =>
       <<cursor, prepared>> \in starts
  /\ \A s \in Stages : outcome[s].kind = "WAITING_EXTERNAL" =>
       <<s, counter[s]>> \in starts
  /\ node \in ResultNodes =>
       LET n == FiledAttempt(cursor)
           started == <<cursor, n>> \in starts
           unplanned == planFile[cursor][n] = "none"
       IN /\ pend.status = "RUNNING" => started
          /\ pend.status = "RETRYABLE_FAILED" => started \/ unplanned
          /\ \/ started \/ unplanned \/ approval[cursor][n] = "REJECTED"
             \/ attemptRow[cursor][n].status \notin Open

PhasesOK == AskedOK /\ OpenOK /\ StartedOK

-----------------------------------------------------------------------------
(* The abstract specification.                                              *)

PhaseOf(s, n) ==
  CASE attemptRow[s][n].status = "RETRYABLE_FAILED" ->
         IF <<s, n>> \in starts THEN "failed" ELSE "unplanned"
    [] attemptRow[s][n].status \in Ended -> "closed"
    [] OTHER ->
         CASE <<s, n>> \in starts -> "submitted"
           [] <<s, n>> \notin starts /\ approval[s][n] = "APPROVED" -> "granted"
           [] <<s, n>> \notin starts /\ approval[s][n] = "REJECTED" -> "refused"
           [] <<s, n>> \notin starts /\ approval[s][n] = "PENDING" -> "asked"
           [] OTHER -> IF planFile[s][n] = "none" THEN "idle" ELSE "planned"

Promise == INSTANCE ApprovedExecution WITH
  phase <- [s \in Stages |-> [n \in Attempts |-> PhaseOf(s, n)]],
  gated <- [s \in Stages |-> [n \in Attempts |-> Gated(s, n)]]

\* The stage loop implements ApprovedExecution.
KeepsPromise == Promise!Spec
=============================================================================
