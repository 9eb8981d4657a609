-------------------------------- MODULE MLRun --------------------------------
(***************************************************************************)
(* The ML screening stage of one Run (ml_screening/runner.py), called by   *)
(* the stage loop, interrupted and called again.  Each selected candidate  *)
(* is relaxed by a worker process of its own; what a worker has finished   *)
(* is filed in a ledger whose key does not depend on the attempt, and the  *)
(* stage's files are written once, one after the other.                    *)
(*                                                                         *)
(* The worker outlives the host that dies while it runs: it is not killed, *)
(* and writes to its sandbox when it is done.                              *)
(***************************************************************************)
EXTENDS MLScreening

CONSTANTS
  Asks,        \* what the stage may be called with
  MaxCalls,    \* bound: calls of the stage under one run id
  MaxTrouble   \* bound: crashes and failures of workers

ASSUME RunAssumption == MaxCalls \in Nat \ {0} /\ MaxTrouble \in Nat

\* What the models of a request and of its manifest validate.
ASSUME AskAssumption ==
  \A a \in Asks :
    /\ a.pool \subseteq Candidates /\ IsFiniteSet(a.pool)
    /\ a.health.device \in Devices
    /\ a.request.limit \in Nat /\ IsFiniteSet(a.request.ids)
    /\ \/ a.request.mode = "POLICY_TOP_N" /\ a.request.limit <= AutomaticMax
       \/ /\ a.request.mode = "EXPLICIT_IDS"
          /\ Cardinality(a.request.ids) <= a.request.limit

VARIABLES
  ask,       \* what the stage is called with
  disk,      \* the attempts' plans and results
  ledger,    \* candidate -> its operation-complete.json
  sandbox,   \* candidate -> the device its relaxed.cif was computed on
  orphans,   \* candidates whose worker the host has left behind
  job,       \* where the call is
  attempt, calls, outcome,
  crashes, failures

vars == <<ask, disk, ledger, sandbox, orphans, job, attempt, calls, outcome,
          crashes, failures>>
store == <<disk, ledger, sandbox>>

Files == {"native", "plan", "manifest", "report", "result", "completion"}
Transient == {"WORKER_TIMEOUT", "WORKER_START_FAILED"}
Lasting == {"WORKER_PROCESS_FAILED", "INVALID_WORKER_RESPONSE"}
Refiled == "ARTIFACT_CONFLICT"
Statuses == {"SUCCEEDED", "PARTIAL", "RETRYABLE_FAILED", "PERMANENT_FAILED",
             "BLOCKED_MISSING_INPUT"}
Categories == {"MISSING_INPUT", "INPUT_INTEGRITY_ERROR", "BATCH_LIMIT_EXCEEDED",
               "ORCHESTRATOR_STAGE_EXCEPTION", "AGENT02_EXECUTION_FAILED",
               "AGENT02_RETRYABLE_WORKER_FAILURE"}

Idle == [pc |-> "idle", k |-> 1, records |-> <<>>, device |-> None, spoiled |-> FALSE]
NoOutcome == [status |-> None, category |-> None, result |-> None]
Failure(status, category) ==
  [status |-> status, category |-> category, result |-> None]
Finish(answer) == outcome' = answer /\ job' = Idle

(***************************************************************************)
(* The records of the manifest.                                            *)
(***************************************************************************)

Record(decision, level, execution, device, error) ==
  [decision |-> decision, level |-> level, execution |-> execution,
   relaxed |-> device, error |-> error]
NotRun(c) ==
  LET decision == PreFilter(c, ask.requirement) IN
  Record(IF decision \in {"REJECT", "FAILED"} THEN decision ELSE "UNCERTAIN",
         "L1_RETRIEVED", "NOT_RUN", None, None)
Failed(error) == Record("FAILED", "L1_RETRIEVED", "RUNTIME_FAILED", None, error)
\* PASS and L2 go together, and only with them is the relaxed structure
\* recommended to the stages after.
Inferred(c, device) ==
  LET relaxed == Relaxation[c][device]
      good == Applicability(c, ask.health) = "APPLICABLE" /\ QcPassed(relaxed)
  IN  Record(IF good THEN "PASS" ELSE "UNCERTAIN",
             IF good THEN "L2_ML_SCREENED" ELSE "L1_RETRIEVED",
             IF Converged(relaxed) THEN "CONVERGED" ELSE "MAX_STEPS", device, None)
Recommends(record) ==
  IF record.level = "L2_ML_SCREENED" THEN record.relaxed ELSE None

\* None is none of the program's other values.
Mishaps == Transient \cup Lasting \cup {Refiled}
Records ==
  [decision : Decisions, level : {"L1_RETRIEVED", "L2_ML_SCREENED"},
   execution : {"NOT_RUN", "RUNTIME_FAILED", "CONVERGED", "MAX_STEPS"},
   relaxed : Devices \cup {None}, error : Mishaps \cup {None}]
ASSUME NoneAssumption ==
  /\ None \notin Statuses \cup Categories \cup Mishaps \cup Devices \cup Records
  /\ \A a \in Asks :
       /\ None \notin [a.pool -> Records]
       /\ \A n \in 1 .. MaxCalls : None # [when |-> n, candidates |-> PlanOf(a)]
       /\ None \notin [status : Statuses, when : 1 .. MaxCalls,
                       records : [a.pool -> Records]]

Planned == disk[attempt]["plan"].candidates
Current == Planned[job.k].id
Errors(records) == {c \in DOMAIN records : records[c].error # None}
FailedOnes(records) == {c \in DOMAIN records : records[c].decision = "FAILED"}
NativeStatus(records) ==
  IF Errors(records) = {} THEN "SUCCEEDED"
  ELSE IF FailedOnes(records) # DOMAIN records THEN "PARTIAL"
  ELSE IF \A c \in Errors(records) : records[c].error \in Transient
    THEN "RETRYABLE_FAILED" ELSE "PERMANENT_FAILED"
\* The envelope refuses a SUCCEEDED stage with a failed candidate, and a
\* candidate refuses to be selected but not run.
EnvelopeAccepts(records) ==
  NativeStatus(records) = "SUCCEEDED" => FailedOnes(records) = {}
ReportOf(records) == [c \in DOMAIN records |->
  LET record == records[c] IN
    [execution |-> record.execution, decision |-> record.decision,
     recommended |-> Recommends(record)]]

(***************************************************************************)
(* The stage loop.                                                         *)
(***************************************************************************)

Init ==
  /\ ask \in Asks
  /\ disk = [n \in 1 .. MaxCalls |-> [name \in Files |-> None]]
  /\ ledger = [c \in Candidates |-> None] /\ sandbox = [c \in Candidates |-> None]
  /\ orphans = {} /\ job = Idle /\ attempt = 1 /\ calls = 0 /\ outcome = NoOutcome
  /\ crashes = 0 /\ failures = 0

Troubles == crashes + failures < MaxTrouble
\* A call after a crash, or the next attempt after a retryable failure.
Invoke ==
  /\ job.pc = "idle" /\ calls < MaxCalls
  /\ outcome.status \in {None, "RETRYABLE_FAILED"}
  /\ attempt' = IF outcome.status = None THEN attempt ELSE attempt + 1
  /\ calls' = calls + 1 /\ outcome' = NoOutcome
  /\ job' = [Idle EXCEPT !.pc = "validate"]
  /\ UNCHANGED <<ask, store, orphans, crashes, failures>>

\* The host dies, or dies before it has noted the answer.
Crash ==
  /\ job # Idle \/ outcome # NoOutcome
  /\ Troubles /\ crashes' = crashes + 1
  /\ orphans' = IF job.pc = "worker" THEN orphans \cup {Current} ELSE orphans
  /\ job' = Idle /\ outcome' = NoOutcome
  /\ UNCHANGED <<ask, store, attempt, calls, failures>>

Quiet == UNCHANGED <<ask, orphans, attempt, calls, crashes, failures>>
At(pc) == job.pc = pc

\* validate_input.
InputFailure ==
  IF ask.supplied = "missing" THEN Failure("BLOCKED_MISSING_INPUT", "MISSING_INPUT")
  ELSE IF ask.supplied = "altered"
    THEN Failure("PERMANENT_FAILED", "INPUT_INTEGRITY_ERROR")
  ELSE IF Cardinality(ask.pool) > HardMax
    THEN Failure("BLOCKED_MISSING_INPUT", "BATCH_LIMIT_EXCEEDED")
  ELSE IF ~ask.requirement.allow_ml \/ ~(ask.request.ids \subseteq ask.pool)
    THEN Failure("PERMANENT_FAILED", "INPUT_INTEGRITY_ERROR")
  ELSE NoOutcome
Validate ==
  /\ At("validate") /\ Quiet /\ UNCHANGED store
  /\ IF InputFailure = NoOutcome
       THEN job' = [job EXCEPT !.pc = "prepare"] /\ UNCHANGED outcome
       ELSE Finish(InputFailure)

Write(name, content) == disk' = [disk EXCEPT ![attempt][name] = content]
Conflicts(name, content) == disk[attempt][name] \notin {None, content}

\* prepare_stage_plan: a frozen plan is reused.  The native plan carries the
\* time of its creation: one left behind by a crash is never met again.
PrepareException == Failure("PERMANENT_FAILED", "ORCHESTRATOR_STAGE_EXCEPTION")
\* Mistake: every call plans anew.
PlansAnew == FALSE
HasPlan == disk[attempt]["plan"] # None
ReusePlan ==
  /\ At("prepare") /\ HasPlan
  /\ job' = [job EXCEPT !.pc = "start"] /\ UNCHANGED <<store, outcome>> /\ Quiet
WriteNativePlan ==
  /\ At("prepare") /\ ~HasPlan /\ Quiet
  /\ IF ~ask.requirement.confirmed \/ calls >= ask.health.expires
        \/ disk[attempt]["native"] # None
       THEN Finish(PrepareException) /\ UNCHANGED store
       ELSE /\ Write("native", [when |-> calls, candidates |-> PlanOf(ask)])
            /\ UNCHANGED <<ledger, sandbox, outcome>>
            /\ job' = [job EXCEPT !.pc = "freeze"]
FreezePlan ==
  /\ At("freeze") /\ Write("plan", disk[attempt]["native"])
  /\ job' = [job EXCEPT !.pc = "start"]
  /\ UNCHANGED <<ledger, sandbox, outcome>> /\ Quiet

(***************************************************************************)
(* start.                                                                  *)
(***************************************************************************)

Refuse == Finish(Failure("PERMANENT_FAILED", "AGENT02_EXECUTION_FAILED"))
Answer(result) ==
  Finish([status |-> result.status, result |-> result,
          category |-> CASE result.status = "RETRYABLE_FAILED" ->
                              "AGENT02_RETRYABLE_WORKER_FAILURE"
                         [] result.status = "PERMANENT_FAILED" ->
                              "AGENT02_EXECUTION_FAILED"
                         [] OTHER -> None])

\* Mistake: the result alone is taken for a completed stage.
StartTrustsTheResult ==
  /\ At("start") /\ Quiet /\ UNCHANGED store
  /\ IF disk[attempt]["result"] # None THEN Answer(disk[attempt]["result"])
     ELSE job' = [job EXCEPT !.pc = "batch", !.k = 1] /\ UNCHANGED outcome
\* A completed stage is answered from its result; a result without its
\* completion record is refused.
Start ==
  /\ At("start") /\ Quiet /\ UNCHANGED store
  /\ \/ /\ disk[attempt]["result"] = None /\ UNCHANGED outcome
        /\ job' = [job EXCEPT !.pc = "batch", !.k = 1]
     \/ /\ disk[attempt]["result"] # None
        /\ disk[attempt]["completion"] = disk[attempt]["result"]
        /\ Answer(disk[attempt]["result"])
     \/ disk[attempt]["completion"] # disk[attempt]["result"] /\ Refuse

InBatch == At("batch") /\ job.k <= Len(Planned)
InferenceWanted(k) == Planned[k].status = "SELECTED" /\ ask.request.infer
Keep(record) ==
  job' = [job EXCEPT !.pc = "batch", !.k = @ + 1, !.device = None,
            !.records = [c \in DOMAIN @ \cup {Current} |->
                           IF c = Current THEN record ELSE @[c]]]
\* A selected candidate that is not to be run is no valid record.
SkipCandidate ==
  /\ InBatch /\ ~InferenceWanted(job.k) /\ Quiet /\ UNCHANGED store
  /\ IF Planned[job.k].status = "SELECTED" THEN Refuse
     ELSE Keep(NotRun(Current)) /\ UNCHANGED outcome
\* Mistake: the ledger is not looked up.
AlwaysUnfinished(c) == TRUE
Unfinished(c) == ledger[c] = None
ReuseCandidate ==
  /\ InBatch /\ InferenceWanted(job.k) /\ ~Unfinished(Current)
  /\ Keep(ledger[Current]) /\ UNCHANGED <<store, outcome>> /\ Quiet
LaunchWorker ==
  /\ InBatch /\ InferenceWanted(job.k) /\ Unfinished(Current)
  /\ job' = [job EXCEPT !.pc = "worker", !.spoiled = FALSE]
  /\ UNCHANGED <<store, outcome>> /\ Quiet

\* The planned device, or the CPU after a failure of the GPU runtime.
DevicesFor(health) == {health.device, "cpu"}
Wrote(device) == sandbox' = [sandbox EXCEPT ![Current] = device]
\* The parent accepts the response if nothing but the worker's own output has
\* changed under the artifact root.
WorkerFinishes ==
  /\ At("worker") /\ Quiet /\ UNCHANGED <<disk, ledger, outcome>>
  /\ \E device \in DevicesFor(ask.health) :
       IF ~Complete(Relaxation[Current][device])
         THEN Keep(Failed("WORKER_PROCESS_FAILED")) /\ UNCHANGED sandbox
         ELSE /\ Wrote(device)
              /\ IF job.spoiled THEN Keep(Failed("INVALID_WORKER_RESPONSE"))
                 ELSE job' = [job EXCEPT !.pc = "ledger", !.device = device]
\* It may fail before or after it has written.
WorkerFails ==
  /\ At("worker") /\ Troubles /\ failures' = failures + 1
  /\ \E error \in Transient \cup Lasting : Keep(Failed(error))
  /\ \/ UNCHANGED sandbox
     \/ \E device \in DevicesFor(ask.health) : Wrote(device)
  /\ UNCHANGED <<disk, ledger, outcome, ask, orphans, attempt, calls, crashes>>
\* The parent reads the relaxed structure again, then files the candidate.
FileCandidate ==
  /\ At("ledger") /\ Quiet /\ UNCHANGED <<disk, sandbox, outcome>>
  /\ \E record \in {Inferred(Current, job.device)} :
       IF sandbox[Current] # job.device \/ ledger[Current] \notin {None, record}
         THEN Keep(Failed(Refiled)) /\ UNCHANGED ledger
         ELSE ledger' = [ledger EXCEPT ![Current] = record] /\ Keep(record)

\* An orphaned worker comes to its end.
OrphanEnds ==
  /\ \E c \in orphans :
       /\ orphans' = orphans \ {c}
       /\ \/ UNCHANGED <<sandbox, job>>
          \/ \E device \in DevicesFor(ask.health) :
               /\ Complete(Relaxation[c][device])
               /\ sandbox' = [sandbox EXCEPT ![c] = device]
               /\ job' = IF At("worker") /\ c # Current /\ sandbox[c] # device
                           THEN [job EXCEPT !.spoiled = TRUE] ELSE job
  /\ UNCHANGED <<ask, disk, ledger, attempt, calls, outcome, crashes, failures>>

\* The stage's files, each immutable, the completion record last.
WriteOnce(pc, name, content, next) ==
  /\ At(pc) /\ Quiet /\ UNCHANGED <<ledger, sandbox>>
  /\ IF Conflicts(name, content) THEN Refuse /\ UNCHANGED disk
     ELSE /\ Write(name, content) /\ UNCHANGED outcome
          /\ job' = [job EXCEPT !.pc = next]
WriteManifest ==
  /\ At("batch") /\ job.k > Len(Planned)
  /\ WriteOnce("batch", "manifest", job.records, "report")
WriteReport == WriteOnce("report", "report", ReportOf(job.records), "result")
WriteResult ==
  /\ At("result") /\ Quiet /\ UNCHANGED <<ledger, sandbox>>
  /\ IF ~EnvelopeAccepts(job.records) THEN Refuse /\ UNCHANGED disk
     ELSE /\ Write("result", [status |-> NativeStatus(job.records),
                              when |-> calls, records |-> job.records])
          /\ job' = [job EXCEPT !.pc = "completion"] /\ UNCHANGED outcome
CompleteStage ==
  /\ At("completion") /\ Quiet /\ UNCHANGED <<ledger, sandbox>>
  /\ Write("completion", disk[attempt]["result"])
  /\ Answer(disk[attempt]["result"])

Work ==
  \/ Validate \/ ReusePlan \/ WriteNativePlan \/ FreezePlan \/ Start
  \/ SkipCandidate \/ ReuseCandidate \/ LaunchWorker \/ WorkerFinishes
  \/ FileCandidate \/ WriteManifest \/ WriteReport \/ WriteResult \/ CompleteStage
Next == Invoke \/ Crash \/ Work \/ WorkerFails \/ OrphanEnds

\* start is one synchronous function; a worker ends or is killed after the
\* wall time it was given.
Spec == Init /\ [][Next]_vars /\ WF_vars(Work \/ WorkerFails)
=============================================================================
