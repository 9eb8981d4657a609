----------------------------- MODULE JobControl -----------------------------
(***************************************************************************)
(* One external job, submitted for one attempt of a stage under one        *)
(* operation key: the runners of the DFT and many-body stages, their       *)
(* backends, and what the orchestrator files of their answers.             *)
(*                                                                         *)
(* A runner keeps no state of its own.  It leaves artifacts behind, one    *)
(* write after the other: the operation, a numbered status snapshot per    *)
(* poll, the result, the terminal operation.  A job is lost with the       *)
(* process where the backend keeps it in memory ("mock", "many_body") and  *)
(* restored from the artifacts; behind the bridge it lives on, but any     *)
(* request or reply may be lost.                                           *)
(*                                                                         *)
(* StageLifecycle has the whole stage loop with a job reduced to its       *)
(* status; here is the job, with the stage loop reduced to this attempt.   *)
(***************************************************************************)
EXTENDS Naturals, Sequences, StateMachine

CONSTANTS
  Cases,        \* pairs of a backend and the scenario it plays
  MaxPolls,     \* bound on the polls of a job that never ends
  MaxCrashes,   \* bound on crashes of a command
  MaxLost       \* bound on lost requests and replies

Kinds == {"mock", "bridge", "many_body"}

\* What a backend answers poll after poll; the last word is repeated.
Script ==
  [success |-> <<"QUEUED", "RUNNING", "SUCCEEDED">>,
   failure |-> <<"RUNNING", "FAILED">>,
   timeout |-> <<"RUNNING", "TIMEOUT">>,
   endless |-> <<"QUEUED", "RUNNING">>,
   immediate |-> <<"SUCCEEDED">>,
   regression |-> <<"QUEUED", "RUNNING", "QUEUED">>,
   mismatch |-> <<"QUEUED", "RUNNING", "SUCCEEDED">>,
   refused |-> <<"QUEUED">>]

ASSUME JobAssumption ==
  /\ Cases \subseteq Kinds \X DOMAIN Script
  /\ MaxPolls \in Nat /\ MaxCrashes \in Nat /\ MaxLost \in Nat

-----------------------------------------------------------------------------
(* Values.                                                                  *)

Ended == {"SUCCEEDED", "FAILED", "TIMEOUT", "CANCELLED"}
Statuses == {"CREATED", "QUEUED", "RUNNING"} \cup Ended
Rank == [s \in Statuses |-> CASE s = "CREATED" -> 0 [] s = "QUEUED" -> 1
                              [] s = "RUNNING" -> 2 [] OTHER -> 3]

\* Mutant: a job may fall back as long as it has not ended.
FollowsUntilEnd(old, new) == old \in Ended => new = old

\* _validate_status_transition, _validate_transition.
Follows(old, new) ==
  /\ old \in Ended => new = old
  /\ Rank[new] >= Rank[old]

\* A job at its backend: its status, the polls answered, and the first poll
\* its history remembers.
Jobs == [status : Statuses, polls : Nat, since : Nat]
NoJob == [status |-> "NONE", polls |-> 0, since |-> 0]
Restored(status, polls) ==
  [status |-> status, polls |-> polls,
   since |-> IF polls = 0 THEN 1 ELSE polls]
NewJob == Restored("CREATED", 0)

\* Files: an operation, a result (its content depends on the history the
\* backend remembers), a terminal operation.
Sightings == [status : Statuses, seq : Nat]
Nothing == [status |-> "NONE", seq |-> 0]
Results == [status : Ended, since : Nat]
NoResult == [status |-> "NONE", since |-> 0]

\* What the orchestrator is told of a job (_external_status).
Reports == [status : JobStatus \cup {"NONE"}, seq : Nat]

Report(x) ==
  [status |-> CASE x.status = "CREATED" -> "SUBMITTED"
                [] x.status = "QUEUED" -> "RUNNING"
                [] OTHER -> x.status,
   seq |-> x.seq]

\* ControlStageOutcome: "ref" is operation_ref, the operation key or the
\* address of the result; "why" stands for its errors.
Outcomes ==
  [kind : {"WAITING_EXTERNAL", "COMPLETED", "FAILED"}, status : StageStatus,
   ref : {"key", "result"}, job : Reports,
   why : {"none", "start", "lost", "regression", "conflict", "hash", "user",
          "inconsistent"}]
NoOutcome == [kind |-> "NONE", status |-> "NONE", ref |-> "none",
              job |-> Nothing, why |-> "none"]

Waiting(x) ==
  [kind |-> "WAITING_EXTERNAL", status |-> "RUNNING", ref |-> "key",
   job |-> Report(x), why |-> "none"]

StageStatusOf(status) ==
  CASE status = "SUCCEEDED" -> "SUCCEEDED"
    [] status = "FAILED" -> "PERMANENT_FAILED"
    [] status = "TIMEOUT" -> "RETRYABLE_FAILED"
    [] OTHER -> "CANCELLED"

Verdict(x, ref) ==
  [kind |-> IF x.status \in {"SUCCEEDED", "CANCELLED"} THEN "COMPLETED"
                                                        ELSE "FAILED",
   status |-> StageStatusOf(x.status), ref |-> ref, job |-> Report(x),
   why |-> "none"]

\* _failed: a lost request may be tried again, anything else may not.
Failed(why) ==
  [kind |-> "FAILED",
   status |-> IF why = "lost" THEN "RETRYABLE_FAILED" ELSE "PERMANENT_FAILED",
   ref |-> "key", job |-> Nothing, why |-> why]

VARIABLES
  kind, scenario,                                 \* the backend
  job,                                            \* the job it holds
  operation, snapshots, result, terminal,         \* artifacts
  stageRow, attemptRow, ledger, jobRow,           \* tables
  node, previous, pend,                           \* checkpoint
  pc, seen, fetched, answer,                      \* process
  raised, crashes, lost

files == <<operation, snapshots, result, terminal>>
tables == <<stageRow, attemptRow, ledger, jobRow>>
graph == <<node, previous, pend>>
memory == <<seen, fetched, answer>>
vars == <<kind, scenario, job, files, tables, graph, pc, memory, raised,
          crashes, lost>>

Volatile == kind # "bridge"

-----------------------------------------------------------------------------
(* The backends.                                                            *)

\* status: the next word of the script, unless the job has ended.
Advanced(j) ==
  IF j.status \in Ended THEN j
  ELSE LET words == Script[scenario]
           p == j.polls + 1
       IN [j EXCEPT !.polls = p,
                    !.status = words[IF p < Len(words) THEN p ELSE Len(words)]]

Stopped(j) == IF j.status \in Ended THEN j ELSE [j EXCEPT !.status = "CANCELLED"]

\* The runner's view of where the job was last seen: the latest snapshot, or
\* the many-body runner's rewritten operation.
LastSeen ==
  IF kind = "many_body" \/ snapshots = <<>> THEN operation
  ELSE [status |-> snapshots[Len(snapshots)], seq |-> Len(snapshots)]

\* _restore_backend_if_supported: only a job the process has lost.
Known == IF job = NoJob THEN Restored(LastSeen.status, LastSeen.seq) ELSE job

-----------------------------------------------------------------------------
(* Steps of a runner.                                                       *)

Goes(to) ==
  /\ pc' = to
  /\ UNCHANGED <<kind, scenario, tables, graph, raised, crashes>>

Answers(o) ==
  /\ Goes("answered")
  /\ answer' = o
  /\ UNCHANGED <<seen, fetched>>

Loses == Volatile = FALSE /\ lost < MaxLost /\ lost' = lost + 1

(* start *)

\* An operation that is on file is not submitted again.
StartKnown ==
  /\ pc = "start"
  /\ operation # Nothing
  /\ Answers(IF terminal = Nothing THEN Waiting(LastSeen)
             ELSE Verdict(terminal,
                          IF kind = "many_body" THEN "key" ELSE "result"))
  /\ UNCHANGED <<job, files, lost>>

\* Mutant: the operation on file is not looked for.
SubmitAgain ==
  /\ pc = "start"
  /\ Volatile
  /\ IF scenario = "refused"
       THEN Answers(Failed("start")) /\ UNCHANGED job
       ELSE /\ Goes("ledger")
            /\ job' = IF job = NoJob THEN NewJob ELSE job
            /\ UNCHANGED memory
  /\ UNCHANGED <<files, lost>>

Submit ==
  /\ pc = "start"
  /\ Volatile /\ operation = Nothing
  /\ IF scenario = "refused"
       THEN Answers(Failed("start")) /\ UNCHANGED job
       ELSE /\ Goes("ledger")
            /\ job' = IF job = NoJob THEN NewJob ELSE job
            /\ UNCHANGED memory
  /\ UNCHANGED <<files, lost>>

\* Behind the bridge a key has one job, however often it is posted.
Accepted == job' = IF job = NoJob THEN NewJob ELSE job

Post ==
  /\ pc = "start"
  /\ ~Volatile /\ operation = Nothing
  /\ \/ Accepted /\ Goes("ledger") /\ UNCHANGED lost
     \/ Accepted /\ Goes("look up") /\ Loses
     \/ Goes("look up") /\ Loses /\ UNCHANGED job
  /\ UNCHANGED <<files, memory>>

\* Mutant: a job that cannot be looked up is taken for accepted.
LookUpTrusts ==
  /\ pc = "look up"
  /\ Goes("ledger")
  /\ UNCHANGED <<job, files, memory, lost>>

\* A post that failed is looked up by its key.
LookUp ==
  /\ pc = "look up"
  /\ \/ /\ job # NoJob
        /\ Goes("ledger")
        /\ UNCHANGED <<memory, lost>>
     \/ job = NoJob /\ Answers(Failed("lost")) /\ UNCHANGED lost
     \/ Loses /\ Answers(Failed("lost"))
  /\ UNCHANGED <<job, files>>

WriteOperation ==
  /\ pc = "ledger"
  /\ Answers(Waiting([status |-> "CREATED", seq |-> 0]))
  /\ operation' = [status |-> "CREATED", seq |-> 0]
  /\ UNCHANGED <<job, snapshots, result, terminal, lost>>

(* reconcile *)

\* The DFT runner replays a terminal operation and names the result in it.
ReplayTerminal ==
  /\ pc = "observe"
  /\ kind # "many_body" /\ terminal # Nothing
  /\ Answers(Verdict(terminal, "result"))
  /\ UNCHANGED <<job, files, lost>>

Observe ==
  LET next == Advanced(Known)
  IN /\ pc = "observe"
     /\ kind = "many_body" \/ terminal = Nothing
     /\ scenario = "endless" => next.polls <= MaxPolls
     /\ \/ /\ job' = next
           /\ IF Follows(LastSeen.status, next.status)
                THEN /\ Goes("snapshot")
                     /\ seen' = [status |-> next.status,
                                 seq |-> LastSeen.seq + 1]
                     /\ UNCHANGED <<fetched, answer>>
                ELSE Answers(Failed("regression"))
           /\ UNCHANGED lost
        \/ /\ Loses /\ job' \in {job, next}
           /\ Answers(Failed("lost"))
     /\ UNCHANGED files

\* Mutant: a job that has ended is closed without its result.
AfterSnapshotCloses ==
  IF seen.status \notin Ended THEN "update" ELSE "terminal"

AfterSnapshot ==
  IF seen.status \notin Ended THEN "update"
  ELSE IF kind = "many_body" /\ seen.status # "SUCCEEDED" THEN "terminal"
  ELSE "fetch"

\* An immutable file is written again only with the content it has.
WriteSnapshot ==
  /\ pc = "snapshot"
  /\ IF seen.seq > Len(snapshots)
       THEN /\ Goes(AfterSnapshot)
            /\ snapshots' = Append(snapshots, seen.status)
            /\ UNCHANGED memory
       ELSE /\ IF snapshots[seen.seq] = seen.status
                 THEN Goes(AfterSnapshot) /\ UNCHANGED memory
                 ELSE Answers(Failed("conflict"))
            /\ UNCHANGED snapshots
  /\ UNCHANGED <<job, operation, result, terminal, lost>>

\* The many-body runner also keeps the latest status in its operation.
UpdateOperation ==
  /\ pc = "update"
  /\ Answers(Waiting(seen))
  /\ operation' = IF kind = "many_body" THEN seen ELSE operation
  /\ UNCHANGED <<job, snapshots, result, terminal, lost>>

\* fetch_result: only the many-body result tells the history of its job.
Fetch ==
  /\ pc = "fetch"
  /\ \/ /\ scenario # "mismatch"
        /\ Goes("result")
        /\ fetched' = [status |-> seen.status,
                       since |-> IF kind = "many_body" THEN job.since ELSE 1]
        /\ UNCHANGED <<seen, answer, lost>>
     \/ /\ scenario = "mismatch"
        /\ Answers(Failed("hash")) /\ UNCHANGED lost
     \/ Loses /\ Answers(Failed("lost"))
  /\ UNCHANGED <<job, files>>

WriteResult ==
  /\ pc = "result"
  /\ IF result \in {NoResult, fetched}
       THEN /\ Goes("terminal")
            /\ result' = fetched
            /\ UNCHANGED memory
       ELSE Answers(Failed("conflict")) /\ UNCHANGED result
  /\ UNCHANGED <<job, operation, snapshots, terminal, lost>>

WriteTerminal ==
  /\ pc = "terminal"
  /\ IF terminal \in {Nothing, seen}
       THEN Answers(Verdict(seen, "key")) /\ terminal' = seen
       ELSE Answers(Failed("conflict")) /\ UNCHANGED terminal
  /\ UNCHANGED <<job, operation, snapshots, result, lost>>

-----------------------------------------------------------------------------
(* The orchestrator: commands, and the record of an answer.                 *)

Commands(to) ==
  /\ pc = "idle" /\ pc' = to
  /\ UNCHANGED <<kind, scenario, files, tables, graph, crashes>>

\* execute_or_reconcile_stage, also when it is executed again.
Execute ==
  /\ node = "execute" /\ Commands("start")
  /\ UNCHANGED <<job, memory, raised, lost>>

\* Mutant: only a Run that its checkpoint calls waiting is polled.
ReconcileWaiting ==
  /\ node = "waiting" /\ Commands("observe")
  /\ UNCHANGED <<job, memory, raised, lost>>

\* A job is polled again until the record of its last answer is complete.
Reconcile ==
  /\ previous.kind = "WAITING_EXTERNAL" /\ Commands("observe")
  /\ UNCHANGED <<job, memory, raised, lost>>

RecordAgain ==
  /\ node = "record" /\ previous = NoOutcome /\ Commands("stage")
  /\ UNCHANGED <<job, memory, raised, lost>>

Cancelled ==
  [kind |-> "COMPLETED", status |-> "CANCELLED", ref |-> previous.ref,
   job |-> [status |-> "CANCELLED", seq |-> previous.job.seq + 1],
   why |-> "user"]

\* cancel restores a lost job as its operation describes it, which for DFT is
\* the job as submitted; a lost request leaves the command with an error, and
\* so does every cancellation of a many-body job, whose operation is looked up
\* under the cancellation's key.
Cancel ==
  /\ previous.kind = "WAITING_EXTERNAL"
  /\ \/ /\ kind # "many_body"
        /\ Commands("answered")
        /\ job' = Stopped(IF job = NoJob
                            THEN Restored(operation.status, operation.seq)
                            ELSE job)
        /\ answer' = Cancelled
        /\ UNCHANGED <<raised, lost>>
     \/ /\ kind = "many_body" /\ Commands("idle")
        /\ raised' = raised \cup {"cancel"}
        /\ UNCHANGED <<job, answer, lost>>
     \/ /\ Loses /\ Commands("idle")
        /\ job' \in {job, Stopped(job)}
        /\ raised' = raised \cup {"cancel"}
        /\ UNCHANGED answer
  /\ UNCHANGED <<seen, fetched>>

\* Mutant: the answer is not compared with the row.
TakesAnyAnswer(rep) == TRUE

\* validate_external_job_record
JobAccepts(rep) ==
  rep # Nothing /\ jobRow # Nothing =>
    /\ rep.seq >= jobRow.seq
    /\ rep.seq = jobRow.seq => rep.status = jobRow.status
    /\ CanMoveJob(jobRow.status, rep.status)

Inconsistent ==
  [kind |-> "FAILED", status |-> "PERMANENT_FAILED", ref |-> previous.ref,
   job |-> Nothing, why |-> "inconsistent"]

\* The answer is checked against the job's row and becomes the pending outcome
\* (record_stage_outcome repeats the check on what was accepted here).
Return ==
  /\ pc = "answered" /\ pc' = "stage"
  /\ pend' = IF JobAccepts(answer.job) THEN answer ELSE Inconsistent
  /\ node' = "record"
  /\ seen' = Nothing /\ fetched' = NoResult /\ answer' = NoOutcome
  /\ UNCHANGED <<kind, scenario, job, files, tables, previous, raised,
                 crashes, lost>>

Records(to) ==
  /\ pc' = to
  /\ UNCHANGED <<kind, scenario, job, files, graph, memory, raised, crashes,
                 lost>>

StageAccepts ==
  /\ CanMoveStage(stageRow.status, pend.status)
  /\ stageRow.ref \in {"none", pend.ref}

RecordStage ==
  /\ pc = "stage"
  /\ StageAccepts
  /\ Records("operation")
  /\ stageRow' = [status |-> pend.status, ref |-> pend.ref]
  /\ UNCHANGED <<attemptRow, ledger, jobRow>>

OperationAccepts ==
  /\ ledger.ref \in {"none", pend.ref}
  /\ ledger.status \in {"SUCCEEDED", "PERMANENT_FAILED", "CANCELLED"} =>
       ledger = pend

RecordLedger ==
  /\ pc = "operation"
  /\ OperationAccepts
  /\ Records("attempt")
  /\ ledger' = pend
  /\ UNCHANGED <<stageRow, attemptRow, jobRow>>

AttemptAccepts == CanMoveStage(attemptRow, pend.status)

RecordAttempt ==
  /\ pc = "attempt"
  /\ AttemptAccepts
  /\ Records("job")
  /\ attemptRow' = pend.status
  /\ UNCHANGED <<stageRow, ledger, jobRow>>

RecordJob ==
  /\ pc = "job"
  /\ Records("checkpoint")
  /\ jobRow' = IF pend.job = Nothing THEN jobRow ELSE pend.job
  /\ UNCHANGED <<stageRow, attemptRow, ledger>>

\* A check that refuses raises out of the command.
RecordRefused ==
  /\ \/ pc = "stage" /\ ~StageAccepts
     \/ pc = "operation" /\ ~OperationAccepts
     \/ pc = "attempt" /\ ~AttemptAccepts
  /\ pc' = "idle" /\ raised' = raised \cup {pc}
  /\ UNCHANGED <<kind, scenario, job, files, tables, graph, memory, crashes,
                 lost>>

RecordDone ==
  /\ pc = "checkpoint" /\ pc' = "idle"
  /\ previous' = pend /\ pend' = NoOutcome
  /\ node' = IF pend.kind = "WAITING_EXTERNAL" THEN "waiting" ELSE "settled"
  /\ UNCHANGED <<kind, scenario, job, files, tables, memory, raised, crashes,
                 lost>>

-----------------------------------------------------------------------------
\* The process dies; a backend in memory dies with it.
Crash ==
  /\ pc # "idle" /\ crashes < MaxCrashes
  /\ crashes' = crashes + 1
  /\ pc' = "idle" /\ seen' = Nothing /\ fetched' = NoResult
  /\ answer' = NoOutcome
  /\ job' = IF Volatile THEN NoJob ELSE job
  /\ UNCHANGED <<kind, scenario, files, tables, graph, raised, lost>>

\* The next command is given in a process of its own.
NewProcess ==
  /\ pc = "idle" /\ Volatile /\ job # NoJob /\ node # "settled"
  /\ job' = NoJob
  /\ UNCHANGED <<kind, scenario, files, tables, graph, pc, memory, raised,
                 crashes, lost>>

Init ==
  /\ \E case \in Cases : kind = case[1] /\ scenario = case[2]
  /\ job = NoJob
  /\ operation = Nothing /\ snapshots = <<>> /\ result = NoResult
  /\ terminal = Nothing
  /\ stageRow = [status |-> "RUNNING", ref |-> "none"]
  /\ attemptRow = "RUNNING" /\ ledger = NoOutcome /\ jobRow = Nothing
  /\ node = "execute" /\ previous = NoOutcome /\ pend = NoOutcome
  /\ pc = "idle" /\ seen = Nothing /\ fetched = NoResult
  /\ answer = NoOutcome
  /\ raised = {} /\ crashes = 0 /\ lost = 0

RunnerStep ==
  \/ StartKnown \/ Submit \/ Post \/ LookUp \/ WriteOperation
  \/ ReplayTerminal \/ Observe \/ WriteSnapshot \/ UpdateOperation \/ Fetch
  \/ WriteResult \/ WriteTerminal

RecordStep ==
  \/ Return \/ RecordStage \/ RecordLedger \/ RecordAttempt \/ RecordJob
  \/ RecordRefused \/ RecordDone

Resume == Execute \/ Reconcile \/ RecordAgain

Next == RunnerStep \/ RecordStep \/ Resume \/ Cancel \/ Crash \/ NewProcess

Spec == Init /\ [][Next]_vars
=============================================================================
