----------------------------- MODULE JobSafety ------------------------------
(***************************************************************************)
(* What must hold of one external job, whatever its backend answers and    *)
(* whatever is lost on the way.                                            *)
(***************************************************************************)
EXTENDS JobControl

\* The artifacts of a job tell one history, although each was written on its
\* own and a poll may be repeated: snapshots never fall back, an operation that
\* is kept up to date is the snapshot of its number, and a terminal operation
\* is the last snapshot and has its result (DFTStageRunner.reconcile,
\* ManyBodyStageRunner.reconcile).
ArtifactsTellOneStory ==
  /\ \A i, j \in DOMAIN snapshots :
       i <= j =>
         /\ Rank[snapshots[i]] <= Rank[snapshots[j]]
         /\ snapshots[i] \in Ended => snapshots[j] = snapshots[i]
  /\ operation.seq > 0 => snapshots[operation.seq] = operation.status
  /\ terminal # Nothing =>
       /\ terminal.seq = Len(snapshots)
       /\ terminal.status = snapshots[Len(snapshots)]
       /\ kind # "many_body" \/ terminal.status = "SUCCEEDED" =>
            result.status = terminal.status

\* A job the orchestrator waits for was accepted and is on file: behind the
\* bridge it exists although a reply was lost (submit, start).
WaitingHasAJob ==
  \A o \in {pend, previous, ledger} :
    o.kind = "WAITING_EXTERNAL" =>
      operation # Nothing /\ (~Volatile => job # NoJob)

\* What the tables say of a job is what the artifacts say: a numbered status
\* is the snapshot of that number, unless the user cancelled; a stage that
\* succeeded or failed with its job has the terminal operation that says so,
\* and no failure of the control chain passes for a success
\* (record_stage_outcome).
RowsAreBacked ==
  /\ jobRow.seq > 0 /\ jobRow.status # "CANCELLED" =>
       /\ jobRow.seq <= Len(snapshots)
       /\ jobRow = Report([status |-> snapshots[jobRow.seq],
                           seq |-> jobRow.seq])
  /\ stageRow.status = "SUCCEEDED" =>
       terminal.status = "SUCCEEDED" /\ result.status = "SUCCEEDED"
  /\ ledger.status = "RETRYABLE_FAILED" /\ ledger.why = "none" =>
       terminal.status = "TIMEOUT"

\* A submission that is on file is not handed in again: whatever a step makes the
\* backend hold, it is not a job that has just been created.
NotHandedInAgain ==
  operation # Nothing /\ job' = NewJob => job = NewJob

\* The row of a job takes later answers only, and no end for another.
RowTakesLaterAnswers ==
  jobRow' # jobRow /\ jobRow # Nothing =>
    /\ jobRow'.seq > jobRow.seq
    /\ jobRow.status \in TerminalJob => jobRow'.status = jobRow.status

\* A job only moves on, at the backend and in its row.  The process that executes
\* a stage once more may know neither the answer to its submission nor the job,
\* and a poll may be in the row and not in the checkpoint from which the next
\* command counts (start, _restore_backend_if_supported,
\* validate_external_job_record, cancel_current_external_stage).
JobOnlyMovesOn == [][NotHandedInAgain /\ RowTakesLaterAnswers]_vars

\* A process runs on unless it crashes, and the operator resumes what waits.
FairSpec == Spec /\ WF_vars(RunnerStep \/ RecordStep) /\ WF_vars(Resume)

\* A job that ends is settled in the tables and the checkpoint, whatever was
\* lost, unless a repository check refuses its record (reconcile,
\* record_stage_outcome).
Settles ==
  scenario # "endless" =>
    <>(node = "settled" \/ raised \ {"cancel"} # {})
-----------------------------------------------------------------------------
(* What makes them inductive.                                               *)

ShapesOK ==
  /\ kind \in Kinds /\ scenario \in DOMAIN Script
  /\ job \in Jobs \cup {NoJob}
  /\ operation \in Sightings \cup {Nothing}
  /\ snapshots \in Seq(Statuses)
  /\ seen \in Sightings \cup {Nothing}

\* Snapshots never fall back, and end with the job.
SnapshotsGrow ==
  \A i, j \in DOMAIN snapshots :
    i <= j =>
      /\ Rank[snapshots[i]] <= Rank[snapshots[j]]
      /\ snapshots[i] \in Ended => snapshots[j] = snapshots[i]

Last == snapshots[Len(snapshots)]

\* The operation is as it was submitted, or the many-body runner's copy of a
\* snapshot, at most one behind; a terminal operation closes the snapshots.
FilesOK ==
  /\ SnapshotsGrow
  /\ operation.seq = 0 => operation.status \in {"NONE", "CREATED"}
  /\ operation.seq > 0 =>
       /\ kind = "many_body" /\ operation.seq <= Len(snapshots)
       /\ snapshots[operation.seq] = operation.status
       /\ operation.status \notin Ended
  /\ kind = "many_body" => Len(snapshots) <= operation.seq + 1
  /\ terminal # Nothing =>
       /\ snapshots # <<>> /\ terminal.status \in Ended
       /\ terminal = [status |-> Last, seq |-> Len(snapshots)]
       /\ kind # "many_body" \/ terminal.status = "SUCCEEDED" =>
            result.status = terminal.status

\* What a runner has in hand between two of its writes.
RunnerOK ==
  /\ pc \in {"observe", "snapshot", "update", "fetch", "result", "terminal"} =>
       operation # Nothing
  /\ pc \in {"look up", "ledger"} => operation = Nothing
  /\ pc = "snapshot" =>
       /\ seen \in Sightings /\ seen.seq = LastSeen.seq + 1
       /\ Follows(LastSeen.status, seen.status)
       /\ kind = "many_body" \/ terminal = Nothing
  /\ pc \in {"update", "fetch", "result", "terminal"} =>
       /\ snapshots # <<>>
       /\ seen = [status |-> Last, seq |-> Len(snapshots)]
       /\ seen.status \in Ended <=> pc # "update"
  /\ pc = "result" => fetched.status = seen.status
  /\ pc = "terminal" /\ (kind # "many_body" \/ seen.status = "SUCCEEDED") =>
       result.status = seen.status
  /\ ~Volatile /\ (operation # Nothing \/ pc = "ledger") => job # NoJob

\* A numbered report is the snapshot of that number, unless the user cancelled.
Backed(rep) ==
  rep.seq > 0 /\ rep.status # "CANCELLED" =>
    /\ rep.seq \in DOMAIN snapshots
    /\ rep = Report([status |-> snapshots[rep.seq], seq |-> rep.seq])

\* Every answer is backed from the moment it is given, while it is recorded and
\* wherever it is kept.
AnswersOK ==
  /\ \A o \in {answer, pend, previous, ledger} :
       /\ o.kind = "WAITING_EXTERNAL" => operation # Nothing
       /\ o.status = "SUCCEEDED" => terminal.status = "SUCCEEDED"
       /\ o.status = "RETRYABLE_FAILED" /\ o.why = "none" =>
            terminal.status = "TIMEOUT"
       /\ Backed(o.job)
  /\ stageRow.status = "SUCCEEDED" => terminal.status = "SUCCEEDED"
  /\ Backed(jobRow)

\* What is told of a job is a numbered status, and what is recorded was accepted,
\* also when it is recorded once more.
RowOK ==
  /\ {answer.job, pend.job, previous.job, jobRow} \subseteq Reports
  /\ pc \in {"stage", "operation", "attempt", "job"} => node = "record"
  /\ node = "record" => JobAccepts(pend.job)

IndInv == ShapesOK /\ FilesOK /\ RunnerOK /\ AnswersOK
=============================================================================
