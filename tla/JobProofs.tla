----------------------------- MODULE JobProofs ------------------------------
(***************************************************************************)
(* One external job, for every backend and scenario and however many       *)
(* polls, crashes and lost messages: the artifacts tell one history, a job *)
(* that is waited for exists, the tables say what the artifacts say, no    *)
(* submission is handed in twice, and a job row only moves on.             *)
(* IndInv of JobSafety is inductive: FilesOK is what is on disk, RunnerOK  *)
(* what a runner has in hand between two writes, AnswersOK what its        *)
(* answers may claim from the moment they are given.                       *)
(***************************************************************************)
EXTENDS JobSafety, TLAPS

\* A backend has something to say whatever the scenario, and says statuses.
LEMMA Scripts ==
  ASSUME NEW s \in DOMAIN Script
  PROVE  /\ Script[s] \in Seq(Statuses) /\ Len(Script[s]) > 0
         /\ \A i \in 1 .. Len(Script[s]) : Script[s][i] \in Statuses
<1>1. s \in {"success", "failure", "timeout", "endless", "immediate",
             "regression", "mismatch", "refused"}
  BY DEF Script
<1>2. {"QUEUED", "RUNNING", "SUCCEEDED", "FAILED", "TIMEOUT"} \subseteq Statuses
  BY DEF Statuses, Ended
<1>3. CASE s \in {"success", "mismatch"}
  <2>1. Script[s] = <<"QUEUED", "RUNNING", "SUCCEEDED">>
    BY <1>3 DEF Script
  <2> QED
    BY <1>2, <2>1
<1>4. CASE s \in {"failure", "timeout", "endless"}
  <2>1. PICK first \in Statuses, last \in Statuses : Script[s] = <<first, last>>
    BY <1>2, <1>4 DEF Script
  <2> QED
    BY <2>1
<1>5. CASE s \in {"immediate", "refused"}
  BY <1>2, <1>5 DEF Script
<1>6. CASE s = "regression"
  BY <1>2, <1>6 DEF Script
<1> QED
  BY <1>1, <1>3, <1>4, <1>5, <1>6

\* The ranks order the statuses, and an ended job is at the top.
LEMMA Ranks ==
  /\ \A s \in Statuses : Rank[s] \in 0 .. 3
  /\ "NONE" \notin Statuses /\ Ended \subseteq Statuses
  /\ "CREATED" \in Statuses \ Ended /\ Rank["CREATED"] = 0
  /\ \A s \in Statuses : s \in Ended <=> Rank[s] = 3
  BY DEF Rank, Statuses, Ended

\* One more snapshot.
LEMMA OneMore ==
  ASSUME NEW s \in Seq(Statuses), NEW x \in Statuses
  PROVE  /\ Append(s, x) \in Seq(Statuses) /\ Append(s, x) # <<>>
         /\ Len(Append(s, x)) = Len(s) + 1 /\ Len(s) \in Nat
         /\ \A i \in 1 .. Len(s) : Append(s, x)[i] = s[i]
         /\ Append(s, x)[Len(s) + 1] = x
         /\ DOMAIN s = 1 .. Len(s) /\ DOMAIN Append(s, x) = 1 .. Len(s) + 1
         /\ s # <<>> <=> Len(s) > 0
         /\ \A i \in 1 .. Len(s) : s[i] \in Statuses
  OBVIOUS

\* A poll, a restoration and a cancellation leave a job a job.
LEMMA JobsStay ==
  ASSUME ShapesOK, NEW j \in Jobs
  PROVE  Advanced(j) \in Jobs /\ Stopped(j) \in Jobs
<1>1. Stopped(j) \in Jobs
  BY DEF Stopped, Jobs, Statuses, Ended
<1>2. CASE j.status \in Ended
  BY <1>1, <1>2 DEF Advanced
<1>3. CASE j.status \notin Ended
  <2> DEFINE words == Script[scenario]
             p == j.polls + 1
             w == words[IF p < Len(words) THEN p ELSE Len(words)]
  <2>1. j.polls \in Nat /\ j.since \in Nat
    BY DEF Jobs
  <2>2. w \in Statuses
    BY <2>1, Scripts DEF ShapesOK
  <2>3. Advanced(j) = [j EXCEPT !.polls = p, !.status = w]
    BY <1>3 DEF Advanced
  <2> HIDE DEF w
  <2>4. [j EXCEPT !.polls = p, !.status = w] =
          [status |-> w, polls |-> p, since |-> j.since]
    <3>1. PICK a, b, c : j = [status |-> a, polls |-> b, since |-> c]
      BY DEF Jobs
    <3>2. [j EXCEPT !.polls = p] = [status |-> a, polls |-> p, since |-> c]
      BY <3>1
    <3>3. [j EXCEPT !.polls = p, !.status = w] =
            [[j EXCEPT !.polls = p] EXCEPT !.status = w]
      OBVIOUS
    <3>4. [[status |-> a, polls |-> p, since |-> c] EXCEPT !.status = w] =
            [status |-> w, polls |-> p, since |-> c]
      OBVIOUS
    <3>5. j.since = c
      BY <3>1
    <3> HIDE DEF p
    <3> QED
      BY <3>2, <3>3, <3>4, <3>5
  <2> QED
    BY <1>1, <2>1, <2>2, <2>3, <2>4 DEF Jobs
<1> QED
  BY <1>1, <1>2, <1>3

\* A runner knows where it saw an operation that is on file.
LEMMA WhereSeen ==
  ASSUME ShapesOK, FilesOK, operation # Nothing
  PROVE  /\ LastSeen \in Sightings /\ operation \in Sightings
         /\ kind # "many_body" => LastSeen.seq = Len(snapshots)
         /\ kind = "many_body" => LastSeen.seq = operation.seq
         /\ LastSeen.seq > 0 => /\ LastSeen.seq \in DOMAIN snapshots
                                /\ LastSeen.status = snapshots[LastSeen.seq]
         /\ LastSeen.seq <= Len(snapshots)
         /\ LastSeen.seq = 0 => LastSeen.status = "CREATED"
<1>1. operation \in Sightings /\ operation.status # "NONE"
  BY Ranks DEF ShapesOK, Sightings
<1>2. CASE kind = "many_body"
  BY <1>1, <1>2 DEF LastSeen, FilesOK, ShapesOK, Sightings
<1>3. CASE kind # "many_body" /\ snapshots = <<>>
  BY <1>1, <1>3 DEF LastSeen, FilesOK, ShapesOK, Sightings
<1>4. CASE kind # "many_body" /\ snapshots # <<>>
  <2>1. LastSeen = [status |-> Last, seq |-> Len(snapshots)]
    BY <1>4 DEF LastSeen, Last
  <2>2. Len(snapshots) \in Nat \ {0} /\ Last \in Statuses
    BY <1>4 DEF ShapesOK, Last
  <2> QED
    BY <1>1, <1>4, <2>1, <2>2 DEF Sightings, ShapesOK, Last
<1> QED
  BY <1>2, <1>3, <1>4

\* The artifacts are written by five steps, all of a runner.
Writes == WriteOperation \/ WriteSnapshot \/ UpdateOperation \/ WriteResult
            \/ WriteTerminal

\* Who writes what: the artifacts, the job, what a runner has in hand, and the
\* answers.
LEMMA WhoWrites ==
  ASSUME Next
  PROVE  /\ UNCHANGED <<kind, scenario>>
         /\ UNCHANGED files \/ Writes
         /\ UNCHANGED job \/ Submit \/ Post \/ Observe \/ Cancel
              \/ (job' = NoJob /\ Volatile)
         /\ UNCHANGED seen \/ Observe \/ seen' = Nothing
         /\ UNCHANGED tables \/ RecordStep
<1>1. CASE RunnerStep
  BY <1>1
     DEF RunnerStep, StartKnown, Submit, Post, LookUp, WriteOperation,
         ReplayTerminal, Observe, WriteSnapshot, UpdateOperation, Fetch,
         WriteResult, WriteTerminal, Goes, Answers, Writes, files, memory
<1>2. CASE RecordStep
  BY <1>2
     DEF RecordStep, Return, RecordStage, RecordLedger, RecordAttempt,
         RecordJob, RecordRefused, RecordDone, Records, files, memory
<1>3. CASE Resume \/ Cancel \/ Crash \/ NewProcess
  BY <1>3
     DEF Resume, Execute, Reconcile, RecordAgain, Cancel, Crash, NewProcess,
         Commands, memory, files
<1> QED
  BY <1>1, <1>2, <1>3 DEF Next

-----------------------------------------------------------------------------
(* The invariant.                                                           *)

\* Nothing is submitted yet.
LEMMA InitInv == Init => IndInv
<1> SUFFICES ASSUME Init PROVE IndInv
  OBVIOUS
<1>1. ShapesOK
  <2>1. PICK case \in Cases : kind = case[1] /\ scenario = case[2]
    BY DEF Init
  <2>2. kind \in Kinds /\ scenario \in DOMAIN Script
    BY <2>1, JobAssumption
  <2> QED
    BY <2>2 DEF Init, ShapesOK
<1>2. FilesOK
  BY Ranks DEF Init, FilesOK, SnapshotsGrow, Nothing
<1>3. RunnerOK
  BY DEF Init, RunnerOK
<1>4. AnswersOK
  BY DEF Init, AnswersOK, Backed, NoOutcome, Nothing
<1> QED
  BY <1>1, <1>2, <1>3, <1>4 DEF IndInv

\* A step leaves every value of its kind.
LEMMA ShapesStep ==
  ASSUME IndInv, Next
  PROVE  ShapesOK'
<1>1. UNCHANGED <<kind, scenario>> /\ ShapesOK /\ FilesOK /\ RunnerOK
  BY WhoWrites DEF IndInv
<1>2. Observe => operation # Nothing /\ Known \in Jobs
  <2>1. ASSUME Observe PROVE operation # Nothing
    BY <1>1, <2>1 DEF Observe, RunnerOK
  <2>2. ASSUME operation # Nothing PROVE Known \in Jobs
    BY <1>1, <2>2, WhereSeen DEF Known, ShapesOK, Restored, Jobs, Sightings
  <2> QED
    BY <2>1, <2>2
<1>3. job' \in Jobs \cup {NoJob}
  <2>1. NewJob \in Jobs
    BY Ranks DEF NewJob, Restored, Jobs
  <2>2. CASE Submit \/ Post
    BY <1>1, <2>1, <2>2 DEF Submit, Post, Accepted, ShapesOK
  <2>3. CASE Observe
    <3>1. Advanced(Known) \in Jobs
      BY <1>1, <1>2, <2>3, JobsStay
    <3>2. job' \in {job, Advanced(Known)}
      BY <2>3 DEF Observe
    <3> QED
      BY <1>1, <3>1, <3>2 DEF ShapesOK
  <2>4. CASE Cancel
    <3>1. operation # Nothing
      BY <2>4 DEF Cancel, IndInv, AnswersOK
    <3>2. Restored(operation.status, operation.seq) \in Jobs
      BY <1>1, <3>1 DEF ShapesOK, Restored, Jobs, Sightings
    <3>3. CASE job = NoJob
      <4>1. \/ job' \in {job, Stopped(Restored(operation.status,
                                               operation.seq))}
            \/ ~Volatile /\ job' = Stopped(job)
        BY <2>4, <3>3 DEF Cancel, Loses
      <4>2. Volatile
        BY <1>1, <3>1, <3>3 DEF RunnerOK
      <4> QED
        BY <1>1, <3>2, <4>1, <4>2, JobsStay DEF ShapesOK
    <3>4. CASE job # NoJob
      <4>1. job' \in {job, Stopped(job)} /\ job \in Jobs
        BY <1>1, <2>4, <3>4 DEF Cancel, ShapesOK
      <4> QED
        BY <1>1, <4>1, JobsStay
    <3> QED
      BY <3>3, <3>4
  <2> QED
    BY <1>1, <2>2, <2>3, <2>4, WhoWrites DEF ShapesOK
<1>4. seen' \in Sightings \cup {Nothing}
  <2>1. CASE Observe
    <3>1. Advanced(Known) \in Jobs /\ LastSeen \in Sightings
      BY <1>1, <1>2, <2>1, JobsStay, WhereSeen
    <3>2. \/ seen' = [status |-> Advanced(Known).status,
                      seq |-> LastSeen.seq + 1]
          \/ UNCHANGED seen
      BY <2>1 DEF Observe, Answers
    <3> QED
      BY <1>1, <3>1, <3>2 DEF ShapesOK, Sightings, Jobs
  <2> QED
    BY <1>1, <2>1, WhoWrites DEF ShapesOK
<1>5. operation' \in Sightings \cup {Nothing}
  BY <1>1, WhoWrites, Ranks
     DEF ShapesOK, Writes, files, WriteOperation, WriteSnapshot,
         UpdateOperation, WriteResult, WriteTerminal, Sightings
<1>6. snapshots' \in Seq(Statuses)
  <2>1. CASE WriteSnapshot
    <3>1. seen \in Sightings
      BY <1>1, <2>1 DEF WriteSnapshot, RunnerOK
    <3>2. UNCHANGED snapshots \/ snapshots' = Append(snapshots, seen.status)
      BY <2>1 DEF WriteSnapshot
    <3> QED
      BY <1>1, <3>1, <3>2, OneMore DEF ShapesOK, Sightings
  <2> QED
    BY <1>1, <2>1, WhoWrites
       DEF ShapesOK, Writes, files, WriteOperation, UpdateOperation,
           WriteResult, WriteTerminal
<1> QED
  BY <1>1, <1>3, <1>4, <1>5, <1>6 DEF ShapesOK

\* What is on disk tells one history after every write.
LEMMA FilesStep ==
  ASSUME IndInv, Next
  PROVE  FilesOK'
<1>1. /\ UNCHANGED <<kind, scenario>> /\ ShapesOK /\ ShapesOK' /\ FilesOK
      /\ RunnerOK
  BY WhoWrites, ShapesStep DEF IndInv
<1>2. /\ snapshots \in Seq(Statuses) /\ Len(snapshots) \in Nat
      /\ DOMAIN snapshots = 1 .. Len(snapshots)
      /\ snapshots # <<>> <=> Len(snapshots) > 0
      /\ \A i \in 1 .. Len(snapshots) : snapshots[i] \in Statuses
  BY <1>1 DEF ShapesOK
<1>3. CASE UNCHANGED files
  BY <1>1, <1>3 DEF FilesOK, SnapshotsGrow, Last, files
<1>4. CASE WriteOperation
  <2>1. /\ operation' = [status |-> "CREATED", seq |-> 0]
        /\ UNCHANGED <<snapshots, result, terminal>> /\ operation = Nothing
    BY <1>1, <1>4 DEF WriteOperation, RunnerOK
  <2> QED
    BY <1>1, <2>1 DEF FilesOK, SnapshotsGrow, Last, Nothing
<1>5. CASE WriteSnapshot
  <2>1. /\ UNCHANGED <<operation, result, terminal>>
        /\ pc = "snapshot" /\ seen \in Sightings /\ operation # Nothing
        /\ seen.seq = LastSeen.seq + 1
        /\ Follows(LastSeen.status, seen.status)
        /\ kind = "many_body" \/ terminal = Nothing
    BY <1>1, <1>5 DEF WriteSnapshot, RunnerOK
  <2>2. CASE UNCHANGED snapshots
    BY <1>1, <2>1, <2>2 DEF FilesOK, SnapshotsGrow, Last
  <2>3. CASE /\ seen.seq > Len(snapshots)
             /\ snapshots' = Append(snapshots, seen.status)
    <3>1. /\ LastSeen \in Sightings /\ LastSeen.seq = Len(snapshots)
          /\ LastSeen.seq > 0 => LastSeen.status = Last
          /\ kind = "many_body" => LastSeen.seq = operation.seq
          /\ LastSeen.seq = 0 => LastSeen.status = "CREATED"
      BY <1>1, <1>2, <2>1, <2>3, WhereSeen DEF Sightings, Last
    <3>2. /\ Len(snapshots') = Len(snapshots) + 1
          /\ \A i \in 1 .. Len(snapshots) : snapshots'[i] = snapshots[i]
          /\ snapshots'[Len(snapshots) + 1] = seen.status
          /\ DOMAIN snapshots' = 1 .. Len(snapshots) + 1
          /\ snapshots' # <<>> /\ seen.status \in Statuses
      BY <1>2, <2>1, <2>3, OneMore DEF Sightings
    <3>3. terminal = Nothing
      <4>1. CASE kind = "many_body" /\ terminal # Nothing
        <5>1. /\ Len(snapshots) > 0 /\ Last \in Ended
              /\ Len(snapshots) = operation.seq
          BY <1>1, <1>2, <3>1, <4>1 DEF FilesOK
        <5>2. operation.status = Last /\ operation.status \notin Ended
          BY <1>1, <1>2, <5>1 DEF FilesOK, Last
        <5> QED
          BY <5>1, <5>2
      <4> QED
        BY <2>1, <4>1
    <3>4. SnapshotsGrow'
      <4>1. ASSUME NEW i \in 1 .. Len(snapshots) + 1,
                   NEW k \in 1 .. Len(snapshots) + 1, i <= k
            PROVE  /\ Rank[snapshots'[i]] <= Rank[snapshots'[k]]
                   /\ snapshots'[i] \in Ended => snapshots'[k] = snapshots'[i]
        <5>1. CASE k <= Len(snapshots)
          BY <1>1, <1>2, <3>2, <4>1, <5>1 DEF FilesOK, SnapshotsGrow
        <5>2. CASE i = Len(snapshots) + 1
          <6>1. k = i
            BY <1>2, <4>1, <5>2
          <6> QED
            BY <3>2, <5>2, <6>1, Ranks
        <5>3. CASE k = Len(snapshots) + 1 /\ i <= Len(snapshots)
          <6>1. /\ Rank[snapshots[i]] <= Rank[Last]
                /\ snapshots[i] \in Ended => Last = snapshots[i]
            BY <1>1, <1>2, <4>1, <5>3 DEF FilesOK, SnapshotsGrow, Last
          <6>2. /\ Rank[Last] <= Rank[seen.status]
                /\ Last \in Ended => seen.status = Last
            BY <1>2, <3>1, <2>1, <5>3 DEF Follows
          <6>3. /\ snapshots[i] \in Statuses /\ Last \in Statuses
                /\ Rank[snapshots[i]] \in 0 .. 3 /\ Rank[Last] \in 0 .. 3
                /\ Rank[seen.status] \in 0 .. 3
            BY <1>2, <3>2, <4>1, <5>3, Ranks DEF Last
          <6>4. snapshots'[i] = snapshots[i] /\ snapshots'[k] = seen.status
            BY <3>2, <4>1, <5>3
          <6> QED
            BY <6>1, <6>2, <6>3, <6>4
        <5> QED
          BY <1>2, <4>1, <5>1, <5>2, <5>3
      <4> QED
        BY <3>2, <4>1 DEF SnapshotsGrow
    <3>5. /\ operation.seq > 0 =>
               /\ operation.seq <= Len(snapshots')
               /\ snapshots'[operation.seq] = operation.status
          /\ kind = "many_body" => Len(snapshots') <= operation.seq + 1
      BY <1>1, <1>2, <3>1, <3>2 DEF FilesOK, ShapesOK, Sightings, Nothing
    <3> QED
      BY <1>1, <2>1, <3>3, <3>4, <3>5 DEF FilesOK
  <2> QED
    BY <1>5, <2>2, <2>3 DEF WriteSnapshot
<1>6. CASE UpdateOperation
  <2>1. /\ operation' = IF kind = "many_body" THEN seen ELSE operation
        /\ UNCHANGED <<snapshots, result, terminal>>
        /\ Len(snapshots) > 0 /\ seen = [status |-> Last, seq |-> Len(snapshots)]
        /\ seen.status \notin Ended
    BY <1>1, <1>2, <1>6 DEF UpdateOperation, RunnerOK
  <2>2. SnapshotsGrow' /\ Last' = Last
    BY <1>1, <2>1 DEF FilesOK, SnapshotsGrow, Last
  <2>3. CASE kind = "many_body"
    <3>1. operation'.seq = Len(snapshots) /\ operation'.status = Last
      BY <2>1, <2>3
    <3> QED
      BY <1>1, <1>2, <2>1, <2>2, <2>3, <3>1 DEF FilesOK, Last
  <2>4. CASE kind # "many_body"
    BY <1>1, <2>1, <2>2, <2>4 DEF FilesOK
  <2> QED
    BY <2>3, <2>4
<1>7. CASE WriteResult
  <2>1. /\ UNCHANGED <<operation, snapshots, terminal>>
        /\ result' = result \/ result' = fetched
        /\ fetched.status = seen.status
        /\ seen = [status |-> Last, seq |-> Len(snapshots)]
    BY <1>1, <1>7 DEF WriteResult, RunnerOK
  <2> QED
    BY <1>1, <2>1 DEF FilesOK, SnapshotsGrow, Last
<1>8. CASE WriteTerminal
  <2>1. /\ UNCHANGED <<operation, snapshots, result>>
        /\ terminal' = terminal \/ terminal' = seen
        /\ snapshots # <<>> /\ seen.status \in Ended
        /\ seen = [status |-> Last, seq |-> Len(snapshots)]
        /\ kind # "many_body" \/ seen.status = "SUCCEEDED" =>
             result.status = seen.status
    BY <1>1, <1>8 DEF WriteTerminal, RunnerOK
  <2> QED
    BY <1>1, <2>1 DEF FilesOK, SnapshotsGrow, Last
<1> QED
  BY <1>3, <1>4, <1>5, <1>6, <1>7, <1>8, WhoWrites DEF Writes

\* How a command comes to each of its steps.
LEMMA WhereNext ==
  ASSUME Next
  PROVE  /\ pc' = "observe" => Reconcile
         /\ pc' = "look up" => Post
         /\ pc' = "ledger" => Submit \/ Post \/ LookUp
         /\ pc' = "snapshot" => Observe
         /\ pc' \in {"update", "fetch"} => WriteSnapshot
         /\ pc' = "result" => Fetch
         /\ pc' = "terminal" => WriteSnapshot \/ WriteResult
<1>1. CASE RunnerStep
  BY <1>1
     DEF RunnerStep, StartKnown, Submit, Post, LookUp, WriteOperation,
         ReplayTerminal, Observe, WriteSnapshot, AfterSnapshot, UpdateOperation,
         Fetch, WriteResult, WriteTerminal, Goes, Answers
<1>2. CASE RecordStep
  BY <1>2
     DEF RecordStep, Return, RecordStage, RecordLedger, RecordAttempt,
         RecordJob, RecordRefused, RecordDone, Records
<1>3. CASE Resume \/ Cancel \/ Crash \/ NewProcess
  BY <1>3
     DEF Resume, Execute, Reconcile, RecordAgain, Cancel, Crash, NewProcess,
         Commands
<1> QED
  BY <1>1, <1>2, <1>3 DEF Next

\* Behind the bridge a job that was accepted stays.
LEMMA BridgeKeeps ==
  ASSUME IndInv, Next, ~Volatile, operation' # Nothing \/ pc' = "ledger"
  PROVE  job' # NoJob
<1>1. ShapesOK /\ RunnerOK /\ AnswersOK
  BY DEF IndInv
<1>2. NoJob \notin Jobs /\ NewJob # NoJob
  BY Ranks DEF Jobs, NoJob, NewJob, Restored
<1>3. ASSUME job # NoJob PROVE job' # NoJob
  <2>1. job \in Jobs
    BY <1>1, <1>3 DEF ShapesOK
  <2>2. Observe \/ Cancel => job' \in {job, Advanced(job), Stopped(job)}
    BY <1>3 DEF Observe, Cancel, Known
  <2> QED
    BY <1>1, <1>2, <1>3, <2>1, <2>2, JobsStay, WhoWrites
       DEF Submit, Post, Accepted
<1>4. ASSUME job = NoJob PROVE job' # NoJob
  <2>1. operation = Nothing /\ pc # "ledger"
    BY <1>1, <1>4 DEF RunnerOK
  <2>2. ~WriteOperation
    BY <2>1 DEF WriteOperation
  <2>3. UNCHANGED operation
    BY <1>1, <2>1, <2>2, WhoWrites
       DEF Writes, WriteSnapshot, UpdateOperation, WriteResult, WriteTerminal,
           RunnerOK, files
  <2>4. Submit \/ Post \/ LookUp
    BY <2>1, <2>3, WhereNext
  <2> QED
    BY <1>2, <1>4, <2>1, <2>3, <2>4, WhereNext
       DEF Submit, Post, LookUp, Accepted, Goes, Answers
<1> QED
  BY <1>3, <1>4

\* What a runner has in hand fits what is on disk.
LEMMA RunnerKeeps ==
  ASSUME IndInv, Next
  PROVE  RunnerOK'
<1>1. /\ UNCHANGED <<kind, scenario>> /\ ShapesOK /\ ShapesOK' /\ FilesOK
      /\ FilesOK' /\ RunnerOK /\ AnswersOK
  BY WhoWrites, ShapesStep, FilesStep DEF IndInv
<1>2. /\ snapshots \in Seq(Statuses) /\ Len(snapshots) \in Nat
      /\ DOMAIN snapshots = 1 .. Len(snapshots)
      /\ snapshots # <<>> <=> Len(snapshots) > 0
  BY <1>1 DEF ShapesOK
<1>3. ~Volatile' /\ (operation' # Nothing \/ pc' = "ledger") => job' # NoJob
  BY <1>1, BridgeKeeps DEF Volatile
<1>4. pc' = "observe" => operation' # Nothing
  BY WhereNext DEF Reconcile, Commands, IndInv, AnswersOK, files
<1>5. pc' \in {"look up", "ledger"} => operation' = Nothing
  BY <1>1, WhereNext DEF Post, Submit, LookUp, RunnerOK, files
<1>6. pc' = "snapshot" =>
        /\ operation' # Nothing
        /\ seen' \in Sightings /\ seen'.seq = LastSeen'.seq + 1
        /\ Follows(LastSeen'.status, seen'.status)
        /\ kind' = "many_body" \/ terminal' = Nothing
  <2>1. ASSUME pc' = "snapshot"
        PROVE  /\ operation' # Nothing
               /\ seen' \in Sightings /\ seen'.seq = LastSeen'.seq + 1
               /\ Follows(LastSeen'.status, seen'.status)
               /\ kind' = "many_body" \/ terminal' = Nothing
    <3>1. Observe /\ operation # Nothing /\ UNCHANGED files
      BY <1>1, <2>1, WhereNext DEF Observe, RunnerOK
    <3>2. LastSeen' = LastSeen
      BY <1>1, <3>1 DEF LastSeen, files
    <3>3. /\ Follows(LastSeen.status, Advanced(Known).status)
          /\ seen' = [status |-> Advanced(Known).status,
                      seq |-> LastSeen.seq + 1]
          /\ kind = "many_body" \/ terminal = Nothing
      BY <2>1, <3>1 DEF Observe, Answers, Goes
    <3>4. LastSeen \in Sightings
      BY <1>1, <3>1, WhereSeen
    <3>5. seen' \in Sightings
      BY <1>1, <3>3, <3>4 DEF ShapesOK, Nothing, Sightings
    <3> QED
      BY <1>1, <3>1, <3>2, <3>3, <3>5 DEF files
  <2> QED
    BY <2>1
<1>7. CASE WriteSnapshot
  <2>1. /\ pc = "snapshot" /\ operation # Nothing
        /\ seen \in Sightings /\ seen.seq = LastSeen.seq + 1
        /\ UNCHANGED <<operation, seen, result>> /\ pc' # "snapshot"
    BY <1>1, <1>7
       DEF WriteSnapshot, RunnerOK, Goes, Answers, AfterSnapshot, memory
  <2>2. pc' \in {"update", "fetch", "terminal"} =>
          /\ pc' = AfterSnapshot
          /\ \/ seen.seq > Len(snapshots)
                /\ snapshots' = Append(snapshots, seen.status)
             \/ seen.seq <= Len(snapshots) /\ snapshots' = snapshots
                /\ snapshots[seen.seq] = seen.status
    <3>1. seen.seq > Len(snapshots) \/ seen.seq <= Len(snapshots)
      BY <1>2, <2>1 DEF Sightings
    <3> QED
      BY <1>7, <3>1 DEF WriteSnapshot, Goes, Answers
  <2>3. pc' \in {"update", "fetch", "terminal"} =>
          /\ snapshots' # <<>>
          /\ seen = [status |-> Last', seq |-> Len(snapshots')]
    <3>1. /\ LastSeen.seq \in Nat /\ LastSeen.seq <= Len(snapshots)
          /\ kind # "many_body" => LastSeen.seq = Len(snapshots)
          /\ kind = "many_body" => Len(snapshots) <= LastSeen.seq + 1
      BY <1>1, <2>1, WhereSeen DEF FilesOK, Sightings
    <3>2. seen.seq = Len(snapshots) \/ seen.seq = Len(snapshots) + 1
      BY <1>2, <2>1, <3>1
    <3>3. seen = [status |-> seen.status, seq |-> seen.seq]
          /\ seen.status \in Statuses
      BY <2>1 DEF Sightings
    <3>4. ASSUME pc' \in {"update", "fetch", "terminal"}
          PROVE  /\ snapshots' # <<>> /\ Len(snapshots') = seen.seq
                 /\ snapshots'[seen.seq] = seen.status
      <4>1. CASE /\ seen.seq > Len(snapshots)
                 /\ snapshots' = Append(snapshots, seen.status)
        BY <1>2, <3>2, <3>3, <4>1, OneMore
      <4>2. CASE /\ seen.seq <= Len(snapshots) /\ snapshots' = snapshots
                 /\ snapshots[seen.seq] = seen.status
        <5>1. Len(snapshots) = seen.seq /\ Len(snapshots) > 0
          BY <1>2, <2>1, <3>1, <3>2, <4>2
        <5> QED
          BY <1>2, <4>2, <5>1
      <4> QED
        BY <2>2, <3>4, <4>1, <4>2
    <3> QED
      BY <3>3, <3>4 DEF Last
  <2>4. /\ pc' \in {"update", "fetch", "terminal"} =>
             (seen.status \in Ended <=> pc' # "update")
        /\ pc' = "terminal" => kind = "many_body" /\ seen.status # "SUCCEEDED"
    BY <2>2 DEF AfterSnapshot
  <2>5. pc' \notin {"observe", "look up", "ledger", "result"}
    BY <1>7
       DEF WriteSnapshot, Goes, Answers, AfterSnapshot
  <2> QED
    BY <1>1, <1>3, <2>1, <2>3, <2>4, <2>5 DEF RunnerOK
<1>8. CASE Fetch
  <2>1. /\ pc = "fetch" /\ UNCHANGED <<files, seen>>
        /\ pc' \in {"result", "answered"}
        /\ pc' = "result" => fetched'.status = seen.status
    BY <1>8 DEF Fetch, Goes, Answers
  <2> QED
    BY <1>1, <1>3, <2>1 DEF RunnerOK, files, Last
<1>9. CASE WriteResult
  <2>1. /\ pc = "result" /\ UNCHANGED <<operation, snapshots, terminal>>
        /\ \/ pc' = "answered"
           \/ pc' = "terminal" /\ result' = fetched /\ seen' = seen
    BY <1>9 DEF WriteResult, Goes, Answers, memory
  <2> QED
    BY <1>1, <1>3, <2>1 DEF RunnerOK, Last
<1> QED
  BY <1>3, <1>4, <1>5, <1>6, <1>7, <1>8, <1>9, WhereNext DEF RunnerOK

\* The statuses the orchestrator is told, and what it makes of them.
LEMMA Verdicts ==
  ASSUME NEW x, NEW ref
  PROVE  /\ Waiting(x).job = Report(x) /\ Waiting(x).status = "RUNNING"
         /\ Verdict(x, ref).job = Report(x)
         /\ Verdict(x, ref).kind # "WAITING_EXTERNAL"
         /\ Verdict(x, ref).status = "SUCCEEDED" => x.status = "SUCCEEDED"
         /\ Verdict(x, ref).status = "RETRYABLE_FAILED" => x.status = "TIMEOUT"
         /\ Report(x).seq = x.seq
  BY DEF Waiting, Verdict, Report, StageStatusOf

\* What an answer may claim.
Claims(o) ==
  /\ o.kind = "WAITING_EXTERNAL" => operation # Nothing
  /\ o.status = "SUCCEEDED" => terminal.status = "SUCCEEDED"
  /\ o.status = "RETRYABLE_FAILED" /\ o.why = "none" =>
       terminal.status = "TIMEOUT"
  /\ Backed(o.job)

\* What is claimed of the artifacts stays true: they only grow.
LEMMA FilesStay ==
  ASSUME IndInv, Next
  PROVE  /\ operation # Nothing => operation' # Nothing
         /\ terminal # Nothing => terminal' = terminal
         /\ \A rep : Backed(rep) => Backed(rep)'
         /\ \A o : Claims(o) => Claims(o)'
<1>1. ShapesOK /\ RunnerOK /\ FilesOK
  BY DEF IndInv
<1>2. operation # Nothing => operation' # Nothing
  <2>1. ASSUME UpdateOperation PROVE seen # Nothing
    <3>1. snapshots # <<>> /\ seen = [status |-> Last, seq |-> Len(snapshots)]
      BY <1>1, <2>1 DEF UpdateOperation, RunnerOK
    <3>2. Len(snapshots) # 0
      BY <1>1, <3>1 DEF ShapesOK
    <3> QED
      BY <3>1, <3>2 DEF Nothing
  <2>2. [status |-> "CREATED", seq |-> 0] # Nothing
    BY DEF Nothing
  <2> QED
    BY <2>1, <2>2, WhoWrites
       DEF Writes, files, WriteOperation, WriteSnapshot, UpdateOperation,
           WriteResult, WriteTerminal
<1>3. terminal # Nothing => terminal' = terminal
  BY <1>1, WhoWrites
     DEF Writes, files, WriteOperation, WriteSnapshot, UpdateOperation,
         WriteResult, WriteTerminal
<1>4. /\ DOMAIN snapshots \subseteq DOMAIN snapshots'
      /\ \A i \in DOMAIN snapshots : snapshots'[i] = snapshots[i]
  <2>1. CASE WriteSnapshot
    <3>1. seen.status \in Statuses
      BY <1>1, <2>1 DEF WriteSnapshot, RunnerOK, Sightings
    <3>2. UNCHANGED snapshots \/ snapshots' = Append(snapshots, seen.status)
      BY <2>1 DEF WriteSnapshot
    <3> QED
      BY <1>1, <3>1, <3>2, OneMore DEF ShapesOK
  <2> QED
    BY <2>1, WhoWrites
       DEF Writes, files, WriteOperation, UpdateOperation, WriteResult,
           WriteTerminal
<1>5. ASSUME NEW rep, Backed(rep) PROVE Backed(rep)'
  BY <1>4, <1>5 DEF Backed
<1>6. ASSUME NEW o, Claims(o) PROVE Claims(o)'
  <2>1. Backed(o.job)'
    BY <1>5, <1>6 DEF Claims
  <2>2. terminal = Nothing => terminal.status \notin {"SUCCEEDED", "TIMEOUT"}
    BY DEF Nothing
  <2> QED
    BY <1>2, <1>3, <1>6, <2>1, <2>2 DEF Claims
<1> QED
  BY <1>2, <1>3, <1>5, <1>6

\* A runner claims what is on disk when it answers.
LEMMA RunnerClaims ==
  ASSUME IndInv, Next
  PROVE  Claims(answer)'
<1>1. /\ ShapesOK /\ FilesOK /\ FilesOK' /\ RunnerOK /\ AnswersOK
      /\ snapshots \in Seq(Statuses) /\ Len(snapshots) \in Nat
      /\ DOMAIN snapshots = 1 .. Len(snapshots)
      /\ snapshots # <<>> => Len(snapshots) > 0
  BY FilesStep DEF IndInv, ShapesOK
<1>2. ASSUME NEW why \in {"start", "lost", "regression", "conflict", "hash"}
      PROVE  Claims(Failed(why))'
  BY DEF Claims, Failed, Backed, Nothing
<1>3. ASSUME Claims(answer') PROVE Claims(answer)'
  BY <1>3, FilesStay DEF Claims, Backed
<1>4. ASSUME NEW x, snapshots # <<>>,
              x = [status |-> Last, seq |-> Len(snapshots)]
       PROVE  Backed(Report(x))
  <2>1. /\ Report(x).seq = Len(snapshots) /\ Len(snapshots) \in DOMAIN snapshots
        /\ x = [status |-> snapshots[Len(snapshots)], seq |-> Len(snapshots)]
    BY <1>1, <1>4 DEF Last, Report
  <2> QED
    BY <2>1 DEF Backed
<1>5. terminal # Nothing => Backed(Report(terminal))
  BY <1>1, <1>4 DEF FilesOK
<1>6. CASE UNCHANGED answer
  <2>1. Claims(answer)
    BY <1>1 DEF AnswersOK, Claims
  <2> QED
    BY <1>6, <2>1, FilesStay
<1>7. CASE answer' = NoOutcome
  BY <1>7 DEF Claims, NoOutcome, Backed, Nothing
<1>8. CASE StartKnown
  <2>1. operation # Nothing /\ UNCHANGED files
    BY <1>8 DEF StartKnown
  <2>2. CASE terminal = Nothing
    <3>1. answer' = Waiting(LastSeen)
      BY <1>8, <2>2 DEF StartKnown, Answers
    <3>2. Backed(Report(LastSeen))
      <4>1. LastSeen.seq > 0 =>
              /\ LastSeen.seq \in DOMAIN snapshots
              /\ LastSeen = [status |-> snapshots[LastSeen.seq],
                             seq |-> LastSeen.seq]
        BY <1>1, <2>1, WhereSeen DEF Sightings
      <4> QED
        BY <4>1, Verdicts DEF Backed
    <3>3. Claims(answer')
      BY <2>1, <3>1, <3>2, Verdicts DEF Claims
    <3> QED
      BY <1>3, <3>3
  <2>3. CASE terminal # Nothing
    <3>1. \E ref : answer' = Verdict(terminal, ref)
      BY <1>8, <2>3 DEF StartKnown, Answers
    <3>2. Claims(answer')
      BY <1>5, <2>3, <3>1, Verdicts DEF Claims
    <3> QED
      BY <1>3, <3>2
  <2> QED
    BY <2>2, <2>3
<1>9. CASE ReplayTerminal
  <2>1. /\ terminal # Nothing /\ UNCHANGED files
        /\ answer' = Verdict(terminal, "result")
    BY <1>9 DEF ReplayTerminal, Answers
  <2>2. Claims(answer')
    BY <1>5, <2>1, Verdicts DEF Claims
  <2> QED
    BY <1>3, <2>2
<1>10. CASE WriteOperation
  <2>1. /\ answer' = Waiting([status |-> "CREATED", seq |-> 0])
        /\ operation' # Nothing
    BY <1>10 DEF WriteOperation, Answers, Nothing
  <2> QED
    BY <2>1, Verdicts DEF Claims, Backed
<1>11. CASE UpdateOperation
  <2>1. /\ answer' = Waiting(seen) /\ UNCHANGED snapshots
        /\ operation # Nothing
        /\ snapshots # <<>> /\ seen = [status |-> Last, seq |-> Len(snapshots)]
    BY <1>1, <1>11 DEF UpdateOperation, Answers, RunnerOK
  <2>2. Claims(answer')
    BY <1>4, <2>1, Verdicts DEF Claims
  <2> QED
    BY <1>3, <2>2
<1>12. CASE WriteTerminal /\ answer' = Verdict(seen, "key")
  <2>1. /\ UNCHANGED snapshots /\ terminal' = seen
        /\ snapshots # <<>> /\ seen = [status |-> Last, seq |-> Len(snapshots)]
    BY <1>1, <1>12
       DEF WriteTerminal, Answers, RunnerOK, Verdict, Failed
  <2>2. Backed(answer'.job)
    BY <1>12, <1>4, <2>1, Verdicts
  <2>3. Backed(answer.job)'
    BY <2>2, FilesStay DEF Backed
  <2> QED
    BY <1>12, <2>1, <2>3, Verdicts DEF Claims
<1>13. CASE Cancel
  <2>1. answer' = answer \/ answer' = Cancelled
    BY <1>13 DEF Cancel
  <2>2. Claims(Cancelled)
    BY DEF Claims, Cancelled, Backed
  <2> QED
    BY <1>6, <1>3, <2>1, <2>2
<1>14. \/ UNCHANGED answer \/ answer' = NoOutcome
       \/ StartKnown \/ ReplayTerminal \/ WriteOperation \/ UpdateOperation
       \/ WriteTerminal /\ answer' = Verdict(seen, "key")
       \/ Cancel
       \/ \E why \in {"start", "lost", "regression", "conflict", "hash"} :
            answer' = Failed(why)
  <2>1. CASE RunnerStep
    BY <2>1
       DEF RunnerStep, Submit, Post, LookUp, Observe, WriteSnapshot, Fetch,
           WriteResult, WriteTerminal, Goes, Answers, memory
  <2>2. CASE RecordStep
    BY <2>2
       DEF RecordStep, Return, RecordStage, RecordLedger, RecordAttempt,
           RecordJob, RecordRefused, RecordDone, Records, memory
  <2>3. CASE Resume \/ Cancel \/ Crash \/ NewProcess
    BY <2>3
       DEF Resume, Execute, Reconcile, RecordAgain, Crash, NewProcess, memory
  <2> QED
    BY <2>1, <2>2, <2>3 DEF Next
<1>15. CASE \E why \in {"start", "lost", "regression", "conflict", "hash"} :
              answer' = Failed(why)
  BY <1>2, <1>15
<1> QED
  BY <1>6, <1>7, <1>8, <1>9, <1>10, <1>11, <1>12, <1>13, <1>14, <1>15

\* An answer keeps its claims while it is recorded, and the tables have no
\* others.
LEMMA AnswersStep ==
  ASSUME IndInv, Next
  PROVE  AnswersOK'
<1>1. /\ Claims(answer) /\ Claims(pend) /\ Claims(previous) /\ Claims(ledger)
      /\ stageRow.status = "SUCCEEDED" => terminal.status = "SUCCEEDED"
      /\ Backed(jobRow)
  BY DEF IndInv, AnswersOK, Claims
<1>2. Claims(NoOutcome)' /\ Claims(Inconsistent)'
  BY DEF Claims, NoOutcome, Inconsistent, Backed, Nothing
<1>3. /\ pend' \in {pend, answer, Inconsistent, NoOutcome}
      /\ previous' \in {previous, pend}
      /\ ledger' \in {ledger, pend}
      /\ UNCHANGED stageRow \/ stageRow'.status = pend.status
      /\ jobRow' \in {jobRow, pend.job}
  <2>1. CASE RunnerStep
    BY <2>1
       DEF RunnerStep, StartKnown, Submit, Post, LookUp, WriteOperation,
           ReplayTerminal, Observe, WriteSnapshot, UpdateOperation, Fetch,
           WriteResult, WriteTerminal, Goes, Answers, tables, graph
  <2>2. CASE RecordStep
    BY <2>2
       DEF RecordStep, Return, RecordStage, RecordLedger, RecordAttempt,
           RecordJob, RecordRefused, RecordDone, Records, tables, graph
  <2>3. CASE Resume \/ Cancel \/ Crash \/ NewProcess
    BY <2>3
       DEF Resume, Execute, Reconcile, RecordAgain, Cancel, Crash, NewProcess,
           Commands, tables, graph
  <2> QED
    BY <2>1, <2>2, <2>3 DEF Next
<1>4. Claims(pend') /\ Claims(previous') /\ Claims(ledger')
  BY <1>1, <1>3 DEF Claims, NoOutcome, Inconsistent, Backed, Nothing
<1>5. Claims(pend)' /\ Claims(previous)' /\ Claims(ledger)'
  BY <1>4, FilesStay DEF Claims, Backed
<1>6. Backed(jobRow)'
  <2>1. Backed(jobRow')
    BY <1>1, <1>3 DEF Claims, Backed
  <2> QED
    BY <2>1, FilesStay DEF Backed
<1>7. stageRow'.status = "SUCCEEDED" => terminal'.status = "SUCCEEDED"
  BY <1>1, <1>3, FilesStay DEF Claims, Nothing
<1> QED
  BY <1>5, <1>6, <1>7, RunnerClaims DEF AnswersOK, Claims

\* IndInv holds in every reachable state.
LEMMA Inductive == Spec => []IndInv
<1>1. ASSUME IndInv, [Next]_vars PROVE IndInv'
  <2>1. CASE Next
    BY <1>1, <2>1, ShapesStep, FilesStep, RunnerKeeps, AnswersStep DEF IndInv
  <2>2. CASE UNCHANGED vars
    <3> USE <2>2 DEF vars, files, tables, graph, memory
    <3>1. ShapesOK'
      BY <1>1 DEF IndInv, ShapesOK
    <3>2. FilesOK'
      BY <1>1 DEF IndInv, FilesOK, SnapshotsGrow, Last
    <3>3. RunnerOK'
      <4>1. LastSeen' = LastSeen /\ Last' = Last
        BY DEF LastSeen, Last
      <4> QED
        BY <1>1, <4>1 DEF IndInv, RunnerOK, Volatile
    <3>4. AnswersOK'
      <4>1. \A rep : Backed(rep)' <=> Backed(rep)
        BY DEF Backed
      <4>2. AnswersOK
        BY <1>1 DEF IndInv
      <4> QED
        BY <4>1, <4>2 DEF AnswersOK, Backed
    <3> QED
      BY <3>1, <3>2, <3>3, <3>4 DEF IndInv
  <2> QED
    BY <1>1, <2>1, <2>2
<1> QED
  BY <1>1, InitInv, PTL DEF Spec

-----------------------------------------------------------------------------
(* What a reader should know.                                               *)

\* The artifacts of a job tell one history, although each was written on its
\* own and a poll may be repeated (DFTStageRunner.reconcile,
\* ManyBodyStageRunner.reconcile).
THEOREM OneStory == Spec => []ArtifactsTellOneStory
<1>1. IndInv => ArtifactsTellOneStory
  BY DEF IndInv, FilesOK, SnapshotsGrow, Last, ArtifactsTellOneStory
<1> QED
  BY <1>1, Inductive, PTL

\* A job the orchestrator waits for is on file, and behind the bridge it exists
\* although a reply was lost (submit, start).
THEOREM WaitsForAJob == Spec => []WaitingHasAJob
<1>1. IndInv => WaitingHasAJob
  BY DEF IndInv, AnswersOK, RunnerOK, WaitingHasAJob
<1> QED
  BY <1>1, Inductive, PTL

\* What the tables say of a job is what the artifacts say, and no failure of
\* the control chain passes for a success (record_stage_outcome).
THEOREM TablesAreBacked == Spec => []RowsAreBacked
<1>1. ASSUME IndInv PROVE RowsAreBacked
  <2>1. /\ jobRow.seq > 0 /\ jobRow.status # "CANCELLED" =>
             /\ jobRow.seq \in DOMAIN snapshots
             /\ jobRow = Report([status |-> snapshots[jobRow.seq],
                                 seq |-> jobRow.seq])
        /\ DOMAIN snapshots = 1 .. Len(snapshots)
    BY <1>1 DEF IndInv, AnswersOK, Backed, ShapesOK
  <2>2. stageRow.status = "SUCCEEDED" =>
          terminal.status = "SUCCEEDED" /\ result.status = "SUCCEEDED"
    BY <1>1 DEF IndInv, AnswersOK, FilesOK, Nothing
  <2>3. ledger.status = "RETRYABLE_FAILED" /\ ledger.why = "none" =>
          terminal.status = "TIMEOUT"
    BY <1>1 DEF IndInv, AnswersOK
  <2> QED
    BY <2>1, <2>2, <2>3 DEF RowsAreBacked
<1> QED
  BY <1>1, Inductive, PTL

\* A submission that is on file is not handed in again, however often a process
\* dies and whatever is lost (start, _restore_backend_if_supported).
LEMMA SubmittedOnce == Spec => [][NotHandedInAgain]_vars
<1>1. ASSUME IndInv, [Next]_vars, operation # Nothing, job' = NewJob
      PROVE  job = NewJob
  <2>1. /\ NewJob.status = "CREATED" /\ NewJob.polls = 0 /\ NewJob # NoJob
        /\ "CREATED" \notin Ended /\ "CANCELLED" # "CREATED"
    BY DEF NewJob, NoJob, Restored, Ended
  <2>2. ASSUME NEW k \in Jobs PROVE Advanced(k) # NewJob /\ Stopped(k) # NewJob
    <3>1. Stopped(k) # NewJob
      BY <2>1 DEF Stopped, Jobs
    <3>2. CASE k.status \in Ended
      BY <2>1, <3>1, <3>2 DEF Advanced
    <3>3. CASE k.status \notin Ended
      <4>1. Advanced(k).polls = k.polls + 1 /\ k.polls \in Nat
        BY <3>3 DEF Advanced, Jobs
      <4> QED
        BY <2>1, <3>1, <4>1
    <3> QED
      BY <3>2, <3>3
  <2>3. ShapesOK /\ FilesOK /\ RunnerOK /\ operation \in Sightings
    BY <1>1 DEF IndInv, ShapesOK
  <2>4. Restored(operation.status, operation.seq) \in Jobs
    BY <2>3 DEF Restored, Jobs, Sightings
  <2>5. Known \in Jobs
    BY <1>1, <2>3, WhereSeen DEF Known, ShapesOK, Restored, Jobs, Sightings
  <2>6. CASE Observe
    <3>1. job' \in {job, Advanced(Known)}
      BY <2>6 DEF Observe
    <3> QED
      BY <1>1, <2>2, <2>5, <3>1
  <2>7. CASE Cancel
    <3>1. \/ job' = job
          \/ job' = Stopped(job)
          \/ job = NoJob /\ job' = Stopped(Restored(operation.status, operation.seq))
      BY <2>7 DEF Cancel
    <3>2. job' = Stopped(job) => job # NoJob
      BY <1>1, <2>1 DEF Stopped, NoJob, Ended
    <3>3. job = NoJob \/ job \in Jobs
      BY <2>3 DEF ShapesOK
    <3> QED
      BY <1>1, <2>2, <2>4, <3>1, <3>2, <3>3
  <2>8. ~Submit /\ ~Post
    BY <1>1 DEF Submit, Post
  <2>9. CASE UNCHANGED vars
    BY <1>1, <2>9 DEF vars
  <2> QED
    BY <1>1, <2>1, <2>6, <2>7, <2>8, <2>9, WhoWrites
<1>2. IndInv /\ [Next]_vars => [NotHandedInAgain]_vars
  BY <1>1 DEF NotHandedInAgain
<1> QED
  BY <1>2, Inductive, PTL DEF Spec

-----------------------------------------------------------------------------
(* The row of the job.                                                      *)

\* What a runner reports is a numbered status.
LEMMA ReportsOf ==
  /\ \A x \in Sightings \cup {Nothing} : Report(x) \in Reports
  /\ Nothing \in Reports /\ NoOutcome.job = Nothing
  /\ \A why : Failed(why).job = Nothing
  /\ \A r \in Reports : r.seq \in Nat /\ r = [status |-> r.status, seq |-> r.seq]
<1>1. ASSUME NEW x \in Sightings \cup {Nothing} PROVE Report(x) \in Reports
  <2>1. x.seq \in Nat /\ x.status \in Statuses \cup {"NONE"}
    BY DEF Sightings, Nothing
  <2>2. Report(x).seq \in Nat /\ Report(x).status \in JobStatus \cup {"NONE"}
    BY <2>1 DEF Report, Statuses, Ended, JobStatus, TerminalJob
  <2> QED
    BY <2>2 DEF Report, Reports
<1>2. Nothing \in Reports /\ NoOutcome.job = Nothing /\ \A why : Failed(why).job = Nothing
  BY DEF Nothing, Reports, NoOutcome, Failed
<1> QED
  BY <1>1, <1>2 DEF Reports

\* Where the next answer comes from.
LEMMA AnswersComeFrom ==
  ASSUME IndInv, Next
  PROVE  \/ answer'.job \in {answer.job, Nothing}
         \/ \E x \in Sightings \cup {Nothing} : answer'.job = Report(x)
         \/ Cancel /\ answer' = Cancelled
<1>1. ShapesOK /\ FilesOK /\ RunnerOK
  BY DEF IndInv
<1>2. CASE StartKnown
  <2>1. LastSeen \in Sightings
    BY <1>1, <1>2, WhereSeen DEF StartKnown
  <2>2. terminal # Nothing => terminal \in Sightings
    <3>1. ASSUME terminal # Nothing PROVE terminal \in Sightings
      <4>1. /\ terminal = [status |-> Last, seq |-> Len(snapshots)] /\ terminal.status \in Ended
            /\ Len(snapshots) \in Nat
        BY <1>1, <3>1 DEF FilesOK, ShapesOK
      <4> QED
        BY <4>1, Ranks DEF Sightings
    <3> QED
      BY <3>1
  <2>3. \/ answer' = Waiting(LastSeen)
        \/ terminal # Nothing /\ \E ref : answer' = Verdict(terminal, ref)
    BY <1>2 DEF StartKnown, Answers
  <2>4. CASE answer' = Waiting(LastSeen)
    <3>1. answer'.job = Report(LastSeen)
      BY ONLY <2>4, Verdicts
    <3> QED
      BY ONLY <2>1, <3>1
  <2>5. CASE terminal # Nothing /\ \E ref : answer' = Verdict(terminal, ref)
    <3>1. answer'.job = Report(terminal)
      BY ONLY <2>5, Verdicts
    <3> QED
      BY ONLY <2>2, <2>5, <3>1
  <2> QED
    BY <2>3, <2>4, <2>5
<1>3. CASE ReplayTerminal
  <2>1. /\ terminal = [status |-> Last, seq |-> Len(snapshots)] /\ terminal.status \in Ended
        /\ Len(snapshots) \in Nat /\ answer' = Verdict(terminal, "result")
    BY <1>1, <1>3 DEF ReplayTerminal, Answers, FilesOK, ShapesOK
  <2>2. terminal \in Sightings
    BY <2>1, Ranks DEF Sightings
  <2>3. answer'.job = Report(terminal)
    BY ONLY <2>1, Verdicts
  <2> QED
    BY ONLY <2>2, <2>3
<1>4. CASE WriteOperation
  <2>1. [status |-> "CREATED", seq |-> 0] \in Sightings
    BY Ranks DEF Sightings
  <2>2. answer' = Waiting([status |-> "CREATED", seq |-> 0])
    BY <1>4 DEF WriteOperation, Answers
  <2>3. answer'.job = Report([status |-> "CREATED", seq |-> 0])
    BY ONLY <2>2, Verdicts
  <2> QED
    BY ONLY <2>1, <2>3
<1>5. CASE UpdateOperation \/ WriteTerminal
  <2>1. seen \in Sightings \cup {Nothing}
    BY <1>1 DEF ShapesOK
  <2>2. answer' \in {Waiting(seen), Verdict(seen, "key"), Failed("conflict")}
    BY <1>5 DEF UpdateOperation, WriteTerminal, Answers
  <2> QED
    <3>1. Waiting(seen).job = Report(seen) /\ Verdict(seen, "key").job = Report(seen)
      BY Verdicts
    <3>2. Failed("conflict").job = Nothing
      BY ReportsOf
    <3>3. answer'.job \in {Report(seen), Nothing}
      BY <2>2, <3>1, <3>2
    <3> QED
      BY <2>1, <3>3
<1>6. CASE Cancel
  BY <1>6 DEF Cancel
<1>7. CASE Submit \/ Post \/ LookUp \/ Observe \/ WriteSnapshot \/ Fetch \/ WriteResult
  BY <1>7, ReportsOf
     DEF Submit, Post, LookUp, Observe, WriteSnapshot, Fetch, WriteResult, Goes, Answers,
         memory
<1>8. CASE RecordStep \/ Resume \/ Crash \/ NewProcess
  BY <1>8, ReportsOf
     DEF RecordStep, Return, RecordStage, RecordLedger, RecordAttempt, RecordJob,
         RecordRefused, RecordDone, Records, Resume, Execute, Reconcile, RecordAgain,
         Crash, NewProcess, memory
<1> QED
  BY <1>2, <1>3, <1>4, <1>5, <1>6, <1>7, <1>8 DEF Next, RunnerStep

\* What was accepted stays acceptable until it is in the row, and then as well.
LEMMA RowStep ==
  ASSUME IndInv, RowOK, Next
  PROVE  /\ RowOK'
         /\ jobRow' # jobRow /\ jobRow # Nothing =>
              /\ jobRow'.seq > jobRow.seq
              /\ jobRow.status \in TerminalJob => jobRow'.status = jobRow.status
<1>1. /\ answer.job \in Reports /\ pend.job \in Reports /\ previous.job \in Reports
      /\ jobRow \in Reports
  BY DEF RowOK
<1>2. answer'.job \in Reports
  <2>1. Cancelled.job \in Reports
    <3>1. previous.job.seq + 1 \in Nat
      BY <1>1, ReportsOf
    <3> QED
      BY <3>1 DEF Cancelled, Reports, JobStatus, TerminalJob
  <2> QED
    BY <1>1, <2>1, AnswersComeFrom, ReportsOf
<1>3. /\ pend' \in {pend, answer, Inconsistent, NoOutcome}
      /\ previous' \in {previous, pend}
      /\ jobRow' \in {jobRow, pend.job}
      /\ jobRow' # jobRow =>
           pc = "job" /\ pend' = pend /\ node' = node /\ pend.job # Nothing
      /\ node' = "record" /\ ~Return => node = "record" /\ pend' = pend
      /\ Return => pend' \in {Inconsistent, answer} /\ jobRow' = jobRow
                      /\ (JobAccepts(answer.job) \/ pend' = Inconsistent)
      /\ pc' \in {"stage", "operation", "attempt", "job"} =>
           \/ Return \/ RecordAgain
           \/ pc \in {"stage", "operation", "attempt"} /\ node' = node
  <2>1. CASE RunnerStep
    BY <2>1
       DEF RunnerStep, StartKnown, Submit, Post, LookUp, WriteOperation,
           ReplayTerminal, Observe, WriteSnapshot, UpdateOperation, Fetch,
           WriteResult, WriteTerminal, Goes, Answers, tables, graph, AfterSnapshot, Return
  <2>2. CASE RecordStep
    BY <2>2
       DEF RecordStep, Return, RecordStage, RecordLedger, RecordAttempt,
           RecordJob, RecordRefused, RecordDone, Records, tables, graph
  <2>3. CASE Resume \/ Cancel \/ Crash \/ NewProcess
    BY <2>3
       DEF Resume, Execute, Reconcile, RecordAgain, Cancel, Crash, NewProcess,
           Commands, tables, graph, Return
  <2> QED
    BY <2>1, <2>2, <2>3 DEF Next
<1>4. JobAccepts(Nothing)
  BY DEF JobAccepts
<1>5. {answer'.job, pend'.job, previous'.job, jobRow'} \subseteq Reports
  <2>1. Inconsistent.job = Nothing
    BY DEF Inconsistent
  <2> QED
    BY <1>1, <1>2, <1>3, <2>1, ReportsOf
<1>6. pc' \in {"stage", "operation", "attempt", "job"} => node' = "record"
  BY <1>3 DEF RowOK, Return, RecordAgain, Commands, graph
<1>7. CASE jobRow' = jobRow
  <2>1. ASSUME node' = "record" PROVE JobAccepts(pend.job)'
    <3>1. JobAccepts(pend'.job)
      <4>1. CASE Return
        BY <1>3, <1>4, <4>1 DEF Inconsistent
      <4>2. CASE ~Return
        BY <1>3, <2>1, <4>2 DEF RowOK
      <4> QED
        BY <4>1, <4>2
    <3> QED
      BY <1>7, <3>1 DEF JobAccepts
  <2> QED
    BY <1>5, <1>6, <1>7, <2>1 DEF RowOK
<1>8. CASE jobRow' # jobRow
  <2>1. /\ jobRow' = pend.job /\ pend' = pend /\ JobAccepts(pend.job)
        /\ pend.job.seq \in Nat /\ jobRow.seq \in Nat
    BY <1>1, <1>3, <1>8, ReportsOf DEF RowOK
  <2>2. JobAccepts(pend.job)'
    BY <2>1 DEF JobAccepts, CanMoveJob
  <2>3. ASSUME jobRow # Nothing
        PROVE  /\ jobRow'.seq > jobRow.seq
               /\ jobRow.status \in TerminalJob => jobRow'.status = jobRow.status
    <3>1. /\ pend.job.seq >= jobRow.seq
          /\ pend.job.seq = jobRow.seq => pend.job.status = jobRow.status
          /\ CanMoveJob(jobRow.status, pend.job.status)
      BY <1>3, <1>8, <2>1, <2>3 DEF JobAccepts
    <3>2. pend.job.seq # jobRow.seq
      BY <1>1, <1>8, <2>1, <3>1, ReportsOf
    <3>3. jobRow.status \in TerminalJob => pend.job.status = jobRow.status
      BY <3>1 DEF CanMoveJob, JobTransitions, TerminalJob
    <3> QED
      BY <2>1, <3>1, <3>2, <3>3
  <2> QED
    BY <1>5, <1>6, <2>1, <2>2, <2>3 DEF RowOK
<1> QED
  BY <1>7, <1>8

\* Answers are filed in the order the job gave them, and its end once, across
\* crashes, lost messages and cancellations (validate_external_job_record).
LEMMA RowMovesOn == Spec => [][RowTakesLaterAnswers]_vars
<1>1. Init => RowOK
  <2> SUFFICES ASSUME Init PROVE RowOK
    OBVIOUS
  <2>1. answer.job = Nothing /\ pend.job = Nothing /\ previous.job = Nothing /\ jobRow = Nothing
    BY ReportsOf DEF Init
  <2> QED
    BY <2>1, ReportsOf DEF Init, RowOK
<1>2. IndInv /\ RowOK /\ [Next]_vars => RowOK'
  <2>1. ASSUME RowOK, UNCHANGED vars PROVE RowOK'
    BY <2>1 DEF RowOK, JobAccepts, vars, memory, graph, tables
  <2> QED
    BY <2>1, RowStep
<1>3. IndInv /\ RowOK /\ [Next]_vars =>
        [RowTakesLaterAnswers]_vars
  BY RowStep DEF RowTakesLaterAnswers
<1> QED
  BY <1>1, <1>2, <1>3, Inductive, PTL DEF Spec

\* A job only moves on, at the backend and in its row, whatever is lost and
\* however often its processes die.
THEOREM JobMovesOn == Spec => JobOnlyMovesOn
<1>1. [NotHandedInAgain]_vars /\ [RowTakesLaterAnswers]_vars =>
        [NotHandedInAgain /\ RowTakesLaterAnswers]_vars
  OBVIOUS
<1> QED
  BY <1>1, SubmittedOnce, RowMovesOn, PTL DEF JobOnlyMovesOn
=============================================================================
