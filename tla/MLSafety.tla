------------------------------ MODULE MLSafety ------------------------------
(***************************************************************************)
(* What the ML screening stage owes to the stages after it.                *)
(***************************************************************************)
EXTENDS MLRun

\* A candidate that upstream did not give up, that is known to meet every
\* condition of the Requirement and every condition of the model's domain.
Eligible(c) ==
  LET verdicts == ConstraintVerdicts(c, ask.requirement)
      checks == ApplicabilityChecks(c, ask.health)
  IN  /\ Item[c].decision \in {"PASS", "UNCERTAIN"}
      /\ \A name \in DOMAIN verdicts : verdicts[name] = "matched"
      /\ \A name \in DOMAIN checks : checks[name] = "PASS"
      /\ ask.request.mode = "EXPLICIT_IDS" => c \in ask.request.ids

\* A published PASS has been earned through plan, worker and ledger: the
\* candidate was eligible, its relaxation ended by itself near where it began,
\* and the relaxed structure is still the one on disk; only a worker left
\* behind by a crash on a GPU may replace it (runner.py, evidence.py).
EvidenceIsEarned ==
  \A n \in 1 .. attempt : disk[n]["manifest"] # None =>
    \A c \in DOMAIN disk[n]["manifest"] :
      LET record == disk[n]["manifest"][c] IN
        (record.level = "L2_ML_SCREENED" \/ record.decision = "PASS") =>
          /\ Eligible(c) /\ Recommends(record) # None
          /\ LET relaxed == Relaxation[c][record.relaxed] IN
               /\ relaxed.force <= 10 /\ relaxed.distance >= 5
               /\ relaxed.volume \in 80 .. 120 /\ relaxed.matches
          /\ (crashes = 0 \/ ask.health.device = "cpu") => sandbox[c] = record.relaxed

\* The files of a completed stage tell one story, and what the workers have
\* finished is in it: a finished candidate is never filed as failed, whatever
\* crashes lie between, and a stage that succeeded has finished them all.
CompletedWorkIsKept ==
  disk[attempt]["completion"] # None =>
    LET result == disk[attempt]["completion"] IN
      /\ disk[attempt]["manifest"] = result.records
      /\ DOMAIN result.records = ask.pool
      /\ \A c \in ask.pool :
           /\ ledger[c] # None => result.records[c] = ledger[c]
           /\ result.records[c].decision = disk[attempt]["report"][c].decision
      /\ result.status = "SUCCEEDED" =>
           \A k \in DOMAIN Planned : InferenceWanted(k) => ledger[Planned[k].id] # None
      /\ result.status = "RETRYABLE_FAILED" => \A c \in ask.pool : ledger[c] = None

\* An answer that carries a result carries the completed one, and a completed
\* attempt is never answered in any other way, however often it is started.
AnswersAreCompleted ==
  (/\ outcome # NoOutcome
   /\ outcome.result # None \/ disk[attempt]["completion"] # None) =>
      /\ outcome.result = disk[attempt]["completion"]
      /\ outcome.status = outcome.result.status

\* A stage refuses its sound input only for one of these: a health snapshot
\* that has expired, a plan or a result cut off from its second file by a
\* crash, a failure that was filed before a crash and may not come again, and
\* two records that its own models reject: of a selected candidate that was
\* not to be run and of a candidate that upstream had failed on.
RefusalHasACause ==
  /\ outcome.category = "ORCHESTRATOR_STAGE_EXCEPTION" =>
       \/ ~ask.requirement.confirmed
       \/ calls >= ask.health.expires
       \/ crashes > 0 /\ disk[attempt]["native"] # None /\ disk[attempt]["plan"] = None
  /\ (outcome.category = "AGENT02_EXECUTION_FAILED" /\ outcome.result = None) =>
       \/ ~ask.request.infer
       \/ \E c \in ask.pool : Item[c].decision = "FAILED"
       \/ /\ crashes > 0 /\ disk[attempt]["manifest"] # None
          /\ \/ Errors(disk[attempt]["manifest"]) # {}
             \/ disk[attempt]["result"] # None /\ disk[attempt]["completion"] = None

\* Published, and before the other if that is published at all.
NotAfter(c, d) ==
  \/ Item[d].rank = None
  \/ Item[c].rank # None /\ Item[c].rank <= Item[d].rank

\* The expensive inference goes to the best: no eligible candidate that waits
\* is ranked before one that was inferred, none waits while there is room, and
\* without an approval no more are inferred than is automatic.
BudgetGoesToTheBest ==
  (disk[attempt]["completion"] # None /\ ask.request.infer) =>
    LET records == disk[attempt]["completion"].records
        chosen == {c \in ask.pool : records[c].execution # "NOT_RUN"}
        eligible == {c \in ask.pool : Eligible(c)}
    IN  /\ chosen \subseteq eligible
        /\ \A c \in chosen, d \in eligible \ chosen : NotAfter(c, d)
        /\ chosen # eligible => Cardinality(chosen) = ask.request.limit
        /\ ApprovalRequired(ask.request) \/ Cardinality(chosen) <= AutomaticMax

-----------------------------------------------------------------------------
(* What makes them inductive.                                               *)

Wanted(c) == SelectionStatus(ask, c) = "SELECTED" /\ ask.request.infer
InLoop == {"batch", "worker", "ledger"}
Closing == {"report", "result", "completion"}
Places == {"idle", "validate", "prepare", "freeze", "start"} \cup InLoop \cup Closing

JobShape ==
  /\ job = [pc |-> job.pc, k |-> job.k, records |-> job.records,
            device |-> job.device, spoiled |-> job.spoiled]
  /\ job.records = [c \in DOMAIN job.records |-> job.records[c]]
  /\ job.pc \in Places /\ job.k \in Nat \ {0}
ShapesOK ==
  /\ ask \in Asks /\ attempt \in 1 .. MaxCalls /\ calls \in 0 .. MaxCalls
  /\ attempt <= calls \/ (calls = 0 /\ attempt = 1)
  /\ calls = 0 => job = Idle /\ outcome = NoOutcome
  /\ disk = [n \in 1 .. MaxCalls |-> [name \in Files |-> disk[n][name]]]
  /\ ledger = [c \in Candidates |-> ledger[c]]
  /\ sandbox = [c \in Candidates |-> sandbox[c]]
  /\ JobShape
  /\ crashes \in Nat /\ failures \in Nat
  /\ orphans # {} => crashes > 0

\* A record is the ledger's, or tells why there is none.
Told(record, c) ==
  \/ Wanted(c) /\ ledger[c] # None /\ record = ledger[c]
  \/ Wanted(c) /\ \E error \in Mishaps : record = Failed(error)
  \/ SelectionStatus(ask, c) # "SELECTED" /\ record = NotRun(c)
\* The records hold what the ledger holds now.
UpToDate(records) ==
  \A c \in DOMAIN records : ledger[c] # None => records[c] = ledger[c]

\* The ledger holds what a worker made of a candidate that was selected, and
\* the structure the record names is on disk.
LedgerOK ==
  \A c \in Candidates : ledger[c] # None =>
    /\ c \in ask.pool /\ Wanted(c)
    /\ \E device \in DevicesFor(ask.health) :
         /\ ledger[c] = Inferred(c, device) /\ Complete(Relaxation[c][device])
         /\ (crashes = 0 \/ ask.health.device = "cpu") => sandbox[c] = device

\* Each file of an attempt tells what the one before it tells; what is
\* completed stays up to date.
FileOK(n) ==
  LET file == disk[n] IN
    /\ n > attempt => \A name \in Files : file[name] = None
    /\ file["native"] # None =>
         InputFailure = NoOutcome /\ file["native"].candidates = PlanOf(ask)
    /\ file["plan"] # None =>
         file["native"] # None /\ file["plan"].candidates = PlanOf(ask)
    /\ file["manifest"] # None =>
         /\ file["plan"] # None
         /\ file["manifest"] = [c \in ask.pool |-> file["manifest"][c]]
         /\ \A c \in ask.pool : Told(file["manifest"][c], c)
    /\ file["report"] # None =>
         file["manifest"] # None /\ file["report"] = ReportOf(file["manifest"])
    /\ file["result"] # None =>
         /\ file["manifest"] # None /\ file["report"] = ReportOf(file["manifest"])
         /\ file["result"].records = file["manifest"]
         /\ file["result"].status = NativeStatus(file["manifest"])
    /\ file["completion"] # None =>
         /\ file["completion"] = file["result"]
         /\ n = attempt => UpToDate(file["manifest"])
FilesOK == \A n \in 1 .. MaxCalls : FileOK(n)

\* What a call has in hand at each place.
CallOK ==
  /\ At("idle") => job = Idle
  /\ job.pc \notin InLoop \cup Closing => job.records = <<>>
  /\ job.pc \notin {"idle", "validate"} => InputFailure = NoOutcome
  /\ At("freeze") => disk[attempt]["native"] # None /\ ~HasPlan
  /\ job.pc \in {"start"} \cup InLoop \cup Closing => HasPlan
  /\ job.pc \in InLoop \cup {"report", "result"} => disk[attempt]["result"] = None
  /\ job.pc \in InLoop \cup Closing =>
       /\ disk[attempt]["completion"] = None /\ UpToDate(job.records)
       /\ \A c \in DOMAIN job.records : Told(job.records[c], c)
  /\ job.pc \in InLoop =>
       /\ job.k <= Len(PlanOf(ask)) + 1
       /\ DOMAIN job.records = {PlanOf(ask)[i].id : i \in 1 .. job.k - 1}
  /\ job.pc \in {"worker", "ledger"} =>
       /\ job.k <= Len(PlanOf(ask)) /\ ledger[Current] = None
       /\ Wanted(Current)
  /\ At("ledger") =>
       /\ job.device \in DevicesFor(ask.health)
       /\ Complete(Relaxation[Current][job.device])
  /\ job.pc \in Closing =>
       DOMAIN job.records = ask.pool /\ disk[attempt]["manifest"] = job.records
  /\ job.pc \in {"result", "completion"} =>
       disk[attempt]["report"] = ReportOf(job.records)
  /\ At("completion") => disk[attempt]["result"] # None

\* Without a crash a call finds nothing of an earlier one.
FreshOK ==
  crashes = 0 =>
    /\ At("idle") /\ calls > 0 => outcome.status # None
    /\ calls = 0 \/ job.pc \in {"validate", "prepare"} =>
         \A name \in Files : disk[attempt][name] = None
    /\ job.pc \in {"freeze", "start"} \cup InLoop =>
         \A name \in {"manifest", "report", "result", "completion"} :
           disk[attempt][name] = None

OutcomeOK ==
  /\ outcome # NoOutcome => At("idle")
  /\ AnswersAreCompleted /\ RefusalHasACause

IndInv == ShapesOK /\ LedgerOK /\ FilesOK /\ CallOK /\ FreshOK /\ OutcomeOK
=============================================================================
