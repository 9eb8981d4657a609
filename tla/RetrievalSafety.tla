--------------------------- MODULE RetrievalSafety ---------------------------
(***************************************************************************)
(* What a retrieval run owes to those who read its artifacts.              *)
(***************************************************************************)
EXTENDS RetrievalRun

\* The completed operation stays verifiable: whatever calls, crashes and failed
\* searches surround it, every artifact it registers with a hash still has
\* that content (operation record, written last).
CompletionIsClosed ==
  disk["operation"] # None =>
    /\ RecordedIsIntact
    /\ \A i \in DOMAIN disk["raw_manifest"] : batches[i] = disk["raw_manifest"][i]

\* The raw responses, the audit and the manifest of a completed run describe
\* the same documents, one plan and one Requirement.
CompletionIsCoherent ==
  disk["operation"] # None =>
    LET recorded == disk["operation"].result IN
      /\ recorded.docs = ToSet(FlattenSeq(disk["raw_manifest"]))
      /\ recorded.docs = disk["audit"].docs
      /\ recorded.published = PublishedOf(source, disk["input"], recorded.docs)
      /\ recorded.published = disk["report"].published
      /\ recorded.status = disk["report"].status
      /\ disk["capability"] = disk["query_plan"].version

\* A usable answer is the recorded one, whenever it is given.
AnswersAreRecorded ==
  outcome.status \in Usable =>
    disk["operation"] # None /\ outcome.result = disk["operation"].result

\* What a run looks for: the listed records that meet every condition.
Wanted == [s \in RunSources |-> [req \in Requirements |->
             {id \in Ids : Entry[id].complete /\ Decision(s, req, id) = "PASS"}]]
\* Every such record passes the filters its source is sent: none misses a bound
\* by as little as the tolerance of the local verdict, which the filters lack.
AsksForAll ==
  \A s \in RunSources, req \in Requirements :
    \A id \in Wanted[s][req] : Matches(s, req, id)
Outranking(keys) ==
  {pair \in (DOMAIN keys) \X (DOMAIN keys) : Before(keys[pair[1]], keys[pair[2]])}
Outranks ==
  [s \in RunSources |-> [req \in Requirements |-> Outranking(Keys(s, req, Ids))]]

\* A source paged by key, or answering at once, or listing the same records
\* throughout, hides nothing from a SUCCEEDED run: a record that was listed
\* during the whole search and meets every condition is published, unless
\* max_candidates better ones are. True where AsksForAll is: a record within the
\* tolerance outside a bound passes the local verdict but is never sent.
SucceededMissesNothing ==
  (/\ disk["operation"] # None
   /\ disk["operation"].result.status = "SUCCEEDED"
   /\ source \notin ByPage \/ trouble["remote"] = 0) =>
    LET recorded == disk["operation"].result
        req == disk["input"]
        Better(id) == {other \in recorded.published :
                         <<other, id>> \in Outranks[source][req]}
    IN  \A id \in steady \cap Wanted[source][req] :
          \/ id \in recorded.published
          \/ Cardinality(Better(id)) = req.max_candidates

\* Only these make a run refuse its own artifacts: a database that changed, a
\* failed request whose report or unresolved origins stay behind, an edited
\* Requirement, one structure sent in two forms, and a crash, which loses the
\* method metadata NOMAD and TQC had seen.
Refusals == {"BACKEND_INCONSISTENT", "ORCHESTRATOR_STAGE_EXCEPTION"}
Caused ==
  \/ trouble["remote"] + trouble["failed"] + trouble["edited"] > 0
  \/ \E a, b \in Ids : /\ Entry[a].structure = Entry[b].structure
                       /\ Entry[a].raw # Entry[b].raw
                       /\ {a, b} \subseteq remote.listing
  \/ trouble["crashed"] > 0 /\ source \in {"nomad", "topological_quantum_chemistry"}
RefusalHasACause == outcome.category \in Refusals => Caused

\* Every call ends: retries are bounded and a repeated page is noticed.
CallsEnd == job.pc # "idle" ~> job.pc = "idle"

(***************************************************************************)
(* What a test promises and the code does not keep.                        *)
(***************************************************************************)

\* A retryable failure leaves the run retryable: while the database stays as
\* it is and nothing crashes, no later attempt is refused.
RetryableStaysRetryable ==
  /\ disk["stage_result"] # None
  /\ disk["stage_result"].status = "RETRYABLE_FAILED"
  /\ trouble["remote"] + trouble["crashed"] + trouble["edited"] = 0
  => outcome.category # "BACKEND_INCONSISTENT"
-----------------------------------------------------------------------------
(* What makes the first three inductive.                                    *)

Plans == [version : Nat, when : Nat]
RunStatuses == {"SUCCEEDED", "PARTIAL", "RETRYABLE_FAILED", "PERMANENT_FAILED"}
Audits == [docs : SUBSET Ids, resolved : SUBSET Ids]
Publications ==
  {{}} \cup {PublishedOf(s, req, ids) :
               s \in RunSources, req \in Requirements, ids \in SUBSET Ids}
Results == [status : RunStatuses, when : Nat, docs : SUBSET Ids,
            published : Publications]
\* What each artifact may hold.
Contents ==
  [input |-> Requirements, capability |-> Nat, coverage |-> RunSources,
   query_plan |-> Plans, raw_manifest |-> Seq(Seq(Ids)), origin |-> SUBSET Ids,
   audit |-> Audits, groups |-> SUBSET SUBSET Ids,
   manifest |-> [audit : Audits, published : Publications],
   enrichment |-> BOOLEAN,
   report |-> [status : RunStatuses, raw : Nat, audit : Audits,
               published : Publications],
   stage_result |-> Results]
Operations ==
  [result : Results,
   registered : [Artifacts \ {"operation"} ->
                   {None} \cup UNION {Contents[name] : name \in DOMAIN Contents}]]

\* No artifact, no refusal and no Requirement looks like one that is not there.
ASSUME NoneAssumption ==
  None \notin RunStatuses \cup Plans \cup Operations \cup Refusals \cup Requirements

\* The places of a call: with an operation open, with a plan settled, with the
\* plan written, with the documents at hand, with their verdicts.
Told == {"enrich", "report", "result", "complete"}
Judged == {"evidence"} \cup Told
Read == {"documents"} \cup Judged
Planned == {"collect", "search", "archive"} \cup Read
Settled == {"snapshot"} \cup Planned
Opened == {"metadata"} \cup Settled
Places == {"idle", "adapter", "run"} \cup Opened

SearchShape(search) ==
  /\ DOMAIN search = {"found", "after", "page", "seen", "state"}
  /\ search.found \in Seq(Ids) /\ search.page \in Nat
JobShape ==
  /\ DOMAIN job = {"pc", "k", "plan", "prepared", "tries", "search", "docs",
                   "resolved", "published", "partial"}
  /\ SearchShape(job.search)
  /\ job.pc \in Places /\ job.k \in Nat \ {0}
  /\ job.plan \in {None} \cup Plans /\ job.prepared \in BOOLEAN
  /\ job.docs \in Seq(Ids) /\ job.resolved \in SUBSET Ids
  /\ job.published \in Publications /\ job.partial \in BOOLEAN
FilesOK ==
  /\ disk = [name \in Artifacts |-> disk[name]]
  /\ \A name \in DOMAIN Contents : disk[name] \in {None} \cup Contents[name]
  /\ native \in [1 .. MaxCalls -> {None} \cup Plans]
  /\ batches \in Seq(Seq(Ids))
ShapesOK ==
  /\ request \in [source : RunSources, req : Requirements,
                  caller : {"orchestrator", "cli"}, input : Inputs]
  /\ remote \in [listing : SUBSET Ids, version : Nat, stuck : BOOLEAN]
  /\ calls \in 0 .. MaxCalls /\ attempt \in 1 .. MaxCalls
  /\ attempt <= calls \/ (calls = 0 /\ attempt = 1)
  /\ calls = 0 => job = Idle /\ outcome = NoOutcome
  /\ FilesOK /\ JobShape

\* What the manifest of the raw responses lists is in the batches.
Backed ==
  \A i \in DOMAIN disk["raw_manifest"] :
    i \in DOMAIN batches /\ batches[i] = disk["raw_manifest"][i]

\* What the call has in hand is what it has written.
CallOK ==
  /\ job.pc = "adapter" => ~Direct
  /\ job.prepared /\ job.pc = "run" => job.plan \in Plans
  /\ job.pc \in Opened => disk["operation"] = None /\ disk["input"] = request.req
  /\ job.pc \in Settled => job.plan \in Plans
  /\ job.pc = "snapshot" =>
       job.k <= 3 /\ (job.k > 1 => disk["capability"] = job.plan.version)
  /\ job.pc \in Planned =>
       disk["query_plan"] = job.plan /\ disk["capability"] = job.plan.version
  /\ job.pc \in {"collect", "search", "enrich", "report"} => job.k = 1
  /\ job.pc = "archive" =>
       \A i \in 1 .. job.k - 1 : i \in DOMAIN batches /\ batches[i] = Batch(i)
  /\ job.pc \in Read =>
       /\ disk["raw_manifest"] \in Seq(Seq(Ids)) /\ Backed
       /\ DocIds = ToSet(FlattenSeq(disk["raw_manifest"]))
  /\ job.pc \in Judged => job.published = PublishedOf(source, request.req, DocIds)
  /\ job.pc = "evidence" => job.k <= 4
  /\ job.pc \in Told \/ (job.pc = "evidence" /\ job.k > 2) => disk["audit"] = Audit
  /\ job.pc \in {"result", "complete"} => disk["report"] = Report

StoreOK ==
  /\ disk["raw_manifest"] # None => Backed
  /\ disk["operation"] # None =>
       /\ disk["query_plan"] # None /\ Backed
       /\ DOMAIN disk["operation"].registered = Artifacts \ {"operation"}
  /\ CompletionIsClosed /\ CompletionIsCoherent

OutcomeOK == outcome # NoOutcome => job.pc = "idle"

IndInv == ShapesOK /\ CallOK /\ StoreOK /\ OutcomeOK /\ AnswersAreRecorded
=============================================================================
