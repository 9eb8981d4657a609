---------------------------- MODULE RetrievalRun ----------------------------
(***************************************************************************)
(* One retrieval stage run of Agent01 (retrieval/runner.py), called by the *)
(* orchestrator through its adapter or by the command line, interrupted    *)
(* and called again.  Everything a run learns goes to the artifact store,  *)
(* almost all of it immutable: writing other content to the same path is   *)
(* refused, and a refused run answers BACKEND_INCONSISTENT.                *)
(*                                                                         *)
(* The remote database is external: its listing and its version may change *)
(* between two requests, it may fail a request, and it may get stuck and   *)
(* repeat a page.                                                          *)
(***************************************************************************)
EXTENDS SourceSearch

CONSTANTS
  RunSources,     \* sources a run may select
  Requirements,   \* Requirements a run may be given
  Listings,       \* what the database may hold at first
  MaxAttempts,    \* RetrievalPolicy.max_attempts
  MaxCalls,       \* bound: invocations of the stage under one run id
  MaxTrouble      \* bound: disturbances of the environment

ASSUME RunAssumption ==
  /\ RunSources \subseteq Sources /\ Listings \subseteq SUBSET Ids
  /\ MaxAttempts \in Nat \ {0} /\ MaxCalls \in Nat \ {0} /\ MaxTrouble \in Nat
  /\ \A req \in Requirements :
       /\ req.max_candidates \in Nat \ {0} /\ req.ranking_preferences \in Seq(Preferences)
       /\ IsFiniteSet(DOMAIN req.ranges) /\ IsFiniteSet(req.source_constraints)
       /\ IsFiniteSet(req.class_evidence) /\ IsFiniteSet(req.scientific_targets)

VARIABLES
  request,     \* [source, req, caller, input]: what the stage is called with
  remote,      \* [listing, version, stuck]: the database
  disk,        \* the artifacts of the run
  native,      \* attempt -> the plan Agent01's adapter has frozen for it
  batches,     \* raw_response_batches/
  structures,  \* candidates/structures/, shared by all runs of a project
  memory,      \* records whose method metadata this process has seen
  job,         \* where the call is
  attempt, calls, outcome,
  trouble,     \* disturbances so far, by kind
  steady       \* listed from the start of the last search to its end

vars == <<request, remote, disk, native, batches, structures, memory, job,
          attempt, calls, outcome, trouble, steady>>
store == <<disk, native, batches, structures>>

Artifacts == {"input", "capability", "coverage", "query_plan", "raw_manifest",
              "origin", "audit", "groups", "manifest", "enrichment", "report",
              "stage_result", "operation"}
Usable == {"SUCCEEDED", "PARTIAL"}
Kinds == {"remote", "failed", "crashed", "edited"}
Inputs == {"sound", "missing", "invalid", "tampered"}

Idle == [pc |-> "idle", k |-> 1, plan |-> None, prepared |-> FALSE, tries |-> 0,
         search |-> NewSearch, docs |-> <<>>, resolved |-> {}, published |-> {},
         partial |-> FALSE]
NoOutcome == [status |-> None, category |-> None, result |-> None]
Failure(status, category) ==
  [status |-> status, category |-> category, result |-> None]

source == request.source
Direct == request.caller = "cli"
Troubled(kind) ==
  /\ trouble["remote"] + trouble["failed"] + trouble["crashed"]
       + trouble["edited"] < MaxTrouble
  /\ trouble' = [trouble EXCEPT ![kind] = @ + 1]

(***************************************************************************)
(* The artifact store.                                                     *)
(***************************************************************************)

Conflicts(name, content) == disk[name] \notin {None, content}
Write(name, content) == disk' = [disk EXCEPT ![name] = content]

Finish(result) == outcome' = result /\ job' = Idle
\* A refusal persists nothing.  The adapter reads stage_result.json to map the
\* answer, and fails where there is none.
Refuse ==
  Finish(Failure("PERMANENT_FAILED",
           IF ~Direct /\ disk["stage_result"] = None
             THEN "ORCHESTRATOR_STAGE_EXCEPTION" ELSE "BACKEND_INCONSISTENT"))

(***************************************************************************)
(* What the outputs hold.                                                  *)
(***************************************************************************)

\* A repeated material id is normalized once.
DocIds == ToSet(job.docs)
Unique == Ascending(DocIds)
UsableDocs == {id \in DocIds : Entry[id].structure # None}
Truncated == Len(job.docs) >= MaxRecordsScanned
Unresolved == UsableDocs # {} /\ job.resolved \cap UsableDocs = {}
RunStatus ==
  IF \/ Truncated \/ DocIds # UsableDocs \/ Unresolved \/ job.partial
    THEN "PARTIAL" ELSE "SUCCEEDED"
Audit == [docs |-> DocIds, resolved |-> job.resolved \cap UsableDocs]
\* The verdicts, as a table: they depend on the records alone.
PublishedTable ==
  {row \in RunSources \X Requirements \X (SUBSET Ids) \X Ids :
     row[4] \in Published(row[1], row[2], row[3])}
PublishedOf(s, req, ids) == {id \in ids : <<s, req, ids, id>> \in PublishedTable}
Report == [status |-> RunStatus, raw |-> Len(job.docs), audit |-> Audit,
           published |-> job.published]
Result(status, docs, published) ==
  [status |-> status, when |-> calls, docs |-> docs, published |-> published]
RunResult == Result(RunStatus, DocIds, job.published)

Snapshot ==
  << <<"capability", job.plan.version>>, <<"coverage", source>>,
     <<"query_plan", job.plan>> >>
Evidence ==
  << <<"origin", job.resolved>>, <<"audit", Audit>>,
     <<"groups", ExactDuplicates(UsableDocs)>>,
     <<"manifest", [audit |-> Audit, published |-> job.published]>> >>
Chunks == (Len(job.docs) + ChunkSize - 1) \div ChunkSize
\* Mistake: batches are counted from 0 here and from 1 there.
BatchAfter(i) == Slice(job.docs, i * ChunkSize, ChunkSize)
Batch(i) == Slice(job.docs, (i - 1) * ChunkSize, ChunkSize)
\* Everything a finished run registers with its hash.
Registered ==
  [name \in Artifacts \ {"operation"} |-> disk[name]]

(***************************************************************************)
(* The calls.                                                              *)
(***************************************************************************)

Init ==
  /\ request \in [source : RunSources, req : Requirements,
                  caller : {"orchestrator", "cli"}, input : Inputs]
  /\ remote \in [listing : Listings, version : {0}, stuck : {FALSE}]
  /\ disk = [name \in Artifacts |-> None]
  /\ native = [n \in 1 .. MaxCalls |-> None]
  /\ batches = <<>>
  /\ structures = [s \in Structures |-> None]
  /\ memory = {} /\ job = Idle /\ attempt = 1 /\ calls = 0
  /\ outcome = NoOutcome
  /\ trouble = [kind \in Kinds |-> 0]
  /\ steady = {}

\* The orchestrator calls again after a crash, or as the next attempt after a
\* retryable failure.  The user of the command line may call at any time, in
\* a new process, and with an edited Requirement.
Invoke ==
  /\ job.pc = "idle" /\ calls < MaxCalls
  /\ calls' = calls + 1 /\ outcome' = NoOutcome
  /\ job' = [Idle EXCEPT !.pc = IF Direct THEN "run" ELSE "adapter"]
  /\ \/ /\ ~Direct /\ outcome = NoOutcome
        /\ UNCHANGED <<attempt, memory, request, trouble>>
     \/ /\ ~Direct /\ outcome.status = "RETRYABLE_FAILED"
        /\ attempt' = attempt + 1 /\ UNCHANGED <<memory, request, trouble>>
     \/ /\ Direct /\ memory' = {} /\ UNCHANGED <<attempt, request, trouble>>
     \/ /\ Direct /\ calls > 0 /\ memory' = {} /\ Troubled("edited")
        /\ \E req \in Requirements \ {request.req} : request' = [request EXCEPT !.req = req]
        /\ UNCHANGED attempt
  /\ UNCHANGED <<store, remote, steady>>

Crash ==
  /\ job # Idle \/ (~Direct /\ outcome # NoOutcome)
  /\ Troubled("crashed")
  /\ job' = Idle /\ memory' = {} /\ outcome' = NoOutcome
  /\ UNCHANGED <<request, remote, store, attempt, calls, steady>>

\* validate_input: nothing is persisted for a call that must not run.
InputStatus ==
  CASE request.input = "missing" -> "BLOCKED_MISSING_INPUT"
    [] request.input = "invalid" /\ Direct -> "BLOCKED_MISSING_INPUT"
    [] OTHER -> "PERMANENT_FAILED"
InputCategory ==
  CASE request.input = "missing" -> "MISSING_INPUT"
    [] request.input = "invalid" -> "INVALID_INPUT"
    [] OTHER -> "INPUT_INTEGRITY_ERROR"
RejectInput ==
  /\ job.pc \in {"adapter", "run"} /\ request.input # "sound"
  /\ Finish(Failure(InputStatus, InputCategory))
  /\ UNCHANGED <<request, remote, store, memory, attempt, calls, trouble, steady>>

Step(pc) == job.pc = pc /\ request.input = "sound"
Quiet == UNCHANGED <<request, remote, memory, attempt, calls, trouble, steady>>

\* The adapter freezes the native plan of an attempt once.
ReuseNativePlan ==
  /\ Step("adapter") /\ native[attempt] # None
  /\ job' = [job EXCEPT !.pc = "run", !.plan = native[attempt], !.prepared = TRUE]
  /\ UNCHANGED <<store, outcome>> /\ Quiet
MakeNativePlan ==
  /\ Step("adapter") /\ native[attempt] = None
  /\ LET plan == [version |-> remote.version, when |-> calls] IN
       /\ native' = [native EXCEPT ![attempt] = plan]
       /\ job' = [job EXCEPT !.pc = "run", !.plan = plan, !.prepared = TRUE, !.tries = 0]
  /\ UNCHANGED <<disk, batches, structures, outcome>> /\ Quiet

\* run(): the input snapshot, then the recorded answer, the frozen plan of an
\* interrupted run, or a new plan.
RecordedIsIntact ==
  \A name \in DOMAIN disk["operation"].registered :
    disk[name] = disk["operation"].registered[name]
\* Mistake: a completed operation is run again.
OperationIsForgotten == FALSE
OperationExists == disk["query_plan"] # None /\ disk["operation"] # None
Resumable ==
  /\ disk["query_plan"] # None /\ ~job.prepared
  /\ disk["stage_result"] = None \/ disk["stage_result"].status \notin Usable
\* Mistake: the new plan replaces the frozen one.
SettleAfresh(plan) ==
  job' = [job EXCEPT !.pc = "snapshot", !.plan = plan, !.k = 1] /\ UNCHANGED outcome
Settle(plan) ==
  IF disk["query_plan"] = None
    THEN job' = [job EXCEPT !.pc = "snapshot", !.plan = plan, !.k = 1]
         /\ UNCHANGED outcome
    ELSE IF disk["query_plan"].version # plan.version THEN Refuse
    ELSE job' = [job EXCEPT !.pc = "snapshot", !.k = 1,
                            !.plan = disk["query_plan"]]
         /\ UNCHANGED outcome
Open ==
  /\ Step("run") /\ Quiet
  /\ \/ Conflicts("input", request.req) /\ Refuse /\ UNCHANGED store
     \/ /\ ~Conflicts("input", request.req) /\ OperationExists
        /\ IF RecordedIsIntact
             THEN Finish([status |-> disk["operation"].result.status,
                          category |-> None, result |-> disk["operation"].result])
             ELSE Refuse
        /\ UNCHANGED store
     \/ /\ ~Conflicts("input", request.req) /\ ~OperationExists
        /\ Write("input", request.req) /\ UNCHANGED <<native, batches, structures>>
        /\ IF Resumable THEN Settle(disk["query_plan"])
           ELSE IF job.prepared THEN Settle(job.plan)
           ELSE job' = [job EXCEPT !.pc = "metadata"] /\ UNCHANGED outcome

Metadata ==
  /\ Step("metadata")
  /\ Settle([version |-> remote.version, when |-> calls])
  /\ UNCHANGED store /\ Quiet

\* A transient failure is retried; the last one ends the call.  Before the
\* plan exists only the static evidence boundary is kept, and the adapter
\* keeps nothing.
MetadataFails ==
  /\ Step("metadata") \/ (Step("adapter") /\ native[attempt] = None)
  /\ Troubled("failed")
  /\ IF job.tries + 1 < MaxAttempts
       THEN job' = [job EXCEPT !.tries = @ + 1] /\ UNCHANGED <<disk, outcome>>
       ELSE /\ Finish(Failure("RETRYABLE_FAILED", "TRANSIENT_EXTERNAL"))
            /\ IF Direct
                 THEN disk' = [disk EXCEPT
                        !["coverage"] = IF source = "materials_project" THEN @ ELSE source,
                        !["stage_result"] = Result("RETRYABLE_FAILED", {}, {})]
                 ELSE UNCHANGED disk
  /\ UNCHANGED <<native, batches, structures, request, remote, memory, attempt,
                 calls, steady>>

\* Immutable writes, one artifact a step, and what comes after the last.
WriteNext(pc, writes, next) ==
  /\ Step(pc)
  /\ \E w \in {writes[job.k]} :
       IF Conflicts(w[1], w[2]) THEN Refuse /\ UNCHANGED disk
       ELSE /\ Write(w[1], w[2])
            /\ job' = IF job.k < Len(writes) THEN [job EXCEPT !.k = @ + 1]
                      ELSE [job EXCEPT !.k = 1, !.pc = next, !.tries = 0]
            /\ UNCHANGED outcome
  /\ UNCHANGED <<native, batches, structures>> /\ Quiet

WriteSnapshot == WriteNext("snapshot", Snapshot, "collect")

\* An archived response is read back, batch by batch, instead of asking again.
Collect ==
  /\ Step("collect")
  /\ IF disk["raw_manifest"] # None
       THEN /\ job' = [job EXCEPT !.pc = "documents",
                         !.docs = FlattenSeq(disk["raw_manifest"])]
            /\ UNCHANGED steady
       ELSE job' = [job EXCEPT !.pc = "search"] /\ steady' = remote.listing
  /\ UNCHANGED <<store, outcome, request, remote, memory, attempt, calls, trouble>>

\* Both reports of a failed search are written over, and so is the result.
SearchFails(status) ==
  /\ Finish(Failure(status, IF status = "RETRYABLE_FAILED"
                              THEN "TRANSIENT_EXTERNAL" ELSE "INVALID_RESPONSE"))
  /\ disk' = [disk EXCEPT
       !["report"] = [status |-> status, raw |-> 0, published |-> {},
                      audit |-> [docs |-> {}, resolved |-> {}]],
       !["stage_result"] = Result(status, {}, {})]

Answer ==
  IF remote.stuck /\ job.search.page + job.search.after > 0
    THEN Repeated(source, request.req, remote.listing, job.search)
    ELSE Answered(source, request.req, remote.listing, job.search)
Page ==
  /\ Step("search")
  /\ \E answer \in {Answer} : \E after \in {Advance(source, job.search, answer)} :
       /\ memory' = memory \cup ToSet(after.found)
       /\ CASE after.state = "open" ->
                 job' = [job EXCEPT !.search = after] /\ UNCHANGED <<disk, outcome>>
            [] after.state = "done" ->
                 /\ job' = [job EXCEPT !.pc = "archive", !.search = NewSearch,
                                       !.docs = Documents(after)]
                 /\ UNCHANGED <<disk, outcome>>
            [] OTHER -> SearchFails("PERMANENT_FAILED")
  /\ UNCHANGED <<native, batches, structures, request, remote, attempt, calls,
                 trouble, steady>>

\* A transient failure starts the whole search again.
PageFails ==
  /\ Step("search") /\ Troubled("failed")
  /\ IF job.tries + 1 < MaxAttempts
       THEN /\ job' = [job EXCEPT !.tries = @ + 1, !.search = NewSearch]
            /\ steady' = remote.listing /\ UNCHANGED <<disk, outcome>>
       ELSE SearchFails("RETRYABLE_FAILED") /\ UNCHANGED steady
  /\ UNCHANGED <<native, batches, structures, request, remote, memory, attempt, calls>>

WriteBatch ==
  /\ Step("archive") /\ job.k <= Chunks
  /\ IF job.k <= Len(batches) /\ batches[job.k] # Batch(job.k)
       THEN Refuse /\ UNCHANGED batches
       ELSE /\ batches' = IF job.k <= Len(batches) THEN batches
                          ELSE Append(batches, Batch(job.k))
            /\ job' = [job EXCEPT !.k = @ + 1] /\ UNCHANGED outcome
  /\ UNCHANGED <<disk, native, structures>> /\ Quiet
WriteRawManifest ==
  /\ Step("archive") /\ job.k > Chunks
  /\ Write("raw_manifest", [i \in 1 .. Chunks |-> Batch(i)])
  /\ job' = [job EXCEPT !.k = 1, !.pc = "documents"]
  /\ UNCHANGED <<native, batches, structures, outcome>> /\ Quiet

\* A structure is stored under the hash of its canonical form, but as the
\* source sent it.
WriteStructure ==
  /\ Step("documents") /\ job.k <= Len(Unique)
  /\ LET entry == Entry[Unique[job.k]] IN
       IF entry.structure # None /\ structures[entry.structure] \notin {None, entry.raw}
         THEN Refuse /\ UNCHANGED structures
         ELSE /\ structures' = [s \in Structures |->
                    IF s = entry.structure THEN entry.raw ELSE structures[s]]
              /\ job' = [job EXCEPT !.k = @ + 1] /\ UNCHANGED outcome
  /\ UNCHANGED <<disk, native, batches>> /\ Quiet

\* Method metadata comes from what this process has searched, from constants,
\* or from another request, whose failure is only a warning.
ResolvedBy(answered) ==
  CASE source \in {"nomad", "topological_quantum_chemistry"} -> UsableDocs \cap memory
    [] source \in {"mc3d", "c2db"} -> UsableDocs
    [] source = "materials_project" /\ answered -> UsableDocs
    [] OTHER -> {}
Resolve ==
  /\ Step("documents") /\ job.k > Len(Unique)
  /\ \E answered \in BOOLEAN :
       /\ IF ~answered /\ source = "materials_project"
            THEN Troubled("failed") ELSE UNCHANGED trouble
       /\ job' = [job EXCEPT !.pc = "evidence", !.k = 1,
                             !.resolved = ResolvedBy(answered),
                             !.published = PublishedOf(source, request.req, DocIds)]
  /\ UNCHANGED <<store, outcome, request, remote, memory, attempt, calls, steady>>

WriteEvidence ==
  WriteNext("evidence", Evidence,
            IF source = "materials_project" THEN "enrich" ELSE "report")

\* Report data of the published candidates; what is missing makes it partial.
Enrich ==
  /\ Step("enrich")
  /\ \E partial \in BOOLEAN :
       /\ IF partial THEN Troubled("failed") ELSE UNCHANGED trouble
       /\ IF Conflicts("enrichment", partial) THEN Refuse /\ UNCHANGED disk
          ELSE /\ Write("enrichment", partial)
               /\ job' = [job EXCEPT !.pc = "report", !.partial = partial]
               /\ UNCHANGED outcome
  /\ UNCHANGED <<native, batches, structures, request, remote, memory, attempt,
                 calls, steady>>

WriteReport == WriteNext("report", << <<"report", Report>> >>, "result")
WriteResult ==
  /\ Step("result")
  /\ \E result \in {RunResult} : Write("stage_result", result)
  /\ job' = [job EXCEPT !.pc = "complete"]
  /\ UNCHANGED <<native, batches, structures, outcome>> /\ Quiet
\* Mistake: a partial answer is given but not recorded.
CompleteWhole ==
  /\ Step("complete")
  /\ IF RunStatus = "SUCCEEDED"
       THEN Write("operation", [result |-> RunResult, registered |-> Registered])
       ELSE UNCHANGED disk
  /\ Finish([status |-> RunStatus, category |-> None, result |-> RunResult])
  /\ UNCHANGED <<native, batches, structures>> /\ Quiet
Complete ==
  /\ Step("complete")
  /\ \E result \in {RunResult} :
       /\ Write("operation", [result |-> result, registered |-> Registered])
       /\ Finish([status |-> result.status, category |-> None, result |-> result])
  /\ UNCHANGED <<native, batches, structures>> /\ Quiet

RemoteChanges ==
  /\ calls > 0 /\ (job.pc # "idle" \/ calls < MaxCalls)
  /\ Troubled("remote")
  /\ \/ remote' = [remote EXCEPT !.version = @ + 1]
     \/ ~remote.stuck /\ remote' = [remote EXCEPT !.stuck = TRUE]
     \/ \E id \in Ids : remote' = [remote EXCEPT !.listing =
          IF id \in @ THEN @ \ {id} ELSE @ \cup {id}]
  /\ steady' = IF job.pc = "search" THEN steady \cap remote'.listing ELSE steady
  /\ UNCHANGED <<request, store, memory, job, attempt, calls, outcome>>

Work ==
  \/ RejectInput \/ ReuseNativePlan \/ MakeNativePlan \/ Open \/ Metadata
  \/ MetadataFails \/ WriteSnapshot \/ Collect \/ Page \/ PageFails
  \/ WriteBatch \/ WriteRawManifest \/ WriteStructure \/ Resolve
  \/ WriteEvidence \/ Enrich \/ WriteReport \/ WriteResult \/ Complete
Next == Invoke \/ Crash \/ Work \/ RemoteChanges

\* A started call runs on: it is one synchronous function.
Spec == Init /\ [][Next]_vars /\ WF_vars(Work)
=============================================================================
