# Verification of the materials screening agent

TLA+ modules, TLC configurations and TLAPS proofs for the program in `src/`: an agent that turns a
scientific request into a confirmed Requirement, plans the calculation stages it needs (retrieval,
ML screening, DFT, many-body), runs them with approvals, retries and external jobs, and writes a
report. The paths below are relative to `src/src/material_agent/`; `graph.py`, `runtime.py`,
`storage.py`, `runners.py`, `state_machine.py` are in `orchestrator/`.

To run: `tlc -config MCStage_approval.cfg MCStage` (and so for every `MC*.cfg`, with the module its
name starts with), `tlapm StageProofs.tla` (and so for every `*Proofs.tla`).

- [1 The system](#1-the-system)
- [2 Modules, and how they correspond to the code](#2-modules-and-how-they-correspond-to-the-code)
- [3 What the runs check](#3-what-the-runs-check)
- [4 What is proved](#4-what-is-proved)
- [5 What the code does not keep](#5-what-the-code-does-not-keep)
- [6 Not modelled](#6-not-modelled)
- [7 Plan](#7-plan)

## 1 The system

### Components, their state and operations

| Component | State it keeps | Operations | What makes it correct |
| --- | --- | --- | --- |
| **Stage graph** (`graph.py`, LangGraph) | checkpoint: node, pending interrupt, plan cursor, attempt counter, outcome per stage, pending outcome, decisions | 22 nodes, from `parse_requirement` to `generate_report` | a frozen Requirement is the confirmed one; nothing gated runs unapproved; stages run in order; the stores agree; the final status is earned |
| **Business repository** (`storage.py`, SQLite) | runs, requirements, stage_runs, stage_attempts, approvals, operations, external_jobs, run_events, interaction_responses | one short transaction per call, each with a replay rule (same content accepted, other content refused) and a status matrix | matrices that fit the graph; idempotent replay |
| **Status matrices** (`state_machine.py`) | none | five tables of allowed moves | no edge the graph needs is missing |
| **Command runtime, CLI** (`runtime.py`, `cli.py`) | project lock (a file) | `start`, `respond`, `approve`, `retry`, `cancel`, `resume`, `run-stage`, `status`, `report` | a command acts on the question it was given for; any interrupted Run can be moved on |
| **Runner adapters** (`runners.py`) | none | `validate_input`, `prepare`, `start`, `reconcile`, `cancel`, `load_result` of each stage, and the mapping of their exceptions to outcomes | every exception has an outcome the graph can file |
| **DFT stage** (`dft/`) | per operation key: operation, status snapshots, result, terminal operation (immutable files); the backend's job | start, reconcile, cancel; mock and VASPilot bridge backends | one job per key; files, tables and backend tell one history |
| **Many-body stage** (`many_body/`) | as DFT, with a rewritten operation; an in-memory backend | the same | the same |
| **ML screening stage** (`ml_screening/`) | per attempt: plan and result files; per candidate: worker sandbox and a ledger entry | filter, applicability, worker subprocesses (CHGNet, ALIGNN, DeepH), selection, property chain, replay | a worker writes nothing outside its sandbox and its output is accepted only if it fits the request; a finished operation is replayed |
| **Retrieval stage** (`retrieval/`) | frozen query, raw snapshots, normalized records, candidate decisions, published result | query, paging, retry per call, normalization, dedup, evaluation, ranking, publication | a resumed run ends with the records an uninterrupted one has; hard constraints are never relaxed |
| **Local artifact store** (`retrieval/storage.py`) | files under the project | atomic immutable write, read with hash check | a file never changes once published |
| **Inspiration stage** (`inspiration/`) | per run: frozen input, fetch ledger, evidence, candidates, feedback | search (retries, pacing), fetch (allowances, no redirects), extraction, hypothesis engine, diverse selection, feedback | budgets are kept; each hypothesis has evidence; selection fills its quotas |
| **Materials gateway** (`gateway/`) | submissions with a version, results, one-time grants | `materials_inspiration_run`, `run_get`, `run_act`, `result_get` over MCP | one submission per key; a grant is used once, for the action it was issued for; versions do not go backwards |
| **Hermes integration** (`integration/`) | a prepared manifest per submission | preparer, fixture projector, trusted companion, operator approval | nothing is frozen without the operator's grant; recovery after a crash uses the consumed grant once |
| **Parser, LLM providers, advisor** (`parser.py`, `llm.py`, `research_advisor.py`) | none | draft, questions, revision | validated output; a failed provider leads to questions and not to a guess |

### How they interact

- A CLI command is one process. It reads the checkpoint, takes the project lock without waiting, then
  calls `graph.invoke`; the graph runs nodes until it ends or interrupts. A node calls the repository,
  the artifact store and the stage's runner, each of which commits on its own. The checkpoint is
  written when the node returns. **So a node is not atomic: after a crash it runs again from its
  first line over whatever it already wrote.** That is the central difficulty of this code.
- A user answers an interrupt (clarification, review, approval, retry) with another command, in
  another process; the answer is also filed in `interaction_responses`.
- A job of a stage outlives the process that submitted it; `resume` polls it. A backend in memory loses it with
  the process and is given it back from the artifacts; behind the bridge requests and replies get lost.
- ML workers are subprocesses with a timeout; retrieval and inspiration call HTTP APIs with retries.
- The gateway calls the Hermes companion, which runs the inspiration stage; grants come from an operator's terminal.

### What is hard

Crash and re-execution at every durable write; stale reads before the lock; answers that come late or
twice; a retry while the first job lives; a status matrix written apart from the graph that moves through
it; lost replies; files and tables that are written one by one. `PROJECT.json` lists these under
`hazards`, each at its line with the properties that would notice it going wrong. None of the modelled code runs threads:
interleaving is of processes, users, backends and crashes.

## 2 Modules, and how they correspond to the code

| Module | What it is |
| --- | --- |
| `StateMachine` | the five status matrices of `state_machine.py`, as sets of pairs |
| `StageLifecycle` | the stage loop from the plan to the report |
| `ApprovedExecution` | the abstract promise about every attempt of every stage |
| `StageSafety` | invariants, the inductive invariants, the refinement mapping |
| `StageClaims` | fairness, liveness, and the claims that fail |
| `StageProofs` | TLAPS proofs: types and approval; order, stores and the final status; the refinement |
| `RequirementIntake`, `IntakeSafety`, `IntakeProofs` | from the first command to the frozen plan, under several processes |
| `JobControl`, `JobSafety`, `JobProofs` | one external job: runner, artifacts, backend, bridge, record |
| `GatewayRun`, `GatewaySafety`, `GatewayProofs` | one submission to the Materials Gateway, its grants and its execution |
| `LicensedRun` | the abstract promise about a submission |
| `RetrievalEvaluation`, `SourceSearch` | what a database record is worth to a Requirement; how each source is paged |
| `RetrievalRun`, `RetrievalSafety`, `RetrievalProofs` | one retrieval run over its artifact store, interrupted and called again |
| `MLScreening` | the decisions of the ML stage: filter, applicability, ranking, selection, quality of a relaxation |
| `MLRun`, `MLSafety`, `MLProofs` | one ML stage run: plan, workers, ledger, files, answers |
| `Listing`, `ListingFacts` | finite sets put in order, as the program sorts them; what the provers need to know of sequences, counts, folds and sums |
| `SearchEvidence`, `StructureEdit`, `CandidateSelection` | what an inspiration run computes: passages, cards, packets and feedback; a substitution and its verdict; routes, candidates and their selection |
| `InspirationRun`, `InspirationSafety`, `InspirationProofs` | one inspiration run over an unreliable network, composed of the three above |
| `CompletedRun` | what the release verifier (`integrations/hermes/scripts/verify_completed_inspiration_run.py`) asks of a completed run; its look at the two databases is `RunVerified` and `GrantVerified` of `GatewayRun` |
| `MCStage`, `MCIntake`, `MCJob`, `MCGateway`, `MCRetrieval`, `MCML`, `MCInspiration` | instances for TLC |

`StageLifecycle` and `JobControl` overlap on purpose. The first has the whole loop with a job
reduced to a status that moves; the second has one job in full with the loop reduced to one attempt.
`RequirementIntake` ends where `StageLifecycle` begins (`route_next_stage`), with the Requirement frozen.
`RetrievalRun` and `MLRun` are the inside of a `prepare`/`start` of stages 1 and 2, which the loop sees as one answer;
`InspirationRun` is the inside of `Execute` of `GatewayRun`, which sees its artifacts.

### StageLifecycle

One Run, one process at a time (the lock, which the intake has in full), stages 1..4 = retrieval, ml,
dft, many_body.

| Variables | In the code |
| --- | --- |
| `level`, `permitted`, `target`, `supplied` | the request: required evidence level, budget, `run-stage` target, supplied artifacts |
| `node`, `interrupted`, `cursor`, `counter`, `outcome`, `planRef`, `prepared`, `pend`, `decision`, `retryDecision` | the checkpoint (`OrchestratorState`, `models.py:486`) |
| `run`, `stageRow`, `attemptRow`, `operations`, `approval`, `jobRow` | tables of `storage.py` |
| `planFile`, `report` | immutable artifacts |
| `alive`, `step`, `answer`, `local` | the process: which durable write of the node comes next, the answer it was started with, an outcome it holds in memory |
| `starts`, `job`, `crashes`, `raised` | the world: what was handed to a runner, jobs at their backend, crashes, and which repository check has raised out of a command |

A node with several durable writes is several actions, one per write, ordered by `step`
(`PrepareStagePlan`: freeze the plan file, write the attempt row, write the stage row, return). A node
that only computes is one action. The last action of a node returns it: the checkpoint moves, `step`
is 0 again. `Crash` ends the process between any two actions; `ResumeNode` starts the node again. A
repository call that refuses raises out of the command: the process ends, the reason joins `raised`.
Commands are actions: `Approve`, `RespondApproval`, `RespondRetry`, `ResumeNode`, `ResumeReconcile`,
`CancelExternal`. A backend moves by itself (`JobMoves`).

Abstracted: identifiers and hashes are (stage, attempt) pairs; a plan is "free" or "asks" for approval;
an outcome keeps its kind, status, key, reference and job report. Timestamps, texts and the content of
results are left out.

### RequirementIntake

Processes run `start`, `respond`, `approve` (which is a `respond` here) and `resume` at once. A command first
copies what it needs from the checkpoint (`cmd`), then takes the lock or is turned away, then
advances. A draft is a model value; an interaction is its gate, draft and round, which is what its hash is
made of. The parser is a nondeterministic choice each time it is called, also when a crashed node calls it again. Nodes:
`Parse*`, `Clarify*`, `Review*`, `Cancel*`, `Freeze*`, `Direct*`, `Plan*`, one action per commit, then
`RecordResponse` after the graph has returned.

### JobControl

`kind` is the backend (`mock`: `dft/mock_backend.py`; `bridge`: `dft/vaspilot_backend.py` with
`fake_bridge.py` behind it; `many_body`), `scenario` what it answers. `operation`, `snapshots`, `result`
and `terminal` are the runner's files; `stageRow`, `attemptRow`, `ledger` and `jobRow` the tables;
`node`, `previous` and `pend` the checkpoint; `pc` is the step of the process. `start` is
`StartKnown | Submit | Post, LookUp`, then `WriteOperation`; `reconcile` is `ReplayTerminal | Observe,
WriteSnapshot, UpdateOperation | Fetch, WriteResult, WriteTerminal`; then the orchestrator's `Return`
and one `Record*` action per table. A lost request (`Loses`) reaches the backend or does not.

### GatewayRun

| Variables | In the code |
| --- | --- |
| `row`, `result` | the tables of `gateway/persistence.py`; `revision` is the optimistic lock of `replace_run` |
| `grant`, `recoveries` | the tables of `gateway/authorization.py`, one grant per exact action of the one interaction a submission has |
| `pageFile`, `attemptsFile`, `reportFile` | the artifacts of the inspiration run whose content comes from outside; everything else is computed from them |
| `call` | where each serving process is in its tool call, the row it read, what the search answered, the transition it will commit |
| `operator` | what the operator's command has read and is about to grant or recover |
| `build` | the components installed; a manifest is a request and a build |
| `executions` | the manifests the runner was given (a history variable) |

`materials_inspiration_run` is `Submit`, `Start`, `Commit`; `materials_run_act` is `Act`, `Authorize`, then `Stop` or
`Execute`, `Search`, `WritePage`, `WriteAttempts`, `Publish` or `Overruns`, then `Commit`. The operator's command is
`OperatorReads`, then `Issue` or `Recover`. `Crash` ends a call between any two of these; `Upgrade` changes the components.
`Servable` is `materials_result_get`. One query stands for several, an answer for its page and its attempts, SUCCEEDED
for PARTIAL too. A conflict of the prepared inputs is part of the manifest check (`Prepared`), since both depend on the build.
The check and the replacement in `_atomic_write` are one step: `ExecutionsAreLicensed` shows that only one execution writes at a time.
A recovery is made under the operator's statement that the process that used the grant has stopped; the model takes the statement
to be true (`InUse`).

### RetrievalEvaluation, SourceSearch, RetrievalRun

A record is the rank of its identifier; `Entry` says what the database knows of it and `Value` what each source
reports of that (`normalizer.py`). `Matches` is the condition that is pushed down into the query (`query.py`), `Verdicts` and
`Decision` the local judgement with its tolerance (`evaluator.py`), `RankingKey` and `Published` the order and the cut
(`ranking.py`). `Advance` moves a search by one answered request (`adapters.py`): NOMAD by key, MC3D, C2DB and TQC by
position, Materials Project and NIMS at once.

| Variables of `RetrievalRun` | In the code |
| --- | --- |
| `request` | the Requirement the run is called with, the source, the caller (orchestrator or command line), the state of its input file |
| `remote`, `steady` | the database: its listing and version; what it listed throughout (history) |
| `disk`, `native`, `batches`, `structures` | the artifact store: named artifacts, native plans per attempt, raw batches, structures |
| `memory` | method metadata that NOMAD and TQC adapters keep in the process |
| `job` | the call under way: the step it is at, plan, documents, search |
| `attempt`, `calls`, `outcome`, `trouble` | which attempt, how many calls, the last answer, counters of what went wrong |

One action per artifact written (`WriteNext` writes the next of a group that is not there), one per answered request
(`Page`, `Metadata`, `Resolve`), and one per way a request ends the run (`PageFails`, `MetadataFails`). Retries of one request
leave nothing behind and are one step. `Crash` loses `job` and `memory`; the next `Invoke` starts from the store. Immutable files: `Conflicts`.

### MLScreening, MLRun

`ConstraintVerdicts`, `ApplicabilityChecks` and `PreFilter` are `prefilter.py` and `applicability.py`, `Selected` and `PlanOf`
are `selection.py` and `planner.py`, `QcPassed` the acceptance of a relaxation. What CHGNet answers is the constant
`Relaxation`, per candidate and device (a GPU and the CPU may differ). In `MLRun`, `disk` holds the files of each attempt (native plan,
stage plan, manifest, report, result, completion), `ledger` the operation files of finished candidates, whose key does not depend on the attempt, `sandbox` what the
last worker left there, `orphans` the workers whose host died, `job` the call under way. Actions: `Validate`,
`WriteNativePlan`, `FreezePlan`, `Start`, then per candidate `SkipCandidate`, `ReuseCandidate` or `LaunchWorker`, `WorkerFinishes` or
`WorkerFails`, `FileCandidate`, then one write after the other to `CompleteStage`. `OrphanEnds` is the late worker.

### SearchEvidence, StructureEdit, CandidateSelection, InspirationRun

`Plan` is the query planner over the tag graph, `HitsOf` to `Packets` the way from result pages to evidence packets with
the bounds of the budget, `Feedback` the feedback compiler with its own refusals. `Verdict` is the substitution of one site class, its charge
balance and geometry. `Select` is the diverse selection: a witness for the quota (`DeepWitness`, `Pairs` for its shortcut), then greedy by
`Score`. Tokenizing, hashing, CIF and graph algorithms are given as data. `InspirationRun` has the network: `Search*` with pacing,
`Retry-After`, retries and a wait budget per query; `Fetch*` with redirects, byte, request and wait budgets, transient failures; then
`Compile`, which computes the answer from what arrived. `sent` counts the physical requests (history).

### Mutants

A definition whose comment starts with "Mutant" or "Mistake" is a plausible wrong variant of the one after it. No
specification uses it. For each property of each passing run at least one such variant, put in the place of the
original, makes TLC report that property as violated: the property depends on the code being
as it is (list in `PROJECT.json`).

## 3 What the runs check

Passing runs (distinct states with TLC, two workers, each in less than three minutes):

| Run | Instance | Properties | States |
| --- | --- | --- | --- |
| `stage_approval` | two stages, the first gated if its plan asks, the second always and perhaps waiting for a job, as the DFT stage does; failing preparations and starts; cancellation; 2 attempts; 1 crash | `ApprovedBeforeStart` `RetryFollowsFailure` `KeepsPromise` | 120 683 |
| `stage_external` | three stages, the middle one waits for a job that may end in any way, lose contact or contradict itself; tampered results; cancellation; 2 attempts; 1 crash | `EarlierStagesSettled` `LedgersAgree` `TerminalIsFinal` `ReportedUnlessRefused` | 31 777 |
| `stage_routing` | all four stages, one of them unregistered; every evidence level; two budgets; direct runs with and without artifacts; every way an input is refused; 1 crash | `FinalStatusIsEarned` `ProcessNeverStuck` `NothingRefused` | 20 069 |
| `intake_sessions` | two processes, two drafts, one of which cannot be planned; three rounds, two reviews; 1 crash | `FrozenIsApproved` `CancelledStaysUnfrozen` `OneReviewLine` `DecisionMeetsItsQuestion` | 850 134 |
| `job_chain` | thirteen backend scenarios on three backends; 2 crashes; 2 lost messages; cancellation | `ArtifactsTellOneStory` `WaitingHasAJob` `RowsAreBacked` `JobOnlyMovesOn` `Settles` | 79 102 |
| `gateway_licence` | two processes, a supported and an unsupported request, approval against cancellation, two search answers (one over the budget) or none, two builds, two confirmation references; 2 crashes | `ExecutionsAreLicensed` `ResultIsServable` `KeepsLicence` `AskedIsSettled` | 258 907 |
| `retrieval_resume` | five sources, two Requirements, four records (incomplete, duplicate, on a bound), two listings that change; pages and batches of one record, at most three scanned; 3 calls, 2 attempts; 2 of each trouble | `CompletionIsClosed` `CompletionIsCoherent` `AnswersAreRecorded` `SucceededMissesNothing` `RefusalHasACause` `CallsEnd` | 205 707 |
| `ml_ledger` | six candidates and sixteen asks: every reason to filter or refuse one, top-n and explicit ids, CPU and GPU, an expiring health snapshot; 3 calls; 3 crashes or worker failures | `EvidenceIsEarned` `CompletedWorkIsKept` `AnswersAreCompleted` `RefusalHasACause` `BudgetGoesToTheBest` | 76 224 |
| `inspiration_network` | two rules, four queries, five records of four documents, twelve crystals in six parent pools, three policies, one as released (no fetching, no quota); 1 retry each, 3 requests, 3 bytes; 2 network failures | `RequestsAreLogged` `SelectedIsBacked` `QuotaIsTruthful` `NothingRefused` `FeedbackReconciles` `RunEnds` | 19 458 |

What the properties say, in short (each has its full statement in a comment where it is defined):

- `ApprovedBeforeStart`: an attempt that its capability or its frozen plan gates reaches a runner only
  after its own approval row is APPROVED. `KeepsPromise`: the loop implements `ApprovedExecution`,
  where an attempt goes from idle through planned, asked, granted or refused to submitted, failed or
  closed, and a next attempt exists only after a failure that may be retried.
- `RetryFollowsFailure`, `EarlierStagesSettled`: order between attempts and between stages.
- `LedgersAgree`: once a stage is passed, five records that were committed apart agree.
- `FinalStatusIsEarned`, `TerminalIsFinal`: the final status has the rows that justify it, and nothing
  moves after it.
- `ProcessNeverStuck`: a live process always has an enabled step, so no matrix refuses a write that the graph takes
  for granted. `NothingRefused`: without retries no repository check raises, except for a user who changes
  their mind about an approval.
- `ReportedUnlessRefused`, `Settles`: liveness, see fairness.
- `FrozenIsApproved`, `DecisionMeetsItsQuestion`, `CancelledStaysUnfrozen`, `OneReviewLine`: what is
  frozen is the draft of the one approved review; a decision is made by a command given for that interaction, although it was
  read before the lock; a cancelled Run has no Requirement; reviews form one line.
- `ArtifactsTellOneStory`, `WaitingHasAJob`, `RowsAreBacked`: the job's files, tables and backend agree. `JobOnlyMovesOn`: a submission
  on file is not handed in a second time under its key, although the process that executes the stage again knows neither its answer nor its job,
  and in the job's row no earlier answer replaces a later one, and no end another.
- `ExecutionsAreLicensed`: the runner runs at most once per confirmation a person gave, on the manifest that was confirmed, and never
  twice at a time. `KeepsLicence`: the gateway implements `LicensedRun`, where a licence is armed, spent once, and a submission
  ends once and as a spent licence allows. `ResultIsServable`: a success and its result and report are one, and
  the release verifier accepts what the databases say of a success that took one confirmation.
- `CompletionIsClosed`, `CompletionIsCoherent`, `AnswersAreRecorded`: a completed retrieval stays verifiable by its hashes, its
  artifacts describe the same documents, and what is answered is what was recorded. `SucceededMissesNothing`: a SUCCEEDED run
  published every record that was listed throughout and meets every condition, unless enough better ones exist; this
  relates paging, push-down, tolerance, ranking and the cut. `RefusalHasACause`: the only ways into a refusal (of its own in each of the two modules).
- `EvidenceIsEarned`: a published ML pass was eligible, relaxed well, and its structure is the one on disk. `CompletedWorkIsKept`: the
  files of a completed stage agree with each other and with the ledger. `AnswersAreCompleted`: an answer carries the completed result, always the same.
  `BudgetGoesToTheBest`: against a definition of the best that does not mention the planner's passes.
- `RequestsAreLogged`: every search request is in the log, in the order of the plan and numbered on while a query is retried; retries and pauses stay
  within the policy. Of fetches it bounds what is recorded, by the budgets and by what went out, and does not say that every one is recorded (section 5).
- `SelectedIsBacked`, `FeedbackReconciles`: every selected candidate goes back to documents found for
  its own rule and to a charge-balanced edit; the feedback adds up. `QuotaIsTruthful`: the selection against a reference definition over all subsets of the pool.
  `NothingRefused` (of the inspiration): the run's own checks never fire, and the release verifier accepts every run of the released kind.
- `CallsEnd`, `RunEnds`: calls end although a server repeats itself or fails.
- `AskedIsSettled`: while the approved components stay installed, a question does not stay open for ever, whatever calls die.

### Bounds, and why they are enough

- *Attempts* (`MaxAttempts` 2): the third attempt treats the second as the second treats the first; all
  retry properties relate n and n-1. *Crashes* (1 in the loop and the intake, 2 in the job chain): what a
  crash leaves is a prefix of a node's writes; the second one in `job_chain` hits the recovery itself, which
  is where the attempt row's refusal was found. *Polls* (`MaxPolls`): only bounds backends that
  never end. *Rounds, reviews*: two reviews and one clarification beyond them give a question,
  its revision and a late answer to each. *Processes* (2): the lock excludes all but one; the second one is the stale reader.
- *Lost messages* (2): a lost reply and a lost look-up.
- *Gateway*: two crashes strand the grant and then the recovered grant, which is the first time a reference can come back;
  two processes are an approving and a cancelling call, or two approving ones; two builds are the approved one and another. With as many
  crashes as references a run could be left without a fresh one, which is the operator's affair.
- The three stage runs split the input space. `stage_approval` has the gate and the wait in one stage but no
  backend faults, `stage_external` the faults but no gate (a crash behind a gate ends all progress, see
  section 5, so the liveness property needs a Run without one), `stage_routing` every route with one attempt.
- `TypeOK` of the stage loop, the intake and the gateway is proved, so no run spends time on it.
- *Retrieval*: three calls are a first one, one that resumes and one that finds the operation completed; two attempts are a failed and a
  retried one. Three scanned records of four are the bound that truncates. Two troubles of each kind make a change between two pages and a crash after it.
- *ML*: three calls and three troubles let a worker time out, its host die, and the orphan end while a later call relaxes the same candidate.
- *Inspiration*: one retry of each kind, so that the second failure is final; two failures hit two different requests or one request twice.

`CHECK_DEADLOCK FALSE` everywhere: a Run ends, a Run that waits for an answer nobody gives stops, and bounds stop the rest.
`ProcessNeverStuck` is the deadlock property that matters.

### Fairness

`StageClaims!FairSpec`: weak fairness of `GraphStep` (a process runs on unless it crashes), of
`JobMoves` (a backend finishes its jobs), of `ResumeNode` and `ResumeReconcile` (the operator runs `resume`
while there is something to resume) and of `Approve` and `RespondRetry` (the operator answers a question in the end).
`JobSafety!FairSpec`: the same for the runner's and the record's steps and for resuming. `GatewaySafety!FairSpec`: calls run on (weak); the
agent approves again while it is asked, and the operator grants and, with a fresh reference, recovers (strong, because a crash or a race
lost disables these for a while). Crashes, cancellations, upgrades, lost messages
and answers of a particular kind have no fairness. Nothing in the code polls by itself: without a user no Run moves,
so liveness can only be stated with the operator as part of the system.

`RetrievalRun` and `InspirationRun`: weak fairness of their own work (a call runs on unless it crashes or is done), none of
remote changes, failures, crashes or new calls. `MLRun` has the same, but its run checks safety only: a worker has a wall time, so nothing of interest is left to wait for.

`ReportedUnlessRefused` and `Settles` allow one way out: that a repository check has raised. That is not a
weakness of the property but what the code does (section 5).

## 4 What is proved

Every theorem holds for all values of the constants that satisfy the named assumption of its module; none of the
bounds of section 3 is used. Each rests on an inductive invariant (a `...Safety` module, behind "What makes them
inductive"), which TLC checked on the instance of the run before it was proved. The proofs have one shape: `InitInv`; one lemma for
each part of the invariant, with one step per action (in `MLProofs` and `RetrievalProofs` one lemma for each action, with one step per part); `Inductive`, which combines them; and the theorems, which
follow from the invariant with PTL. The leaves are small: all are found with the provers' time limits cut to an eighth (`tlapm --stretch 0.12`), so a slower machine finds them too.

| Module | Theorem | Property |
| --- | --- | --- |
| `StageProofs` | `TypeCorrect` | `StageSafety!TypeOK` |
| | `ApprovalSafety` | `ApprovedBeforeStart` |
| | `StagesInOrder` | `EarlierStagesSettled` |
| | `RetriesFollowFailures` | `RetryFollowsFailure` |
| | `LedgersInAgreement` | `LedgersAgree` |
| | `FinalStatusEarned` | `FinalStatusIsEarned` |
| | `EndIsFinal` | `TerminalIsFinal` (action property) |
| | `PromiseKept` | `KeepsPromise` (refinement of `ApprovedExecution`) |
| `IntakeProofs` | `TypeCorrect` | `IntakeSafety!TypeOK` |
| | `OneLineOfReviews` | `OneReviewLine` |
| | `FrozenAsApproved` | `FrozenIsApproved` |
| | `CancelledFreezesNothing` | `CancelledStaysUnfrozen` |
| | `DecisionsAnswerTheirQuestion` | `DecisionMeetsItsQuestion` (action property) |
| `JobProofs` | `OneStory` | `ArtifactsTellOneStory` |
| | `WaitsForAJob` | `WaitingHasAJob` |
| | `TablesAreBacked` | `RowsAreBacked` |
| | `JobMovesOn` | `JobOnlyMovesOn` (action property) |
| `MLProofs` | `PublishedEvidence` | `EvidenceIsEarned` |
| | `FinishedWork` | `CompletedWorkIsKept` |
| | `CompletedAnswers` | `AnswersAreCompleted` |
| | `NamedCauses` | `MLSafety!RefusalHasACause` |
| | `BestFirst` | `BudgetGoesToTheBest` |
| `RetrievalProofs` | `ClosedCompletions` | `CompletionIsClosed` |
| | `CoherentCompletions` | `CompletionIsCoherent` |
| | `RecordedAnswers` | `AnswersAreRecorded` |
| | `RefusalsCaused` | `RetrievalSafety!RefusalHasACause` |
| | `NothingMissed` | `SucceededMissesNothing`, if `AsksForAll` |
| `InspirationProofs` | `RequestsLogged` | `RequestsAreLogged` |
| | `FeedbackAgrees` | `FeedbackReconciles` |
| | `QuotaIsTold` | `QuotaIsTruthful` |
| | `SelectionIsBacked` | `SelectedIsBacked` |
| | `OwnChecksHold` | `ChecksNeverFire`, the first half of `InspirationSafety!NothingRefused`, if `MaxCatalogSites <= MaxSites` |
| `GatewayProofs` | `TypeCorrect` | `GatewaySafety!TypeOK` |
| | `LicensedExecutions` | `ExecutionsAreLicensed` |
| | `ServableResults` | `ResultIsServable` |
| | `LicenceKept` | `KeepsLicence` (refinement of `LicensedRun`) |

### The stage loop (`ConstantsAssumption`)

`ApprovedBeforeStart` is not inductive. A start is allowed by the node the checkpoint names, and
nothing in the property says what has to be true when that node is reached. `IndInv == TypeOK /\ ControlOK /\ ApprovalOK`:

- `ControlOK` says what each node may rely on: a stage under the cursor, an attempt not yet counted, a
  plan prepared for that attempt, a pending outcome; that later stages are untouched; and that an answer belongs to
  the gate that is open. It is needed because a node runs again after a crash with whatever the
  checkpoint holds.
- `ApprovalOK` says that a plan is frozen from `prepare_stage_plan` on and that, behind the gate, the attempt's
  own approval row is APPROVED if its plan gates it: the property moved forward along the path to the runner.
  The frozen plan matters because `Gated` reads it: a plan that could change after the gate would make the approval worthless.

`HistoryOK` adds what a Run remembers. `FiledOK` says, for each `step` of `record_stage_outcome`, which of the five tables
tells the pending outcome already: `LedgersAgree` moved back into the node that makes it true. `AttemptsOK` says that
attempts are taken one at a time; its hard part, `PlansOK`, is that a plan without a counted attempt belongs to the stage at
work or to a refusal that is being filed, and that filing it does not reopen the failed attempt, whose row has another
key (`graph.py:1723` files it under the old number). `OrderOK` and `OutcomesOK` carry the order of the stages, `FinalOK` the
final status; a cancelled retry is traced to the cancelled outcome that is filed for it.

The refinement needs `PhasesOK` besides: only gated plans have an approval row (`AskedOK`), an attempt is open until
it is counted (`OpenOK`), and what is filed ends an attempt that was started, never planned or refused (`StartedOK`). Each action is
then shown to change the phase of at most one attempt along an edge of `ApprovedExecution`, or of none.

### The intake (`IntakeAssumption`)

`IndInv == TypeOK /\ SessionsOK /\ PlaceOK /\ RoundsOK /\ ReviewsOK /\ FrozenOK`. `SessionsOK` is mutual exclusion and what the process inside
owns: without it nothing said of `heard` and `step` would survive another command. `PlaceOK` ties the checkpoint to the
node. `RoundsOK` bounds the rounds: a command read its question before it had the lock, so several answers to one
round may be under way, and each may open another; there is a round left for each of them, or the one left does not ask
again. This counts processes (`Unheard`) and so needs the cardinality theorems. `ReviewsOK` strengthens `OneReviewLine` by where the last review of
the line stands; `FrozenOK` says at which node which of file and row is there.

`DecisionMeetsItsQuestion` follows from the invariant for each action that writes an approval: the command that holds the lock was
given for the interaction the gate shows, because `_validate_interaction_response` compares them again under the lock.

### The job chain (`JobAssumption`)

`IndInv == ShapesOK /\ FilesOK /\ RunnerOK /\ AnswersOK`. `FilesOK`: the operation is as submitted, or the many-body copy of a snapshot
at most one behind; a terminal operation closes the snapshots. `RunnerOK` says what the runner holds between two writes, so
that a crash leaves a prefix of them. `AnswersOK` says that every answer is backed when it is given, while it is
recorded and wherever it is kept: the tables are written from an answer, after the artifacts moved on or the process died. The lemma
`Ranks` (a status that follows another does not fall back) is checked for each pair of the backends' scripts.

The first half of `JobOnlyMovesOn` follows from `IndInv` action by action: with a submission on file, every step moves the job on from where the backend or the file has it.
The second half needs one part more, `RowOK`: an answer that is being filed has passed the comparison with the row (`JobAccepts`), however
old the checkpoint is that its sequence was counted from (`RowStep`).

### The ML stage (`ScreeningAssumption`, `AskAssumption`, `NoneAssumption`)

`AskAssumption` is what the models of request and manifest validate (`models.py`), `NoneAssumption` that `None` is no value of the
program. `IndInv == ShapesOK /\ LedgerOK /\ FilesOK /\ CallOK /\ FreshOK /\ OutcomeOK`. `Told` is the heart: a record of a wanted candidate is the
ledger's or a failure, of any other it says that it was not run. `FilesOK` holds it for every file that follows from the
manifest, `CallOK` for the records in hand, with `UpToDate`: what the ledger holds is what they hold, so that a failure is never told of
a finished candidate. `FreshOK` says that without a crash a call finds nothing of an earlier one, which is where the causes of a
refusal come from; a manifest without errors agrees with the records of any later call of the attempt (`WriteManifestStep`), so only
a failure filed before a crash can stand in the way. `LedgerOK` allows a relaxed structure to be replaced only by a worker left behind, on a GPU.

`BestFirst` counts: `Precedes` is a strict total order (`PublicationOrder`), so the number of candidates ahead of one is its place, and every place is
taken once (`PlaceTaken`); the candidates with fewer ahead than the limit are then as many as the limit, or all (`FirstOnes`). `TwoPasses` shows
that the two passes let through what `Eligible` says, without the names the code gives to the reasons.

### The retrieval run (`EvaluationAssumption`, `SearchAssumption`, `RunAssumption`, `NoneAssumption`)

`IndInv == ShapesOK /\ CallOK /\ StoreOK /\ OutcomeOK /\ AnswersAreRecorded`. A completion is coherent because every call, also one that resumes after
a crash, has in hand exactly what is on file when it records the operation; `CallOK` says so place by place: the plan once it is written,
the batches up to the one at work, the documents and their manifest, the verdicts, the audit, the report. Nothing is assumed of a file
that was left behind: a write that conflicts ends the call, so `CallOK` speaks of what the call has written or found equal. `StoreOK` holds a
recorded operation to what it registered. It stays closed because no call writes an artifact of a completed run: `run()` answers or refuses before
its first write (`Open`), and a failing search can only belong to a run that is not complete.

`RefusalHasACause` needs the converse, that nothing in hand differs from what a call would write: `SteadyInv` says that, as long as there is
no cause, every file, the native snapshots and the call's memory are functions of the source, the Requirement and the listing. What the search contributes is
`Reached`, a path of answered requests of the undisturbed database from the first one; `OnePath` shows that there is one path only, so that any two searches that
ended found the same documents (`OneEnd`, `OneFind`), and a call that comes back after a crash writes what is there. `MemoryServes` says which sources do not
survive a crash: NOMAD and TQC keep method metadata in memory. `Reached` quantifies over paths, so TLC cannot evaluate
`SteadyInv` as it stands; with paths cut at the length the instance allows it was checked on `retrieval_resume`. One lemma per action follows (`...Steady`).

`SucceededMissesNothing` adds `LossInv`: what is sought (the complete records listed throughout that pass the source's filters) is followed from the search to
the documents at hand, the manifest and the result. The search itself is the hard part. `Gathers` says what is still ahead: with a key, only what
lies beyond it; with pages, only later positions of a listing that stays; `AnswerGoesOn` and `NewGathers` show that every answer keeps this, also one that
repeats a page or the record of the key, and that a search that is done has left nothing out or was cut off, which no SUCCEEDED run was. Then `BeforeOrders` (keys of
one length, none alike, are in a strict total order) and `FirstOnes` (who is not among the first N of one comes after all of them, and they are N) give the clause about `max_candidates`.
The theorem has the hypothesis `AsksForAll`. The query sent to a provider names a bound without the tolerance that the local verdict applies (`query.py:621`, `evaluator.py:378`), so
a record that misses a bound by less than `numeric_tolerance` would pass, but is never sent; the hypothesis excludes Requirements and records of which
that is so, and TLC checks it of the instance of `retrieval_resume` (`MCAsksForAll`). It was checked there, with `LossInv`, before it was proved.

The documents of a search go to disk in chunks and come back joined. That the two are the same is `PiecesJoin`, for every length and
chunk size: the last chunk may be short, and none is empty. `FlattenSeq`, `Ascending` and `Sorted` are recursive or
count elements, so these lemmas need induction; `SetInduction` derives it from the well-foundedness of `<` as a fact about a *set* of numbers, which the
provers can instantiate, where the induction theorems of the library take an operator. `PlaceTaken` (in a finite strict
order every place is taken once) makes the sorted listing a sequence of its elements.

### The inspiration run (`SearchAssumption`, `EvidenceAssumption`, `CrystalAssumption`, `SelectionAssumption`, `RunAssumption`)

The answer is computed in one step from what the network brought, so the invariant is about the requests:
`InspirationInv == RunHolds /\ SearchesLogged /\ FetchesCharged`. `SearchesLogged` counts the log against the page at work, since a page that
failed leaves attempts behind that no page will own; `FetchesCharged` holds what is recorded and what the fetch under way has used *together*
to the budgets, as the loop does (`inspiration/fetch.py`), and says that whatever is charged has a query that led to the document. `RequestsAreLogged` needs `PolicyInv`
besides, inductive together with `InspirationInv`: while the run searches, the log ends with the answer to the last page, so the attempts of the next query
continue it (`AttemptsInOrder`), and a fetch under way has made as many requests as it has retries and redirects behind it. No answer is
there before the end, so `ResultFacts` splits every step: it leaves the answer alone, gives one that is no bundle, or is the step that
compiles a bundle (`Compiled`) from pages and fetches that do not change any more.

`FeedbackReconciles` is then a statement about functions, and its proof is counting: a set of documents that is split by query sums up to at
least its number (`ColumnsAddUp`), hits have identifiers of their own (`HitsAreDistinct`), and the standing of a rule is traced through
what `Feedback` reads (`StandingFacts`). `ListingFacts` has what this and the retrieval need of operators the library leaves without usable
theorems: a sorted set is a sequence that has every element once (`AscendingFacts`, `RankedFacts`), a fold that appends or adds satisfies its step equation.

`QuotaIsTruthful` is about an algorithm. `_coverage_witness` searches a pool for candidates that meet the quota of mechanisms and the hard
limits: one, then a pair, then a depth-first search that prunes by what the rest can still add and takes candidates only if they add something.
That it finds what exists is not obvious, since a branch is left for good.

- `DraftsAreSound`, `CandidateFacts`: whatever was drafted, a pool is finite and has one candidate for each structure, with finitely many mechanisms
  and families; this is `SoundPool`, all that the rest relies on.
- `SearchIsSound`, `SearchIsComplete`: by induction from the end of the ordered pool (`BackInduction`, over a set of indices), what the search returns is an
  allowed choice that covers enough, and if such a choice extends the current one with later candidates, it returns something. Completeness turns on
  the first candidate of that choice that adds a mechanism: the limits allow every part of an allowed choice (`AllowedParts`), so it is not
  left out; what is passed over before it adds nothing, so the rest still covers enough; and the bound that prunes counts all of the rest.
  That the recursive function satisfies its step equation at all is `DeepWitnessSearches`.
- `WitnessFacts`, `FeasibleFacts`: so a witness is found for a quota exactly if one exists, and the target handed on is the quota exactly then.
- `SelectFacts`: the greedy selection starts from the witness and stays an allowed choice with no candidate twice (`Selections`); it stops when it is full or when nobody
  is eligible, which is when nobody can be added (`SelectionIsMaximal`), and then one of the named limits is the reason (`UnderfillHasReason`).
- `StatusFacts`, `SelectionFacts`: the reported status follows, and the selection still covers the quota, because it contains the witness.

`SelectedIsBacked` follows a route backwards: a passage quotes a text of a document that was listed or read, for a hit that led to it (`PassagesQuote`); a supporting card was found by a
bridge query of its rule (`SupportIsBridged`); a packet has a supporting card for each required mechanism (`PacketIsBacked`); a draft has a packet, of
its parent's rule if that has one, and the structure its substitution gives (`DraftsFacts`), which is neutral if it is valid (`ValidIsNeutral`).

`OwnChecksHold` says of the errors a run keeps for results of its own that contradict each other that none is ever raised. Packets close down to a bridge
query (`ClosuresHold`), coverage is full (`CoverageIsFull`), the witness survives (`SelectionFacts`), requests stay within the limit (`FetchesCharged`), and the feedback compiler takes
its input (`FeedbackAccepts`), for which `InspirationInv` is strengthened by one more invariant: fetches are charged to queries that have a page (`ChargedToPages`). A parent from the
catalog must be as valid in the run as it was when it was listed. The catalog is reviewed with a fixed limit of 256 sites (`parent_catalog.py:668`) and a policy may have a
lower one (`policy.py:133` has the same by default), so the theorem has the hypothesis `MaxCatalogSites <= MaxSites`; without it `CANDIDATE_EVIDENCE_MISSING` can be raised.

### The gateway (`GatewayAssumption`)

`IndInv` has nine parts. `ReadOK` is the optimistic lock: whoever answers a question read revision 1, and the row is
still what it read or revision 2. `ManifestOK` says that row, calls, grants and operator speak of one manifest though each has its
own copy. `GrantOK` says that a grant that was used up is in use by at most one call, and that one about to be recovered is in use by none;
the latter is where the operator's statement enters (section 2). `ConfirmedOK` counts: executions and unused confirmations
together never exceed the confirmations given; a step from one to another moves a unit. `ResultOK` holds the
report on disk to the page the publishing call carries, which needs the exclusion in `GrantOK`: another call could overwrite the file.
`LicenceKept` shows that each action is a step of `LicensedRun` or changes none of its variables.

### Only model-checked

- *Liveness* (`ReportedUnlessRefused`, `Settles`, `AskedIsSettled`, `CallsEnd`, `RunEnds`) and `ProcessNeverStuck`: fairness and ENABLED are beyond the prover.
- `StageSafety!NothingRefused`: true of instances without a retry only, so not a theorem (section 5).
- `InspirationSafety!NothingRefused`, its second half: that the release verifier accepts a run is not true of all constants, and the code does not claim it is. A run
  is released only under budgets that leave room for every passage and hit.

## 5 What the code does not keep

Each of these is a run of one property that states what a line of the repository says; TLC finds it violated.

| Run | Claim | What happens |
| --- | --- | --- |
| `two_live_jobs` | a transient retry keeps the key and creates no new job (DFT plan:223) | a retry is a new attempt with a new key (`graph.py:2358`) |
| `retrieval_retry` | an exhausted search is retryable (`tests/integration/test_runner_failures_and_limits.py:160`) | the failed call leaves its report behind; the attempt that succeeds conflicts with it and is refused for ever (`retrieval/runner.py:652`, `:1003`) |
| `inspiration_no_match` | a network failure is not turned into a no-match (`docs/adr/0002-inspiration-generalization-completion-scope.md:32`) | with one card from another document the run goes on and answers SCIENTIFIC_NO_MATCH (`inspiration/runner.py:516`) |

These were found violated in the same way; their claims are no longer runs, in favour of the components added since:

- *Retry of a stage that has a reference.* The stage row keeps the first attempt's `operation_ref` and refuses the second's
  (`storage.py:485`); a timeout that is to be resumed (`dft/runner.py:58`) can then never be filed.
- *Cancel of an ended job.* The graph writes CANCELLED whatever the backend answered (`graph.py:1600`; orchestrator plan:621).
- *Crash behind the gate.* Killed between the decision and the checkpoint, a Run cannot be moved: `approve` returns early,
  `resume` refuses an interrupted graph (`runtime.py:449`; orchestrator plan:462).
- *Lost contact.* RETRYABLE_FAILED is in the stage row, the checkpoint still polls, SUCCEEDED is refused by the matrix for ever (`graph.py:1762`).
- *Deaf gate.* One invalid answer is filed under the interaction that stays open (`runtime.py:402`); every other answer is refused, although
  `graph.py:545` offers approve, revise and cancel.
- *Unmetered fetches.* Attempts of a fetch that fails in the transport are not all recorded (`inspiration/fetch.py:481`;
  P33_EXPERIMENT_CHECKLIST.md:24 wants every request metered).
- *Dry run.* A request without inference makes `not run` records of SELECTED candidates, which the record model rejects
  (`ml_screening/runner.py:375`, `models.py:1492`): PERMANENT_FAILED, where the ML plan (line 387) wants an answer with open candidates.

Met while modelling, kept in the models as the code has it, without a run of their own:

- A terminal operation that is replayed after a crash names another `operation_ref` (`dft/runner.py:445`) than the first report of the same
  job did (`:307`), and the stage row refuses it for ever; the DFT plan (line 692) wants results written idempotently. This is one of the refusals `Settles` allows.
- A submission whose process dies before the companion has answered stays RUNNING: submitting it again only returns its view
  (`gateway/service.py:110`), although the tool is said to "create or idempotently recover" a run.
- The operator's command grants approvals only; a rejection or a cancellation that the question advertises can be authorized
  through the grant store alone.
- A recovered run whose search answers differently, or that failed its search before the crash, conflicts with its own immutable artifacts and ends as
  ADAPTER_EXECUTION_ERROR, not retryable; in the second case the companion would have said EXTERNAL_SEARCH_UNAVAILABLE, retryable.
- A recovery wants a "fresh confirmation reference" (`gateway/authorization.py:429`), and a second recovery accepts the one of the first grant.
- After a retry, a refused input or a failed preparation is filed under the old attempt (`graph.py:1723`, `:1733`, `:1797`): the
  attempt row of the first attempt refuses it, or names the first attempt's plan.
- A backend that contradicts itself ends its stage as PERMANENT_FAILED, and the loop goes on to the next stage (`graph.py:1840`).
- Cancelling at the retry gate ends the stage, not the Run: later stages still run.
- Every cancellation of a many-body job raises: `cancel` looks its operation up under the cancellation's key (`many_body/runner.py:245`).
- A crash during a cancellation, then `resume`: the ledger holds a final CANCELLED payload and refuses what is polled next.
- `cancel` of the DFT runner restores a lost job as it was submitted, not as it was last seen (`dft/runner.py:318`).
- A many-body result holds the history the backend remembers, which after a restore is shorter: a result
  written by one process conflicts with the same result written by the next, and a job that succeeded is filed as PERMANENT_FAILED.
- The DFT `_external_status` has no entry for a status the backend protocol allows in between, such as COMPLETING: a KeyError becomes PERMANENT_FAILED.
- A DFT start that fails is mapped to a status that the stage matrix does not allow from RUNNING.
- `start_run` commits the Run before the first checkpoint; a crash in between leaves a Run that no command can move.
- A refusal's key holds no run id (`graph.py:2283`): two Runs of one project with the same refused stage conflict in `operations`.

Retrieval:

- A NOMAD or TQC run restarted after its origins were resolved has lost the method metadata and is refused for ever, although a comment
  (`retrieval/runner.py:471`) expects a resume; `RefusalHasACause` names it.
- Structure files are keyed by the canonical structure but hold the raw one: two duplicates in different raw form make the stage PERMANENT.
- A resumed run asks the database for its version again and conflicts if it has changed.
- Sources paged by position can skip or repeat records when the listing changes; `SucceededMissesNothing` excepts exactly these.
- A record that misses a range by less than `numeric_tolerance` passes the local verdict, but the range sent to the source is exact, so it is
  never judged. `AsksForAll` excepts these.
- A refusal leaves no `stage_result.json` and surfaces as ORCHESTRATOR_STAGE_EXCEPTION. A C2DB server that repeats a page is read until the scan is full.
- The push-down drops records that lack a value, although a comment in `ranking.py` says that gaps are no rejection.

Inspiration:

- A contract error of a fetch ends the run without `fetch_attempts.jsonl`.
- All artifacts are immutable under the run id: a failed search leaves `search_attempts.jsonl`, and the run cannot be repeated.

ML stage:

- A result with a candidate that upstream had failed on is rejected by its own envelope, after all inference: PERMANENT_FAILED.
- If all selected candidates time out and any other was not run, the stage is PARTIAL and is not retried (ML plan, about line 1199); the ledger is hardly ever reused across attempts.
- A crash between result and completion is refused for ever (plan:1692); one between native and stage plan too, because `created_at` differs (plan:1676).
- A retry after the health snapshot has expired is refused. A worker is not killed with its host; while another call works, files it writes make that call's worker INVALID_WORKER_RESPONSE.
- The runner passes constants for three applicability inputs, so these checks cannot fail. A relaxed structure is not verified again when a ledger entry is reused.

## 6 Not modelled

- *Scientific content*: structures, energies, query translation, text extraction, CIF work, tensor code. These
  are conversions of one input to one output, without state; tests and reference data fit them better.
- *Benchmarks, bundle verification and pilot scripts, fixtures, schema migration*: one pass, no concurrency.
- *Release verifier*: it replays a run with the runner's own functions, and so does `CompletedRun` with the operators of
  `SearchEvidence` and `CandidateSelection`: an error in those functions escapes both. What the comparison does show is that the
  logs, pages, manifest and ledger of a run that had to repeat requests carry all that the replay needs. Hashes, canonical JSON,
  delays of single attempts, the file allowlist and the report's text are left out. It accepts only providers that answer exactly
  one item: a query that finds nothing completes the run and fails the release.
- *Retrieval*: the adaptive and deep screening of Materials Project (`mp_screening.py`, `mp_deep_screen.py`), which is marked as
  intentionally removed and is not reached; HTTP, pymatgen and the parsing of responses; the temporary file and rename of a write.
- *ML stage*: the property chain (ALIGNN, DeepH) and its workers, the fake worker, resource probing; tensor code.
- *Inspiration*: tokenizing, CIF, symmetry analysis, hashing and the HTTP layer are constants of the model; the report's wording.
- *Pure parts of DFT and many-body*: input validation, workflow planning, preflight, claim gate, routing.
- *Gateway*: clarification, resume and retry interactions, which no companion asks for; disk failures inside a run; an upgrade while a call is under way;
  the MCP transport; the request compiler, reduced to which requests it accepts.
- *Stage loop*: `resume` and `cancel` read their snapshot before they take the lock (`runtime.py:506`, `:547`); one process moves a Run at a time in the model, so that a
  stale second one is modelled for the intake only. Hashes and identities that records are compared by (`storage.py:594`, `:886`) are abstract. A DFT start
  that fails has two more statuses, BLOCKED_MISSING_INPUT and CANCELLED (`dft/runner.py:504`), than the model gives it.
- *Details of the ML stage*: the failures of a worker other than its time limit are one; of the files in its sandbox only the relaxed structure is followed.
- *Details of the inspiration*: passages are ranked by tags, tier and place, without the lexical score, and near-duplicates are classes; a body without a text counts
  as fetched; the planner's check for equal payloads, which distinct rules never meet, and the limit of 250,000 nodes of the witness search (`selection.py:420`) are
  left out; of equal packets the one with the lowest rule is taken, where the code takes the lowest identifier.
- *LangGraph, SQLite, the file system* are taken at their word: a checkpoint, a transaction, a rename is atomic and durable.

## 7 Plan

Done: the stage loop with its abstract promise and first proofs; the intake; the job chain; the gateway; retrieval; the ML stage; the
inspiration run.

Left, in this order:

1. **Cross-run operations** of one project, over the same repository checks.
2. **ML property chain**: the companion flows of ALIGNN and DeepH, with their hand-off files.
3. **DFT and many-body validation and routing** as operators against their documented tables.
4. **Artifact store**: temporary file, link or rename, two writers.

Proofs: what can be proved of the properties the runs check is proved; section 4 lists what cannot. A new component comes with its inductive invariant.

Runs stay at most a dozen: a run for a new component takes the place of a divergence that is settled or that section 5 describes as well.
