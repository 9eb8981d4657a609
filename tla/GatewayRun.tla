----------------------------- MODULE GatewayRun ------------------------------
(***************************************************************************)
(* One submission to the Materials Gateway (gateway/, integration/), from  *)
(* its first call to its result.                                           *)
(*                                                                         *)
(* Calls of the MCP tools run in processes of their own (Procs) over two   *)
(* databases: the run's row with an optimistic revision, and the operator's *)
(* one-time grants.  A person grants an action from a command line of      *)
(* their own.  An approved run is executed inside the call that approves   *)
(* it; it writes immutable artifacts one by one, and only then the call    *)
(* commits the row.  Any call may die between two writes.                  *)
(*                                                                         *)
(* A submission is bound to its first request.  The frozen execution       *)
(* manifest is a request together with the components installed (build).   *)
(***************************************************************************)
EXTENDS Naturals, FiniteSets, Sequences

CONSTANTS
  Procs,        \* processes that serve calls
  Requests,     \* canonical requests callers send under the submission id
  NoRequest,
  Supported,    \* requests the compiler accepts
  Builds,       \* component snapshots that may be installed
  Actions,      \* actions of an approval interaction that occur
  References,   \* confirmation references of the operator
  NoReference,
  Pages,        \* what the search service may answer
  NoPage,
  Unfit,        \* pages whose result is over the request's budget
  MaxCrashes    \* bound on crashes

ASSUME GatewayAssumption ==
  /\ Actions \subseteq {"approve", "reject", "cancel"}
  /\ NoRequest \notin Requests /\ NoReference \notin References
  /\ NoPage \notin Pages /\ Builds # {}
  /\ Supported \subseteq Requests /\ Unfit \subseteq Pages
  /\ MaxCrashes \in Nat

Manifests == [request : Requests, build : Builds]
NoManifest == [request |-> NoRequest, build |-> "none"]

\* A search may also exhaust its retries.
Answers == Pages \cup {"down"}

\* Public states; "SUCCEEDED" stands for PARTIAL too, which adds warnings.
Terminal == {"SUCCEEDED", "FAILED", "CANCELLED"}
Codes == {"UNSUPPORTED_INSPIRATION_REQUEST", "ADAPTER_EXECUTION_ERROR",
          "ADAPTER_CONTRACT_ERROR", "EXTERNAL_SEARCH_UNAVAILABLE"}
States == [status : {"RUNNING", "INTERACTION_REQUIRED"} \cup Terminal,
           manifest : Manifests \cup {NoManifest}, code : Codes \cup {"none"}]
State(status) == [status |-> status, manifest |-> NoManifest, code |-> "none"]
Asking(m) ==
  [status |-> "INTERACTION_REQUIRED", manifest |-> m, code |-> "none"]
Failure(c) == [status |-> "FAILED", manifest |-> NoManifest, code |-> c]

Rows == [request : Requests, revision : Nat, state : States]
NoRow == [request |-> NoRequest, revision |-> 0, state |-> State("NONE")]

\* A grant binds an action to the interaction, hence to its manifest.
Grants == [ref : References, consumed : BOOLEAN, manifest : Manifests]
NoGrant == [ref |-> NoReference, consumed |-> FALSE, manifest |-> NoManifest]

\* A call: where it is, the action it was given, the row it read, what the
\* search answered and the transition it is going to commit.
Calls == [pc : {"idle", "starting", "authorizing", "acting", "searching",
                "page", "attempts", "publishing", "committing"},
          action : Actions \cup {"none"}, read : Rows \cup {NoRow},
          answer : Answers \cup {NoPage}, next : States \cup {State("NONE")}]
Idle == [pc |-> "idle", action |-> "none", read |-> NoRow, answer |-> NoPage,
         next |-> State("NONE")]

VARIABLES
  row, result,                            \* gateway_runs, gateway_results
  grant, recoveries,                      \* one_time_action_grant*
  pageFile, attemptsFile, reportFile,     \* artifacts of the inspiration run
  call,                                   \* processes
  operator,                               \* the operator's command
  build,                                  \* installed components
  executions,                             \* manifests the runner was given
  crashes

database == <<row, result>>
grants == <<grant, recoveries>>
files == <<pageFile, attemptsFile, reportFile>>
world == <<operator, build, crashes>>
vars == <<database, grants, files, call, world, executions>>

Manifest(r) == [request |-> r, build |-> build]
Current == row.state.manifest
Pending == row.state.status = "INTERACTION_REQUIRED"

\* A call moves on; what it does not say stays.
Goes(p, c) == call' = [call EXCEPT ![p] = c]
Commits(p, state) ==
  Goes(p, [call[p] EXCEPT !.pc = "committing", !.next = state,
             !.answer = IF state.status = "SUCCEEDED" THEN @ ELSE NoPage])
At(p, pc) == call[p].pc = pc

-----------------------------------------------------------------------------
(* materials_inspiration_run                                                *)

\* create_or_get: a known submission is answered with its view, or with a
\* conflict if the request differs; either way nothing changes.
Submit(p, r) ==
  /\ At(p, "idle") /\ row = NoRow
  /\ row' = [request |-> r, revision |-> 0, state |-> State("RUNNING")]
  /\ Goes(p, [Idle EXCEPT !.pc = "starting", !.read = row'])
  /\ UNCHANGED <<result, grants, files, world, executions>>

\* start: freeze the manifest and ask for its approval, without running it.
Start(p) ==
  /\ At(p, "starting")
  /\ LET r == call[p].read.request
     IN Commits(p, IF r \in Supported THEN Asking(Manifest(r))
                   ELSE Failure("UNSUPPORTED_INSPIRATION_REQUEST"))
  /\ UNCHANGED <<database, grants, files, world, executions>>

-----------------------------------------------------------------------------
(* materials_run_act                                                        *)

Act(p, a) ==
  /\ At(p, "idle") /\ Pending
  /\ Goes(p, [Idle EXCEPT !.pc = "authorizing", !.action = a, !.read = row])
  /\ UNCHANGED <<database, grants, files, world, executions>>

\* Mutant: a grant is looked up but not used up.
AuthorizeKeeps(p) ==
  /\ At(p, "authorizing")
  /\ IF grant[call[p].action] # NoGrant /\ ~grant[call[p].action].consumed
       THEN Goes(p, [call[p] EXCEPT !.pc = "acting"])
       ELSE Goes(p, Idle)
  /\ UNCHANGED <<database, grants, files, world, executions>>

\* authorize_and_consume
Authorize(p) ==
  LET a == call[p].action
  IN /\ At(p, "authorizing")
     /\ IF grant[a] # NoGrant /\ ~grant[a].consumed
          THEN /\ grant' = [grant EXCEPT ![a].consumed = TRUE]
               /\ Goes(p, [call[p] EXCEPT !.pc = "acting"])
          ELSE Goes(p, Idle) /\ UNCHANGED grant
     /\ UNCHANGED <<database, recoveries, files, world, executions>>

\* act with reject or cancel
Stop(p) ==
  /\ At(p, "acting") /\ call[p].action # "approve"
  /\ Commits(p, State("CANCELLED"))
  /\ UNCHANGED <<database, grants, files, world, executions>>

\* Mutant: what is installed now is run, not what was approved.
PreparedAsRead(p) == TRUE

\* The manifest is prepared anew and must be the one that was approved.
Prepared(p) == Manifest(call[p].read.request) = call[p].read.state.manifest

\* act with approve (_execute)
Execute(p) ==
  /\ At(p, "acting") /\ call[p].action = "approve"
  /\ IF Prepared(p)
       THEN /\ Goes(p, [call[p] EXCEPT !.pc = "searching"])
            /\ executions' = Append(executions, Manifest(call[p].read.request))
       ELSE /\ Commits(p, Failure("ADAPTER_EXECUTION_ERROR"))
            /\ UNCHANGED executions
  /\ UNCHANGED <<database, grants, files, world>>

-----------------------------------------------------------------------------
(* The inspiration run inside the call, reduced to the artifacts whose      *)
(* content comes from outside; everything else is computed from them.       *)

Search(p) ==
  /\ At(p, "searching")
  /\ \E answer \in Answers :
       Goes(p, [call[p] EXCEPT
                  !.answer = answer,
                  !.pc = IF answer = "down" THEN "attempts" ELSE "page"])
  /\ UNCHANGED <<database, grants, files, world, executions>>

\* An immutable artifact is written again only with the content it has.  One
\* search stands for several, and an answer for its page and its attempts.
Conflicts(p, file) == file \notin {NoPage, call[p].answer}

Breaks(p) ==
  /\ Commits(p, Failure("ADAPTER_EXECUTION_ERROR"))
  /\ UNCHANGED files

WritePage(p) ==
  /\ At(p, "page")
  /\ IF Conflicts(p, pageFile) THEN Breaks(p)
     ELSE /\ pageFile' = call[p].answer
          /\ Goes(p, [call[p] EXCEPT !.pc = "attempts"])
          /\ UNCHANGED <<attemptsFile, reportFile>>
  /\ UNCHANGED <<database, grants, world, executions>>

\* The attempts are filed for a failed search too, which then ends the run.
WriteAttempts(p) ==
  /\ At(p, "attempts")
  /\ IF Conflicts(p, attemptsFile) THEN Breaks(p)
     ELSE /\ attemptsFile' = call[p].answer
          /\ IF call[p].answer = "down"
               THEN Commits(p, Failure("EXTERNAL_SEARCH_UNAVAILABLE"))
               ELSE Goes(p, [call[p] EXCEPT !.pc = "publishing"])
          /\ UNCHANGED <<pageFile, reportFile>>
  /\ UNCHANGED <<database, grants, world, executions>>

\* Mutant: a report that is already there is taken for this run's.
PublishBlindly(p) ==
  /\ At(p, "publishing")
  /\ Commits(p, State("SUCCEEDED"))
  /\ UNCHANGED <<database, grants, files, world, executions>>

\* Bundle, report and stage result, then the projection, which the gateway
\* checks against the budget of the request (_validate_transition).
Publish(p) ==
  /\ At(p, "publishing")
  /\ IF Conflicts(p, reportFile) THEN Breaks(p)
     ELSE /\ reportFile' = call[p].answer
          /\ Commits(p, IF call[p].answer \in Unfit
                          THEN Failure("ADAPTER_CONTRACT_ERROR")
                          ELSE State("SUCCEEDED"))
          /\ UNCHANGED <<pageFile, attemptsFile>>
  /\ UNCHANGED <<database, grants, world, executions>>

\* The wall time is over before the report is made.
Overruns(p) ==
  /\ At(p, "publishing") /\ Breaks(p)
  /\ UNCHANGED <<database, grants, world, executions>>

-----------------------------------------------------------------------------
(* _commit, replace_run                                                     *)

\* Mutant: the last writer wins.
UnrevisedAlways(p) == TRUE

Unrevised(p) == row.revision = call[p].read.revision

\* A call that comes second raises ConcurrentUpdateError and changes nothing.
Commit(p) ==
  /\ At(p, "committing")
  /\ IF Unrevised(p)
       THEN /\ row' = [row EXCEPT !.revision = call[p].read.revision + 1,
                                  !.state = call[p].next]
            /\ result' = IF call[p].next.status = "SUCCEEDED"
                           THEN call[p].answer ELSE result
       ELSE UNCHANGED database
  /\ Goes(p, Idle)
  /\ UNCHANGED <<grants, files, world, executions>>

\* materials_result_get serves a result that its row and its report bind.
Servable ==
  row.state.status = "SUCCEEDED" /\ result # NoPage /\ reportFile = result

\* What the release verifier asks of the databases: a success at the second
\* revision that binds its result ...
RunVerified == Servable /\ row.revision = 2

\* ... and no grant but that of the approval, used, never recovered, for what is
\* installed.
GrantVerified ==
  /\ {a \in Actions : grant[a] # NoGrant} = {"approve"}
  /\ grant["approve"].consumed /\ recoveries = {}
  /\ grant["approve"].manifest = Manifest(row.request)

-----------------------------------------------------------------------------
(* The operator.  The command line grants and recovers approvals only; any  *)
(* other action is granted through the store.                               *)

\* Has a call used up the grant and not ended yet?
InUse(a) ==
  \E p \in Procs :
    call[p].action = a /\ call[p].pc \notin {"idle", "authorizing"}

\* The command reads the pending interaction; an approval is granted only if
\* the manifest can be prepared again.  To recover a grant the operator states
\* that the process that used it has stopped; the statement is true.
OperatorReads(mode, a, ref) ==
  /\ operator.mode = "none" /\ Pending
  /\ a = "approve" => Current = Manifest(row.request)
  /\ mode = "recover" => a = "approve" /\ grant[a].consumed /\ ~InUse(a)
  /\ operator' = [mode |-> mode, action |-> a, ref |-> ref,
                  manifest |-> Current]
  /\ UNCHANGED <<database, grants, files, call, build, crashes, executions>>

NoOperator == [mode |-> "none", action |-> "none", ref |-> NoReference,
               manifest |-> NoManifest]

OperatorEnds ==
  /\ operator' = NoOperator
  /\ UNCHANGED <<database, files, call, build, crashes, executions>>

\* issue_grant: one record per exact action, replayed only while unused.
Issue ==
  LET a == operator.action
  IN /\ operator.mode = "issue"
     /\ IF grant[a] = NoGrant
          THEN grant' = [grant EXCEPT ![a] = [ref |-> operator.ref,
                                              consumed |-> FALSE,
                                              manifest |-> operator.manifest]]
          ELSE UNCHANGED grant
     /\ OperatorEnds
     /\ UNCHANGED recoveries

\* Mutant: any reference recovers a grant, any number of times.
RecoverableEver ==
  grant[operator.action] # NoGrant /\ grant[operator.action].consumed

\* Mutant: a grant is recovered once.
RecoverableOnce == RecoverableEver /\ recoveries = {}

\* recover_consumed_grant: used, with a reference that neither armed it last
\* nor has recovered it before.
Recoverable ==
  LET a == operator.action
  IN /\ grant[a] # NoGrant /\ grant[a].consumed
     /\ operator.ref # grant[a].ref
     /\ [action |-> a, ref |-> operator.ref] \notin recoveries

Recover ==
  LET a == operator.action
  IN /\ operator.mode = "recover"
     /\ IF Recoverable
          THEN /\ recoveries' = recoveries
                                  \cup {[action |-> a, ref |-> operator.ref]}
               /\ grant' = [grant EXCEPT ![a].consumed = FALSE,
                                         ![a].ref = operator.ref]
          ELSE UNCHANGED grants
     /\ OperatorEnds

-----------------------------------------------------------------------------
\* A call dies.
Crash(p) ==
  /\ ~At(p, "idle") /\ crashes < MaxCrashes
  /\ crashes' = crashes + 1
  /\ Goes(p, Idle)
  /\ UNCHANGED <<database, grants, files, operator, build, executions>>

\* Other components are installed while nothing is served.
Upgrade ==
  /\ row # NoRow
  /\ \A p \in Procs : At(p, "idle")
  /\ operator.mode = "none"
  /\ \E b \in Builds \ {build} : build' = b
  /\ UNCHANGED <<database, grants, files, call, operator, crashes, executions>>

\* What is installed first: any build, their names do not matter.
FirstBuild == CHOOSE b \in Builds : TRUE

Init ==
  /\ row = NoRow /\ result = NoPage
  /\ grant = [a \in Actions |-> NoGrant] /\ recoveries = {}
  /\ pageFile = NoPage /\ attemptsFile = NoPage /\ reportFile = NoPage
  /\ call = [p \in Procs |-> Idle]
  /\ operator = NoOperator /\ build = FirstBuild
  /\ executions = <<>> /\ crashes = 0

CallStep(p) ==
  \/ Start(p) \/ Authorize(p) \/ Stop(p) \/ Execute(p) \/ Search(p)
  \/ WritePage(p) \/ WriteAttempts(p) \/ Overruns(p) \/ Publish(p)
  \/ Commit(p)

Next ==
  \/ \E p \in Procs :
       \/ \E r \in Requests : Submit(p, r)
       \/ \E a \in Actions : Act(p, a)
       \/ CallStep(p) \/ Crash(p)
  \/ \E mode \in {"issue", "recover"}, a \in Actions, ref \in References :
       OperatorReads(mode, a, ref)
  \/ Issue \/ Recover \/ Upgrade

Spec == Init /\ [][Next]_vars
=============================================================================
