---------------------------- MODULE GatewaySafety ----------------------------
(***************************************************************************)
(* What has to hold of a submission to the gateway, and what the gateway   *)
(* promises about it (LicensedRun).                                        *)
(***************************************************************************)
EXTENDS GatewayRun

\* Types of the tables, the artifacts, the calls and the operator's command.
TypeOK ==
  /\ row \in Rows \cup {NoRow}
  /\ result \in Pages \cup {NoPage}
  /\ grant \in [Actions -> Grants \cup {NoGrant}]
  /\ recoveries \subseteq [action : Actions, ref : References]
  /\ {pageFile, reportFile} \subseteq Pages \cup {NoPage}
  /\ attemptsFile \in Answers \cup {NoPage}
  /\ call \in [Procs -> Calls]
  /\ operator \in [mode : {"none", "issue", "recover"},
                   action : Actions \cup {"none"},
                   ref : References \cup {NoReference},
                   manifest : Manifests \cup {NoManifest}]
  /\ build \in Builds
  /\ executions \in Seq(Manifests)
  /\ crashes \in 0..MaxCrashes

-----------------------------------------------------------------------------
\* The confirmations a person gave for an action.
Confirmations(a) ==
  Cardinality({r \in recoveries : r.action = a})
    + (IF grant[a] = NoGrant THEN 0 ELSE 1)

\* The confirmations for an action that are still to be used up, or are used
\* up by a call that has not run anything yet.
Unused(a) ==
  Cardinality({p \in Procs : At(p, "acting") /\ call[p].action = a})
    + (IF grant[a] # NoGrant /\ ~grant[a].consumed THEN 1 ELSE 0)

Executing(p) == call[p].pc \in {"searching", "page", "attempts", "publishing"}

\* The scientific runner runs once for each confirmation of a person and no
\* more, whatever calls die, race or are repeated; what runs is what the
\* person was shown, never the components installed since; and two runs of a
\* submission are never under way at once (authorize_and_consume,
\* recover_consumed_grant, _execute).
ExecutionsAreLicensed ==
  "approve" \in Actions =>
    /\ Len(executions) + Unused("approve") <= Confirmations("approve")
    /\ \A i \in 1..Len(executions) :
         executions[i] = grant["approve"].manifest
    /\ \A p, q \in Procs : Executing(p) /\ Executing(q) => p = q

\* A success has a result that can be served: the report on disk is the one
\* its row names, within the budget of the request; and nothing but a success
\* has one (replace_run, get_result, materials_result_get).  The release verifier
\* accepts what the databases say of every success that took one confirmation,
\* whatever calls raced for it, until other components are installed
\* (verify_completed_inspiration_run._database_state).
ResultIsServable ==
  /\ row.state.status = "SUCCEEDED" => Servable /\ result \notin Unfit
  /\ result # NoPage => row.state.status = "SUCCEEDED"
  /\ /\ row.state.status = "SUCCEEDED" /\ recoveries = {}
     /\ \A a \in Actions \ {"approve"} : grant[a] = NoGrant
     /\ grant["approve"].manifest.build = build
     => RunVerified /\ GrantVerified

-----------------------------------------------------------------------------
(* The inductive invariant.                                                 *)

\* A person may have been asked: only then are there grants, answers to the
\* question, and an operator at work.
Asked == Pending \/ row.revision = 2

Answering(p) == call[p].action # "none"
Using(p, a) ==
  call[p].action = a /\ call[p].pc \notin {"idle", "authorizing"}

\* The status of the row tells its revision.
RowOK ==
  /\ row # NoRow => row.state.status \in
       (CASE row.revision = 0 -> {"RUNNING"}
          [] row.revision = 1 -> {"INTERACTION_REQUIRED", "FAILED"}
          [] row.revision = 2 -> Terminal
          [] OTHER -> {})
  /\ row = NoRow =>
       result = NoPage /\ executions = <<>> /\ operator.mode = "none"

\* What a call carries at each place, and what it can still commit.
CallOK ==
  \A p \in Procs :
    /\ At(p, "idle") => call[p] = Idle
    /\ At(p, "starting") => ~Answering(p)
    /\ ~Answering(p) => call[p].pc \in {"idle", "starting", "committing"}
    /\ Executing(p) => call[p].action = "approve"
    /\ call[p].pc \in {"page", "publishing"} => call[p].answer \in Pages
    /\ At(p, "attempts") => call[p].answer \in Answers
    /\ At(p, "committing") =>
         call[p].next.status \in
           (CASE call[p].action = "approve" -> {"SUCCEEDED", "FAILED"}
              [] call[p].action = "none" -> {"INTERACTION_REQUIRED", "FAILED"}
              [] OTHER -> {"CANCELLED"})

\* A call read the row at the revision its action is about, and nobody but a
\* call that answers the question changes a row that asks.
ReadOK ==
  \A p \in Procs :
    /\ ~At(p, "idle") =>
         row # NoRow /\ call[p].read.request = row.request
    /\ ~At(p, "idle") /\ ~Answering(p) =>
         call[p].read.revision = 0 /\ call[p].read.state.status = "RUNNING"
    /\ Answering(p) =>
         /\ call[p].read.revision = 1
         /\ call[p].read.state.status = "INTERACTION_REQUIRED"
         /\ row = call[p].read \/ row.revision = 2

\* One manifest is asked about: the row, the calls, the grants and the
\* operator speak of the same one, though each has its own copy.
About(m) ==
  /\ m.request = row.request
  /\ Pending => Current = m
  /\ \A p \in Procs : Answering(p) => call[p].read.state.manifest = m
  /\ \A p \in Procs :
       At(p, "committing") /\ call[p].next.status = "INTERACTION_REQUIRED" =>
         call[p].next.manifest.request = row.request
  /\ \A a \in Actions : grant[a] # NoGrant => grant[a].manifest = m
  /\ operator.mode # "none" => operator.manifest = m
ManifestOK == row # NoRow => \E m \in Manifests : About(m)

\* A grant that was used up is in use by at most one call, and one that is in
\* use, or about to be recovered, was used up.
GrantOK ==
  /\ \A a \in Actions : grant[a] # NoGrant => Asked
  /\ \A a \in Actions, p, q \in Procs : Using(p, a) /\ Using(q, a) => p = q
  /\ \A a \in Actions, p \in Procs : Using(p, a) => grant[a].consumed
  /\ operator.mode # "none" =>
       Asked /\ operator.action \in Actions /\ operator.ref \in References
  /\ operator.mode = "recover" =>
       /\ operator.action = "approve"
       /\ grant[operator.action].consumed /\ ~InUse(operator.action)

\* Finitely many calls are under way and grants recovered.
FiniteOK ==
  IsFiniteSet({p \in Procs : ~At(p, "idle")}) /\ IsFiniteSet(recoveries)

\* Each execution was confirmed, and is of what was confirmed.
ConfirmedOK ==
  "approve" \in Actions =>
    /\ Len(executions) + Unused("approve") <= Confirmations("approve")
    /\ \A i \in 1..Len(executions) :
         executions[i] = grant["approve"].manifest

\* A success is an approved one, and its report is the one on disk.
ResultOK ==
  /\ \A p \in Procs :
       At(p, "committing") /\ call[p].next.status = "SUCCEEDED" =>
         call[p].answer \in Pages \ Unfit /\ reportFile = call[p].answer
  /\ row.state.status = "SUCCEEDED" =>
       /\ Servable /\ result \notin Unfit
       /\ "approve" \in Actions /\ grant["approve"] # NoGrant
       /\ recoveries = {} => grant["approve"].consumed
  /\ result # NoPage => row.state.status = "SUCCEEDED"

IndInv ==
  /\ TypeOK /\ RowOK /\ CallOK /\ ReadOK /\ ManifestOK /\ GrantOK /\ FiniteOK
  /\ ConfirmedOK /\ ResultOK

-----------------------------------------------------------------------------
Phase ==
  CASE row = NoRow -> "none"
    [] row.state.status = "RUNNING" -> "accepted"
    [] Pending -> "asking"
    [] row.state.status = "SUCCEEDED" -> "succeeded"
    [] row.state.status = "FAILED" -> "failed"
    [] row.state.status = "CANCELLED" -> "cancelled"

Licence == INSTANCE LicensedRun WITH
  phase <- Phase,
  armed <- {a \in Actions : grant[a] # NoGrant /\ ~grant[a].consumed},
  spent <- {a \in Actions : grant[a].consumed}

\* The gateway is a licensed run: a submission that was asked about ends as an
\* action whose licence was spent allows, it ends once, and a licence is spent
\* once (materials_run_act).
KeepsLicence == Licence!Spec

-----------------------------------------------------------------------------
Unrecovered(ref) ==
  /\ ref # grant["approve"].ref
  /\ [action |-> "approve", ref |-> ref] \notin recoveries

\* A call runs on unless it dies; the agent approves again and again; the
\* operator grants the approval, and with a fresh reference recovers a grant
\* that was used up by a call that died.
FairSpec ==
  /\ Spec
  /\ \A p \in Procs : WF_vars(CallStep(p)) /\ SF_vars(Act(p, "approve"))
  /\ SF_vars(\E r \in References : OperatorReads("issue", "approve", r))
  /\ SF_vars(\E r \in References :
               Unrecovered(r) /\ OperatorReads("recover", "approve", r))
  /\ WF_vars(Issue) /\ WF_vars(Recover)

\* No question stays open for ever: with the components it was asked about
\* installed, a run ends, whatever calls die (authorize_and_consume,
\* recover_consumed_grant).
AskedIsSettled == ~<>[](Pending /\ build = Current.build)
=============================================================================
