---------------------------- MODULE StageClaims ----------------------------
(***************************************************************************)
(* Progress of a Run, and what the repository's documents say of a Run     *)
(* that the code does not keep.  Each claim is stated once, as the quoted  *)
(* line puts it, and checked alone.                                        *)
(***************************************************************************)
EXTENDS StageSafety

\* A process runs to its end unless it crashes; a backend finishes its jobs;
\* and the operator answers every gate and resumes what can be resumed.
Fairness ==
  /\ WF_vars(GraphStep) /\ WF_vars(JobStep)
  /\ WF_vars(ResumeNode) /\ WF_vars(ResumeReconcile)
  /\ WF_vars(Approve) /\ WF_vars(RespondRetry)

FairSpec == Spec /\ Fairness

Reported == node = "END" /\ cursor = 5 /\ report # "none"

\* Whatever crashes, and whatever backends answer, the plan is worked off to
\* its report, unless a repository check has refused something on the way
\* (route_next_stage to generate_report).
ReportedUnlessRefused == <>(Reported \/ raised # {})

-----------------------------------------------------------------------------

\* "a transient retry keeps the same operation key and creates no new external
\* job" (DFT plan, line 223): a stage never has two jobs under way.
OneLiveJob ==
  \A s \in Stages, m, n \in Attempts :
    /\ job[s][m].status \in {"SUBMITTED", "RUNNING"}
    /\ job[s][n].status \in {"SUBMITTED", "RUNNING"}
    => m = n
=============================================================================
