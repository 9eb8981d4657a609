------------------------- MODULE ApprovedExecution -------------------------
(***************************************************************************)
(* What the orchestrator promises about every attempt of every stage,      *)
(* whatever crashes: it is planned before it runs, it runs only if its     *)
(* frozen plan needs no approval or a person approved that very plan, a    *)
(* refused plan never runs, and a second attempt exists only because the   *)
(* first one ended in a failure that may be retried.                       *)
(***************************************************************************)
EXTENDS Naturals

CONSTANTS Stages, Attempts      \* Attempts is 1 .. n

VARIABLES
  phase,      \* phase[s][n]: how far attempt n of stage s has come
  gated       \* gated[s][n]: does its plan need an approval?

spec_vars == <<phase, gated>>

\* "failed" and "unplanned" may be retried: the attempt failed after or before
\* it was handed to its runner.
Phases == {"idle", "planned", "asked", "granted", "refused", "submitted",
           "failed", "unplanned", "closed"}

TypeOK ==
  /\ phase \in [Stages -> [Attempts -> Phases]]
  /\ gated \in [Stages -> [Attempts -> BOOLEAN]]

Init ==
  /\ phase = [s \in Stages |-> [n \in Attempts |-> "idle"]]
  /\ gated \in [Stages -> [Attempts -> BOOLEAN]]

Moves(s, n, to) ==
  /\ phase' = [phase EXCEPT ![s][n] = to]
  /\ UNCHANGED gated

\* The first attempt, or one after a failure that may be retried.
Due(s, n) ==
  \A m \in Attempts : m + 1 = n => phase[s][m] \in {"failed", "unplanned"}

\* Freezing the plan also fixes whether it needs an approval.
Plan(s, n) ==
  /\ phase[s][n] = "idle" /\ Due(s, n)
  /\ phase' = [phase EXCEPT ![s][n] = "planned"]
  /\ \E g \in BOOLEAN : gated' = [gated EXCEPT ![s][n] = g]

Ask(s, n) == phase[s][n] = "planned" /\ gated[s][n] /\ Moves(s, n, "asked")

Grant(s, n) == phase[s][n] = "asked" /\ Moves(s, n, "granted")

Refuse(s, n) == phase[s][n] = "asked" /\ Moves(s, n, "refused")

Submit(s, n) ==
  /\ \/ phase[s][n] = "planned" /\ ~gated[s][n]
     \/ phase[s][n] = "granted"
  /\ Moves(s, n, "submitted")

Fail(s, n) == phase[s][n] = "submitted" /\ Moves(s, n, "failed")

\* An attempt that could not be planned fails or closes without running.
Abort(s, n) ==
  /\ phase[s][n] = "idle" /\ Due(s, n)
  /\ Moves(s, n, "unplanned")

\* Contact with a job that was given up is found again, if nothing replaced it.
Reopen(s, n) ==
  /\ phase[s][n] = "failed"
  /\ \A m \in Attempts : m = n + 1 => phase[s][m] = "idle"
  /\ Moves(s, n, "submitted")

Close(s, n) ==
  /\ \/ phase[s][n] \in {"submitted", "refused", "failed", "unplanned"}
     \/ phase[s][n] = "idle" /\ Due(s, n)
  /\ Moves(s, n, "closed")

Next ==
  \E s \in Stages, n \in Attempts :
    \/ Plan(s, n) \/ Ask(s, n) \/ Grant(s, n) \/ Refuse(s, n)
    \/ Submit(s, n) \/ Fail(s, n) \/ Abort(s, n) \/ Reopen(s, n)
    \/ Close(s, n)

Spec == Init /\ [][Next]_spec_vars
=============================================================================
