---------------------------- MODULE StateMachine ----------------------------
(***************************************************************************)
(* The status vocabularies of the control plane and the closed transition  *)
(* matrices every repository write is checked against                      *)
(* (orchestrator/state_machine.py).  A status may always be rewritten with  *)
(* its own value; any other move must be listed.                           *)
(***************************************************************************)

RunStatus ==
  {"INTAKE", "CLARIFYING", "REQUIREMENT_REVIEW", "PLANNED",
   "WAITING_APPROVAL", "RUNNING", "PAUSED", "SUCCEEDED", "PARTIAL",
   "CANCELLED", "FAILED"}

StageStatus ==
  {"PENDING", "VALIDATING_INPUT", "BLOCKED_MISSING_INPUT",
   "CAPABILITY_UNAVAILABLE", "WAITING_APPROVAL", "READY", "RUNNING",
   "RETRYABLE_FAILED", "PERMANENT_FAILED", "PARTIAL", "SUCCEEDED",
   "SKIPPED", "CANCELLED"}

ApprovalStatus == {"PENDING", "APPROVED", "REJECTED", "REVISED", "CANCELLED"}

JobStatus ==
  {"SUBMITTED", "RUNNING", "SUCCEEDED", "FAILED", "CANCELLED", "TIMEOUT"}

TerminalRun == {"SUCCEEDED", "PARTIAL", "CANCELLED", "FAILED"}

TerminalJob == {"SUCCEEDED", "FAILED", "CANCELLED", "TIMEOUT"}

RunTransitions ==
  [INTAKE |-> {"CLARIFYING", "REQUIREMENT_REVIEW", "PLANNED", "RUNNING",
               "CANCELLED", "FAILED"},
   CLARIFYING |-> {"REQUIREMENT_REVIEW", "CANCELLED", "FAILED"},
   REQUIREMENT_REVIEW |-> {"REQUIREMENT_REVIEW", "PLANNED", "CANCELLED",
                           "FAILED"},
   PLANNED |-> {"WAITING_APPROVAL", "RUNNING", "PAUSED"} \cup TerminalRun,
   WAITING_APPROVAL |-> {"RUNNING", "PAUSED", "PARTIAL", "FAILED",
                         "CANCELLED"},
   RUNNING |-> {"WAITING_APPROVAL", "PAUSED"} \cup TerminalRun,
   PAUSED |-> {"WAITING_APPROVAL", "RUNNING"} \cup TerminalRun,
   SUCCEEDED |-> {}, PARTIAL |-> {}, CANCELLED |-> {}, FAILED |-> {}]

StageTransitions ==
  [PENDING |-> {"VALIDATING_INPUT", "BLOCKED_MISSING_INPUT",
                "CAPABILITY_UNAVAILABLE", "PERMANENT_FAILED", "SKIPPED",
                "CANCELLED"},
   VALIDATING_INPUT |-> {"BLOCKED_MISSING_INPUT", "CAPABILITY_UNAVAILABLE",
                         "WAITING_APPROVAL", "READY", "RETRYABLE_FAILED",
                         "PERMANENT_FAILED", "CANCELLED"},
   BLOCKED_MISSING_INPUT |-> {"VALIDATING_INPUT", "CANCELLED"},
   CAPABILITY_UNAVAILABLE |-> {"VALIDATING_INPUT", "CANCELLED"},
   WAITING_APPROVAL |-> {"READY", "CANCELLED"},
   READY |-> {"RUNNING", "CANCELLED"},
   RUNNING |-> {"RUNNING", "RETRYABLE_FAILED", "PERMANENT_FAILED", "PARTIAL",
                "SUCCEEDED", "CANCELLED"},
   RETRYABLE_FAILED |-> {"VALIDATING_INPUT", "RUNNING", "PERMANENT_FAILED",
                         "CANCELLED"},
   PERMANENT_FAILED |-> {}, PARTIAL |-> {}, SUCCEEDED |-> {}, SKIPPED |-> {},
   CANCELLED |-> {}]

ApprovalTransitions ==
  [PENDING |-> {"APPROVED", "REJECTED", "REVISED", "CANCELLED"},
   APPROVED |-> {}, REJECTED |-> {}, REVISED |-> {}, CANCELLED |-> {}]

JobTransitions ==
  [SUBMITTED |-> {"RUNNING"} \cup TerminalJob,
   RUNNING |-> {"RUNNING"} \cup TerminalJob,
   SUCCEEDED |-> {}, FAILED |-> {}, CANCELLED |-> {}, TIMEOUT |-> {}]

\* _validate: the same status again is always accepted.
CanMoveRun(from, to) == from = to \/ to \in RunTransitions[from]
\* Mutant of CanMoveStage: a status may not be written again.
CanMoveStageStrictly(from, to) == to \in StageTransitions[from]
CanMoveStage(from, to) == from = to \/ to \in StageTransitions[from]
CanMoveApproval(from, to) == from = to \/ to \in ApprovalTransitions[from]
CanMoveJob(from, to) == from = to \/ to \in JobTransitions[from]
=============================================================================
