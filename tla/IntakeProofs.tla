---------------------------- MODULE IntakeProofs ----------------------------
(***************************************************************************)
(* The intake of a Run, for every number of processes, drafts, rounds and  *)
(* crashes: what is frozen is the draft of the one approved review, a      *)
(* cancelled Run freezes nothing, the reviews form one line, and every     *)
(* decision answers its own question.  IndInv of IntakeSafety is           *)
(* inductive; its parts follow who holds the lock (SessionsOK), where the  *)
(* Run is (PlaceOK), the rounds that are left (RoundsOK), the line of      *)
(* reviews (ReviewsOK) and what is frozen (FrozenOK).                      *)
(***************************************************************************)
EXTENDS IntakeSafety, FiniteSetTheorems, TLAPS

\* What only looks like an answer, an interaction or a result is none.
LEMMA Nothing ==
  /\ NoAnswer \notin Answers /\ NoInteraction \notin Interactions
  /\ NoResult \notin Results
  BY DEF NoAnswer, Answers, Say, NoInteraction, Interactions, Gates, NoResult,
         Results

\* Only a response carries an interaction and an answer.
LEMMA CommandTypes ==
  ASSUME NEW c \in Commands
  PROVE  /\ c.name \in {"start", "resume", "respond", "none"}
         /\ c.name = "respond" => c.to \in Interactions /\ c.answer \in Answers
         /\ c.name # "respond" => c.answer = NoAnswer
         /\ c.answer \in Answers \cup {NoAnswer}
  BY DEF Commands

\* A run is given one of its statuses.
LEMMA RunTypes ==
  /\ {"INTAKE", "CLARIFYING", "REQUIREMENT_REVIEW", "PLANNED", "CANCELLED",
      "FAILED"} \subseteq RunStatus
  /\ "NONE" \notin RunStatus
  /\ \A then : StatusAfter(then) \in
       {"CLARIFYING", "REQUIREMENT_REVIEW", "CANCELLED"}
  /\ \A say : Verdict(say) \in {"APPROVED", "REVISED", "CANCELLED"}
  BY DEF RunStatus, StatusAfter, Verdict

-----------------------------------------------------------------------------
(* The steps.                                                               *)

\* A process inside the graph makes a write, makes a checkpoint, leaves the
\* graph, raises out of it, or is at its start or its end.
Ways(p) ==
  /\ UNCHANGED <<mode, crashes>> /\ lock = p
  /\ \/ /\ pc[p] = "running" /\ step' = step + 1
        /\ UNCHANGED <<checkpoint, pc, cmd, lock, heard>>
     \/ /\ pc[p] = "running" /\ step' = 0 /\ local' = NoResult
        /\ heard' = NoAnswer /\ asked' = FALSE
        /\ UNCHANGED <<run, approval, requirement, responses, frozenFile, pc,
                       cmd, lock>>
     \/ /\ pc[p] = "running" /\ Leave(p)
        /\ UNCHANGED <<node, pending, draft, reviewRound>>
        /\ UNCHANGED asked \/ (asked' = TRUE /\ node \in Gates)
     \/ /\ Released(p)
        /\ UNCHANGED <<checkpoint, approval, requirement, frozenFile>>
        /\ run' = run \/ run' = "FAILED"
     \/ (CreateRun(p) /\ run = "NONE") \/ FirstCheckpoint(p)

\* Every step inside the graph is one of these, and only the holder of the
\* project lock takes it (orchestrator/runtime.py, graph.invoke).
LEMMA WaysThrough ==
  ASSUME IndInv, NEW p \in Procs, GraphStep(p)
  PROVE  Ways(p)
<1> USE DEF Ways, IndInv, SessionsOK
<1>1. CASE CreateRun(p)
  BY <1>1 DEF CreateRun, Gates, At, Written, Checkpointed, Raises, Released,
       Leave, checkpoint, tables
<1>2. CASE FirstCheckpoint(p)
  BY <1>2 DEF FirstCheckpoint, Gates, At, Written, Checkpointed, Raises,
       Released, Leave, checkpoint, tables
<1>3. CASE Parse(p)
  BY <1>3 DEF Parse, Gates, At, Written, Checkpointed, Raises, Released, Leave,
       checkpoint, tables
<1>4. CASE ParseFails(p)
  BY <1>4 DEF ParseFails, Gates, At, Written, Checkpointed, Raises, Released,
       Leave, checkpoint, tables
<1>5. CASE ParseEvent(p)
  BY <1>5 DEF ParseEvent, AppendEvent, Gates, At, Written, Checkpointed,
       Raises, Released, Leave, checkpoint, tables
<1>6. CASE ParseDone(p)
  BY <1>6 DEF ParseDone, Gates, At, Written, Checkpointed, Raises, Released,
       Leave, checkpoint, tables
<1>7. CASE Interrupt(p)
  BY <1>7 DEF Interrupt, Gates, At, Written, Checkpointed, Raises, Released,
       Leave, checkpoint, tables
<1>8. CASE ClarifyHears(p)
  BY <1>8 DEF ClarifyHears, AppendEvent, Gates, At, Written, Checkpointed,
       Raises, Released, Leave, checkpoint, tables
<1>9. CASE ClarifyMarkRun(p)
  BY <1>9 DEF ClarifyMarkRun, UpdateRun, Gates, At, Written, Checkpointed,
       Raises, Released, Leave, checkpoint, tables
<1>10. CASE ClarifyDone(p)
  BY <1>10 DEF ClarifyDone, Gates, At, Written, Checkpointed, Raises, Released,
       Leave, checkpoint, tables
<1>11. CASE ReviewEnsure(p)
  BY <1>11 DEF ReviewEnsure, Gates, At, Written, Checkpointed, Raises,
       Released, Leave, checkpoint, tables
<1>12. CASE ReviewMarkRun(p)
  BY <1>12 DEF ReviewMarkRun, UpdateRun, Gates, At, Written, Checkpointed,
       Raises, Released, Leave, checkpoint, tables
<1>13. CASE ReviewPrepared(p)
  BY <1>13 DEF ReviewPrepared, Gates, At, Written, Checkpointed, Raises,
       Released, Leave, checkpoint, tables
<1>14. CASE ReviewRefused(p)
  BY <1>14 DEF ReviewRefused, Gates, At, Written, Checkpointed, Raises,
       Released, Leave, checkpoint, tables
<1>15. CASE ReviewDecide(p)
  BY <1>15 DEF ReviewDecide, Gates, At, Written, Checkpointed, Raises,
       Released, Leave, checkpoint, tables
<1>16. CASE ReviewDone(p)
  BY <1>16 DEF ReviewDone, Gates, At, Written, Checkpointed, Raises, Released,
       Leave, checkpoint, tables
<1>17. CASE CancelMarkRun(p)
  BY <1>17 DEF CancelMarkRun, UpdateRun, Gates, At, Written, Checkpointed,
       Raises, Released, Leave, checkpoint, tables
<1>18. CASE CancelDone(p)
  BY <1>18 DEF CancelDone, Gates, At, Written, Checkpointed, Raises, Released,
       Leave, checkpoint, tables
<1>19. CASE FreezeWrite(p)
  BY <1>19 DEF FreezeWrite, Gates, At, Written, Checkpointed, Raises, Released,
       Leave, checkpoint, tables
<1>20. CASE FreezeRecord(p)
  BY <1>20 DEF FreezeRecord, RecordRequirement, Gates, At, Written,
       Checkpointed, Raises, Released, Leave, checkpoint, tables
<1>21. CASE FreezeMarkRun(p)
  BY <1>21 DEF FreezeMarkRun, UpdateRun, Gates, At, Written, Checkpointed,
       Raises, Released, Leave, checkpoint, tables
<1>22. CASE FreezeDone(p)
  BY <1>22 DEF FreezeDone, Gates, At, Written, Checkpointed, Raises, Released,
       Leave, checkpoint, tables
<1>23. CASE DirectRecord(p)
  BY <1>23 DEF DirectRecord, RecordRequirement, Gates, At, Written,
       Checkpointed, Raises, Released, Leave, checkpoint, tables
<1>24. CASE DirectMarkRun(p)
  BY <1>24 DEF DirectMarkRun, UpdateRun, Gates, At, Written, Checkpointed,
       Raises, Released, Leave, checkpoint, tables
<1>25. CASE DirectDone(p)
  BY <1>25 DEF DirectDone, Gates, At, Written, Checkpointed, Raises, Released,
       Leave, checkpoint, tables
<1>26. CASE PlanMarkRun(p)
  BY <1>26 DEF PlanMarkRun, UpdateRun, Gates, At, Written, Checkpointed,
       Raises, Released, Leave, checkpoint, tables
<1>27. CASE PlanDone(p)
  BY <1>27 DEF PlanDone, Gates, At, Written, Checkpointed, Raises, Released,
       Leave, checkpoint, tables
<1>28. CASE Finish(p)
  <2>1. /\ pc[p] = "running" /\ lock = p /\ Leave(p)
        /\ UNCHANGED <<node, asked, pending, draft, reviewRound>>
    BY <1>28 DEF Finish, checkpoint
  <2>2. UNCHANGED <<mode, crashes>>
    BY <2>1 DEF Leave
  <2> QED
    BY <2>1, <2>2
<1>29. CASE RecordResponse(p)
  <2>1. lock = p
    BY <1>29 DEF RecordResponse
  <2>2. Released(p) /\ UNCHANGED <<mode, checkpoint, run, approval, requirement,
                                  frozenFile, crashes>>
    BY <1>29 DEF RecordResponse, Raises, checkpoint, tables
  <2> QED
    BY <2>1, <2>2
<1> QED
  BY <1>1, <1>2, <1>3, <1>4, <1>5, <1>6, <1>7, <1>8, <1>9, <1>10, <1>11, <1>12,
       <1>13, <1>14, <1>15, <1>16, <1>17, <1>18, <1>19, <1>20, <1>21, <1>22,
       <1>23, <1>24, <1>25, <1>26, <1>27, <1>28, <1>29
     DEF GraphStep

\* Who writes what.
Writers(p) ==
  /\ UNCHANGED approval \/ ReviewEnsure(p) \/ ReviewDecide(p)
  /\ UNCHANGED responses \/ RecordResponse(p)
  /\ UNCHANGED frozenFile \/ FreezeWrite(p)
  /\ UNCHANGED requirement \/ FreezeRecord(p) \/ DirectRecord(p)
  /\ UNCHANGED draft \/ ParseDone(p) \/ ClarifyDone(p) \/ ReviewDone(p)
  /\ UNCHANGED reviewRound \/ ReviewPrepared(p)
  /\ \/ UNCHANGED pending \/ pending' = NoInteraction
     \/ ParseDone(p) \/ ClarifyDone(p) \/ ReviewPrepared(p)
  /\ \/ UNCHANGED run \/ ClarifyMarkRun(p) \/ CancelMarkRun(p)
     \/ run' \in {"INTAKE", "CLARIFYING", "REQUIREMENT_REVIEW", "PLANNED",
                  "FAILED"}
  /\ UNCHANGED local \/ local' = NoResult \/ Parse(p) \/ ClarifyHears(p)

\* Every table, file and key of the checkpoint has a few steps that write it
\* (orchestrator/graph.py, storage.py).
LEMMA WhoWrites ==
  ASSUME NEW p \in Procs, GraphStep(p)
  PROVE  Writers(p)
<1> USE DEF Writers
<1>1. CASE CreateRun(p)
  BY <1>1 DEF CreateRun, At, Written, Checkpointed, Raises, Released, Leave,
       checkpoint, tables
<1>2. CASE FirstCheckpoint(p)
  BY <1>2 DEF FirstCheckpoint, At, Written, Checkpointed, Raises, Released,
       Leave, checkpoint, tables
<1>3. CASE Parse(p)
  BY <1>3 DEF Parse, At, Written, Checkpointed, Raises, Released, Leave,
       checkpoint, tables
<1>4. CASE ParseFails(p)
  BY <1>4 DEF ParseFails, At, Written, Checkpointed, Raises, Released, Leave,
       checkpoint, tables
<1>5. CASE ParseEvent(p)
  BY <1>5 DEF ParseEvent, AppendEvent, At, Written, Checkpointed, Raises,
       Released, Leave, checkpoint, tables
<1>6. CASE ParseDone(p)
  BY <1>6 DEF ParseDone, At, Written, Checkpointed, Raises, Released, Leave,
       checkpoint, tables
<1>7. CASE Interrupt(p)
  BY <1>7 DEF Interrupt, At, Written, Checkpointed, Raises, Released, Leave,
       checkpoint, tables
<1>8. CASE ClarifyHears(p)
  BY <1>8 DEF ClarifyHears, AppendEvent, At, Written, Checkpointed, Raises,
       Released, Leave, checkpoint, tables
<1>9. CASE ClarifyMarkRun(p)
  BY <1>9 DEF ClarifyMarkRun, UpdateRun, At, Written, Checkpointed, Raises,
       Released, Leave, checkpoint, tables
<1>10. CASE ClarifyDone(p)
  BY <1>10 DEF ClarifyDone, At, Written, Checkpointed, Raises, Released, Leave,
       checkpoint, tables
<1>11. CASE ReviewEnsure(p)
  BY <1>11 DEF ReviewEnsure, At, Written, Checkpointed, Raises, Released,
       Leave, checkpoint, tables
<1>12. CASE ReviewMarkRun(p)
  BY <1>12 DEF ReviewMarkRun, UpdateRun, At, Written, Checkpointed, Raises,
       Released, Leave, checkpoint, tables
<1>13. CASE ReviewPrepared(p)
  BY <1>13 DEF ReviewPrepared, At, Written, Checkpointed, Raises, Released,
       Leave, checkpoint, tables
<1>14. CASE ReviewRefused(p)
  BY <1>14 DEF ReviewRefused, At, Written, Checkpointed, Raises, Released,
       Leave, checkpoint, tables
<1>15. CASE ReviewDecide(p)
  BY <1>15 DEF ReviewDecide, At, Written, Checkpointed, Raises, Released,
       Leave, checkpoint, tables
<1>16. CASE ReviewDone(p)
  BY <1>16 DEF ReviewDone, At, Written, Checkpointed, Raises, Released, Leave,
       checkpoint, tables
<1>17. CASE CancelMarkRun(p)
  BY <1>17 DEF CancelMarkRun, UpdateRun, At, Written, Checkpointed, Raises,
       Released, Leave, checkpoint, tables
<1>18. CASE CancelDone(p)
  BY <1>18 DEF CancelDone, At, Written, Checkpointed, Raises, Released, Leave,
       checkpoint, tables
<1>19. CASE FreezeWrite(p)
  BY <1>19 DEF FreezeWrite, At, Written, Checkpointed, Raises, Released, Leave,
       checkpoint, tables
<1>20. CASE FreezeRecord(p)
  BY <1>20 DEF FreezeRecord, RecordRequirement, At, Written, Checkpointed,
       Raises, Released, Leave, checkpoint, tables
<1>21. CASE FreezeMarkRun(p)
  BY <1>21 DEF FreezeMarkRun, UpdateRun, At, Written, Checkpointed, Raises,
       Released, Leave, checkpoint, tables
<1>22. CASE FreezeDone(p)
  BY <1>22 DEF FreezeDone, At, Written, Checkpointed, Raises, Released, Leave,
       checkpoint, tables
<1>23. CASE DirectRecord(p)
  BY <1>23 DEF DirectRecord, RecordRequirement, At, Written, Checkpointed,
       Raises, Released, Leave, checkpoint, tables
<1>24. CASE DirectMarkRun(p)
  BY <1>24 DEF DirectMarkRun, UpdateRun, At, Written, Checkpointed, Raises,
       Released, Leave, checkpoint, tables
<1>25. CASE DirectDone(p)
  BY <1>25 DEF DirectDone, At, Written, Checkpointed, Raises, Released, Leave,
       checkpoint, tables
<1>26. CASE PlanMarkRun(p)
  BY <1>26 DEF PlanMarkRun, UpdateRun, At, Written, Checkpointed, Raises,
       Released, Leave, checkpoint, tables
<1>27. CASE PlanDone(p)
  BY <1>27 DEF PlanDone, At, Written, Checkpointed, Raises, Released, Leave,
       checkpoint, tables
<1>28. CASE Finish(p)
  BY <1>28 DEF Finish, At, Written, Checkpointed, Raises, Released, Leave,
       checkpoint, tables
<1>29. CASE RecordResponse(p)
  BY <1>29 DEF RecordResponse, At, Written, Checkpointed, Raises, Released,
       Leave, checkpoint, tables
<1> QED
  BY <1>1, <1>2, <1>3, <1>4, <1>5, <1>6, <1>7, <1>8, <1>9, <1>10, <1>11, <1>12,
       <1>13, <1>14, <1>15, <1>16, <1>17, <1>18, <1>19, <1>20, <1>21, <1>22,
       <1>23, <1>24, <1>25, <1>26, <1>27, <1>28, <1>29
     DEF GraphStep

\* Where the graph goes, and what a node's steps are.
Arrivals(p) ==
  /\ node' \in {"parse_requirement", "initialize_direct_run"} =>
       UNCHANGED node \/ FirstCheckpoint(p)
  /\ node' = "clarification_gate" =>
       \/ UNCHANGED <<node, pending>> \/ ParseDone(p) \/ ClarifyDone(p)
  /\ node' = "prepare_requirement_review" =>
       UNCHANGED node \/ ParseDone(p) \/ ClarifyDone(p) \/ ReviewDone(p)
  /\ node' = "requirement_review_gate" =>
       UNCHANGED <<node, pending, draft, reviewRound>> \/ ReviewPrepared(p)
  /\ node' = "cancel_run" => UNCHANGED node \/ ClarifyDone(p) \/ ReviewDone(p)
  /\ node' = "END" => UNCHANGED node \/ CancelDone(p)
  /\ node' = "freeze_requirement" => UNCHANGED <<node, draft>> \/ ReviewDone(p)
  /\ node' = "build_execution_plan" =>
       UNCHANGED <<node, draft>> \/ FreezeDone(p) \/ DirectDone(p)
  /\ node' = "route_next_stage" => UNCHANGED <<node, draft>> \/ PlanDone(p)
  /\ node' = "none" => UNCHANGED node
  /\ node = "none" => UNCHANGED node \/ FirstCheckpoint(p)
  /\ node = "parse_requirement" => UNCHANGED node \/ ParseDone(p)
  /\ node = "clarification_gate" =>
       UNCHANGED <<node, draft, pending>> \/ ClarifyDone(p)
  /\ node = "prepare_requirement_review" =>
       UNCHANGED <<node, draft, reviewRound>> \/ ReviewPrepared(p)
  /\ node = "requirement_review_gate" =>
       UNCHANGED <<node, draft, reviewRound>> \/ ReviewDone(p)
  /\ node = "cancel_run" => UNCHANGED <<node, draft>> \/ CancelDone(p)
  /\ UNCHANGED node \/ node' \in Nodes

Steps(p) ==
  \/ step' = 0
  \/ UNCHANGED step /\ (CreateRun(p) \/ FirstCheckpoint(p))
  \/ /\ step' = step + 1 /\ step < 3
     /\ pc[p] = "running" /\ UNCHANGED node
     /\ node = "parse_requirement" => Parse(p) \/ ParseEvent(p)
     /\ node = "clarification_gate" =>
          \/ step = 0 /\ ClarifyHears(p)
          \/ step = 1 /\ ClarifyMarkRun(p)
     /\ node = "prepare_requirement_review" => ReviewEnsure(p) \/ step > 0
     /\ node = "requirement_review_gate" => ReviewDecide(p)
     /\ node = "freeze_requirement" =>
          \/ step = 0 /\ FreezeWrite(p)
          \/ step = 1 /\ FreezeRecord(p)
          \/ step = 2
     /\ node = "initialize_direct_run" => DirectRecord(p) \/ step = 1

\* Where the graph goes next: every node is entered by a few checkpoints
\* (build_orchestrator_graph).
LEMMA WhereNext ==
  ASSUME IndInv, NEW p \in Procs, GraphStep(p)
  PROVE  Arrivals(p)
<1> USE DEF Arrivals
<1>1. CASE CreateRun(p)
  <2>1. UNCHANGED checkpoint
    BY <1>1 DEF CreateRun, Raises
  <2> QED
    BY <2>1 DEF checkpoint
<1>2. CASE FirstCheckpoint(p)
  <2>1. node = "none"
    BY <1>2 DEF FirstCheckpoint, IndInv, SessionsOK
  <2>2. node' \in {"initialize_direct_run", "parse_requirement"}
    BY <1>2 DEF FirstCheckpoint
  <2> QED
    BY <1>2, <2>1, <2>2 DEF Nodes
<1>3. CASE Parse(p)
  BY <1>3 DEF Parse, At, Written, Checkpointed, Raises, Released, Leave,
       checkpoint, tables, Nodes
<1>4. CASE ParseFails(p)
  BY <1>4 DEF ParseFails, At, Written, Checkpointed, Raises, Released, Leave,
       checkpoint, tables, Nodes
<1>5. CASE ParseEvent(p)
  BY <1>5 DEF ParseEvent, AppendEvent, At, Written, Checkpointed, Raises,
       Released, Leave, checkpoint, tables, Nodes
<1>6. CASE ParseDone(p)
  <2>1. node' \in Nodes
    BY <1>6 DEF ParseDone, Nodes, Gates
  <2>2. /\ node = "parse_requirement"
        /\ node' \in {"clarification_gate", "prepare_requirement_review"}
    BY <1>6 DEF ParseDone, At, Checkpointed
  <2> QED
    BY <1>6, <2>1, <2>2
<1>7. CASE Interrupt(p)
  BY <1>7 DEF Interrupt, At, Written, Checkpointed, Raises, Released, Leave,
       checkpoint, tables, Nodes
<1>8. CASE ClarifyHears(p)
  BY <1>8 DEF ClarifyHears, AppendEvent, At, Written, Checkpointed, Raises,
       Released, Leave, checkpoint, tables, Nodes
<1>9. CASE ClarifyMarkRun(p)
  BY <1>9 DEF ClarifyMarkRun, UpdateRun, At, Written, Checkpointed, Raises,
       Released, Leave, checkpoint, tables, Nodes
<1>10. CASE ClarifyDone(p)
  BY <1>10 DEF ClarifyDone, At, Written, Checkpointed, Raises, Released, Leave,
       checkpoint, tables, Nodes
<1>11. CASE ReviewEnsure(p)
  BY <1>11 DEF ReviewEnsure, At, Written, Checkpointed, Raises, Released,
       Leave, checkpoint, tables, Nodes
<1>12. CASE ReviewMarkRun(p)
  BY <1>12 DEF ReviewMarkRun, UpdateRun, At, Written, Checkpointed, Raises,
       Released, Leave, checkpoint, tables, Nodes
<1>13. CASE ReviewPrepared(p)
  <2>1. node' \in Nodes
    BY <1>13 DEF ReviewPrepared, Nodes, Gates
  <2>2. /\ node = "prepare_requirement_review"
        /\ node' = "requirement_review_gate"
    BY <1>13 DEF ReviewPrepared, At, Checkpointed
  <2> QED
    BY <1>13, <2>1, <2>2
<1>14. CASE ReviewRefused(p)
  BY <1>14 DEF ReviewRefused, At, Written, Checkpointed, Raises, Released,
       Leave, checkpoint, tables, Nodes
<1>15. CASE ReviewDecide(p)
  BY <1>15 DEF ReviewDecide, At, Written, Checkpointed, Raises, Released,
       Leave, checkpoint, tables, Nodes
<1>16. CASE ReviewDone(p)
  BY <1>16 DEF ReviewDone, At, Written, Checkpointed, Raises, Released, Leave,
       checkpoint, tables, Nodes
<1>17. CASE CancelMarkRun(p)
  BY <1>17 DEF CancelMarkRun, UpdateRun, At, Written, Checkpointed, Raises,
       Released, Leave, checkpoint, tables, Nodes
<1>18. CASE CancelDone(p)
  BY <1>18 DEF CancelDone, At, Written, Checkpointed, Raises, Released, Leave,
       checkpoint, tables, Nodes
<1>19. CASE FreezeWrite(p)
  BY <1>19 DEF FreezeWrite, At, Written, Checkpointed, Raises, Released, Leave,
       checkpoint, tables, Nodes
<1>20. CASE FreezeRecord(p)
  BY <1>20 DEF FreezeRecord, RecordRequirement, At, Written, Checkpointed,
       Raises, Released, Leave, checkpoint, tables, Nodes
<1>21. CASE FreezeMarkRun(p)
  BY <1>21 DEF FreezeMarkRun, UpdateRun, At, Written, Checkpointed, Raises,
       Released, Leave, checkpoint, tables, Nodes
<1>22. CASE FreezeDone(p)
  BY <1>22 DEF FreezeDone, At, Written, Checkpointed, Raises, Released, Leave,
       checkpoint, tables, Nodes
<1>23. CASE DirectRecord(p)
  BY <1>23 DEF DirectRecord, RecordRequirement, At, Written, Checkpointed,
       Raises, Released, Leave, checkpoint, tables, Nodes
<1>24. CASE DirectMarkRun(p)
  BY <1>24 DEF DirectMarkRun, UpdateRun, At, Written, Checkpointed, Raises,
       Released, Leave, checkpoint, tables, Nodes
<1>25. CASE DirectDone(p)
  BY <1>25 DEF DirectDone, At, Written, Checkpointed, Raises, Released, Leave,
       checkpoint, tables, Nodes
<1>26. CASE PlanMarkRun(p)
  BY <1>26 DEF PlanMarkRun, UpdateRun, At, Written, Checkpointed, Raises,
       Released, Leave, checkpoint, tables, Nodes
<1>27. CASE PlanDone(p)
  BY <1>27 DEF PlanDone, At, Written, Checkpointed, Raises, Released, Leave,
       checkpoint, tables, Nodes
<1>28. CASE Finish(p)
  BY <1>28 DEF Finish, At, Written, Checkpointed, Raises, Released, Leave,
       checkpoint, tables, Nodes
<1>29. CASE RecordResponse(p)
  BY <1>29 DEF RecordResponse, At, Written, Checkpointed, Raises, Released,
       Leave, checkpoint, tables, Nodes
<1> QED
  BY <1>1, <1>2, <1>3, <1>4, <1>5, <1>6, <1>7, <1>8, <1>9, <1>10, <1>11, <1>12,
       <1>13, <1>14, <1>15, <1>16, <1>17, <1>18, <1>19, <1>20, <1>21, <1>22,
       <1>23, <1>24, <1>25, <1>26, <1>27, <1>28, <1>29
     DEF GraphStep

\* A node goes on step by step: it starts again or does what its step says.
LEMMA StepByStep ==
  ASSUME NEW p \in Procs, GraphStep(p)
  PROVE  Steps(p)
<1> USE DEF Steps
<1>1. CASE CreateRun(p)
  BY <1>1 DEF CreateRun, At, Written, Checkpointed, Raises, Released, Leave,
       checkpoint, tables
<1>2. CASE FirstCheckpoint(p)
  BY <1>2 DEF FirstCheckpoint, At, Written, Checkpointed, Raises, Released,
       Leave, checkpoint, tables
<1>3. CASE Parse(p)
  BY <1>3 DEF Parse, At, Written, Checkpointed, Raises, Released, Leave,
       checkpoint, tables
<1>4. CASE ParseFails(p)
  BY <1>4 DEF ParseFails, At, Written, Checkpointed, Raises, Released, Leave,
       checkpoint, tables
<1>5. CASE ParseEvent(p)
  BY <1>5 DEF ParseEvent, AppendEvent, At, Written, Checkpointed, Raises,
       Released, Leave, checkpoint, tables
<1>6. CASE ParseDone(p)
  BY <1>6 DEF ParseDone, At, Written, Checkpointed, Raises, Released, Leave,
       checkpoint, tables
<1>7. CASE Interrupt(p)
  BY <1>7 DEF Interrupt, At, Written, Checkpointed, Raises, Released, Leave,
       checkpoint, tables
<1>8. CASE ClarifyHears(p)
  <2>1. /\ step = 0 /\ pc[p] = "running" /\ node = "clarification_gate"
        /\ UNCHANGED node
    BY <1>8 DEF ClarifyHears, AppendEvent, At, Written, Raises, checkpoint
  <2>2. step' \in {0, 1}
    <3>1. Written => step' = 1
      BY <2>1 DEF Written
    <3>2. Raises(p) => step' = 0
      BY DEF Raises, Released
    <3>3. Written \/ Raises(p)
      BY <1>8 DEF ClarifyHears, AppendEvent
    <3> QED
      BY <3>1, <3>2, <3>3
  <2> QED
    BY <1>8, <2>1, <2>2
<1>9. CASE ClarifyMarkRun(p)
  BY <1>9 DEF ClarifyMarkRun, UpdateRun, At, Written, Checkpointed, Raises,
       Released, Leave, checkpoint, tables
<1>10. CASE ClarifyDone(p)
  BY <1>10 DEF ClarifyDone, At, Written, Checkpointed, Raises, Released, Leave,
       checkpoint, tables
<1>11. CASE ReviewEnsure(p)
  BY <1>11 DEF ReviewEnsure, At, Written, Checkpointed, Raises, Released,
       Leave, checkpoint, tables
<1>12. CASE ReviewMarkRun(p)
  BY <1>12 DEF ReviewMarkRun, UpdateRun, At, Written, Checkpointed, Raises,
       Released, Leave, checkpoint, tables
<1>13. CASE ReviewPrepared(p)
  BY <1>13 DEF ReviewPrepared, At, Written, Checkpointed, Raises, Released,
       Leave, checkpoint, tables
<1>14. CASE ReviewRefused(p)
  BY <1>14 DEF ReviewRefused, At, Written, Checkpointed, Raises, Released,
       Leave, checkpoint, tables
<1>15. CASE ReviewDecide(p)
  BY <1>15 DEF ReviewDecide, At, Written, Checkpointed, Raises, Released,
       Leave, checkpoint, tables
<1>16. CASE ReviewDone(p)
  BY <1>16 DEF ReviewDone, At, Written, Checkpointed, Raises, Released, Leave,
       checkpoint, tables
<1>17. CASE CancelMarkRun(p)
  BY <1>17 DEF CancelMarkRun, UpdateRun, At, Written, Checkpointed, Raises,
       Released, Leave, checkpoint, tables
<1>18. CASE CancelDone(p)
  BY <1>18 DEF CancelDone, At, Written, Checkpointed, Raises, Released, Leave,
       checkpoint, tables
<1>19. CASE FreezeWrite(p)
  BY <1>19 DEF FreezeWrite, At, Written, Checkpointed, Raises, Released, Leave,
       checkpoint, tables
<1>20. CASE FreezeRecord(p)
  BY <1>20 DEF FreezeRecord, RecordRequirement, At, Written, Checkpointed,
       Raises, Released, Leave, checkpoint, tables
<1>21. CASE FreezeMarkRun(p)
  BY <1>21 DEF FreezeMarkRun, UpdateRun, At, Written, Checkpointed, Raises,
       Released, Leave, checkpoint, tables
<1>22. CASE FreezeDone(p)
  BY <1>22 DEF FreezeDone, At, Written, Checkpointed, Raises, Released, Leave,
       checkpoint, tables
<1>23. CASE DirectRecord(p)
  BY <1>23 DEF DirectRecord, RecordRequirement, At, Written, Checkpointed,
       Raises, Released, Leave, checkpoint, tables
<1>24. CASE DirectMarkRun(p)
  BY <1>24 DEF DirectMarkRun, UpdateRun, At, Written, Checkpointed, Raises,
       Released, Leave, checkpoint, tables
<1>25. CASE DirectDone(p)
  BY <1>25 DEF DirectDone, At, Written, Checkpointed, Raises, Released, Leave,
       checkpoint, tables
<1>26. CASE PlanMarkRun(p)
  BY <1>26 DEF PlanMarkRun, UpdateRun, At, Written, Checkpointed, Raises,
       Released, Leave, checkpoint, tables
<1>27. CASE PlanDone(p)
  BY <1>27 DEF PlanDone, At, Written, Checkpointed, Raises, Released, Leave,
       checkpoint, tables
<1>28. CASE Finish(p)
  BY <1>28 DEF Finish, At, Written, Checkpointed, Raises, Released, Leave,
       checkpoint, tables
<1>29. CASE RecordResponse(p)
  BY <1>29 DEF RecordResponse, At, Written, Checkpointed, Raises, Released,
       Leave, checkpoint, tables
<1> QED
  BY <1>1, <1>2, <1>3, <1>4, <1>5, <1>6, <1>7, <1>8, <1>9, <1>10, <1>11, <1>12,
       <1>13, <1>14, <1>15, <1>16, <1>17, <1>18, <1>19, <1>20, <1>21, <1>22,
       <1>23, <1>24, <1>25, <1>26, <1>27, <1>28, <1>29
     DEF GraphStep

-----------------------------------------------------------------------------
(* The invariant.                                                           *)

\* Nothing has happened yet.
LEMMA InitInv == Init => IndInv
<1> SUFFICES ASSUME Init PROVE IndInv
  OBVIOUS
<1> USE DEF Init
<1>1. TypeOK
  <2>1. /\ node \in Nodes /\ run \in RunStatus \cup {"NONE"}
        /\ 0 \in 0 .. MaxReviews /\ 0 \in 0 .. MaxCrashes /\ 0 \in 0 .. 3
    BY IntakeAssumption DEF Nodes
  <2>2. /\ Row("NONE", NoAnswer) \in ApprovalRows
        /\ Command("none") \in Commands
    BY DEF ApprovalRows, Row, Commands, Command
  <2> QED
    BY <2>1, <2>2 DEF TypeOK
<1>2. SessionsOK /\ PlaceOK
  BY IntakeAssumption
     DEF SessionsOK, PlaceOK, Gates, RunStatus, Command
<1>3. RoundsOK
  BY DEF RoundsOK, Command
<1>4. ReviewsOK /\ FrozenOK
  BY IntakeAssumption
     DEF ReviewsOK, OneReviewLine, FrozenOK, Opened, Approved, Row, NoAnswer
<1> QED
  BY <1>1, <1>2, <1>3, <1>4 DEF IndInv

\* Who holds the lock is inside the graph, alone, also after a crash.
LEMMA SessionsStep ==
  ASSUME IndInv, NEW p \in Procs,
         Issue(p) \/ Acquire(p) \/ LockRefused(p) \/ GraphStep(p) \/ Crash(p)
  PROVE  SessionsOK'
<1> USE DEF IndInv, TypeOK, SessionsOK
<1>1. cmd[p] \in Commands /\ NoProc \notin Procs
  BY IntakeAssumption
<1>2. CASE Issue(p)
  <2>1. /\ pc[p] = "idle" /\ pc' = [pc EXCEPT ![p] = "ready"]
        /\ \E c : cmd' = [cmd EXCEPT ![p] = c]
        /\ UNCHANGED <<node, run, lock, step, heard>>
    BY <1>2 DEF Issue, Start, Respond, Resume, Ready, checkpoint, tables
  <2> QED
    BY <1>1, <2>1
<1>3. CASE Acquire(p)
  <2>1. /\ lock = NoProc /\ lock' = p /\ heard' = cmd[p].answer
        /\ pc' = [pc EXCEPT ![p] = IF cmd[p].name = "start"
                                     THEN "creating" ELSE "running"]
        /\ UNCHANGED <<cmd, step>>
    BY <1>3 DEF Acquire
  <2> QED
    BY <1>1, <2>1, CommandTypes
<1>4. CASE LockRefused(p)
  <2>1. /\ pc[p] = "ready" /\ pc' = [pc EXCEPT ![p] = "idle"]
        /\ cmd' = [cmd EXCEPT ![p] = Command("none")]
        /\ UNCHANGED <<node, run, lock, step, heard>>
    BY <1>4 DEF LockRefused, checkpoint, tables
  <2> QED
    BY <1>1, <2>1
<1>5. CASE Crash(p)
  <2>1. /\ UNCHANGED <<node, run>>
        /\ pc' = [pc EXCEPT ![p] = "idle"]
        /\ cmd' = [cmd EXCEPT ![p] = Command("none")]
        /\ \/ lock = p /\ lock' = NoProc /\ step' = 0 /\ heard' = NoAnswer
           \/ lock # p /\ UNCHANGED <<lock, step, heard>>
    BY <1>5 DEF Crash, Released, checkpoint, tables
  <2> QED
    BY <1>1, <2>1
<1>6. CASE GraphStep(p)
  <2>1. lock = p /\ Ways(p)
    BY <1>6, WaysThrough DEF Ways
  <2>2. CASE CreateRun(p) /\ run = "NONE"
    <3>1. /\ node = "none" /\ pc[p] = "creating"
          /\ pc' = [pc EXCEPT ![p] = "seeding"] /\ run' = "INTAKE"
          /\ UNCHANGED <<node, lock, cmd, step, heard>>
      BY <2>2 DEF CreateRun, PlaceOK, checkpoint
    <3> QED
      BY <2>1, <3>1
  <2>3. CASE FirstCheckpoint(p)
    BY <2>1, <2>3 DEF FirstCheckpoint
  <2>4. CASE Released(p)
    BY <1>1, <2>1, <2>4 DEF Released
  <2>5. CASE pc[p] = "running" /\ UNCHANGED <<pc, cmd, lock, heard>>
    BY <1>1, <2>1, <2>5
  <2>6. CASE /\ pc[p] = "running" /\ step' = 0 /\ heard' = NoAnswer
             /\ UNCHANGED <<pc, cmd, lock>>
    BY <1>1, <2>1, <2>6
  <2>7. CASE pc[p] = "running" /\ Leave(p)
    BY <1>1, <2>1, <2>7 DEF Leave, Released
  <2> QED
    BY <2>1, <2>2, <2>3, <2>4, <2>5, <2>6, <2>7 DEF Ways
<1> QED
  BY <1>2, <1>3, <1>4, <1>5, <1>6

\* What a command does before it is in the graph, or when it dies, leaves the
\* stores alone and whatever a node has begun to whoever holds the lock.
LEMMA Outside ==
  ASSUME IndInv, NEW p \in Procs,
         Issue(p) \/ Acquire(p) \/ LockRefused(p) \/ Crash(p)
  PROVE  /\ UNCHANGED <<mode, node, asked, pending, draft, reviewRound, run,
                        approval, requirement, responses, frozenFile>>
         /\ step' > 0 => /\ UNCHANGED <<step, local, heard, lock>>
                         /\ lock \in Procs /\ cmd'[lock] = cmd[lock]
         /\ \A q \in Procs : cmd'[q].name = "respond" =>
              cmd'[q] = cmd[q] \/ (q = p /\ Respond(p))
<1> USE DEF checkpoint, tables
<1>1. /\ cmd[p] \in Commands /\ NoProc \notin Procs /\ step \in 0 .. 3
      /\ cmd \in [Procs -> Commands] /\ lock \in Procs \cup {NoProc}
      /\ step > 0 => lock \in Procs /\ pc[lock] = "running"
  BY IntakeAssumption DEF IndInv, TypeOK, SessionsOK
<1>2. CASE Issue(p)
  <2>1. /\ UNCHANGED <<mode, checkpoint, tables, frozenFile, step, local, heard,
                       lock>>
        /\ pc[p] = "idle" /\ \E c : cmd' = [cmd EXCEPT ![p] = c]
    BY <1>2 DEF Issue, Start, Respond, Resume, Ready
  <2>2. Respond(p) \/ cmd'[p].name # "respond"
    BY <1>1, <1>2 DEF Issue, Start, Resume, Ready, Command
  <2> QED
    BY <1>1, <2>1, <2>2
<1>3. CASE Acquire(p)
  BY <1>1, <1>3 DEF Acquire
<1>4. CASE LockRefused(p)
  <2>1. /\ UNCHANGED <<mode, checkpoint, tables, frozenFile, step, local, heard,
                       lock>>
        /\ pc[p] = "ready" /\ cmd' = [cmd EXCEPT ![p] = Command("none")]
    BY <1>4 DEF LockRefused
  <2> QED
    BY <1>1, <2>1 DEF Command
<1>5. CASE Crash(p)
  <2>1. /\ UNCHANGED <<mode, checkpoint, tables, frozenFile>>
        /\ cmd' = [cmd EXCEPT ![p] = Command("none")]
        /\ \/ step' = 0
           \/ lock # p /\ UNCHANGED <<step, local, heard, lock>>
    BY <1>5 DEF Crash, Released
  <2> QED
    BY <1>1, <2>1 DEF Command
<1> QED
  BY <1>2, <1>3, <1>4, <1>5

\* Only the process inside the graph takes a command off, and none puts on.
LEMMA CommandsStay ==
  ASSUME IndInv, NEW p \in Procs, GraphStep(p)
  PROVE  \A q \in Procs :
           /\ cmd'[q].name = "respond" => cmd'[q] = cmd[q]
           /\ pc'[q] \notin {"idle", "ready"} => lock = q \/ pc'[q] = pc[q]
           /\ pc'[q] = "ready" => pc[q] = "ready"
<1>1. Ways(p) /\ cmd \in [Procs -> Commands]
  BY WaysThrough DEF IndInv, TypeOK
<1>2. pc \in [Procs -> {"idle", "ready", "creating", "seeding", "running",
                        "recording"}]
  BY DEF IndInv, TypeOK
<1> QED
  BY <1>1, <1>2
     DEF Ways, Leave, Released, CreateRun, Raises, FirstCheckpoint, Command

\* A node is under way only in the hands of the process in the graph.
LEMMA UnderWay ==
  ASSUME IndInv, step > 0
  PROVE  lock \in Procs /\ pc[lock] = "running"
  BY DEF IndInv, TypeOK, SessionsOK

\* What a gate works out is a result.
LEMMA ResultTypes ==
  ASSUME IndInv, NEW p \in Procs,
         Parse(p) \/ ParseEvent(p) \/ ClarifyHears(p), step' > 0
  PROVE  local' \in Results
<1>1. CASE Parse(p)
  <2>1. PICK d \in Drafts, asks \in BOOLEAN :
          \/ local' = Result(IF asks THEN "repeat" ELSE "continue", d, asks)
          \/ Raises(p)
    BY <1>1 DEF Parse
  <2> QED
    BY <2>1 DEF Raises, Released, Results, Result
<1>2. CASE ParseEvent(p)
  <2>1. \/ local' = local \/ Raises(p)
    BY <1>2 DEF ParseEvent, AppendEvent
  <2>2. node = "parse_requirement" /\ step > 0
    BY <1>2 DEF ParseEvent, At
  <2> QED
    BY <2>1, <2>2 DEF Raises, Released, IndInv, PlaceOK
<1>3. CASE ClarifyHears(p)
  <2>1. /\ node = "clarification_gate" /\ draft \in Drafts
        /\ heard \in Answers
    BY <1>3 DEF ClarifyHears, At, IndInv, PlaceOK, TypeOK
  <2>2. \/ local' = Result("repeat", draft, TRUE)
        \/ local' = Result("cancel", draft, TRUE)
        \/ heard.say = "changes" /\ local' = Result("continue", heard.draft, FALSE)
        \/ \E d \in Drafts, asks \in BOOLEAN :
             local' = Result(IF asks THEN "repeat" ELSE "continue", d, asks)
        \/ Raises(p)
    BY <1>3 DEF ClarifyHears, AppendEvent
  <2>3. heard.say = "changes" => heard.draft \in Drafts
    BY <2>1 DEF Answers
  <2>4. ~Raises(p)
    BY DEF Raises, Released
  <2>5. \A d \in Drafts, asks \in BOOLEAN,
           then \in {"repeat", "continue", "cancel"} :
          Result(then, d, asks) \in Results
    BY DEF Results, Result
  <2> QED
    BY <2>1, <2>2, <2>3, <2>4, <2>5
<1> QED
  BY <1>1, <1>2, <1>3

\* A step leaves every variable of its type.  The rounds stay within their
\* bounds because an answer that asks again was given a round before.
LEMMA TypeStep ==
  ASSUME IndInv, NEW p \in Procs,
         Issue(p) \/ Acquire(p) \/ LockRefused(p) \/ GraphStep(p) \/ Crash(p)
  PROVE  TypeOK'
<1> USE DEF IndInv, TypeOK
<1>1. CASE Issue(p)
  <2>1. PICK c \in Commands : Ready(p, c)
    <3>1. ASSUME Respond(p) PROVE \E c \in Commands : Ready(p, c)
      <4>1. pending \in Interactions
        BY <3>1 DEF Respond, PlaceOK, Gates
      <4>2. AnswersAt(pending) \subseteq Answers
        BY DEF AnswersAt, Answers, Say
      <4> QED
        BY <3>1, <4>1, <4>2 DEF Respond, Commands
    <3>2. Command("start") \in Commands /\ Command("resume") \in Commands
      BY DEF Command, Commands
    <3> QED
      BY <1>1, <3>1, <3>2 DEF Issue, Start, Resume
  <2> QED
    BY <2>1 DEF Ready, checkpoint, tables
<1>2. CASE Acquire(p)
  BY <1>2, CommandTypes DEF Acquire, checkpoint, tables
<1>3. Command("none") \in Commands
  BY DEF Command, Commands
<1>4. CASE LockRefused(p)
  BY <1>3, <1>4 DEF LockRefused, checkpoint, tables
<1>5. CASE Crash(p)
  BY <1>3, <1>5, IntakeAssumption DEF Crash, Released, checkpoint, tables
<1>6. CASE GraphStep(p)
  <2>1. Ways(p) /\ Writers(p) /\ Arrivals(p) /\ Steps(p)
    BY <1>6, WaysThrough, WhoWrites, WhereNext, StepByStep
  <2>2. node' \in Nodes
    BY <2>1 DEF Arrivals
  <2>3. mode' \in Modes /\ crashes' \in 0 .. MaxCrashes
    BY <2>1 DEF Ways
  <2>4. /\ asked' \in BOOLEAN /\ heard' \in Answers \cup {NoAnswer}
        /\ pc' \in [Procs -> {"idle", "ready", "creating", "seeding",
                              "running", "recording"}]
        /\ cmd' \in [Procs -> Commands]
        /\ lock' \in Procs \cup {NoProc}
    <3>1. CASE CreateRun(p) \/ FirstCheckpoint(p)
      BY <1>3, <3>1
         DEF CreateRun, FirstCheckpoint, Raises, Released, checkpoint
    <3>2. CASE Leave(p) /\ (UNCHANGED asked \/ asked' = TRUE)
      BY <1>3, <3>2 DEF Leave, Released
    <3>3. CASE Released(p) /\ UNCHANGED checkpoint
      BY <1>3, <3>3 DEF Released, checkpoint
    <3> QED
      BY <2>1, <3>1, <3>2, <3>3 DEF Ways, checkpoint
  <2>5. run' \in RunStatus \cup {"NONE"}
    BY <2>1, RunTypes DEF Writers, ClarifyMarkRun, CancelMarkRun, UpdateRun,
         Raises, tables
  <2>6. step' \in 0 .. 3
    BY <2>1 DEF Steps
  <2>7. local' \in Results \cup {NoResult}
    <3>1. CASE Parse(p) \/ ClarifyHears(p)
      <4>1. step' > 0 \/ Released(p)
        <5>1. Written \/ Raises(p)
          BY <3>1 DEF Parse, ClarifyHears, AppendEvent
        <5> QED
          BY <5>1 DEF Written, Raises
      <4> QED
        BY <3>1, <4>1, ResultTypes DEF Released
    <3> QED
      BY <2>1, <3>1 DEF Writers
  <2>8. draft' \in Drafts \cup {NoDraft}
    <3>1. CASE ParseDone(p) \/ ClarifyDone(p)
      <4>1. /\ draft' = local.draft /\ step > 0
            /\ node \in {"parse_requirement", "clarification_gate"}
        BY <3>1 DEF ParseDone, ClarifyDone, At
      <4>2. local \in Results
        BY <4>1 DEF PlaceOK
      <4> QED
        BY <4>1, <4>2 DEF Results
    <3>2. CASE ReviewDone(p)
      <4>1. UNCHANGED draft \/ (heard.say = "revise" /\ draft' = heard.draft)
        BY <3>2 DEF ReviewDone
      <4>2. heard.say = "revise" => heard.draft \in Drafts
        BY DEF Answers, NoAnswer
      <4> QED
        BY <4>1, <4>2
    <3> QED
      BY <2>1, <3>1, <3>2 DEF Writers
  <2>9. reviewRound' \in 0 .. MaxReviews
    <3>1. CASE ReviewPrepared(p)
      <4>1. /\ reviewRound' = reviewRound + 1
            /\ node = "prepare_requirement_review"
        BY <3>1 DEF ReviewPrepared, At
      <4> QED
        BY <4>1, IntakeAssumption DEF RoundsOK
    <3> QED
      BY <2>1, <3>1 DEF Writers
  <2>10. pending' \in Interactions \cup {NoInteraction}
    <3>1. CASE ParseDone(p)
      <4>1. local \in Results
        BY <3>1 DEF ParseDone, At, PlaceOK
      <4>2. ClarificationOf(local.draft, 1) \in Interactions
        BY <4>1, IntakeAssumption
           DEF ClarificationOf, Interactions, Gates, Rounds, Results
      <4> QED
        BY <3>1, <4>2 DEF ParseDone
    <3>2. CASE ClarifyDone(p)
      <4>1. /\ local \in Results /\ pending \in Interactions
            /\ node = "clarification_gate" /\ step > 0
        BY <3>2 DEF ClarifyDone, At, PlaceOK
      <4>2. local.then = "repeat" => pending.round + 1 \in Rounds
        <5>1. p \in Unheard
          <6>1. heard # NoAnswer /\ lock = p /\ pc[p] = "running"
            BY <3>2, <4>1 DEF ClarifyDone, At, PlaceOK, Gates
          <6>2. cmd[p].answer # NoAnswer
            BY <6>1 DEF SessionsOK
          <6> QED
            BY <6>1, <6>2, CommandTypes DEF Unheard
        <5>2. IsFiniteSet(Unheard)
          BY IntakeAssumption, FS_Subset DEF Unheard
        <5>3. Cardinality(Unheard) \in Nat /\ Cardinality(Unheard) # 0
          BY <5>1, <5>2, FS_CardinalityType, FS_EmptySet
        <5> QED
          BY <4>1, <5>3, IntakeAssumption DEF RoundsOK, Interactions, Rounds
      <4>3. \/ pending' = NoInteraction
            \/ /\ local.then = "repeat"
               /\ pending' = ClarificationOf(local.draft, pending.round + 1)
        BY <3>2 DEF ClarifyDone
      <4> QED
        BY <4>1, <4>2, <4>3
           DEF ClarificationOf, Interactions, Gates, Results
    <3>3. CASE ReviewPrepared(p)
      <4>1. pending' = NextReview /\ node = "prepare_requirement_review"
        BY <3>3 DEF ReviewPrepared, At
      <4>2. draft \in Drafts /\ reviewRound + 1 \in Rounds
        BY <4>1, IntakeAssumption DEF PlaceOK, RoundsOK, Rounds
      <4> QED
        BY <4>1, <4>2 DEF NextReview, ReviewOf, Interactions, Gates
    <3> QED
      BY <2>1, <3>1, <3>2, <3>3 DEF Writers
  <2>11. approval' \in [Interactions -> ApprovalRows]
    <3>1. Row("PENDING", NoAnswer) \in ApprovalRows
      BY DEF Row, ApprovalRows, ApprovalStatus
    <3>2. Row(Verdict(heard.say), heard) \in ApprovalRows
      BY RunTypes DEF Row, ApprovalRows, ApprovalStatus
    <3> QED
      BY <2>1, <3>1, <3>2
         DEF Writers, ReviewEnsure, ReviewDecide, Raises, tables
  <2>12. /\ requirement' \in Drafts \cup {NoDraft}
         /\ frozenFile' \in Drafts \cup {NoDraft}
    BY <2>1
       DEF Writers, FreezeWrite, FreezeRecord, DirectRecord,
           RecordRequirement, Raises, tables
  <2>13. responses' \in [Interactions -> Answers \cup {NoAnswer}]
    <3>1. CASE RecordResponse(p)
      <4>1. cmd[p] \in Commands
        OBVIOUS
      <4>2. \/ responses' = [responses EXCEPT ![cmd[p].to] = cmd[p].answer]
            \/ UNCHANGED responses
        BY <3>1 DEF RecordResponse, tables
      <4> QED
        BY <4>1, <4>2, CommandTypes
    <3> QED
      BY <2>1, <3>1 DEF Writers
  <2> QED
    BY <2>2, <2>3, <2>4, <2>5, <2>6, <2>7, <2>8, <2>9, <2>10, <2>11, <2>12,
       <2>13
<1> QED
  BY <1>1, <1>2, <1>4, <1>5, <1>6

\* Where the Run is, and what is worked out there, follows the graph.
LEMMA PlaceStep ==
  ASSUME IndInv, NEW p \in Procs,
         Issue(p) \/ Acquire(p) \/ LockRefused(p) \/ GraphStep(p) \/ Crash(p)
  PROVE  PlaceOK'
<1> USE DEF PlaceOK
<1>1. CASE Issue(p) \/ Acquire(p) \/ LockRefused(p) \/ Crash(p)
  <2>1. ASSUME NEW q \in Procs, cmd'[q].name = "respond"
        PROVE  node \notin {"none", "parse_requirement",
                            "initialize_direct_run"}
    BY <1>1, <2>1, Outside DEF Respond, Gates, IndInv
  <2> QED
    BY <1>1, <2>1, Outside DEF IndInv
<1>2. CASE GraphStep(p)
  <2>1. /\ Ways(p) /\ Writers(p) /\ Arrivals(p) /\ Steps(p) /\ TypeOK'
        /\ PlaceOK /\ TypeOK
    BY <1>2, WaysThrough, WhoWrites, WhereNext, StepByStep, TypeStep DEF IndInv
  <2>2. FirstCheckpoint(p) => node = "none" /\ run # "NONE"
    BY DEF FirstCheckpoint, IndInv, SessionsOK
  <2>3. asked' => node' \in Gates
    BY <2>1, <2>2
       DEF Ways, checkpoint, Leave, Released, CreateRun, Raises,
           FirstCheckpoint, Gates
  <2>4. step' > 0 => /\ UNCHANGED <<checkpoint, heard, lock, cmd>>
                     /\ pc[p] = "running" /\ step' = step + 1
    <3>1. CASE CreateRun(p) \/ FirstCheckpoint(p)
      BY <2>1, <3>1
         DEF CreateRun, FirstCheckpoint, Raises, Released, IndInv, SessionsOK,
             Ways
    <3> QED
      BY <2>1, <3>1 DEF Ways, Leave, Released, Steps
  <2>5. node' \in Gates /\ step' > 0 => heard' # NoAnswer
    <3>1. CASE step > 0
      BY <2>1, <2>4, <3>1 DEF checkpoint
    <3>2. CASE step = 0
      BY <2>1, <2>4, <3>2
         DEF Steps, ClarifyHears, ClarifyMarkRun, ReviewDecide, At, Gates,
             checkpoint
    <3> QED
      BY <3>1, <3>2 DEF IndInv, TypeOK
  <2>6. run' = "NONE" => node' = "none"
    BY <2>1, <2>2, RunTypes
       DEF Writers, Arrivals, ClarifyMarkRun, CancelMarkRun, UpdateRun,
           Raises, tables
  <2>7. node' \in {"none", "parse_requirement", "initialize_direct_run"} =>
          \A q \in Procs : cmd'[q].name # "respond"
    BY <1>2, <2>1, <2>2, CommandsStay DEF Arrivals
  <2>8. mode' = "direct" => node' \in {"none", "initialize_direct_run",
                              "build_execution_plan", "route_next_stage"}
    BY <2>1
       DEF Ways, Arrivals, Nodes, Gates, FirstCheckpoint, ParseDone, ClarifyDone,
           ReviewPrepared, ReviewDone, CancelDone, At
  <2>9. node' = "initialize_direct_run" => mode' = "direct"
    BY <2>1 DEF Ways, Arrivals, FirstCheckpoint
  <2>10. node' \notin {"none", "parse_requirement"} \/ mode' = "direct" =>
           draft' \in Drafts
    <3>1. CASE ParseDone(p) \/ ClarifyDone(p)
      <4>1. draft' = local.draft /\ local \in Results
        BY <2>1, <3>1 DEF ParseDone, ClarifyDone, At
      <4> QED
        BY <4>1 DEF Results
    <3>2. CASE ReviewDone(p)
      <4>1. \/ UNCHANGED draft
            \/ heard.say = "revise" /\ draft' = heard.draft
        BY <3>2 DEF ReviewDone
      <4>2. heard.say = "revise" => heard.draft \in Drafts
        BY <2>1 DEF TypeOK, Answers, NoAnswer
      <4>3. draft \in Drafts
        BY <2>1, <3>2 DEF ReviewDone, At
      <4> QED
        BY <4>1, <4>2, <4>3
    <3>3. CASE UNCHANGED draft /\ ~ParseDone(p)
      BY <2>1, <3>3 DEF Ways, Arrivals, FirstCheckpoint
    <3>4. UNCHANGED draft \/ ParseDone(p) \/ ClarifyDone(p) \/ ReviewDone(p)
      BY <2>1 DEF Writers
    <3> QED
      BY <3>1, <3>2, <3>3, <3>4
  <2>11. node' \in {"parse_requirement", "clarification_gate"} /\ step' > 0 =>
           local' \in Results
    <3>1. ASSUME step' > 0, ClarifyMarkRun(p) PROVE local' \in Results
      <4>1. UNCHANGED local \/ Raises(p)
        BY <3>1 DEF ClarifyMarkRun, UpdateRun
      <4> QED
        BY <2>1, <3>1, <4>1 DEF Raises, Released, ClarifyMarkRun, At
    <3>2. ASSUME step' > 0, node' \in {"parse_requirement", "clarification_gate"}
          PROVE  \/ Parse(p) \/ ParseEvent(p) \/ ClarifyHears(p)
                 \/ ClarifyMarkRun(p)
      BY <2>1, <2>4, <3>2 DEF Steps, checkpoint, FirstCheckpoint, CreateRun
    <3>3. IndInv
      OBVIOUS
    <3> QED
      BY <3>1, <3>2, <3>3, ResultTypes
  <2>12. node' = "clarification_gate" =>
           pending' \in Interactions /\ pending'.gate = "clarification_gate"
    <3>1. CASE ParseDone(p) \/ ClarifyDone(p)
      <4>1. node' = "clarification_gate" =>
              \E d, k : pending' = ClarificationOf(d, k)
        BY <3>1 DEF ParseDone, ClarifyDone
      <4>2. pending' \in Interactions \cup {NoInteraction}
        BY <2>1 DEF TypeOK
      <4> QED
        BY <4>1, <4>2 DEF ClarificationOf, NoInteraction
    <3> QED
      BY <2>1, <3>1 DEF Arrivals
  <2>13. node' = "clarification_gate" /\ step' = 2 =>
           run' = StatusAfter(local'.then)
    <3>1. ASSUME step' = 2, ClarifyMarkRun(p)
          PROVE  run' = StatusAfter(local'.then)
      BY <3>1 DEF ClarifyMarkRun, UpdateRun, Raises, Released
    <3>2. step' = 2 => step = 1
      BY <2>1, <2>4 DEF TypeOK
    <3> QED
      BY <2>1, <2>4, <3>1, <3>2 DEF Steps, checkpoint
  <2>14. node' = "requirement_review_gate" =>
           /\ pending' = ReviewOf(draft', reviewRound')
           /\ pending' \in Interactions
    <3>1. CASE ReviewPrepared(p)
      <4>1. pending' = ReviewOf(draft', reviewRound')
        BY <3>1 DEF ReviewPrepared, NextReview
      <4>2. pending' \in Interactions \cup {NoInteraction}
        BY <2>1 DEF TypeOK
      <4> QED
        BY <4>1, <4>2 DEF ReviewOf, NoInteraction
    <3> QED
      BY <2>1, <3>1 DEF Arrivals
  <2>15. node' = "requirement_review_gate" /\ step' > 0 =>
           /\ approval'[pending'] = Row(Verdict(heard'.say), heard')
           /\ cmd'[lock'] = cmd[lock] /\ cmd[lock].to = pending'
    <3>1. ASSUME ReviewDecide(p), step' > 0,
                 node = "requirement_review_gate"
          PROVE  /\ approval'[pending] = Row(Verdict(heard.say), heard)
                 /\ cmd[lock].to = pending
      <4>1. approval' = [approval EXCEPT ![pending] =
                          Row(Verdict(heard.say), heard)]
        BY <3>1 DEF ReviewDecide, Raises, Released
      <4>2. cmd[p].to = pending /\ lock = p
        BY <3>1 DEF ReviewDecide, Fits, At
      <4> QED
        BY <2>1, <3>1, <4>1, <4>2 DEF TypeOK
    <3>2. ASSUME step' > 0, node' = "requirement_review_gate"
          PROVE  /\ ReviewDecide(p) /\ node = "requirement_review_gate"
                 /\ UNCHANGED <<pending, heard, lock, cmd>>
      BY <2>1, <2>4, <3>2 DEF Steps, checkpoint, TypeOK
    <3> QED
      BY <3>1, <3>2
  <2>16. run' = "CANCELLED" =>
           node' \in {"clarification_gate", "cancel_run", "END"}
    <3>1. CASE ClarifyMarkRun(p) \/ CancelMarkRun(p)
      BY <2>1, <3>1
         DEF ClarifyMarkRun, CancelMarkRun, UpdateRun, Raises, Written, At,
             checkpoint, tables
    <3>2. CASE UNCHANGED run
      <4>1. CASE ClarifyDone(p) /\ run = "CANCELLED"
        <5>1. StatusAfter(local.then) = "CANCELLED"
          BY <2>1, <4>1 DEF ClarifyDone, At
        <5>2. local.then # "continue"
          BY <5>1 DEF StatusAfter
        <5> QED
          BY <4>1, <5>2 DEF ClarifyDone, At
      <4>2. ASSUME run = "CANCELLED"
            PROVE  ~ (\/ ParseDone(p) \/ ReviewDone(p) \/ ReviewPrepared(p)
                      \/ FreezeDone(p) \/ DirectDone(p) \/ PlanDone(p)
                      \/ FirstCheckpoint(p))
        BY <2>1, <4>2
           DEF FirstCheckpoint, ParseDone, ReviewDone, ReviewPrepared,
               FreezeDone, DirectDone, PlanDone, At, IndInv, SessionsOK
      <4>3. ASSUME run = "CANCELLED", ~ClarifyDone(p)
            PROVE  UNCHANGED node \/ node' = "END"
        BY <2>1, <4>2, <4>3 DEF Arrivals, Nodes, Gates
      <4> QED
        BY <2>1, <3>2, <4>1, <4>3
    <3> QED
      BY <2>1, <3>1, <3>2 DEF Writers
  <2> QED
    BY <2>3, <2>5, <2>6, <2>7, <2>8, <2>9, <2>10, <2>11, <2>12, <2>13, <2>14,
       <2>15, <2>16
<1> QED
  BY <1>1, <1>2

\* How many rounds the answers under way may take.
LEMMA Counting ==
  ASSUME NEW S, NEW T, S \subseteq T, T \subseteq Procs
  PROVE  /\ Cardinality(S) \in Nat /\ Cardinality(T) \in Nat
         /\ Cardinality(S) <= Cardinality(T)
         /\ \A p \in T \ S : Cardinality(S) + 1 <= Cardinality(T)
         /\ Cardinality(S) = 0 => S = {}
         /\ S = {} => Cardinality(S) = 0
<1>1. IsFiniteSet(T)
  BY IntakeAssumption, FS_Subset
<1>2. IsFiniteSet(S) /\ Cardinality(S) <= Cardinality(T)
  BY <1>1, FS_Subset
<1>3. Cardinality(S) \in Nat /\ Cardinality(T) \in Nat
  BY <1>1, <1>2, FS_CardinalityType
<1>4. Cardinality(S) = 0 <=> S = {}
  BY <1>2, FS_EmptySet
<1>5. ASSUME NEW p \in T \ S PROVE Cardinality(S) + 1 <= Cardinality(T)
  <2>1. Cardinality(S \cup {p}) = Cardinality(S) + 1
    BY <1>2, <1>5, FS_AddElement
  <2>2. S \cup {p} \in SUBSET T
    BY <1>5
  <2>3. Cardinality(S \cup {p}) <= Cardinality(T)
    BY <1>1, <2>2, FS_Subset
  <2> QED
    BY <2>1, <2>3
<1> QED
  BY <1>2, <1>3, <1>4, <1>5

\* Only a user's answer adds to the answers under way, and the one that has
\* been heard is taken off by the checkpoint.
LEMMA AnswersUnderWay ==
  ASSUME IndInv, NEW p \in Procs,
         Issue(p) \/ Acquire(p) \/ LockRefused(p) \/ GraphStep(p) \/ Crash(p)
  PROVE  /\ ~Respond(p) => Unheard' \subseteq Unheard
         /\ Respond(p) => Unheard' = Unheard \cup {p} /\ p \notin Unheard
         /\ GraphStep(p) /\ heard' = NoAnswer => p \notin Unheard'
<1>1. /\ cmd \in [Procs -> Commands] /\ NoProc \notin Procs
      /\ pc \in [Procs -> {"idle", "ready", "creating", "seeding", "running",
                           "recording"}]
      /\ \A q \in Procs : lock = q <=> pc[q] \notin {"idle", "ready"}
      /\ lock \in Procs => heard \in {NoAnswer, cmd[lock].answer}
      /\ lock \in Procs /\ pc[lock] = "seeding" => cmd[lock].name = "start"
  BY IntakeAssumption DEF IndInv, TypeOK, SessionsOK
<1>2. CASE Start(p) \/ Resume(p)
  <2>1. PICK name \in {"start", "resume"} :
          /\ pc[p] = "idle" /\ pc' = [pc EXCEPT ![p] = "ready"]
          /\ cmd' = [cmd EXCEPT ![p] = Command(name)] /\ heard' = heard
    BY <1>2 DEF Start, Resume, Ready
  <2>2. cmd'[p].name # "respond"
    BY <1>1, <2>1 DEF Command
  <2>3. Unheard' \subseteq Unheard
    BY <1>1, <2>1, <2>2 DEF Unheard
  <2>4. ~Respond(p)
    <3>1. Respond(p) => cmd'[p].name = "respond"
      BY <1>1 DEF Respond, Ready
    <3> QED
      BY <2>2, <3>1
  <2>5. ~GraphStep(p)
    <3>1. GraphStep(p) => lock = p
      BY WaysThrough DEF Ways
    <3> QED
      BY <1>1, <2>1, <3>1
  <2> QED
    BY <2>3, <2>4, <2>5
<1>3. CASE Respond(p)
  <2>1. PICK c : /\ c.name = "respond" /\ pc[p] = "idle"
                 /\ pc' = [pc EXCEPT ![p] = "ready"]
                 /\ cmd' = [cmd EXCEPT ![p] = c] /\ heard' = heard
    BY <1>3 DEF Respond, Ready
  <2>2. Unheard' = Unheard \cup {p} /\ p \notin Unheard
    BY <1>1, <2>1 DEF Unheard
  <2>3. ~GraphStep(p)
    <3>1. GraphStep(p) => lock = p
      BY WaysThrough DEF Ways
    <3> QED
      BY <1>1, <2>1, <3>1
  <2> QED
    BY <1>3, <2>2, <2>3
<1>4. CASE (Acquire(p) \/ LockRefused(p) \/ Crash(p)) /\ ~Issue(p)
  <2>1. ~Respond(p)
    BY <1>4 DEF Issue
  <2>2. CASE Acquire(p)
    <3>1. /\ pc[p] = "ready" /\ lock = NoProc /\ heard' = cmd[p].answer
          /\ \E s : pc' = [pc EXCEPT ![p] = s]
          /\ cmd' = cmd
      BY <2>2 DEF Acquire
    <3> QED
      BY <1>1, <2>1, <3>1, WaysThrough DEF Ways, Unheard
  <2>3. CASE LockRefused(p)
    <3>1. /\ pc[p] = "ready" /\ heard' = heard
          /\ pc' = [pc EXCEPT ![p] = "idle"]
          /\ cmd' = [cmd EXCEPT ![p] = Command("none")]
      BY <2>3 DEF LockRefused
    <3> QED
      BY <1>1, <2>1, <3>1, WaysThrough DEF Ways, Unheard
  <2>4. CASE Crash(p)
    <3>1. /\ heard' = heard \/ (lock = p /\ heard' = NoAnswer)
          /\ pc' = [pc EXCEPT ![p] = "idle"]
          /\ cmd' = [cmd EXCEPT ![p] = Command("none")]
      BY <2>4 DEF Crash, Released
    <3> QED
      BY <1>1, <2>1, <3>1 DEF Unheard
  <2> QED
    BY <1>4, <2>2, <2>3, <2>4
<1>5. CASE GraphStep(p)
  <2>1. Ways(p) /\ lock = p /\ pc[p] \notin {"idle", "ready"}
    BY <1>1, <1>5, WaysThrough DEF Ways
  <2>2. ~Respond(p)
    BY <2>1 DEF Respond
  <2>3. /\ \A q \in Procs \ {p} : cmd'[q] = cmd[q] /\ pc'[q] = pc[q]
        /\ \A q \in Procs \ {p} : pc[q] \in {"idle", "ready"}
    BY <1>1, <2>1
       DEF Ways, Leave, Released, CreateRun, FirstCheckpoint, Raises
  <2>4. \/ pc'[p] = "running" /\ heard' = NoAnswer
        \/ pc[p] = "running" /\ UNCHANGED <<pc, cmd, heard>>
        \/ pc'[p] \notin {"ready", "running"}
        \/ pc[p] = "seeding" /\ cmd' = cmd
    BY <1>1, <2>1
       DEF Ways, Leave, Released, CreateRun, FirstCheckpoint, Raises
  <2> QED
    BY <1>1, <2>1, <2>2, <2>3, <2>4 DEF Unheard
<1> QED
  BY <1>2, <1>3, <1>4, <1>5 DEF Issue

\* No answer asks for a round that is not left.
LEMMA RoundsStep ==
  ASSUME IndInv, NEW p \in Procs,
         Issue(p) \/ Acquire(p) \/ LockRefused(p) \/ GraphStep(p) \/ Crash(p)
  PROVE  RoundsOK'
<1> DEFINE Allowed(q, id) == Unheard = {q} /\ cmd[q].to = id
                             /\ cmd[q].answer.say \in {"changes", "cancel"}
<1>1. /\ TypeOK /\ TypeOK' /\ SessionsOK /\ PlaceOK /\ PlaceOK' /\ RoundsOK
      /\ ReviewsOK
  BY TypeStep, PlaceStep DEF IndInv
<1>2. /\ MaxRounds \in Nat \ {0} /\ MaxReviews \in Nat \ {0}
      /\ NoProc \notin Procs
  BY IntakeAssumption
<1>3. /\ Unheard \subseteq Procs /\ Unheard' \subseteq Procs
  BY DEF Unheard
<1>4. \A q \in Procs : cmd'[q].name = "respond" =>
        cmd'[q] = cmd[q] \/ (q = p /\ Respond(p))
  BY Outside, CommandsStay
<1>5. pending \in Interactions => pending.round \in 1 .. MaxRounds
  BY DEF Interactions, Rounds
<1>6. ASSUME Respond(p), node = "clarification_gate"
       PROVE  \/ pending.round + Cardinality(Unheard') <= MaxRounds
              \/ /\ \A q \in Procs : pc[q] = "idle"
                 /\ Allowed(p, pending)'
  <2>1. PICK a \in AnswersAt(pending) :
          /\ cmd' = [cmd EXCEPT ![p] = [name |-> "respond", to |-> pending,
                                        answer |-> a]]
          /\ pending' = pending
    BY <1>6 DEF Respond, Ready, checkpoint
  <2>2. cmd'[p] = [name |-> "respond", to |-> pending, answer |-> a]
    BY <1>1, <2>1 DEF TypeOK
  <2>3. Unheard' = Unheard \cup {p} /\ p \notin Unheard
    BY <1>6, AnswersUnderWay
  <2>4. Unheard \subseteq {q \in Procs : pc[q] # "idle"}
    BY DEF Unheard
  <2>5. /\ Busy \in Nat /\ Cardinality(Unheard) <= Busy
        /\ Cardinality(Unheard) \in Nat
        /\ Busy = 0 => {q \in Procs : pc[q] # "idle"} = {}
    <3>1. {q \in Procs : pc[q] # "idle"} \subseteq Procs
      OBVIOUS
    <3>2. {} \subseteq Procs
      OBVIOUS
    <3> QED
      BY <2>4, <3>1, Counting DEF Busy
  <2>6. Cardinality(Unheard') = Cardinality(Unheard) + 1
    BY <1>3, <2>3, IntakeAssumption, FS_Subset, FS_AddElement
  <2>7. pending.gate = "clarification_gate" /\ pending.round \in 1 .. MaxRounds
    BY <1>1, <1>5, <1>6 DEF PlaceOK
  <2>8. \/ pending.round + Busy < MaxRounds
        \/ Busy = 0 /\ a.say \in {"changes", "cancel"}
    BY <2>7 DEF AnswersAt, Say
  <2>9. CASE Busy = 0 /\ a.say \in {"changes", "cancel"}
    <3>1. {q \in Procs : pc[q] # "idle"} = {} /\ Unheard = {}
      BY <2>4, <2>5, <2>9
    <3>2. Unheard' = {p} /\ \A q \in Procs : pc[q] = "idle"
      BY <2>3, <3>1
    <3> QED
      BY <2>1, <2>2, <2>9, <3>2
  <2>10. CASE pending.round + Busy < MaxRounds
    BY <1>2, <2>5, <2>6, <2>7, <2>10
  <2> QED
    BY <2>8, <2>9, <2>10
<1>7. ASSUME UNCHANGED <<node, pending>>, node = "clarification_gate"
      PROVE  \/ pending.round + Cardinality(Unheard') <= MaxRounds
             \/ \E q \in Procs : Allowed(q, pending)'
  <2>1. /\ \/ pending.round + Cardinality(Unheard) <= MaxRounds
           \/ \E q \in Procs : Allowed(q, pending)
        /\ pending.round \in 1 .. MaxRounds
    BY <1>1, <1>5, <1>7 DEF RoundsOK, PlaceOK
  <2>2. CASE Respond(p)
    BY <1>7, <1>6, <2>2
  <2>3. CASE ~Respond(p)
    <3>1. /\ Unheard' \subseteq Unheard
          /\ Cardinality(Unheard') <= Cardinality(Unheard)
          /\ Cardinality(Unheard') \in Nat /\ Cardinality(Unheard) \in Nat
          /\ Unheard' = {} => Cardinality(Unheard') = 0
      BY <1>3, <2>3, AnswersUnderWay, Counting
    <3>2. CASE pending.round + Cardinality(Unheard) <= MaxRounds
      BY <1>2, <2>1, <3>1, <3>2
    <3>3. CASE \E q \in Procs : Allowed(q, pending)
      <4>1. PICK q \in Procs : Allowed(q, pending)
        BY <3>3
      <4>2. CASE Unheard' = {q}
        <5>1. cmd'[q].name = "respond"
          BY <4>2 DEF Unheard
        <5>2. cmd'[q] = cmd[q]
          BY <1>4, <2>3, <5>1
        <5> QED
          BY <1>7, <4>1, <4>2, <5>2
      <4>3. CASE Unheard' = {}
        BY <2>1, <3>1, <4>3
      <4> QED
        BY <3>1, <4>1, <4>2, <4>3
    <3> QED
      BY <2>1, <3>2, <3>3
  <2> QED
    BY <2>2, <2>3
<1>8. node' = "clarification_gate" =>
        \/ pending'.round + Cardinality(Unheard') <= MaxRounds
        \/ \E q \in Procs : Allowed(q, pending)'
  <2>1. CASE UNCHANGED <<node, pending>>
    BY <1>7, <2>1
  <2>2. CASE ParseDone(p) /\ node' = "clarification_gate"
    <3>1. /\ node = "parse_requirement" /\ UNCHANGED cmd
          /\ pending' = ClarificationOf(local.draft, 1)
      BY <2>2 DEF ParseDone, At, Checkpointed
    <3>2. Unheard' = {}
      BY <1>1, <3>1 DEF PlaceOK, Unheard
    <3>3. pending'.round = 1
      BY <3>1 DEF ClarificationOf
    <3> QED
      BY <1>2, <1>3, <3>2, <3>3, Counting
  <2>3. CASE ClarifyDone(p) /\ node' = "clarification_gate"
    <3>1. /\ node = "clarification_gate" /\ local.then = "repeat" /\ step = 2
          /\ pending' = ClarificationOf(local.draft, pending.round + 1)
          /\ heard' = NoAnswer /\ pc[p] = "running" /\ lock = p
      BY <2>3 DEF ClarifyDone, At, Checkpointed
    <3>2. /\ pending.round + Cardinality(Unheard) <= MaxRounds
          /\ pending.round \in 1 .. MaxRounds
      BY <1>1, <1>5, <3>1 DEF RoundsOK, PlaceOK
    <3>3. heard # NoAnswer /\ cmd[p].name = "respond"
      <4>1. heard # NoAnswer /\ heard = cmd[p].answer /\ cmd[p] \in Commands
        BY <1>1, <3>1 DEF PlaceOK, SessionsOK, TypeOK, Gates
      <4> QED
        BY <4>1, CommandTypes
    <3>4. p \in Unheard \ Unheard'
      <4>1. GraphStep(p)
        BY <2>3 DEF GraphStep
      <4> QED
        BY <3>1, <3>3, <4>1, AnswersUnderWay DEF Unheard
    <3>5. ~Respond(p)
      BY <3>1 DEF Respond
    <3>6. Cardinality(Unheard') + 1 <= Cardinality(Unheard)
          /\ Cardinality(Unheard') \in Nat /\ Cardinality(Unheard) \in Nat
      BY <1>3, <3>4, <3>5, AnswersUnderWay, Counting
    <3>7. pending'.round = pending.round + 1
      BY <3>1 DEF ClarificationOf
    <3> QED
      BY <1>2, <3>2, <3>6, <3>7
  <2>4. node' = "clarification_gate" =>
          \/ UNCHANGED <<node, pending>> \/ ParseDone(p) \/ ClarifyDone(p)
    BY Outside, WhereNext DEF Arrivals
  <2> QED
    BY <2>1, <2>2, <2>3, <2>4
<1>9. ASSUME node' = "clarification_gate", step' > 0, local'.then = "repeat"
      PROVE  pending'.round + Cardinality(Unheard') <= MaxRounds
  <2>1. ASSUME UNCHANGED <<node, pending>>, ~Respond(p),
               pending.round + Cardinality(Unheard) <= MaxRounds
        PROVE  pending'.round + Cardinality(Unheard') <= MaxRounds
    <3>1. Cardinality(Unheard') <= Cardinality(Unheard)
          /\ Cardinality(Unheard') \in Nat /\ Cardinality(Unheard) \in Nat
      BY <1>3, <2>1, AnswersUnderWay, Counting
    <3>2. pending.round \in 1 .. MaxRounds
      BY <1>1, <1>5, <1>9, <2>1 DEF PlaceOK
    <3> QED
      BY <1>2, <2>1, <3>1, <3>2
  <2>2. CASE GraphStep(p)
    <3>1. \/ UNCHANGED step /\ (CreateRun(p) \/ FirstCheckpoint(p))
          \/ step = 0 /\ ClarifyHears(p)
          \/ step = 1 /\ ClarifyMarkRun(p)
      BY <1>9, <2>2, StepByStep DEF Steps
    <3>2. ~CreateRun(p) /\ ~FirstCheckpoint(p)
      <4>1. pc[p] \in {"creating", "seeding"} => step = 0
        BY <1>1, <1>2 DEF SessionsOK, TypeOK
      <4> QED
        BY <1>9, <4>1 DEF CreateRun, FirstCheckpoint, Raises, Released
    <3>3. lock = p /\ pc[p] = "running" /\ node = "clarification_gate"
      BY <3>1, <3>2 DEF ClarifyHears, ClarifyMarkRun, At
    <3>4. ~Respond(p)
      BY <3>3 DEF Respond
    <3>5. CASE ClarifyMarkRun(p) /\ step = 1
      <4>1. UNCHANGED <<node, pending, local>>
        BY <1>9, <3>5
           DEF ClarifyMarkRun, UpdateRun, Raises, Released, Written, checkpoint
      <4> QED
        BY <1>1, <1>9, <2>1, <3>3, <3>4, <3>5, <4>1 DEF RoundsOK
    <3>6. CASE ClarifyHears(p)
      <4>1. UNCHANGED <<node, pending>> /\ heard # NoAnswer
        BY <3>6
           DEF ClarifyHears, AppendEvent, Raises, Released, Written, checkpoint
      <4>2. heard = cmd[p].answer /\ cmd[p] \in Commands
        BY <1>1, <3>3, <4>1 DEF SessionsOK, TypeOK
      <4>3. p \in Unheard
        BY <3>3, <4>1, <4>2, CommandTypes DEF Unheard
      <4>4. ~Raises(p)
        BY <1>9 DEF Raises, Released
      <4>5. ~ (cmd[p].to = pending /\ heard.say \in {"changes", "cancel"})
        BY <1>9, <3>6, <4>4 DEF ClarifyHears, Fits, Result
      <4>6. ~ \E q \in Procs : Allowed(q, pending)
        BY <4>2, <4>3, <4>5
      <4> QED
        BY <1>1, <2>1, <3>3, <3>4, <4>1, <4>6 DEF RoundsOK
    <3> QED
      BY <3>1, <3>2, <3>5, <3>6
  <2>3. CASE ~GraphStep(p)
    <3>1. /\ UNCHANGED <<node, pending, step, local>>
          /\ lock \in Procs /\ step > 0
      BY <1>9, <2>3, Outside
    <3>2. pc[lock] = "running"
      BY <3>1, UnderWay
    <3>3. pending.round + Cardinality(Unheard) <= MaxRounds
      BY <1>1, <1>9, <3>1 DEF RoundsOK
    <3>4. CASE Respond(p)
      BY <1>9, <1>6, <3>1, <3>2, <3>4
    <3> QED
      BY <2>1, <3>1, <3>3, <3>4
  <2> QED
    BY <2>2, <2>3
<1>10. ASSUME NEW q \in Procs, cmd'[q].name = "respond",
             cmd'[q].answer.say = "revise"
      PROVE  /\ cmd'[q].to.gate = "requirement_review_gate"
             /\ cmd'[q].to.round < MaxReviews
  <2>1. CASE Respond(q)
    <3>1. PICK a \in AnswersAt(pending) :
            cmd' = [cmd EXCEPT ![q] = [name |-> "respond", to |-> pending,
                                       answer |-> a]]
      BY <2>1 DEF Respond, Ready
    <3>2. cmd'[q] = [name |-> "respond", to |-> pending, answer |-> a]
      BY <1>1, <3>1 DEF TypeOK
    <3>3. pending.gate \in Gates
      BY <1>1, <2>1 DEF Respond, PlaceOK, Gates, ReviewOf
    <3> QED
      BY <1>10, <3>2, <3>3 DEF AnswersAt, Say, Gates
  <2>2. CASE ~Respond(q)
    <3>1. cmd'[q] = cmd[q]
      BY <1>4, <1>10, <2>2
    <3> QED
      BY <1>1, <1>10, <3>1 DEF RoundsOK
  <2> QED
    BY <2>1, <2>2
<1>11. node' = "prepare_requirement_review" => reviewRound' < MaxReviews
  <2>1. CASE GraphStep(p)
    <3>1. Arrivals(p) /\ Writers(p)
      BY <2>1, WhereNext, WhoWrites
    <3>2. CASE node = "prepare_requirement_review"
      BY <1>1, <3>1, <3>2 DEF Arrivals, RoundsOK, ReviewPrepared
    <3>3. CASE ParseDone(p) \/ ClarifyDone(p)
      <4>1. /\ node \in {"parse_requirement", "clarification_gate"}
            /\ UNCHANGED reviewRound
        BY <3>3 DEF ParseDone, ClarifyDone, At
      <4> QED
        BY <1>1, <1>2, <4>1 DEF ReviewsOK
    <3>4. CASE ReviewDone(p) /\ node' = "prepare_requirement_review"
      <4>1. /\ node = "requirement_review_gate" /\ step = 1 /\ lock = p
            /\ heard.say = "revise" /\ UNCHANGED reviewRound
        BY <3>4 DEF ReviewDone, At
      <4>2. /\ heard = cmd[p].answer /\ cmd[p] \in Commands
            /\ cmd[p].to = ReviewOf(draft, reviewRound)
        BY <1>1, <4>1 DEF PlaceOK, SessionsOK, TypeOK, Gates
      <4>3. cmd[p].name = "respond"
        BY <4>1, <4>2, CommandTypes DEF NoAnswer
      <4> QED
        BY <1>1, <4>1, <4>2, <4>3 DEF RoundsOK, ReviewOf
    <3> QED
      BY <3>1, <3>2, <3>3, <3>4 DEF Arrivals
  <2>2. CASE ~GraphStep(p)
    BY <1>1, <2>2, Outside DEF RoundsOK
  <2> QED
    BY <2>1, <2>2
<1> QED
  BY <1>8, <1>9, <1>10, <1>11 DEF RoundsOK

\* The checkpoint moves at the end of a node, and no approval then.
LEMMA Moving ==
  ASSUME IndInv, NEW p \in Procs, GraphStep(p)
  PROVE  \/ /\ UNCHANGED <<node, draft, reviewRound>>
            /\ node \in Gates => UNCHANGED pending
         \/ /\ UNCHANGED approval
            /\ \/ FirstCheckpoint(p) \/ ParseDone(p) \/ ClarifyDone(p)
               \/ ReviewPrepared(p) \/ ReviewDone(p) \/ CancelDone(p)
               \/ FreezeDone(p) \/ DirectDone(p) \/ PlanDone(p)
<1> DEFINE Moves ==
      \/ FirstCheckpoint(p) \/ ParseDone(p) \/ ClarifyDone(p)
      \/ ReviewPrepared(p) \/ ReviewDone(p) \/ CancelDone(p)
      \/ FreezeDone(p) \/ DirectDone(p) \/ PlanDone(p)
<1>1. Writers(p) /\ Arrivals(p) /\ node \in Nodes
  BY WhoWrites, WhereNext DEF IndInv, TypeOK
<1>2. Moves => UNCHANGED approval
  BY DEF FirstCheckpoint, ParseDone, ClarifyDone, ReviewPrepared, ReviewDone,
         CancelDone, FreezeDone, DirectDone, PlanDone, Checkpointed, tables
<1>3. UNCHANGED <<draft, reviewRound>> \/ Moves
  BY <1>1 DEF Writers
<1>4. UNCHANGED node \/ Moves
  BY <1>1 DEF Arrivals, Nodes, Gates
<1>5. node \in Gates /\ UNCHANGED node => UNCHANGED pending \/ Moves
  BY <1>1 DEF Arrivals, Gates
<1> QED
  BY <1>2, <1>3, <1>4, <1>5

\* The reviews form one line: a review is opened after the one before it was
\* answered by a revision, with the draft of that revision.
LEMMA ReviewsStep ==
  ASSUME IndInv, NEW p \in Procs,
         Issue(p) \/ Acquire(p) \/ LockRefused(p) \/ GraphStep(p) \/ Crash(p)
  PROVE  ReviewsOK'
<1>1. /\ TypeOK /\ TypeOK' /\ SessionsOK /\ PlaceOK /\ PlaceOK' /\ ReviewsOK
  BY TypeStep, PlaceStep DEF IndInv
<1>2. /\ \A id \in Interactions : id.round \in 1 .. MaxRounds
      /\ reviewRound \in Nat /\ MaxRounds \in Nat
  BY <1>1, IntakeAssumption DEF Interactions, Rounds, TypeOK
<1>3. CASE Issue(p) \/ Acquire(p) \/ LockRefused(p) \/ Crash(p)
  <2>1. /\ UNCHANGED <<mode, node, pending, draft, reviewRound, approval>>
        /\ step' > 0 => UNCHANGED step
    BY <1>3, Outside
  <2> QED
    BY <1>1, <2>1
       DEF ReviewsOK, OneReviewLine, Opened, Approved, NextReview, ReviewOf
<1>4. CASE GraphStep(p)
  <2>1. UNCHANGED mode /\ Writers(p) /\ Steps(p)
    BY <1>4, WaysThrough, WhoWrites, StepByStep DEF Ways
  <2>2. CASE ReviewEnsure(p)
    <3>1. /\ UNCHANGED <<node, draft, reviewRound, pending>>
          /\ node = "prepare_requirement_review"
          /\ \/ Opened(NextReview) /\ approval' = approval
             \/ /\ ~Opened(NextReview)
                /\ approval' = [approval EXCEPT ![NextReview] =
                                  Row("PENDING", NoAnswer)]
      BY <2>2 DEF ReviewEnsure, At, Written, checkpoint, Opened
    <3>2. /\ NextReview' = NextReview
          /\ NextReview \in Interactions
          /\ NextReview.round = reviewRound + 1
          /\ NextReview.draft = draft
          /\ NextReview.gate = "requirement_review_gate"
      <4>1. draft \in Drafts /\ reviewRound + 1 \in Rounds
        BY <1>1, <3>1, IntakeAssumption
           DEF PlaceOK, RoundsOK, Rounds, IndInv, TypeOK
      <4> QED
        BY <3>1, <4>1 DEF NextReview, ReviewOf, Interactions, Gates
    <3>3. CASE Opened(NextReview) /\ approval' = approval
      BY <1>1, <2>1, <3>1, <3>2, <3>3
         DEF ReviewsOK, OneReviewLine, Opened, Approved
    <3>4. CASE /\ ~Opened(NextReview)
               /\ approval' = [approval EXCEPT ![NextReview] =
                                 Row("PENDING", NoAnswer)]
      <4>1. /\ approval'[NextReview] = Row("PENDING", NoAnswer)
            /\ \A id \in Interactions \ {NextReview} :
                 approval'[id] = approval[id]
        BY <1>1, <3>2, <3>4 DEF TypeOK
      <4>2. \A id \in Interactions : Opened(id) =>
              /\ id.round <= reviewRound
              /\ approval[id].status = "REVISED"
              /\ id.round = reviewRound => approval[id].decision.draft = draft
        BY <1>1, <1>2, <3>1, <3>4 DEF ReviewsOK
      <4>3. \A id \in Interactions :
              Opened(id)' <=> id = NextReview \/ Opened(id)
        BY <4>1 DEF Opened, Row
      <4>4. OneReviewLine'
        BY <1>1, <1>2, <3>1, <3>2, <4>1, <4>2, <4>3
           DEF OneReviewLine, Opened, ReviewsOK
      <4>5. \A id \in Interactions : id \notin Approved'
        BY <4>1, <4>2, <4>3 DEF Approved, Opened, Row
      <4> QED
        BY <1>1, <1>2, <2>1, <3>1, <3>2, <4>1, <4>2, <4>3, <4>4, <4>5
           DEF ReviewsOK, Approved, Row
    <3> QED
      BY <3>1, <3>3, <3>4
  <2>3. CASE ReviewDecide(p)
    <3>1. /\ UNCHANGED <<node, draft, reviewRound, pending>>
          /\ node = "requirement_review_gate"
          /\ \/ approval' = approval
             \/ approval' = [approval EXCEPT ![pending] =
                               Row(Verdict(heard.say), heard)]
      BY <2>3 DEF ReviewDecide, At, Written, Raises, checkpoint, tables
    <3>2. /\ pending \in Interactions /\ pending.round = reviewRound
          /\ Opened(pending)
      BY <1>1, <3>1 DEF PlaceOK, ReviewsOK, ReviewOf
    <3>3. CASE approval' = approval
      BY <1>1, <2>1, <3>1, <3>3 DEF ReviewsOK, OneReviewLine, Opened, Approved
    <3>4. CASE approval' = [approval EXCEPT ![pending] =
                              Row(Verdict(heard.say), heard)]
      <4>1. /\ approval'[pending] = Row(Verdict(heard.say), heard)
            /\ \A id \in Interactions \ {pending} : approval'[id] = approval[id]
        BY <1>1, <3>2, <3>4 DEF TypeOK
      <4>2. \A id \in Interactions : Opened(id)' <=> Opened(id)
        BY <3>2, <4>1, RunTypes DEF Opened, Row
      <4>3. \A id \in Interactions : Opened(id) => id.round <= reviewRound
        BY <1>1, <3>1 DEF ReviewsOK
      <4>4. OneReviewLine'
        <5>1. ASSUME NEW a \in Interactions, NEW b \in Interactions,
                     Opened(a)', Opened(b)'
              PROVE  /\ a.round = b.round => a = b
                     /\ b.round = a.round + 1 =>
                          /\ approval'[a].status = "REVISED"
                          /\ approval'[a].decision.draft = b.draft
          <6>1. Opened(a) /\ Opened(b)
            BY <4>2, <5>1
          <6>2. /\ a.round = b.round => a = b
                /\ b.round = a.round + 1 =>
                     /\ approval[a].status = "REVISED"
                     /\ approval[a].decision.draft = b.draft
            BY <1>1, <6>1 DEF ReviewsOK, OneReviewLine, Opened
          <6>3. b.round = a.round + 1 => a # pending
            BY <1>2, <3>2, <4>3, <6>1
          <6> QED
            BY <4>1, <6>2, <6>3
        <5> QED
          BY <5>1 DEF OneReviewLine, Opened
      <4>5. \A id \in Interactions : id.round < reviewRound => id # pending
        BY <1>2, <3>2
      <4> QED
        BY <1>1, <1>2, <2>1, <3>1, <3>2, <4>1, <4>2, <4>3, <4>4, <4>5
           DEF ReviewsOK, Approved
    <3> QED
      BY <3>1, <3>3, <3>4
  <2>4. CASE UNCHANGED approval
    <3>1. /\ \A id \in Interactions : Opened(id)' <=> Opened(id)
          /\ OneReviewLine' /\ Approved' = Approved
      BY <1>1, <2>4 DEF ReviewsOK, OneReviewLine, Opened, Approved
    <3>2. CASE /\ UNCHANGED <<node, draft, reviewRound>>
               /\ node \in Gates => UNCHANGED pending
      <4>1. NextReview' = NextReview
        BY <3>2 DEF NextReview, ReviewOf
      <4>2. node = "prepare_requirement_review" /\ step' > 0 =>
              Opened(NextReview) \/ ReviewEnsure(p)
        BY <1>1, <2>1
           DEF Steps, ReviewsOK, CreateRun, FirstCheckpoint, Raises, Released
      <4>3. CASE ~ReviewEnsure(p)
        <5>1. node = "prepare_requirement_review" /\ step' > 0 =>
                NextReview \in Interactions /\ Opened(NextReview)
          BY <1>1, <2>2, <4>2, <4>3, IntakeAssumption
             DEF NextReview, ReviewOf, Interactions, Gates, Rounds, PlaceOK,
                 RoundsOK, IndInv, TypeOK
        <5> QED
          BY <1>1, <1>2, <2>1, <2>4, <3>1, <3>2, <4>1, <5>1
             DEF ReviewsOK, Gates, PlaceOK
      <4> QED
        BY <2>2, <4>3
    <3>3. CASE FirstCheckpoint(p)
      <4>1. node = "none" /\ UNCHANGED <<draft, reviewRound, step>>
            /\ node' \in {"initialize_direct_run", "parse_requirement"}
        BY <1>1, <3>3, WaysThrough, <1>4
           DEF FirstCheckpoint, SessionsOK, Ways
      <4> QED
        BY <1>1, <1>2, <2>1, <2>4, <3>1, <4>1 DEF ReviewsOK
    <3>4. CASE ParseDone(p) \/ ClarifyDone(p)
      <4>1. /\ node \in {"parse_requirement", "clarification_gate"}
            /\ UNCHANGED reviewRound /\ step' = 0
            /\ node' \in {"clarification_gate", "prepare_requirement_review",
                          "cancel_run"}
        BY <3>4 DEF ParseDone, ClarifyDone, At, Checkpointed
      <4>2. \A id \in Interactions : ~Opened(id)
        BY <1>1, <1>2, <4>1 DEF ReviewsOK
      <4>3. Approved = {}
        BY <4>2 DEF Approved, Opened
      <4> QED
        BY <1>1, <1>2, <2>1, <2>4, <3>1, <4>1, <4>2, <4>3 DEF ReviewsOK
    <3>5. CASE ReviewPrepared(p)
      <4>1. /\ node = "prepare_requirement_review" /\ step = 2
            /\ reviewRound' = reviewRound + 1 /\ pending' = NextReview
            /\ node' = "requirement_review_gate"
        BY <3>5 DEF ReviewPrepared, At
      <4>2. /\ Opened(NextReview) /\ NextReview.round = reviewRound + 1
            /\ pending' \in Interactions
            /\ mode # "direct" /\ Approved = {}
        BY <1>1, <4>1 DEF ReviewsOK, PlaceOK, NextReview, ReviewOf
      <4>3. \A id \in Interactions : Opened(id) =>
              /\ id.round <= reviewRound + 1
              /\ id.round < reviewRound + 1 => approval[id].status = "REVISED"
              /\ id.gate = "requirement_review_gate"
        <5>1. ASSUME NEW id \in Interactions, Opened(id)
              PROVE  /\ id.round <= reviewRound + 1
                     /\ id.round < reviewRound + 1 =>
                          approval[id].status = "REVISED"
                     /\ id.gate = "requirement_review_gate"
          <6>1. /\ id.round <= reviewRound \/ id = NextReview
                /\ id.round < reviewRound => approval[id].status = "REVISED"
                /\ id.round = reviewRound => approval[id].status = "REVISED"
                /\ id.gate = "requirement_review_gate"
            BY <1>1, <4>1, <5>1 DEF ReviewsOK
          <6> QED
            BY <1>2, <4>2, <6>1
        <5> QED
          BY <5>1
      <4> QED
        BY <1>1, <1>2, <2>1, <2>4, <3>1, <4>1, <4>2, <4>3 DEF ReviewsOK
    <3>6. CASE ReviewDone(p)
      <4>1. /\ node = "requirement_review_gate" /\ step = 1
            /\ UNCHANGED reviewRound /\ step' = 0
            /\ \/ heard.say = "approve" /\ node' = "freeze_requirement"
                  /\ UNCHANGED draft
               \/ heard.say = "revise" /\ draft' = heard.draft
                  /\ node' = "prepare_requirement_review"
               \/ heard.say = "cancel" /\ node' = "cancel_run"
                  /\ UNCHANGED draft
        BY <3>6 DEF ReviewDone, At, Checkpointed
      <4>2. /\ pending \in Interactions /\ pending.round = reviewRound
            /\ Opened(pending) /\ mode # "direct"
            /\ approval[pending] = Row(Verdict(heard.say), heard)
        BY <1>1, <4>1 DEF PlaceOK, ReviewsOK, ReviewOf
      <4>3. \A id \in Interactions : Opened(id) =>
              /\ id.round <= reviewRound
              /\ id.round = reviewRound => id = pending
              /\ id.round < reviewRound => approval[id].status = "REVISED"
              /\ id.gate = "requirement_review_gate"
        BY <1>1, <4>1, <4>2 DEF ReviewsOK, OneReviewLine, Opened
      <4>4. heard.say # "approve" => Approved = {}
        <5>1. heard.say # "approve" => approval[pending].status # "APPROVED"
          BY <4>2 DEF Row, Verdict
        <5> QED
          BY <1>2, <4>3, <5>1 DEF Approved, Opened
      <4>5. heard.say = "revise" => /\ approval[pending].status = "REVISED"
                                    /\ approval[pending].decision = heard
        BY <4>2 DEF Row, Verdict
      <4> QED
        BY <1>1, <1>2, <2>1, <2>4, <3>1, <4>1, <4>2, <4>3, <4>4, <4>5
           DEF ReviewsOK
    <3>7. CASE CancelDone(p) \/ FreezeDone(p) \/ DirectDone(p) \/ PlanDone(p)
      <4>1. /\ UNCHANGED <<draft, reviewRound>> /\ step' = 0
            /\ \/ node = "cancel_run" /\ node' = "END"
               \/ node \in {"freeze_requirement", "initialize_direct_run"}
                  /\ node' = "build_execution_plan"
               \/ node = "build_execution_plan" /\ node' = "route_next_stage"
        BY <3>7
           DEF CancelDone, FreezeDone, DirectDone, PlanDone, At, Checkpointed
      <4> QED
        BY <1>1, <1>2, <2>1, <2>4, <3>1, <4>1 DEF ReviewsOK, PlaceOK
    <3> QED
      BY <1>4, <3>2, <3>3, <3>4, <3>5, <3>6, <3>7, Moving
  <2> QED
    BY <2>1, <2>2, <2>3, <2>4 DEF Writers
<1> QED
  BY <1>3, <1>4

\* What is frozen is the draft under review, and nothing is frozen before.
LEMMA FrozenStep ==
  ASSUME IndInv, NEW p \in Procs,
         Issue(p) \/ Acquire(p) \/ LockRefused(p) \/ GraphStep(p) \/ Crash(p)
  PROVE  FrozenOK'
<1>1. /\ TypeOK /\ TypeOK' /\ PlaceOK /\ PlaceOK' /\ ReviewsOK /\ FrozenOK
      /\ Modes \subseteq {"request", "direct"} /\ NoDraft \notin Drafts
      /\ step \in 0 .. 3 /\ step' \in 0 .. 3
  BY TypeStep, PlaceStep, IntakeAssumption DEF IndInv, TypeOK
<1>2. CASE Issue(p) \/ Acquire(p) \/ LockRefused(p) \/ Crash(p)
  <2>1. /\ UNCHANGED <<mode, node, draft, reviewRound, approval, requirement,
                       frozenFile>>
        /\ step' > 0 => UNCHANGED step
    BY <1>2, Outside
  <2> QED
    BY <1>1, <2>1 DEF FrozenOK, Approved, ReviewOf
<1>3. CASE GraphStep(p)
  <2>1. UNCHANGED mode /\ Writers(p) /\ Steps(p)
    BY <1>3, WaysThrough, WhoWrites, StepByStep DEF Ways
  <2>2. CASE ReviewEnsure(p) \/ ReviewDecide(p)
    BY <1>1, <2>1, <2>2
       DEF FrozenOK, ReviewEnsure, ReviewDecide, At, Written, Raises, Released,
           checkpoint, tables
  <2>3. CASE FreezeWrite(p)
    <3>1. /\ node = "freeze_requirement" /\ step = 0
          /\ UNCHANGED <<node, draft, reviewRound, approval, requirement>>
          /\ \/ frozenFile' = draft /\ step' = 1
             \/ frozenFile' = frozenFile /\ step' = 0
      BY <2>3
         DEF FreezeWrite, At, Written, Raises, Released, checkpoint, tables
    <3> QED
      BY <1>1, <2>1, <3>1 DEF FrozenOK, Approved, ReviewOf
  <2>4. CASE FreezeRecord(p) \/ DirectRecord(p)
    <3>1. /\ \/ node = "freeze_requirement" /\ step = 1
             \/ node = "initialize_direct_run" /\ step = 0
          /\ UNCHANGED <<node, draft, reviewRound, approval, frozenFile>>
          /\ \/ requirement' = draft /\ step' = step + 1
             \/ requirement' = requirement /\ step' = 0
      BY <2>4
         DEF FreezeRecord, DirectRecord, RecordRequirement, At, Written, Raises,
             Released, checkpoint, tables
    <3> QED
      BY <1>1, <2>1, <3>1 DEF FrozenOK, Approved, ReviewOf, PlaceOK
  <2>5. CASE UNCHANGED <<approval, requirement, frozenFile>> /\ ~FreezeWrite(p)
             /\ ~FreezeRecord(p) /\ ~DirectRecord(p)
    <3>1. Approved' = Approved
      BY <2>5 DEF Approved
    <3>2. CASE UNCHANGED <<node, draft, reviewRound>>
      <4>1. /\ node = "freeze_requirement" /\ step' > 0 => step' = 3 /\ step = 2
            /\ node = "initialize_direct_run" /\ step' > 0 => step = 1
        BY <1>1, <2>1, <2>5, <1>3, WaysThrough
           DEF Steps, CreateRun, FirstCheckpoint, Raises, Released, IndInv,
               SessionsOK, PlaceOK, Ways
      <4>2. ReviewOf(draft, reviewRound)' = ReviewOf(draft, reviewRound)
        BY <3>2 DEF ReviewOf
      <4> QED
        BY <1>1, <2>1, <2>5, <3>1, <3>2, <4>1, <4>2 DEF FrozenOK
    <3>3. CASE FirstCheckpoint(p)
      <4>1. node = "none" /\ UNCHANGED <<draft, reviewRound, step>> /\ step = 0
            /\ node' \in {"initialize_direct_run", "parse_requirement"}
        BY <1>3, <3>3, WaysThrough
           DEF FirstCheckpoint, IndInv, SessionsOK, Ways
      <4> QED
        BY <1>1, <2>1, <2>5, <4>1 DEF FrozenOK
    <3>4. CASE ParseDone(p) \/ ClarifyDone(p) \/ ReviewPrepared(p)
               \/ CancelDone(p)
      <4>1. /\ node \in {"parse_requirement", "clarification_gate",
                         "prepare_requirement_review", "cancel_run"}
            /\ node' \in {"clarification_gate", "prepare_requirement_review",
                          "cancel_run", "requirement_review_gate", "END"}
        BY <3>4 DEF ParseDone, ClarifyDone, ReviewPrepared, CancelDone, At
      <4> QED
        BY <1>1, <2>1, <2>5, <4>1 DEF FrozenOK
    <3>5. CASE ReviewDone(p)
      <4>1. /\ node = "requirement_review_gate" /\ step = 1
            /\ UNCHANGED reviewRound /\ step' = 0
            /\ \/ heard.say = "approve" /\ node' = "freeze_requirement"
                  /\ UNCHANGED draft
               \/ node' \in {"prepare_requirement_review", "cancel_run"}
        BY <3>5 DEF ReviewDone, At, Checkpointed
      <4>2. /\ pending \in Interactions
            /\ pending = ReviewOf(draft, reviewRound) /\ mode = "request"
            /\ approval[pending] = Row(Verdict(heard.say), heard)
        BY <1>1, <4>1 DEF PlaceOK, TypeOK
      <4>3. heard.say = "approve" => ReviewOf(draft, reviewRound) \in Approved
        BY <4>2 DEF Row, Verdict, Approved
      <4>4. frozenFile = NoDraft /\ requirement = NoDraft
        BY <1>1, <4>1 DEF FrozenOK
      <4>5. CASE heard.say = "approve" /\ node' = "freeze_requirement"
                 /\ UNCHANGED draft
        <5>1. ReviewOf(draft, reviewRound)' \in Approved'
          BY <3>1, <4>1, <4>3, <4>5 DEF ReviewOf
        <5> QED
          BY <1>1, <2>1, <2>5, <4>1, <4>2, <4>4, <4>5, <5>1 DEF FrozenOK
      <4>6. CASE node' \in {"prepare_requirement_review", "cancel_run"}
        BY <1>1, <2>1, <2>5, <4>1, <4>2, <4>4, <4>6 DEF FrozenOK
      <4> QED
        BY <4>1, <4>5, <4>6
    <3>6. CASE FreezeDone(p) \/ DirectDone(p) \/ PlanDone(p)
      <4>1. /\ UNCHANGED <<draft, reviewRound>> /\ step' = 0
            /\ \/ node = "freeze_requirement" /\ step = 3
                  /\ node' = "build_execution_plan"
               \/ node = "initialize_direct_run" /\ step = 2
                  /\ node' = "build_execution_plan"
               \/ node = "build_execution_plan" /\ node' = "route_next_stage"
        BY <3>6
           DEF FreezeDone, DirectDone, PlanDone, At, Checkpointed
      <4>2. ReviewOf(draft, reviewRound)' = ReviewOf(draft, reviewRound)
        BY <4>1 DEF ReviewOf
      <4> QED
        BY <1>1, <2>1, <2>5, <3>1, <4>1, <4>2 DEF FrozenOK, PlaceOK
    <3> QED
      BY <1>3, <3>2, <3>3, <3>4, <3>5, <3>6, Moving
  <2> QED
    BY <2>1, <2>2, <2>3, <2>4, <2>5 DEF Writers
<1> QED
  BY <1>2, <1>3

\* IndInv holds in every reachable state.
LEMMA Inductive == Spec => []IndInv
<1>1. ASSUME IndInv, [Next]_vars PROVE IndInv'
  <2>1. CASE Next
    <3>1. PICK p \in Procs :
            Issue(p) \/ Acquire(p) \/ LockRefused(p) \/ GraphStep(p) \/ Crash(p)
      BY <2>1 DEF Next
    <3> QED
      BY <1>1, <3>1, TypeStep, SessionsStep, PlaceStep, RoundsStep, ReviewsStep,
         FrozenStep
         DEF IndInv
  <2>2. CASE UNCHANGED vars
    BY <1>1, <2>2
       DEF vars, checkpoint, tables, IndInv, TypeOK, SessionsOK, PlaceOK,
           RoundsOK, Unheard, ReviewsOK, OneReviewLine, Opened, Approved,
           NextReview, ReviewOf, FrozenOK
  <2> QED
    BY <1>1, <2>1, <2>2
<1> QED
  BY <1>1, InitInv, PTL DEF Spec

-----------------------------------------------------------------------------
(* What a reader should know.                                               *)

\* Every variable keeps its shape, whatever the processes do.
THEOREM TypeCorrect == Spec => []TypeOK
<1>1. IndInv => TypeOK
  BY DEF IndInv
<1> QED
  BY <1>1, Inductive, PTL

\* The reviewed drafts form one line: one review a round, each opened by the
\* revision that answered the one before (prepare_requirement_review).
THEOREM OneLineOfReviews == Spec => []OneReviewLine
<1>1. IndInv => OneReviewLine
  BY DEF IndInv, ReviewsOK
<1> QED
  BY <1>1, Inductive, PTL

\* Only one review is ever approved, because the review after it is opened by a
\* revision only.
LEMMA OneApproval ==
  ASSUME IndInv, NEW id \in Approved
  PROVE  Approved = {id} /\ id = ReviewOf(id.draft, reviewRound)
<1>1. \A a \in Approved : /\ a \in Interactions /\ Opened(a)
                          /\ a.round = reviewRound
                          /\ a.gate = "requirement_review_gate"
  <2>1. ASSUME NEW a \in Approved
        PROVE  /\ a \in Interactions /\ Opened(a) /\ a.round = reviewRound
               /\ a.gate = "requirement_review_gate"
    <3>1. a \in Interactions /\ approval[a].status = "APPROVED"
      BY DEF Approved
    <3>2. Opened(a)
      BY <3>1 DEF Opened
    <3>3. node # "prepare_requirement_review"
      BY <2>1 DEF IndInv, ReviewsOK
    <3>4. /\ a.round <= reviewRound /\ ~ (a.round < reviewRound)
          /\ a.gate = "requirement_review_gate"
      BY <3>1, <3>2, <3>3 DEF IndInv, ReviewsOK
    <3>5. a.round \in Nat /\ reviewRound \in Nat
      BY <3>1, IntakeAssumption DEF Interactions, Rounds, IndInv, TypeOK
    <3> QED
      BY <3>1, <3>2, <3>4, <3>5
  <2> QED
    BY <2>1
<1>2. \A a, b \in Approved : a = b
  BY <1>1 DEF IndInv, ReviewsOK, OneReviewLine, Opened
<1>3. id = ReviewOf(id.draft, reviewRound)
  BY <1>1 DEF Interactions, ReviewOf
<1> QED
  BY <1>2, <1>3

\* A frozen Requirement is the very draft of the one review that was approved,
\* and the file, the row and the plan agree on it (freeze_requirement).
THEOREM FrozenAsApproved == Spec => []FrozenIsApproved
<1>1. ASSUME IndInv PROVE FrozenIsApproved
  <2>1. ASSUME mode = "request", frozenFile # NoDraft
        PROVE  \E id \in Interactions :
                 Approved = {id} /\ id.draft = frozenFile
    <3>1. frozenFile = draft /\ ReviewOf(draft, reviewRound) \in Approved
      BY <1>1, <2>1 DEF IndInv, PlaceOK, FrozenOK
    <3>2. Approved = {ReviewOf(draft, reviewRound)}
      BY <1>1, <3>1, OneApproval
    <3> QED
      BY <3>1, <3>2 DEF Approved, ReviewOf
  <2>2. requirement # NoDraft /\ mode = "request" => frozenFile = requirement
    BY <1>1 DEF IndInv, FrozenOK
  <2>3. node = "route_next_stage" => requirement = draft
    BY <1>1 DEF IndInv, FrozenOK
  <2> QED
    BY <2>1, <2>2, <2>3 DEF FrozenIsApproved
<1> QED
  BY <1>1, Inductive, PTL

\* A Run its user cancelled never gets a Requirement (clarification_gate,
\* cancel_run).
THEOREM CancelledFreezesNothing == Spec => []CancelledStaysUnfrozen
<1>1. ASSUME IndInv PROVE CancelledStaysUnfrozen
  <2>1. ASSUME run = "CANCELLED" PROVE requirement = NoDraft /\ Approved = {}
    <3>1. node \in {"clarification_gate", "cancel_run", "END"}
      BY <1>1, <2>1 DEF IndInv, PlaceOK
    <3>2. Approved = {}
      BY <1>1, <3>1 DEF IndInv, ReviewsOK
    <3> QED
      BY <1>1, <3>1, <3>2 DEF IndInv, FrozenOK
  <2> QED
    BY <2>1 DEF CancelledStaysUnfrozen
<1> QED
  BY <1>1, Inductive, PTL

\* An approval is decided only by a command that was given for that very
\* interaction, although the command read it before it held the lock (respond,
\* _validate_interaction_response).
THEOREM DecisionsAnswerTheirQuestion == Spec => DecisionMeetsItsQuestion
<1> DEFINE Meets(id) ==
      approval'[id].decision # approval[id].decision =>
        \E p \in Procs : lock = p /\ cmd[p].to = id
                         /\ cmd[p].answer = approval'[id].decision
<1>1. ASSUME IndInv, [Next]_vars, NEW id \in Interactions PROVE Meets(id)
  <2>1. CASE UNCHANGED approval
    BY <2>1
  <2>2. CASE ~UNCHANGED approval
    <3>1. PICK p \in Procs :
            Issue(p) \/ Acquire(p) \/ LockRefused(p) \/ GraphStep(p) \/ Crash(p)
      BY <1>1, <2>2 DEF Next, vars, tables
    <3>2. ReviewEnsure(p) \/ ReviewDecide(p)
      BY <1>1, <2>2, <3>1, Outside, WhoWrites DEF Writers
    <3>3. approval \in [Interactions -> ApprovalRows]
      BY <1>1 DEF IndInv, TypeOK
    <3>4. CASE ReviewEnsure(p)
      <4>1. /\ approval' = [approval EXCEPT ![NextReview] =
                              Row("PENDING", NoAnswer)]
            /\ approval[NextReview].status = "NONE"
        BY <2>2, <3>4 DEF ReviewEnsure
      <4>2. NextReview \in Interactions =>
              approval[NextReview].decision = NoAnswer
        BY <1>1, <4>1 DEF IndInv, ReviewsOK, Opened
      <4> QED
        BY <3>3, <4>1, <4>2 DEF Row
    <3>5. CASE ReviewDecide(p)
      <4>1. /\ approval' = [approval EXCEPT ![pending] =
                              Row(Verdict(heard.say), heard)]
            /\ lock = p /\ cmd[p].to = pending /\ heard # NoAnswer
        BY <2>2, <3>5 DEF ReviewDecide, Fits, At, Raises, tables
      <4>2. heard = cmd[p].answer
        BY <1>1, <4>1 DEF IndInv, SessionsOK
      <4> QED
        BY <3>3, <4>1, <4>2 DEF Row
    <3> QED
      BY <3>2, <3>4, <3>5
  <2> QED
    BY <2>1, <2>2
<1>2. ASSUME IndInv, [Next]_vars
      PROVE  [\A id \in Interactions : Meets(id)]_vars
  BY <1>1, <1>2
<1> QED
  BY <1>2, Inductive, PTL DEF Spec, DecisionMeetsItsQuestion
=============================================================================
