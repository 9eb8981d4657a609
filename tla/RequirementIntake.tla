------------------------- MODULE RequirementIntake -------------------------
(***************************************************************************)
(* A Run from the first command to its frozen Requirement and execution    *)
(* plan: parsing, clarification, review and freezing (orchestrator/graph.py *)
(* up to build_execution_plan) under several CLI processes at once.        *)
(*                                                                         *)
(* A command (orchestrator/runtime.py) first reads the checkpoint without a *)
(* lock, then takes the project lock or gives up, then advances the graph. *)
(* What it read may be stale by then.  A process that answers a gate files *)
(* its answer in interaction_responses after the graph has returned.       *)
(*                                                                         *)
(* A Requirement draft is a model value; an interaction is identified by   *)
(* its gate, the draft it shows and its round, as its hash is.             *)
(***************************************************************************)
EXTENDS Naturals, FiniteSets, StateMachine

CONSTANTS
  Procs,         \* CLI processes
  NoProc,
  Drafts,        \* contents a Requirement may have
  NoDraft,
  Modes,         \* subset of {"request", "direct"}
  Audits,        \* what a provider call leaves in the audit event
  Unplannable,   \* drafts no source Requirement can be compiled from
  MaxRounds,     \* bound on clarification rounds
  MaxReviews,    \* bound on review rounds
  MaxCrashes     \* bound on process crashes

ASSUME IntakeAssumption ==
  /\ NoProc \notin Procs /\ NoDraft \notin Drafts
  /\ IsFiniteSet(Procs) /\ Procs # {}
  /\ Modes \subseteq {"request", "direct"}
  /\ Unplannable \subseteq Drafts
  /\ MaxReviews \in Nat \ {0} /\ MaxCrashes \in Nat
  /\ MaxRounds \in Nat /\ MaxRounds >= MaxReviews

Rounds == 1 .. MaxRounds
Gates == {"clarification_gate", "requirement_review_gate"}
Nodes == Gates \cup {"none", "parse_requirement", "prepare_requirement_review",
                     "cancel_run", "freeze_requirement",
                     "initialize_direct_run", "build_execution_plan",
                     "route_next_stage", "END"}
Over == {"route_next_stage", "END"}

\* An interaction, and the answers it allows; "bad" is one the gate refuses.
Interactions == [gate : Gates, draft : Drafts, round : Rounds]
NoInteraction == [gate |-> "none", draft |-> NoDraft, round |-> 0]
ReviewOf(d, k) ==
  [gate |-> "requirement_review_gate", draft |-> d, round |-> k]
ClarificationOf(d, k) ==
  [gate |-> "clarification_gate", draft |-> d, round |-> k]

Answers == [say : {"cancel", "bad", "text", "approve"}, draft : {NoDraft}]
             \cup [say : {"changes", "revise"}, draft : Drafts]
NoAnswer == [say |-> "none", draft |-> NoDraft]
Say(word) == [say |-> word, draft |-> NoDraft]

\* An approval row and the answer that decided it.
ApprovalRows == [status : ApprovalStatus \cup {"NONE"},
                 decision : Answers \cup {NoAnswer}]
Row(status, a) == [status |-> status, decision |-> a]

\* A command: its name, and the interaction and answer it carries, if any.
Commands == [name : {"start", "resume", "none"}, to : {NoInteraction},
             answer : {NoAnswer}]
              \cup [name : {"respond"}, to : Interactions, answer : Answers]
Command(name) ==
  [name |-> name, to |-> NoInteraction, answer |-> NoAnswer]

\* What a gate's node has worked out in memory.
Results == [then : {"repeat", "continue", "cancel"}, draft : Drafts,
            asks : BOOLEAN]
NoResult == [then |-> "none", draft |-> NoDraft, asks |-> FALSE]
Result(then, d, asks) == [then |-> then, draft |-> d, asks |-> asks]

VARIABLES
  mode,                                       \* run_mode
  node, asked, pending, draft, reviewRound,   \* checkpoint
  run, approval, requirement, responses,      \* tables
  events,                                     \* of the node under way
  frozenFile,                                 \* requirement.v1.json
  pc, cmd, lock, step, local, heard,          \* processes
  crashes

checkpoint == <<node, asked, pending, draft, reviewRound>>
tables == <<run, approval, requirement, responses, events>>
vars == <<mode, checkpoint, tables, frozenFile, pc, cmd, lock, step, local,
          heard, crashes>>

-----------------------------------------------------------------------------
(* Commands: read without the lock, then take it or fail.                   *)

Ready(p, c) ==
  /\ pc' = [pc EXCEPT ![p] = "ready"]
  /\ cmd' = [cmd EXCEPT ![p] = c]
  /\ UNCHANGED <<mode, checkpoint, tables, frozenFile, lock, step, local,
                 heard, crashes>>

Start(p) == pc[p] = "idle" /\ run = "NONE" /\ Ready(p, Command("start"))

\* The answers a user may choose at a gate.  A clarification answer that is
\* refused, unclear or late opens another round, so that a command is given
\* only while there is a round left for it and for every command under way.
Busy == Cardinality({p \in Procs : pc[p] # "idle"})

AnswersAt(id) ==
  IF id.gate = "clarification_gate"
    THEN (IF Busy = 0 \/ id.round + Busy < MaxRounds
            THEN [say : {"changes"}, draft : Drafts] \cup {Say("cancel")}
            ELSE {})
           \cup (IF id.round + Busy < MaxRounds
                   THEN {Say("text"), Say("bad")} ELSE {})
    ELSE {Say("approve"), Say("cancel"), Say("bad")}
           \cup (IF id.round < MaxReviews
                   THEN [say : {"revise"}, draft : Drafts] ELSE {})

Respond(p) ==
  /\ pc[p] = "idle" /\ asked /\ responses[pending] = NoAnswer
  /\ \E a \in AnswersAt(pending) :
       Ready(p, [name |-> "respond", to |-> pending, answer |-> a])

Resume(p) ==
  /\ pc[p] = "idle" /\ ~asked /\ node \notin Over \cup {"none"}
  /\ Ready(p, Command("resume"))

Acquire(p) ==
  /\ pc[p] = "ready" /\ lock = NoProc
  /\ lock' = p
  /\ pc' = [pc EXCEPT ![p] = IF cmd[p].name = "start" THEN "creating"
                                                     ELSE "running"]
  /\ heard' = cmd[p].answer
  /\ UNCHANGED <<mode, checkpoint, tables, frozenFile, cmd, step, local,
                 crashes>>

LockRefused(p) ==
  /\ pc[p] = "ready" /\ lock # NoProc
  /\ pc' = [pc EXCEPT ![p] = "idle"]
  /\ cmd' = [cmd EXCEPT ![p] = Command("none")]
  /\ UNCHANGED <<mode, checkpoint, tables, frozenFile, lock, step, local,
                 heard, crashes>>

-----------------------------------------------------------------------------
(* Ways through graph.invoke.                                               *)

At(p, n, k) == pc[p] = "running" /\ lock = p /\ node = n /\ step = k

Written ==
  /\ step' = step + 1
  /\ UNCHANGED <<mode, checkpoint, pc, cmd, lock, heard, crashes>>

Checkpointed ==
  /\ step' = 0 /\ local' = NoResult /\ heard' = NoAnswer /\ asked' = FALSE
  /\ events' = {}
  /\ UNCHANGED <<mode, run, approval, requirement, responses, frozenFile, pc,
                 cmd, lock, crashes>>

Released(p) ==
  /\ lock' = NoProc /\ step' = 0 /\ local' = NoResult /\ heard' = NoAnswer
  /\ pc' = [pc EXCEPT ![p] = "idle"]
  /\ cmd' = [cmd EXCEPT ![p] = Command("none")]

\* The graph stops at an interrupt or at its end.
Leave(p) ==
  /\ IF cmd[p].name = "respond"
       THEN /\ pc' = [pc EXCEPT ![p] = "recording"]
            /\ step' = 0 /\ local' = NoResult /\ heard' = NoAnswer
            /\ UNCHANGED <<cmd, lock>>
       ELSE Released(p)
  /\ UNCHANGED <<mode, tables, frozenFile, crashes>>

\* An exception leaves the command: a refused write, or a failed provider.
Raises(p) ==
  /\ Released(p)
  /\ UNCHANGED <<mode, checkpoint, frozenFile, crashes>>

\* Mutant: a refused transition is skipped instead of raised.
UpdateRunQuietly(p, status) ==
  /\ run' = IF CanMoveRun(run, status) THEN status ELSE run
  /\ Written
  /\ UNCHANGED <<approval, requirement, responses, events, frozenFile, local>>

\* update_run: the matrix decides, the same status again is accepted.
UpdateRun(p, status) ==
  IF CanMoveRun(run, status)
    THEN /\ run' = status
         /\ Written
         /\ UNCHANGED <<approval, requirement, responses, events, frozenFile,
                        local>>
    ELSE Raises(p) /\ UNCHANGED tables

\* append_event: a key is written once; the same key with another payload (the
\* number of questions, the provider's audit) is a conflict.  Later nodes never
\* use a key again, so that a checkpoint ends what has to be remembered.
EventConflicts(key, payload) ==
  \E e \in events : e.key = key /\ e.payload # payload

AppendEvent(p, key, audit, result) ==
  LET payload == <<result.asks, audit>> IN
  IF EventConflicts(key, payload)
    THEN Raises(p) /\ UNCHANGED tables
    ELSE /\ events' = events \cup {[key |-> key, payload |-> payload]}
         /\ local' = result
         /\ Written
         /\ UNCHANGED <<run, approval, requirement, responses, frozenFile>>

-----------------------------------------------------------------------------
(* start_run, start_stage_run                                               *)

CreateRun(p) ==
  /\ pc[p] = "creating"
  /\ IF run = "NONE"
       THEN /\ run' = "INTAKE"
            /\ pc' = [pc EXCEPT ![p] = "seeding"]
            /\ UNCHANGED <<mode, checkpoint, approval, requirement, responses,
                           events, frozenFile, cmd, lock, step, local, heard,
                           crashes>>
       ELSE Raises(p) /\ UNCHANGED tables

FirstCheckpoint(p) ==
  /\ pc[p] = "seeding"
  /\ node' = IF mode = "direct" THEN "initialize_direct_run"
                               ELSE "parse_requirement"
  /\ pc' = [pc EXCEPT ![p] = "running"]
  /\ UNCHANGED <<mode, asked, pending, draft, reviewRound, tables, frozenFile,
                 cmd, lock, step, local, heard, crashes>>

(* parse_requirement: the parser is a provider call, and may answer          *)
(* differently when the node is executed again.                              *)

Parse(p) ==
  /\ At(p, "parse_requirement", 0)
  /\ \E d \in Drafts, asks \in BOOLEAN :
       LET status == IF asks THEN "CLARIFYING" ELSE "REQUIREMENT_REVIEW"
       IN IF CanMoveRun(run, status)
            THEN /\ run' = status
                 /\ local' = Result(IF asks THEN "repeat" ELSE "continue", d,
                                    asks)
                 /\ Written
                 /\ UNCHANGED <<approval, requirement, responses, events,
                                frozenFile>>
            ELSE Raises(p) /\ UNCHANGED tables

ParseFails(p) ==
  /\ At(p, "parse_requirement", 0)
  /\ run' = IF CanMoveRun(run, "FAILED") THEN "FAILED" ELSE run
  /\ Raises(p)
  /\ UNCHANGED <<approval, requirement, responses, events>>

ParseEvent(p) ==
  /\ At(p, "parse_requirement", 1)
  /\ \E audit \in Audits :
       AppendEvent(p, <<"parsed", local.draft>>, audit, local)

ParseDone(p) ==
  /\ At(p, "parse_requirement", 2)
  /\ draft' = local.draft
  /\ IF local.asks
       THEN /\ node' = "clarification_gate"
            /\ pending' = ClarificationOf(local.draft, 1)
       ELSE /\ node' = "prepare_requirement_review"
            /\ pending' = NoInteraction
  /\ Checkpointed
  /\ UNCHANGED reviewRound

-----------------------------------------------------------------------------
(* The gates.                                                               *)

\* interrupt(): without an answer the graph stops and shows the interaction.
Interrupt(p) ==
  /\ pc[p] = "running" /\ lock = p /\ node \in Gates /\ step = 0
  /\ heard = NoAnswer
  /\ asked' = TRUE
  /\ Leave(p)
  /\ UNCHANGED <<node, pending, draft, reviewRound>>

\* Mutant: the answer is not compared with the interaction it was given to.
FitsAnything(p) == heard.say # "bad"

\* _validate_interaction_response, and the payload of the answer.
Fits(p) == cmd[p].to = pending /\ heard.say # "bad"

\* clarification_gate: what the answer leads to, and its audit event.
ClarifyHears(p) ==
  /\ At(p, "clarification_gate", 0) /\ heard # NoAnswer
  /\ \/ /\ ~Fits(p)
        /\ local' = Result("repeat", draft, TRUE)
        /\ Written
        /\ UNCHANGED <<tables, frozenFile>>
     \/ /\ Fits(p) /\ heard.say = "cancel"
        /\ local' = Result("cancel", draft, TRUE)
        /\ Written
        /\ UNCHANGED <<tables, frozenFile>>
     \/ /\ Fits(p) /\ heard.say = "changes"
        /\ local' = Result("continue", heard.draft, FALSE)
        /\ Written
        /\ UNCHANGED <<tables, frozenFile>>
     \/ /\ Fits(p) /\ heard.say = "text"
        /\ \E d \in Drafts, asks \in BOOLEAN, audit \in Audits :
             AppendEvent(p, <<"clarified", pending, d>>, audit,
                         Result(IF asks THEN "repeat" ELSE "continue", d, asks))
     \/ /\ Fits(p) /\ heard.say = "text"
        /\ Raises(p) /\ UNCHANGED tables

StatusAfter(then) ==
  CASE then = "repeat" -> "CLARIFYING"
    [] then = "continue" -> "REQUIREMENT_REVIEW"
    [] OTHER -> "CANCELLED"

ClarifyMarkRun(p) ==
  /\ At(p, "clarification_gate", 1)
  /\ UpdateRun(p, StatusAfter(local.then))

ClarifyDone(p) ==
  /\ At(p, "clarification_gate", 2)
  /\ \/ /\ local.then = "repeat" /\ node' = node
        /\ pending' = ClarificationOf(local.draft, pending.round + 1)
     \/ /\ local.then = "continue" /\ node' = "prepare_requirement_review"
        /\ pending' = NoInteraction
     \/ /\ local.then = "cancel" /\ node' = "cancel_run"
        /\ pending' = NoInteraction
  /\ draft' = local.draft
  /\ Checkpointed
  /\ UNCHANGED reviewRound

(* prepare_requirement_review *)

NextReview == ReviewOf(draft, reviewRound + 1)

ReviewEnsure(p) ==
  /\ At(p, "prepare_requirement_review", 0)
  /\ approval' = IF approval[NextReview].status # "NONE" THEN approval ELSE
                   [approval EXCEPT ![NextReview] = Row("PENDING", NoAnswer)]
  /\ Written
  /\ UNCHANGED <<run, requirement, responses, events, frozenFile, local>>

ReviewMarkRun(p) ==
  /\ At(p, "prepare_requirement_review", 1)
  /\ UpdateRun(p, "REQUIREMENT_REVIEW")

ReviewPrepared(p) ==
  /\ At(p, "prepare_requirement_review", 2)
  /\ reviewRound' = reviewRound + 1
  /\ pending' = NextReview
  /\ node' = "requirement_review_gate"
  /\ Checkpointed
  /\ UNCHANGED draft

(* requirement_review_gate: a refused answer shows the same interaction      *)
(* again.                                                                    *)

Verdict(say) ==
  CASE say = "approve" -> "APPROVED" [] say = "revise" -> "REVISED"
    [] OTHER -> "CANCELLED"

ReviewRefused(p) ==
  /\ At(p, "requirement_review_gate", 0) /\ heard # NoAnswer /\ ~Fits(p)
  /\ asked' = TRUE
  /\ Leave(p)
  /\ UNCHANGED <<node, pending, draft, reviewRound>>

\* Mutant: an approval that is decided is left as it is and the node goes on.
ReviewDecideKeepsFirst(p) ==
  /\ At(p, "requirement_review_gate", 0) /\ heard # NoAnswer /\ Fits(p)
  /\ approval' = IF approval[pending].status # "PENDING" THEN approval ELSE
                   [approval EXCEPT ![pending] = Row(Verdict(heard.say), heard)]
  /\ Written
  /\ UNCHANGED <<run, requirement, responses, events, frozenFile, local>>

\* decide_approval: a decided approval accepts only its own decision again.
ReviewDecide(p) ==
  /\ At(p, "requirement_review_gate", 0) /\ heard # NoAnswer /\ Fits(p)
  /\ IF /\ CanMoveApproval(approval[pending].status, Verdict(heard.say))
        /\ \/ approval[pending].status = "PENDING"
           \/ approval[pending] = Row(Verdict(heard.say), heard)
       THEN /\ approval' = [approval EXCEPT ![pending] =
                             Row(Verdict(heard.say), heard)]
            /\ Written
            /\ UNCHANGED <<run, requirement, responses, events, frozenFile,
                           local>>
       ELSE Raises(p) /\ UNCHANGED tables

ReviewDone(p) ==
  /\ At(p, "requirement_review_gate", 1)
  /\ \/ /\ heard.say = "approve" /\ node' = "freeze_requirement"
        /\ UNCHANGED draft
     \/ /\ heard.say = "revise" /\ node' = "prepare_requirement_review"
        /\ draft' = heard.draft
     \/ /\ heard.say = "cancel" /\ node' = "cancel_run"
        /\ UNCHANGED draft
  /\ pending' = NoInteraction
  /\ Checkpointed
  /\ UNCHANGED reviewRound

-----------------------------------------------------------------------------
(* cancel_run, freeze_requirement, initialize_direct_run,                    *)
(* build_execution_plan                                                      *)

CancelMarkRun(p) == At(p, "cancel_run", 0) /\ UpdateRun(p, "CANCELLED")

CancelDone(p) ==
  /\ At(p, "cancel_run", 1)
  /\ node' = "END" /\ pending' = NoInteraction
  /\ Checkpointed
  /\ UNCHANGED <<draft, reviewRound>>

\* requirement.v1.json is immutable: the revision of a draft never changes.
FreezeWrite(p) ==
  /\ At(p, "freeze_requirement", 0)
  /\ IF frozenFile \in {NoDraft, draft}
       THEN /\ frozenFile' = draft
            /\ Written
            /\ UNCHANGED <<tables, local>>
       ELSE Raises(p) /\ UNCHANGED tables

RecordRequirement(p, d) ==
  IF requirement \in {NoDraft, d}
    THEN /\ requirement' = d
         /\ Written
         /\ UNCHANGED <<run, approval, responses, events, frozenFile, local>>
    ELSE Raises(p) /\ UNCHANGED tables

FreezeRecord(p) ==
  At(p, "freeze_requirement", 1) /\ RecordRequirement(p, draft)

FreezeMarkRun(p) ==
  At(p, "freeze_requirement", 2) /\ UpdateRun(p, "PLANNED")

FreezeDone(p) ==
  /\ At(p, "freeze_requirement", 3)
  /\ node' = "build_execution_plan"
  /\ Checkpointed
  /\ UNCHANGED <<pending, draft, reviewRound>>

\* A direct run adopts the Requirement its stage input names.
DirectRecord(p) ==
  /\ At(p, "initialize_direct_run", 0)
  /\ RecordRequirement(p, draft)

DirectMarkRun(p) ==
  At(p, "initialize_direct_run", 1) /\ UpdateRun(p, "PLANNED")

DirectDone(p) ==
  /\ At(p, "initialize_direct_run", 2)
  /\ node' = "build_execution_plan"
  /\ Checkpointed
  /\ UNCHANGED <<pending, draft, reviewRound>>

PlanMarkRun(p) ==
  /\ At(p, "build_execution_plan", 0)
  /\ IF draft \in Unplannable
       THEN Raises(p) /\ UNCHANGED tables
       ELSE UpdateRun(p, "PLANNED")

PlanDone(p) ==
  /\ At(p, "build_execution_plan", 1)
  /\ node' = "route_next_stage"
  /\ Checkpointed
  /\ UNCHANGED <<pending, draft, reviewRound>>

\* What follows is the stage loop's; a process that finds the intake over
\* changes nothing here.
Finish(p) ==
  /\ pc[p] = "running" /\ lock = p /\ node \in Over
  /\ Leave(p)
  /\ UNCHANGED checkpoint

\* record_interaction_response, still under the lock.
RecordResponse(p) ==
  LET c == cmd[p]
  IN /\ pc[p] = "recording"
     /\ IF responses[c.to] \in {NoAnswer, c.answer}
          THEN /\ responses' = [responses EXCEPT ![c.to] = c.answer]
               /\ Released(p)
               /\ UNCHANGED <<mode, checkpoint, run, approval, requirement,
                              events, frozenFile, crashes>>
          ELSE Raises(p) /\ UNCHANGED tables

\* The process dies; the operating system releases its lock.
Crash(p) ==
  /\ pc[p] # "idle" /\ crashes < MaxCrashes
  /\ crashes' = crashes + 1
  /\ IF lock = p THEN Released(p)
     ELSE /\ pc' = [pc EXCEPT ![p] = "idle"]
          /\ cmd' = [cmd EXCEPT ![p] = Command("none")]
          /\ UNCHANGED <<lock, step, local, heard>>
  /\ UNCHANGED <<mode, checkpoint, tables, frozenFile>>

-----------------------------------------------------------------------------
Init ==
  /\ mode \in Modes
  /\ node = "none" /\ asked = FALSE /\ pending = NoInteraction
  /\ draft \in (IF mode = "direct" THEN Drafts ELSE {NoDraft})
  /\ reviewRound = 0
  /\ run = "NONE"
  /\ approval = [id \in Interactions |-> Row("NONE", NoAnswer)]
  /\ requirement = NoDraft
  /\ responses = [id \in Interactions |-> NoAnswer]
  /\ events = {} /\ frozenFile = NoDraft
  /\ pc = [p \in Procs |-> "idle"]
  /\ cmd = [p \in Procs |-> Command("none")]
  /\ lock = NoProc /\ step = 0 /\ local = NoResult /\ heard = NoAnswer
  /\ crashes = 0

Issue(p) == Start(p) \/ Respond(p) \/ Resume(p)

GraphStep(p) ==
  \/ CreateRun(p) \/ FirstCheckpoint(p)
  \/ Parse(p) \/ ParseFails(p) \/ ParseEvent(p) \/ ParseDone(p)
  \/ Interrupt(p) \/ ClarifyHears(p) \/ ClarifyMarkRun(p) \/ ClarifyDone(p)
  \/ ReviewEnsure(p) \/ ReviewMarkRun(p) \/ ReviewPrepared(p)
  \/ ReviewRefused(p) \/ ReviewDecide(p) \/ ReviewDone(p)
  \/ CancelMarkRun(p) \/ CancelDone(p)
  \/ FreezeWrite(p) \/ FreezeRecord(p) \/ FreezeMarkRun(p) \/ FreezeDone(p)
  \/ DirectRecord(p) \/ DirectMarkRun(p) \/ DirectDone(p)
  \/ PlanMarkRun(p) \/ PlanDone(p)
  \/ Finish(p) \/ RecordResponse(p)

Next ==
  \E p \in Procs :
    \/ Issue(p) \/ Acquire(p) \/ LockRefused(p) \/ GraphStep(p) \/ Crash(p)

Spec == Init /\ [][Next]_vars
=============================================================================
