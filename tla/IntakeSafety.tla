---------------------------- MODULE IntakeSafety ----------------------------
(***************************************************************************)
(* What must hold of RequirementIntake: what is frozen is what was         *)
(* confirmed, whoever answers, crashes or comes late; and what the         *)
(* repository's documents say that the code does not keep.                 *)
(***************************************************************************)
EXTENDS RequirementIntake

\* Shape of every variable.
TypeOK ==
  /\ mode \in Modes
  /\ node \in Nodes /\ asked \in BOOLEAN
  /\ pending \in Interactions \cup {NoInteraction}
  /\ draft \in Drafts \cup {NoDraft}
  /\ reviewRound \in 0 .. MaxReviews
  /\ run \in RunStatus \cup {"NONE"}
  /\ approval \in [Interactions -> ApprovalRows]
  /\ requirement \in Drafts \cup {NoDraft}
  /\ responses \in [Interactions -> Answers \cup {NoAnswer}]
  /\ frozenFile \in Drafts \cup {NoDraft}
  /\ pc \in [Procs -> {"idle", "ready", "creating", "seeding", "running",
                       "recording"}]
  /\ cmd \in [Procs -> Commands]
  /\ lock \in Procs \cup {NoProc}
  /\ step \in 0 .. 3
  /\ local \in Results \cup {NoResult}
  /\ heard \in Answers \cup {NoAnswer}
  /\ crashes \in 0 .. MaxCrashes

Approved == {id \in Interactions : approval[id].status = "APPROVED"}

\* A frozen Requirement is the very draft of the one review that was approved,
\* and the file, the row and the plan agree on it, across rounds, crashes and
\* concurrent answers (requirement_review_gate, freeze_requirement).
FrozenIsApproved ==
  /\ mode = "request" /\ frozenFile # NoDraft =>
       \E id \in Interactions : Approved = {id} /\ id.draft = frozenFile
  /\ requirement # NoDraft /\ mode = "request" => frozenFile = requirement
  /\ node = "route_next_stage" => requirement = draft

\* An approval is decided only by a command that was given for that very
\* interaction, although the commands read it before they hold the lock
\* (respond, _validate_interaction_response).
DecisionMeetsItsQuestion ==
  [][\A id \in Interactions :
       approval'[id].decision # approval[id].decision =>
         \E p \in Procs : lock = p /\ cmd[p].to = id
                          /\ cmd[p].answer = approval'[id].decision]_vars

\* A Run its user cancelled never gets a Requirement, whatever was lost
\* between the cancellation and the checkpoint (clarification_gate,
\* cancel_run).
CancelledStaysUnfrozen ==
  run = "CANCELLED" => requirement = NoDraft /\ Approved = {}

\* The reviewed drafts form one line: a round has one review, and the next is
\* opened only by the revision that answered it, whatever was lost or repeated
\* in between (requirement_review_gate, prepare_requirement_review).
OneReviewLine ==
  \A a, b \in {id \in Interactions : approval[id].status # "NONE"} :
    /\ a.round = b.round => a = b
    /\ b.round = a.round + 1 =>
         /\ approval[a].status = "REVISED"
         /\ approval[a].decision.draft = b.draft

-----------------------------------------------------------------------------
(* What makes them inductive.                                               *)

\* One process at a time is inside the graph, and what it works with is its
\* own: the step, the result in memory and the answer it was given.
SessionsOK ==
  /\ \A p \in Procs : lock = p <=> pc[p] \notin {"idle", "ready"}
  /\ lock \in Procs =>
       /\ heard \in {NoAnswer, cmd[lock].answer}
       /\ pc[lock] # "running" => step = 0 /\ heard = NoAnswer
       /\ pc[lock] \in {"creating", "seeding"} => cmd[lock].name = "start"
       /\ pc[lock] = "seeding" => node = "none" /\ run # "NONE"
       /\ pc[lock] = "recording" => cmd[lock].name = "respond"
  /\ lock = NoProc => step = 0 /\ heard = NoAnswer

\* Where the Run is in its intake, and what is worked out there.
PlaceOK ==
  /\ asked => node \in Gates
  /\ node \in Gates /\ step > 0 => heard # NoAnswer
  /\ run = "NONE" => node = "none"
  /\ node \in {"none", "parse_requirement", "initialize_direct_run"} =>
       \A p \in Procs : cmd[p].name # "respond"
  /\ mode = "direct" => node \in {"none", "initialize_direct_run",
                                 "build_execution_plan", "route_next_stage"}
  /\ node = "initialize_direct_run" => mode = "direct"
  /\ node \notin {"none", "parse_requirement"} \/ mode = "direct" =>
       draft \in Drafts
  /\ node \in {"parse_requirement", "clarification_gate"} /\ step > 0 =>
       local \in Results
  /\ node = "clarification_gate" =>
       /\ pending \in Interactions /\ pending.gate = "clarification_gate"
       /\ step = 2 => run = StatusAfter(local.then)
  /\ node = "requirement_review_gate" =>
       /\ pending = ReviewOf(draft, reviewRound) /\ pending \in Interactions
       /\ step > 0 => /\ approval[pending] = Row(Verdict(heard.say), heard)
                      /\ cmd[lock].to = pending
  /\ run = "CANCELLED" => node \in {"clarification_gate", "cancel_run", "END"}

\* The processes whose answer may still open another clarification.
Unheard ==
  {p \in Procs : /\ cmd[p].name = "respond"
                 /\ \/ pc[p] = "ready"
                    \/ pc[p] = "running" /\ heard # NoAnswer}

\* There is a clarification round left for every answer under way, or the only
\* one fits and asks for no other.
RoundsOK ==
  /\ node = "clarification_gate" =>
       \/ pending.round + Cardinality(Unheard) <= MaxRounds
       \/ \E p \in Procs : /\ Unheard = {p} /\ cmd[p].to = pending
                           /\ cmd[p].answer.say \in {"changes", "cancel"}
  /\ node = "clarification_gate" /\ step > 0 /\ local.then = "repeat" =>
       pending.round + Cardinality(Unheard) <= MaxRounds
  /\ \A p \in Procs : cmd[p].name = "respond" /\ cmd[p].answer.say = "revise" =>
       /\ cmd[p].to.gate = "requirement_review_gate"
       /\ cmd[p].to.round < MaxReviews
  /\ node = "prepare_requirement_review" => reviewRound < MaxReviews

Opened(id) == approval[id].status # "NONE"

\* Every review but the last was answered by the revision that opened the next
\* one; the last one is the one shown, or was answered by the draft that is
\* about to be shown.
ReviewsOK ==
  /\ OneReviewLine
  /\ \A id \in Interactions :
       /\ ~Opened(id) => approval[id].decision = NoAnswer
       /\ Opened(id) =>
            /\ \/ id.round <= reviewRound
               \/ node = "prepare_requirement_review" /\ id = NextReview
            /\ id.round < reviewRound => approval[id].status = "REVISED"
            /\ node = "prepare_requirement_review" /\ id.round = reviewRound =>
                 /\ approval[id].status = "REVISED"
                 /\ approval[id].decision.draft = draft
            /\ id.gate = "requirement_review_gate"
  /\ node = "requirement_review_gate" => Opened(pending)
  /\ node = "prepare_requirement_review" /\ step > 0 => Opened(NextReview)
  /\ node \in {"none", "parse_requirement", "clarification_gate",
               "initialize_direct_run"} \/ mode = "direct" =>
       reviewRound = 0
  /\ \A id \in Approved : node \in {"requirement_review_gate",
       "freeze_requirement", "build_execution_plan", "route_next_stage"}

\* What is frozen, and when.
FrozenOK ==
  /\ node \in {"freeze_requirement", "build_execution_plan",
               "route_next_stage"} /\ mode = "request" =>
       ReviewOf(draft, reviewRound) \in Approved
  /\ mode = "direct" => frozenFile = NoDraft
  /\ frozenFile \in {NoDraft, draft} /\ requirement \in {NoDraft, draft}
  /\ mode = "request" => requirement \in {NoDraft, frozenFile}
  /\ node \notin {"freeze_requirement", "initialize_direct_run",
                  "build_execution_plan", "route_next_stage"} =>
       frozenFile = NoDraft /\ requirement = NoDraft
  /\ node = "freeze_requirement" =>
       /\ mode = "request"
       /\ step > 0 => frozenFile = draft
       /\ step > 1 => requirement = draft
  /\ node = "initialize_direct_run" /\ step > 0 => requirement = draft
  /\ node \in {"build_execution_plan", "route_next_stage"} =>
       /\ requirement = draft
       /\ mode = "request" => frozenFile = draft

IndInv ==
  TypeOK /\ SessionsOK /\ PlaceOK /\ RoundsOK /\ ReviewsOK /\ FrozenOK
=============================================================================
