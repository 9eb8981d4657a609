---------------------------- MODULE GatewayProofs ----------------------------
(***************************************************************************)
(* What the runs check of a submission to the gateway on two processes     *)
(* holds of any number of processes, requests, components, references and  *)
(* crashes.  The invariant IndInv of GatewaySafety is inductive: one lemma *)
(* per conjunct, each with one step per kind of step of a call (Submit,    *)
(* Act, Authorize, Works, Ends) and one for what happens outside the calls.*)
(* A first part says what each action makes of the call it moves, so that  *)
(* the invariant's lemmas need not look into records.  The last part shows *)
(* that the gateway implements LicensedRun.                                *)
(***************************************************************************)
EXTENDS GatewaySafety, FiniteSetTheorems, TLAPS

USE GatewayAssumption
USE DEF database, grants, files, world, At, Goes

\* The transitions a call can be about to commit are public states.
LEMMA StateTypes ==
  /\ \A s \in Terminal \cup {"RUNNING"} : State(s) \in States
  /\ \A m \in Manifests : Asking(m) \in States
  /\ \A c \in Codes : Failure(c) \in States
  BY DEF State, Asking, Failure, States, Terminal, Codes

\* What is installed makes a manifest of every request.
LEMMA ManifestType ==
  ASSUME TypeOK, NEW r \in Requests
  PROVE  Manifest(r) \in Manifests /\ Manifest(r).request = r
  BY DEF TypeOK, Manifest, Manifests

\* The fields of a call are of their types.
LEMMA CallFields ==
  ASSUME NEW c \in Calls
  PROVE  /\ c.action \in Actions \cup {"none"}
         /\ c.read \in Rows \cup {NoRow}
         /\ c.answer \in Answers \cup {NoPage}
         /\ c.next \in States \cup {State("NONE")}
         /\ c = [pc |-> c.pc, action |-> c.action, read |-> c.read,
                 answer |-> c.answer, next |-> c.next]
  BY DEF Calls

\* A call with the given fields, one that moves on and one that is about to
\* commit, as records.
Moved(c, pc) ==
  [pc |-> pc, action |-> c.action, read |-> c.read, answer |-> c.answer,
   next |-> c.next]
Committing(c, s) ==
  [pc |-> "committing", action |-> c.action, read |-> c.read,
   answer |-> IF s.status = "SUCCEEDED" THEN c.answer ELSE NoPage, next |-> s]

\* One call becomes another, the others stay where they are.
Becomes(p, c) ==
  /\ call' \in [Procs -> Calls] /\ call'[p] = c
  /\ \A q \in Procs \ {p} : call'[q] = call[q]

\* A call whose process stores a call of the type becomes that call.
LEMMA OneCall ==
  ASSUME TypeOK, NEW p \in Procs, NEW c \in Calls, Goes(p, c)
  PROVE  Becomes(p, c)
  BY DEF TypeOK, Becomes

\* A call that changes its place only is a call (_execute).
LEMMA MovedCall ==
  ASSUME TypeOK, NEW p \in Procs,
         NEW pc \in {"acting", "searching", "attempts", "publishing"},
         Goes(p, [call[p] EXCEPT !.pc = pc])
  PROVE  Becomes(p, Moved(call[p], pc))
<1>1. call[p] \in Calls
  BY DEF TypeOK
<1>2. [call[p] EXCEPT !.pc = pc] = Moved(call[p], pc)
  BY <1>1 DEF Calls, Moved
<1>3. Moved(call[p], pc) \in Calls
  BY <1>1 DEF Calls, Moved
<1> QED
  BY <1>2, <1>3, OneCall

\* What a transition makes of the call that is to commit it.
LEMMA CommittingCall ==
  ASSUME TypeOK, NEW p \in Procs, NEW s \in States, Commits(p, s)
  PROVE  Becomes(p, Committing(call[p], s))
<1> DEFINE x == IF s.status = "SUCCEEDED" THEN call[p].answer ELSE NoPage
           d == [call[p] EXCEPT !.pc = "committing"]
           e == [d EXCEPT !.next = s]
           f == [e EXCEPT !.answer = x]
<1>1. call[p] \in Calls
  BY DEF TypeOK
<1>2. d = [pc |-> "committing", action |-> call[p].action,
           read |-> call[p].read, answer |-> call[p].answer,
           next |-> call[p].next]
  BY <1>1, CallFields
<1>3. e = [pc |-> "committing", action |-> call[p].action,
           read |-> call[p].read, answer |-> call[p].answer, next |-> s]
  <2> HIDE DEF d
  <2> QED
    BY <1>2
<1>4. f = Committing(call[p], s)
  <2> HIDE DEF e
  <2> QED
    BY <1>3 DEF Committing
<1>5. Goes(p, f)
  BY DEF Commits
<1>6. Committing(call[p], s) \in Calls
  BY <1>1, CallFields DEF Calls, Committing
<1> QED
  BY <1>4, <1>5, <1>6, OneCall

\* A call that ends leaves nothing behind.
LEMMA IdleCall ==
  ASSUME TypeOK, NEW p \in Procs, Goes(p, Idle)
  PROVE  Becomes(p, Idle)
<1>1. Idle \in Calls
  BY DEF Idle, Calls
<1> QED
  BY <1>1, OneCall

\* The call of a submission carries the row it wrote
\* (materials_inspiration_run).
LEMMA SubmittedCall ==
  ASSUME TypeOK, NEW p \in Procs, NEW r \in Requests, Submit(p, r)
  PROVE  /\ Becomes(p, [pc |-> "starting", action |-> "none", read |-> row',
                        answer |-> NoPage, next |-> State("NONE")])
         /\ row' \in Rows
<1> DEFINE d == [Idle EXCEPT !.pc = "starting"]
           e == [d EXCEPT !.read = row']
<1>1. row' \in Rows
  BY StateTypes DEF Submit, Rows
<1>2. d = [pc |-> "starting", action |-> "none", read |-> NoRow,
           answer |-> NoPage, next |-> State("NONE")]
  BY DEF Idle
<1>3. e = [pc |-> "starting", action |-> "none", read |-> row',
           answer |-> NoPage, next |-> State("NONE")]
  <2> HIDE DEF d
  <2> QED
    BY <1>2
<1>4. e \in Calls
  BY <1>1, <1>3 DEF Calls
<1>5. Goes(p, e)
  BY DEF Submit
<1> QED
  BY <1>1, <1>3, <1>4, <1>5, OneCall

\* The call of an action carries the row it read (materials_run_act).
LEMMA ActingCall ==
  ASSUME TypeOK, NEW p \in Procs, NEW a \in Actions, Act(p, a)
  PROVE  Becomes(p, [pc |-> "authorizing", action |-> a, read |-> row,
                     answer |-> NoPage, next |-> State("NONE")])
<1> DEFINE d == [Idle EXCEPT !.pc = "authorizing"]
           e == [d EXCEPT !.action = a]
           f == [e EXCEPT !.read = row]
<1>1. d = [pc |-> "authorizing", action |-> "none", read |-> NoRow,
           answer |-> NoPage, next |-> State("NONE")]
  BY DEF Idle
<1>2. e = [pc |-> "authorizing", action |-> a, read |-> NoRow,
           answer |-> NoPage, next |-> State("NONE")]
  <2> HIDE DEF d
  <2> QED
    BY <1>1
<1>3. f = [pc |-> "authorizing", action |-> a, read |-> row,
           answer |-> NoPage, next |-> State("NONE")]
  <2> HIDE DEF e
  <2> QED
    BY <1>2
<1>4. f \in Calls
  BY <1>3 DEF Calls, TypeOK
<1>5. Goes(p, f)
  BY DEF Act
<1> QED
  BY <1>3, <1>4, <1>5, OneCall

\* The call of a search carries its answer.
LEMMA SearchedCall ==
  ASSUME TypeOK, NEW p \in Procs, Search(p)
  PROVE  \/ Becomes(p, [Moved(call[p], "attempts") EXCEPT !.answer = "down"])
         \/ \E page \in Pages :
              Becomes(p, [Moved(call[p], "page") EXCEPT !.answer = page])
<1>1. call[p] \in Calls
  BY DEF TypeOK
<1>2. ASSUME NEW x \in Answers, NEW pc \in {"attempts", "page"},
             Goes(p, [call[p] EXCEPT !.answer = x, !.pc = pc])
      PROVE  Becomes(p, [Moved(call[p], pc) EXCEPT !.answer = x])
  <2> DEFINE d == [call[p] EXCEPT !.answer = x]
             e == [d EXCEPT !.pc = pc]
             f == [Moved(call[p], pc) EXCEPT !.answer = x]
  <2>1. d = [pc |-> call[p].pc, action |-> call[p].action,
             read |-> call[p].read, answer |-> x, next |-> call[p].next]
    BY <1>1, CallFields
  <2>2. e = [pc |-> pc, action |-> call[p].action,
             read |-> call[p].read, answer |-> x, next |-> call[p].next]
    <3> HIDE DEF d
    <3> QED
      BY <2>1
  <2>3. f = e
    BY <2>2 DEF Moved
  <2>4. e \in Calls
    BY <1>1, <2>2, CallFields DEF Calls
  <2>5. Goes(p, e)
    BY <1>2
  <2> QED
    BY <2>3, <2>4, <2>5, OneCall
<1>3. PICK x \in Answers :
        Goes(p, [call[p] EXCEPT
                   !.answer = x,
                   !.pc = IF x = "down" THEN "attempts" ELSE "page"])
  BY DEF Search
<1>4. CASE x = "down"
  BY <1>2, <1>3, <1>4
<1>5. CASE x # "down"
  BY <1>2, <1>3, <1>5 DEF Answers
<1> QED
  BY <1>4, <1>5

-----------------------------------------------------------------------------
(* What each step of a call makes of the call and of what it writes.        *)

\* A call that starts is about to ask for the approval of its manifest, or to
\* refuse the request (start).
LEMMA StartStep ==
  ASSUME IndInv, NEW p \in Procs, Start(p)
  PROVE  LET r == call[p].read.request
         IN  /\ r \in Requests
             /\ \/ Becomes(p, Committing(call[p], Asking(Manifest(r))))
                \/ Becomes(p, Committing(call[p],
                                 Failure("UNSUPPORTED_INSPIRATION_REQUEST")))
<1> DEFINE r == call[p].read.request
<1>1. r \in Requests
  BY DEF Start, IndInv, TypeOK, ReadOK, Rows, NoRow
<1>2. Asking(Manifest(r)) \in States
  BY <1>1, ManifestType, StateTypes DEF IndInv
<1>3. Failure("UNSUPPORTED_INSPIRATION_REQUEST") \in States
  BY StateTypes DEF Codes
<1>4. \/ Commits(p, Asking(Manifest(r)))
      \/ Commits(p, Failure("UNSUPPORTED_INSPIRATION_REQUEST"))
  BY DEF Start
<1> QED
  BY <1>1, <1>2, <1>3, <1>4, CommittingCall DEF IndInv

\* A call goes on with a grant it uses up, or ends (authorize_and_consume).
LEMMA AuthorizeStep ==
  ASSUME IndInv, NEW p \in Procs, Authorize(p)
  PROVE  LET a == call[p].action
         IN  /\ a \in Actions
             /\ \/ /\ grant[a] # NoGrant /\ ~grant[a].consumed
                   /\ grant' = [grant EXCEPT ![a].consumed = TRUE]
                   /\ Becomes(p, Moved(call[p], "acting"))
                \/ Becomes(p, Idle) /\ UNCHANGED grant
<1>1. call[p].action \in Actions
  BY CallFields DEF Authorize, IndInv, TypeOK, CallOK, Answering
<1> QED
  BY <1>1, MovedCall, IdleCall DEF Authorize, IndInv

\* A call that rejects or cancels is about to commit so.
LEMMA StopStep ==
  ASSUME IndInv, NEW p \in Procs, Stop(p)
  PROVE  Becomes(p, Committing(call[p], State("CANCELLED")))
<1>1. State("CANCELLED") \in States
  BY StateTypes DEF Terminal
<1> QED
  BY <1>1, CommittingCall DEF Stop, IndInv

\* A call that breaks is about to commit a failure.
LEMMA BrokenCall ==
  ASSUME TypeOK, NEW p \in Procs, NEW c \in Codes, Commits(p, Failure(c))
  PROVE  Becomes(p, Committing(call[p], Failure(c)))
  BY StateTypes, CommittingCall

\* A call that executes runs what it prepared, or breaks (_execute).
LEMMA ExecuteStep ==
  ASSUME IndInv, NEW p \in Procs, Execute(p)
  PROVE  \/ /\ Prepared(p)
            /\ executions' = Append(executions,
                                    Manifest(call[p].read.request))
            /\ Becomes(p, Moved(call[p], "searching"))
         \/ /\ UNCHANGED executions
            /\ Becomes(p, Committing(call[p],
                                     Failure("ADAPTER_EXECUTION_ERROR")))
  BY MovedCall, BrokenCall DEF Execute, IndInv, Codes

\* A page is filed with the answer of the search, or the call breaks.
LEMMA WritePageStep ==
  ASSUME IndInv, NEW p \in Procs, WritePage(p)
  PROVE  \/ /\ pageFile' = call[p].answer
            /\ UNCHANGED <<attemptsFile, reportFile>>
            /\ Becomes(p, Moved(call[p], "attempts"))
         \/ /\ UNCHANGED files
            /\ Becomes(p, Committing(call[p],
                                     Failure("ADAPTER_EXECUTION_ERROR")))
  BY MovedCall, BrokenCall DEF WritePage, Breaks, IndInv, Codes

\* The attempts are filed for any answer; only an answer goes on to publish.
LEMMA WriteAttemptsStep ==
  ASSUME IndInv, NEW p \in Procs, WriteAttempts(p)
  PROVE  \/ /\ attemptsFile' = call[p].answer /\ UNCHANGED <<pageFile, reportFile>>
            /\ call[p].answer # "down"
            /\ Becomes(p, Moved(call[p], "publishing"))
         \/ /\ attemptsFile' \in {attemptsFile, call[p].answer}
            /\ UNCHANGED <<pageFile, reportFile>>
            /\ \E c \in Codes : Becomes(p, Committing(call[p], Failure(c)))
<1>1. /\ "ADAPTER_EXECUTION_ERROR" \in Codes
      /\ "EXTERNAL_SEARCH_UNAVAILABLE" \in Codes
  BY DEF Codes
<1>2. CASE Conflicts(p, attemptsFile)
  BY <1>1, <1>2, BrokenCall DEF WriteAttempts, Breaks, IndInv
<1>3. CASE ~Conflicts(p, attemptsFile) /\ call[p].answer = "down"
  BY <1>1, <1>3, BrokenCall DEF WriteAttempts, IndInv
<1>4. CASE ~Conflicts(p, attemptsFile) /\ call[p].answer # "down"
  BY <1>4, MovedCall DEF WriteAttempts, IndInv
<1> QED
  BY <1>2, <1>3, <1>4

\* A success has filed its own report first; no report is overwritten.
LEMMA PublishStep ==
  ASSUME IndInv, NEW p \in Procs, Publish(p) \/ Overruns(p)
  PROVE  /\ UNCHANGED <<pageFile, attemptsFile>>
         /\ \/ /\ reportFile \in {NoPage, call[p].answer}
               /\ reportFile' = call[p].answer
               /\ call[p].answer \notin Unfit
               /\ Becomes(p, Committing(call[p], State("SUCCEEDED")))
            \/ /\ \/ UNCHANGED reportFile
                  \/ /\ reportFile \in {NoPage, call[p].answer}
                     /\ reportFile' = call[p].answer
               /\ \E c \in Codes : Becomes(p, Committing(call[p], Failure(c)))
<1>1. /\ "ADAPTER_EXECUTION_ERROR" \in Codes
      /\ "ADAPTER_CONTRACT_ERROR" \in Codes
  BY DEF Codes
<1>2. State("SUCCEEDED") \in States
  BY StateTypes DEF Terminal
<1>3. CASE Overruns(p)
  BY <1>1, <1>3, BrokenCall DEF Overruns, Breaks, IndInv
<1>4. CASE Publish(p) /\ Conflicts(p, reportFile)
  BY <1>1, <1>4, BrokenCall DEF Publish, Breaks, IndInv
<1>5. CASE /\ Publish(p) /\ ~Conflicts(p, reportFile)
           /\ call[p].answer \in Unfit
  BY <1>1, <1>5, BrokenCall DEF Publish, Conflicts, IndInv
<1>6. CASE /\ Publish(p) /\ ~Conflicts(p, reportFile)
           /\ call[p].answer \notin Unfit
  BY <1>2, <1>6, CommittingCall DEF Publish, Conflicts, IndInv
<1> QED
  BY <1>3, <1>4, <1>5, <1>6

\* A transition is committed to the row it was made for (replace_run).
LEMMA CommitStep ==
  ASSUME IndInv, NEW p \in Procs, Commit(p)
  PROVE  /\ Becomes(p, Idle)
         /\ \/ UNCHANGED <<row, result>>
            \/ /\ row.revision = call[p].read.revision
               /\ row \in Rows
               /\ row' = [request |-> row.request,
                          revision |-> row.revision + 1,
                          state |-> call[p].next]
               /\ row' \in Rows
               /\ result' = IF call[p].next.status = "SUCCEEDED"
                              THEN call[p].answer ELSE result
<1>1. Becomes(p, Idle)
  BY IdleCall DEF Commit, IndInv
<1>2. row \in Rows
  BY DEF Commit, IndInv, TypeOK, ReadOK
<1>3. call[p].next \in States
  <2>1. call[p].next.status \in {"SUCCEEDED", "FAILED", "CANCELLED",
                                 "INTERACTION_REQUIRED"}
    BY DEF Commit, IndInv, CallOK
  <2>2. call[p].next \in States \cup {State("NONE")}
    BY CallFields DEF IndInv, TypeOK
  <2> QED
    BY <2>1, <2>2 DEF State
<1>4. CASE Unrevised(p)
  <2> DEFINE d == [row EXCEPT !.revision = call[p].read.revision + 1]
             e == [d EXCEPT !.state = call[p].next]
  <2>1. row.revision = call[p].read.revision /\ row.revision \in Nat
    BY <1>2, <1>4 DEF Unrevised, Rows
  <2>2. d = [request |-> row.request, revision |-> row.revision + 1,
             state |-> row.state]
    BY <1>2, <2>1 DEF Rows
  <2>3. e = [request |-> row.request, revision |-> row.revision + 1,
             state |-> call[p].next]
    <3> HIDE DEF d
    <3> QED
      BY <2>2
  <2>4. row' = e /\ result' = IF call[p].next.status = "SUCCEEDED"
                                THEN call[p].answer ELSE result
    BY <1>4 DEF Commit
  <2>5. e \in Rows
    BY <1>2, <1>3, <2>1, <2>3 DEF Rows
  <2> QED
    BY <1>1, <1>2, <2>1, <2>3, <2>4, <2>5
<1>5. CASE ~Unrevised(p)
  BY <1>1, <1>5 DEF Commit
<1> QED
  BY <1>4, <1>5

-----------------------------------------------------------------------------
\* A step of a call between its authorization and its commit.
Works(p) ==
  \/ Start(p) \/ Stop(p) \/ Execute(p) \/ Search(p)
  \/ WritePage(p) \/ WriteAttempts(p) \/ Overruns(p) \/ Publish(p)

\* It keeps the action and the row the call carries and touches no table.
LEMMA WorkStep ==
  ASSUME IndInv, NEW p \in Procs, Works(p)
  PROVE  /\ UNCHANGED <<row, result, grant, recoveries, operator, build,
                        crashes>>
         /\ Becomes(p, call'[p])
         /\ call'[p].action = call[p].action /\ call'[p].read = call[p].read
         /\ call[p].pc \notin {"idle", "authorizing"}
         /\ call'[p].pc \notin {"idle", "authorizing", "starting", "acting"}
<1>1. UNCHANGED <<row, result, grant, recoveries, operator, build, crashes>>
  BY DEF Works, Start, Stop, Execute, Search, WritePage, WriteAttempts,
         Overruns, Publish
<1>2. call[p].pc \notin {"idle", "authorizing"}
  BY DEF Works, Start, Stop, Execute, Search, WritePage, WriteAttempts,
         Overruns, Publish
<1>3. \/ \E s : Becomes(p, Committing(call[p], s))
      \/ \E pc \in {"searching", "attempts", "publishing"} :
           Becomes(p, Moved(call[p], pc))
      \/ \E pc \in {"attempts", "page"} : \E x :
           Becomes(p, [Moved(call[p], pc) EXCEPT !.answer = x])
  BY StartStep, StopStep, ExecuteStep, SearchedCall, WritePageStep,
     WriteAttemptsStep, PublishStep DEF Works, IndInv
<1>4. CASE \E s : Becomes(p, Committing(call[p], s))
  BY <1>1, <1>2, <1>4 DEF Becomes, Committing
<1>5. CASE \E pc \in {"searching", "attempts", "publishing"} :
             Becomes(p, Moved(call[p], pc))
  BY <1>1, <1>2, <1>5 DEF Becomes, Moved
<1>6. CASE \E pc \in {"attempts", "page"} : \E x :
             Becomes(p, [Moved(call[p], pc) EXCEPT !.answer = x])
  BY <1>1, <1>2, <1>6 DEF Becomes, Moved
<1> QED
  BY <1>3, <1>4, <1>5, <1>6

\* A call ends when it has committed, or dies.
Ends(p) == Commit(p) \/ Crash(p)

\* An ending call writes the row and its result at most.
LEMMA EndStep ==
  ASSUME IndInv, NEW p \in Procs, Ends(p)
  PROVE  /\ UNCHANGED <<grant, recoveries, operator, build, executions>>
         /\ UNCHANGED <<pageFile, attemptsFile, reportFile>>
         /\ ~At(p, "idle") /\ Becomes(p, Idle)
  BY CommitStep, IdleCall DEF Ends, Commit, Crash, IndInv

\* The operator, and who installs components, change no call.
Outside ==
  \/ \E mode \in {"issue", "recover"}, a \in Actions, ref \in References :
       OperatorReads(mode, a, ref)
  \/ Issue \/ Recover \/ Upgrade \/ UNCHANGED vars

\* Nothing outside the calls writes what the calls write.
LEMMA OutsideStep ==
  ASSUME Outside
  PROVE  /\ UNCHANGED <<row, result, call, executions>>
         /\ UNCHANGED <<pageFile, attemptsFile, reportFile, crashes>>
  BY DEF Outside, OperatorReads, Issue, Recover, Upgrade, OperatorEnds, vars

\* A grant that is used up or armed again keeps what it was given for.
LEMMA GrantFields ==
  ASSUME NEW g \in Grants, NEW used \in BOOLEAN, NEW r
  PROVE  /\ [g EXCEPT !.consumed = used]
              = [ref |-> g.ref, consumed |-> used, manifest |-> g.manifest]
         /\ [[g EXCEPT !.consumed = used] EXCEPT !.ref = r]
              = [ref |-> r, consumed |-> used, manifest |-> g.manifest]
         /\ g.ref \in References /\ g.manifest \in Manifests
<1> DEFINE d == [g EXCEPT !.consumed = used]
<1>1. d = [ref |-> g.ref, consumed |-> used, manifest |-> g.manifest]
  BY DEF Grants
<1>2. [d EXCEPT !.ref = r]
        = [ref |-> r, consumed |-> used, manifest |-> g.manifest]
  <2> HIDE DEF d
  <2> QED
    BY <1>1
<1> QED
  BY <1>1, <1>2 DEF Grants

\* A recovered grant is the one that was used up, armed again with a
\* confirmation that was not used for it (recover_consumed_grant).
LEMMA RecoverStep ==
  ASSUME IndInv, Recover
  PROVE  LET a == operator.action
             g == [ref |-> operator.ref, consumed |-> FALSE,
                   manifest |-> grant[a].manifest]
             c == [action |-> a, ref |-> operator.ref]
         IN  /\ a \in Actions /\ operator.ref \in References
             /\ grant[a] \in Grants /\ grant[a].consumed
             /\ \/ /\ g \in Grants /\ c \notin recoveries
                   /\ grant' = [grant EXCEPT ![a] = g]
                   /\ recoveries' = recoveries \cup {c}
                \/ UNCHANGED <<grant, recoveries>>
<1> DEFINE a == operator.action
           d == [grant[a] EXCEPT !.consumed = FALSE]
           e == [d EXCEPT !.ref = operator.ref]
           g == [ref |-> operator.ref, consumed |-> FALSE,
                 manifest |-> grant[a].manifest]
<1>1. /\ a \in Actions /\ operator.ref \in References
      /\ grant[a] \in Grants /\ grant[a].consumed
  BY DEF Recover, IndInv, GrantOK, TypeOK, NoGrant
<1>3. e = g
  BY <1>1, GrantFields
<1>4. g \in Grants
  BY <1>1 DEF Grants
<1>5. CASE Recoverable
  <2>1. grant' = [grant EXCEPT ![a] = e]
    <3> DEFINE h == [grant EXCEPT ![a] = d]
    <3>1. grant' = [h EXCEPT ![a] = [h[a] EXCEPT !.ref = operator.ref]]
      BY <1>5, <1>1 DEF Recover, TypeOK, IndInv
    <3>2. h[a] = d /\ h \in [Actions -> Grants \cup {NoGrant, d}]
      BY <1>1 DEF TypeOK, IndInv
    <3> QED
      BY <1>1, <3>1, <3>2 DEF TypeOK, IndInv
  <2> QED
    BY <1>1, <1>3, <1>4, <1>5, <2>1 DEF Recover, Recoverable
<1>6. CASE ~Recoverable
  BY <1>1, <1>6 DEF Recover
<1> QED
  BY <1>5, <1>6

-----------------------------------------------------------------------------
(* The invariant holds initially and every step keeps it.                   *)

\* Every step is of one of these kinds.
LEMMA NextSplit ==
  ASSUME [Next]_vars
  PROVE  \/ \E p \in Procs :
              \/ \E r \in Requests : Submit(p, r)
              \/ \E a \in Actions : Act(p, a)
              \/ Authorize(p) \/ Works(p) \/ Ends(p)
         \/ Outside
  BY DEF Next, CallStep, Works, Ends, Outside

\* Types are kept (gateway_runs, one_time_action_grants, artifacts).
LEMMA TypeStep == IndInv /\ [Next]_vars => TypeOK'
<1> SUFFICES ASSUME IndInv, [Next]_vars PROVE TypeOK'
  OBVIOUS
<1>0. TypeOK
  BY DEF IndInv
<1>1. ASSUME NEW p \in Procs, NEW r \in Requests, Submit(p, r) PROVE TypeOK'
  <2>1. row' \in Rows /\ call' \in [Procs -> Calls]
    BY <1>0, <1>1, SubmittedCall DEF Becomes
  <2>2. UNCHANGED <<result, grants, files, world, executions>>
    BY <1>1 DEF Submit
  <2> QED
    BY <1>0, <2>1, <2>2 DEF TypeOK
<1>2. ASSUME NEW p \in Procs, NEW a \in Actions, Act(p, a) PROVE TypeOK'
  <2>1. call' \in [Procs -> Calls]
    BY <1>0, <1>2, ActingCall DEF Becomes
  <2>2. UNCHANGED <<database, grants, files, world, executions>>
    BY <1>2 DEF Act
  <2> QED
    BY <1>0, <2>1, <2>2 DEF TypeOK
<1>3. ASSUME NEW p \in Procs, Authorize(p) PROVE TypeOK'
  <2>1. call' \in [Procs -> Calls] /\ call[p].action \in Actions
    BY <1>3, AuthorizeStep DEF Becomes
  <2>2. UNCHANGED <<database, recoveries, files, world, executions>>
    BY <1>3 DEF Authorize
  <2>3. grant' \in [Actions -> Grants \cup {NoGrant}]
    <3>1. CASE UNCHANGED grant
      BY <1>0, <3>1 DEF TypeOK
    <3>2. CASE /\ grant[call[p].action] # NoGrant
               /\ grant' = [grant EXCEPT ![call[p].action].consumed = TRUE]
      <4>1. grant[call[p].action] \in Grants
        BY <1>0, <2>1, <3>2 DEF TypeOK
      <4>2. [grant[call[p].action] EXCEPT !.consumed = TRUE] \in Grants
        BY <4>1 DEF Grants
      <4> QED
        BY <1>0, <3>2, <4>2 DEF TypeOK
    <3> QED
      BY <1>3, <3>1, <3>2, AuthorizeStep
  <2> QED
    BY <1>0, <2>1, <2>2, <2>3 DEF TypeOK
<1>4. ASSUME NEW p \in Procs, Works(p) PROVE TypeOK'
  <2>1. UNCHANGED <<row, result, grant, recoveries, operator, build, crashes>>
    BY <1>4, WorkStep
  <2>2. call' \in [Procs -> Calls]
    BY <1>4, WorkStep DEF Becomes
  <2>3. /\ {pageFile', reportFile'} \subseteq Pages \cup {NoPage}
        /\ attemptsFile' \in Answers \cup {NoPage}
    <3>1. CASE WritePage(p)
      <4>1. call[p].answer \in Pages
        BY <3>1 DEF WritePage, IndInv, CallOK
      <4> QED
        BY <1>0, <3>1, <4>1, WritePageStep DEF TypeOK
    <3>2. CASE WriteAttempts(p)
      <4>1. call[p].answer \in Answers
        BY <3>2 DEF WriteAttempts, IndInv, CallOK
      <4> QED
        BY <1>0, <3>2, <4>1, WriteAttemptsStep DEF TypeOK
    <3>3. CASE Publish(p) \/ Overruns(p)
      <4>1. call[p].answer \in Pages
        BY <3>3 DEF Publish, Overruns, IndInv, CallOK
      <4> QED
        BY <1>0, <3>3, <4>1, PublishStep DEF TypeOK
    <3>4. CASE Start(p) \/ Stop(p) \/ Execute(p) \/ Search(p)
      BY <1>0, <3>4 DEF TypeOK, Start, Stop, Execute, Search
    <3> QED
      BY <1>4, <3>1, <3>2, <3>3, <3>4 DEF Works
  <2>4. executions' \in Seq(Manifests)
    <3>1. CASE Execute(p)
      <4>1. call[p].read.request \in Requests
        BY <3>1 DEF Execute, IndInv, TypeOK, ReadOK, Rows, NoRow
      <4>2. Manifest(call[p].read.request) \in Manifests
        BY <1>0, <4>1, ManifestType
      <4> QED
        BY <1>0, <3>1, <4>2, ExecuteStep DEF TypeOK
    <3>2. CASE ~Execute(p)
      BY <1>0, <1>4, <3>2
         DEF TypeOK, Works, Start, Stop, Search, WritePage, WriteAttempts,
             Overruns, Publish
    <3> QED
      BY <3>1, <3>2
  <2> QED
    BY <1>0, <2>1, <2>2, <2>3, <2>4 DEF TypeOK
<1>5. ASSUME NEW p \in Procs, Ends(p) PROVE TypeOK'
  <2>1. call' \in [Procs -> Calls]
    BY <1>5, EndStep DEF Becomes
  <2>2. /\ UNCHANGED <<grant, recoveries, operator, build, executions>>
        /\ UNCHANGED <<pageFile, attemptsFile, reportFile>>
    BY <1>5, EndStep
  <2>3. row' \in Rows \cup {NoRow} /\ result' \in Pages \cup {NoPage}
    <3>1. CASE Commit(p)
      <4>1. call[p].next.status = "SUCCEEDED" => call[p].answer \in Pages
        BY <3>1 DEF Commit, IndInv, ResultOK
      <4> QED
        BY <1>0, <3>1, <4>1, CommitStep DEF TypeOK
    <3>2. CASE Crash(p)
      BY <1>0, <3>2 DEF Crash, TypeOK
    <3> QED
      BY <1>5, <3>1, <3>2 DEF Ends
  <2>4. crashes' \in 0..MaxCrashes
    BY <1>0, <1>5 DEF Ends, Commit, Crash, TypeOK
  <2> QED
    BY <1>0, <2>1, <2>2, <2>3, <2>4 DEF TypeOK
<1>6. CASE Outside
  <2>1. /\ UNCHANGED <<row, result, call, executions>>
        /\ UNCHANGED <<pageFile, attemptsFile, reportFile, crashes>>
    BY <1>6, OutsideStep
  <2> DEFINE Typed ==
               /\ grant' \in [Actions -> Grants \cup {NoGrant}]
               /\ recoveries' \subseteq [action : Actions, ref : References]
               /\ operator' \in [mode : {"none", "issue", "recover"},
                                 action : Actions \cup {"none"},
                                 ref : References \cup {NoReference},
                                 manifest : Manifests \cup {NoManifest}]
               /\ build' \in Builds
  <2>2. Typed
    <3>1. ASSUME NEW mode \in {"issue", "recover"}, NEW a \in Actions,
                 NEW ref \in References, OperatorReads(mode, a, ref)
          PROVE  Typed
      <4>1. Current \in Manifests \cup {NoManifest}
        BY <1>0, <3>1 DEF OperatorReads, TypeOK, Current, Pending, Rows,
                          States, NoRow, State
      <4> QED
        BY <1>0, <3>1, <4>1 DEF OperatorReads, TypeOK
    <3>2. CASE Issue
      <4>1. /\ operator.action \in Actions /\ operator.ref \in References
            /\ operator.manifest \in Manifests
        BY <3>2 DEF Issue, IndInv, GrantOK, RowOK, ManifestOK, About
      <4>2. [ref |-> operator.ref, consumed |-> FALSE,
             manifest |-> operator.manifest] \in Grants
        BY <4>1 DEF Grants
      <4>3. NoOperator \in [mode : {"none", "issue", "recover"},
                            action : Actions \cup {"none"},
                            ref : References \cup {NoReference},
                            manifest : Manifests \cup {NoManifest}]
        BY DEF NoOperator
      <4>4. grant' \in [Actions -> Grants \cup {NoGrant}]
        BY <1>0, <3>2, <4>1, <4>2 DEF Issue, TypeOK
      <4>5. operator' = NoOperator /\ UNCHANGED <<recoveries, build>>
        BY <3>2 DEF Issue, OperatorEnds
      <4> QED
        BY <1>0, <4>3, <4>4, <4>5 DEF TypeOK
    <3>3. CASE Recover
      <4>1. /\ operator' = NoOperator /\ UNCHANGED build
            /\ NoOperator \in [mode : {"none", "issue", "recover"},
                               action : Actions \cup {"none"},
                               ref : References \cup {NoReference},
                               manifest : Manifests \cup {NoManifest}]
        BY <3>3 DEF Recover, OperatorEnds, NoOperator
      <4>2. /\ grant' \in [Actions -> Grants \cup {NoGrant}]
            /\ recoveries' \subseteq [action : Actions, ref : References]
        <5> DEFINE a == operator.action
        <5>1. CASE UNCHANGED <<grant, recoveries>>
          BY <1>0, <5>1 DEF TypeOK
        <5>2. ASSUME NEW g \in Grants, grant' = [grant EXCEPT ![a] = g],
                     recoveries' = recoveries
                                     \cup {[action |-> a, ref |-> operator.ref]},
                     a \in Actions, operator.ref \in References
              PROVE  <4>2
          BY <1>0, <5>2 DEF TypeOK
        <5> QED
          BY <3>3, <5>1, <5>2, RecoverStep
      <4> QED
        BY <1>0, <4>1, <4>2 DEF TypeOK
    <3>4. CASE Upgrade
      <4>1. UNCHANGED <<grant, recoveries, operator>> /\ build' \in Builds
        BY <3>4 DEF Upgrade
      <4> QED
        BY <1>0, <4>1 DEF TypeOK
    <3>5. CASE UNCHANGED vars
      BY <1>0, <3>5 DEF vars, TypeOK
    <3> QED
      BY <1>6, <3>1, <3>2, <3>3, <3>4, <3>5 DEF Outside
  <2> QED
    BY <1>0, <2>1, <2>2 DEF TypeOK
<1> QED
  BY <1>1, <1>2, <1>3, <1>4, <1>5, <1>6, NextSplit

\* The row's revision tells how far the submission got (replace_run).
LEMMA RowStep == IndInv /\ [Next]_vars => RowOK'
<1> SUFFICES ASSUME IndInv, [Next]_vars PROVE RowOK'
  OBVIOUS
<1>1. ASSUME NEW p \in Procs, NEW r \in Requests, Submit(p, r) PROVE RowOK'
  <2>1. row' = [request |-> r, revision |-> 0, state |-> State("RUNNING")]
    BY <1>1 DEF Submit
  <2>2. row' # NoRow
    BY <2>1 DEF NoRow
  <2> QED
    BY <2>1, <2>2 DEF RowOK, State
<1>2. ASSUME NEW p \in Procs, NEW a \in Actions, Act(p, a) PROVE RowOK'
  <2>1. UNCHANGED <<row, result, executions, operator>>
    BY <1>2 DEF Act
  <2> QED
    BY <2>1 DEF IndInv, RowOK
<1>3. ASSUME NEW p \in Procs, Authorize(p) PROVE RowOK'
  <2>1. UNCHANGED <<row, result, executions, operator>>
    BY <1>3 DEF Authorize
  <2> QED
    BY <2>1 DEF IndInv, RowOK
<1>4. ASSUME NEW p \in Procs, Works(p) PROVE RowOK'
  <2>1. UNCHANGED <<row, result, operator>> /\ call[p].pc # "idle"
    BY <1>4, WorkStep
  <2>2. row # NoRow
    BY <2>1 DEF IndInv, ReadOK
  <2> QED
    BY <2>1, <2>2 DEF IndInv, RowOK
<1>5. ASSUME NEW p \in Procs, Ends(p) PROVE RowOK'
  <2>1. row # NoRow
    BY <1>5 DEF Ends, Commit, Crash, IndInv, ReadOK
  <2>2. CASE UNCHANGED <<row, result>>
    BY <2>1, <2>2 DEF IndInv, RowOK
  <2>3. ASSUME Commit(p), row.revision = call[p].read.revision,
               row' = [request |-> row.request,
                       revision |-> row.revision + 1,
                       state |-> call[p].next]
        PROVE  RowOK'
    <3>1. row'.request = row.request /\ row' # NoRow
      BY <2>3 DEF Commit, IndInv, ReadOK, TypeOK, Rows, NoRow
    <3>2. CASE Answering(p)
      <4>1. row'.revision = 2
        BY <2>3, <3>2 DEF IndInv, ReadOK
      <4>2. row'.state.status \in Terminal
        BY <2>3, <3>2 DEF Commit, IndInv, CallOK, Answering, Terminal
      <4> QED
        BY <3>1, <4>1, <4>2 DEF RowOK
    <3>3. CASE ~Answering(p)
      <4>1. row'.revision = 1
        BY <2>3, <3>3 DEF Commit, IndInv, ReadOK
      <4>2. row'.state.status \in {"INTERACTION_REQUIRED", "FAILED"}
        BY <2>3, <3>3 DEF Commit, IndInv, CallOK, Answering
      <4> QED
        BY <3>1, <4>1, <4>2 DEF RowOK
    <3> QED
      BY <3>2, <3>3
  <2> QED
    BY <1>5, <2>2, <2>3, CommitStep DEF Ends, Crash
<1>6. CASE Outside
  <2>1. UNCHANGED <<row, result, executions>>
    BY <1>6, OutsideStep
  <2>2. row = NoRow => operator'.mode = "none"
    BY <1>6 DEF Outside, OperatorReads, Issue, Recover, Upgrade, OperatorEnds,
                vars, NoOperator, IndInv, RowOK, Pending, NoRow, State
  <2> QED
    BY <2>1, <2>2 DEF IndInv, RowOK
<1> QED
  BY <1>1, <1>2, <1>3, <1>4, <1>5, <1>6, NextSplit

\* What every call but the one at hand satisfies, it still satisfies.
LEMMA CallsStep == IndInv /\ [Next]_vars => CallOK'
<1> SUFFICES ASSUME IndInv, [Next]_vars PROVE CallOK'
  OBVIOUS
<1> DEFINE OK(c) ==
      /\ c.pc = "idle" => c = Idle
      /\ c.pc = "starting" => c.action = "none"
      /\ c.action = "none" => c.pc \in {"idle", "starting", "committing"}
      /\ c.pc \in {"searching", "page", "attempts", "publishing"} =>
           c.action = "approve"
      /\ c.pc \in {"page", "publishing"} => c.answer \in Pages
      /\ c.pc = "attempts" => c.answer \in Answers
      /\ c.pc = "committing" =>
           c.next.status \in
             (CASE c.action = "approve" -> {"SUCCEEDED", "FAILED"}
                [] c.action = "none" -> {"INTERACTION_REQUIRED", "FAILED"}
                [] OTHER -> {"CANCELLED"})
<1>0. \A p \in Procs : OK(call[p])
  BY DEF IndInv, CallOK, Answering, Executing
<1>1. ASSUME NEW p \in Procs, NEW c, Becomes(p, c), OK(c) PROVE CallOK'
  <2>1. \A q \in Procs : OK(call'[q])
    BY <1>0, <1>1 DEF Becomes
  <2> HIDE DEF OK
  <2> QED
    BY <2>1 DEF CallOK, Answering, Executing, OK
<1>2. ASSUME NEW p \in Procs, NEW r \in Requests, Submit(p, r) PROVE CallOK'
  <2> DEFINE c == [pc |-> "starting", action |-> "none", read |-> row',
                   answer |-> NoPage, next |-> State("NONE")]
  <2>1. Becomes(p, c)
    BY <1>2, SubmittedCall DEF IndInv
  <2> QED
    BY <1>1, <2>1
<1>3. ASSUME NEW p \in Procs, NEW a \in Actions, Act(p, a) PROVE CallOK'
  <2> DEFINE c == [pc |-> "authorizing", action |-> a, read |-> row,
                   answer |-> NoPage, next |-> State("NONE")]
  <2>1. Becomes(p, c)
    BY <1>3, ActingCall DEF IndInv
  <2> QED
    BY <1>1, <2>1
<1>4. OK(Idle)
  BY DEF Idle
<1>5. ASSUME NEW p \in Procs, Authorize(p) PROVE CallOK'
  <2>1. OK(Moved(call[p], "acting"))
    BY <1>5, AuthorizeStep DEF Moved
  <2> QED
    BY <1>1, <1>4, <1>5, <2>1, AuthorizeStep
<1>6. ASSUME NEW p \in Procs, Start(p) PROVE CallOK'
  <2>1. call[p].action = "none"
    BY <1>6 DEF Start, IndInv, CallOK, Answering
  <2>2. ASSUME NEW m PROVE OK(Committing(call[p], Asking(m)))
    BY <2>1 DEF Committing, Asking
  <2>3. ASSUME NEW x PROVE OK(Committing(call[p], Failure(x)))
    BY <2>1 DEF Committing, Failure
  <2> HIDE DEF OK
  <2> QED
    BY <1>1, <1>6, <2>2, <2>3, StartStep
<1>7. ASSUME NEW p \in Procs, Stop(p) PROVE CallOK'
  <2>1. OK(Committing(call[p], State("CANCELLED")))
    BY <1>0, <1>7 DEF Stop, Committing, State
  <2> HIDE DEF OK
  <2> QED
    BY <1>1, <1>7, <2>1, StopStep
<1>8. ASSUME NEW p \in Procs,
             Execute(p) \/ Search(p) \/ WritePage(p) \/ WriteAttempts(p)
               \/ Overruns(p) \/ Publish(p)
      PROVE  CallOK'
  <2>1. call[p].action = "approve"
    BY <1>8 DEF Execute, Search, WritePage, WriteAttempts, Overruns, Publish,
                IndInv, CallOK, Executing
  <2>2. ASSUME NEW x PROVE OK(Committing(call[p], Failure(x)))
    BY <2>1 DEF Committing, Failure
  <2>3. OK(Committing(call[p], State("SUCCEEDED")))
    BY <2>1 DEF Committing, State
  <2>4. OK(Moved(call[p], "searching"))
    BY <2>1 DEF Moved
  <2>5. OK([Moved(call[p], "attempts") EXCEPT !.answer = "down"])
    BY <2>1 DEF Moved, Answers
  <2>6. ASSUME NEW x \in Pages
        PROVE  OK([Moved(call[p], "page") EXCEPT !.answer = x])
    BY <2>1 DEF Moved
  <2>7. WritePage(p) => OK(Moved(call[p], "attempts"))
    BY <1>0, <2>1 DEF WritePage, Moved, Answers
  <2>8. WriteAttempts(p) /\ call[p].answer # "down" =>
          OK(Moved(call[p], "publishing"))
    BY <1>0, <2>1 DEF WriteAttempts, Moved, Answers
  <2> HIDE DEF OK
  <2>9. CASE Execute(p)
    BY <1>1, <2>2, <2>4, <2>9, ExecuteStep
  <2>10. CASE Search(p)
    BY <1>1, <2>5, <2>6, <2>10, SearchedCall DEF IndInv
  <2>11. CASE WritePage(p)
    BY <1>1, <2>2, <2>7, <2>11, WritePageStep
  <2>12. CASE WriteAttempts(p)
    BY <1>1, <2>2, <2>8, <2>12, WriteAttemptsStep
  <2>13. CASE Overruns(p) \/ Publish(p)
    BY <1>1, <2>2, <2>3, <2>13, PublishStep
  <2> QED
    BY <1>8, <2>9, <2>10, <2>11, <2>12, <2>13
<1>9. ASSUME NEW p \in Procs, Works(p) PROVE CallOK'
  BY <1>6, <1>7, <1>8, <1>9 DEF Works
<1>10. ASSUME NEW p \in Procs, Ends(p) PROVE CallOK'
  BY <1>1, <1>4, <1>10, EndStep
<1>11. CASE Outside
  <2>1. UNCHANGED call
    BY <1>11, OutsideStep
  <2> QED
    BY <2>1 DEF IndInv, CallOK, Answering, Executing
<1> QED
  BY <1>2, <1>3, <1>5, <1>9, <1>10, <1>11, NextSplit

\* A call that answers the question holds the row that asks it.
LEMMA ReadStep == IndInv /\ [Next]_vars => ReadOK'
<1> SUFFICES ASSUME IndInv, [Next]_vars PROVE ReadOK'
  OBVIOUS
<1> DEFINE OK(c, r) ==
      /\ c.pc # "idle" => r # NoRow /\ c.read.request = r.request
      /\ c.pc # "idle" /\ c.action = "none" =>
           c.read.revision = 0 /\ c.read.state.status = "RUNNING"
      /\ c.action # "none" =>
           /\ c.read.revision = 1
           /\ c.read.state.status = "INTERACTION_REQUIRED"
           /\ r = c.read \/ r.revision = 2
<1>0. \A p \in Procs : OK(call[p], row)
  BY DEF IndInv, ReadOK, Answering
<1>1. ASSUME NEW p \in Procs, NEW c, Becomes(p, c), OK(c, row),
             UNCHANGED row
      PROVE  ReadOK'
  <2>1. \A q \in Procs : OK(call'[q], row')
    BY <1>0, <1>1 DEF Becomes
  <2> HIDE DEF OK
  <2> QED
    BY <2>1 DEF ReadOK, Answering, OK
<1>2. OK(Idle, row)
  BY DEF Idle
<1>3. ASSUME NEW p \in Procs, NEW r \in Requests, Submit(p, r) PROVE ReadOK'
  <2>1. /\ row = NoRow
        /\ row' = [request |-> r, revision |-> 0, state |-> State("RUNNING")]
        /\ row' # NoRow
    BY <1>3 DEF Submit, NoRow
  <2>2. ASSUME NEW q \in Procs PROVE OK(call'[q], row')
    <3>1. CASE q = p
      BY <1>3, <2>1, <3>1, SubmittedCall DEF IndInv, Becomes, State
    <3>2. CASE q # p
      <4>1. call'[q] = call[q]
        BY <1>3, <3>2, SubmittedCall DEF IndInv, Becomes
      <4>2. call[q] = Idle
        BY <2>1 DEF IndInv, ReadOK, CallOK
      <4> QED
        BY <4>1, <4>2 DEF Idle
    <3> QED
      BY <3>1, <3>2
  <2> HIDE DEF OK
  <2> QED
    BY <2>2 DEF ReadOK, Answering, OK
<1>4. ASSUME NEW p \in Procs, NEW a \in Actions, Act(p, a) PROVE ReadOK'
  <2> DEFINE c == [pc |-> "authorizing", action |-> a, read |-> row,
                   answer |-> NoPage, next |-> State("NONE")]
  <2>1. Becomes(p, c) /\ UNCHANGED row
    BY <1>4, ActingCall DEF Act, IndInv
  <2>2. Pending /\ row # NoRow /\ row.revision = 1
    BY <1>4 DEF Act, IndInv, RowOK, Pending, NoRow, State, Terminal
  <2>3. OK(c, row)
    BY <2>2 DEF Pending
  <2> QED
    BY <1>1, <2>1, <2>3
<1>5. ASSUME NEW p \in Procs, Authorize(p) PROVE ReadOK'
  <2>1. UNCHANGED row
    BY <1>5 DEF Authorize
  <2>2. OK(Moved(call[p], "acting"), row)
    BY <1>0, <1>5 DEF Authorize, Moved
  <2> HIDE DEF OK
  <2> QED
    BY <1>1, <1>2, <1>5, <2>1, <2>2, AuthorizeStep
<1>6. ASSUME NEW p \in Procs, Works(p) PROVE ReadOK'
  <2>1. /\ UNCHANGED row /\ Becomes(p, call'[p])
        /\ call'[p].action = call[p].action /\ call'[p].read = call[p].read
        /\ call[p].pc # "idle"
    BY <1>6, WorkStep
  <2>2. OK(call'[p], row)
    BY <1>0, <2>1
  <2> QED
    BY <1>1, <2>1, <2>2
<1>7. ASSUME NEW p \in Procs, Ends(p) PROVE ReadOK'
  <2>1. Becomes(p, Idle) /\ ~At(p, "idle")
    BY <1>7, EndStep
  <2>2. CASE UNCHANGED row
    BY <1>1, <1>2, <2>1, <2>2
  <2>3. ASSUME Commit(p), row.revision = call[p].read.revision, row \in Rows,
               row' = [request |-> row.request,
                       revision |-> row.revision + 1,
                       state |-> call[p].next]
        PROVE  ReadOK'
    <3>1. row'.request = row.request /\ row' # NoRow
      BY <2>3 DEF Rows, NoRow
    <3>2. ASSUME NEW q \in Procs PROVE OK(call'[q], row')
      <4>1. CASE q = p
        BY <1>2, <2>1, <4>1 DEF Becomes, Idle
      <4>2. CASE q # p /\ call[q].action # "none"
        <5>1. row.revision = 1 \/ row.revision = 2
          BY <1>0, <4>2
        <5>2. row.revision = 1 /\ row'.revision = 2
          BY <1>0, <2>1, <2>3, <5>1
        <5> QED
          BY <1>0, <2>1, <3>1, <4>2, <5>2 DEF Becomes
      <4>3. CASE q # p /\ call[q].action = "none"
        BY <1>0, <2>1, <3>1, <4>3 DEF Becomes
      <4> QED
        BY <4>1, <4>2, <4>3
    <3> HIDE DEF OK
    <3> QED
      BY <3>2 DEF ReadOK, Answering, OK
  <2> QED
    BY <1>7, <2>2, <2>3, CommitStep DEF Ends, Crash
<1>8. CASE Outside
  <2>1. UNCHANGED <<row, call>>
    BY <1>8, OutsideStep
  <2> QED
    BY <2>1 DEF IndInv, ReadOK, Answering
<1> QED
  BY <1>3, <1>4, <1>5, <1>6, <1>7, <1>8, NextSplit

\* A grant that was not given keeps no confirmation, one that was has its own.
LEMMA GivenGrant ==
  ASSUME IndInv, NEW a \in Actions
  PROVE  /\ grant[a].consumed => grant[a] # NoGrant
         /\ grant[a] # NoGrant => grant[a] \in Grants
         /\ \A g \in Grants : g # NoGrant
  BY DEF IndInv, TypeOK, Grants, NoGrant

\* A question is not taken back: a row that was asked about stays one.
LEMMA AskedStays ==
  ASSUME IndInv, NEW p \in Procs, Ends(p), Asked
  PROVE  Asked'
<1>1. CASE UNCHANGED row
  BY <1>1 DEF Asked, Pending
<1>2. ASSUME Commit(p), row.revision = call[p].read.revision, row \in Rows,
             row' = [request |-> row.request, revision |-> row.revision + 1,
                     state |-> call[p].next]
      PROVE  Asked'
  <2>1. row # NoRow
    BY <1>2 DEF Commit, IndInv, ReadOK
  <2>2. row.revision = 1
    BY <1>2, <2>1 DEF Commit, IndInv, ReadOK, RowOK, Asked, Pending
  <2> QED
    BY <1>2, <2>2 DEF Asked
<1> QED
  BY <1>1, <1>2, CommitStep DEF Ends, Crash

\* Who spends a grant uses it, and no one else does (authorize_and_consume).
LEMMA GrantStep == IndInv /\ [Next]_vars => GrantOK'
<1> SUFFICES ASSUME IndInv, [Next]_vars PROVE GrantOK'
  OBVIOUS
<1>1. ASSUME NEW p \in Procs, NEW r \in Requests, Submit(p, r) PROVE GrantOK'
  <2>1. /\ row = NoRow /\ UNCHANGED <<grant, operator>>
        /\ row'.revision = 0 /\ row'.state.status = "RUNNING"
    BY <1>1 DEF Submit, State
  <2>2. \A q \in Procs : call[q] = Idle
    BY <2>1 DEF IndInv, ReadOK, CallOK
  <2>3. ~Asked /\ \A a \in Actions : grant[a] = NoGrant
    BY <2>1 DEF IndInv, GrantOK, Asked, Pending, NoRow, State
  <2>4. operator.mode = "none"
    BY <2>1 DEF IndInv, RowOK
  <2>5. \A q \in Procs : call'[q].action = "none"
    BY <1>1, <2>2, SubmittedCall DEF IndInv, Becomes, Idle
  <2> QED
    BY <2>1, <2>3, <2>4, <2>5 DEF GrantOK, Using, InUse
<1>2. ASSUME \A q \in Procs, a \in Actions : Using(q, a)' => Using(q, a),
             UNCHANGED <<row, grant, operator>>
      PROVE  GrantOK'
  <2>1. Asked' = Asked
    BY <1>2 DEF Asked, Pending
  <2>2. \A a \in Actions : InUse(a)' => InUse(a)
    BY <1>2 DEF InUse, Using
  <2> HIDE DEF Using
  <2> QED
    BY <1>2, <2>1, <2>2 DEF IndInv, GrantOK
<1>3. ASSUME NEW p \in Procs, NEW a \in Actions, Act(p, a) PROVE GrantOK'
  <2>1. UNCHANGED <<row, grant, operator>>
    BY <1>3 DEF Act
  <2>2. /\ call'[p].pc = "authorizing"
        /\ \A q \in Procs \ {p} : call'[q] = call[q]
    <3> DEFINE c == [pc |-> "authorizing", action |-> a, read |-> row,
                     answer |-> NoPage, next |-> State("NONE")]
    <3>1. Becomes(p, c)
      BY <1>3, ActingCall DEF IndInv
    <3> QED
      BY <3>1 DEF Becomes
  <2>3. \A q \in Procs, b \in Actions : Using(q, b)' => Using(q, b)
    BY <2>2 DEF Using
  <2> QED
    BY <1>2, <2>1, <2>3
<1>4. ASSUME NEW p \in Procs, Authorize(p) PROVE GrantOK'
  <2> DEFINE a == call[p].action
  <2>1. UNCHANGED <<row, operator>> /\ At(p, "authorizing") /\ a \in Actions
    BY <1>4, AuthorizeStep DEF Authorize
  <2>2. CASE UNCHANGED grant /\ Becomes(p, Idle)
    <3>1. \A q \in Procs, b \in Actions : Using(q, b)' => Using(q, b)
      BY <2>2 DEF Using, Becomes, Idle
    <3> QED
      BY <1>2, <2>1, <2>2, <3>1
  <2>3. CASE /\ grant[a] # NoGrant /\ ~grant[a].consumed
             /\ grant' = [grant EXCEPT ![a].consumed = TRUE]
             /\ Becomes(p, Moved(call[p], "acting"))
    <3>1. /\ grant[a] \in Grants /\ grant' \in [Actions -> Grants \cup {NoGrant}]
          /\ grant'[a].consumed /\ \A b \in Actions \ {a} : grant'[b] = grant[b]
      <4>1. grant[a] \in Grants
        BY <2>1, <2>3, GivenGrant
      <4>2. /\ [grant[a] EXCEPT !.consumed = TRUE] \in Grants
            /\ [grant[a] EXCEPT !.consumed = TRUE].consumed
        BY <4>1 DEF Grants
      <4> QED
        BY <2>1, <2>3, <4>1, <4>2 DEF IndInv, TypeOK
    <3>2. ~InUse(a)
      BY <2>1, <2>3 DEF InUse, Using, IndInv, GrantOK
    <3>3. /\ call'[p].action = a /\ call'[p].pc = "acting"
          /\ \A q \in Procs \ {p} : call'[q] = call[q]
      BY <2>3 DEF Becomes, Moved
    <3>4. \A q \in Procs, b \in Actions :
            Using(q, b)' <=> Using(q, b) \/ (q = p /\ b = a)
      BY <2>1, <3>3 DEF Using
    <3>5. Asked /\ Asked' = Asked
      BY <2>1, <2>3 DEF IndInv, GrantOK, Asked, Pending
    <3>6. \A q \in Procs : ~Using(q, a)
      BY <3>2 DEF InUse, Using
    <3>7. operator.mode = "recover" => operator.action # a
      BY <2>3 DEF IndInv, GrantOK
    <3>8. operator.mode = "recover" => ~InUse(operator.action)'
      <4>1. SUFFICES ASSUME operator.mode = "recover"
                     PROVE  ~InUse(operator.action)'
        OBVIOUS
      <4>2. operator.action \in Actions /\ ~InUse(operator.action)
        BY <4>1 DEF IndInv, GrantOK
      <4>3. \A q \in Procs : ~Using(q, operator.action)
        BY <4>2 DEF InUse, Using
      <4>4. \A q \in Procs : ~Using(q, operator.action)'
        BY <2>1, <3>3, <3>7, <4>1, <4>3 DEF Using
      <4> QED
        BY <4>4 DEF InUse, Using
    <3>9. \A b \in Actions : grant'[b].consumed <=> grant[b].consumed \/ b = a
      BY <3>1
    <3> HIDE DEF a, Using
    <3>10. \A q \in Procs, b \in Actions : Using(q, b)' => grant'[b].consumed
      BY <3>4, <3>9 DEF IndInv, GrantOK
    <3>11. \A b \in Actions, q, r \in Procs :
             Using(q, b)' /\ Using(r, b)' => q = r
      BY <3>4, <3>6 DEF IndInv, GrantOK
    <3>12. /\ operator'.mode # "none" => /\ operator'.action \in Actions
                                        /\ operator'.ref \in References
           /\ operator'.mode = "recover" => /\ operator'.action = "approve"
                                           /\ grant'[operator'.action].consumed
      BY <2>1, <3>9 DEF IndInv, GrantOK
    <3>13. operator'.mode = "recover" => ~InUse(operator.action)'
      BY <2>1, <3>8
    <3> QED
      BY <3>5, <3>10, <3>11, <3>12, <3>13 DEF GrantOK
  <2> QED
    BY <1>4, <2>2, <2>3, AuthorizeStep
<1>5. ASSUME NEW p \in Procs, Works(p) PROVE GrantOK'
  <2>1. /\ UNCHANGED <<row, grant, operator>>
        /\ Becomes(p, call'[p]) /\ call'[p].action = call[p].action
        /\ call[p].pc \notin {"idle", "authorizing"}
    BY <1>5, WorkStep
  <2>2. \A q \in Procs, b \in Actions : Using(q, b)' => Using(q, b)
    BY <2>1 DEF Using, Becomes
  <2> QED
    BY <1>2, <2>1, <2>2
<1>6. ASSUME NEW p \in Procs, Ends(p) PROVE GrantOK'
  <2>1. UNCHANGED <<grant, operator>> /\ Becomes(p, Idle)
    BY <1>6, EndStep
  <2>2. \A q \in Procs, b \in Actions : Using(q, b)' => Using(q, b)
    BY <2>1 DEF Using, Becomes, Idle
  <2>3. Asked => Asked'
    BY <1>6, AskedStays
  <2>4. \A a \in Actions : InUse(a)' => InUse(a)
    BY <2>2 DEF InUse, Using
  <2> HIDE DEF Using
  <2> QED
    BY <2>1, <2>2, <2>3, <2>4 DEF IndInv, GrantOK
<1>7. ASSUME NEW mode \in {"issue", "recover"}, NEW a \in Actions,
             NEW ref \in References, OperatorReads(mode, a, ref)
      PROVE  GrantOK'
  <2>1. UNCHANGED <<row, grant, call>> /\ Asked
    BY <1>7 DEF OperatorReads, Asked
  <2>2. /\ operator'.mode = mode /\ operator'.action = a /\ operator'.ref = ref
        /\ mode = "recover" =>
             a = "approve" /\ grant[a].consumed /\ ~InUse(a)
    BY <1>7 DEF OperatorReads
  <2>3. Asked' /\ \A b \in Actions : InUse(b)' <=> InUse(b)
    BY <2>1 DEF Asked, Pending, InUse
  <2>4. \A q \in Procs, b \in Actions : Using(q, b)' <=> Using(q, b)
    BY <2>1 DEF Using
  <2> HIDE DEF Using
  <2> QED
    BY <2>1, <2>2, <2>3, <2>4 DEF IndInv, GrantOK
<1>8. CASE Issue
  <2> DEFINE a == operator.action
             g == [ref |-> operator.ref, consumed |-> FALSE,
                   manifest |-> operator.manifest]
  <2>1. /\ UNCHANGED <<row, call>> /\ operator'.mode = "none"
        /\ Asked /\ a \in Actions
    BY <1>8 DEF Issue, OperatorEnds, NoOperator, IndInv, GrantOK
  <2>2. \/ UNCHANGED grant
        \/ grant[a] = NoGrant /\ grant' = [grant EXCEPT ![a] = g]
    BY <1>8 DEF Issue
  <2>3. \A b \in Actions : grant[b].consumed => grant'[b].consumed
    BY <2>1, <2>2 DEF NoGrant, IndInv, TypeOK
  <2>4. Asked'
    BY <2>1 DEF Asked, Pending
  <2>5. \A q \in Procs, b \in Actions : Using(q, b)' <=> Using(q, b)
    BY <2>1 DEF Using
  <2> HIDE DEF Using, a, g
  <2>6. \A q \in Procs, b \in Actions : Using(q, b)' => grant'[b].consumed
    BY <2>3, <2>5 DEF IndInv, GrantOK
  <2>7. \A b \in Actions, q, r \in Procs :
          Using(q, b)' /\ Using(r, b)' => q = r
    BY <2>5 DEF IndInv, GrantOK
  <2> QED
    BY <2>1, <2>4, <2>6, <2>7 DEF GrantOK
<1>9. CASE Recover
  <2> DEFINE a == operator.action
  <2>1. /\ UNCHANGED <<row, call>> /\ operator'.mode = "none" /\ Asked
        /\ a \in Actions /\ ~InUse(a)
    BY <1>9 DEF Recover, OperatorEnds, NoOperator, IndInv, GrantOK
  <2>2. Asked'
    BY <2>1 DEF Asked, Pending
  <2>3. \A b \in Actions \ {a} : grant'[b] = grant[b]
    BY <1>9, RecoverStep DEF IndInv, TypeOK
  <2>4. \A q \in Procs : ~Using(q, a)
    BY <2>1 DEF InUse, Using
  <2>5. \A q \in Procs, b \in Actions : Using(q, b)' <=> Using(q, b)
    BY <2>1 DEF Using
  <2> HIDE DEF Using, a
  <2>6. \A q \in Procs, b \in Actions : Using(q, b)' => grant'[b].consumed
    BY <2>3, <2>4, <2>5 DEF IndInv, GrantOK
  <2>7. \A b \in Actions, q, r \in Procs :
          Using(q, b)' /\ Using(r, b)' => q = r
    BY <2>5 DEF IndInv, GrantOK
  <2> QED
    BY <2>1, <2>2, <2>6, <2>7 DEF GrantOK
<1>10. CASE Upgrade \/ UNCHANGED vars
  <2>1. UNCHANGED <<row, grant, operator, call>>
    BY <1>10 DEF Upgrade, vars
  <2>2. \A q \in Procs, b \in Actions : Using(q, b)' <=> Using(q, b)
    BY <2>1 DEF Using
  <2> QED
    BY <1>2, <2>1, <2>2
<1> QED
  BY <1>1, <1>3, <1>4, <1>5, <1>6, <1>7, <1>8, <1>9, <1>10, NextSplit
     DEF Outside

\* A grant keeps the manifest it was given for as long as it is there.
LEMMA ManifestStays ==
  ASSUME IndInv, NEW a \in Actions,
         NEW grants1 \in [Actions -> Grants \cup {NoGrant}],
         grants1 = [grant EXCEPT ![a].consumed = TRUE], grant[a] # NoGrant
  PROVE  \A b \in Actions : grants1[b] # NoGrant =>
           grant[b] # NoGrant /\ grants1[b].manifest = grant[b].manifest
<1>1. grant[a] \in Grants
  BY GivenGrant
<1>2. [grant[a] EXCEPT !.consumed = TRUE].manifest = grant[a].manifest
  BY <1>1 DEF Grants
<1> QED
  BY <1>2 DEF IndInv, TypeOK

\* All copies of the manifest stay copies of one (_execute, issue_grant).
LEMMA ManifestStep == IndInv /\ [Next]_vars => ManifestOK'
<1> SUFFICES ASSUME IndInv, [Next]_vars PROVE ManifestOK'
  OBVIOUS
<1> DEFINE CopiesRow(c) ==
             c.pc = "committing" /\ c.next.status = "INTERACTION_REQUIRED" =>
               c.next.manifest.request = row.request
           CopyOf(c, m) == c.action # "none" => c.read.state.manifest = m
           Given(m) == \A a \in Actions :
                         grant[a] # NoGrant => grant[a].manifest = m
           Read(m) == operator.mode # "none" => operator.manifest = m
<1>1. ASSUME NEW p \in Procs, NEW r \in Requests, Submit(p, r)
      PROVE  ManifestOK'
  <2>1. /\ row = NoRow /\ UNCHANGED <<grant, operator, build>>
        /\ row'.request = r /\ row'.state.status = "RUNNING"
    BY <1>1 DEF Submit, State
  <2>2. \A q \in Procs : call[q] = Idle
    BY <2>1 DEF IndInv, ReadOK, CallOK
  <2>3. \A a \in Actions : grant[a] = NoGrant
    <3>1. ~Asked
      BY <2>1 DEF Asked, Pending, NoRow, State
    <3> QED
      BY <3>1 DEF IndInv, GrantOK
  <2>4. operator.mode = "none"
    BY <2>1 DEF IndInv, RowOK
  <2>5. \A q \in Procs : call'[q].action = "none" /\ call'[q].pc # "committing"
    BY <1>1, <2>2, SubmittedCall DEF IndInv, Becomes, Idle
  <2>6. Manifest(r) \in Manifests /\ Manifest(r).request = r
    BY ManifestType DEF IndInv
  <2>7. About(Manifest(r))'
    BY <2>1, <2>3, <2>4, <2>5, <2>6
       DEF About, Answering, Pending, Manifest
  <2>8. Manifest(r)' = Manifest(r)
    BY <2>1 DEF Manifest
  <2> QED
    BY <2>6, <2>7, <2>8 DEF ManifestOK
<1>2. ASSUME NEW p \in Procs, NEW c, Becomes(p, c), UNCHANGED <<row, operator>>,
             \A m : About(m) => CopyOf(c, m) /\ CopiesRow(c),
             \A b \in Actions : grant'[b] # NoGrant =>
               grant[b] # NoGrant /\ grant'[b].manifest = grant[b].manifest
      PROVE  ManifestOK'
  <2>1. ASSUME NEW m \in Manifests, About(m) PROVE About(m)'
    BY <1>2, <2>1 DEF About, Becomes, Answering, Pending, Current
  <2> QED
    BY <1>2, <2>1 DEF IndInv, ManifestOK
<1>3. ASSUME NEW p \in Procs, NEW a \in Actions, Act(p, a) PROVE ManifestOK'
  <2> DEFINE c == [pc |-> "authorizing", action |-> a, read |-> row,
                   answer |-> NoPage, next |-> State("NONE")]
  <2>1. Becomes(p, c) /\ UNCHANGED <<row, operator, grant>> /\ Pending
    BY <1>3, ActingCall DEF Act, IndInv
  <2>2. \A m : About(m) => CopyOf(c, m) /\ CopiesRow(c)
    BY <2>1 DEF About, Current
  <2> HIDE DEF c
  <2> QED
    BY <1>2, <2>1, <2>2
<1>4. CopiesRow(Idle) /\ \A m : CopyOf(Idle, m)
  BY DEF Idle
<1>5. ASSUME NEW p \in Procs, Authorize(p) PROVE ManifestOK'
  <2> DEFINE a == call[p].action
  <2>1. UNCHANGED <<row, operator>> /\ a \in Actions
    BY <1>5, AuthorizeStep DEF Authorize
  <2>2. CASE UNCHANGED grant /\ Becomes(p, Idle)
    BY <1>2, <1>4, <2>1, <2>2
  <2>3. CASE /\ grant[a] # NoGrant /\ Becomes(p, Moved(call[p], "acting"))
             /\ grant' = [grant EXCEPT ![a].consumed = TRUE]
    <3>1. \A m : About(m) => /\ CopyOf(Moved(call[p], "acting"), m)
                             /\ CopiesRow(Moved(call[p], "acting"))
      BY DEF About, Moved, Answering
    <3>2. grant' \in [Actions -> Grants \cup {NoGrant}]
      BY TypeStep DEF TypeOK
    <3>3. \A b \in Actions : grant'[b] # NoGrant =>
            grant[b] # NoGrant /\ grant'[b].manifest = grant[b].manifest
      BY <2>1, <2>3, <3>2, ManifestStays
    <3> QED
      BY <1>2, <2>1, <2>3, <3>1, <3>3
  <2> QED
    BY <1>5, <2>2, <2>3, AuthorizeStep
<1>6. ASSUME NEW p \in Procs, Works(p) PROVE ManifestOK'
  <2>1. /\ UNCHANGED <<row, grant, operator>> /\ Becomes(p, call'[p])
        /\ call'[p].action = call[p].action /\ call'[p].read = call[p].read
        /\ call[p].pc # "idle"
    BY <1>6, WorkStep
  <2>2. \A m : About(m) => CopyOf(call'[p], m)
    BY <2>1 DEF About, Answering
  <2>3. CopiesRow(call'[p])
    <3>1. CASE Answering(p)
      <4>1. call'[p].action # "none"
        BY <2>1, <3>1 DEF Answering
      <4>2. call'[p].pc = "committing" =>
              call'[p].next.status # "INTERACTION_REQUIRED"
        BY <4>1, CallsStep DEF CallOK
      <4> QED
        BY <4>2
    <3>2. CASE ~Answering(p)
      <4>1. Start(p)
        BY <1>6, <3>2 DEF Works, Stop, Execute, Search, WritePage,
             WriteAttempts, Overruns, Publish, IndInv, CallOK, Answering
      <4>2. call[p].read.request = row.request
        BY <2>1 DEF IndInv, ReadOK
      <4>3. ASSUME NEW m PROVE Committing(call[p], Asking(m)).next.manifest = m
        BY DEF Committing, Asking
      <4>4. ASSUME NEW x
            PROVE  Committing(call[p], Failure(x)).next.status = "FAILED"
        BY DEF Committing, Failure
      <4> QED
        BY <4>1, <4>2, <4>3, <4>4, StartStep, ManifestType DEF Becomes, IndInv
    <3> QED
      BY <3>1, <3>2
  <2> QED
    BY <1>2, <2>1, <2>2, <2>3
<1>7. ASSUME NEW p \in Procs, Ends(p) PROVE ManifestOK'
  <2>1. UNCHANGED <<grant, operator>> /\ Becomes(p, Idle) /\ ~At(p, "idle")
    BY <1>7, EndStep
  <2>2. CASE UNCHANGED row
    BY <1>2, <1>4, <2>1, <2>2
  <2>3. ASSUME Commit(p), row.revision = call[p].read.revision, row \in Rows,
               row' = [request |-> row.request,
                       revision |-> row.revision + 1,
                       state |-> call[p].next]
        PROVE  ManifestOK'
    <3>1. PICK m \in Manifests : About(m)
      BY <2>3 DEF Commit, IndInv, ReadOK, ManifestOK
    <3>2. /\ row'.request = row.request /\ row'.state = call[p].next
          /\ row.request \in Requests
      BY <2>3 DEF Rows
    <3>3. \A q \in Procs : CopyOf(call'[q], m) /\ CopiesRow(call'[q])
      BY <1>4, <2>1, <3>1 DEF About, Becomes, Answering
    <3>4. CASE row'.state.status # "INTERACTION_REQUIRED"
      <4>1. About(m)'
        BY <2>1, <3>1, <3>2, <3>3, <3>4 DEF About, Answering, Pending
      <4> QED
        BY <4>1 DEF ManifestOK
    <3>5. CASE row'.state.status = "INTERACTION_REQUIRED"
      <4> PICK n : n = call[p].next.manifest
        OBVIOUS
      <4>1. ~Answering(p)
        BY <2>3, <3>2, <3>5 DEF Commit, IndInv, CallOK, Answering
      <4>2. row.revision = 0 /\ row # NoRow
        BY <2>1, <2>3, <4>1 DEF IndInv, ReadOK
      <4>3. ~Asked
        BY <4>2 DEF IndInv, RowOK, Asked, Pending
      <4>4. /\ \A a \in Actions : grant[a] = NoGrant
            /\ operator.mode = "none"
        BY <4>3 DEF IndInv, GrantOK
      <4>5. \A q \in Procs : ~Answering(q)
        BY <4>2 DEF IndInv, ReadOK
      <4>6. n.request = row.request
        BY <2>3, <3>1, <3>2, <3>5 DEF Commit, About
      <4>7. n \in Manifests
        <5>1. row'.state \in States
          BY <2>3, TypeStep, <3>2 DEF TypeOK, Rows, NoRow
        <5> QED
          BY <3>2, <4>6, <5>1 DEF States, NoManifest
      <4>8. About(n)'
        <5>1. \A q \in Procs : call'[q].action = "none"
          BY <2>1, <4>5 DEF Becomes, Idle, Answering
        <5> QED
          BY <2>1, <3>2, <3>3, <4>4, <4>6, <5>1
             DEF About, Answering, Pending, Current
      <4>9. \E k \in Manifests : About(k)'
        BY <4>7, <4>8
      <4> QED
        BY <4>9 DEF ManifestOK
    <3> QED
      BY <3>4, <3>5
  <2> QED
    BY <1>7, <2>2, <2>3, CommitStep DEF Ends, Crash
<1>8. CASE Outside
  <2>1. UNCHANGED <<row, call>>
    BY <1>8, OutsideStep
  <2>2. ASSUME NEW m, About(m),
               Given(m)', Read(m)'
        PROVE  About(m)'
    BY <2>1, <2>2 DEF About, Answering, Pending, Current
  <2>3. ASSUME NEW m, About(m), row # NoRow PROVE Given(m)' /\ Read(m)'
    <3>1. Given(m) /\ Read(m)
      BY <2>3 DEF About
    <3>2. CASE \E mode \in {"issue", "recover"}, a \in Actions,
                  ref \in References : OperatorReads(mode, a, ref)
      BY <2>3, <3>1, <3>2 DEF OperatorReads, About
    <3>3. CASE Issue
      <4> DEFINE a == operator.action
                 g == [ref |-> operator.ref, consumed |-> FALSE,
                       manifest |-> operator.manifest]
      <4>1. \/ UNCHANGED grant
            \/ grant' = [grant EXCEPT ![a] = g]
        BY <3>3 DEF Issue
      <4>2. g.manifest = m /\ operator'.mode = "none"
        BY <3>1, <3>3 DEF Issue, OperatorEnds, NoOperator
      <4> HIDE DEF a, g
      <4> QED
        BY <3>1, <4>1, <4>2 DEF IndInv, TypeOK
    <3>4. CASE Recover
      <4> DEFINE a == operator.action
                 g == [ref |-> operator.ref, consumed |-> FALSE,
                       manifest |-> grant[a].manifest]
      <4>1. /\ \/ UNCHANGED grant
               \/ grant' = [grant EXCEPT ![a] = g]
            /\ a \in Actions /\ grant[a] # NoGrant
        BY <3>4, RecoverStep, GivenGrant
      <4>2. g.manifest = m /\ operator'.mode = "none"
        BY <3>1, <3>4, <4>1 DEF Recover, OperatorEnds, NoOperator
      <4> HIDE DEF a, g
      <4> QED
        BY <3>1, <4>1, <4>2 DEF IndInv, TypeOK
    <3>5. CASE Upgrade \/ UNCHANGED vars
      BY <3>1, <3>5 DEF Upgrade, vars
    <3> QED
      BY <1>8, <3>2, <3>3, <3>4, <3>5 DEF Outside
  <2> QED
    BY <2>1, <2>2, <2>3 DEF IndInv, ManifestOK
<1> QED
  BY <1>1, <1>3, <1>5, <1>6, <1>7, <1>8, NextSplit

\* Calls start one at a time and grants are recovered one at a time.
LEMMA FiniteStep == IndInv /\ [Next]_vars => FiniteOK'
<1> SUFFICES ASSUME IndInv, [Next]_vars PROVE FiniteOK'
  OBVIOUS
<1> DEFINE Busy == {p \in Procs : ~At(p, "idle")}
<1>1. IsFiniteSet(Busy')
  <2>1. ASSUME NEW p, Busy' \subseteq Busy \cup {p} PROVE IsFiniteSet(Busy')
    <3>1. IsFiniteSet(Busy \cup {p})
      BY FS_AddElement DEF IndInv, FiniteOK
    <3> QED
      BY <2>1, <3>1, FS_Subset
  <2>2. ASSUME NEW p \in Procs, NEW c, Becomes(p, c)
        PROVE  IsFiniteSet(Busy')
    <3>1. Busy' \subseteq Busy \cup {p}
      BY <2>2 DEF Becomes
    <3> HIDE DEF Busy
    <3> QED
      BY <2>1, <3>1
  <2>3. CASE Outside
    <3>1. UNCHANGED call
      BY <2>3, OutsideStep
    <3> QED
      BY <3>1 DEF IndInv, FiniteOK
  <2> HIDE DEF Busy
  <2> QED
    BY <2>2, <2>3, NextSplit, SubmittedCall, ActingCall, AuthorizeStep,
       WorkStep, EndStep DEF IndInv
<1>2. IsFiniteSet(recoveries')
  <2>1. CASE UNCHANGED recoveries
    BY <2>1 DEF IndInv, FiniteOK
  <2>2. CASE Recover
    <3>1. \/ UNCHANGED recoveries
          \/ \E c : recoveries' = recoveries \cup {c}
      BY <2>2, RecoverStep
    <3> QED
      BY <2>1, <3>1, FS_AddElement DEF IndInv, FiniteOK
  <2>3. Recover \/ UNCHANGED recoveries
    BY DEF Next, CallStep, Submit, Act, Start, Authorize, Stop, Execute,
           Search, WritePage, WriteAttempts, Overruns, Publish, Commit, Crash,
           OperatorReads, Issue, Upgrade, OperatorEnds, vars
  <2> QED
    BY <2>1, <2>2, <2>3
<1> QED
  BY <1>1, <1>2 DEF FiniteOK

-----------------------------------------------------------------------------
(* Counting.                                                                *)

\* Calls about to run what was approved, and approvals recovered.
Actors == {p \in Procs : At(p, "acting") /\ call[p].action = "approve"}
Recovered == {r \in recoveries : r.action = "approve"}
Ready == IF grant["approve"] # NoGrant /\ ~grant["approve"].consumed
           THEN 1 ELSE 0
Given == IF grant["approve"] = NoGrant THEN 0 ELSE 1

\* Both sides of the count are natural numbers, and the invariant compares
\* them.
LEMMA Counts ==
  ASSUME IndInv, "approve" \in Actions
  PROVE  /\ IsFiniteSet(Actors) /\ Cardinality(Actors) \in Nat
         /\ IsFiniteSet(Recovered) /\ Cardinality(Recovered) \in Nat
         /\ Len(executions) \in Nat
         /\ Len(executions) + (Cardinality(Actors) + Ready)
              <= Cardinality(Recovered) + Given
<1>1. IsFiniteSet(Actors)
  <2>1. Actors \subseteq {p \in Procs : ~At(p, "idle")}
    BY DEF Actors
  <2> QED
    BY <2>1, FS_Subset DEF IndInv, FiniteOK
<1>2. IsFiniteSet(Recovered)
  <2>1. Recovered \subseteq recoveries
    BY DEF Recovered
  <2> QED
    BY <2>1, FS_Subset DEF IndInv, FiniteOK
<1>3. Unused("approve") = Cardinality(Actors) + Ready
  BY DEF Unused, Actors, Ready
<1>4. Confirmations("approve") = Cardinality(Recovered) + Given
  BY DEF Confirmations, Recovered, Given
<1>5. Len(executions) \in Nat
  BY DEF IndInv, TypeOK
<1> QED
  BY <1>1, <1>2, <1>3, <1>4, <1>5, FS_CardinalityType DEF IndInv, ConfirmedOK

\* What has to be shown of a step that changes the counts.
LEMMA Recount ==
  ASSUME IndInv, "approve" \in Actions,
         Len(executions)' + (Cardinality(Actors') + Ready')
           <= Cardinality(Recovered') + Given',
         \A i \in 1..Len(executions') :
           executions'[i] = grant'["approve"].manifest
  PROVE  ConfirmedOK'
<1>1. Unused("approve")' = Cardinality(Actors') + Ready'
  BY DEF Unused, Actors, Ready
<1>2. Confirmations("approve")' = Cardinality(Recovered') + Given'
  BY DEF Confirmations, Recovered, Given
<1> QED
  BY <1>1, <1>2 DEF ConfirmedOK

\* A step that frees a grant or runs nothing new keeps the count.
LEMMA QuietStep ==
  ASSUME IndInv, Actors' \subseteq Actors,
         "approve" \in Actions => grant'["approve"] = grant["approve"],
         UNCHANGED <<recoveries, executions>>
  PROVE  ConfirmedOK'
<1> SUFFICES ASSUME "approve" \in Actions PROVE ConfirmedOK'
  BY DEF ConfirmedOK
<1>1. /\ IsFiniteSet(Actors') /\ Cardinality(Actors') <= Cardinality(Actors)
      /\ Cardinality(Actors') \in Nat
  BY Counts, FS_Subset, FS_CardinalityType
<1>2. Recovered' = Recovered /\ Ready' = Ready /\ Given' = Given
  BY DEF Recovered, Ready, Given
<1>3. Ready \in Nat /\ Given \in Nat
  BY DEF Ready, Given
<1>4. \A i \in 1..Len(executions') :
        executions'[i] = grant'["approve"].manifest
  BY DEF IndInv, ConfirmedOK
<1>5. Len(executions)' + (Cardinality(Actors') + Ready')
        <= Cardinality(Recovered') + Given'
  BY <1>1, <1>2, <1>3, Counts
<1> QED
  BY <1>4, <1>5, Recount

\* Every execution spends a confirmation (authorize_and_consume,
\* recover_consumed_grant, _execute).
LEMMA ConfirmedStep == IndInv /\ [Next]_vars => ConfirmedOK'
<1> SUFFICES ASSUME IndInv, [Next]_vars PROVE ConfirmedOK'
  OBVIOUS
<1>1. ASSUME NEW p \in Procs, NEW r \in Requests, Submit(p, r)
      PROVE  ConfirmedOK'
  <2>1. UNCHANGED <<grant, recoveries, executions>>
    BY <1>1 DEF Submit
  <2>2. Actors' \subseteq Actors
    BY <1>1, SubmittedCall DEF IndInv, Becomes, Actors
  <2> QED
    BY <2>1, <2>2, QuietStep
<1>2. ASSUME NEW p \in Procs, NEW a \in Actions, Act(p, a) PROVE ConfirmedOK'
  <2>1. UNCHANGED <<grant, recoveries, executions>>
    BY <1>2 DEF Act
  <2> DEFINE c == [pc |-> "authorizing", action |-> a, read |-> row,
                   answer |-> NoPage, next |-> State("NONE")]
  <2>2. Becomes(p, c)
    BY <1>2, ActingCall DEF IndInv
  <2>3. Actors' \subseteq Actors
    BY <2>2 DEF Becomes, Actors
  <2> QED
    BY <2>1, <2>3, QuietStep
<1>3. ASSUME NEW p \in Procs, Authorize(p) PROVE ConfirmedOK'
  <2> DEFINE a == call[p].action
  <2>1. UNCHANGED <<recoveries, executions>> /\ At(p, "authorizing")
        /\ a \in Actions
    BY <1>3, AuthorizeStep DEF Authorize
  <2>2. CASE UNCHANGED grant /\ Becomes(p, Idle)
    <3>1. Actors' \subseteq Actors
      BY <2>2 DEF Becomes, Actors, Idle
    <3> QED
      BY <2>1, <2>2, <3>1, QuietStep
  <2>3. CASE /\ grant[a] # NoGrant /\ ~grant[a].consumed
             /\ grant' = [grant EXCEPT ![a].consumed = TRUE]
             /\ Becomes(p, Moved(call[p], "acting")) /\ a # "approve"
    <3>1. Actors' \subseteq Actors
      BY <2>3 DEF Becomes, Actors, Moved
    <3>2. "approve" \in Actions => grant'["approve"] = grant["approve"]
      BY <2>3 DEF IndInv, TypeOK
    <3> QED
      BY <2>1, <3>1, <3>2, QuietStep
  <2>4. CASE /\ grant[a] # NoGrant /\ ~grant[a].consumed
             /\ grant' = [grant EXCEPT ![a].consumed = TRUE]
             /\ Becomes(p, Moved(call[p], "acting")) /\ a = "approve"
    <3>1. Actors' = Actors \cup {p} /\ p \notin Actors
      BY <2>1, <2>4 DEF Becomes, Actors, Moved
    <3>2. Cardinality(Actors') = Cardinality(Actors) + 1
      BY <2>1, <2>4, <3>1, Counts, FS_AddElement
    <3>3. grant[a] \in Grants
      BY <2>1, <2>4, GivenGrant
    <3>4. /\ [grant[a] EXCEPT !.consumed = TRUE] \in Grants
          /\ [grant[a] EXCEPT !.consumed = TRUE].consumed
          /\ [grant[a] EXCEPT !.consumed = TRUE].manifest = grant[a].manifest
      BY <3>3 DEF Grants
    <3>5. /\ grant'["approve"] \in Grants /\ grant'["approve"].consumed
          /\ grant'["approve"].manifest = grant["approve"].manifest
      BY <2>1, <2>4, <3>4 DEF IndInv, TypeOK
    <3>6. grant'["approve"] # NoGrant
      BY <2>1, <3>5, GivenGrant
    <3>7. Ready = 1 /\ Ready' = 0 /\ Given' = Given /\ Recovered' = Recovered
      BY <2>1, <2>4, <3>5, <3>6 DEF Ready, Given, Recovered
    <3>8. Given \in Nat
      BY DEF Given
    <3>9. Len(executions)' + (Cardinality(Actors') + Ready')
            <= Cardinality(Recovered') + Given'
      BY <2>1, <2>4, <3>2, <3>7, <3>8, Counts
    <3>10. \A i \in 1..Len(executions') :
             executions'[i] = grant'["approve"].manifest
      BY <2>1, <2>4, <3>5 DEF IndInv, ConfirmedOK
    <3> QED
      BY <2>1, <2>4, <3>9, <3>10, Recount
  <2> QED
    BY <1>3, <2>2, <2>3, <2>4, AuthorizeStep
<1>4. ASSUME NEW p \in Procs, Works(p) PROVE ConfirmedOK'
  <2>1. /\ UNCHANGED <<grant, recoveries>> /\ Becomes(p, call'[p])
        /\ call'[p].pc # "acting"
    BY <1>4, WorkStep
  <2>2. Actors' = Actors \ {p}
    BY <2>1 DEF Becomes, Actors
  <2>3. CASE UNCHANGED executions
    BY <2>1, <2>2, <2>3, QuietStep
  <2>4. CASE /\ Execute(p) /\ Prepared(p)
             /\ executions' = Append(executions, Manifest(call[p].read.request))
    <3>1. p \in Actors /\ "approve" \in Actions
      BY <2>4 DEF Execute, Actors, IndInv, TypeOK, Calls
    <3>2. Cardinality(Actors') = Cardinality(Actors) - 1
      BY <2>2, <3>1, Counts, FS_RemoveElement
    <3>3. Ready' = Ready /\ Given' = Given /\ Recovered' = Recovered
      BY <2>1 DEF Ready, Given, Recovered
    <3>4. Manifest(call[p].read.request) = grant["approve"].manifest
      <4>1. row # NoRow /\ Answering(p) /\ Using(p, "approve")
        BY <2>4 DEF Execute, IndInv, ReadOK, Answering, Using
      <4>2. grant["approve"] # NoGrant
        BY <3>1, <4>1, GivenGrant DEF IndInv, GrantOK
      <4>3. call[p].read.state.manifest = grant["approve"].manifest
        BY <3>1, <4>1, <4>2 DEF IndInv, ManifestOK, About
      <4> QED
        BY <2>4, <4>3 DEF Prepared
    <3>5. Len(executions)' = Len(executions) + 1
      BY <2>4 DEF IndInv, TypeOK
    <3>6. Ready \in Nat /\ Given \in Nat
      BY DEF Ready, Given
    <3>7. Len(executions)' + (Cardinality(Actors') + Ready')
            <= Cardinality(Recovered') + Given'
      BY <3>1, <3>2, <3>3, <3>5, <3>6, Counts
    <3>8. \A i \in 1..Len(executions') :
            executions'[i] = grant'["approve"].manifest
      BY <2>1, <2>4, <3>1, <3>4, <3>5 DEF IndInv, TypeOK, ConfirmedOK
    <3> QED
      BY <3>1, <3>7, <3>8, Recount
  <2>5. \/ UNCHANGED executions
        \/ /\ Execute(p) /\ Prepared(p)
           /\ executions' = Append(executions,
                                   Manifest(call[p].read.request))
    BY <1>4, ExecuteStep
       DEF Works, Start, Stop, Search, WritePage, WriteAttempts, Overruns,
           Publish
  <2> QED
    BY <2>3, <2>4, <2>5
<1>5. ASSUME NEW p \in Procs, Ends(p) PROVE ConfirmedOK'
  <2>1. UNCHANGED <<grant, recoveries, executions>> /\ Becomes(p, Idle)
    BY <1>5, EndStep
  <2>2. Actors' \subseteq Actors
    BY <2>1 DEF Becomes, Actors, Idle
  <2> QED
    BY <2>1, <2>2, QuietStep
<1>6. CASE Outside
  <2>1. UNCHANGED <<call, executions>>
    BY <1>6, OutsideStep
  <2>2. Actors' = Actors
    BY <2>1 DEF Actors
  <2>3. CASE UNCHANGED <<grant, recoveries>>
    BY <2>1, <2>2, <2>3, QuietStep
  <2>4. CASE Issue
    <3> DEFINE a == operator.action
               g == [ref |-> operator.ref, consumed |-> FALSE,
                     manifest |-> operator.manifest]
    <3>1. /\ UNCHANGED recoveries /\ a \in Actions
          /\ \/ UNCHANGED grant
             \/ grant[a] = NoGrant /\ grant' = [grant EXCEPT ![a] = g]
      BY <2>4 DEF Issue, OperatorEnds, IndInv, GrantOK
    <3>2. CASE grant[a] = NoGrant /\ grant' = [grant EXCEPT ![a] = g]
               /\ a # "approve"
      <4>1. "approve" \in Actions => grant'["approve"] = grant["approve"]
        BY <3>2 DEF IndInv, TypeOK
      <4> QED
        BY <2>1, <2>2, <3>1, <4>1, QuietStep
    <3>3. CASE grant[a] = NoGrant /\ grant' = [grant EXCEPT ![a] = g]
               /\ a = "approve"
      <4>1. grant'["approve"] = g
        BY <3>1, <3>3 DEF IndInv, TypeOK
      <4>2. grant'["approve"] # NoGrant /\ ~grant'["approve"].consumed
        <5>1. grant'["approve"].ref \in References
          BY <2>4, <4>1 DEF Issue, IndInv, GrantOK
        <5> QED
          BY <4>1, <5>1 DEF NoGrant
      <4>3. /\ Given = 0 /\ Given' = 1 /\ Ready = 0 /\ Ready' = 1
            /\ Recovered' = Recovered
        BY <3>1, <3>3, <4>2 DEF Given, Ready, Recovered
      <4>4. Len(executions)' + (Cardinality(Actors') + Ready')
              <= Cardinality(Recovered') + Given'
        BY <2>1, <2>2, <3>1, <3>3, <4>3, Counts
      <4>5. executions = <<>>
        <5>1. ASSUME Len(executions) # 0 PROVE FALSE
          <6>1. 1 \in 1..Len(executions)
            BY <5>1 DEF IndInv, TypeOK
          <6>2. executions[1] = NoManifest
            BY <3>1, <3>3, <6>1 DEF IndInv, ConfirmedOK, NoGrant
          <6>3. executions[1] \in Manifests
            BY <6>1 DEF IndInv, TypeOK
          <6> QED
            BY <6>2, <6>3 DEF Manifests, NoManifest
        <5> QED
          BY <5>1 DEF IndInv, TypeOK
      <4> QED
        BY <2>1, <3>1, <3>3, <4>4, <4>5, Recount
    <3> QED
      BY <2>3, <3>1, <3>2, <3>3
  <2>5. CASE Recover
    <3> DEFINE a == operator.action
               g == [ref |-> operator.ref, consumed |-> FALSE,
                     manifest |-> grant[a].manifest]
               c == [action |-> a, ref |-> operator.ref]
    <3>1. /\ a \in Actions /\ grant[a] \in Grants /\ grant[a].consumed
          /\ \/ /\ g \in Grants /\ c \notin recoveries
                /\ grant' = [grant EXCEPT ![a] = g]
                /\ recoveries' = recoveries \cup {c}
             \/ UNCHANGED <<grant, recoveries>>
      BY <2>5, RecoverStep
    <3>2. ASSUME g \in Grants, c \notin recoveries, a = "approve",
                 grant' = [grant EXCEPT ![a] = g],
                 recoveries' = recoveries \cup {c}
          PROVE  ConfirmedOK'
      <4>1. Recovered' = Recovered \cup {c} /\ c \notin Recovered
        BY <3>2 DEF Recovered
      <4>2. Cardinality(Recovered') = Cardinality(Recovered) + 1
        BY <3>1, <3>2, <4>1, Counts, FS_AddElement
      <4>3. grant'["approve"] = g /\ g # NoGrant /\ grant["approve"] # NoGrant
        <5>1. grant = [x \in Actions |-> grant[x]] /\ a \in Actions
          BY <3>1 DEF IndInv, TypeOK
        <5>2. grant'["approve"] = g
          BY <3>2, <5>1
        <5>3. g # NoGrant /\ grant["approve"] # NoGrant
          BY <3>1, <3>2, GivenGrant
        <5> QED BY <5>2, <5>3
      <4>4. Given = 1 /\ Given' = 1 /\ Ready = 0 /\ Ready' = 1
        BY <3>1, <3>2, <4>3 DEF Given, Ready
      <4>5. Len(executions)' + (Cardinality(Actors') + Ready')
              <= Cardinality(Recovered') + Given'
        BY <2>1, <2>2, <3>1, <3>2, <4>2, <4>4, Counts
      <4>6. \A i \in 1..Len(executions') :
              executions'[i] = grant'["approve"].manifest
        BY <2>1, <3>1, <3>2, <4>3 DEF IndInv, ConfirmedOK
      <4> QED
        BY <3>1, <3>2, <4>5, <4>6, Recount
    <3>3. operator.mode = "recover" => a = "approve"
      BY DEF IndInv, GrantOK
    <3> QED
      BY <2>3, <2>5, <3>1, <3>2, <3>3 DEF Recover
  <2>6. UNCHANGED <<grant, recoveries>> \/ Issue \/ Recover
    BY <1>6 DEF Outside, OperatorReads, Upgrade, vars
  <2> QED
    BY <2>3, <2>4, <2>5, <2>6
<1> QED
  BY <1>1, <1>2, <1>3, <1>4, <1>5, <1>6, NextSplit

\* A used approval is armed again by a recovery only.
LEMMA ConsumedStays ==
  ASSUME IndInv, "approve" \in Actions, grant["approve"] # NoGrant,
         recoveries = {} => grant["approve"].consumed,
         Outside \/ \E p \in Procs : Authorize(p)
  PROVE  /\ grant'["approve"] # NoGrant
         /\ recoveries' = {} => grant'["approve"].consumed
<1>1. CASE UNCHANGED <<grant, recoveries>>
  BY <1>1
<1>2. ASSUME NEW p \in Procs, Authorize(p)
      PROVE  /\ grant'["approve"] # NoGrant
             /\ recoveries' = {} => grant'["approve"].consumed
  <2> DEFINE a == call[p].action
  <2>1. UNCHANGED recoveries /\ a \in Actions
    BY <1>2, AuthorizeStep DEF Authorize
  <2>2. CASE grant[a] # NoGrant
             /\ grant' = [grant EXCEPT ![a].consumed = TRUE]
    <3>1. grant[a] \in Grants
      BY <2>1, <2>2, GivenGrant
    <3>2. /\ [grant[a] EXCEPT !.consumed = TRUE] \in Grants
          /\ [grant[a] EXCEPT !.consumed = TRUE].consumed
      BY <3>1 DEF Grants
    <3>3. /\ a = "approve" => /\ grant'["approve"] \in Grants
                              /\ grant'["approve"].consumed
          /\ a # "approve" => grant'["approve"] = grant["approve"]
      BY <2>2, <3>2 DEF IndInv, TypeOK
    <3> QED
      BY <2>1, <3>3, GivenGrant
  <2> QED
    BY <1>1, <1>2, <2>1, <2>2, AuthorizeStep
<1>3. CASE Issue
  <2>1. /\ UNCHANGED recoveries /\ operator.action \in Actions
        /\ grant'["approve"] = grant["approve"]
    BY <1>3 DEF Issue, OperatorEnds, IndInv, GrantOK, TypeOK
  <2> QED
    BY <2>1
<1>4. CASE Recover
  <2> DEFINE a == operator.action
             g == [ref |-> operator.ref, consumed |-> FALSE,
                   manifest |-> grant[a].manifest]
             c == [action |-> a, ref |-> operator.ref]
  <2>1. /\ a \in Actions
        /\ \/ /\ g \in Grants
              /\ grant' = [grant EXCEPT ![a] = g]
              /\ recoveries' = recoveries \cup {c}
           \/ UNCHANGED <<grant, recoveries>>
    BY <1>4, RecoverStep
  <2>2. ASSUME g \in Grants, grant' = [grant EXCEPT ![a] = g],
               recoveries' = recoveries \cup {c}
        PROVE  recoveries' # {} /\ grant'["approve"] # NoGrant
    <3>1. grant'["approve"] = g \/ grant'["approve"] = grant["approve"]
      BY <2>2 DEF IndInv, TypeOK
    <3> QED
      BY <2>2, <3>1, GivenGrant
  <2> QED
    BY <1>1, <2>1, <2>2
<1>5. \/ UNCHANGED <<grant, recoveries>> \/ Issue \/ Recover
      \/ \E p \in Procs : Authorize(p)
  BY DEF Outside, OperatorReads, Upgrade, vars
<1> QED
  BY <1>1, <1>2, <1>3, <1>4, <1>5

-----------------------------------------------------------------------------
\* A success is served its own report (replace_run, get_result).
LEMMA ResultStep == IndInv /\ [Next]_vars => ResultOK'
<1> SUFFICES ASSUME IndInv, [Next]_vars PROVE ResultOK'
  OBVIOUS
<1> DEFINE OK(c, f) ==
             c.pc = "committing" /\ c.next.status = "SUCCEEDED" =>
               c.answer \in Pages \ Unfit /\ f = c.answer
           Won == /\ "approve" \in Actions /\ grant["approve"] # NoGrant
                  /\ recoveries = {} => grant["approve"].consumed
<1>0. \A p \in Procs : OK(call[p], reportFile)
  BY DEF IndInv, ResultOK
<1>1. ASSUME NEW p \in Procs, NEW c, Becomes(p, c), OK(c, reportFile),
             UNCHANGED <<row, result, grant, recoveries, reportFile>>
      PROVE  ResultOK'
  <2>1. \A q \in Procs : OK(call'[q], reportFile')
    BY <1>0, <1>1 DEF Becomes
  <2>2. UNCHANGED <<row, result, grant, recoveries, reportFile>>
    BY <1>1
  <2> QED
    BY <2>1, <2>2 DEF IndInv, ResultOK, Servable
<1>2. OK(Idle, reportFile)
  BY DEF Idle
<1>3. ASSUME NEW p \in Procs, NEW r \in Requests, Submit(p, r)
      PROVE  ResultOK'
  <2>1. /\ UNCHANGED <<result, reportFile>> /\ row = NoRow
        /\ row'.state.status = "RUNNING"
    BY <1>3 DEF Submit, State
  <2>2. result' = NoPage
    BY <2>1 DEF IndInv, RowOK
  <2>3. \A q \in Procs : OK(call'[q], reportFile')
    BY <1>0, <1>3, <2>1, SubmittedCall DEF IndInv, Becomes
  <2> QED
    BY <2>1, <2>2, <2>3 DEF ResultOK
<1>4. ASSUME NEW p \in Procs, NEW a \in Actions, Act(p, a) PROVE ResultOK'
  <2> DEFINE c == [pc |-> "authorizing", action |-> a, read |-> row,
                   answer |-> NoPage, next |-> State("NONE")]
  <2>1. Becomes(p, c)
    BY <1>4, ActingCall DEF IndInv
  <2>2. UNCHANGED <<row, result, grant, recoveries, reportFile>>
    BY <1>4 DEF Act
  <2>3. OK(c, reportFile)
    OBVIOUS
  <2> HIDE DEF c
  <2> QED
    BY <1>1, <2>1, <2>2, <2>3
<1>5. ASSUME NEW p \in Procs, Authorize(p) PROVE ResultOK'
  <2>1. UNCHANGED <<row, result, recoveries, reportFile>>
    BY <1>5 DEF Authorize
  <2>2. CASE UNCHANGED grant /\ Becomes(p, Idle)
    BY <1>1, <1>2, <2>1, <2>2
  <2>3. CASE Becomes(p, Moved(call[p], "acting"))
    <3>1. \A q \in Procs : OK(call'[q], reportFile')
      BY <1>0, <2>1, <2>3 DEF Becomes, Moved
    <3>2. Won => Won'
      BY <1>5, <2>1, ConsumedStays
    <3> QED
      BY <2>1, <3>1, <3>2 DEF IndInv, ResultOK, Servable
  <2> QED
    BY <1>5, <2>2, <2>3, AuthorizeStep
<1>6. ASSUME NEW p \in Procs, Works(p) PROVE ResultOK'
  <2>1. /\ UNCHANGED <<row, result, grant, recoveries>>
        /\ Becomes(p, call'[p])
    BY <1>6, WorkStep
  <2>2. CASE Overruns(p) \/ Publish(p)
    <3>1. call[p].answer \in Pages
      BY <2>2 DEF Overruns, Publish, IndInv, CallOK
    <3>2. /\ OK(call'[p], reportFile')
          /\ reportFile \in Pages => reportFile' = reportFile
      <4>1. ASSUME NEW x PROVE OK(Committing(call[p], Failure(x)), reportFile')
        BY DEF Committing, Failure
      <4>2. ASSUME reportFile' = call[p].answer, call[p].answer \notin Unfit
            PROVE  OK(Committing(call[p], State("SUCCEEDED")), reportFile')
        BY <3>1, <4>2 DEF Committing, State
      <4> HIDE DEF OK
      <4> QED
        BY <2>2, <4>1, <4>2, PublishStep DEF Becomes
    <3>3. \A q \in Procs \ {p} : call'[q] = call[q]
      BY <2>1 DEF Becomes
    <3>4. \A q \in Procs : OK(call'[q], reportFile')
      BY <1>0, <3>2, <3>3
    <3>5. row.state.status = "SUCCEEDED" => reportFile' = reportFile
      BY <3>2 DEF IndInv, ResultOK, Servable, TypeOK
    <3> QED
      BY <2>1, <3>4, <3>5 DEF IndInv, ResultOK, Servable
  <2>3. CASE ~(Overruns(p) \/ Publish(p))
    <3>1. UNCHANGED reportFile
      BY <1>6, <2>3, WritePageStep, WriteAttemptsStep
         DEF Works, Start, Stop, Execute, Search
    <3>2. OK(call'[p], reportFile)
      <4>1. ASSUME NEW s, s.status # "SUCCEEDED"
            PROVE  OK(Committing(call[p], s), reportFile)
        BY <4>1 DEF Committing
      <4>2. /\ \A m : Asking(m).status # "SUCCEEDED"
            /\ \A x : Failure(x).status # "SUCCEEDED"
            /\ State("CANCELLED").status # "SUCCEEDED"
        BY DEF Asking, Failure, State
      <4> DEFINE Answered(pc, x) == [Moved(call[p], pc) EXCEPT !.answer = x]
      <4>3. \A pc \in {"searching", "page", "attempts", "publishing"} : \A x :
              /\ OK(Moved(call[p], pc), reportFile)
              /\ OK(Answered(pc, x), reportFile)
        BY DEF Moved
      <4> HIDE DEF OK
      <4>4. CASE Start(p)
        BY <4>1, <4>2, <4>4, StartStep DEF Becomes
      <4>5. CASE Stop(p)
        BY <4>1, <4>2, <4>5, StopStep DEF Becomes
      <4>6. CASE Execute(p)
        BY <4>1, <4>2, <4>3, <4>6, ExecuteStep DEF Becomes
      <4>7. CASE Search(p)
        <5>1. \/ call'[p] = Answered("attempts", "down")
              \/ \E x : call'[p] = Answered("page", x)
          BY <4>7, SearchedCall DEF Becomes, IndInv
        <5> HIDE DEF Answered
        <5>2. OK(Answered("attempts", "down"), reportFile)
              /\ \A x : OK(Answered("page", x), reportFile)
          BY <4>3
        <5> QED
          BY <5>1, <5>2
      <4>8. CASE WritePage(p)
        BY <4>1, <4>2, <4>3, <4>8, WritePageStep DEF Becomes
      <4>9. CASE WriteAttempts(p)
        <5>1. \/ call'[p] = Moved(call[p], "publishing")
              \/ \E c \in Codes : call'[p] = Committing(call[p], Failure(c))
          BY <4>9, WriteAttemptsStep DEF Becomes
        <5>2. \A c : OK(Committing(call[p], Failure(c)), reportFile)
          BY <4>1, <4>2
        <5>3. OK(Moved(call[p], "publishing"), reportFile)
          BY <4>3
        <5> QED
          BY <5>1, <5>2, <5>3
      <4> QED
        BY <1>6, <2>3, <4>4, <4>5, <4>6, <4>7, <4>8, <4>9 DEF Works
    <3> QED
      BY <1>1, <2>1, <3>1, <3>2
  <2> QED
    BY <2>2, <2>3
<1>7. ASSUME NEW p \in Procs, Ends(p) PROVE ResultOK'
  <2>1. UNCHANGED <<grant, recoveries, reportFile>> /\ Becomes(p, Idle)
    BY <1>7, EndStep
  <2>2. CASE UNCHANGED <<row, result>>
    BY <1>1, <1>2, <2>1, <2>2
  <2>3. ASSUME Commit(p), row.revision = call[p].read.revision, row \in Rows,
               row' = [request |-> row.request,
                       revision |-> row.revision + 1,
                       state |-> call[p].next],
               result' = IF call[p].next.status = "SUCCEEDED"
                           THEN call[p].answer ELSE result
        PROVE  ResultOK'
    <3>1. \A q \in Procs : OK(call'[q], reportFile')
      BY <1>0, <1>2, <2>1 DEF Becomes
    <3>2. row.state.status # "SUCCEEDED" /\ result = NoPage
      <4>1. row # NoRow /\ (row.revision = 0 \/ row.revision = 1)
        BY <2>3 DEF Commit, IndInv, ReadOK
      <4> QED
        BY <4>1 DEF IndInv, RowOK, ResultOK
    <3>3. CASE call[p].next.status = "SUCCEEDED"
      <4>1. /\ call[p].answer \in Pages \ Unfit
            /\ reportFile = call[p].answer
        BY <1>0, <2>3, <3>3 DEF Commit
      <4>2. call[p].action = "approve"
        BY <2>3, <3>3 DEF Commit, IndInv, CallOK
      <4>3. "approve" \in Actions /\ Using(p, "approve")
        BY <2>3, <4>2, CallFields DEF Commit, IndInv, TypeOK, Using
      <4>4. grant["approve"].consumed /\ grant["approve"] # NoGrant
        BY <4>3, GivenGrant DEF IndInv, GrantOK
      <4> QED
        BY <2>1, <2>3, <3>1, <3>3, <4>1, <4>3, <4>4 DEF ResultOK, Servable
    <3>4. CASE call[p].next.status # "SUCCEEDED"
      BY <2>1, <2>3, <3>1, <3>2, <3>4 DEF ResultOK
    <3> QED
      BY <3>3, <3>4
  <2> QED
    BY <1>7, <2>2, <2>3, CommitStep DEF Ends, Crash
<1>8. CASE Outside
  <2>1. UNCHANGED <<row, result, call, reportFile>>
    BY <1>8, OutsideStep
  <2>2. Won => Won'
    BY <1>8, ConsumedStays
  <2> QED
    BY <2>1, <2>2 DEF IndInv, ResultOK, Servable
<1> QED
  BY <1>3, <1>4, <1>5, <1>6, <1>7, <1>8, NextSplit

-----------------------------------------------------------------------------
\* The initial state satisfies the invariant.
LEMMA InitInv == Init => IndInv
<1> SUFFICES ASSUME Init PROVE IndInv
  OBVIOUS
<1>1. TypeOK
  <2>1. FirstBuild \in Builds
    BY DEF FirstBuild
  <2>2. call \in [Procs -> Calls]
    BY DEF Init, Idle, Calls
  <2>3. operator \in [mode : {"none", "issue", "recover"},
                      action : Actions \cup {"none"},
                      ref : References \cup {NoReference},
                      manifest : Manifests \cup {NoManifest}]
    BY DEF Init, NoOperator
  <2>4. executions \in Seq(Manifests)
    BY DEF Init
  <2> QED
    BY <2>1, <2>2, <2>3, <2>4 DEF Init, TypeOK
<1>2. RowOK
  BY DEF Init, RowOK, NoOperator
<1>3. \A p \in Procs : call[p] = Idle
  BY DEF Init
<1>4. CallOK
  BY <1>3 DEF CallOK, Answering, Executing, Idle
<1>5. ReadOK
  BY <1>3 DEF ReadOK, Answering, Idle
<1>6. ManifestOK
  BY DEF Init, ManifestOK
<1>7. GrantOK
  BY <1>3 DEF Init, GrantOK, Using, InUse, Idle, NoOperator
<1>8. FiniteOK
  <2>1. {p \in Procs : ~At(p, "idle")} = {}
    BY <1>3 DEF Idle
  <2> QED
    BY <2>1, FS_EmptySet DEF Init, FiniteOK
<1>9. ConfirmedOK
  <2>1. Len(executions) = 0 /\ 1..Len(executions) = {}
    BY DEF Init
  <2>2. Actors = {} /\ Recovered = {}
    BY <1>3 DEF Init, Actors, Recovered, Idle
  <2>3. "approve" \in Actions => Ready = 0 /\ Given = 0
    BY DEF Init, Ready, Given
  <2>4. Unused("approve") = Cardinality(Actors) + Ready
    BY DEF Unused, Actors, Ready
  <2>5. Confirmations("approve") = Cardinality(Recovered) + Given
    BY DEF Confirmations, Recovered, Given
  <2> HIDE DEF Actors, Recovered, Ready, Given
  <2> QED
    BY <2>1, <2>2, <2>3, <2>4, <2>5, FS_EmptySet DEF ConfirmedOK
<1>10. ResultOK
  BY <1>3 DEF Init, ResultOK, NoRow, State, Idle
<1> QED
  BY <1>1, <1>2, <1>4, <1>5, <1>6, <1>7, <1>8, <1>9, <1>10 DEF IndInv

\* The invariant holds of every reachable state.
LEMMA Inductive == Spec => []IndInv
<1>1. IndInv /\ [Next]_vars => IndInv'
  BY TypeStep, RowStep, CallsStep, ReadStep, ManifestStep, GrantStep,
     FiniteStep, ConfirmedStep, ResultStep DEF IndInv
<1> QED
  BY InitInv, <1>1, PTL DEF Spec

\* The tables, artifacts and calls keep their types: no revision, status,
\* grant or transition leaves its vocabulary, however many calls race and die
\* (gateway/storage.py, integration/grants.py).
THEOREM TypeCorrect == Spec => []TypeOK
<1>1. IndInv => TypeOK
  BY DEF IndInv
<1> QED
  BY Inductive, <1>1, PTL

\* The runner runs once for each confirmation of a person, runs what the person
\* was shown, and never twice at once, for any number of processes, grants,
\* components, crashes and recoveries (authorize_and_consume,
\* recover_consumed_grant, _execute).
THEOREM LicensedExecutions == Spec => []ExecutionsAreLicensed
<1>1. IndInv => ExecutionsAreLicensed
  <2> SUFFICES ASSUME IndInv, "approve" \in Actions
               PROVE  ExecutionsAreLicensed
    BY DEF ExecutionsAreLicensed
  <2>1. \A p \in Procs : Executing(p) => Using(p, "approve")
    BY DEF IndInv, CallOK, Executing, Using
  <2>2. \A p, q \in Procs : Executing(p) /\ Executing(q) => p = q
    BY <2>1 DEF IndInv, GrantOK
  <2> QED
    BY <2>2 DEF IndInv, ConfirmedOK, ExecutionsAreLicensed
<1> QED
  BY Inductive, <1>1, PTL

\* A success is served its own report, within the budget, and only a success
\* is served; a release verifier that finds the components of the approval
\* installed accepts every success that took one confirmation (replace_run,
\* get_result, _database_state).
THEOREM ServableResults == Spec => []ResultIsServable
<1>1. IndInv => ResultIsServable
  <2> SUFFICES ASSUME IndInv PROVE ResultIsServable
    OBVIOUS
  <2>1. ASSUME row.state.status = "SUCCEEDED", recoveries = {},
               \A a \in Actions \ {"approve"} : grant[a] = NoGrant,
               grant["approve"].manifest.build = build
        PROVE  RunVerified /\ GrantVerified
    <3>1. /\ Servable /\ "approve" \in Actions /\ grant["approve"] # NoGrant
          /\ grant["approve"].consumed
      BY <2>1 DEF IndInv, ResultOK
    <3>2. row # NoRow
      BY <2>1 DEF NoRow, State
    <3>3. row.revision = 2
      BY <2>1, <3>2 DEF IndInv, RowOK
    <3>4. {a \in Actions : grant[a] # NoGrant} = {"approve"}
      BY <2>1, <3>1
    <3>5. grant["approve"].manifest = Manifest(row.request)
      <4>1. PICK m \in Manifests : About(m)
        BY <3>2 DEF IndInv, ManifestOK
      <4>2. grant["approve"].manifest = m /\ m.request = row.request
        BY <3>1, <4>1 DEF About
      <4>3. m = [request |-> m.request, build |-> m.build]
        BY DEF Manifests
      <4> QED
        BY <2>1, <4>2, <4>3 DEF Manifest
    <3> QED
      BY <2>1, <3>1, <3>3, <3>4, <3>5 DEF RunVerified, GrantVerified
  <2> QED
    BY <2>1 DEF IndInv, ResultOK, ResultIsServable
<1> QED
  BY Inductive, <1>1, PTL

-----------------------------------------------------------------------------
(* The gateway implements LicensedRun.                                      *)

Armed == {a \in Actions : grant[a] # NoGrant /\ ~grant[a].consumed}
Spent == {a \in Actions : grant[a].consumed}

\* Nothing is licensed at first.
LEMMA LicenceInit == Init => Licence!Init
<1> SUFFICES ASSUME Init PROVE Licence!Init
  OBVIOUS
<1>1. Phase = "none"
  BY DEF Init, Phase, Pending, NoRow, State
<1>2. \A a \in Actions : grant[a] = NoGrant /\ ~grant[a].consumed
  BY DEF Init, NoGrant
<1> QED
  BY <1>1, <1>2 DEF Licence!Init

\* Steps that change neither the row nor a grant are not seen.
LEMMA Stutter ==
  ASSUME UNCHANGED <<row, grant>>
  PROVE  UNCHANGED Licence!lic_vars
  BY DEF Licence!lic_vars, Phase, Pending

\* A row that was asked about has a phase that says so.
LEMMA AskedPhase ==
  ASSUME IndInv, Asked
  PROVE  Phase \in Licence!Asked
<1>1. row # NoRow
  BY DEF Asked, Pending, NoRow, State
<1>2. row.state.status \in Terminal \cup {"INTERACTION_REQUIRED"}
  BY <1>1 DEF IndInv, RowOK, Asked, Pending
<1> QED
  BY <1>1, <1>2 DEF Phase, Pending, Terminal, Licence!Asked

\* Each step is one of the promise's, or is not seen.
LEMMA LicenceStep ==
  IndInv /\ [Next]_vars => [Licence!Next]_Licence!lic_vars
<1> SUFFICES ASSUME IndInv, [Next]_vars
             PROVE  [Licence!Next]_Licence!lic_vars
  OBVIOUS
<1>1. ASSUME NEW p \in Procs, NEW r \in Requests, Submit(p, r)
      PROVE  Licence!Accept
  <2>1. /\ row = NoRow /\ row'.state.status = "RUNNING" /\ row'.request = r
        /\ UNCHANGED grant
    BY <1>1 DEF Submit, State
  <2>2. row' # NoRow
    BY <2>1 DEF NoRow
  <2>3. Phase = "none" /\ Phase' = "accepted"
    BY <2>1, <2>2 DEF Phase, Pending, NoRow, State
  <2> QED
    BY <2>1, <2>3 DEF Licence!Accept
<1>2. ASSUME NEW p \in Procs, NEW a \in Actions, Act(p, a)
      PROVE  UNCHANGED Licence!lic_vars
  BY <1>2, Stutter DEF Act
<1>3. ASSUME NEW p \in Procs, Authorize(p)
      PROVE  [Licence!Next]_Licence!lic_vars
  <2> PICK a : a = call[p].action
    OBVIOUS
  <2>1. UNCHANGED row /\ a \in Actions
    BY <1>3, AuthorizeStep DEF Authorize
  <2>2. CASE UNCHANGED grant
    BY <2>1, <2>2, Stutter
  <2>3. CASE /\ grant[a] # NoGrant /\ ~grant[a].consumed
             /\ grant' = [grant EXCEPT ![a].consumed = TRUE]
    <3>1. grant[a] \in Grants
      BY <2>1, <2>3, GivenGrant
    <3>2. [grant[a] EXCEPT !.consumed = TRUE].consumed
      BY <3>1 DEF Grants
    <3>3. /\ grant'[a].consumed /\ \A b \in Actions \ {a} : grant'[b] = grant[b]
      BY <2>1, <2>3, <3>2 DEF IndInv, TypeOK
    <3>4. a \in Armed /\ Armed' = Armed \ {a} /\ Spent' = Spent \cup {a}
      BY <2>1, <2>3, <3>3 DEF Armed, Spent
    <3>5. Phase \in Licence!Asked
      BY <2>1, <2>3, AskedPhase DEF IndInv, GrantOK
    <3>6. Phase' = Phase
      BY <2>1 DEF Phase, Pending
    <3>7. Licence!Spend(a)
      BY <3>4, <3>5, <3>6 DEF Licence!Spend, Armed, Spent
    <3> QED
      BY <2>1, <3>7 DEF Licence!Next
  <2> QED
    BY <1>3, <2>2, <2>3, AuthorizeStep
<1>4. ASSUME NEW p \in Procs, Works(p) PROVE UNCHANGED Licence!lic_vars
  BY <1>4, WorkStep, Stutter
<1>5. ASSUME NEW p \in Procs, Ends(p)
      PROVE  [Licence!Next]_Licence!lic_vars
  <2>1. UNCHANGED grant
    BY <1>5, EndStep
  <2>2. CASE UNCHANGED row
    BY <2>1, <2>2, Stutter
  <2>3. ASSUME Commit(p), row.revision = call[p].read.revision, row \in Rows,
               row' = [request |-> row.request,
                       revision |-> row.revision + 1,
                       state |-> call[p].next]
        PROVE  Licence!Ask \/ Licence!Decline \/ Licence!End
    <3>1. row # NoRow /\ row' # NoRow /\ row'.state = call[p].next
      BY <2>3 DEF Rows, NoRow
    <3>2. CASE Answering(p)
      <4>1. row.revision = 1 /\ Pending
        BY <2>3, <3>2 DEF IndInv, ReadOK, Pending
      <4>2. Phase = "asking"
        BY <3>1, <4>1 DEF Phase, Pending
      <4>3. call[p].action \in Actions /\ Using(p, call[p].action)
        BY <2>3, <3>2, CallFields
           DEF Commit, IndInv, TypeOK, Answering, Using
      <4>4. call[p].action \in Spent
        BY <4>3 DEF IndInv, GrantOK, Spent
      <4>5. CASE call[p].action = "approve"
        <5>1. row'.state.status \in {"SUCCEEDED", "FAILED"}
          BY <2>3, <3>1, <4>5 DEF Commit, IndInv, CallOK
        <5>2. Phase' \in {"succeeded", "failed"}
          BY <3>1, <5>1 DEF Phase, Pending
        <5>3. Licence!End
          BY <2>1, <4>2, <4>4, <4>5, <5>2 DEF Licence!End, Spent
        <5> QED
          BY <5>3
      <4>6. CASE call[p].action # "approve"
        <5>1. row'.state.status = "CANCELLED"
          BY <2>3, <3>1, <3>2, <4>6 DEF Commit, IndInv, CallOK, Answering
        <5>2. Phase' = "cancelled"
          BY <3>1, <5>1 DEF Phase, Pending
        <5>3. Spent \ {"approve"} # {}
          BY <4>4, <4>6
        <5>4. Licence!End
          BY <2>1, <4>2, <5>2, <5>3 DEF Licence!End, Spent
        <5> QED
          BY <5>4
      <4> QED
        BY <4>5, <4>6
    <3>3. CASE ~Answering(p)
      <4>1. row.revision = 0
        BY <2>3, <3>3 DEF Commit, IndInv, ReadOK
      <4>2. Phase = "accepted"
        BY <3>1, <4>1 DEF Phase, Pending, IndInv, RowOK
      <4>3. row'.state.status \in {"INTERACTION_REQUIRED", "FAILED"}
        BY <2>3, <3>1, <3>3 DEF Commit, IndInv, CallOK, Answering
      <4>4. Phase' \in {"asking", "failed"}
        BY <3>1, <4>3 DEF Phase, Pending
      <4> QED
        BY <2>1, <4>2, <4>4 DEF Licence!Ask, Licence!Decline
    <3> QED
      BY <3>2, <3>3
  <2> QED
    BY <1>5, <2>2, <2>3, CommitStep DEF Ends, Crash, Licence!Next
<1>6. CASE Outside
  <2>1. UNCHANGED row
    BY <1>6, OutsideStep
  <2>2. Phase' = Phase
    BY <2>1 DEF Phase, Pending
  <2>3. CASE UNCHANGED grant
    BY <2>1, <2>3, Stutter
  <2>4. ASSUME NEW a \in Actions, NEW g, ~g.consumed, g # NoGrant, Asked,
               grant' = [grant EXCEPT ![a] = g], a \notin Armed
        PROVE  Licence!Next
    <3>1. grant'[a] = g /\ \A b \in Actions \ {a} : grant'[b] = grant[b]
      BY <2>4 DEF IndInv, TypeOK
    <3>2. Armed' = Armed \cup {a} /\ Spent' = Spent \ {a}
      BY <2>4, <3>1 DEF Armed, Spent
    <3>3. Phase \in Licence!Asked
      BY <2>4, AskedPhase
    <3>4. Licence!Arm(a)
      BY <2>2, <2>4, <3>2, <3>3 DEF Licence!Arm, Armed, Spent
    <3> QED
      BY <2>4, <3>4 DEF Licence!Next
  <2>5. CASE Issue
    <3> DEFINE a == operator.action
               g == [ref |-> operator.ref, consumed |-> FALSE,
                     manifest |-> operator.manifest]
    <3>1. /\ a \in Actions /\ Asked /\ operator.ref \in References
          /\ \/ UNCHANGED grant
             \/ grant[a] = NoGrant /\ grant' = [grant EXCEPT ![a] = g]
      BY <2>5 DEF Issue, IndInv, GrantOK
    <3>2. ~g.consumed /\ g # NoGrant
      BY <3>1 DEF NoGrant
    <3>3. grant[a] = NoGrant => a \notin Armed
      BY DEF Armed
    <3> HIDE DEF a, g
    <3> QED
      BY <2>3, <2>4, <3>1, <3>2, <3>3
  <2>6. CASE Recover
    <3> DEFINE a == operator.action
               g == [ref |-> operator.ref, consumed |-> FALSE,
                     manifest |-> grant[a].manifest]
    <3>1. /\ a \in Actions /\ grant[a].consumed
          /\ \/ UNCHANGED grant
             \/ g \in Grants /\ grant' = [grant EXCEPT ![a] = g]
      BY <2>6, RecoverStep
    <3>2. Asked /\ a \notin Armed /\ ~g.consumed
      BY <2>6, <3>1 DEF Recover, IndInv, GrantOK, Armed
    <3>3. g \in Grants => g # NoGrant
      BY <3>1, GivenGrant
    <3> HIDE DEF a, g
    <3> QED
      BY <2>3, <2>4, <3>1, <3>2, <3>3
  <2> QED
    BY <1>6, <2>3, <2>5, <2>6 DEF Outside, OperatorReads, Upgrade, vars
<1> QED
  BY <1>1, <1>2, <1>3, <1>4, <1>5, <1>6, NextSplit DEF Licence!Next

\* The gateway keeps the promise of LicensedRun: an action spends a licence a
\* person gave for it, a licence is spent once, and a submission that was asked
\* about ends once, as a spent licence allows (materials_run_act).
THEOREM LicenceKept == Spec => KeepsLicence
  BY Inductive, LicenceInit, LicenceStep, PTL
     DEF Spec, KeepsLicence, Licence!Spec
=============================================================================
