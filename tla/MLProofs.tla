------------------------------ MODULE MLProofs ------------------------------
(***************************************************************************)
(* Proofs about the ML screening stage: what it publishes has been earned, *)
(* what a worker finished is kept, every answer is the completed one, every*)
(* refusal has one of the named causes and the inferences go to the best,  *)
(* for all candidates, requests, workers and crashes.                      *)
(***************************************************************************)
EXTENDS MLSafety, FiniteSetTheorems, TLAPS

(***************************************************************************)
(* The order of publication.                                               *)
(***************************************************************************)

\* It is a strict and total order (_upstream_order).
LEMMA PublicationOrder ==
  ASSUME NEW c \in Candidates, NEW d \in Candidates
  PROVE  /\ ~Precedes(c, c)
         /\ c # d => Precedes(c, d) \/ Precedes(d, c)
         /\ \A e \in Candidates :
              Precedes(c, d) /\ Precedes(d, e) => Precedes(c, e)
         /\ ~Precedes(d, c) => NotAfter(c, d)
  BY ScreeningAssumption DEF Precedes, NotAfter

\* In a finite set, one that comes earlier has fewer ahead of it.
LEMMA FewerAhead ==
  ASSUME NEW S \in SUBSET Candidates, IsFiniteSet(S), NEW c \in S
  PROVE  /\ IsFiniteSet(Ahead(c, S))
         /\ Cardinality(Ahead(c, S)) \in 0 .. Cardinality(S) - 1
         /\ \A d \in S : Precedes(c, d) =>
              Cardinality(Ahead(c, S)) < Cardinality(Ahead(d, S))
<1>1. \A d \in S : /\ IsFiniteSet(Ahead(d, S))
                   /\ Cardinality(Ahead(d, S)) \in Nat
  BY FS_Subset, FS_CardinalityType DEF Ahead
<1>2. Cardinality(Ahead(c, S)) < Cardinality(S)
  <2>1. Ahead(c, S) \in SUBSET S /\ c \notin Ahead(c, S)
    BY PublicationOrder DEF Ahead
  <2> QED
    BY <1>1, <2>1, FS_Subset, FS_CardinalityType
<1>3. ASSUME NEW d \in S, Precedes(c, d)
      PROVE  Cardinality(Ahead(c, S)) < Cardinality(Ahead(d, S))
  <2>1. /\ Ahead(c, S) \in SUBSET Ahead(d, S)
        /\ c \in Ahead(d, S) /\ c \notin Ahead(c, S)
    BY <1>3, PublicationOrder DEF Ahead
  <2> QED
    BY <1>1, <2>1, FS_Subset
<1> QED
  BY <1>1, <1>2, <1>3, FS_CardinalityType

\* Every place of the order is taken, by one candidate.
LEMMA PlaceTaken ==
  ASSUME NEW S \in SUBSET Candidates, IsFiniteSet(S)
  PROVE  /\ \A c, d \in S :
              Cardinality(Ahead(c, S)) = Cardinality(Ahead(d, S)) => c = d
         /\ \A k \in 1 .. Cardinality(S) :
              InOrder(S, k) \in S /\ Cardinality(Ahead(InOrder(S, k), S)) = k - 1
<1> DEFINE n == Cardinality(S)
           places == 0 .. n - 1
           place == [c \in S |-> Cardinality(Ahead(c, S))]
<1>1. n \in Nat
  BY FS_CardinalityType
<1>2. ASSUME NEW c \in S, NEW d \in S, c # d
      PROVE  Cardinality(Ahead(c, S)) # Cardinality(Ahead(d, S))
  BY <1>2, PublicationOrder, FewerAhead
<1>3. place \in Injection(S, places)
  BY <1>2, FewerAhead DEF Injection, IsInjective
<1>4. IsFiniteSet(places) /\ Cardinality(places) = n
  BY <1>1, FS_Interval
<1> HIDE DEF place, places
<1>5. place \in Surjection(S, places)
  BY <1>3, <1>4, FS_Injection
<1> USE DEF place, places
<1>6. ASSUME NEW k \in 1 .. n
      PROVE  \E c \in S : Cardinality(Ahead(c, S)) = k - 1
  <2>1. k - 1 \in places
    BY <1>1
  <2> QED
    BY <1>5, <2>1 DEF Surjection
<1> QED
  BY <1>2, <1>6 DEF InOrder

\* The first candidates of a set, up to a limit, are all of it or as many as
\* the limit.
LEMMA FirstOnes ==
  ASSUME NEW S \in SUBSET Candidates, IsFiniteSet(S), NEW limit \in Nat
  PROVE  LET first == {c \in S : Cardinality(Ahead(c, S)) < limit}
         IN  /\ IsFiniteSet(first) /\ Cardinality(first) <= limit
             /\ first # S => Cardinality(first) = limit
<1> DEFINE first == {c \in S : Cardinality(Ahead(c, S)) < limit}
           n == Cardinality(S)
           m == IF limit < n THEN limit ELSE n
           numbers == 1 .. m
           nth == [k \in numbers |-> InOrder(S, k)]
<1>1. n \in Nat /\ m \in Nat
  BY FS_CardinalityType
<1>2. nth \in Injection(numbers, first)
  BY <1>1, PlaceTaken DEF Injection, IsInjective
<1>3. ASSUME NEW c \in first
      PROVE  \E k \in numbers : nth[k] = c
  <2>1. /\ Cardinality(Ahead(c, S)) \in 0 .. n - 1
        /\ Cardinality(Ahead(c, S)) < limit
    BY <1>3, FewerAhead
  <2>2. PICK k \in Nat : k = Cardinality(Ahead(c, S)) + 1
    BY <2>1
  <2>3. k \in numbers /\ k \in 1 .. n
    BY <1>1, <2>1, <2>2
  <2>4. nth[k] = c
    BY <1>1, <2>1, <2>2, <2>3, PlaceTaken
  <2> QED
    BY <2>3, <2>4
<1>4. IsFiniteSet(numbers) /\ Cardinality(numbers) = m
  <2> HIDE DEF m
  <2> QED
    BY <1>1, FS_Interval
<1>5. nth \in Surjection(numbers, first)
  BY <1>2, <1>3 DEF Injection, Surjection
<1>6. IsFiniteSet(first) /\ Cardinality(first) = m
  <2> HIDE DEF first, numbers, nth, m
  <2> QED
    BY <1>2, <1>4, <1>5, FS_Surjection
<1>7. first # S => limit < n
  BY <1>1, FewerAhead
<1> QED
  BY <1>1, <1>6, <1>7
\* The plan has a place for every candidate of the manifest, in order, and
\* says what is to become of it.
LEMMA PlanFacts ==
  ASSUME NEW a \in Asks
  PROVE  LET plan == PlanOf(a)
         IN  /\ Len(plan) \in Nat /\ DOMAIN plan = 1 .. Len(plan)
             /\ \A k \in 1 .. Len(plan) :
                  /\ plan[k].id \in a.pool
                  /\ plan[k].status = SelectionStatus(a, plan[k].id)
             /\ \A i, k \in 1 .. Len(plan) : plan[i].id = plan[k].id => i = k
             /\ \A c \in a.pool : \E k \in 1 .. Len(plan) : plan[k].id = c
<1> DEFINE n == Cardinality(a.pool)
           plan == PlanOf(a)
<1>1. a.pool \in SUBSET Candidates /\ IsFiniteSet(a.pool)
  BY AskAssumption
<1>2. n \in Nat
  BY <1>1, FS_CardinalityType
<1>3. /\ Len(plan) = n /\ DOMAIN plan = 1 .. n
      /\ \A k \in 1 .. n :
           /\ plan[k].id = InOrder(a.pool, k)
           /\ plan[k].status = SelectionStatus(a, InOrder(a.pool, k))
  BY <1>2 DEF PlanOf
<1> HIDE DEF plan
<1>4. \A i, k \in 1 .. n : plan[i].id = plan[k].id => i = k
  BY <1>1, <1>2, <1>3, PlaceTaken
<1>5. ASSUME NEW c \in a.pool
      PROVE  \E k \in 1 .. n : plan[k].id = c
  <2>1. Cardinality(Ahead(c, a.pool)) \in 0 .. n - 1
    BY <1>1, FewerAhead
  <2>2. PICK k \in 1 .. n : k = Cardinality(Ahead(c, a.pool)) + 1
    BY <1>2, <2>1
  <2>3. Cardinality(Ahead(InOrder(a.pool, k), a.pool))
          = Cardinality(Ahead(c, a.pool))
    BY <1>1, <1>2, <2>1, <2>2, PlaceTaken
  <2> QED
    BY <1>1, <1>3, <2>2, <2>3, PlaceTaken
<1>6. \A k \in 1 .. n : plan[k].id \in a.pool
  BY <1>1, <1>3, PlaceTaken
<1> QED
  BY <1>2, <1>3, <1>4, <1>5, <1>6 DEF plan

-----------------------------------------------------------------------------
(* Who is selected.                                                         *)

\* A verdict is one of three words, a check has one of three outcomes.
LEMMA Wordings ==
  ASSUME NEW c, NEW req, NEW health
  PROVE  /\ \A name \in DOMAIN ConstraintVerdicts(c, req) :
              ConstraintVerdicts(c, req)[name]
                \in {"matched", "mismatched", "missing"}
         /\ \A name \in DOMAIN ApplicabilityChecks(c, health) :
              ApplicabilityChecks(c, health)[name] \in {"PASS", "FAIL", "UNKNOWN"}
<1>1. /\ \A condition : Holds(condition) \in {"matched", "mismatched"}
      /\ \A value : Passes(value) \in {"PASS", "FAIL", "UNKNOWN"}
  BY DEF Holds, Passes
<1>2. /\ \A x, y : MetalVerdict(x, y) \in {"matched", "mismatched", "missing"}
      /\ \A x, y : KnownVerdict(x, y) \in {"matched", "mismatched", "missing"}
      /\ \A x, y, z : RangeVerdict(x, y, z) \in {"matched", "mismatched", "missing"}
  BY <1>1 DEF MetalVerdict, KnownVerdict, RangeVerdict
<1>3. /\ InorganicCheck(c) \in {"PASS", "UNKNOWN"}
      /\ CoverageCheck(c) \in {"PASS", "FAIL", "UNKNOWN"}
  BY DEF InorganicCheck, CoverageCheck
<1> QED
  BY <1>1, <1>2, <1>3 DEF ConstraintVerdicts, ApplicabilityChecks

\* What the two passes let through is what is eligible (evaluate_pre_filter,
\* assess_applicability).
LEMMA TwoPasses ==
  ASSUME ask \in Asks, NEW c \in ask.pool
  PROVE  c \in Executable(ask) <=> Eligible(c)
<1> DEFINE verdicts == ConstraintVerdicts(c, ask.requirement)
           checks == ApplicabilityChecks(c, ask.health)
<1>1. Item[c].decision \in Decisions
  BY AskAssumption, ScreeningAssumption
<1>2. PreFilter(c, ask.requirement) = "PASS" <=>
        /\ Item[c].decision \in {"PASS", "UNCERTAIN"}
        /\ \A name \in DOMAIN verdicts : verdicts[name] = "matched"
  <2> HIDE DEF verdicts
  <2>1. \A name \in DOMAIN verdicts :
          verdicts[name] \in {"matched", "mismatched", "missing"}
    BY Wordings DEF verdicts
  <2>2. PreFilter(c, ask.requirement) =
          IF Item[c].decision \in {"REJECT", "FAILED"} THEN Item[c].decision
          ELSE IF Given(verdicts, "mismatched") THEN "REJECT"
          ELSE IF Given(verdicts, "missing") THEN "UNCERTAIN" ELSE "PASS"
    BY DEF PreFilter, verdicts
  <2> QED
    BY <1>1, <2>1, <2>2 DEF Given, Decisions
<1>3. Applicability(c, ask.health) = "APPLICABLE" <=>
        \A name \in DOMAIN checks : checks[name] = "PASS"
  <2> HIDE DEF checks
  <2>1. \A name \in DOMAIN checks : checks[name] \in {"PASS", "FAIL", "UNKNOWN"}
    BY Wordings DEF checks
  <2>2. Applicability(c, ask.health) =
          IF Given(checks, "FAIL") THEN "NOT_APPLICABLE"
          ELSE IF Given(checks, "UNKNOWN") THEN "UNKNOWN" ELSE "APPLICABLE"
    BY DEF Applicability, checks
  <2> QED
    BY <2>1, <2>2 DEF Given
<1>4. Requested(ask, c) <=>
        (ask.request.mode = "EXPLICIT_IDS" => c \in ask.request.ids)
  BY AskAssumption DEF Requested
<1> QED
  BY <1>2, <1>3, <1>4 DEF Executable, Eligible

\* The plan selects the first of the executable candidates.
LEMMA Selection ==
  ASSUME ask \in Asks, NEW c \in ask.pool
  PROVE  SelectionStatus(ask, c) = "SELECTED" <=> c \in Selected(ask)
<1>1. c \in Selected(ask) =>
        /\ Requested(ask, c) /\ PreFilter(c, ask.requirement) = "PASS"
        /\ Applicability(c, ask.health) = "APPLICABLE"
  BY DEF Selected, Executable
<1> QED
  BY <1>1 DEF SelectionStatus

-----------------------------------------------------------------------------
(* What the steps have in common.                                           *)

\* What depends on the ask alone stays as long as the ask does.
LEMMA AskStays ==
  ASSUME UNCHANGED ask
  PROVE  /\ InputFailure' = InputFailure /\ PlanOf(ask)' = PlanOf(ask)
         /\ \A c : /\ SelectionStatus(ask, c)' = SelectionStatus(ask, c)
                   /\ Wanted(c)' = Wanted(c) /\ NotRun(c)' = NotRun(c)
                   /\ \A device : Inferred(c, device)' = Inferred(c, device)
         /\ DevicesFor(ask.health)' = DevicesFor(ask.health)
<1>1. /\ InputFailure' = InputFailure /\ PlanOf(ask)' = PlanOf(ask)
      /\ DevicesFor(ask.health)' = DevicesFor(ask.health)
  BY DEF InputFailure
<1>2. ASSUME NEW c
      PROVE  /\ SelectionStatus(ask, c)' = SelectionStatus(ask, c)
             /\ Wanted(c)' = Wanted(c) /\ NotRun(c)' = NotRun(c)
  BY DEF Wanted, NotRun
<1>3. ASSUME NEW c, NEW device
      PROVE  Inferred(c, device)' = Inferred(c, device)
  BY DEF Inferred
<1> QED
  BY <1>1, <1>2, <1>3

\* What a record of each kind says.
LEMMA RecordFacts ==
  ASSUME ask \in Asks, NEW c \in ask.pool
  PROVE  /\ NotRun(c) \in Records /\ NotRun(c).error = None
         /\ NotRun(c).execution = "NOT_RUN" /\ NotRun(c).decision # "PASS"
         /\ NotRun(c).level = "L1_RETRIEVED"
         /\ NotRun(c).decision = "FAILED" => Item[c].decision = "FAILED"
         /\ \A error \in Mishaps :
              /\ Failed(error) \in Records /\ Failed(error).error = error
              /\ error # None /\ Failed(error).decision = "FAILED"
              /\ Failed(error).execution = "RUNTIME_FAILED"
              /\ Failed(error).level = "L1_RETRIEVED"
         /\ \A device \in DevicesFor(ask.health) :
              /\ device \in Devices /\ device # None
              /\ Inferred(c, device) \in Records
              /\ Inferred(c, device).error = None
              /\ Inferred(c, device).relaxed = device
              /\ Inferred(c, device).decision # "FAILED"
              /\ Inferred(c, device).execution # "NOT_RUN"
              /\ (\/ Inferred(c, device).level = "L2_ML_SCREENED"
                  \/ Inferred(c, device).decision = "PASS") =>
                   /\ Inferred(c, device).level = "L2_ML_SCREENED"
                   /\ QcPassed(Relaxation[c][device])
<1>1. PreFilter(c, ask.requirement) = "FAILED" => Item[c].decision = "FAILED"
  BY DEF PreFilter
<1>2. /\ NotRun(c) \in Records /\ NotRun(c).error = None
      /\ NotRun(c).execution = "NOT_RUN" /\ NotRun(c).decision # "PASS"
      /\ NotRun(c).level = "L1_RETRIEVED"
      /\ NotRun(c).decision = "FAILED" => Item[c].decision = "FAILED"
  BY <1>1 DEF NotRun, Record, Records, Decisions
<1>3. ASSUME NEW error \in Mishaps
      PROVE  /\ Failed(error) \in Records /\ Failed(error).error = error
             /\ error # None /\ Failed(error).decision = "FAILED"
             /\ Failed(error).execution = "RUNTIME_FAILED"
             /\ Failed(error).level = "L1_RETRIEVED"
  <2>1. error # None
    BY NoneAssumption
  <2> QED
    BY <2>1, NoneAssumption DEF Failed, Record, Records, Decisions
<1>4. ASSUME NEW device \in DevicesFor(ask.health)
      PROVE  /\ device \in Devices /\ device # None
             /\ Inferred(c, device) \in Records
             /\ Inferred(c, device).error = None
             /\ Inferred(c, device).relaxed = device
             /\ Inferred(c, device).decision # "FAILED"
             /\ Inferred(c, device).execution # "NOT_RUN"
             /\ (\/ Inferred(c, device).level = "L2_ML_SCREENED"
                 \/ Inferred(c, device).decision = "PASS") =>
                  /\ Inferred(c, device).level = "L2_ML_SCREENED"
                  /\ QcPassed(Relaxation[c][device])
  <2>1. device \in Devices
    BY AskAssumption DEF DevicesFor, Devices
  <2>2. device # None
    BY <2>1, NoneAssumption
  <2> QED
    BY <2>1, <2>2 DEF Inferred, Record, Records, Decisions
<1> QED
  BY <1>2, <1>3, <1>4

\* The ledger only grows, and then what was told of a candidate stays told.
Grows == \A c : ledger[c] # None => ledger'[c] = ledger[c]
LEMMA StillTold ==
  ASSUME UNCHANGED ask, Grows
  PROVE  \A record, c : Told(record, c) => Told(record, c)'
<1> SUFFICES ASSUME NEW record, NEW c, Told(record, c)
             PROVE  Told(record, c)'
  OBVIOUS
<1> QED
  BY AskStays DEF Told, Grows

\* Everything that is written of an attempt stays, and what is told in it.
LEMMA FilesStay ==
  ASSUME FilesOK, UNCHANGED <<ask, disk, attempt>>, Grows,
         ledger' = ledger \/ disk[attempt]["completion"] = None
  PROVE  FilesOK'
<1> SUFFICES ASSUME NEW n \in 1 .. MaxCalls
             PROVE  FileOK(n)'
  BY DEF FilesOK
<1>1. FileOK(n)
  BY DEF FilesOK
<1>2. ledger' = ledger => \A records : UpToDate(records)' = UpToDate(records)
  BY DEF UpToDate
<1> QED
  BY <1>1, <1>2, AskStays, StillTold DEF FileOK

\* What the ledger holds is backed as long as no relaxed structure is replaced
\* without a crash.
LEMMA LedgerStays ==
  ASSUME LedgerOK, UNCHANGED <<ask, ledger>>, crashes' = 0 => crashes = 0,
         \A c \in Candidates : ledger[c] # None =>
           \/ sandbox'[c] = sandbox[c]
           \/ crashes > 0 /\ sandbox'[c] \in DevicesFor(ask.health)
  PROVE  LedgerOK'
<1> SUFFICES ASSUME NEW c \in Candidates, ledger[c] # None
             PROVE  /\ c \in ask.pool /\ Wanted(c)
                    /\ \E device \in DevicesFor(ask.health) :
                         /\ ledger[c] = Inferred(c, device)
                         /\ Complete(Relaxation[c][device])
                         /\ (crashes' = 0 \/ ask.health.device = "cpu") =>
                              sandbox'[c] = device
  BY AskStays DEF LedgerOK
<1>1. c \in ask.pool /\ Wanted(c)
  BY DEF LedgerOK
<1>2. PICK device \in DevicesFor(ask.health) :
        /\ ledger[c] = Inferred(c, device) /\ Complete(Relaxation[c][device])
        /\ (crashes = 0 \/ ask.health.device = "cpu") => sandbox[c] = device
  BY DEF LedgerOK
<1>3. ask.health.device = "cpu" => DevicesFor(ask.health) = {"cpu"}
  BY DEF DevicesFor
<1> QED
  BY <1>1, <1>2, <1>3

\* A file is written and the others stay.
LEMMA Written ==
  ASSUME ShapesOK, NEW name \in Files, NEW content, Write(name, content)
  PROVE  /\ attempt \in 1 .. MaxCalls /\ disk'[attempt][name] = content
         /\ \A n \in 1 .. MaxCalls, other \in Files :
              n # attempt \/ other # name => disk'[n][other] = disk[n][other]
         /\ disk' = [n \in 1 .. MaxCalls |-> [other \in Files |-> disk'[n][other]]]
<1>1. /\ attempt \in 1 .. MaxCalls
      /\ disk = [n \in 1 .. MaxCalls |-> [other \in Files |-> disk[n][other]]]
      /\ disk' = [disk EXCEPT ![attempt] =
                    [disk[attempt] EXCEPT ![name] = content]]
  BY DEF ShapesOK, Write
<1>2. /\ DOMAIN disk' = 1 .. MaxCalls
      /\ disk'[attempt] = [disk[attempt] EXCEPT ![name] = content]
      /\ \A n \in 1 .. MaxCalls : n # attempt => disk'[n] = disk[n]
      /\ disk' = [n \in 1 .. MaxCalls |-> disk'[n]]
  BY <1>1
<1>3. \A n \in 1 .. MaxCalls : disk[n] = [other \in Files |-> disk[n][other]]
  BY <1>1
<1>4. /\ disk'[attempt] = [other \in Files |-> disk'[attempt][other]]
      /\ disk'[attempt][name] = content
      /\ \A other \in Files :
           other # name => disk'[attempt][other] = disk[attempt][other]
  BY <1>1, <1>2, <1>3
<1>5. \A n \in 1 .. MaxCalls :
        disk'[n] = [other \in Files |-> disk'[n][other]]
  <2> TAKE n \in 1 .. MaxCalls
  <2>1. CASE n = attempt
    BY <1>4, <2>1
  <2>2. CASE n # attempt
    <3>1. disk'[n] = disk[n] /\ disk[n] = [other \in Files |-> disk[n][other]]
      BY <1>2, <1>3, <2>2
    <3> QED BY <3>1
  <2> QED BY <2>1, <2>2
<1> QED
  BY <1>1, <1>2, <1>4, <1>5

\* What is in hand, and what a step makes of it.
LEMMA NothingInHand ==
  /\ job = Idle => JobShape /\ job.pc = "idle" /\ job.records = <<>>
  /\ job' = Idle => JobShape' /\ job'.pc = "idle" /\ job'.records = <<>>
  BY DEF Idle, JobShape, Places
LEMMA PlaceChanges ==
  ASSUME JobShape, NEW place \in Places, job' = [job EXCEPT !.pc = place]
  PROVE  /\ JobShape' /\ job'.pc = place /\ job'.k = job.k
         /\ job'.records = job.records /\ job'.device = job.device
<1>1. PICK pc, k, records, device, spoiled :
        job = [pc |-> pc, k |-> k, records |-> records, device |-> device,
               spoiled |-> spoiled]
  BY DEF JobShape
<1> QED
  BY <1>1 DEF JobShape
LEMMA RecordKept ==
  ASSUME JobShape, NEW record, Keep(record)
  PROVE  /\ JobShape' /\ job'.pc = "batch" /\ job'.k = job.k + 1
         /\ DOMAIN job'.records = DOMAIN job.records \cup {Current}
         /\ job'.records[Current] = record
         /\ \A c \in DOMAIN job.records :
              c # Current => job'.records[c] = job.records[c]
<1>1. PICK pc, k, records, device, spoiled :
        job = [pc |-> pc, k |-> k, records |-> records, device |-> device,
               spoiled |-> spoiled]
  BY DEF JobShape
<1>2. \A c0 : c0 = Current =>
        job' = [pc |-> "batch", k |-> k + 1, device |-> None,
                spoiled |-> spoiled,
                records |-> [c \in DOMAIN records \cup {c0} |->
                               IF c = c0 THEN record ELSE records[c]]]
  BY <1>1 DEF Keep
<1>3. PICK c0, kept :
        /\ c0 = Current
        /\ kept = [c \in DOMAIN records \cup {c0} |->
                     IF c = c0 THEN record ELSE records[c]]
        /\ job' = [pc |-> "batch", k |-> k + 1, device |-> None,
                   spoiled |-> spoiled, records |-> kept]
  BY <1>2
<1>4. /\ DOMAIN kept = DOMAIN records \cup {c0}
      /\ kept[c0] = record /\ kept = [c \in DOMAIN kept |-> kept[c]]
      /\ \A c \in DOMAIN records : c # c0 => kept[c] = records[c]
  BY <1>3
<1>5. /\ job'.pc = "batch" /\ job'.k = k + 1 /\ job'.records = kept
      /\ job' = [pc |-> job'.pc, k |-> job'.k, records |-> job'.records,
                 device |-> job'.device, spoiled |-> job'.spoiled]
  BY <1>3
<1>6. k \in Nat \ {0} /\ job.k = k /\ job.records = records
  BY <1>1 DEF JobShape
<1>7. JobShape'
  BY <1>4, <1>5, <1>6 DEF JobShape, Places, InLoop
<1> QED
  BY <1>3, <1>4, <1>5, <1>6, <1>7

\* A frozen plan is the one of the ask, and its input was sound.
LEMMA PlanInHand ==
  ASSUME IndInv, HasPlan
  PROVE  /\ Planned = PlanOf(ask) /\ Current = PlanOf(ask)[job.k].id
         /\ disk[attempt]["native"] # None /\ InputFailure = NoOutcome
<1>1. attempt \in 1 .. MaxCalls /\ FileOK(attempt)
  BY DEF IndInv, ShapesOK, FilesOK
<1> QED
  BY <1>1 DEF FileOK, HasPlan, Planned, Current

\* As long as there is no answer there is nothing to be said of it.
LEMMA NoAnswer ==
  (outcome = NoOutcome => OutcomeOK) /\ (outcome' = NoOutcome => OutcomeOK')
BY NoneAssumption
   DEF OutcomeOK, AnswersAreCompleted, RefusalHasACause, NoOutcome, Categories

\* What is written of the other attempts stays.
LEMMA OtherAttempts ==
  ASSUME ShapesOK, FilesOK, UNCHANGED <<ask, ledger, attempt>>,
         NEW name \in Files, NEW content, Write(name, content), FileOK(attempt)'
  PROVE  FilesOK'
<1> SUFFICES ASSUME NEW n \in 1 .. MaxCalls
             PROVE  FileOK(n)'
  BY DEF FilesOK
<1>1. CASE n = attempt
  BY <1>1
<1>2. CASE n # attempt
  <2>1. FileOK(n) /\ \A other \in Files : disk'[n][other] = disk[n][other]
    BY <1>2, Written DEF FilesOK
  <2>2. \A record, c : Told(record, c) => Told(record, c)'
    BY StillTold DEF Grows
  <2> QED
    BY <1>2, <2>1, <2>2, AskStays DEF FileOK, Files
<1> QED
  BY <1>1, <1>2

LEMMA InitInv ==
  Init => IndInv
<1> SUFFICES ASSUME Init
             PROVE  IndInv
  OBVIOUS
<1>1. JobShape /\ job = Idle /\ job.pc = "idle" /\ job.records = <<>>
  BY NothingInHand DEF Init
<1>2. /\ attempt = 1 /\ 1 \in 1 .. MaxCalls
      /\ \A n \in 1 .. MaxCalls, name \in Files : disk[n][name] = None
      /\ disk = [n \in 1 .. MaxCalls |-> [name \in Files |-> disk[n][name]]]
  BY RunAssumption DEF Init
<1>3. ShapesOK
  BY <1>1, <1>2, RunAssumption DEF Init, ShapesOK
<1>4. LedgerOK
  BY DEF Init, LedgerOK
<1>5. FilesOK
  BY <1>2 DEF FilesOK, FileOK, Files
<1>6. CallOK
  BY <1>1 DEF CallOK, At, InLoop, Closing
<1>7. FreshOK
  BY <1>1, <1>2 DEF Init, FreshOK, At, InLoop
<1>8. OutcomeOK
  BY NoAnswer DEF Init
<1> QED
  BY <1>3, <1>4, <1>5, <1>6, <1>7, <1>8 DEF IndInv

-----------------------------------------------------------------------------
(* The steps of the stage loop, and the end of a call.                      *)

LEMMA InvokeStep ==
  ASSUME IndInv, Invoke
  PROVE  IndInv'
<1>1. /\ job.pc = "idle" /\ calls < MaxCalls
      /\ outcome.status \in {None, "RETRYABLE_FAILED"}
      /\ attempt' = (IF outcome.status = None THEN attempt ELSE attempt + 1)
      /\ calls' = calls + 1 /\ outcome' = NoOutcome
      /\ job' = [Idle EXCEPT !.pc = "validate"]
      /\ UNCHANGED <<ask, disk, ledger, sandbox, orphans, crashes, failures>>
  BY DEF Invoke, store
<1>2. job = Idle
  BY <1>1 DEF IndInv, CallOK, At
<1>3. /\ JobShape' /\ job'.pc = "validate" /\ job'.records = <<>>
  BY <1>1, <1>2, NothingInHand, PlaceChanges DEF Places
<1>4. /\ attempt \in 1 .. MaxCalls /\ attempt' \in 1 .. MaxCalls
      /\ attempt' <= calls' /\ calls' \in 1 .. MaxCalls
  BY <1>1, RunAssumption DEF IndInv, ShapesOK, NoOutcome
<1>5. ShapesOK'
  BY <1>1, <1>3, <1>4 DEF IndInv, ShapesOK
<1>6. LedgerOK'
  BY <1>1, LedgerStays DEF IndInv
<1>7. FilesOK'
  <2> SUFFICES ASSUME NEW n \in 1 .. MaxCalls
               PROVE  FileOK(n)'
    BY DEF FilesOK
  <2>1. FileOK(n) /\ (n > attempt' => n > attempt)
    BY <1>1, <1>4 DEF IndInv, FilesOK
  <2>2. n = attempt' /\ n # attempt => n > attempt
    BY <1>1, <1>4
  <2>3. \A records : UpToDate(records)' = UpToDate(records)
    BY <1>1 DEF UpToDate
  <2>4. \A record, c : Told(record, c) => Told(record, c)'
    BY <1>1, StillTold DEF Grows
  <2> QED
    BY <1>1, <2>1, <2>2, <2>3, <2>4, AskStays DEF FileOK, Files
<1>8. CallOK'
  BY <1>3 DEF CallOK, At, InLoop, Closing
<1>9. FreshOK'
  <2> SUFFICES ASSUME crashes = 0
               PROVE  \A name \in Files : disk[attempt'][name] = None
    BY <1>1, <1>3, <1>4 DEF FreshOK, At, InLoop
  <2>1. CASE calls = 0
    BY <1>1, <2>1 DEF IndInv, FreshOK, ShapesOK, NoOutcome
  <2>2. CASE calls # 0
    <3>1. attempt' = attempt + 1
      BY <1>1, <2>2 DEF IndInv, FreshOK, ShapesOK, At
    <3>2. PICK n \in 1 .. MaxCalls : n = attempt' /\ n > attempt
      BY <1>4, <3>1
    <3>3. FileOK(n)
      BY DEF IndInv, FilesOK
    <3> QED
      BY <3>2, <3>3 DEF FileOK
  <2> QED
    BY <2>1, <2>2
<1> QED
  BY <1>1, <1>5, <1>6, <1>7, <1>8, <1>9, NoAnswer DEF IndInv

LEMMA CrashStep ==
  ASSUME IndInv, Crash
  PROVE  IndInv'
<1>1. /\ crashes' = crashes + 1 /\ crashes \in Nat
      /\ job' = Idle /\ outcome' = NoOutcome
      /\ UNCHANGED <<ask, disk, ledger, sandbox, attempt, calls, failures>>
  BY DEF Crash, store, IndInv, ShapesOK
<1>2. /\ JobShape' /\ job'.pc = "idle" /\ job'.records = <<>>
  BY <1>1, NothingInHand
<1>3. ShapesOK'
  BY <1>1, <1>2 DEF IndInv, ShapesOK
<1>4. LedgerOK'
  BY <1>1, LedgerStays DEF IndInv
<1>5. FilesOK'
  BY <1>1, FilesStay DEF IndInv, Grows
<1>6. CallOK' /\ FreshOK'
  BY <1>1, <1>2 DEF CallOK, FreshOK, At, InLoop, Closing
<1>7. OutcomeOK'
  BY <1>1, NoAnswer
<1> QED
  BY <1>3, <1>4, <1>5, <1>6, <1>7 DEF IndInv

\* A call that is under way.
LEMMA UnderWay ==
  ASSUME IndInv, job.pc # "idle"
  PROVE  /\ outcome = NoOutcome /\ calls \in 1 .. MaxCalls
         /\ attempt \in 1 .. calls /\ attempt \in 1 .. MaxCalls
         /\ FileOK(attempt) /\ JobShape
BY DEF IndInv, ShapesOK, FilesOK, OutcomeOK, At, Idle

\* A call that ends with an answer.
LEMMA Ending ==
  ASSUME IndInv, job.pc # "idle", Quiet, UNCHANGED store, NEW answer,
         Finish(answer), answer.status # None,
         AnswersAreCompleted', RefusalHasACause'
  PROVE  IndInv'
<1>1. /\ job' = Idle /\ outcome' = answer
      /\ UNCHANGED <<ask, disk, ledger, sandbox, orphans, attempt, calls,
                     crashes, failures>>
  BY DEF Finish, Quiet, store
<1>2. /\ JobShape' /\ job'.pc = "idle" /\ job'.records = <<>>
  BY <1>1, NothingInHand
<1>3. ShapesOK'
  BY <1>1, <1>2, UnderWay DEF IndInv, ShapesOK
<1>4. LedgerOK'
  BY <1>1, LedgerStays DEF IndInv
<1>5. FilesOK'
  BY <1>1, FilesStay DEF IndInv, Grows
<1>6. CallOK' /\ FreshOK'
  BY <1>1, <1>2, UnderWay DEF CallOK, FreshOK, At, InLoop, Closing
<1>7. OutcomeOK'
  BY <1>2 DEF OutcomeOK, At
<1> QED
  BY <1>3, <1>4, <1>5, <1>6, <1>7 DEF IndInv

\* A step within a call that writes nothing.
LEMMA Moving ==
  ASSUME IndInv, job.pc # "idle", JobShape',
         UNCHANGED <<ask, disk, ledger, sandbox, attempt, calls, outcome, crashes>>,
         orphans' = orphans, failures' \in Nat
  PROVE  ShapesOK' /\ LedgerOK' /\ FilesOK' /\ OutcomeOK'
<1>1. ShapesOK'
  BY UnderWay DEF IndInv, ShapesOK
<1>2. LedgerOK'
  BY LedgerStays DEF IndInv
<1>3. FilesOK'
  BY FilesStay DEF IndInv, Grows
<1>4. OutcomeOK'
  BY UnderWay, NoAnswer
<1> QED
  BY <1>1, <1>2, <1>3, <1>4

LEMMA ValidateStep ==
  ASSUME IndInv, Validate
  PROVE  IndInv'
<1>1. /\ job.pc = "validate" /\ Quiet /\ UNCHANGED store
      /\ UNCHANGED <<ask, disk, ledger, sandbox, orphans, attempt, calls, crashes,
                     failures>>
  BY DEF Validate, At, Quiet, store
<1>2. CASE InputFailure = NoOutcome
  <2>1. job' = [job EXCEPT !.pc = "prepare"] /\ outcome' = outcome
    BY <1>2 DEF Validate
  <2>2. /\ JobShape' /\ job'.pc = "prepare" /\ job'.records = job.records
    BY <1>1, <2>1, UnderWay, PlaceChanges DEF Places
  <2>3. CallOK'
    BY <1>1, <1>2, <2>2, AskStays DEF IndInv, CallOK, At, InLoop, Closing
  <2>4. FreshOK'
    BY <1>1, <2>2 DEF IndInv, FreshOK, At, InLoop
  <2> QED
    BY <1>1, <2>1, <2>2, <2>3, <2>4, Moving DEF IndInv, ShapesOK
<1>3. CASE InputFailure # NoOutcome
  <2>1. Finish(InputFailure)
    BY <1>3 DEF Validate
  <2>2. /\ InputFailure.status \in Statuses /\ InputFailure.result = None
        /\ InputFailure.category \in {"MISSING_INPUT", "INPUT_INTEGRITY_ERROR",
                                     "BATCH_LIMIT_EXCEEDED"}
    BY <1>3 DEF InputFailure, Failure, Statuses
  <2>3. outcome' = InputFailure
    BY <2>1 DEF Finish
  <2>4. disk[attempt]["completion"] = None
    BY <1>1, <1>3, UnderWay DEF FileOK
  <2>5. AnswersAreCompleted' /\ RefusalHasACause'
    BY <1>1, <2>2, <2>3, <2>4 DEF AnswersAreCompleted, RefusalHasACause
  <2> QED
    BY <1>1, <2>1, <2>2, <2>5, Ending, NoneAssumption
<1> QED
  BY <1>2, <1>3

LEMMA ReusePlanStep ==
  ASSUME IndInv, ReusePlan
  PROVE  IndInv'
<1>1. /\ job.pc = "prepare" /\ HasPlan /\ job' = [job EXCEPT !.pc = "start"]
      /\ UNCHANGED <<ask, disk, ledger, sandbox, orphans, attempt, calls, outcome,
                     crashes, failures>>
  BY DEF ReusePlan, At, Quiet, store
<1>2. /\ JobShape' /\ job'.pc = "start" /\ job'.records = job.records
  BY <1>1, UnderWay, PlaceChanges DEF Places
<1>3. CallOK'
  BY <1>1, <1>2, AskStays DEF IndInv, CallOK, At, InLoop, Closing, HasPlan
<1>4. FreshOK'
  <2>1. crashes # 0
    BY <1>1 DEF IndInv, FreshOK, HasPlan, Files
  <2> QED
    BY <1>1, <2>1 DEF FreshOK
<1> QED
  BY <1>1, <1>2, <1>3, <1>4, Moving DEF IndInv, ShapesOK

LEMMA WriteNativePlanStep ==
  ASSUME IndInv, WriteNativePlan
  PROVE  IndInv'
<1>1. /\ job.pc = "prepare" /\ ~HasPlan /\ Quiet
      /\ UNCHANGED <<ask, orphans, attempt, calls, crashes, failures>>
  BY DEF WriteNativePlan, At, Quiet
<1>2. /\ disk[attempt]["plan"] = None /\ disk[attempt]["manifest"] = None
      /\ disk[attempt]["report"] = None /\ disk[attempt]["result"] = None
      /\ disk[attempt]["completion"] = None
  BY <1>1, UnderWay DEF HasPlan, FileOK
<1>3. CASE Finish(PrepareException) /\ UNCHANGED store
           /\ (\/ ~ask.requirement.confirmed \/ calls >= ask.health.expires
               \/ disk[attempt]["native"] # None)
  <2>1. /\ outcome' = PrepareException /\ UNCHANGED disk
    BY <1>3 DEF Finish, store
  <2>2. /\ PrepareException.status = "PERMANENT_FAILED"
        /\ PrepareException.category = "ORCHESTRATOR_STAGE_EXCEPTION"
        /\ PrepareException.result = None
    BY DEF PrepareException, Failure
  <2>3. disk[attempt]["native"] # None => crashes > 0
    BY <1>1 DEF IndInv, FreshOK, ShapesOK, Files
  <2>4. AnswersAreCompleted' /\ RefusalHasACause'
    BY <1>1, <1>2, <1>3, <2>1, <2>2, <2>3 DEF AnswersAreCompleted, RefusalHasACause
  <2> QED
    BY <1>1, <1>3, <2>2, <2>4, Ending, NoneAssumption DEF Statuses
<1>4. CASE /\ disk[attempt]["native"] = None
           /\ Write("native", [when |-> calls, candidates |-> PlanOf(ask)])
           /\ UNCHANGED <<ledger, sandbox, outcome>>
           /\ job' = [job EXCEPT !.pc = "freeze"]
  <2> DEFINE native == [when |-> calls, candidates |-> PlanOf(ask)]
  <2>1. native # None /\ native.candidates = PlanOf(ask)
    BY <1>1, UnderWay, NoneAssumption DEF IndInv, ShapesOK
  <2> HIDE DEF native
  <2>2. /\ disk'[attempt]["native"] = native
        /\ \A n \in 1 .. MaxCalls, other \in Files :
             n # attempt \/ other # "native" => disk'[n][other] = disk[n][other]
        /\ disk' = [n \in 1 .. MaxCalls |-> [other \in Files |-> disk'[n][other]]]
    BY <1>4, Written DEF native, IndInv, Files
  <2>3. /\ JobShape' /\ job'.pc = "freeze" /\ job'.records = job.records
    BY <1>1, <1>4, UnderWay, PlaceChanges DEF Places
  <2>4. ShapesOK'
    BY <1>1, <1>4, <2>2, <2>3, UnderWay DEF IndInv, ShapesOK
  <2>5. LedgerOK'
    BY <1>1, <1>4, LedgerStays DEF IndInv
  <2>6. FileOK(attempt)'
    BY <1>1, <1>2, <1>4, <2>1, <2>2, UnderWay, AskStays
       DEF FileOK, Files, IndInv, CallOK
  <2>7. FilesOK'
    BY <1>1, <1>4, <2>6, OtherAttempts DEF IndInv, Files, native
  <2>8. CallOK'
    BY <1>1, <1>2, <1>4, <2>1, <2>2, <2>3, UnderWay, AskStays
       DEF IndInv, CallOK, At, InLoop, Closing, HasPlan, Files
  <2>9. FreshOK'
    BY <1>1, <1>2, <2>2, <2>3, UnderWay DEF FreshOK, At, InLoop, Files
  <2> QED
    BY <1>1, <1>4, <2>4, <2>5, <2>7, <2>8, <2>9, UnderWay, NoAnswer DEF IndInv
<1> QED
  BY <1>1, <1>3, <1>4 DEF WriteNativePlan

LEMMA FreezePlanStep ==
  ASSUME IndInv, FreezePlan
  PROVE  IndInv'
<1> DEFINE native == disk[attempt]["native"]
<1>1. /\ job.pc = "freeze" /\ Write("plan", native)
      /\ job' = [job EXCEPT !.pc = "start"]
      /\ UNCHANGED <<ask, ledger, sandbox, orphans, attempt, calls, outcome,
                     crashes, failures>>
  BY DEF FreezePlan, At, Quiet
<1>2. /\ native # None /\ native.candidates = PlanOf(ask)
      /\ disk[attempt]["plan"] = None /\ disk[attempt]["manifest"] = None
      /\ disk[attempt]["report"] = None /\ disk[attempt]["result"] = None
      /\ disk[attempt]["completion"] = None
      /\ InputFailure = NoOutcome /\ job.records = <<>>
  BY <1>1, UnderWay DEF IndInv, CallOK, At, HasPlan, FileOK, InLoop, Closing
<1> HIDE DEF native
<1>3. /\ disk'[attempt]["plan"] = native
      /\ \A n \in 1 .. MaxCalls, other \in Files :
           n # attempt \/ other # "plan" => disk'[n][other] = disk[n][other]
      /\ disk' = [n \in 1 .. MaxCalls |-> [other \in Files |-> disk'[n][other]]]
  BY <1>1, Written DEF IndInv, Files
<1>4. /\ JobShape' /\ job'.pc = "start" /\ job'.records = job.records
  BY <1>1, UnderWay, PlaceChanges DEF Places
<1>5. ShapesOK'
  BY <1>1, <1>3, <1>4, UnderWay DEF IndInv, ShapesOK
<1>6. LedgerOK'
  BY <1>1, LedgerStays DEF IndInv
<1>7. FileOK(attempt)'
  BY <1>1, <1>2, <1>3, UnderWay, AskStays DEF FileOK, Files, native
<1>8. FilesOK'
  BY <1>1, <1>7, OtherAttempts DEF IndInv, Files
<1>9. CallOK'
  BY <1>1, <1>2, <1>3, <1>4, UnderWay, AskStays
     DEF CallOK, At, InLoop, Closing, HasPlan, Files
<1>10. FreshOK'
  BY <1>1, <1>2, <1>3, <1>4, UnderWay DEF FreshOK, At, InLoop, Files
<1> QED
  BY <1>1, <1>5, <1>6, <1>8, <1>9, <1>10, UnderWay, NoAnswer DEF IndInv

LEMMA StartStep ==
  ASSUME IndInv, Start
  PROVE  IndInv'
<1> DEFINE result == disk[attempt]["result"]
           completion == disk[attempt]["completion"]
<1>1. /\ job.pc = "start" /\ Quiet /\ UNCHANGED store
      /\ UNCHANGED <<ask, disk, ledger, sandbox, orphans, attempt, calls, crashes,
                     failures>>
  BY DEF Start, At, Quiet, store
<1>2. /\ HasPlan /\ InputFailure = NoOutcome /\ job.records = <<>>
      /\ FileOK(attempt)
  BY <1>1, UnderWay DEF IndInv, CallOK, At, InLoop, Closing
<1>3. CASE /\ result = None /\ outcome' = outcome
           /\ job' = [job EXCEPT !.pc = "batch", !.k = 1]
  <2>1. job' = [job EXCEPT !.pc = "batch", !.k = 1] /\ outcome' = outcome
    BY <1>3
  <2>2. JobShape' /\ job'.pc = "batch" /\ job'.k = 1 /\ job'.records = <<>>
    <3>1. PICK pc, k, records, device, spoiled :
            job = [pc |-> pc, k |-> k, records |-> records, device |-> device,
                   spoiled |-> spoiled]
      BY <1>1, UnderWay DEF JobShape
    <3>2. job' = [pc |-> "batch", k |-> 1, records |-> records,
                  device |-> device, spoiled |-> spoiled]
      BY <2>1, <3>1
    <3>3. records = <<>> /\ records = [c \in DOMAIN records |-> records[c]]
      BY <1>1, <1>2, <3>1, UnderWay DEF JobShape
    <3> QED
      BY <3>2, <3>3 DEF JobShape, Places, InLoop
  <2>3. completion = None
    BY <1>2, <1>3 DEF FileOK
  <2>4. CallOK'
    <3>1. PlanOf(ask)' = PlanOf(ask) /\ Len(PlanOf(ask)) \in Nat
      BY <1>1, AskStays, PlanFacts DEF IndInv, ShapesOK
    <3>2. {PlanOf(ask)[i].id : i \in 1 .. job'.k - 1} = {}
      BY <2>2
    <3>3. DOMAIN job'.records = {}
      BY <2>2
    <3> QED
      BY <1>1, <1>2, <1>3, <2>2, <2>3, <3>1, <3>2, <3>3, AskStays
         DEF CallOK, At, InLoop, Closing, HasPlan, UpToDate
  <2>5. FreshOK'
    BY <1>1, <2>2 DEF IndInv, FreshOK, At, InLoop
  <2> QED
    BY <1>1, <2>1, <2>2, <2>4, <2>5, Moving DEF IndInv, ShapesOK
<1>4. CASE result # None /\ completion = result /\ Answer(result)
  <2>1. Answer(result)
    BY <1>4
  <2> HIDE DEF result
  <2>2. PICK answer :
          /\ Finish(answer) /\ answer.status = result.status
          /\ answer.result = result
          /\ answer.category \in {None, "AGENT02_RETRYABLE_WORKER_FAILURE",
                                 "AGENT02_EXECUTION_FAILED"}
    BY <2>1 DEF Answer
  <2>3. result.status \in Statuses
    BY <1>2, <1>4 DEF result, FileOK, NativeStatus, Statuses
  <2>4. outcome' = answer
    BY <2>2 DEF Finish
  <2>5. AnswersAreCompleted' /\ RefusalHasACause'
    BY <1>1, <1>4, <2>2, <2>4, NoneAssumption
       DEF AnswersAreCompleted, RefusalHasACause, Categories
  <2> QED
    BY <1>1, <2>2, <2>3, <2>5, Ending, NoneAssumption
<1>5. CASE completion # result /\ Refuse
  <2>1. result # None
    BY <1>2, <1>5 DEF FileOK
  <2>2. PICK answer :
          /\ Finish(answer) /\ answer.status = "PERMANENT_FAILED"
          /\ answer.result = None /\ answer.category = "AGENT02_EXECUTION_FAILED"
    BY <1>5 DEF Refuse, Failure
  <2>3. outcome' = answer
    BY <2>2 DEF Finish
  <2>4. completion = None /\ disk[attempt]["manifest"] # None
    BY <1>2, <1>5, <2>1 DEF FileOK
  <2>5. crashes > 0
    BY <1>1, <2>1 DEF IndInv, ShapesOK, FreshOK
  <2>6. AnswersAreCompleted' /\ RefusalHasACause'
    BY <1>1, <2>1, <2>2, <2>3, <2>4, <2>5
       DEF AnswersAreCompleted, RefusalHasACause
  <2> QED
    BY <1>1, <2>2, <2>6, Ending, NoneAssumption DEF Statuses
<1> QED
  BY <1>3, <1>4, <1>5 DEF Start

-----------------------------------------------------------------------------
(* The steps of the batch.                                                  *)

\* A record is added for the current candidate.
LEMMA Keeping ==
  ASSUME IndInv, job.pc \in InLoop, job.k <= Len(Planned), NEW record, Keep(record),
         UNCHANGED <<ask, disk, attempt, calls, outcome, crashes>>,
         \A c : c # Current => ledger'[c] = ledger[c],
         ledger[Current] # None => ledger'[Current] = ledger[Current],
         ledger'[Current] # None => record = ledger'[Current],
         \A c : c = Current => Told(record, c)'
  PROVE  /\ JobShape' /\ FilesOK' /\ CallOK' /\ FreshOK' /\ OutcomeOK'
<1> DEFINE plan == PlanOf(ask)
<1>1. /\ HasPlan /\ InputFailure = NoOutcome /\ Planned = plan
      /\ Current = plan[job.k].id /\ job.pc # "idle"
      /\ disk[attempt]["result"] = None /\ disk[attempt]["completion"] = None
      /\ UpToDate(job.records)
      /\ \A c \in DOMAIN job.records : Told(job.records[c], c)
      /\ DOMAIN job.records = {plan[i].id : i \in 1 .. job.k - 1}
  BY PlanInHand DEF IndInv, CallOK, InLoop, Closing, At
<1> HIDE DEF plan
<1>2. /\ JobShape' /\ job'.pc = "batch" /\ job'.k = job.k + 1
      /\ DOMAIN job'.records = DOMAIN job.records \cup {Current}
      /\ job'.records[Current] = record
      /\ \A c \in DOMAIN job.records :
           c # Current => job'.records[c] = job.records[c]
  BY <1>1, UnderWay, RecordKept
<1>3. Grows
  BY DEF Grows
<1>4. FilesOK'
  BY <1>1, <1>3, FilesStay DEF IndInv
<1>5. UpToDate(job.records)'
  BY <1>1, <1>2 DEF UpToDate
<1>6. \A c \in DOMAIN job'.records : Told(job.records[c], c)'
  <2> SUFFICES ASSUME NEW c \in DOMAIN job'.records
               PROVE  Told(job.records[c], c)'
    OBVIOUS
  <2>1. PICK kept : kept = job'.records[c]
    OBVIOUS
  <2>2. Told(kept, c)'
    <3>1. CASE c = Current
      BY <1>2, <2>1, <3>1
    <3>2. CASE c # Current
      BY <1>1, <1>2, <1>3, <2>1, <3>2, StillTold
    <3> QED
      BY <3>1, <3>2
  <2> QED
    BY <2>1, <2>2 DEF Told
<1>7. DOMAIN job'.records = {plan[i].id : i \in 1 .. job'.k - 1}
  <2>1. job.k \in Nat \ {0} /\ job'.k - 1 = job.k
    BY <1>1, <1>2, UnderWay DEF JobShape
  <2>2. 1 .. job'.k - 1 = (1 .. job.k - 1) \cup {job.k}
    BY <2>1
  <2> QED
    BY <1>1, <1>2, <2>2
<1>8. /\ job'.k <= Len(plan) + 1 /\ PlanOf(ask)' = plan
      /\ InputFailure' = NoOutcome
  <2>1. Len(plan) \in Nat /\ job.k \in Nat
    BY <1>1, UnderWay, PlanFacts DEF plan, IndInv, ShapesOK, JobShape
  <2> QED
    BY <1>1, <1>2, <2>1, AskStays DEF plan
<1>9. CallOK'
  <2>1. /\ HasPlan' /\ disk'[attempt']["result"] = None
        /\ disk'[attempt']["completion"] = None
    BY <1>1 DEF HasPlan
  <2>2. DOMAIN job'.records = {PlanOf(ask)'[i].id : i \in 1 .. job'.k - 1}
    BY <1>7, <1>8
  <2>3. job'.k <= Len(PlanOf(ask))' + 1
    BY <1>8
  <2> QED
    BY <1>2, <1>5, <1>6, <1>8, <2>1, <2>2, <2>3 DEF CallOK, At, InLoop, Closing
<1>10. FreshOK'
  BY <1>1, <1>2 DEF IndInv, FreshOK, At, InLoop
<1>11. OutcomeOK'
  BY <1>1, UnderWay, NoAnswer
<1> QED
  BY <1>2, <1>4, <1>9, <1>10, <1>11

\* The candidate the batch is at.
LEMMA AtCandidate ==
  ASSUME IndInv, job.pc \in InLoop, job.k <= Len(Planned)
  PROVE  /\ Current \in ask.pool /\ Current \in Candidates
         /\ Planned[job.k].status = SelectionStatus(ask, Current)
         /\ InferenceWanted(job.k) <=> Wanted(Current)
         /\ job.k \in 1 .. Len(PlanOf(ask)) /\ Planned = PlanOf(ask)
         /\ Current = PlanOf(ask)[job.k].id /\ HasPlan
         /\ job.pc # "idle"
<1>1. /\ HasPlan /\ Planned = PlanOf(ask) /\ Current = PlanOf(ask)[job.k].id
      /\ job.pc # "idle"
  BY PlanInHand DEF IndInv, CallOK, InLoop, Closing
<1>2. job.k \in 1 .. Len(PlanOf(ask))
  BY <1>1, UnderWay, PlanFacts DEF JobShape, IndInv, ShapesOK
<1> QED
  BY <1>1, <1>2, PlanFacts, AskAssumption
     DEF IndInv, ShapesOK, InferenceWanted, Wanted

\* The worker of the current candidate writes at most its own structure.
LEMMA OwnStructure ==
  ASSUME IndInv, Current \in Candidates, ledger[Current] = None,
         UNCHANGED <<ask, ledger, crashes>>,
         sandbox' = sandbox \/ \E device : Wrote(device)
  PROVE  /\ LedgerOK' /\ sandbox' = [c \in Candidates |-> sandbox'[c]]
<1>1. sandbox = [c \in Candidates |-> sandbox[c]]
  BY DEF IndInv, ShapesOK
<1>2. /\ sandbox' = [c \in Candidates |-> sandbox'[c]]
      /\ \A c \in Candidates : c # Current => sandbox'[c] = sandbox[c]
  BY <1>1 DEF Wrote
<1> QED
  BY <1>2, LedgerStays DEF IndInv

\* A failure is filed for a candidate that is wanted and not finished.
LEMMA KeepsAFailure ==
  ASSUME IndInv, job.pc \in InLoop, job.k <= Len(Planned),
         ledger[Current] = None, Wanted(Current),
         UNCHANGED <<ask, disk, ledger, attempt, calls, outcome, crashes>>,
         \E error \in Mishaps : Keep(Failed(error))
  PROVE  JobShape' /\ CallOK' /\ FreshOK'
<1>1. PICK record : (\E error \in Mishaps : record = Failed(error)) /\ Keep(record)
  OBVIOUS
<1>2. Told(record, Current)
  BY <1>1 DEF Told
<1>3. \A c : c = Current => Told(record, c)'
  BY <1>2, StillTold DEF Grows
<1> QED
  BY <1>1, <1>3, Keeping

\* The call stays at its candidate, with a worker or with what that has made.
LEMMA SameCandidate ==
  ASSUME IndInv, job.pc \in InLoop, job.k <= Len(Planned),
         job'.pc \in {"worker", "ledger"}, job'.k = job.k,
         job'.records = job.records, ledger[Current] = None, Wanted(Current),
         UNCHANGED <<ask, disk, ledger, attempt>>,
         job'.pc = "ledger" =>
           /\ job'.device \in DevicesFor(ask.health)
           /\ Complete(Relaxation[Current][job'.device])
  PROVE  CallOK'
<1>1. /\ HasPlan /\ Planned = PlanOf(ask) /\ job.k <= Len(PlanOf(ask))
  BY AtCandidate
<1>2. /\ HasPlan' /\ Planned' = Planned /\ Current' = Current
      /\ Wanted(Current)' /\ InputFailure' = InputFailure
      /\ DevicesFor(ask.health)' = DevicesFor(ask.health)
      /\ PlanOf(ask)' = PlanOf(ask)
  BY <1>1, AskStays DEF HasPlan, Planned, Current, Wanted
<1>3. /\ InputFailure = NoOutcome
      /\ disk[attempt]["result"] = None /\ disk[attempt]["completion"] = None
      /\ UpToDate(job.records)
      /\ \A c \in DOMAIN job.records : Told(job.records[c], c)
      /\ DOMAIN job.records = {PlanOf(ask)[i].id : i \in 1 .. job.k - 1}
      /\ job.k <= Len(PlanOf(ask)) + 1
  BY DEF IndInv, CallOK, InLoop, Closing
<1>4. UpToDate(job.records)'
  BY <1>3 DEF UpToDate
<1>5. \A c \in DOMAIN job'.records : Told(job.records[c], c)'
  BY <1>3, AskStays DEF Told
<1>6. (ledger[Current] = None)'
  BY <1>2
<1>7. job'.pc = "ledger" =>
        /\ (job.device \in DevicesFor(ask.health))'
        /\ Complete(Relaxation[Current][job.device])'
  BY <1>2 DEF Complete
<1> QED
  BY <1>1, <1>2, <1>3, <1>4, <1>5, <1>6, <1>7 DEF CallOK, At, InLoop, Closing

LEMMA SkipCandidateStep ==
  ASSUME IndInv, SkipCandidate
  PROVE  IndInv'
<1>1. /\ job.pc = "batch" /\ job.pc \in InLoop /\ job.k <= Len(Planned)
      /\ Quiet /\ UNCHANGED store /\ ~InferenceWanted(job.k)
      /\ UNCHANGED <<ask, disk, ledger, sandbox, orphans, attempt, calls, crashes,
                     failures>>
  BY DEF SkipCandidate, InBatch, At, Quiet, store, InLoop
<1>2. CASE Planned[job.k].status = "SELECTED"
  <2>1. PICK answer :
          /\ Finish(answer) /\ answer.status = "PERMANENT_FAILED"
          /\ answer.result = None
    BY <1>2 DEF SkipCandidate, Refuse, Failure
  <2>2. outcome' = answer
    BY <2>1 DEF Finish
  <2>3. disk[attempt]["completion"] = None /\ ~ask.request.infer
    BY <1>1, <1>2 DEF IndInv, CallOK, InferenceWanted
  <2>4. AnswersAreCompleted'
    BY <1>1, <2>1, <2>2, <2>3 DEF AnswersAreCompleted
  <2>5. RefusalHasACause'
    <3>1. answer.category = "AGENT02_EXECUTION_FAILED"
      BY <1>2, <2>2 DEF SkipCandidate, Refuse, Failure, Finish
    <3> QED
      BY <1>1, <2>2, <2>3, <3>1 DEF RefusalHasACause
  <2> QED
    BY <1>1, <2>1, <2>4, <2>5, Ending, NoneAssumption DEF Statuses
<1>3. CASE Planned[job.k].status # "SELECTED"
  <2>1. PICK record : record = NotRun(Current) /\ Keep(record)
    BY <1>3 DEF SkipCandidate
  <2>2. outcome' = outcome
    BY <1>3 DEF SkipCandidate
  <2>3. Told(record, Current) /\ ledger[Current] = None /\ job.pc # "idle"
    BY <1>1, <1>3, <2>1, AtCandidate DEF Told, IndInv, LedgerOK, Wanted
  <2>4. \A c : c = Current => Told(record, c)'
    BY <1>1, <2>3, StillTold DEF Grows
  <2>5. JobShape' /\ CallOK' /\ FreshOK'
    BY <1>1, <2>1, <2>2, <2>3, <2>4, Keeping
  <2> QED
    BY <1>1, <2>2, <2>3, <2>5, Moving DEF IndInv, ShapesOK
<1> QED
  BY <1>2, <1>3

LEMMA ReuseCandidateStep ==
  ASSUME IndInv, ReuseCandidate
  PROVE  IndInv'
<1>1. /\ job.pc = "batch" /\ job.pc \in InLoop /\ job.k <= Len(Planned)
      /\ InferenceWanted(job.k) /\ ledger[Current] # None
      /\ UNCHANGED <<ask, disk, ledger, sandbox, orphans, attempt, calls, outcome,
                     crashes, failures>>
  BY DEF ReuseCandidate, InBatch, At, Quiet, store, InLoop, Unfinished
<1>2. PICK record : record = ledger[Current] /\ Keep(record)
  BY DEF ReuseCandidate
<1>3. Told(record, Current) /\ job.pc # "idle"
  BY <1>1, <1>2, AtCandidate DEF Told
<1>4. \A c : c = Current => Told(record, c)'
  BY <1>1, <1>3, StillTold DEF Grows
<1>5. JobShape' /\ CallOK' /\ FreshOK'
  BY <1>1, <1>2, <1>4, Keeping
<1> QED
  BY <1>1, <1>3, <1>5, Moving DEF IndInv, ShapesOK

LEMMA LaunchWorkerStep ==
  ASSUME IndInv, LaunchWorker
  PROVE  IndInv'
<1>1. /\ job.pc = "batch" /\ job.pc \in InLoop /\ job.k <= Len(Planned)
      /\ InferenceWanted(job.k) /\ ledger[Current] = None
      /\ job' = [job EXCEPT !.pc = "worker", !.spoiled = FALSE]
      /\ UNCHANGED <<ask, disk, ledger, sandbox, orphans, attempt, calls, outcome,
                     crashes, failures>>
  BY DEF LaunchWorker, InBatch, At, Quiet, store, InLoop, Unfinished
<1>2. /\ JobShape' /\ job'.pc = "worker" /\ job'.k = job.k
      /\ job'.records = job.records
  <2>1. PICK pc, k, records, device, spoiled :
          job = [pc |-> pc, k |-> k, records |-> records, device |-> device,
                 spoiled |-> spoiled]
    BY <1>1, UnderWay DEF JobShape
  <2>2. job' = [pc |-> "worker", k |-> k, records |-> records,
                device |-> device, spoiled |-> FALSE]
    BY <1>1, <2>1
  <2>3. /\ k \in Nat \ {0} /\ records = [c \in DOMAIN records |-> records[c]]
    BY <1>1, <2>1, UnderWay DEF JobShape
  <2> QED
    BY <2>1, <2>2, <2>3 DEF JobShape, Places, InLoop
<1>3. CallOK'
  BY <1>1, <1>2, SameCandidate, AtCandidate DEF IndInv, InLoop
<1>4. FreshOK'
  BY <1>1, <1>2 DEF IndInv, FreshOK, At, InLoop
<1> QED
  BY <1>1, <1>2, <1>3, <1>4, Moving DEF IndInv, ShapesOK

LEMMA WorkerFinishesStep ==
  ASSUME IndInv, WorkerFinishes
  PROVE  IndInv'
<1>1. /\ job.pc = "worker" /\ job.pc \in InLoop /\ job.k <= Len(Planned)
      /\ UNCHANGED <<ask, disk, ledger, orphans, attempt, calls, outcome, crashes,
                     failures>>
      /\ ledger[Current] = None /\ Wanted(Current)
  BY PlanInHand
     DEF WorkerFinishes, At, Quiet, InLoop, IndInv, CallOK, Closing
<1>2. sandbox' = sandbox \/ \E device : Wrote(device)
  BY DEF WorkerFinishes
<1>3. LedgerOK' /\ sandbox' = [c \in Candidates |-> sandbox'[c]]
  BY <1>1, <1>2, AtCandidate, OwnStructure
<1>4. FilesOK' /\ OutcomeOK'
  BY <1>1, UnderWay, NoAnswer, FilesStay DEF IndInv, Grows
<1>5. JobShape' /\ CallOK' /\ FreshOK'
  <2>1. CASE \E error \in Mishaps : Keep(Failed(error))
    BY <1>1, <2>1, KeepsAFailure
  <2>2. CASE \E device \in DevicesFor(ask.health) :
               /\ Complete(Relaxation[Current][device])
               /\ job' = [job EXCEPT !.pc = "ledger", !.device = device]
    <3>1. PICK device \in DevicesFor(ask.health) :
            /\ Complete(Relaxation[Current][device])
            /\ job' = [job EXCEPT !.pc = "ledger", !.device = device]
      BY <2>2
    <3>2. /\ JobShape' /\ job'.pc = "ledger" /\ job'.k = job.k
          /\ job'.records = job.records /\ job'.device = device
      <4>1. PICK pc, k, records, old, spoiled :
              job = [pc |-> pc, k |-> k, records |-> records, device |-> old,
                     spoiled |-> spoiled]
        BY <1>1, UnderWay DEF JobShape
      <4>2. job' = [pc |-> "ledger", k |-> k, records |-> records,
                    device |-> device, spoiled |-> spoiled]
        BY <3>1, <4>1
      <4>3. k \in Nat \ {0} /\ records = [c \in DOMAIN records |-> records[c]]
        BY <1>1, <4>1, UnderWay DEF JobShape
      <4> QED
        BY <4>1, <4>2, <4>3 DEF JobShape, Places, InLoop
    <3>3. CallOK'
      BY <1>1, <3>1, <3>2, SameCandidate, AtCandidate DEF IndInv, InLoop
    <3>4. FreshOK'
      BY <1>1, <3>2 DEF IndInv, FreshOK, At, InLoop
    <3> QED
      BY <3>2, <3>3, <3>4
  <2> QED
    BY <2>1, <2>2 DEF WorkerFinishes, Mishaps, Lasting
<1>6. ShapesOK'
  BY <1>1, <1>3, <1>5, UnderWay DEF IndInv, ShapesOK
<1> QED
  BY <1>3, <1>4, <1>5, <1>6 DEF IndInv

LEMMA WorkerFailsStep ==
  ASSUME IndInv, WorkerFails
  PROVE  IndInv'
<1>1. /\ job.pc = "worker" /\ job.pc \in InLoop /\ job.k <= Len(Planned)
      /\ UNCHANGED <<ask, disk, ledger, orphans, attempt, calls, outcome, crashes>>
      /\ ledger[Current] = None /\ Wanted(Current) /\ failures' \in Nat
  BY PlanInHand
     DEF WorkerFails, At, InLoop, IndInv, ShapesOK, CallOK, Closing
<1>2. sandbox' = sandbox \/ \E device : Wrote(device)
  BY DEF WorkerFails
<1>3. LedgerOK' /\ sandbox' = [c \in Candidates |-> sandbox'[c]]
  BY <1>1, <1>2, AtCandidate, OwnStructure
<1>4. FilesOK' /\ OutcomeOK'
  BY <1>1, UnderWay, NoAnswer, FilesStay DEF IndInv, Grows
<1>5. JobShape' /\ CallOK' /\ FreshOK'
  <2>1. \E error \in Mishaps : Keep(Failed(error))
    BY DEF WorkerFails, Mishaps
  <2> QED
    BY <1>1, <2>1, KeepsAFailure
<1>6. ShapesOK'
  BY <1>1, <1>3, <1>5, UnderWay DEF IndInv, ShapesOK
<1> QED
  BY <1>3, <1>4, <1>5, <1>6 DEF IndInv

LEMMA FileCandidateStep ==
  ASSUME IndInv, FileCandidate
  PROVE  IndInv'
<1>1. /\ job.pc = "ledger" /\ job.pc \in InLoop /\ job.k <= Len(Planned)
      /\ UNCHANGED <<ask, disk, sandbox, orphans, attempt, calls, outcome, crashes,
                     failures>>
      /\ ledger[Current] = None /\ Wanted(Current)
      /\ job.device \in DevicesFor(ask.health)
      /\ Complete(Relaxation[Current][job.device])
  BY PlanInHand
     DEF FileCandidate, At, Quiet, InLoop, IndInv, CallOK, Closing
<1>2. PICK record :
        /\ record = Inferred(Current, job.device)
        /\ \/ Keep(Failed(Refiled)) /\ ledger' = ledger
           \/ /\ sandbox[Current] = job.device
              /\ ledger' = [ledger EXCEPT ![Current] = record] /\ Keep(record)
  BY DEF FileCandidate
<1>3. CASE Keep(Failed(Refiled)) /\ ledger' = ledger
  <2>1. JobShape' /\ CallOK' /\ FreshOK'
    BY <1>1, <1>3, KeepsAFailure DEF Mishaps
  <2> QED
    BY <1>1, <1>3, <2>1, Moving DEF IndInv, ShapesOK
<1>4. CASE /\ sandbox[Current] = job.device
           /\ ledger' = [ledger EXCEPT ![Current] = record] /\ Keep(record)
  <2>1. /\ Current \in Candidates /\ Current \in ask.pool /\ record # None
        /\ ledger = [c \in Candidates |-> ledger[c]]
    BY <1>1, <1>2, AtCandidate, RecordFacts, NoneAssumption DEF IndInv, ShapesOK
  <2>2. /\ ledger'[Current] = record /\ ledger' = [c \in Candidates |-> ledger'[c]]
        /\ \A c \in Candidates : c # Current => ledger'[c] = ledger[c]
        /\ \A c : c # Current => ledger'[c] = ledger[c]
    BY <1>4, <2>1
  <2>3. \A c : c = Current => Told(record, c)'
    BY <1>1, <2>1, <2>2, AskStays DEF Told
  <2>5. JobShape' /\ FilesOK' /\ CallOK' /\ FreshOK' /\ OutcomeOK'
    BY <1>1, <1>4, <2>1, <2>2, <2>3, Keeping
  <2>6. LedgerOK'
    <3> SUFFICES ASSUME NEW c \in Candidates, ledger'[c] # None
                 PROVE  /\ c \in ask.pool /\ Wanted(c)
                        /\ \E device \in DevicesFor(ask.health) :
                             /\ ledger'[c] = Inferred(c, device)
                             /\ Complete(Relaxation[c][device])
                             /\ (crashes = 0 \/ ask.health.device = "cpu") =>
                                  sandbox[c] = device
      BY <1>1, AskStays DEF LedgerOK
    <3>1. CASE c = Current
      BY <1>1, <1>2, <1>4, <2>1, <2>2, <3>1
    <3>2. CASE c # Current
      BY <2>2, <3>2 DEF IndInv, LedgerOK
    <3> QED
      BY <3>1, <3>2
  <2>7. ShapesOK'
    BY <1>1, <2>2, <2>5, UnderWay DEF IndInv, ShapesOK
  <2> QED
    BY <2>5, <2>6, <2>7 DEF IndInv
<1> QED
  BY <1>2, <1>3, <1>4

\* What is said of a call depends on its own state and files alone.
LEMMA CallStays ==
  ASSUME CallOK, UNCHANGED <<ask, disk, ledger, job, attempt>>
  PROVE  CallOK'
<1>1. /\ \A pc : At(pc)' <=> At(pc)
      /\ (HasPlan' <=> HasPlan) /\ Current' = Current
  BY DEF At, HasPlan, Current, Planned
<1>2. InputFailure' = InputFailure
  BY DEF InputFailure
<1>3. /\ \A c : (Wanted(c)' <=> Wanted(c)) /\ NotRun(c)' = NotRun(c)
      /\ UpToDate(job.records)' <=> UpToDate(job.records)
  BY DEF Wanted, NotRun, UpToDate
<1>4. \A c : Told(job.records[c], c)' <=> Told(job.records[c], c)
  BY <1>3 DEF Told
<1>5. ReportOf(job.records)' = ReportOf(job.records)
  BY DEF ReportOf
<1> QED
  BY <1>1, <1>2, <1>3, <1>4, <1>5 DEF CallOK

LEMMA OrphanEndsStep ==
  ASSUME IndInv, OrphanEnds
  PROVE  IndInv'
<1>1. /\ UNCHANGED <<ask, disk, ledger, attempt, calls, outcome, crashes, failures>>
      /\ crashes > 0
  BY DEF OrphanEnds, IndInv, ShapesOK
<1>2. /\ sandbox' = [c \in Candidates |-> sandbox'[c]]
      /\ \A c \in Candidates :
           sandbox'[c] = sandbox[c] \/ sandbox'[c] \in DevicesFor(ask.health)
  <2>1. sandbox = [c \in Candidates |-> sandbox[c]]
    BY DEF IndInv, ShapesOK
  <2> QED
    BY <2>1 DEF OrphanEnds
<1>3. LedgerOK'
  BY <1>1, <1>2, LedgerStays DEF IndInv
<1>4. FilesOK'
  BY <1>1, FilesStay DEF IndInv, Grows
<1>5. FreshOK'
  BY <1>1 DEF FreshOK
<1>6. JobShape' /\ CallOK' /\ OutcomeOK' /\ (job = Idle => job' = Idle)
  <2>1. CASE job' = job
    <3>1. CallOK'
      BY <1>1, <2>1, CallStays DEF IndInv
    <3>2. OutcomeOK'
      BY <1>1, <2>1 DEF IndInv, OutcomeOK, At, AnswersAreCompleted, RefusalHasACause
    <3> QED
      BY <2>1, <3>1, <3>2 DEF IndInv, ShapesOK, JobShape
  <2>2. CASE At("worker") /\ job' = [job EXCEPT !.spoiled = TRUE]
    <3>1. /\ job.pc = "worker" /\ job.pc \in InLoop /\ job.k <= Len(Planned)
          /\ ledger[Current] = None /\ Wanted(Current) /\ job # Idle
      BY <2>2, PlanInHand DEF At, InLoop, IndInv, CallOK, Closing, Idle
    <3>2. /\ JobShape' /\ job'.pc = "worker" /\ job'.k = job.k
          /\ job'.records = job.records
      <4>1. PICK pc, k, records, device, spoiled :
              job = [pc |-> pc, k |-> k, records |-> records, device |-> device,
                     spoiled |-> spoiled]
        BY <3>1, UnderWay DEF JobShape
      <4>2. job' = [pc |-> "worker", k |-> k, records |-> records,
                    device |-> device, spoiled |-> TRUE]
        BY <2>2, <3>1, <4>1
      <4>3. k \in Nat \ {0} /\ records = [c \in DOMAIN records |-> records[c]]
        BY <3>1, <4>1, UnderWay DEF JobShape
      <4> QED
        BY <4>1, <4>2, <4>3 DEF JobShape, Places, InLoop
    <3>3. CallOK'
      BY <1>1, <3>1, <3>2, SameCandidate
    <3> QED
      BY <1>1, <3>1, <3>2, <3>3, UnderWay, NoAnswer
  <2> QED
    BY <2>1, <2>2 DEF OrphanEnds
<1>7. ShapesOK'
  BY <1>1, <1>2, <1>6 DEF IndInv, ShapesOK
<1> QED
  BY <1>3, <1>4, <1>5, <1>6, <1>7 DEF IndInv

-----------------------------------------------------------------------------
(* The steps that write the stage's files.                                  *)

\* What is told of a candidate is a record, and one of three kinds.
LEMMA ToldFacts ==
  ASSUME IndInv, NEW c \in ask.pool, NEW record, Told(record, c)
  PROVE  /\ record \in Records
         /\ \/ /\ Wanted(c) /\ ledger[c] # None /\ record = ledger[c]
               /\ record.error = None /\ record.decision # "FAILED"
               /\ record.execution # "NOT_RUN"
            \/ /\ Wanted(c) /\ record.error \in Mishaps /\ record.error # None
               /\ record.decision = "FAILED" /\ record.execution # "NOT_RUN"
               /\ record.level = "L1_RETRIEVED"
            \/ /\ SelectionStatus(ask, c) # "SELECTED" /\ record = NotRun(c)
               /\ record.error = None /\ record.execution = "NOT_RUN"
               /\ record.decision # "PASS" /\ record.level = "L1_RETRIEVED"
               /\ record.decision = "FAILED" => Item[c].decision = "FAILED"
<1>1. ask \in Asks /\ c \in Candidates
  BY AskAssumption DEF IndInv, ShapesOK
<1>2. ledger[c] # None =>
        \E device \in DevicesFor(ask.health) : ledger[c] = Inferred(c, device)
  BY <1>1 DEF IndInv, LedgerOK
<1> QED
  BY <1>1, <1>2, RecordFacts DEF Told

\* The records of all candidates are a manifest.
LEMMA ManifestFacts ==
  ASSUME IndInv, NEW records, DOMAIN records = ask.pool,
         records = [c \in DOMAIN records |-> records[c]],
         \A c \in ask.pool : Told(records[c], c)
  PROVE  records \in [ask.pool -> Records] /\ records # None
<1>1. \A c \in ask.pool : records[c] \in Records
  BY ToldFacts
<1>2. records \in [ask.pool -> Records]
  BY <1>1
<1> QED
  BY <1>2, NoneAssumption DEF IndInv, ShapesOK

\* The stage refuses to go on.
LEMMA Refusing ==
  ASSUME IndInv, job.pc # "idle", Quiet, UNCHANGED store, Refuse,
         disk[attempt]["completion"] = None,
         \/ ~ask.request.infer
         \/ \E c \in ask.pool : Item[c].decision = "FAILED"
         \/ /\ crashes > 0 /\ disk[attempt]["manifest"] # None
            /\ Errors(disk[attempt]["manifest"]) # {}
  PROVE  IndInv'
<1>1. PICK answer :
        /\ Finish(answer) /\ answer.status = "PERMANENT_FAILED"
        /\ answer.result = None /\ answer.category = "AGENT02_EXECUTION_FAILED"
  BY DEF Refuse, Failure
<1>2. outcome' = answer /\ UNCHANGED <<ask, disk, attempt, calls, crashes>>
  BY <1>1 DEF Finish, Quiet, store
<1>3. AnswersAreCompleted' /\ RefusalHasACause'
  BY <1>1, <1>2 DEF AnswersAreCompleted, RefusalHasACause
<1> QED
  BY <1>1, <1>3, Ending, NoneAssumption DEF Statuses

LEMMA WriteManifestStep ==
  ASSUME IndInv, WriteManifest
  PROVE  IndInv'
<1> DEFINE old == disk[attempt]["manifest"]
           plan == PlanOf(ask)
<1>0. PICK records : records = job.records
  OBVIOUS
<1>1. /\ job.pc = "batch" /\ job.pc # "idle" /\ job.k > Len(Planned) /\ Quiet
      /\ UNCHANGED <<ask, ledger, sandbox, orphans, attempt, calls, crashes,
                     failures>>
      /\ \/ old \notin {None, records} /\ Refuse /\ disk' = disk
         \/ /\ old \in {None, records} /\ Write("manifest", records)
            /\ outcome' = outcome /\ job' = [job EXCEPT !.pc = "report"]
  BY <1>0 DEF WriteManifest, WriteOnce, At, Quiet, Conflicts
<1>2. /\ HasPlan /\ InputFailure = NoOutcome /\ disk[attempt]["result"] = None
      /\ disk[attempt]["completion"] = None /\ UpToDate(records)
      /\ \A c \in DOMAIN records : Told(records[c], c)
      /\ records = [c \in DOMAIN records |-> records[c]]
  BY <1>0, <1>1, UnderWay DEF IndInv, CallOK, InLoop, Closing, JobShape
<1>3. DOMAIN records = ask.pool
  <2>1. /\ Planned = plan /\ ask \in Asks
        /\ DOMAIN records = {plan[i].id : i \in 1 .. job.k - 1}
        /\ job.k <= Len(plan) + 1 /\ job.k \in Nat
    BY <1>0, <1>1, <1>2, PlanInHand, UnderWay
       DEF IndInv, ShapesOK, CallOK, InLoop, JobShape
  <2>2. /\ Len(plan) \in Nat /\ \A i \in 1 .. Len(plan) : plan[i].id \in ask.pool
        /\ \A c \in ask.pool : \E i \in 1 .. Len(plan) : plan[i].id = c
    BY <2>1, PlanFacts
  <2> HIDE DEF plan
  <2>3. job.k - 1 = Len(plan)
    BY <1>1, <2>1, <2>2
  <2>4. DOMAIN records = {plan[i].id : i \in 1 .. Len(plan)}
    BY <2>1, <2>3
  <2>5. {plan[i].id : i \in 1 .. Len(plan)} = ask.pool
    BY <2>2
  <2> QED
    BY <2>4, <2>5
<1>4. /\ records # None /\ FileOK(attempt)
      /\ \A c \in ask.pool : Told(records[c], c)
  BY <1>1, <1>2, <1>3, ManifestFacts, UnderWay
<1>5. CASE old \notin {None, records} /\ Refuse /\ disk' = disk
  <2>1. /\ old = [c \in ask.pool |-> old[c]]
        /\ \A c \in ask.pool : Told(old[c], c)
    BY <1>4, <1>5 DEF FileOK
  <2>2. Errors(old) # {}
    <3> SUFFICES ASSUME Errors(old) = {}
                 PROVE  FALSE
      OBVIOUS
    <3>1. ASSUME NEW c \in ask.pool
          PROVE  old[c] = records[c]
      <4>1. old[c].error = None
        BY <2>1 DEF Errors
      <4>2. Told(old[c], c) /\ Told(records[c], c)
        BY <1>4, <2>1
      <4>3. ledger[c] # None => records[c] = ledger[c]
        BY <1>2, <1>3 DEF UpToDate
      <4>4. \/ Wanted(c) /\ ledger[c] # None /\ old[c] = ledger[c]
            \/ SelectionStatus(ask, c) # "SELECTED" /\ old[c] = NotRun(c)
        BY <4>1, <4>2, ToldFacts
      <4> QED
        BY <4>2, <4>3, <4>4 DEF Told, Wanted
    <3>2. old = records
      BY <1>2, <1>3, <2>1, <3>1
    <3> QED
      BY <1>5, <3>2
  <2>3. crashes > 0
    BY <1>1, <1>5 DEF IndInv, ShapesOK, FreshOK, InLoop
  <2>4. UNCHANGED store
    BY <1>1, <1>5 DEF store
  <2> QED
    BY <1>1, <1>2, <1>5, <2>2, <2>3, <2>4, Refusing
<1>6. CASE /\ old \in {None, records} /\ Write("manifest", records)
           /\ outcome' = outcome /\ job' = [job EXCEPT !.pc = "report"]
  <2>1. /\ disk'[attempt]["manifest"] = records
        /\ \A n \in 1 .. MaxCalls, other \in Files :
             n # attempt \/ other # "manifest" => disk'[n][other] = disk[n][other]
        /\ disk' = [n \in 1 .. MaxCalls |-> [other \in Files |-> disk'[n][other]]]
    BY <1>6, Written DEF IndInv, Files
  <2>2. /\ JobShape' /\ job'.pc = "report" /\ job'.records = records
    BY <1>0, <1>1, <1>6, UnderWay, PlaceChanges DEF Places, Closing
  <2>3. /\ \A c \in ask.pool : Told(records[c], c)'
        /\ UpToDate(records)' /\ InputFailure' = InputFailure
    BY <1>1, <1>2, <1>4, StillTold, AskStays DEF Grows, UpToDate
  <2>4. ShapesOK'
    BY <1>1, <1>6, <2>1, <2>2, UnderWay DEF IndInv, ShapesOK
  <2>5. LedgerOK'
    BY <1>1, LedgerStays DEF IndInv
  <2>6. FileOK(attempt)'
    BY <1>1, <1>2, <1>3, <1>4, <1>6, <2>1, <2>3, UnderWay, AskStays
       DEF FileOK, Files, HasPlan
  <2>7. FilesOK'
    BY <1>1, <1>6, <2>6, OtherAttempts DEF IndInv, Files
  <2>8. CallOK'
    <3>1. /\ HasPlan' /\ disk'[attempt]["result"] = None
          /\ disk'[attempt]["completion"] = None
      BY <1>1, <1>2, <2>1, UnderWay DEF HasPlan, Files
    <3>2. UpToDate(job.records)' /\ \A c \in ask.pool : Told(job.records[c], c)'
      BY <2>2, <2>3, <1>0 DEF UpToDate, Told
    <3> QED
      BY <1>0, <1>1, <1>2, <1>3, <2>1, <2>2, <2>3, <3>1, <3>2
         DEF CallOK, At, InLoop, Closing
  <2>9. FreshOK'
    BY <1>1, <2>2, UnderWay DEF FreshOK, At, InLoop
  <2> QED
    BY <1>1, <1>6, <2>4, <2>5, <2>7, <2>8, <2>9, UnderWay, NoAnswer DEF IndInv
<1> QED
  BY <1>1, <1>5, <1>6

\* What is in hand once the manifest is written.
LEMMA AfterManifest ==
  ASSUME IndInv, job.pc \in Closing, NEW records, records = job.records
  PROVE  /\ HasPlan /\ InputFailure = NoOutcome /\ job.pc # "idle"
         /\ disk[attempt]["completion"] = None /\ FileOK(attempt)
         /\ UpToDate(records) /\ \A c \in ask.pool : Told(records[c], c)
         /\ DOMAIN records = ask.pool /\ disk[attempt]["manifest"] = records
         /\ records \in [ask.pool -> Records] /\ records # None
<1>1. /\ HasPlan /\ InputFailure = NoOutcome /\ job.pc # "idle"
      /\ disk[attempt]["completion"] = None
      /\ UpToDate(records) /\ \A c \in DOMAIN records : Told(records[c], c)
      /\ DOMAIN records = ask.pool /\ disk[attempt]["manifest"] = records
  BY DEF IndInv, CallOK, Closing, InLoop
<1>2. FileOK(attempt) /\ records = [c \in DOMAIN records |-> records[c]]
  BY <1>1, UnderWay DEF JobShape
<1> QED
  BY <1>1, <1>2, ManifestFacts

\* The report or the result is written, and the call goes on.
LEMMA ClosingStep ==
  ASSUME IndInv, job.pc \in Closing, NEW name \in {"report", "result"}, NEW content,
         Write(name, content), NEW place \in {"result", "completion"},
         job' = [job EXCEPT !.pc = place], FileOK(attempt)',
         UNCHANGED <<ask, ledger, sandbox, orphans, attempt, calls, outcome, crashes,
                     failures>>,
         disk'[attempt]["report"] = ReportOf(job.records),
         disk'[attempt]["result"] = None <=> place = "result"
  PROVE  IndInv'
<1>0. PICK records : records = job.records
  OBVIOUS
<1>1. /\ HasPlan /\ InputFailure = NoOutcome /\ job.pc # "idle"
      /\ disk[attempt]["completion"] = None
      /\ UpToDate(records) /\ \A c \in ask.pool : Told(records[c], c)
      /\ DOMAIN records = ask.pool /\ disk[attempt]["manifest"] = records
  BY <1>0, AfterManifest
<1>2. /\ \A n \in 1 .. MaxCalls, other \in Files :
           n # attempt \/ other # name => disk'[n][other] = disk[n][other]
      /\ disk' = [n \in 1 .. MaxCalls |-> [other \in Files |-> disk'[n][other]]]
  BY Written DEF IndInv, Files
<1>3. /\ JobShape' /\ job'.pc = place /\ job'.records = records
  BY <1>0, <1>1, UnderWay, PlaceChanges DEF Places, Closing
<1>4. ShapesOK'
  BY <1>1, <1>2, <1>3, UnderWay DEF IndInv, ShapesOK
<1>5. LedgerOK'
  BY LedgerStays DEF IndInv
<1>6. FilesOK'
  BY OtherAttempts DEF IndInv, Files
<1>7. CallOK'
  <2>1. /\ HasPlan' /\ disk'[attempt]["manifest"] = records
        /\ disk'[attempt]["completion"] = None
    BY <1>1, <1>2, UnderWay DEF HasPlan, Files
  <2>2. UpToDate(job.records)' /\ \A c \in ask.pool : Told(job.records[c], c)'
    <3>1. \A c \in ask.pool : Told(records[c], c)'
      BY <1>1, StillTold DEF Grows
    <3> QED
      BY <1>1, <1>3, <3>1 DEF UpToDate, Told
  <2>3. ReportOf(job.records)' = ReportOf(job.records)
    BY <1>0, <1>3 DEF ReportOf
  <2>4. InputFailure' = InputFailure
    BY AskStays
  <2> QED
    BY <1>0, <1>1, <1>3, <2>1, <2>2, <2>3, <2>4 DEF CallOK, At, InLoop, Closing
<1>8. FreshOK'
  BY <1>1, <1>3, UnderWay DEF FreshOK, At, InLoop
<1> QED
  BY <1>1, <1>4, <1>5, <1>6, <1>7, <1>8, UnderWay, NoAnswer DEF IndInv

LEMMA WriteReportStep ==
  ASSUME IndInv, WriteReport
  PROVE  IndInv'
<1> DEFINE old == disk[attempt]["report"]
<1>0. PICK records, content : records = job.records /\ content = ReportOf(records)
  OBVIOUS
<1>1. /\ job.pc = "report" /\ job.pc \in Closing /\ disk[attempt]["result"] = None
      /\ UNCHANGED <<ask, ledger, sandbox, orphans, attempt, calls, crashes,
                     failures>>
      /\ old \in {None, content} =>
           /\ Write("report", content) /\ outcome' = outcome
           /\ job' = [job EXCEPT !.pc = "result"]
  BY <1>0 DEF WriteReport, WriteOnce, At, Quiet, Conflicts, Closing, IndInv, CallOK
<1>2. /\ disk[attempt]["manifest"] = records /\ records # None /\ FileOK(attempt)
      /\ disk[attempt]["completion"] = None
      /\ \A c \in ask.pool : Told(records[c], c)
  BY <1>0, <1>1, AfterManifest
<1>3. /\ Write("report", content) /\ outcome' = outcome
      /\ job' = [job EXCEPT !.pc = "result"]
  BY <1>0, <1>1, <1>2 DEF FileOK
<1>4. /\ disk'[attempt]["report"] = content /\ attempt \in 1 .. MaxCalls
      /\ \A n \in 1 .. MaxCalls, other \in Files :
           n # attempt \/ other # "report" => disk'[n][other] = disk[n][other]
  BY <1>3, Written DEF IndInv, Files
<1>5. FileOK(attempt)'
  <2>1. \A c \in ask.pool : Told(records[c], c)'
    BY <1>1, <1>2, StillTold DEF Grows
  <2> QED
    BY <1>0, <1>1, <1>2, <1>4, <2>1, AskStays DEF FileOK, Files
<1> QED
  BY <1>0, <1>1, <1>3, <1>4, <1>5, ClosingStep DEF Files

LEMMA WriteResultStep ==
  ASSUME IndInv, WriteResult
  PROVE  IndInv'
<1>0. PICK records, content :
        /\ records = job.records
        /\ content = [status |-> NativeStatus(records), when |-> calls,
                      records |-> records]
  OBVIOUS
<1>1. /\ job.pc = "result" /\ job.pc \in Closing /\ disk[attempt]["result"] = None
      /\ disk[attempt]["report"] = ReportOf(records)
      /\ UNCHANGED <<ask, ledger, sandbox, orphans, attempt, calls, crashes,
                     failures>>
      /\ \/ ~EnvelopeAccepts(records) /\ Refuse /\ disk' = disk
         \/ /\ Write("result", content) /\ outcome' = outcome
            /\ job' = [job EXCEPT !.pc = "completion"]
  BY <1>0 DEF WriteResult, At, Quiet, Closing, IndInv, CallOK
<1>2. /\ disk[attempt]["manifest"] = records /\ records # None /\ FileOK(attempt)
      /\ disk[attempt]["completion"] = None /\ job.pc # "idle"
      /\ records \in [ask.pool -> Records] /\ DOMAIN records = ask.pool
      /\ \A c \in ask.pool : Told(records[c], c)
  BY <1>0, <1>1, AfterManifest
<1>3. CASE ~EnvelopeAccepts(records) /\ Refuse /\ disk' = disk
  <2>1. PICK c \in ask.pool : records[c].decision = "FAILED"
    BY <1>2, <1>3 DEF EnvelopeAccepts, FailedOnes
  <2>2. records[c].error = None
    BY <1>2, <1>3 DEF EnvelopeAccepts, NativeStatus, Errors
  <2>3. Item[c].decision = "FAILED"
    BY <1>2, <2>1, <2>2, ToldFacts
  <2> QED
    BY <1>1, <1>2, <1>3, <2>3, Refusing DEF Quiet, store
<1>4. CASE /\ Write("result", content) /\ outcome' = outcome
           /\ job' = [job EXCEPT !.pc = "completion"]
  <2>1. /\ content.records = records /\ content.status = NativeStatus(records)
        /\ content # None
    <3>1. NativeStatus(records) \in Statuses
      BY DEF NativeStatus, Statuses
    <3>2. calls \in 1 .. MaxCalls /\ ask \in Asks
      BY <1>2, UnderWay DEF IndInv, ShapesOK
    <3>3. content \in [status : Statuses, when : 1 .. MaxCalls,
                       records : [ask.pool -> Records]]
      BY <1>0, <1>2, <3>1, <3>2
    <3> QED
      BY <1>0, <3>2, <3>3, NoneAssumption
  <2>2. /\ disk'[attempt]["result"] = content /\ attempt \in 1 .. MaxCalls
        /\ \A n \in 1 .. MaxCalls, other \in Files :
             n # attempt \/ other # "result" => disk'[n][other] = disk[n][other]
    BY <1>4, Written DEF IndInv, Files
  <2>3. FileOK(attempt)'
    <3>1. \A c \in ask.pool : Told(records[c], c)'
      BY <1>1, <1>2, StillTold DEF Grows
    <3> QED
      BY <1>1, <1>2, <2>1, <2>2, <3>1, AskStays DEF FileOK, Files
  <2> QED
    BY <1>0, <1>1, <1>4, <2>1, <2>2, <2>3, ClosingStep DEF Files
<1> QED
  BY <1>1, <1>3, <1>4

LEMMA CompleteStageStep ==
  ASSUME IndInv, CompleteStage
  PROVE  IndInv'
<1>0. PICK records, result :
        records = job.records /\ result = disk[attempt]["result"]
  OBVIOUS
<1>1. /\ job.pc = "completion" /\ job.pc \in Closing /\ result # None
      /\ UNCHANGED <<ask, ledger, sandbox, orphans, attempt, calls, crashes,
                     failures>>
      /\ Write("completion", result) /\ Answer(result)
  BY <1>0 DEF CompleteStage, At, Quiet, Closing, IndInv, CallOK
<1>2. /\ disk[attempt]["manifest"] = records /\ records # None /\ FileOK(attempt)
      /\ UpToDate(records) /\ job.pc # "idle"
      /\ \A c \in ask.pool : Told(records[c], c)
  BY <1>0, <1>1, AfterManifest
<1>3. PICK answer :
        /\ job' = Idle /\ outcome' = answer
        /\ answer.status = result.status /\ answer.result = result
        /\ answer.category \in {None, "AGENT02_RETRYABLE_WORKER_FAILURE",
                               "AGENT02_EXECUTION_FAILED"}
  BY <1>1 DEF Answer, Finish
<1>4. /\ disk'[attempt]["completion"] = result /\ attempt \in 1 .. MaxCalls
      /\ \A n \in 1 .. MaxCalls, other \in Files :
           n # attempt \/ other # "completion" => disk'[n][other] = disk[n][other]
      /\ disk' = [n \in 1 .. MaxCalls |-> [other \in Files |-> disk'[n][other]]]
  BY <1>1, Written DEF IndInv, Files
<1>5. result.status \in Statuses
  BY <1>0, <1>1, <1>2 DEF FileOK, NativeStatus, Statuses
<1>6. /\ JobShape' /\ job'.pc = "idle" /\ job'.records = <<>>
  BY <1>3, NothingInHand
<1>7. ShapesOK'
  BY <1>1, <1>2, <1>4, <1>6, UnderWay DEF IndInv, ShapesOK
<1>8. LedgerOK'
  BY <1>1, LedgerStays DEF IndInv
<1>9. FileOK(attempt)'
  <2>1. \A c \in ask.pool : Told(records[c], c)'
    BY <1>1, <1>2, StillTold DEF Grows
  <2>2. UpToDate(records)'
    BY <1>1, <1>2 DEF UpToDate
  <2> QED
    BY <1>0, <1>1, <1>2, <1>4, <2>1, <2>2, AskStays DEF FileOK, Files
<1>10. FilesOK'
  BY <1>1, <1>9, OtherAttempts DEF IndInv, Files
<1>11. CallOK' /\ FreshOK'
  BY <1>1, <1>2, <1>3, <1>5, <1>6, UnderWay, NoneAssumption
     DEF CallOK, FreshOK, At, InLoop, Closing
<1>12. OutcomeOK'
  <2>1. AnswersAreCompleted' /\ RefusalHasACause'
    BY <1>1, <1>3, <1>4, NoneAssumption
       DEF AnswersAreCompleted, RefusalHasACause, Categories
  <2> QED
    BY <1>6, <2>1 DEF OutcomeOK, At
<1> QED
  BY <1>7, <1>8, <1>10, <1>11, <1>12 DEF IndInv

-----------------------------------------------------------------------------
(* The theorems.                                                            *)

LEMMA StepInv ==
  IndInv /\ [Next]_vars => IndInv'
<1> SUFFICES ASSUME IndInv, [Next]_vars
             PROVE  IndInv'
  OBVIOUS
<1>1. CASE UNCHANGED vars
  <2>1. /\ UNCHANGED <<ask, disk, ledger, sandbox, orphans, job, attempt, calls,
                       outcome, crashes, failures>>
    BY <1>1 DEF vars
  <2>2. LedgerOK' /\ FilesOK'
    BY <2>1, LedgerStays, FilesStay DEF IndInv, Grows
  <2>3. ShapesOK' /\ FreshOK'
    BY <2>1 DEF IndInv, ShapesOK, JobShape, FreshOK, At
  <2>4. CallOK'
    BY <2>1, CallStays DEF IndInv
  <2>5. OutcomeOK'
    BY <2>1 DEF IndInv, OutcomeOK, At, AnswersAreCompleted, RefusalHasACause
  <2> QED
    BY <2>2, <2>3, <2>4, <2>5 DEF IndInv
<1>2. CASE Next
  BY <1>2, InvokeStep, CrashStep, ValidateStep, ReusePlanStep, WriteNativePlanStep,
     FreezePlanStep, StartStep, SkipCandidateStep, ReuseCandidateStep,
     LaunchWorkerStep, WorkerFinishesStep, WorkerFailsStep, FileCandidateStep,
     OrphanEndsStep, WriteManifestStep, WriteReportStep, WriteResultStep,
     CompleteStageStep
     DEF Next, Work
<1> QED
  BY <1>1, <1>2

LEMMA Inductive ==
  Spec => []IndInv
BY InitInv, StepInv, PTL DEF Spec

\* A PASS that is published in a manifest has been earned through plan, worker
\* and ledger, and its structure is on disk, for every ask and every crash.
THEOREM PublishedEvidence ==
  Spec => []EvidenceIsEarned
<1>1. IndInv => EvidenceIsEarned
  <2> SUFFICES ASSUME IndInv, NEW n \in 1 .. attempt, NEW manifest,
                      manifest = disk[n]["manifest"], manifest # None,
                      NEW c \in DOMAIN manifest,
                      \/ manifest[c].level = "L2_ML_SCREENED"
                      \/ manifest[c].decision = "PASS"
               PROVE  /\ Eligible(c) /\ Recommends(manifest[c]) # None
                      /\ LET relaxed == Relaxation[c][manifest[c].relaxed] IN
                           /\ relaxed.force <= 10 /\ relaxed.distance >= 5
                           /\ relaxed.volume \in 80 .. 120 /\ relaxed.matches
                      /\ (crashes = 0 \/ ask.health.device = "cpu") =>
                           sandbox[c] = manifest[c].relaxed
    BY DEF EvidenceIsEarned
  <2>1. n \in 1 .. MaxCalls /\ ask \in Asks
    BY RunAssumption DEF IndInv, ShapesOK
  <2>2. c \in ask.pool /\ Told(manifest[c], c)
    BY <2>1 DEF IndInv, FilesOK, FileOK
  <2>3. c \in Candidates /\ Wanted(c) /\ ledger[c] # None /\ manifest[c] = ledger[c]
    BY <2>1, <2>2, ToldFacts, AskAssumption
  <2>4. PICK device \in DevicesFor(ask.health) :
          /\ ledger[c] = Inferred(c, device) /\ Complete(Relaxation[c][device])
          /\ (crashes = 0 \/ ask.health.device = "cpu") => sandbox[c] = device
    BY <2>3 DEF IndInv, LedgerOK
  <2>5. /\ manifest[c].relaxed = device /\ device # None
        /\ manifest[c].level = "L2_ML_SCREENED" /\ QcPassed(Relaxation[c][device])
    BY <2>1, <2>2, <2>3, <2>4, RecordFacts
  <2>6. Eligible(c)
    BY <2>1, <2>2, <2>3, Selection, TwoPasses DEF Wanted, Selected
  <2> QED
    BY <2>4, <2>5, <2>6 DEF Recommends, QcPassed, Converged, Complete
<1> QED
  BY <1>1, Inductive, PTL

\* Every answer is the completed one, and a completed attempt has no other.
THEOREM CompletedAnswers ==
  Spec => []AnswersAreCompleted
<1>1. IndInv => AnswersAreCompleted
  BY DEF IndInv, OutcomeOK
<1> QED
  BY <1>1, Inductive, PTL

\* A stage never refuses its sound input but for one of the named causes.
THEOREM NamedCauses ==
  Spec => []RefusalHasACause
<1>1. IndInv => RefusalHasACause
  BY DEF IndInv, OutcomeOK
<1> QED
  BY <1>1, Inductive, PTL

\* What a completed attempt tells.
LEMMA CompletionFacts ==
  ASSUME IndInv, NEW result, result = disk[attempt]["completion"], result # None
  PROVE  /\ disk[attempt]["manifest"] = result.records
         /\ disk[attempt]["report"] = ReportOf(result.records)
         /\ result.status = NativeStatus(result.records)
         /\ DOMAIN result.records = ask.pool /\ UpToDate(result.records)
         /\ \A c \in ask.pool : Told(result.records[c], c)
         /\ HasPlan /\ ask \in Asks
<1>1. FileOK(attempt) /\ ask \in Asks
  BY DEF IndInv, FilesOK, ShapesOK
<1> QED
  BY <1>1 DEF FileOK, HasPlan

\* What the workers have finished is in the completed result, and a stage that
\* succeeded has finished all it wanted, whatever crashes lay between.
THEOREM FinishedWork ==
  Spec => []CompletedWorkIsKept
<1>1. IndInv => CompletedWorkIsKept
  <2> SUFFICES ASSUME IndInv, NEW result, result = disk[attempt]["completion"],
                      result # None
               PROVE  /\ disk[attempt]["manifest"] = result.records
                      /\ DOMAIN result.records = ask.pool
                      /\ \A c \in ask.pool :
                           /\ ledger[c] # None => result.records[c] = ledger[c]
                           /\ result.records[c].decision
                                = disk[attempt]["report"][c].decision
                      /\ result.status = "SUCCEEDED" =>
                           \A k \in DOMAIN Planned :
                             InferenceWanted(k) => ledger[Planned[k].id] # None
                      /\ result.status = "RETRYABLE_FAILED" =>
                           \A c \in ask.pool : ledger[c] = None
    BY DEF CompletedWorkIsKept
  <2> DEFINE records == result.records
  <2>1. /\ disk[attempt]["manifest"] = records
        /\ disk[attempt]["report"] = ReportOf(records)
        /\ result.status = NativeStatus(records)
        /\ DOMAIN records = ask.pool /\ UpToDate(records)
        /\ \A c \in ask.pool : Told(records[c], c)
        /\ HasPlan /\ ask \in Asks
    BY CompletionFacts
  <2>2. \A c \in ask.pool :
          /\ ledger[c] # None => records[c] = ledger[c]
          /\ records[c].decision = disk[attempt]["report"][c].decision
    <3>1. PICK r : r = records
      OBVIOUS
    <3>2. \A c \in ask.pool : ledger[c] # None => r[c] = ledger[c]
      BY <2>1, <3>1 DEF UpToDate
    <3>3. DOMAIN r = ask.pool /\ disk[attempt]["report"] = ReportOf(r)
      BY <2>1, <3>1
    <3>4. \A c \in ask.pool : r[c].decision = disk[attempt]["report"][c].decision
      BY <3>3 DEF ReportOf
    <3> QED BY <3>1, <3>2, <3>4
  <2>3. ASSUME result.status = "SUCCEEDED", NEW k \in DOMAIN Planned,
               InferenceWanted(k)
        PROVE  ledger[Planned[k].id] # None
    <3>1. /\ Planned = PlanOf(ask) /\ Planned[k].id \in ask.pool
          /\ Planned[k].status = SelectionStatus(ask, Planned[k].id)
      BY <2>1, <2>3, PlanInHand, PlanFacts
    <3>2. records[Planned[k].id].error = None
      BY <2>1, <2>3, <3>1 DEF NativeStatus, Errors
    <3>3. SelectionStatus(ask, Planned[k].id) = "SELECTED"
      BY <2>3, <3>1 DEF InferenceWanted
    <3> QED
      BY <2>1, <3>1, <3>2, <3>3, ToldFacts
  <2>4. ASSUME result.status = "RETRYABLE_FAILED", NEW c \in ask.pool
        PROVE  ledger[c] = None
    <3>1. records[c].decision = "FAILED"
      BY <2>1, <2>4 DEF NativeStatus, FailedOnes
    <3> SUFFICES ASSUME ledger[c] # None
                 PROVE  FALSE
      OBVIOUS
    <3>2. records[c] = ledger[c] /\ c \in Candidates
      BY <2>1, <2>2, AskAssumption
    <3>3. \E device \in DevicesFor(ask.health) : ledger[c] = Inferred(c, device)
      BY <3>2 DEF IndInv, LedgerOK
    <3> QED
      BY <2>1, <3>1, <3>2, <3>3, RecordFacts
  <2> QED
    BY <2>1, <2>2, <2>3, <2>4
<1> QED
  BY <1>1, Inductive, PTL

\* The inferences go to the eligible candidates that are published first, as
\* many as there is room for, and without an approval to no more than is
\* automatic, for every pool, order and limit.
THEOREM BestFirst ==
  Spec => []BudgetGoesToTheBest
<1>1. IndInv => BudgetGoesToTheBest
  <2> SUFFICES ASSUME IndInv, NEW result, result = disk[attempt]["completion"],
                      result # None, ask.request.infer
               PROVE  LET records == result.records
                          chosen == {c \in ask.pool : records[c].execution # "NOT_RUN"}
                          eligible == {c \in ask.pool : Eligible(c)}
                      IN  /\ chosen \subseteq eligible
                          /\ \A c \in chosen, d \in eligible \ chosen : NotAfter(c, d)
                          /\ chosen # eligible =>
                               Cardinality(chosen) = ask.request.limit
                          /\ \/ ApprovalRequired(ask.request)
                             \/ Cardinality(chosen) <= AutomaticMax
    BY DEF BudgetGoesToTheBest
  <2> DEFINE records == result.records
             chosen == {c \in ask.pool : records[c].execution # "NOT_RUN"}
             eligible == {c \in ask.pool : Eligible(c)}
             limit == Limit(ask.request)
  <2>1. /\ ask \in Asks /\ \A c \in ask.pool : Told(records[c], c)
    BY CompletionFacts
  <2>2. eligible = Executable(ask)
    BY <2>1, TwoPasses DEF Executable
  <2>3. chosen = {c \in eligible : Cardinality(Ahead(c, eligible)) < limit}
    <3>1. \A c \in ask.pool : c \in chosen <=> SelectionStatus(ask, c) = "SELECTED"
      BY <2>1, ToldFacts DEF Wanted
    <3>2. \A c \in ask.pool : c \in chosen <=> c \in Selected(ask)
      BY <2>1, <3>1, Selection
    <3> QED
      BY <2>2, <3>2 DEF Selected, Executable
  <2>4. /\ eligible \in SUBSET Candidates /\ IsFiniteSet(eligible)
        /\ limit \in Nat
    BY <2>1, AskAssumption, ScreeningAssumption, FS_Subset DEF Limit
  <2> HIDE DEF eligible, chosen
  <2>5. /\ IsFiniteSet(chosen) /\ Cardinality(chosen) <= limit
        /\ chosen # eligible => Cardinality(chosen) = limit
    BY <2>3, <2>4, FirstOnes
  <2>6. ASSUME NEW c \in chosen, NEW d \in eligible \ chosen
        PROVE  NotAfter(c, d)
    <3>1. /\ c \in eligible /\ d \in eligible
          /\ Cardinality(Ahead(c, eligible)) < limit
          /\ ~(Cardinality(Ahead(d, eligible)) < limit)
      BY <2>3
    <3>2. ~Precedes(d, c)
      BY <2>4, <3>1, FewerAhead
    <3> QED
      BY <2>4, <3>1, <3>2, PublicationOrder
  <2>7. /\ chosen # eligible => Cardinality(chosen) = ask.request.limit
        /\ ApprovalRequired(ask.request) \/ Cardinality(chosen) <= AutomaticMax
    <3>1. Cardinality(chosen) \in Nat /\ limit = ask.request.limit
      BY <2>1, <2>5, AskAssumption, ScreeningAssumption, FS_CardinalityType
         DEF Limit
    <3>2. CASE ask.request.mode = "POLICY_TOP_N"
      BY <2>1, <2>5, <3>1, <3>2, AskAssumption, ScreeningAssumption DEF Limit
    <3>3. CASE ask.request.mode = "EXPLICIT_IDS"
      <4>1. chosen \subseteq ask.request.ids
        BY <2>2, <2>3, <3>3 DEF Executable, Requested
      <4>2. /\ Cardinality(chosen) <= Cardinality(ask.request.ids)
            /\ Cardinality(ask.request.ids) \in Nat
        BY <2>1, <4>1, AskAssumption, FS_Subset, FS_CardinalityType
      <4> QED
        BY <2>5, <3>1, <3>3, <4>2, ScreeningAssumption DEF ApprovalRequired
    <3> QED
      BY <2>1, <3>2, <3>3, AskAssumption
  <2> QED
    BY <2>3, <2>6, <2>7 DEF chosen, eligible
<1> QED
  BY <1>1, Inductive, PTL
=============================================================================
