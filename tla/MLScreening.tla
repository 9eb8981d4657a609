----------------------------- MODULE MLScreening -----------------------------
(***************************************************************************)
(* How Agent02 decides before and after inference (ml_screening/): the     *)
(* deterministic pre-filter, the model's domain of applicability, the      *)
(* selection of the candidates that are worth a relaxation, and what a     *)
(* relaxation is worth.  All of it is frozen in the native plan except the *)
(* last.                                                                   *)
(*                                                                         *)
(* An ask is what a stage is called with: the candidates of the upstream   *)
(* manifest, the confirmed Requirement, the request and the health         *)
(* snapshot of the model.                                                  *)
(***************************************************************************)
EXTENDS Integers, FiniteSets, Sequences

CONSTANTS
  None,
  Candidates,        \* candidate ids, a set of numbers in the order of the ids
  Item,              \* candidate -> its record in the upstream manifest
  Supported,         \* elements of the model's training data
  CoverageComplete,  \* the registry claims that Supported is all of them
  Tolerance,         \* MLScreeningPolicy.numeric_tolerance
  MaxSites,          \* the smaller of the policy's and the model's limit
  AutomaticMax,      \* candidates that are inferred without an approval
  HardMax,           \* candidates of a manifest
  Relaxation         \* candidate, device -> what CHGNet makes of the structure

Devices == {"cpu", "mps"}
Bulk == 3
Decisions == {"PASS", "REJECT", "UNCERTAIN", "FAILED"}

ASSUME ScreeningAssumption ==
  /\ Candidates \subseteq Nat /\ DOMAIN Item = Candidates
  /\ \A c \in Candidates : /\ Item[c].decision \in Decisions
                           /\ Item[c].rank \in Nat \cup {None}
  /\ CoverageComplete \in BOOLEAN /\ Tolerance \in Nat /\ MaxSites \in Nat
  /\ AutomaticMax \in Nat \ {0} /\ HardMax \in Nat /\ AutomaticMax <= HardMax

(***************************************************************************)
(* The source structure, as the runner reads it.                           *)
(***************************************************************************)

\* Periodic when its record says so on every axis, or when the file has a cell.
Periodic(c) ==
  IF Item[c].pbc # None THEN Item[c].pbc = "full"
  ELSE IF Item[c].cell THEN TRUE ELSE None

(***************************************************************************)
(* evaluate_pre_filter: a verdict for each hard constraint of the          *)
(* Requirement.  A value in another unit, or not a number, is missing.     *)
(***************************************************************************)

Holds(condition) == IF condition THEN "matched" ELSE "mismatched"
RangeVerdict(reading, range, unit) ==
  IF reading = None \/ reading.kind # "number" \/ reading.unit # unit
    THEN "missing"
    ELSE Holds(/\ range.min = None \/ reading.value + Tolerance >= range.min
               /\ range.max = None \/ reading.value - Tolerance <= range.max)
MetalVerdict(reading, expected) ==
  IF reading = None \/ reading.kind # "flag" \/ reading.unit # "dimensionless"
    THEN "missing" ELSE Holds(reading.value = expected)
KnownVerdict(value, condition) == IF value = None THEN "missing" ELSE Holds(condition)

ConstraintVerdicts(c, req) ==
  LET item == Item[c] IN
  [structure |-> Holds(item.raw),
   include |-> Holds(req.include \subseteq item.elements),
   exclude |-> Holds(req.exclude \cap item.elements = {}),
   max_num_sites |-> IF req.max_num_sites = None THEN "matched"
     ELSE KnownVerdict(item.num_sites, item.num_sites <= req.max_num_sites),
   band_gap |-> IF req.band_gap = None THEN "matched"
     ELSE RangeVerdict(item.band_gap, req.band_gap, "eV"),
   energy_above_hull |-> IF req.energy_above_hull = None THEN "matched"
     ELSE RangeVerdict(item.energy_above_hull, req.energy_above_hull, "eV/atom"),
   is_metal |-> IF req.is_metal = None THEN "matched"
     ELSE MetalVerdict(item.is_metal, req.is_metal),
   dimensionality |-> IF req.dimensionality = None THEN "matched"
     ELSE KnownVerdict(item.dimensionality,
                       item.dimensionality = req.dimensionality)]

Given(verdicts, v) == \E name \in DOMAIN verdicts : verdicts[name] = v
\* What upstream has rejected stays rejected, what it failed on failed.
PreFilter(c, req) ==
  LET verdicts == ConstraintVerdicts(c, req) IN
  IF Item[c].decision \in {"REJECT", "FAILED"} THEN Item[c].decision
  ELSE IF Given(verdicts, "mismatched") THEN "REJECT"
  ELSE IF Given(verdicts, "missing") THEN "UNCERTAIN" ELSE "PASS"

(***************************************************************************)
(* assess_applicability.  Conversion, finite numbers and the distance of   *)
(* the atoms are also checked, but the runner states them itself: they     *)
(* always pass before inference.                                           *)
(***************************************************************************)

Passes(value) ==
  IF value = None THEN "UNKNOWN" ELSE IF value = TRUE THEN "PASS" ELSE "FAIL"
\* Carbon is ambiguous by composition alone.
InorganicCheck(c) ==
  IF "C" \notin Item[c].elements /\ Periodic(c) = TRUE THEN "PASS" ELSE "UNKNOWN"
CoverageCheck(c) ==
  IF Item[c].elements \subseteq Supported THEN "PASS"
  ELSE IF CoverageComplete THEN "FAIL" ELSE "UNKNOWN"
ApplicabilityChecks(c, health) ==
  LET item == Item[c] IN
  [structure_integrity |-> Passes(item.raw),
   periodic_crystal |-> Passes(Periodic(c)),
   inorganic_composition |-> InorganicCheck(c),
   num_sites |-> IF item.num_sites = None THEN "UNKNOWN"
                 ELSE Passes(item.num_sites <= MaxSites),
   element_training_coverage |-> CoverageCheck(c),
   dimensionality |-> IF item.dimensionality = None THEN "UNKNOWN"
                      ELSE Passes(item.dimensionality = Bulk),
   model_health |-> Passes(health.smoke_passed)]
Applicability(c, health) ==
  LET checks == ApplicabilityChecks(c, health) IN
  IF Given(checks, "FAIL") THEN "NOT_APPLICABLE"
  ELSE IF Given(checks, "UNKNOWN") THEN "UNKNOWN" ELSE "APPLICABLE"

(***************************************************************************)
(* select_candidates: in the order of publication, up to the limit.        *)
(***************************************************************************)

\* Mistake: an unranked candidate comes first.
RankOf(c) == IF Item[c].rank = None THEN 0 ELSE Item[c].rank
PrecedesUnrankedFirst(c, d) ==
  RankOf(c) < RankOf(d) \/ (RankOf(c) = RankOf(d) /\ c < d)
Precedes(c, d) ==
  \/ Item[c].rank # None /\ Item[d].rank = None
  \/ Item[c].rank = None /\ Item[d].rank = None /\ c < d
  \/ /\ Item[c].rank # None /\ Item[d].rank # None
     /\ \/ Item[c].rank < Item[d].rank
        \/ Item[c].rank = Item[d].rank /\ c < d

Requested(ask, c) == ask.request.mode = "POLICY_TOP_N" \/ c \in ask.request.ids
Executable(ask) ==
  {c \in ask.pool : /\ PreFilter(c, ask.requirement) = "PASS"
                    /\ Applicability(c, ask.health) = "APPLICABLE"
                    /\ Requested(ask, c)}
Limit(request) ==
  IF request.mode = "POLICY_TOP_N" /\ request.limit > AutomaticMax
    THEN AutomaticMax ELSE request.limit
Ahead(c, pool) == {d \in pool : Precedes(d, c)}
Selected(ask) ==
  {c \in Executable(ask) :
     Cardinality(Ahead(c, Executable(ask))) < Limit(ask.request)}
SelectionStatus(ask, c) ==
  LET kept == PreFilter(c, ask.requirement)
      domain == Applicability(c, ask.health)
  IN  IF ~Requested(ask, c) THEN "NOT_REQUESTED"
      ELSE IF kept \in {"REJECT", "FAILED"} THEN "PREFILTER_REJECTED"
      ELSE IF kept = "UNCERTAIN" THEN "PREFILTER_UNCERTAIN"
      ELSE IF domain = "NOT_APPLICABLE" THEN "NOT_APPLICABLE"
      ELSE IF domain = "UNKNOWN" THEN "APPLICABILITY_UNKNOWN"
      ELSE IF c \in Selected(ask) THEN "SELECTED" ELSE "NOT_SELECTED_BUDGET"

\* The native plan freezes the order of the candidates and what is to become
\* of each.
InOrder(pool, k) ==
  CHOOSE c \in pool : Cardinality(Ahead(c, pool)) = k - 1
PlanOf(ask) ==
  [k \in 1 .. Cardinality(ask.pool) |->
     LET c == InOrder(ask.pool, k) IN
     [id |-> c, status |-> SelectionStatus(ask, c)]]

\* Only an explicit list may exceed what is automatic, with an approval.
ApprovalRequired(request) ==
  request.mode = "EXPLICIT_IDS" /\ Cardinality(request.ids) > AutomaticMax

(***************************************************************************)
(* What a relaxation is worth (the worker's quality control).  Forces are  *)
(* in hundredths of eV/A, energies in 1e-4 eV, ratios in percent, distances *)
(* in tenths of an angstrom.                                               *)
(***************************************************************************)

Complete(relaxed) == relaxed.distance >= 5
Converged(relaxed) == relaxed.force <= 10
\* Mistake: an unfinished relaxation passes when its shape looks right.
QcOfShape(relaxed) ==
  /\ relaxed.rise <= 1 /\ relaxed.volume \in 80 .. 120 /\ relaxed.matches
QcPassed(relaxed) ==
  /\ Converged(relaxed) /\ relaxed.rise <= 1
  /\ relaxed.volume \in 80 .. 120 /\ relaxed.matches
=============================================================================
