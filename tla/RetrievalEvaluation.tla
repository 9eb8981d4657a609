------------------------ MODULE RetrievalEvaluation ------------------------
(***************************************************************************)
(* What one database record is worth to a confirmed Requirement: the query *)
(* each source is sent, the verdict on every constraint and the ranking    *)
(* (retrieval/query.py, evaluator.py, normalizer.py, ranking.py, dedup.py). *)
(*                                                                         *)
(* A record is named by the rank of its material id.  A property value is  *)
(* None, a number, a flag or a label; numbers are integers, so Tolerance   *)
(* is one as well.                                                         *)
(***************************************************************************)
EXTENDS Integers, FiniteSets, Sequences

CONSTANTS
  None,
  Ids,           \* records, as the ranks of their material ids
  Entry,         \* [Ids -> record] what the source holds
  Tolerance,     \* RetrievalPolicy.numeric_tolerance
  Structures     \* canonical structures

Sources == {"materials_project", "nomad", "mc3d", "c2db",
            "topological_quantum_chemistry", "nims_supercon"}

Values == {None} \cup [k : {"num"}, v : Int] \cup [k : {"flag"}, v : BOOLEAN]
            \cup [k : {"text"}, v : STRING]
Number(n) == [k |-> "num", v |-> n]
Label(s) == [k |-> "text", v |-> s]

ASSUME EvaluationAssumption ==
  /\ Ids \subseteq Nat \ {0} /\ IsFiniteSet(Ids) /\ Tolerance \in Nat
  /\ \A i \in Ids :
       /\ Entry[i].structure \in Structures \cup {None}
       /\ Entry[i].complete \in BOOLEAN
       /\ IsFiniteSet(Entry[i].gaps) /\ Entry[i].gaps \subseteq Int
       /\ {Entry[i].gap, Entry[i].hull, Entry[i].dimensionality} \subseteq Int \cup {None}
       /\ \A name \in DOMAIN Entry[i].labels : Entry[i].labels[name].value \in Values

(***************************************************************************)
(* The normalized record: what each source says of a material.             *)
(***************************************************************************)

Known(value, kind) == IF value = None THEN None ELSE [k |-> kind, v |-> value]
Least(numbers) == CHOOSE n \in numbers : \A other \in numbers : n <= other

\* NOMAD reports any number of gaps; the smallest that is not negative counts.
NomadGap(id) ==
  LET reported == {gap \in Entry[id].gaps : gap >= 0}
  IN  IF reported = {} THEN None ELSE Least(reported)
ReportedGap(source, id) ==
  CASE source = "nomad" -> NomadGap(id)
    [] source \in {"materials_project", "c2db"} -> Entry[id].gap
    [] OTHER -> None
\* A NOMAD entry is known not to be a metal, never known to be one.
MetalFlag(source, id) ==
  LET gap == ReportedGap(source, id) IN
    CASE source = "materials_project" -> Entry[id].is_metal
      [] source = "c2db" /\ gap # None -> gap = 0
      [] source = "nomad" /\ gap # None /\ gap > 0 -> FALSE
      [] OTHER -> None
\* Topological only when every part of TQC's classification says so.
TopologicalLabel(source, id) ==
  LET tqc == Entry[id].tqc IN
    IF source # "topological_quantum_chemistry" \/ tqc.soc = None \/ tqc.indices = None
      THEN None
      ELSE tqc.classified /\ tqc.soc /\ tqc.indices

\* The properties of a candidate, by name.
Value(source, id, name) ==
  CASE name = "band_gap" -> Known(ReportedGap(source, id), "num")
    [] name = "energy_above_hull" /\ source \in {"materials_project", "c2db"} ->
         Known(Entry[id].hull, "num")
    [] name = "is_metal" -> Known(MetalFlag(source, id), "flag")
    [] name = "tqc_topological_material_label" -> Known(TopologicalLabel(source, id), "flag")
    [] name = "structural_dimensionality" -> Known(Entry[id].dimensionality, "num")
    [] name \in DOMAIN Entry[id].labels /\ Entry[id].labels[name].source = source ->
         Entry[id].labels[name].value
    [] OTHER -> None

(***************************************************************************)
(* The query.                                                              *)
(***************************************************************************)

\* Evidence of a material class that a source cannot decide at Agent01.
NotJudged(source) ==
  IF source = "materials_project"
    THEN {"first_band_in_fermi_window", "projected_orbital_weight"}
    ELSE {"flat_band_bandwidth", "first_band_in_fermi_window",
          "projected_orbital_weight", "band_crossing_topology",
          "transition_metal_oxidation_state",
          "flat_band_contributor_connectivity", "layered_vdw_gap"}
\* The bounds a range is pushed down with: both, or 0 and the maximum; NOMAD
\* takes either end alone.  A minimum alone stays a local constraint.
Pushed(source, range) ==
  IF source = "nomad" THEN range
  ELSE IF range.max = None THEN [min |-> None, max |-> None]
  ELSE [min |-> IF range.min = None THEN 0 ELSE range.min, max |-> range.max]
RangeFields(source) ==
  CASE source \in {"materials_project", "c2db"} -> {"band_gap", "energy_above_hull"}
    [] source = "nomad" -> {"band_gap"}
    [] OTHER -> {}
Bounded(range) == range.min # None \/ range.max # None
Within(value, range, tol) ==
  /\ range.min = None \/ value.v + tol >= range.min
  /\ range.max = None \/ value.v - tol <= range.max

\* The filters a source answers for.  A record whose value is missing never
\* passes one; NOMAD passes a record if any of its gaps does.
ElementsMatch(req, id) ==
  /\ req.include \subseteq Entry[id].elements
  /\ req.exclude \cap Entry[id].elements = {}
GapPasses(source, bounds, id) ==
  LET gaps == IF source = "nomad" THEN Entry[id].gaps ELSE {ReportedGap(source, id)} IN
    \E gap \in gaps \ {None} : Within(Number(gap), bounds, 0)
HullPasses(source, bounds, id) ==
  /\ Entry[id].hull # None /\ Within(Number(Entry[id].hull), bounds, 0)
RangesMatch(source, req, id) ==
  \A name \in RangeFields(source) \cap DOMAIN req.ranges :
    LET bounds == Pushed(source, req.ranges[name]) IN
      Bounded(bounds) => IF name = "band_gap" THEN GapPasses(source, bounds, id)
                                              ELSE HullPasses(source, bounds, id)
SitesMatch(source, req, id) ==
  source \in {"materials_project", "mc3d", "c2db"} /\ req.max_num_sites # None =>
    Entry[id].num_sites # None /\ Entry[id].num_sites <= req.max_num_sites
MetalMatch(source, req, id) ==
  source = "materials_project" /\ req.is_metal # None =>
    Entry[id].is_metal = req.is_metal
Matches(source, req, id) ==
  /\ ElementsMatch(req, id) /\ RangesMatch(source, req, id)
  /\ SitesMatch(source, req, id) /\ MetalMatch(source, req, id)

(***************************************************************************)
(* The verdicts.                                                           *)
(***************************************************************************)

Verdict(holds) == IF holds THEN "MATCH" ELSE "MISMATCH"

RangeVerdict(value, range) ==
  IF value = None \/ value.k = "flag" THEN "MISSING"
  ELSE IF value.k = "text" THEN "ERROR"
  ELSE Verdict(Within(value, range, Tolerance))
EqualVerdict(value, expected, kind) ==
  IF value = None THEN "MISSING"
  ELSE IF value.k # kind THEN "ERROR"
  ELSE Verdict(value.v = expected)

Sites(id) == IF Entry[id].structure = None THEN None ELSE Entry[id].num_sites

\* The conditions every source is judged by.
CommonVerdicts(source, req, id) ==
  {<<"elements", Verdict(ElementsMatch(req, id))>>}
  \cup {<<name, RangeVerdict(Value(source, id, name), req.ranges[name])>> :
          name \in DOMAIN req.ranges}
  \cup (IF req.is_metal = None THEN {}
        ELSE {<<"is_metal", EqualVerdict(Value(source, id, "is_metal"), req.is_metal, "flag")>>})
  \cup (IF req.max_num_sites = None THEN {}
        ELSE {<<"max_num_sites", IF Sites(id) = None THEN "MISSING"
                                 ELSE Verdict(Sites(id) <= req.max_num_sites)>>})
  \cup (IF req.dimensionality = None THEN {}
        ELSE {<<"dimensionality",
                EqualVerdict(Value(source, id, "structural_dimensionality"),
                             req.dimensionality, "num")>>})
FormulaVerdicts(req, id) ==
  IF req.exact_formula = None THEN {}
  ELSE {<<"exact_formula", Verdict(Entry[id].structure = req.exact_formula)>>}
\* A condition written for another source stays visible as missing evidence.
SourceVerdicts(source, req, id) ==
  {<<c.name, IF c.source = source
               THEN EqualVerdict(Value(source, id, c.name), c.value.v, c.value.k)
               ELSE "MISSING">> : c \in req.source_constraints}
\* What the requested class of material needs and the source does not judge.
ClassVerdicts(source, req) ==
  {<<name, "MISSING">> : name \in req.class_evidence \cap NotJudged(source)}

Evaluations(source, req, id) ==
  CommonVerdicts(source, req, id) \cup FormulaVerdicts(req, id)
    \cup SourceVerdicts(source, req, id) \cup ClassVerdicts(source, req)

TargetVerdict(source, target, id) ==
  LET value == Value(source, id, target.property) IN
    IF target.level # "L1_RETRIEVED" \/ value = None THEN "MISSING"
    ELSE IF target.property = "tqc_topological_material_label" THEN Verdict(value.v)
    ELSE "MATCH"

Verdicts(source, req, id) ==
  {e[2] : e \in Evaluations(source, req, id)}
    \cup {TargetVerdict(source, t, id) : t \in req.scientific_targets}
MissingEvidence(source, req, id) ==
  Cardinality({e \in Evaluations(source, req, id) : e[2] \in {"MISSING", "ERROR"}})
    + Cardinality({t \in req.scientific_targets : TargetVerdict(source, t, id) = "MISSING"})

\* A record without a usable structure is audited as failed, unevaluated.
DecisionOn(structure, verdicts) ==
  IF structure = None THEN "FAILED"
  ELSE IF "MISMATCH" \in verdicts THEN "REJECT"
  ELSE IF verdicts \cap {"MISSING", "ERROR"} # {} THEN "UNCERTAIN" ELSE "PASS"
Decision(source, req, id) ==
  DecisionOn(Entry[id].structure, Verdicts(source, req, id))

(***************************************************************************)
(* Ranking and duplicates.                                                 *)
(***************************************************************************)

Magnitude(n) == IF n < 0 THEN -n ELSE n
Score(preference, value) ==
  CASE preference.mode = "minimize" -> value.v
    [] preference.mode = "maximize" -> -value.v
    [] OTHER -> Magnitude(value.v - preference.target)

RankingKey(source, req, id) ==
  LET Preferred(n) ==
        LET value == Value(source, id, req.ranking_preferences[(n + 1) \div 2].property)
            known == value # None /\ value.k = "num"
        IN  IF n % 2 = 1 THEN (IF known THEN 0 ELSE 1)
            ELSE IF known THEN Score(req.ranking_preferences[n \div 2], value) ELSE 0
  IN  <<IF Decision(source, req, id) = "PASS" THEN 0 ELSE 1>>
        \o [n \in 1 .. 2 * Len(req.ranking_preferences) |-> Preferred(n)]
        \o <<MissingEvidence(source, req, id), id>>

Before(a, b) ==
  \E i \in DOMAIN a : a[i] < b[i] /\ \A j \in 1 .. i - 1 : a[j] = b[j]

Eligible(source, req, ids) ==
  {id \in ids : Decision(source, req, id) \in {"PASS", "UNCERTAIN"}}
Keys(source, req, ids) ==
  [id \in Eligible(source, req, ids) |-> RankingKey(source, req, id)]
PublicationRank(keys, id) ==
  1 + Cardinality({other \in DOMAIN keys : Before(keys[other], keys[id])})
UpTo(limit, keys) == {id \in DOMAIN keys : PublicationRank(keys, id) <= limit}
Published(source, req, ids) == UpTo(req.max_candidates, Keys(source, req, ids))

\* What a Requirement may be ranked by: a target is given to "target" alone.
Preferences ==
  [property : STRING, mode : {"minimize", "maximize"}, target : {None}]
    \cup [property : STRING, mode : {"target"}, target : Int]

\* Records of the same canonical structure; all of them are kept.
ExactDuplicates(ids) ==
  {group \in SUBSET ids :
     \E s \in Structures : /\ group = {id \in ids : Entry[id].structure = s}
                           /\ Cardinality(group) > 1}
=============================================================================
