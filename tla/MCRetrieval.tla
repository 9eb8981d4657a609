----------------------------- MODULE MCRetrieval -----------------------------
(* Four records: one without a structure, which NOMAD reports as incomplete, *)
(* and two that are the same structure in two forms.  Numbers are tenths.    *)
EXTENDS RetrievalSafety

CONSTANTS Plain, Twin

MCIds == 1 .. 4
MCStructures == {"Si", "SiC"}
Record(structure, raw, elements, gap, gaps, hull) ==
  [structure |-> structure, raw |-> raw, complete |-> structure # None,
   elements |-> elements, num_sites |-> IF structure = None THEN None ELSE 2,
   gap |-> gap, gaps |-> gaps, hull |-> hull, is_metal |-> FALSE, dimensionality |-> 3,
   tqc |-> [classified |-> TRUE, soc |-> TRUE, indices |-> hull # None],
   labels |-> [name \in {"ordering"} |->
                 [source |-> "materials_project", value |-> Label("FM")]]]
MCEntry == << Record(None, Plain, {"Si"}, 10, {10}, 0),
              Record("Si", Plain, {"Si"}, 20, {-10, 20}, 0),
              Record("SiC", Plain, {"Si", "C"}, 10, {10, 30}, None),
              Record("SiC", Twin, {"Si", "C"}, None, {10}, 10) >>

Wants(exclude, gap, limit, constraints, targets) ==
  [include |-> {"Si"}, exclude |-> exclude, exact_formula |-> None,
   ranges |-> [name \in {"band_gap"} |-> gap],
   is_metal |-> None, max_num_sites |-> 4, dimensionality |-> 3,
   source_constraints |-> constraints, class_evidence |-> {},
   scientific_targets |-> targets,
   ranking_preferences |->
     <<[property |-> "energy_above_hull", mode |-> "minimize", target |-> None]>>,
   max_candidates |-> limit]
Magnetic == [name |-> "ordering", source |-> "materials_project", value |-> Label("FM")]
MCRequirements == {Wants({}, [min |-> None, max |-> 20], 1, {}, {}),
                   Wants({"C"}, [min |-> 10, max |-> None], 2, {Magnetic}, {})}
MCRunSources == Sources \ {"nims_supercon"}
MCListings == {{1, 2, 3}, {2, 3, 4}}
TameListings == {{2, 3}}

\* No gap is within the tolerance of a bound and outside it.
ASSUME MCAsksForAll == AsksForAll
=============================================================================
