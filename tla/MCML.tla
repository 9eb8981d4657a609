-------------------------------- MODULE MCML --------------------------------
(* Six candidates.  1 and 2 relax well, 2 not on the CPU; 3 is not known to  *)
(* meet the Requirement, 4 is out of the model's domain, 5 collapses when it *)
(* is relaxed, 6 is one that upstream has failed on.                         *)
EXTENDS MLSafety

MCCandidates == 1 .. 6
Reading(kind, value, unit) == [kind |-> kind, value |-> value, unit |-> unit]
From(decision, rank, elements, gap) ==
  [decision |-> decision, rank |-> rank, elements |-> elements, num_sites |-> 2,
   pbc |-> IF rank = None THEN None ELSE "full", cell |-> TRUE, raw |-> TRUE,
   dimensionality |-> 3, band_gap |-> gap, energy_above_hull |-> None,
   is_metal |-> Reading("flag", FALSE, "dimensionless")]
MCItem ==
  << From("PASS", 2, {"Si"}, Reading("number", 9, "eV")),
     From("UNCERTAIN", None, {"Si", "O"}, Reading("number", 15, "eV")),
     From("PASS", 1, {"Si"}, Reading("number", 15, "meV")),
     From("PASS", 3, {"Si", "C"}, Reading("number", 15, "eV")),
     From("PASS", 4, {"O"}, Reading("number", 15, "eV")),
     From("FAILED", None, {"O"}, None) >>
Sound == [force |-> 5, rise |-> 0, volume |-> 101, matches |-> TRUE, distance |-> 20]
MCRelaxation ==
  [c \in MCCandidates |-> [device \in Devices |->
     CASE c = 2 /\ device = "cpu" -> [Sound EXCEPT !.force = 30]
       [] c = 5 -> [Sound EXCEPT !.distance = 3]
       [] OTHER -> Sound]]

Wants(gap) == [allow_ml |-> TRUE, confirmed |-> TRUE, include |-> {}, exclude |-> {"Fe"},
               band_gap |-> gap, energy_above_hull |-> None, is_metal |-> FALSE,
               max_num_sites |-> 4, dimensionality |-> 3]
Gap == [min |-> 10, max |-> None]
TopN(n) == [mode |-> "POLICY_TOP_N", ids |-> {}, limit |-> n, infer |-> TRUE]
Explicit(ids) == [mode |-> "EXPLICIT_IDS", ids |-> ids, limit |-> Cardinality(ids),
                  infer |-> TRUE]
Health(device, expires) == [smoke_passed |-> TRUE, device |-> device, expires |-> expires]
Ask(pool, request, health) ==
  [pool |-> pool, requirement |-> Wants(Gap), request |-> request, health |-> health,
   supplied |-> "sound"]
Cpu == Health("cpu", 9)
Mps == Health("mps", 9)
MCAsks ==
  {Ask({1, 2, 3}, TopN(1), Mps), Ask({1, 2}, TopN(2), Mps), Ask({1, 4}, TopN(2), Cpu),
   Ask({5}, TopN(2), Cpu), Ask({1, 2, 5}, Explicit({1, 2, 5}), Cpu),
   Ask({1, 2}, Explicit({2}), Health("mps", 2)), Ask({1, 6}, TopN(2), Cpu),
   Ask({3, 4}, TopN(1), Cpu), Ask(1 .. 4, TopN(1), Cpu), Ask({1}, Explicit({2}), Cpu),
   [Ask({1}, TopN(1), Cpu) EXCEPT !.request.infer = FALSE],
   [Ask({1}, TopN(1), Cpu) EXCEPT !.requirement.allow_ml = FALSE],
   [Ask({1}, TopN(1), Cpu) EXCEPT !.requirement.confirmed = FALSE],
   [Ask({1}, TopN(1), Cpu) EXCEPT !.supplied = "missing"],
   [Ask({1}, TopN(1), Cpu) EXCEPT !.supplied = "altered"],
   [Ask({1}, TopN(1), Cpu) EXCEPT !.health.smoke_passed = FALSE]}
=============================================================================
