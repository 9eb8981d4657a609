---------------------------- MODULE StructureEdit ----------------------------
(***************************************************************************)
(* The substitution of one class of sulfur sites by selenium, as the       *)
(* operator executes and judges it (inspiration/transformations,           *)
(* parent_catalog and the crystallographic part of engine).                *)
(*                                                                         *)
(* A structure is a frame (lattice and positions) and the sites on it.     *)
(* What crystallography says of it is given: the class of equivalent       *)
(* sites each site belongs to and, with the frame, the smallest distance   *)
(* (tenths of an angstrom) and the dimensionality.  A site's charge is the *)
(* set of its explicit oxidation states: one, or none.                     *)
(***************************************************************************)
EXTENDS Integers, FiniteSets, SequencesExt

CONSTANTS
  Frame,          \* frame -> [type, distance, dimension]
  Crystal,        \* parent -> [frame, sites]
  MaxSites,       \* transformation.max_sites_per_structure
  MaxCatalogSites \* the site budget a catalog is reviewed with

Elements == {"S", "Se", "Fe", "Co"}
Sites == [element : Elements, charge : {c \in SUBSET (-2 .. 4) : Cardinality(c) <= 1},
          class : Nat, ordered : BOOLEAN]

ASSUME CrystalAssumption ==
  /\ \A f \in DOMAIN Frame : Frame[f].distance \in Nat /\ Frame[f].dimension \in 0 .. 3
  /\ DOMAIN Crystal \subseteq Nat /\ IsFiniteSet(DOMAIN Crystal)
  /\ \A p \in DOMAIN Crystal : /\ Crystal[p].frame \in DOMAIN Frame
                               /\ Crystal[p].sites \in Seq(Sites) \ {<<>>}
  /\ MaxSites \in Nat /\ MaxCatalogSites \in Nat

\* Classes whose sites are all ordered sulfur (_equivalent_site_groups).
SulfurClasses(sites) ==
  {k \in {sites[i].class : i \in DOMAIN sites} :
     \A i \in DOMAIN sites : sites[i].class = k => sites[i].ordered /\ sites[i].element = "S"}

ClassSites(sites, k) == {i \in DOMAIN sites : sites[i].class = k}
ChargesOf(sites, places) == {sites[i].charge : i \in places}
AllowedCharges == {{-2}}   \* of the S to Se rule of the registry

\* The charge the new sites take over: explicit, consistent and allowed, or
\* explicit nowhere in the class (_charge_target_species).
SubstitutedCharge(sites, k) ==
  LET charges == ChargesOf(sites, ClassSites(sites, k))
  IN  IF charges = {{}} THEN "UNKNOWN"
      ELSE IF \E c \in AllowedCharges : charges = {c} THEN "PASS" ELSE "FAIL"

\* The charge of all sites together (_whole_structure_charge_status).
WholeCharge(sites) ==
  IF {} \in ChargesOf(sites, DOMAIN sites) THEN "UNKNOWN"
  ELSE IF SumFunction([i \in DOMAIN sites |-> CHOOSE n \in sites[i].charge : TRUE]) = 0
  THEN "PASS" ELSE "FAIL"

\* Same frame, same places, same charges.
Substituted(sites, k) ==
  [i \in DOMAIN sites |->
     IF sites[i].class = k THEN [sites[i] EXCEPT !.element = "Se"] ELSE sites[i]]

\* What disqualifies the result: a disordered site anywhere, a charge known to
\* be wrong, atoms too close, too many sites, a dimension nobody asked for.
Disqualified(crystal, k, dimensions, budget) ==
  \/ \E i \in DOMAIN crystal.sites : ~crystal.sites[i].ordered
  \/ SubstitutedCharge(crystal.sites, k) = "FAIL"
  \/ WholeCharge(Substituted(crystal.sites, k)) = "FAIL"
  \/ Len(crystal.sites) > 1 /\ Frame[crystal.frame].distance < 5
  \/ Len(crystal.sites) > budget \/ Frame[crystal.frame].dimension \notin dimensions

\* Mistake: a charge that is explicit in the class is taken for the whole.
VerdictOfClass(crystal, k, dimensions, budget) ==
  IF Disqualified(crystal, k, dimensions, budget) THEN "REJECTED"
  ELSE IF SubstitutedCharge(crystal.sites, k) = "PASS" THEN "STRUCTURE_VALID"
  ELSE "REQUIRES_REVIEW"

\* execute_equivalent_site_substitution.
Verdict(crystal, k, dimensions, budget) ==
  IF Disqualified(crystal, k, dimensions, budget) THEN "REJECTED"
  ELSE IF /\ SubstitutedCharge(crystal.sites, k) = "PASS"
          /\ WholeCharge(Substituted(crystal.sites, k)) = "PASS" THEN "STRUCTURE_VALID"
  ELSE "REQUIRES_REVIEW"

\* The output, as its identifier is computed: species by place of the frame.
Output(crystal, k) ==
  LET sites == Substituted(crystal.sites, k)
  IN  [frame |-> crystal.frame,
       species |-> [i \in DOMAIN sites |-> <<sites[i].element, sites[i].charge>>]]

\* Outputs on frames of one type with the same species match one another
\* strictly; their identifiers tell them apart (_strict_group_ids).
StrictGroup(output) == [type |-> Frame[output.frame].type, species |-> output.species]

\* Sites of element e among how many, scaled to unit (_composition_fractions).
Share(output, e, unit) ==
  (Cardinality({i \in DOMAIN output.species : output.species[i][1] = e}) * unit)
    \div Len(output.species)

\* A catalog lists a parent only if it is ordered, explicitly neutral, flat, has
\* one class of sulfur and was substituted without a doubt
\* (parent_catalog._validate_structure_and_route).
CatalogAccepts(crystal) ==
  /\ \A i \in DOMAIN crystal.sites : crystal.sites[i].ordered
  /\ WholeCharge(crystal.sites) = "PASS" /\ Frame[crystal.frame].dimension = 2
  /\ \E k \in SulfurClasses(crystal.sites) :
       /\ SulfurClasses(crystal.sites) = {k}
       /\ Verdict(crystal, k, {2}, MaxCatalogSites) = "STRUCTURE_VALID"
=============================================================================
