------------------------- MODULE CandidateSelection --------------------------
(***************************************************************************)
(* From bridge packets to a diverse selection: what an inspiration run     *)
(* computes from the parents it was given and the bridges it found         *)
(* (inspiration/: engine, transformations, identity, selection).           *)
(*                                                                         *)
(* Parents are numbered in the order of their identifiers, and so are the  *)
(* structures the substitutions yield: StructureOrder lists them.          *)
(* Identifiers that are hashes are ordered by what they are hashed from.   *)
(* Shares of one are scaled to Unit.                                       *)
(***************************************************************************)
EXTENDS SearchEvidence, StructureEdit

CONSTANTS
  StructureOrder, \* the structures a substitution may yield
  MaxPlans,       \* transformation.max_plans
  TopK, MaxPerFamily,
  Weight          \* weights of the policy in hundredths

\* rule is the bridge rule a catalog parent was reviewed for, 0 without a catalog.
Parents == [id : DOMAIN Crystal, rule : Rules \cup {0}, family : STRING]

ASSUME SelectionAssumption ==
  /\ StructureOrder \in Seq([frame : DOMAIN Frame, species : Seq(Elements \X SUBSET (-2 .. 4))])
  /\ MaxPlans \in Nat \ {0} /\ TopK \in 1 .. MaxPlans /\ MaxPerFamily \in Nat \ {0}
  /\ \A part \in {"structure", "composition", "route", "mechanism", "quality", "coverage",
                  "redundancy"} : Weight[part] \in Nat
  /\ Weight["structure"] + Weight["composition"] + Weight["route"]
       + Weight["mechanism"] = 100
  /\ Weight["quality"] + Weight["coverage"] + Weight["redundancy"] = 100

Unit == 27720   \* divisible by 1 .. 12: shares of small sets stay whole

(***************************************************************************)
(* Transformation plans.                                                   *)
(***************************************************************************)

\* The substitution of a parent: its one class of sulfur sites, how the operator
\* judges it and what it yields.
Edited(id, dimensions) ==
  LET k == CHOOSE k \in SulfurClasses(Crystal[id].sites) : TRUE
  IN  [verdict |-> Verdict(Crystal[id], k, dimensions, MaxSites),
       output |-> Output(Crystal[id], k)]
OneClass(id) == Cardinality(SulfurClasses(Crystal[id].sites)) = 1

\* Catalog parents are meant to stay flat; all others may have any dimension.
Substitution ==
  [id \in {p \in DOMAIN Crystal : OneClass(p)} |->
     [flat \in BOOLEAN |-> Edited(id, IF flat THEN {2} ELSE 0 .. 3)]]
Edit(parent) == Substitution[parent.id][parent.rule # 0]

PacketFor(packets, rule) == {p \in packets : p.rule = rule}

\* A catalog parent (rule # 0) waits for the bridge it was reviewed for; any
\* other parent takes the first there is.
BridgeOf(packets, parent) ==
  IF parent.rule # 0 THEN PacketFor(packets, parent.rule)
  ELSE {p \in packets : \A q \in packets : p.rule <= q.rule}

\* Parents in order, those with a bridge and one class of sulfur sites, until
\* max_plans have been executed.
Drafts(packets, parents) ==
  LET apt == {p \in parents : OneClass(p.id) /\ BridgeOf(packets, p) # {}}
      order == Prefix(Ascending({p.id : p \in apt}), MaxPlans)
  IN  {[parent |-> p, bridge |-> CHOOSE b \in BridgeOf(packets, p) : TRUE,
        edit |-> Edit(p)] : p \in {x \in apt : x.id \in ToSet(order)}}

\* Share of the mechanisms the rule requires that its support names.
Coverage(bridge) ==
  (Cardinality(Rule[bridge.rule].required \cap SupportTags(bridge.cards)) * Unit)
    \div Cardinality(Rule[bridge.rule].required)

\* A plan without full support is an error of the engine, and so is a catalog
\* parent that no longer yields what the catalog says; an exact candidate without
\* evidence is one of the runner.
DraftsBreak(drafts) ==
  \E d \in drafts :
    \/ Coverage(d.bridge) < Unit
    \/ d.parent.rule # 0 /\ d.edit.verdict # "STRUCTURE_VALID"
    \/ d.edit.verdict = "STRUCTURE_VALID" /\ TagsOf(d.bridge.cards) = {}

(***************************************************************************)
(* Candidates: proposals with the same structure are one, with all their   *)
(* routes (merge_run_internal_candidates).                                 *)
(***************************************************************************)

Route(draft) ==
  [parent |-> draft.parent.id, family |-> draft.parent.family, rule |-> draft.bridge.rule,
   mechanisms |-> TagsOf(draft.bridge.cards), cards |-> draft.bridge.cards]

Candidate(structure, routes) ==
  [structure |-> structure, routes |-> routes,
   shape |-> StrictGroup(StructureOrder[structure]), families |-> {r.family : r \in routes},
   mechanisms |-> UNION {r.mechanisms : r \in routes},
   cards |-> UNION {r.cards : r \in routes}]

Proposals(drafts) == {d \in drafts : d.edit.verdict = "STRUCTURE_VALID"}
Yielding(drafts, s) == {d \in Proposals(drafts) : d.edit.output = StructureOrder[s]}

Candidates(drafts) ==
  {Candidate(s, {Route(d) : d \in Yielding(drafts, s)}) :
     s \in {n \in DOMAIN StructureOrder : Yielding(drafts, n) # {}}}

(***************************************************************************)
(* Distance and redundancy.                                                *)
(***************************************************************************)

Jaccard(a, b) ==
  IF a \cup b = {} THEN 0
  ELSE ((Cardinality(a \cup b) - Cardinality(a \cap b)) * Unit) \div Cardinality(a \cup b)

Features(c) == {<<"route", r.parent>> : r \in c.routes}
                 \cup {<<"parent", r.parent>> : r \in c.routes}
                 \cup {<<"bridge", r.rule>> : r \in c.routes}

\* Half of the total variation of two compositions.
CompositionDistance(a, b) ==
  LET share(s, e) == Share(StructureOrder[s], e, Unit)
      gap(e) == IF share(a, e) > share(b, e) THEN share(a, e) - share(b, e)
                ELSE share(b, e) - share(a, e)
  IN  SumFunction([e \in Elements |-> gap(e)]) \div 2

\* In hundredths of Unit.
Distance(a, b) ==
  Weight["structure"] * (IF a.shape = b.shape THEN 0 ELSE Unit)
    + Weight["composition"] * CompositionDistance(a.structure, b.structure)
    + Weight["route"] * Jaccard(Features(a), Features(b))
    + Weight["mechanism"] * Jaccard(a.mechanisms, b.mechanisms)

Redundancy(c, chosen) ==
  IF chosen = {} THEN 0
  ELSE 100 * Unit - (CHOOSE n \in {Distance(c, x) : x \in chosen} :
                       \A x \in chosen : n <= Distance(c, x))

\* In two hundredths of Unit; quality is one half for all, coverage complete.
Score(c, chosen) ==
  (Weight["quality"] + 2 * Weight["coverage"]) * Unit
    - 2 * Weight["redundancy"] * (Redundancy(c, chosen) \div 100)

(***************************************************************************)
(* Hard quotas and the coverage witness.                                   *)
(***************************************************************************)

InFamily(chosen, family) == Cardinality({x \in chosen : family \in x.families})

\* No two structures that match strictly.
EligibleByShape(c, chosen) == \A x \in chosen : x.shape # c.shape

Eligible(c, chosen) ==
  /\ EligibleByShape(c, chosen)
  /\ \A family \in c.families : InFamily(chosen, family) < MaxPerFamily

Covered(chosen) == UNION {c.mechanisms : c \in chosen}
InOrder(pool) ==
  LET order == Ascending({c.structure : c \in pool})
  IN  [i \in DOMAIN order |-> CHOOSE c \in pool : c.structure = order[i]]

\* Depth first over the candidates in order, each adding a mechanism, as long
\* as what is left could reach the target.  {} stands for none.
DeepWitness(order, target) ==
  LET Chosen(S) == {order[i] : i \in S}
      Adds(i, S) == /\ ~(order[i].mechanisms \subseteq Covered(Chosen(S)))
                    /\ Eligible(order[i], Chosen(S))
      Potential(start, S) ==
        Covered(Chosen(S)) \cup
          Covered({order[i] : i \in {j \in start .. Len(order) :
                                          Eligible(order[j], Chosen(S))}})
      visit[start \in 1 .. Len(order) + 1] ==
        [S \in SUBSET DOMAIN order |->
           IF Cardinality(Covered(Chosen(S))) >= target THEN S
           ELSE IF Cardinality(S) >= TopK \/ Cardinality(Potential(start, S)) < target
                THEN {}
           ELSE LET next == {i \in start .. Len(order) :
                               Adds(i, S) /\ visit[i + 1][S \cup {i}] # {}}
                IN  IF next = {} THEN {}
                    ELSE LET i == CHOOSE i \in next : \A j \in next : i <= j
                         IN  visit[i + 1][S \cup {i}]]
  IN  visit[1][{}]

\* Mistake: the pair is looked for only next to the first candidate.
PairOfFirst(order, target) ==
  {<<1, j>> : j \in {k \in DOMAIN order :
     k > 1 /\ Eligible(order[k], {order[1]})
     /\ Cardinality(order[1].mechanisms \cup order[k].mechanisms) >= target}}

Pairs(order, target) ==
  {pair \in (DOMAIN order) \X (DOMAIN order) :
     LET first == order[pair[1]]
         second == order[pair[2]]
     IN  /\ pair[1] < pair[2] /\ Eligible(second, {first})
         /\ Cardinality(first.mechanisms \cup second.mechanisms) >= target}

\* One candidate if one is enough, else a pair, else the deep search.
Witness(pool, target) ==
  LET order == InOrder(pool)
      single == {i \in DOMAIN order : Cardinality(order[i].mechanisms) >= target}
      First(S) == CHOOSE i \in S : \A j \in S : i <= j
      pairs == Pairs(order, target)
  IN  IF single # {} THEN {order[First(single)]}
      ELSE IF target = 2
      THEN IF pairs = {} THEN {}
           ELSE LET i == First({p[1] : p \in pairs})
                    j == First({p[2] : p \in {x \in pairs : x[1] = i}})
                IN  {order[i], order[j]}
      ELSE {order[i] : i \in DeepWitness(order, target)}

\* The largest number of mechanisms, up to the one requested, with a witness.
FeasibleTarget(pool, quota) ==
  LET available == Cardinality(Covered(pool))
      desired == IF available < quota THEN available ELSE quota
  IN  Max({0} \cup {n \in 1 .. desired : Witness(pool, n) # {}})

(***************************************************************************)
(* Selection: the witness first, then the best score while the quotas      *)
(* allow (select_diverse_candidates_with_audit).                           *)
(***************************************************************************)

Best(eligible, chosen) ==
  CHOOSE c \in eligible :
    \A x \in eligible \ {c} :
      \/ Score(c, chosen) > Score(x, chosen)
      \/ Score(c, chosen) = Score(x, chosen) /\ c.structure < x.structure

OneMore(eligible, selected) ==
  IF eligible = {} \/ Len(selected) >= TopK THEN selected
  ELSE Append(selected, Best(eligible, ToSet(selected)))

Select(pool, target) ==
  LET Left(selected) ==
        {c \in pool \ ToSet(selected) : Eligible(c, ToSet(selected))}
      more[k \in 0 .. TopK] ==
        IF k = 0 THEN InOrder(IF target = 0 THEN {} ELSE Witness(pool, target))
        ELSE OneMore(Left(more[k - 1]), more[k - 1])
  IN  more[TopK]

\* target is the FeasibleTarget of the pool.
QuotaStatus(pool, quota, target) ==
  IF Cardinality(Covered(pool)) < quota THEN "POOL_INSUFFICIENT"
  ELSE IF target < quota THEN "HARD_QUOTA_INFEASIBLE"
  ELSE "MET"

\* Selection that loses mechanisms its witness had is an error.
QuotaLost(pool, quota, target, selected) ==
  /\ QuotaStatus(pool, quota, target) = "MET"
  /\ Cardinality(Covered(ToSet(selected))) < quota

Underfill(pool, status, selected) ==
  LET chosen == ToSet(selected)
      left == pool \ chosen
      Because(reason, holds) == IF holds THEN {reason} ELSE {}
  IN  Because("CANDIDATE_POOL_BELOW_TOP_K",
              Len(selected) < TopK /\ Cardinality(pool) < TopK)
        \cup Because("STRICT_STRUCTURE_GROUP_LIMIT",
                Len(selected) < TopK /\ \E c \in left : ~EligibleByShape(c, chosen))
        \cup Because("PARENT_FAMILY_LIMIT",
                /\ Len(selected) < TopK
                /\ \E c \in left : \E f \in c.families :
                     InFamily(chosen, f) >= MaxPerFamily)
        \cup Because("MECHANISM_POOL_BELOW_REQUESTED",
                status = "POOL_INSUFFICIENT")
        \cup Because("MECHANISM_TARGET_INFEASIBLE_UNDER_HARD_QUOTAS",
                status = "HARD_QUOTA_INFEASIBLE")

RoutesIn(candidates) == UNION {c.routes : c \in candidates}

\* Two distinct physical routes are asked for when two mechanisms are.
RouteStatus(pool, quota, selected) ==
  LET wanted == IF quota >= 2 THEN 2 ELSE 1
  IN  IF Cardinality(RoutesIn(ToSet(selected))) >= wanted THEN "MET"
      ELSE IF Cardinality(RoutesIn(pool)) < wanted THEN "POOL_INSUFFICIENT"
      ELSE "HARD_QUOTA_INFEASIBLE"
=============================================================================
