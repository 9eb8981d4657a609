---------------------------- MODULE MCInspiration ----------------------------
(* Two rules, four queries, five records of four documents.                *)
EXTENDS InspirationSafety

MCMechanisms == {"m1", "m2", "m3"}
MCTags == MCMechanisms \cup {"flat"}
MCRule == <<[targets |-> {"flat"}, suggested |-> {"m1", "m3"}, required |-> {"m1"}],
            [targets |-> {"flat"}, suggested |-> {"m2"}, required |-> {"m2"}]>>
MCPaper == <<1, 2, 3, 4, 1>>

Text(name, tags, like) == [name |-> name, tags |-> tags, enough |-> TRUE, like |-> like]
Short(name) == [name |-> name, tags |-> {"m1"}, enough |-> FALSE, like |-> 0]

\* Document 1 must be fetched, 2 has a telling abstract, 3 may be fetched and
\* speaks of both mechanisms, 4 has no address.
MCWorks == <<
  [url |-> TRUE, title |-> {"flat"}, abstract |-> <<Short("a")>>,
   body |-> <<Text("b", {"m1"}, 1), Text("c", {"m1", "m3"}, 2), Text("d", {"m1"}, 1)>>],
  [url |-> TRUE, title |-> {}, abstract |-> <<Text("e", {"m2", "flat"}, 3)>>, body |-> <<>>],
  [url |-> TRUE, title |-> {"flat"}, abstract |-> <<>>, body |-> <<Text("f", {"m1", "m2"}, 4)>>],
  [url |-> FALSE, title |-> {"m3"}, abstract |-> <<>>, body |-> <<>>]>>

MCAnswers == <<{<<2>>}, {<<1>>, <<3, 5>>, <<>>}, {<<2>>, <<3, 4>>}, {<<1>>, <<3, 3>>}>>

MCBudget == [direct |-> 1, bridge |-> 2, counter |-> 1, queries |-> 4, hits |-> 5,
             documents |-> 3, perHit |-> 2, passages |-> 4, vectors |-> 3, packets |-> 2]

Site(element, charge, class) ==
  [element |-> element, charge |-> charge, class |-> class, ordered |-> TRUE]
S(class) == Site("S", {-2}, class)
Metal(element, charge) == Site(element, {charge}, 1)

MCFrame == [a |-> [type |-> "a", distance |-> 20, dimension |-> 2],
            b |-> [type |-> "a", distance |-> 21, dimension |-> 2],
            c |-> [type |-> "c", distance |-> 23, dimension |-> 3],
            d |-> [type |-> "d", distance |-> 4, dimension |-> 2],
            e |-> [type |-> "e", distance |-> 24, dimension |-> 2]]

\* 1 to 4 and 12 suit a catalog: 2 yields what 1 yields, 3 a strict match of it, 4
\* another metal.  5 and 6 are not flat; 7 to 11 have a charge nobody knows or
\* that is off, a disordered site, atoms too close and two classes.
MCCrystal == <<
  [frame |-> "a", sites |-> <<Metal("Fe", 4), S(2), S(2)>>],
  [frame |-> "a", sites |-> <<Metal("Fe", 4), S(2), Site("Se", {-2}, 3)>>],
  [frame |-> "b", sites |-> <<Metal("Fe", 4), S(2), S(2)>>],
  [frame |-> "a", sites |-> <<Metal("Co", 4), S(2), S(2)>>],
  [frame |-> "c", sites |-> <<Metal("Fe", 2), S(2)>>],
  [frame |-> "c", sites |-> <<Metal("Co", 2), S(2)>>],
  [frame |-> "a", sites |-> <<Site("Fe", {}, 1), S(2), S(2)>>],
  [frame |-> "a", sites |-> <<Metal("Fe", 3), S(2), S(2)>>],
  [frame |-> "a", sites |-> <<[Metal("Fe", 4) EXCEPT !.ordered = FALSE], S(2), S(2)>>],
  [frame |-> "d", sites |-> <<Metal("Fe", 2), S(2)>>],
  [frame |-> "a", sites |-> <<Metal("Fe", 4), S(2), S(3)>>],
  [frame |-> "e", sites |-> <<Metal("Fe", 2), S(2)>>]>>

MCStructureOrder ==
  <<Output(MCCrystal[4], 2), Output(MCCrystal[1], 2), Output(MCCrystal[3], 2),
    Output(MCCrystal[5], 2), Output(MCCrystal[6], 2), Output(MCCrystal[7], 2),
    Output(MCCrystal[12], 2)>>

Parent(id, rule, family) == [id |-> id, rule |-> rule, family |-> family]
Plain(id, family) == Parent(id, 0, family)

MCParentPools == {
  {Parent(1, 1, "f"), Parent(2, 2, "g"), Parent(3, 2, "h")},
  {Parent(4, 1, "f"), Parent(1, 1, "g"), Parent(12, 2, "f")},
  {Parent(4, 1, "f")},
  {Plain(1, "p1"), Plain(4, "p4"), Plain(5, "p5"), Plain(6, "p6")},
  {Plain(5, "p5"), Plain(7, "p7"), Plain(11, "p11")},
  {Plain(8, "p8"), Plain(9, "p9"), Plain(10, "p10"), Plain(11, "p11")}}

Policy(requests, quota) == [max_requests |-> requests, quota |-> quota]

\* The first is that of a release.
MCPolicies == {Policy(0, 1), Policy(3, 2), Policy(3, 3)}

MCWeight == [structure |-> 40, composition |-> 20, route |-> 20, mechanism |-> 20,
             quality |-> 60, coverage |-> 15, redundancy |-> 25]
=============================================================================
