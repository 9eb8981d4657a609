--------------------------- MODULE SearchEvidence ----------------------------
(***************************************************************************)
(* From a tag graph to evidence: what an inspiration run computes from the *)
(* pages a literature search answered and the bodies it could fetch        *)
(* (inspiration/: tag_graph, search, passages, evidence, bridge,           *)
(* validation, feedback and the parts of runner that join them).           *)
(*                                                                         *)
(* Rules, documents and records are numbered in the order of their         *)
(* identifiers.  A record of the provider leads to a document through its  *)
(* DOI; several records may lead to one.  A text is a window of a document *)
(* that the tokenizer and the sentence rules cut out, described by the     *)
(* tags whose terms occur in it.                                           *)
(***************************************************************************)
EXTENDS Naturals, FiniteSets, SequencesExt, Listing

CONSTANTS
  Tags, Mechanisms,   \* tags of the graph, those of kind MECHANISM
  Targets,            \* target tags of the run
  Rules, Rule,        \* bridge rules: [targets, suggested, required]
  Records, Paper,     \* records of the provider, and the document of each
  Works,              \* document -> [url, title, abstract, body]
  Budget              \* search, passage, embedding and bridge budgets

Documents == {Paper[r] : r \in Records}
Texts == [name : STRING, tags : SUBSET Tags, enough : BOOLEAN, like : Nat]

ASSUME EvidenceAssumption ==
  /\ IsFiniteSet(Tags) /\ Mechanisms \subseteq Tags
  /\ Targets \subseteq Tags /\ Targets # {}
  /\ Rules \subseteq Nat \ {0} /\ IsFiniteSet(Rules)
  /\ Rule \in [Rules -> [targets : SUBSET Tags, suggested : SUBSET Tags,
                         required : (SUBSET Mechanisms) \ {{}}]]
  /\ Records \subseteq Nat \ {0} /\ Paper \in [Records -> Nat \ {0}]
  /\ \A d \in Documents :
       /\ Works[d].url \in BOOLEAN /\ Works[d].title \subseteq Tags
       /\ Works[d].abstract \in Seq(Texts) /\ Works[d].body \in Seq(Texts)
  /\ \A field \in {"direct", "bridge", "counter", "queries", "hits", "documents",
                   "perHit", "passages", "vectors", "packets"} :
       Budget[field] \in Nat
  /\ Budget["direct"] + Budget["bridge"] + Budget["counter"] <= Budget["queries"]
  /\ Budget["documents"] <= Budget["hits"]

Prefix(s, n) == IF Len(s) <= n THEN s ELSE SubSeq(s, 1, n)

(***************************************************************************)
(* The query plan.                                                         *)
(***************************************************************************)

Query(kind, rule, tags) == [kind |-> kind, rule |-> rule, tags |-> tags]
MatchingRules == Ascending({r \in Rules : Rule[r].targets \cap Targets # {}})
SelectedRules == Prefix(MatchingRules, Budget["bridge"])

\* Direct, then every bridge, and counter queries with what is left.
Plan ==
  LET Direct == IF Budget["direct"] = 0 THEN <<>>
                ELSE <<Query("DIRECT", 0, Targets)>>
      Of(kind, rules) ==
        [i \in DOMAIN rules |-> Query(kind, rules[i], Rule[rules[i]].suggested)]
  IN  Prefix(Direct \o Of("BRIDGE", SelectedRules)
               \o Of("COUNTER", Prefix(SelectedRules, Budget["counter"])),
             Budget["queries"])

QueryIds == DOMAIN Plan

(***************************************************************************)
(* Hits.  pages[q] is the page query q was answered with, a sequence of    *)
(* records; queries are answered in the order of the plan.                 *)
(***************************************************************************)

Hit(q, rank, record) == [query |-> q, rank |-> rank, record |-> record]
Listed(hit) == Paper[hit.record]

\* Each page is parsed up to what is left of max_raw_hits.
HitsOf(pages) ==
  Prefix(FlattenSeq([q \in DOMAIN pages |->
           [i \in DOMAIN pages[q] |-> Hit(q, i, pages[q][i])]]),
         Budget["hits"])

\* The same record twice in a page is one hit id twice.
HitIdsRepeat(hits) ==
  \E i, j \in DOMAIN hits :
    i < j /\ hits[i].query = hits[j].query /\ hits[i].record = hits[j].record

DocumentsOf(hits) == {Listed(h) : h \in ToSet(hits)}
Members(hits, d) == {h \in ToSet(hits) : Listed(h) = d}
MemberQueries(hits, d) == {h.query : h \in Members(hits, d)}
MemberTags(hits, d) == UNION {Plan[q].tags : q \in MemberQueries(hits, d)}

KindPriority(kind) == CASE kind = "BRIDGE" -> 0 [] kind = "DIRECT" -> 1
                        [] kind = "COUNTER" -> 2

\* The one hit a document is processed for: one that can support a bridge, of
\* the lowest rule, best ranked (_select_document_processing_hit).
ProcessingHit(hits, d) ==
  LET Key(h) == <<KindPriority(Plan[h.query].kind), Plan[h.query].rule, h.rank>>
      Less(a, b) == \E i \in 1 .. 3 : a[i] < b[i] /\ \A j \in 1 .. i - 1 : a[j] = b[j]
  IN  CHOOSE h \in Members(hits, d) :
        \A other \in Members(hits, d) : ~Less(Key(other), Key(h))

(***************************************************************************)
(* Passages.                                                               *)
(***************************************************************************)

\* An abstract is enough if it is long and speaks of what was asked for.
AbstractSuffices(hits, d) ==
  \E i \in DOMAIN Works[d].abstract :
    /\ Works[d].abstract[i].enough
    /\ (Works[d].title \cup Works[d].abstract[i].tags) \cap MemberTags(hits, d) # {}

Draft(tier, i, text, matched) ==
  [tier |-> tier, at |-> i, text |-> text.name, like |-> text.like, tags |-> matched]

\* Windows of the abstract and of the body, if it was fetched, that are long
\* enough and relevant; better matches first, the abstract before the body.
RankedDrafts(hits, d, fetched) ==
  LET From(tier, texts) ==
        {Draft(tier, i, texts[i],
               (Works[d].title \cup texts[i].tags) \cap MemberTags(hits, d)) :
           i \in {j \in DOMAIN texts : texts[j].enough}}
      all == From(0, Works[d].abstract)
               \cup (IF fetched THEN From(1, Works[d].body) ELSE {})
      Better(a, b) ==
        \/ Cardinality(a.tags) > Cardinality(b.tags)
        \/ /\ Cardinality(a.tags) = Cardinality(b.tags)
           /\ a.tier < b.tier \/ (a.tier = b.tier /\ a.at < b.at)
  IN  Ranked({draft \in all : draft.tags # {}},
             {pair \in all \X all : Better(pair[1], pair[2])})

\* Near-duplicates of a better draft go; at most perHit stay.
DistinctDrafts(drafts) ==
  LET Repeats(x, kept) ==
        \E i \in DOMAIN kept : x.text = kept[i].text \/ x.like = kept[i].like
      distinct[n \in 0 .. Len(drafts)] ==
        IF n = 0 THEN <<>>
        ELSE IF Repeats(drafts[n], distinct[n - 1]) THEN distinct[n - 1]
        ELSE Append(distinct[n - 1], drafts[n])
  IN  Prefix(distinct[Len(drafts)], Budget["perHit"])

\* The passages of documents in order, up to max_total; fetched are those with
\* a body.
PassagesOf(hits, documents, fetched) ==
  LET From(d) ==
        LET drafts == DistinctDrafts(RankedDrafts(hits, d, d \in fetched))
        IN  [i \in DOMAIN drafts |->
               [doc |-> d, text |-> drafts[i].text, tier |-> drafts[i].tier,
                tags |-> drafts[i].tags, hit |-> ProcessingHit(hits, d)]]
  IN  Prefix(FlattenSeq([i \in DOMAIN documents |-> From(documents[i])]),
             Budget["passages"])

Vectorized(passages) == Prefix(passages, Budget["vectors"])

(***************************************************************************)
(* Evidence and bridges.                                                   *)
(***************************************************************************)

RuleOf(passage) == Plan[passage.hit.query].rule

Relation(passage) ==
  CASE RuleOf(passage) = 0 -> "CONTEXT"
    [] RuleOf(passage) # 0 /\ Plan[passage.hit.query].kind = "COUNTER" -> "COUNTER"
    [] OTHER -> "SUPPORT"

\* A card quotes one passage that names a mechanism.
Cards(passages) ==
  {[passage |-> p, rule |-> RuleOf(p), relation |-> Relation(p),
    tags |-> p.tags \cap Mechanisms] :
     p \in {x \in ToSet(passages) : x.tags \cap Mechanisms # {}}}

CardsOf(cards, rule) == {c \in cards : c.rule = rule}
TagsOf(cards) == UNION {c.tags : c \in cards}
SupportTags(cards) == TagsOf({c \in cards : c.relation = "SUPPORT"})
QueriesOf(rule, n) == {q \in QueryIds : q <= n /\ Plan[q].rule = rule}

\* Mistake: any card of the rule counts as support.
SupportedByAnything(cards, n) ==
  {r \in Rules : Rule[r].required \subseteq TagsOf(CardsOf(cards, r)) /\ QueriesOf(r, n) # {}}

\* A packet for every rule whose SUPPORT cards name each mechanism it needs;
\* n queries were executed.
SupportedRules(cards, n) ==
  {r \in Rules : /\ Rule[r].required \subseteq SupportTags(CardsOf(cards, r))
                 /\ QueriesOf(r, n) # {}}
Packets(cards, n) ==
  {[rule |-> r, cards |-> CardsOf(cards, r)] : r \in SupportedRules(cards, n)}

\* The closure of a packet is validated again, from the packet to the queries.
ClosureBreaks(packet, passages, hits) ==
  LET queries(card) == {h.query : h \in {x \in ToSet(hits) : x = card.passage.hit}}
      support == {c \in packet.cards : c.relation = "SUPPORT"}
  IN  \/ \E c \in packet.cards :
           \/ c.passage \notin ToSet(passages) \/ queries(c) = {}
           \/ Listed(c.passage.hit) # c.passage.doc
           \/ \E q \in queries(c) : Plan[q].kind # "DIRECT" /\ Plan[q].rule # packet.rule
      \/ support = {} \/ ~(Rule[packet.rule].required \subseteq TagsOf(support))
      \/ ~\E c \in support, q \in QueryIds : q \in queries(c) /\ Plan[q].kind = "BRIDGE"

(***************************************************************************)
(* Feedback: the yield of each query and the standing of each rule.        *)
(* attempts is a sequence of [query, number, ok], allocations a set of             *)
(* [doc, queries, requests].                                               *)
(***************************************************************************)

Executed(pages) == DOMAIN pages

\* Why the compiler refuses its input.
FeedbackRefuses(pages, attempts, hits, passages, cards, packets, allocations) ==
  \/ \E i \in DOMAIN attempts : attempts[i].query \notin QueryIds
  \/ \E q \in Executed(pages) :
       ~\E i \in DOMAIN attempts : attempts[i].query = q /\ attempts[i].ok
  \/ \E h \in ToSet(hits) : h.query \notin Executed(pages)
  \/ \E p \in ToSet(passages) : p.hit \notin ToSet(hits) \/ Listed(p.hit) # p.doc
  \/ \E a \in allocations : ~(a.queries \subseteq Executed(pages))
  \/ \E c \in cards : c.passage \notin ToSet(passages)
  \/ \E p \in packets :
       \/ \E c \in p.cards : c \notin cards \/ RuleOf(c.passage) # p.rule
       \/ ~(Rule[p.rule].required \subseteq SupportTags(p.cards))
  \/ \E p, q \in packets : p # q /\ p.rule = q.rule

\* Mistake: only requests that were answered count.
YieldOfAnswers(queries, attempts, hits, passages, cards, packets, allocations) ==
  [requests |-> Cardinality({i \in DOMAIN attempts :
                               attempts[i].query \in queries /\ attempts[i].ok}),
   hits |-> 0, documents |-> 0, passages |-> 0, cards |-> 0, packets |-> 0, fetches |-> 0]

\* One document, passage or fetch may appear in the rows of several queries.
Yield(queries, attempts, hits, passages, cards, packets, allocations) ==
  LET found == {h \in ToSet(hits) : h.query \in queries}
  IN  [requests |-> Cardinality({i \in DOMAIN attempts : attempts[i].query \in queries}),
       hits |-> Cardinality(found), documents |-> Cardinality({Listed(h) : h \in found}),
       passages |-> Cardinality({p \in ToSet(passages) : p.hit \in found}),
       cards |-> Cardinality({c \in cards : c.passage.hit.query \in queries}),
       packets |-> Cardinality({p \in packets :
                      \E c \in p.cards : c.passage.hit.query \in queries}),
       fetches |-> SumFunction([a \in {x \in allocations : x.queries \cap queries # {}}
                               |-> a.requests])]

RuleStanding(rule, pages, packets) ==
  IF \E p \in packets : p.rule = rule THEN "SEARCH_SUPPORTED"
  ELSE IF QueriesOf(rule, Len(Plan)) = {} THEN "NOT_PLANNED"
  ELSE IF QueriesOf(rule, Len(Plan)) \cap Executed(pages) = {} THEN "NOT_EXECUTED"
  ELSE "EVIDENCE_INSUFFICIENT"

Feedback(pages, attempts, hits, passages, cards, packets, allocations) ==
  LET Row(queries) ==
        Yield(queries, attempts, hits, passages, cards, packets, allocations)
  IN  [queries |-> [q \in QueryIds |-> Row({q})],
       tags |-> [t \in Tags |-> Row({q \in QueryIds : t \in Plan[q].tags})],
       rules |-> [r \in Rules |->
         [standing |-> RuleStanding(r, pages, packets),
          missing |-> Rule[r].required \ SupportTags(CardsOf(cards, r))]]]
=============================================================================
