-------------------------- MODULE InspirationProofs --------------------------
(***************************************************************************)
(* What an inspiration run promises, proved for every plan, provider,      *)
(* network and budget.                                                     *)
(***************************************************************************)
EXTENDS InspirationSafety, ListingFacts

(***************************************************************************)
(* The plan and the hits.                                                  *)
(***************************************************************************)

\* A prefix is the beginning of its sequence.
LEMMA PrefixFacts ==
  ASSUME NEW S, NEW s \in Seq(S), NEW n \in Nat
  PROVE  /\ Prefix(s, n) \in Seq(S)
         /\ Len(Prefix(s, n)) = IF Len(s) <= n THEN Len(s) ELSE n
         /\ \A i \in DOMAIN Prefix(s, n) : i \in DOMAIN s /\ Prefix(s, n)[i] = s[i]
<1>1. CASE Len(s) <= n
  BY <1>1 DEF Prefix
<1>2. CASE ~(Len(s) <= n)
  <2>1. Prefix(s, n) = SubSeq(s, 1, n)
    BY <1>2 DEF Prefix
  <2>2. Len(s) \in Nat /\ n < Len(s) /\ DOMAIN s = 1 .. Len(s)
    BY <1>2
  <2>3. /\ SubSeq(s, 1, n) \in Seq(S) /\ Len(SubSeq(s, 1, n)) = n
        /\ \A i \in 1 .. n : SubSeq(s, 1, n)[i] = s[i]
    BY <2>2
  <2>4. DOMAIN SubSeq(s, 1, n) = 1 .. n
    BY <2>3
  <2> QED BY <1>2, <2>1, <2>2, <2>3, <2>4
<1> QED BY <1>1, <1>2

\* The elements of a sequence of S are in S.
LEMMA ToSetType ==
  ASSUME NEW S, NEW s \in Seq(S)
  PROVE  ToSet(s) = {s[i] : i \in 1 .. Len(s)} /\ ToSet(s) \subseteq S
<1>1. DOMAIN s = 1 .. Len(s) /\ \A i \in 1 .. Len(s) : s[i] \in S
  OBVIOUS
<1> QED BY <1>1 DEF ToSet

\* A sequence of elements of S is one of elements of a larger set.
LEMMA SeqSubset ==
  ASSUME NEW S, NEW T, S \subseteq T, NEW s \in Seq(S)
  PROVE  s \in Seq(T)
<1> DEFINE N == Len(s)
<1>1. N \in Nat /\ s \in [1 .. N -> S]
  OBVIOUS
<1> HIDE DEF N
<1>2. s \in [1 .. N -> T]
  BY <1>1
<1> QED BY <1>1, <1>2

\* What is asked of a budget.
LEMMA Budgets ==
  \A field \in {"direct", "bridge", "counter", "queries", "hits", "documents",
                "perHit", "passages", "vectors", "packets"} : Budget[field] \in Nat
  BY EvidenceAssumption

PlannedQueries == [kind : {"DIRECT", "BRIDGE", "COUNTER"}, rule : Rules \cup {0},
                   tags : SUBSET Tags]

\* Direct queries are for no rule, all others for one.
LEMMA PlanFacts ==
  /\ Plan \in Seq(PlannedQueries) /\ Len(Plan) \in Nat /\ QueryIds = 1 .. Len(Plan)
  /\ \A q \in QueryIds : Plan[q].kind = "DIRECT" <=> Plan[q].rule = 0
<1> DEFINE Good == {x \in PlannedQueries : x.kind = "DIRECT" <=> x.rule = 0}
           Direct == IF Budget["direct"] = 0 THEN <<>> ELSE <<Query("DIRECT", 0, Targets)>>
           Of(kind, rules) ==
             [i \in DOMAIN rules |-> Query(kind, rules[i], Rule[rules[i]].suggested)]
<1>1. MatchingRules \in Seq(Rules)
  <2> DEFINE S == {r \in Rules : Rule[r].targets \cap Targets # {}}
  <2>1. S \in SUBSET Nat /\ IsFiniteSet(S) /\ S \subseteq Rules
    BY EvidenceAssumption, FS_Subset
  <2>2. MatchingRules = Ascending(S)
    BY DEF MatchingRules
  <2> HIDE DEF S
  <2>3. Ascending(S) \in Seq(S)
    BY <2>1, AscendingFacts
  <2>4. Ascending(S) \in Seq(Rules)
    BY <2>1, <2>3, SeqSubset
  <2> QED BY <2>2, <2>4
<1>2. SelectedRules \in Seq(Rules)
  BY <1>1, Budgets, PrefixFacts DEF SelectedRules
<1>3. Prefix(SelectedRules, Budget["counter"]) \in Seq(Rules)
  BY <1>2, Budgets, PrefixFacts
<1>4. Direct \in Seq(Good)
  <2>1. Query("DIRECT", 0, Targets) \in Good
    BY EvidenceAssumption DEF Query, PlannedQueries
  <2> HIDE DEF Good
  <2> QED BY <2>1
<1>5. ASSUME NEW kind \in {"BRIDGE", "COUNTER"}, NEW rules \in Seq(Rules)
      PROVE  Of(kind, rules) \in Seq(Good)
  <2>1. ASSUME NEW i \in DOMAIN rules
        PROVE  Query(kind, rules[i], Rule[rules[i]].suggested) \in Good
    <3>1. rules[i] \in Rules
      OBVIOUS
    <3>2. rules[i] # 0 /\ Rule[rules[i]].suggested \subseteq Tags
      BY <3>1, EvidenceAssumption
    <3> QED BY <3>1, <3>2 DEF Query, PlannedQueries
  <2>2. DOMAIN rules = 1 .. Len(rules) /\ Len(rules) \in Nat
    OBVIOUS
  <2>3. Of(kind, rules) \in [1 .. Len(rules) -> Good]
    <3> HIDE DEF Good
    <3> QED BY <2>1, <2>2
  <2> HIDE DEF Good, Of
  <2> QED BY <2>2, <2>3
<1> DEFINE All == Direct \o Of("BRIDGE", SelectedRules)
                    \o Of("COUNTER", Prefix(SelectedRules, Budget["counter"]))
<1>6. All \in Seq(Good)
  <2>1. Of("BRIDGE", SelectedRules) \in Seq(Good)
    <3> HIDE DEF Of, Good
    <3> QED BY <1>2, <1>5
  <2>2. Of("COUNTER", Prefix(SelectedRules, Budget["counter"])) \in Seq(Good)
    <3> HIDE DEF Of, Good
    <3> QED BY <1>3, <1>5
  <2> HIDE DEF Of, Good, Direct
  <2> QED BY <1>4, <2>1, <2>2
<1>7. Plan = Prefix(All, Budget["queries"])
  BY DEF Plan
<1> HIDE DEF All
<1>8. Plan \in Seq(Good)
  <2> HIDE DEF Good
  <2> QED BY <1>6, <1>7, Budgets, PrefixFacts
<1>9. Plan \in Seq(PlannedQueries) /\ Len(Plan) \in Nat /\ DOMAIN Plan = 1 .. Len(Plan)
  BY <1>8
<1>10. \A q \in DOMAIN Plan : Plan[q] \in Good
  <2> HIDE DEF Good
  <2> QED BY <1>8
<1> QED BY <1>9, <1>10 DEF QueryIds

Pages == {p \in Seq(Seq(Records)) : Len(p) <= Len(Plan)}
HitRecords == [query : QueryIds, rank : Nat, record : Records]

\* Hits are of queries that were executed.
LEMMA HitsFacts ==
  ASSUME NEW p \in Pages
  PROVE  /\ HitsOf(p) \in Seq(HitRecords)
         /\ Len(HitsOf(p)) <= Budget["hits"]
         /\ \A h \in ToSet(HitsOf(p)) :
              /\ h \in HitRecords /\ h.query \in 1 .. Len(p)
              /\ h.rank \in 1 .. Len(p[h.query]) /\ p[h.query][h.rank] = h.record
<1> DEFINE Good == {h \in HitRecords :
                      /\ h.query \in 1 .. Len(p) /\ h.rank \in 1 .. Len(p[h.query])
                      /\ p[h.query][h.rank] = h.record}
           rows == [q \in DOMAIN p |-> [i \in DOMAIN p[q] |-> Hit(q, i, p[q][i])]]
<1>1. p \in Seq(Seq(Records)) /\ Len(p) \in Nat /\ Len(p) <= Len(Plan) /\ DOMAIN p = 1 .. Len(p)
  BY DEF Pages
<1>2. ASSUME NEW q \in 1 .. Len(p)
      PROVE  [i \in DOMAIN p[q] |-> Hit(q, i, p[q][i])] \in Seq(Good)
  <2>1. p[q] \in Seq(Records) /\ Len(p[q]) \in Nat /\ DOMAIN p[q] = 1 .. Len(p[q])
    BY <1>1
  <2>2. q \in QueryIds
    BY <1>1, PlanFacts
  <2>3. ASSUME NEW i \in 1 .. Len(p[q]) PROVE Hit(q, i, p[q][i]) \in Good
    BY <2>1, <2>2 DEF Hit, HitRecords
  <2> HIDE DEF Good
  <2>4. [i \in DOMAIN p[q] |-> Hit(q, i, p[q][i])] \in [1 .. Len(p[q]) -> Good]
    BY <2>1, <2>3
  <2> QED BY <2>1, <2>4
<1>3. rows \in Seq(Seq(Good))
  <2> DEFINE N == Len(p)
  <2>1. rows \in [1 .. N -> Seq(Good)] /\ N \in Nat
    <3> HIDE DEF Good
    <3> QED BY <1>1, <1>2
  <2> HIDE DEF Good, rows, N
  <2> QED BY <2>1
<1>4. FlattenSeq(rows) \in Seq(Good)
  <2> HIDE DEF Good, rows
  <2> QED BY <1>3, FlattenType
<1>5. HitsOf(p) = Prefix(FlattenSeq(rows), Budget["hits"])
  BY DEF HitsOf
<1> HIDE DEF rows
<1>6. HitsOf(p) \in Seq(Good) /\ Len(HitsOf(p)) <= Budget["hits"]
  <2> HIDE DEF Good
  <2>1. Budget["hits"] \in Nat
    BY Budgets
  <2>2. FlattenSeq(rows) \in Seq(Good) => Len(FlattenSeq(rows)) \in Nat
    OBVIOUS
  <2> QED BY <1>4, <1>5, <2>1, <2>2, PrefixFacts
<1>7. HitsOf(p) \in Seq(HitRecords)
  BY <1>6
<1>8. ToSet(HitsOf(p)) \subseteq Good
  <2> HIDE DEF Good
  <2> QED BY <1>6, ToSetType
<1> QED BY <1>6, <1>7, <1>8

\* The documents found are finitely many numbers, each found by some query.
LEMMA DocumentsFacts ==
  ASSUME NEW hits \in Seq(HitRecords)
  PROVE  /\ DocumentsOf(hits) \subseteq Documents /\ DocumentsOf(hits) \subseteq Nat
         /\ IsFiniteSet(DocumentsOf(hits)) /\ IsFiniteSet(ToSet(hits))
         /\ \A d \in DocumentsOf(hits) : MemberQueries(hits, d) \in (SUBSET QueryIds) \ {{}}
<1>1. ToSet(hits) \subseteq HitRecords /\ ToSet(hits) = {hits[i] : i \in 1 .. Len(hits)}
      /\ Len(hits) \in Nat /\ DOMAIN hits = 1 .. Len(hits)
  BY ToSetType
<1>2. ASSUME NEW h \in ToSet(hits)
      PROVE  Listed(h) \in Documents /\ Listed(h) \in Nat /\ h.query \in QueryIds
  <2>1. h.record \in Records /\ h.query \in QueryIds
    BY <1>1 DEF HitRecords
  <2> QED BY <2>1, EvidenceAssumption DEF Listed, Documents
<1>3. DocumentsOf(hits) \subseteq Documents /\ DocumentsOf(hits) \subseteq Nat
  BY <1>2 DEF DocumentsOf
<1>4. IsFiniteSet(ToSet(hits))
  BY <1>1, IntervalFacts, FiniteImage
<1>5. IsFiniteSet(DocumentsOf(hits))
  <2> DEFINE listed == [h \in ToSet(hits) |-> Listed(h)]
  <2>1. DocumentsOf(hits) = {listed[h] : h \in ToSet(hits)} /\ DOMAIN listed = ToSet(hits)
    BY DEF DocumentsOf
  <2> HIDE DEF listed
  <2> QED BY <1>4, <2>1, FiniteImage
<1>6. ASSUME NEW d \in DocumentsOf(hits)
      PROVE  MemberQueries(hits, d) \in (SUBSET QueryIds) \ {{}}
  BY <1>2 DEF DocumentsOf, MemberQueries, Members
<1> QED BY <1>3, <1>4, <1>5, <1>6

(***************************************************************************)
(* The logs.                                                               *)
(***************************************************************************)

\* One summand more, or one that is there already.
LEMMA SumWithOneMore ==
  ASSUME NEW A, IsFiniteSet(A), NEW x, NEW w \in [A -> Nat], NEW v \in [A \cup {x} -> Nat],
         \A a \in A : v[a] = w[a]
  PROVE  /\ SumFunction(w) \in Nat /\ SumFunction(v) \in Nat
         /\ SumFunction(v) <= SumFunction(w) + v[x]
<1>1. IsFiniteSet(A \cup {x})
  BY FS_AddElement
<1>2. SumFunction(w) = Total(w, A) /\ Total(w, A) \in Nat
  BY SumTotal, TotalFacts
<1>3. SumFunction(v) = Total(v, A \cup {x}) /\ Total(v, A \cup {x}) \in Nat
  BY <1>1, SumTotal, TotalFacts
<1>4. Total(v, A) = Total(w, A)
  <2>1. Units(v, A) = Units(w, A)
    BY DEF Units
  <2> QED BY <2>1 DEF Total
<1>5. CASE x \in A
  <2>1. A \cup {x} = A /\ v[x] \in Nat
    BY <1>5
  <2> QED BY <1>2, <1>3, <1>4, <2>1
<1>6. CASE x \notin A
  <2>1. (A \cup {x}) \ {x} = A /\ x \in A \cup {x} /\ v[x] \in Nat
    BY <1>6
  <2> DEFINE B == A \cup {x}
  <2>2. x \in B /\ IsFiniteSet(B) /\ \A a \in B : v[a] \in Nat
    BY <1>1
  <2>3. B \ {x} = A
    BY <2>1
  <2>4. Total(v, B) = v[x] + Total(v, B \ {x})
    <3> HIDE DEF B
    <3> QED BY <2>2, TotalFacts
  <2>5. Total(v, A \cup {x}) = v[x] + Total(v, A)
    BY <2>3, <2>4
  <2> HIDE DEF B
  <2> QED BY <1>2, <1>3, <1>4, <2>1, <2>5
<1> QED BY <1>5, <1>6

Allocations == [doc : Documents, requests : Nat \ {0}, bytes : Nat,
                queries : (SUBSET QueryIds) \ {{}}]
SearchAttempts == [query : QueryIds, number : Nat, ok : BOOLEAN]

\* What has been recorded is a number.
LEMMA RecordedFacts ==
  ASSUME InspirationInv
  PROVE  /\ RecordedRequests \in Nat /\ RecordedBytes \in Nat
         /\ fetches \subseteq Allocations /\ IsFiniteSet(fetches)
<1> DEFINE requests == [a \in fetches |-> a.requests]
           bytes == [a \in fetches |-> a.bytes]
<1>1. fetches \subseteq Allocations /\ IsFiniteSet(fetches)
  BY DEF InspirationInv, FetchesCharged, Allocations
<1>2. requests \in [fetches -> Nat] /\ bytes \in [fetches -> Nat]
  BY <1>1 DEF Allocations
<1>3. RecordedRequests = SumFunction(requests) /\ RecordedBytes = SumFunction(bytes)
  BY DEF RecordedRequests, RecordedBytes
<1> HIDE DEF requests, bytes
<1> QED BY <1>1, <1>2, <1>3, SumWithOneMore, SumTotal, TotalFacts

\* The hits of the run and the documents they lead to.
LEMMA GroupsFacts ==
  ASSUME InspirationInv
  PROVE  /\ pages \in Pages /\ Hits \in Seq(HitRecords)
         /\ DocumentsOf(Hits) \subseteq Nat /\ IsFiniteSet(DocumentsOf(Hits))
         /\ Groups \in Seq(DocumentsOf(Hits)) /\ Len(Groups) \in Nat
         /\ Len(Groups) = Cardinality(DocumentsOf(Hits))
         /\ \A d \in DocumentsOf(Hits) : \E n \in 1 .. Len(Groups) : Groups[n] = d
         /\ \A i \in DOMAIN Groups :
              Groups[i] \in Documents
                /\ MemberQueries(Hits, Groups[i]) \in (SUBSET QueryIds) \ {{}}
<1>1. pages \in Pages
  BY DEF InspirationInv, RunHolds, Pages
<1>2. Hits \in Seq(HitRecords)
  BY <1>1, HitsFacts DEF Hits
<1>3. /\ DocumentsOf(Hits) \subseteq Nat /\ IsFiniteSet(DocumentsOf(Hits))
      /\ \A d \in DocumentsOf(Hits) :
           d \in Documents /\ MemberQueries(Hits, d) \in (SUBSET QueryIds) \ {{}}
  BY <1>2, DocumentsFacts
<1>4. /\ Cardinality(DocumentsOf(Hits)) \in Nat
      /\ Len(Groups) = Cardinality(DocumentsOf(Hits))
      /\ Groups \in Seq(DocumentsOf(Hits))
      /\ \A d \in DocumentsOf(Hits) :
           \E n \in 1 .. Cardinality(DocumentsOf(Hits)) : Groups[n] = d
  BY <1>3, AscendingFacts DEF Groups
<1>5. \A i \in DOMAIN Groups : Groups[i] \in DocumentsOf(Hits)
  BY <1>4
<1> QED BY <1>1, <1>2, <1>3, <1>4, <1>5

\* The search attempts of query q that were answered.
Answered(log, q) == {i \in DOMAIN log : log[i].query = q /\ log[i].ok}

\* All attempts of a query are for it, and the last one is the answer if there is
\* one.
LEMMA AttemptsFacts ==
  ASSUME NEW q \in QueryIds, NEW n \in Nat
  PROVE  /\ Attempts(q, n, TRUE) \in Seq(SearchAttempts) /\ Len(Attempts(q, n, TRUE)) = n
         /\ Attempts(q, n, FALSE) \in Seq(SearchAttempts) /\ Len(Attempts(q, n, FALSE)) = n
         /\ \A i \in 1 .. n : Attempts(q, n, TRUE)[i].query = q
                                /\ Attempts(q, n, FALSE)[i].query = q
         /\ n > 0 => Answered(Attempts(q, n, TRUE), q) = {n}
<1> DEFINE yes == [i \in 1 .. n |-> [query |-> q, number |-> i, ok |-> TRUE /\ i = n]]
           no == [i \in 1 .. n |-> [query |-> q, number |-> i, ok |-> FALSE /\ i = n]]
<1>2. Attempts(q, n, TRUE) = yes /\ Attempts(q, n, FALSE) = no
  BY DEF Attempts
<1>3. ASSUME NEW i \in 1 .. n
      PROVE  /\ yes[i] \in SearchAttempts /\ no[i] \in SearchAttempts
             /\ yes[i].query = q /\ no[i].query = q /\ (yes[i].ok <=> i = n)
  <2>1. CASE i = n
    <3>1. /\ yes[i] = [query |-> q, number |-> i, ok |-> TRUE]
          /\ no[i] = [query |-> q, number |-> i, ok |-> FALSE]
      BY <2>1
    <3> HIDE DEF yes, no
    <3>2. yes[i] \in SearchAttempts /\ no[i] \in SearchAttempts
      BY <3>1 DEF SearchAttempts
    <3>3. yes[i].query = q /\ no[i].query = q /\ yes[i].ok = TRUE
      BY <3>1
    <3> QED BY <2>1, <3>2, <3>3
  <2>2. CASE i # n
    <3>1. /\ yes[i] = [query |-> q, number |-> i, ok |-> FALSE]
          /\ no[i] = [query |-> q, number |-> i, ok |-> FALSE]
      BY <2>2
    <3> HIDE DEF yes, no
    <3>2. yes[i] \in SearchAttempts /\ no[i] \in SearchAttempts
      BY <3>1 DEF SearchAttempts
    <3>3. yes[i].query = q /\ no[i].query = q /\ yes[i].ok = FALSE
      BY <3>1
    <3> QED BY <2>2, <3>2, <3>3
  <2> QED BY <2>1, <2>2
<1>4. DOMAIN yes = 1 .. n /\ DOMAIN no = 1 .. n
  OBVIOUS
<1>5. yes \in [1 .. n -> SearchAttempts] /\ no \in [1 .. n -> SearchAttempts]
  <2>1. yes = [i \in 1 .. n |-> yes[i]] /\ no = [i \in 1 .. n |-> no[i]]
    OBVIOUS
  <2> HIDE DEF yes, no
  <2> QED BY <1>3, <2>1
<1> HIDE DEF yes, no
<1>6. yes \in Seq(SearchAttempts) /\ Len(yes) = n /\ no \in Seq(SearchAttempts) /\ Len(no) = n
  BY <1>5
<1>7. n > 0 => Answered(yes, q) = {n}
  BY <1>3, <1>4 DEF Answered
<1> QED BY <1>2, <1>3, <1>6, <1>7

\* The attempts of a query are appended in one go.
LEMMA AttemptsAreLogged ==
  ASSUME NEW log \in Seq(SearchAttempts), NEW more \in Seq(SearchAttempts),
         NEW q \in QueryIds, \A i \in DOMAIN log : log[i].query < q,
         \A i \in 1 .. Len(more) : more[i].query = q
  PROVE  LET new == log \o more
         IN  /\ new \in Seq(SearchAttempts) /\ Len(new) = Len(log) + Len(more)
             /\ \A i \in DOMAIN new : new[i].query <= q
             /\ \A p \in QueryIds \ {q} : Answered(new, p) = Answered(log, p)
             /\ Answered(more, q) = {Len(more)} => Cardinality(Answered(new, q)) = 1
<1> DEFINE new == log \o more
<1>1. /\ new \in Seq(SearchAttempts) /\ Len(new) = Len(log) + Len(more) /\ Len(log) \in Nat
      /\ Len(more) \in Nat /\ DOMAIN more = 1 .. Len(more)
      /\ DOMAIN log = 1 .. Len(log) /\ DOMAIN new = 1 .. Len(log) + Len(more)
      /\ \A i \in 1 .. Len(log) : new[i] = log[i]
      /\ \A i \in Len(log) + 1 .. Len(log) + Len(more) : new[i] = more[i - Len(log)]
  OBVIOUS
<1> HIDE DEF new
<1>2. QueryIds \subseteq Nat /\ \A i \in 1 .. Len(log) : log[i].query \in Nat
  <2>1. QueryIds \subseteq Nat
    BY PlanFacts
  <2>2. \A i \in 1 .. Len(log) : log[i] \in SearchAttempts
    BY <1>1
  <2> QED BY <2>1, <2>2 DEF SearchAttempts
<1>3. ASSUME NEW i \in DOMAIN new
      PROVE  \/ i \in DOMAIN log /\ new[i] = log[i] /\ new[i].query # q
             \/ /\ i - Len(log) \in 1 .. Len(more) /\ new[i] = more[i - Len(log)]
                /\ new[i].query = q
  <2>1. CASE i <= Len(log)
    <3>1. i \in 1 .. Len(log) /\ log[i].query < q /\ log[i].query \in Nat /\ q \in Nat
      BY <1>1, <1>2, <2>1
    <3> QED BY <1>1, <3>1
  <2>2. CASE i > Len(log)
    <3>1. i - Len(log) \in 1 .. Len(more) /\ i \in Len(log) + 1 .. Len(log) + Len(more)
      BY <1>1, <2>2
    <3> QED BY <1>1, <3>1
  <2> QED BY <1>1, <2>1, <2>2
<1>4. \A i \in DOMAIN new : new[i].query <= q
  BY <1>1, <1>2, <1>3
<1>5. ASSUME NEW p \in QueryIds, p # q PROVE Answered(new, p) = Answered(log, p)
  <2>1. ASSUME NEW i \in Answered(new, p) PROVE i \in Answered(log, p)
    BY <1>3, <1>5 DEF Answered
  <2>2. ASSUME NEW i \in Answered(log, p) PROVE i \in Answered(new, p)
    BY <1>1 DEF Answered
  <2> QED BY <2>1, <2>2
<1>6. ASSUME Answered(more, q) = {Len(more)}
      PROVE  Cardinality(Answered(new, q)) = 1
  <2> DEFINE n == Len(more)
             last == Len(log) + n
  <2>0. n \in Answered(more, q) /\ n \in DOMAIN more
    BY <1>6 DEF Answered
  <2>1. last \in DOMAIN new /\ last - Len(log) = n /\ last \notin DOMAIN log
    BY <1>1, <2>0
  <2>3. last \in Answered(new, q)
    BY <1>3, <2>0, <2>1 DEF Answered
  <2>4. ASSUME NEW i \in Answered(new, q) PROVE i = last
    <3>1. i - Len(log) \in Answered(more, q) /\ i \in 1 .. Len(log) + Len(more)
      BY <1>1, <1>3 DEF Answered
    <3>2. i - Len(log) = n
      BY <1>6, <3>1
    <3> QED BY <1>1, <2>0, <3>1, <3>2
  <2>5. Answered(new, q) = {last}
    BY <2>3, <2>4
  <2> QED BY <2>5, FS_Singleton
<1> QED BY <1>1, <1>4, <1>5, <1>6 DEF new

(***************************************************************************)
(* Every step keeps the logs.                                              *)
(***************************************************************************)

\* A step that neither searches nor ends the run leaves the attempts as they are.
LEMMA SearchesUntouched ==
  ASSUME InspirationInv, UNCHANGED <<pages, searches, searching>>,
         sent'.search = sent.search, pc' # "done" => pc # "done"
  PROVE  SearchesLogged'
  BY DEF InspirationInv, SearchesLogged

\* A step outside a fetch leaves the allocations as they are.
LEMMA FetchesUntouched ==
  ASSUME InspirationInv, ~fetching.active,
         UNCHANGED <<fetching, fetches, max_requests>>, sent'.fetch = sent.fetch
  PROVE  FetchesCharged'
<1>1. RecordedRequests' = RecordedRequests /\ RecordedBytes' = RecordedBytes
  BY DEF RecordedRequests, RecordedBytes
<1> QED BY <1>1 DEF InspirationInv, FetchesCharged

\* Attempts of the current query are logged; they end the run or were answered.
LEMMA AttemptsLogged ==
  ASSUME InspirationInv, Searching,
         NEW more \in Seq(SearchAttempts), searches' = searches \o more,
         \A i \in 1 .. Len(more) : more[i].query = Current,
         searching' = NoSearch, sent'.search \in Nat,
         sent'.search + searching.attempts = sent.search + Len(more),
         \/ pages' = pages /\ pc' = "done"
         \/ /\ Len(more) > 0 /\ Answered(more, Current) = {Len(more)}
            /\ Len(pages') = Current
  PROVE  SearchesLogged' /\ searches' \in Seq(SearchAttempts)
<1>1. /\ searches \in Seq(SearchAttempts) /\ Len(pages) \in Nat /\ Len(pages) <= Len(Plan)
      /\ searching.attempts \in Nat /\ sent.search \in Nat /\ Len(more) \in Nat
  BY DEF InspirationInv, RunHolds, SearchAttempts
<1>2. Current \in QueryIds /\ Current = Len(pages) + 1 /\ QueryIds = 1 .. Len(Plan)
      /\ Len(Plan) \in Nat
  BY <1>1, PlanFacts DEF Searching, Current
<1>3. \A i \in DOMAIN searches : searches[i].query < Current
  <2>1. pc # "done"
    BY DEF Searching
  <2>2. ASSUME NEW i \in DOMAIN searches PROVE searches[i].query \in Nat
    <3>1. searches[i] \in SearchAttempts
      BY <1>1
    <3> QED BY <3>1, <1>2 DEF SearchAttempts
  <2> QED BY <1>1, <1>2, <2>1, <2>2 DEF InspirationInv, SearchesLogged
<1>4. /\ searches' \in Seq(SearchAttempts) /\ Len(searches') = Len(searches) + Len(more)
      /\ \A i \in DOMAIN searches' : searches'[i].query <= Current
      /\ \A p \in QueryIds \ {Current} : Answered(searches', p) = Answered(searches, p)
      /\ Answered(more, Current) = {Len(more)} => Cardinality(Answered(searches', Current)) = 1
  <2> DEFINE q == Current
  <2>1. /\ q \in QueryIds /\ \A i \in DOMAIN searches : searches[i].query < q
        /\ \A i \in 1 .. Len(more) : more[i].query = q
    BY <1>2, <1>3
  <2> HIDE DEF q
  <2> DEFINE new == searches \o more
  <2>2. /\ new \in Seq(SearchAttempts) /\ Len(new) = Len(searches) + Len(more)
        /\ \A i \in DOMAIN new : new[i].query <= q
        /\ \A p \in QueryIds \ {q} : Answered(new, p) = Answered(searches, p)
        /\ Answered(more, q) = {Len(more)} => Cardinality(Answered(new, q)) = 1
    <3> HIDE DEF new
    <3>1. searches \in Seq(SearchAttempts) /\ more \in Seq(SearchAttempts)
      BY <1>1
    <3>2. /\ searches \o more \in Seq(SearchAttempts)
          /\ Len(searches \o more) = Len(searches) + Len(more)
      BY <2>1, <3>1, AttemptsAreLogged
    <3>3. \A i \in DOMAIN (searches \o more) : (searches \o more)[i].query <= q
      BY <2>1, <3>1, AttemptsAreLogged
    <3>4. \A p \in QueryIds \ {q} : Answered(searches \o more, p) = Answered(searches, p)
      BY <2>1, <3>1, AttemptsAreLogged
    <3>5. Answered(more, q) = {Len(more)}
            => Cardinality(Answered(searches \o more, q)) = 1
      BY <2>1, <3>1, AttemptsAreLogged
    <3> QED BY <3>2, <3>3, <3>4, <3>5 DEF new
  <2>3. searches' = new
    OBVIOUS
  <2> HIDE DEF new
  <2> QED BY <2>2, <2>3 DEF q
<1>5. Len(searches) \in Nat /\ Len(searches) + searching.attempts = sent.search
  BY <1>1 DEF InspirationInv, SearchesLogged
<1>6. \A q \in 1 .. Len(pages) : Cardinality(Answered(searches, q)) = 1
  BY DEF InspirationInv, SearchesLogged, Answered
<1>7. Len(searches') + searching'.attempts = sent'.search
  <2>1. searching'.attempts = 0
    BY DEF NoSearch
  <2>2. sent.search \in Nat /\ sent'.search \in Nat
        /\ sent'.search + searching.attempts = sent.search + Len(more)
    BY <1>1
  <2>3. Len(searches') = Len(searches) + Len(more) /\ Len(more) \in Nat
    BY <1>1, <1>4
  <2>4. Len(searches) \in Nat /\ searching.attempts \in Nat
    BY <1>1, <1>5
  <2>5. Len(searches') = sent'.search
    <3>1. PICK logged \in Nat, made \in Nat, before \in Nat, after \in Nat, new \in Nat :
            /\ logged = Len(searches) /\ made = searching.attempts /\ before = sent.search
            /\ after = sent'.search /\ new = Len(more)
      BY <2>2, <2>3, <2>4
    <3>2. logged + made = before /\ after + made = before + new
      BY <1>5, <2>2, <3>1
    <3>3. logged + new = after
      BY <3>2
    <3>4. Len(searches') = logged + new
      BY <2>3, <3>1
    <3> QED BY <3>1, <3>3, <3>4
  <2>6. sent'.search + 0 = sent'.search
    BY <2>2
  <2> QED BY <2>1, <2>5, <2>6
<1>8. \A q \in 1 .. Len(pages) : Cardinality(Answered(searches', q)) = 1
  <2>1. ASSUME NEW q \in 1 .. Len(pages) PROVE q \in QueryIds /\ q # Current
    BY <1>1, <1>2
  <2> QED BY <1>4, <1>6, <2>1
<1>9. CASE pages' = pages /\ pc' = "done"
  <2>1. \A q \in 1 .. Len(pages') :
          Cardinality({i \in DOMAIN searches' : searches'[i].query = q /\ searches'[i].ok}) = 1
    BY <1>8, <1>9 DEF Answered
  <2> QED BY <1>4, <1>7, <1>9, <2>1 DEF SearchesLogged
<1>10. CASE /\ Len(more) > 0 /\ Answered(more, Current) = {Len(more)}
            /\ Len(pages') = Current
  <2>1. \A q \in 1 .. Len(pages') : Cardinality(Answered(searches', q)) = 1
    <3>1. \A q \in 1 .. Len(pages') : q \in 1 .. Len(pages) \/ q = Current
      BY <1>1, <1>2, <1>10
    <3>2. Cardinality(Answered(searches', Current)) = 1
      BY <1>4, <1>10
    <3> QED BY <1>8, <3>1, <3>2
  <2>2. \A q \in 1 .. Len(pages') :
          Cardinality({i \in DOMAIN searches' : searches'[i].query = q /\ searches'[i].ok}) = 1
    BY <2>1 DEF Answered
  <2> QED BY <1>4, <1>7, <1>10, <2>2 DEF SearchesLogged
<1> QED BY <1>9, <1>10

\* Searching: each request is counted when it goes out and logged with its query.
LEMMA SearchKeepsInv ==
  ASSUME InspirationInv, SearchNext
  PROVE  InspirationInv'
<1>1. /\ max_requests' = max_requests /\ group' = group /\ fetching' = fetching
      /\ fetches' = fetches /\ pc = "search"
  BY DEF SearchNext, SearchSucceeds, PageIsMalformed, SearchRetried, SearchFails,
         WaitBudgetExceeded, GroupDocuments, Calm, Troubled, Searching, Paced, FailSearch
<1>2. ~fetching.active
  BY <1>1 DEF InspirationInv, RunHolds, FetchesCharged
<1>3. /\ searching.attempts \in Nat /\ sent \in [search : Nat, fetch : Nat]
      /\ searches \in Seq(SearchAttempts) /\ pages \in Seq(Seq(Records))
      /\ Len(pages) \in Nat /\ Len(pages) <= Len(Plan) /\ result = Pending
  BY <1>1 DEF InspirationInv, RunHolds, SearchAttempts
<1>4. /\ pages' \in Seq(Seq(Records)) /\ Len(pages') <= Len(Plan)
      /\ searches' \in Seq(SearchAttempts) /\ searching'.attempts \in Nat
      /\ sent' \in [search : Nat, fetch : Nat] /\ sent'.fetch = sent.fetch
      /\ pc' # "done" => result' = Pending
      /\ SearchesLogged'
  <2>1. ASSUME NEW delay, Paced(delay)
        PROVE  /\ Searching /\ sent' \in [search : Nat, fetch : Nat]
               /\ sent'.search = sent.search + 1 /\ sent'.fetch = sent.fetch
               /\ searching.attempts + 1 \in Nat /\ searching.attempts + 1 > 0
               /\ sent'.search + searching.attempts = sent.search + (searching.attempts + 1)
    <3>1. Searching /\ sent' = [sent EXCEPT !.search = @ + 1]
      BY <2>1 DEF Paced
    <3>2. sent.search \in Nat /\ sent.fetch \in Nat /\ sent' \in [search : Nat, fetch : Nat]
          /\ sent'.search = sent.search + 1 /\ sent'.fetch = sent.fetch
      BY <1>3, <3>1
    <3>3. /\ searching.attempts \in Nat /\ searching.attempts + 1 \in Nat
          /\ searching.attempts + 1 > 0
      BY <1>3
    <3>4. sent'.search + searching.attempts = sent.search + (searching.attempts + 1)
      BY <3>2, <3>3
    <3> QED BY <3>1, <3>2, <3>3, <3>4
  <2> DEFINE n == searching.attempts + 1
             answered == Attempts(Current, n, TRUE)
             failed == Attempts(Current, n, FALSE)
             waited == Attempts(Current, searching.attempts, FALSE)
  <2>8. ASSUME Searching
        PROVE  /\ answered \in Seq(SearchAttempts) /\ failed \in Seq(SearchAttempts)
               /\ waited \in Seq(SearchAttempts) /\ Len(waited) = searching.attempts
               /\ Len(answered) = n /\ Len(failed) = n /\ n \in Nat /\ n > 0
               /\ \A i \in 1 .. n : answered[i].query = Current /\ failed[i].query = Current
               /\ \A i \in 1 .. searching.attempts : waited[i].query = Current
               /\ Answered(answered, Current) = {n}
    <3>1. Current \in QueryIds
      BY <1>3, <2>8, PlanFacts DEF Searching, Current
    <3>2. n \in Nat /\ n > 0 /\ searching.attempts \in Nat
      BY <1>3
    <3> HIDE DEF n
    <3>3. /\ answered \in Seq(SearchAttempts) /\ failed \in Seq(SearchAttempts)
          /\ Len(answered) = n /\ Len(failed) = n
          /\ \A i \in 1 .. n : answered[i].query = Current /\ failed[i].query = Current
          /\ Answered(answered, Current) = {n}
      BY ONLY <3>1, <3>2, AttemptsFacts
    <3>4. \A k \in Nat : /\ Attempts(Current, k, FALSE) \in Seq(SearchAttempts)
                          /\ Len(Attempts(Current, k, FALSE)) = k
                          /\ \A i \in 1 .. k : Attempts(Current, k, FALSE)[i].query = Current
      <4> TAKE k \in Nat
      <4> QED BY ONLY <3>1, AttemptsFacts
    <3>5. /\ waited \in Seq(SearchAttempts) /\ Len(waited) = searching.attempts
          /\ \A i \in 1 .. searching.attempts : waited[i].query = Current
      BY ONLY <3>2, <3>4
    <3> QED BY <3>2, <3>3, <3>5
  <2>2. CASE SearchSucceeds
    <3>1. PICK delay : Paced(delay)
      BY <2>2 DEF SearchSucceeds
    <3>2. PICK page \in Answers[Current] : pages' = Append(pages, page)
      BY <2>2 DEF SearchSucceeds
    <3>3. Current \in QueryIds /\ Current = Len(pages) + 1 /\ Current <= Len(Plan)
      BY <1>3, <2>1, <3>1, PlanFacts DEF Searching, Current
    <3>4. page \in Seq(Records)
      BY <3>3, RunAssumption
    <3>5. pages' \in Seq(Seq(Records)) /\ Len(pages') = Current
      BY <1>3, <3>2, <3>3, <3>4
    <3>6. /\ searches' = searches \o Attempts(Current, searching.attempts + 1, TRUE)
          /\ searching' = NoSearch /\ pc' = pc /\ result' = result
      BY <2>2 DEF SearchSucceeds
    <3>7. SearchesLogged' /\ searches' \in Seq(SearchAttempts)
      BY <1>3, <2>1, <2>8, <3>1, <3>5, <3>6, AttemptsLogged
    <3> QED BY <1>3, <2>1, <3>1, <3>3, <3>5, <3>6, <3>7 DEF NoSearch
  <2>3. CASE PageIsMalformed
    <3>1. PICK delay : Paced(delay)
      BY <2>3 DEF PageIsMalformed
    <3>2. /\ searches' = searches \o Attempts(Current, searching.attempts + 1, TRUE)
          /\ searching' = NoSearch /\ pages' = pages /\ pc' = "done"
      BY <2>3 DEF PageIsMalformed, Raise
    <3>3. SearchesLogged' /\ searches' \in Seq(SearchAttempts)
      BY <1>3, <2>1, <2>8, <3>1, <3>2, AttemptsLogged
    <3> QED BY <1>3, <2>1, <3>1, <3>2, <3>3 DEF NoSearch
  <2>4. CASE SearchRetried
    <3>1. PICK delay \in Pacing \cup {0}, pause \in SearchPauses :
            /\ Paced(delay)
            /\ searching' = [attempts |-> searching.attempts + 1,
                             waited |-> searching.waited + delay + pause]
            /\ UNCHANGED <<pc, pages, searches, result>>
      BY <2>4 DEF SearchRetried
    <3>2. searching'.attempts = searching.attempts + 1
      BY <3>1
    <3>3. SearchesLogged'
      <4>1. Len(searches) \in Nat
        BY <1>3
      <4>2. Len(searches) + searching.attempts = sent.search
        BY DEF InspirationInv, SearchesLogged
      <4>3. sent'.search = sent.search + 1 /\ searching.attempts \in Nat /\ sent.search \in Nat
        BY <1>3, <2>1, <3>1
      <4>4. Len(searches) + (searching.attempts + 1) = sent'.search
        BY <4>1, <4>2, <4>3
      <4>5. Len(searches') + searching'.attempts = sent'.search
        BY <3>1, <3>2, <4>4
      <4> QED BY <3>1, <4>5 DEF InspirationInv, SearchesLogged
    <3> QED BY <1>3, <2>1, <3>1, <3>2, <3>3
  <2>5. CASE SearchFails
    <3>1. PICK delay : Paced(delay)
      BY <2>5 DEF SearchFails
    <3>2. /\ searches' = searches \o Attempts(Current, searching.attempts + 1, FALSE)
          /\ searching' = NoSearch /\ pages' = pages /\ pc' = "done"
      BY <2>5 DEF SearchFails, FailSearch, Raise
    <3>3. SearchesLogged' /\ searches' \in Seq(SearchAttempts)
      BY <1>3, <2>1, <2>8, <3>1, <3>2, AttemptsLogged
    <3> QED BY <1>3, <2>1, <3>1, <3>2, <3>3 DEF NoSearch
  <2>6. CASE WaitBudgetExceeded
    <3>1. /\ Searching /\ sent' = sent
          /\ searches' = searches \o Attempts(Current, searching.attempts, FALSE)
          /\ searching' = NoSearch /\ pages' = pages /\ pc' = "done"
      BY <2>6 DEF WaitBudgetExceeded, FailSearch, Raise
    <3>2. SearchesLogged' /\ searches' \in Seq(SearchAttempts)
      BY <1>3, <2>8, <3>1, AttemptsLogged
    <3> QED BY <1>3, <3>1, <3>2 DEF NoSearch
  <2>7. CASE GroupDocuments
    <3>1. UNCHANGED <<pages, searches, searching, sent>> /\ (pc' # "done" => result' = result)
      BY <2>7 DEF GroupDocuments, Raise
    <3>2. SearchesLogged'
      BY <1>1, <3>1, SearchesUntouched
    <3> QED BY <1>3, <3>1, <3>2
  <2> QED BY <2>2, <2>3, <2>4, <2>5, <2>6, <2>7 DEF SearchNext
<1>5. FetchesCharged'
  BY <1>1, <1>2, <1>4, FetchesUntouched
<1>6. RunHolds'
  BY <1>1, <1>4 DEF InspirationInv, RunHolds, SearchAttempts
<1> QED BY <1>4, <1>5, <1>6 DEF InspirationInv

\* One more allocation adds at most what it says.
LEMMA RecordedAdds ==
  ASSUME InspirationInv, NEW x \in Allocations, fetches' = fetches \cup {x}
  PROVE  /\ RecordedRequests' \in Nat /\ RecordedRequests' <= RecordedRequests + x.requests
         /\ RecordedBytes' \in Nat /\ RecordedBytes' <= RecordedBytes + x.bytes
<1>1. fetches \subseteq Allocations /\ IsFiniteSet(fetches)
  BY RecordedFacts
<1> DEFINE all == fetches \cup {x}
           r == [a \in fetches |-> a.requests]
           s == [a \in all |-> a.requests]
           b == [a \in fetches |-> a.bytes]
           c == [a \in all |-> a.bytes]
<1>2. /\ r \in [fetches -> Nat] /\ s \in [all -> Nat] /\ \A a \in fetches : s[a] = r[a]
      /\ b \in [fetches -> Nat] /\ c \in [all -> Nat] /\ \A a \in fetches : c[a] = b[a]
      /\ s[x] = x.requests /\ c[x] = x.bytes
  BY <1>1 DEF Allocations
<1>3. /\ RecordedRequests = SumFunction(r) /\ RecordedRequests' = SumFunction(s)
      /\ RecordedBytes = SumFunction(b) /\ RecordedBytes' = SumFunction(c)
  BY DEF RecordedRequests, RecordedBytes
<1> HIDE DEF r, s, b, c
<1>4. SumFunction(s) \in Nat /\ SumFunction(s) <= SumFunction(r) + s[x]
  BY ONLY <1>1, <1>2, SumWithOneMore DEF all
<1>5. SumFunction(c) \in Nat /\ SumFunction(c) <= SumFunction(b) + c[x]
  BY ONLY <1>1, <1>2, SumWithOneMore DEF all
<1> QED BY <1>2, <1>3, <1>4, <1>5

\* A fetch that ends is recorded within the budgets and charged to its document.
LEMMA EndOfFetchCharged ==
  ASSUME InspirationInv, Processing, NEW attempts \in Nat, NEW bytes \in Nat,
         Recorded(attempts, bytes), fetching' = NoFetch, max_requests' = max_requests,
         RecordedRequests + attempts <= max_requests, sent'.fetch \in Nat,
         RecordedRequests + attempts <= sent'.fetch, RecordedBytes + bytes <= MaxBytes + 1
  PROVE  FetchesCharged'
<1>1. /\ RecordedRequests \in Nat /\ RecordedBytes \in Nat /\ max_requests \in Nat
      /\ fetches \subseteq Allocations /\ IsFiniteSet(fetches)
  BY RecordedFacts DEF InspirationInv, RunHolds
<1>2. MaxBytes \in Nat /\ fetching'.active = FALSE /\ fetching'.attempts = 0
  BY RunAssumption DEF NoFetch
<1>3. /\ fetches' \subseteq Allocations /\ IsFiniteSet(fetches')
      /\ RecordedRequests' \in Nat /\ RecordedRequests' <= RecordedRequests + attempts
      /\ RecordedBytes' \in Nat /\ RecordedBytes' <= MaxBytes + 1
  <2>1. CASE attempts = 0
    <3>1. fetches' = fetches
      BY <2>1 DEF Recorded
    <3>2. RecordedRequests' = RecordedRequests /\ RecordedBytes' = RecordedBytes
      BY <3>1 DEF RecordedRequests, RecordedBytes
    <3>3. RecordedBytes <= MaxBytes + 1
      BY DEF InspirationInv, FetchesCharged
    <3> QED BY <1>1, <2>1, <3>1, <3>2, <3>3
  <2>2. CASE attempts # 0
    <3> DEFINE x == [doc |-> Document, requests |-> attempts, bytes |-> bytes,
                     queries |-> MemberQueries(Hits, Document)]
    <3>1. Document \in Documents /\ MemberQueries(Hits, Document) \in (SUBSET QueryIds) \ {{}}
      <4>1. group + 1 \in DOMAIN Groups
        BY GroupsFacts DEF Processing, InspirationInv, RunHolds
      <4> QED BY <4>1, GroupsFacts DEF Document
    <3>2. x \in Allocations /\ x.requests = attempts /\ x.bytes = bytes
      BY <2>2, <3>1 DEF Allocations
    <3>3. fetches' = fetches \cup {x}
      BY <2>2 DEF Recorded
    <3> HIDE DEF x
    <3>4. fetches' \subseteq Allocations /\ IsFiniteSet(fetches')
      BY <1>1, <3>2, <3>3, FS_AddElement
    <3>5. /\ RecordedRequests' \in Nat /\ RecordedRequests' <= RecordedRequests + attempts
          /\ RecordedBytes' \in Nat /\ RecordedBytes' <= RecordedBytes + bytes
      BY <3>2, <3>3, RecordedAdds
    <3>6. RecordedBytes' <= MaxBytes + 1
      BY <1>1, <1>2, <3>5
    <3> QED BY <3>4, <3>5, <3>6
  <2> QED BY <2>1, <2>2
<1>4. RecordedRequests' + 0 <= max_requests' /\ RecordedRequests' + 0 <= sent'.fetch
  <2>1. RecordedRequests' <= max_requests /\ RecordedRequests' <= sent'.fetch
    BY <1>1, <1>3
  <2>2. RecordedRequests' + 0 = RecordedRequests'
    <3>1. PICK n \in Nat : n = RecordedRequests'
      BY <1>3
    <3>2. n + 0 = n
      OBVIOUS
    <3> QED BY <3>1, <3>2
  <2> QED BY <2>1, <2>2
<1> QED BY <1>2, <1>3, <1>4 DEF FetchesCharged, Allocations

\* The fetcher raised: the run goes on to the next document, or it ends.
LEMMA FailedFetchKeepsInv ==
  ASSUME InspirationInv, Processing, NEW category, NEW attempts \in Nat, NEW bytes \in Nat,
         FetchFails(category, attempts, bytes), max_requests' = max_requests,
         sent' \in [search : Nat, fetch : Nat], sent'.search = sent.search,
         RecordedRequests + attempts <= max_requests,
         RecordedRequests + attempts <= sent'.fetch, RecordedBytes + bytes <= MaxBytes + 1
  PROVE  InspirationInv'
<1>1. /\ Recorded(attempts, bytes) /\ fetching' = NoFetch
      /\ group' \in {group, group + 1}
      /\ UNCHANGED <<pages, searching, searches>>
      /\ pc' = "done" \/ (pc' = pc /\ result' = result)
  BY DEF FetchFails, Settle, Raise
<1>2. pc # "done"
  BY DEF Processing
<1>3. FetchesCharged'
  BY <1>1, EndOfFetchCharged
<1>4. SearchesLogged'
  BY <1>1, <1>2, SearchesUntouched
<1>5. RunHolds'
  <2>1. fetching'.active \in BOOLEAN /\ fetching'.attempts \in Nat /\ fetching'.bytes \in Nat
        /\ DOMAIN fetching' = DOMAIN NoFetch
    BY <1>1 DEF NoFetch
  <2>2. group' \in Nat
    BY <1>1 DEF InspirationInv, RunHolds
  <2> QED BY <1>1, <1>2, <2>1, <2>2 DEF InspirationInv, RunHolds
<1> QED BY <1>3, <1>4, <1>5 DEF InspirationInv

\* What a fetch has used so far.
LEMMA FetchFacts ==
  ASSUME InspirationInv
  PROVE  /\ RecordedRequests \in Nat /\ RecordedBytes \in Nat /\ max_requests \in Nat
         /\ fetching.attempts \in Nat /\ fetching.bytes \in Nat
         /\ fetching.active \in BOOLEAN /\ DOMAIN fetching = DOMAIN NoFetch
         /\ sent \in [search : Nat, fetch : Nat] /\ sent.search \in Nat /\ sent.fetch \in Nat
         /\ RecordedRequests + fetching.attempts <= sent.fetch
         /\ RecordedRequests + fetching.attempts <= max_requests
         /\ RecordedBytes <= MaxBytes + 1
         /\ fetching.active => RecordedBytes + fetching.bytes <= MaxBytes
         /\ ~fetching.active => fetching = NoFetch
         /\ MaxBytes \in Nat /\ MaxResponse \in Nat /\ MaxResponse <= MaxBytes
  BY RecordedFacts, RunAssumption DEF InspirationInv, RunHolds, FetchesCharged

\* A request goes out within the budgets and may bring what is left of them.
LEMMA RequestFacts ==
  ASSUME InspirationInv, Request
  PROVE  /\ Processing /\ fetching.active /\ fetching.attempts + 1 \in Nat
         /\ sent' \in [search : Nat, fetch : Nat] /\ sent'.search = sent.search
         /\ sent'.fetch \in Nat
         /\ RecordedRequests + (fetching.attempts + 1) <= max_requests
         /\ RecordedRequests + (fetching.attempts + 1) <= sent'.fetch
         /\ Cap \in Nat /\ RecordedBytes + (fetching.bytes + Cap) <= MaxBytes
<1>1. sent' = [sent EXCEPT !.fetch = @ + 1] /\ Processing /\ fetching.active
      /\ fetching.attempts < max_requests - RecordedRequests
      /\ MaxBytes - RecordedBytes - fetching.bytes > 0
  BY DEF Request, Ready, Fetching, RequestsLeft, BytesLeft
<1>2. /\ sent' \in [search : Nat, fetch : Nat] /\ sent'.search = sent.search
      /\ sent'.fetch = sent.fetch + 1
  BY <1>1, FetchFacts
<1>3. /\ RecordedRequests + (fetching.attempts + 1) <= max_requests
      /\ RecordedRequests + (fetching.attempts + 1) <= sent.fetch + 1
  BY <1>1, FetchFacts
<1>4. Cap \in Nat /\ Cap <= MaxBytes - RecordedBytes - fetching.bytes
  BY <1>1, FetchFacts DEF Cap, BytesLeft
<1>5. RecordedBytes + (fetching.bytes + Cap) <= MaxBytes
  BY <1>4, FetchFacts
<1>6. fetching.attempts + 1 \in Nat /\ sent.fetch + 1 \in Nat
  BY FetchFacts
<1> QED BY <1>1, <1>2, <1>3, <1>4, <1>5, <1>6

\* A fetch that goes on has used one request more, within the budgets.
LEMMA OngoingFetchKeepsInv ==
  ASSUME InspirationInv, Request, max_requests' = max_requests,
         NEW bytes \in Nat, bytes <= Cap,
         DOMAIN fetching' = DOMAIN fetching, fetching'.active = fetching.active,
         fetching'.attempts = fetching.attempts + 1,
         fetching'.bytes = fetching.bytes + bytes,
         UNCHANGED <<pc, pages, searching, searches, group, fetches, result>>
  PROVE  InspirationInv'
<1>1. RecordedRequests' = RecordedRequests /\ RecordedBytes' = RecordedBytes
      /\ Groups' = Groups
  BY DEF RecordedRequests, RecordedBytes, Groups, Hits
<1>2. SearchesLogged'
  BY RequestFacts, SearchesUntouched
<1>3. fetching'.bytes \in Nat /\ RecordedBytes + fetching'.bytes <= MaxBytes
  BY FetchFacts, RequestFacts
<1>4. FetchesCharged'
  BY <1>1, <1>3, FetchFacts, RequestFacts DEF InspirationInv, FetchesCharged
<1>5. RunHolds'
  BY <1>3, RequestFacts DEF InspirationInv, RunHolds
<1> QED BY <1>2, <1>4, <1>5 DEF InspirationInv

\* Documents: requests and bytes stay within their budgets, and each is recorded.
LEMMA FetchKeepsInv ==
  ASSUME InspirationInv, FetchNext
  PROVE  InspirationInv'
<1>1. max_requests' = max_requests /\ Processing
  BY RequestFacts DEF FetchNext, LeaveBody, BeginFetch, BeginFetchFails, FetchBudgetExhausted,
     ResolveFails, FetchRetried, FetchGivesUp, FetchRefused, RedirectFollowed,
     RedirectRefused, FetchSucceeds, Calm, Troubled, Fetching, Ready, Request
<1>2. CASE LeaveBody
  <2>1. /\ group' = group + 1 /\ fetching' = NoFetch /\ ~fetching.active
        /\ UNCHANGED <<pc, pages, searching, searches, fetches, sent, result>>
    BY <1>2 DEF LeaveBody, Settle
  <2>2. fetching' = fetching
    BY <2>1, FetchFacts
  <2>3. SearchesLogged' /\ FetchesCharged'
    BY <1>1, <2>1, <2>2, SearchesUntouched, FetchesUntouched
  <2>4. RunHolds'
    BY <1>1, <2>1, <2>2 DEF InspirationInv, RunHolds
  <2> QED BY <2>3, <2>4 DEF InspirationInv
<1>3. CASE BeginFetch
  <2>1. /\ fetching' = [NoFetch EXCEPT !.active = TRUE]
        /\ RecordedBytes < MaxBytes /\ ~fetching.active
        /\ UNCHANGED <<pc, pages, searching, searches, group, fetches, sent, result>>
    <3>1. NoFetchReason(Document) = "" /\ ~fetching.active
          /\ fetching' = [NoFetch EXCEPT !.active = TRUE]
          /\ UNCHANGED <<pc, pages, searching, searches, group, fetches, sent, result>>
      BY <1>3 DEF BeginFetch
    <3>2. ~(RecordedBytes >= MaxBytes)
      <4> DEFINE url == Works[Document].url
                 much == RecordedRequests >= max_requests
                 wide == RecordedBytes >= MaxBytes
                 told == AbstractSuffices(Hits, Document)
                 open == max_requests = 0
                 some == max_requests > 0
      <4>1. NoFetchReason(Document) =
              CASE told -> "SKIPPED_METADATA_SUFFICIENT"
                [] ~told /\ open -> "DISABLED_BY_POLICY"
                [] ~told /\ some /\ ~url -> "NO_CANONICAL_URL"
                [] OTHER -> IF much THEN "REQUEST_BUDGET_EXHAUSTED"
                            ELSE IF wide THEN "BYTE_BUDGET_EXHAUSTED" ELSE ""
        BY DEF NoFetchReason
      <4> HIDE DEF url, much, wide, told, open, some
      <4>2. ~wide
        BY <3>1, <4>1
      <4> QED BY <4>2 DEF wide
    <3>3. RecordedBytes < MaxBytes
      BY <3>2, FetchFacts
    <3> QED BY <3>1, <3>3
  <2>2. /\ fetching'.active = TRUE /\ fetching'.attempts = 0 /\ fetching'.bytes = 0
        /\ DOMAIN fetching' = DOMAIN NoFetch
    BY <2>1 DEF NoFetch
  <2>3. fetching.attempts = 0
    BY <2>1, FetchFacts DEF NoFetch
  <2>4. RecordedRequests' = RecordedRequests /\ RecordedBytes' = RecordedBytes
        /\ Groups' = Groups
    BY <2>1 DEF RecordedRequests, RecordedBytes, Groups, Hits
  <2>5. SearchesLogged'
    BY <2>1, SearchesUntouched
  <2>6. RecordedBytes + 0 <= MaxBytes
    BY <2>1, FetchFacts
  <2>7. FetchesCharged'
    BY <1>1, <2>1, <2>2, <2>3, <2>4, <2>6, FetchFacts
       DEF InspirationInv, FetchesCharged, Processing
  <2>8. RunHolds'
    BY <1>1, <2>1, <2>2 DEF InspirationInv, RunHolds
  <2> QED BY <2>5, <2>7, <2>8 DEF InspirationInv
<1>4. CASE BeginFetchFails
  <2>1. PICK category : FetchFails(category, 0, 0)
    BY <1>4 DEF BeginFetchFails
  <2>2. sent' = sent /\ ~fetching.active
    BY <1>4 DEF BeginFetchFails
  <2>3. fetching.attempts = 0 /\ RecordedBytes + 0 <= MaxBytes + 1
    BY <2>2, FetchFacts DEF NoFetch
  <2> QED BY <1>1, <2>1, <2>2, <2>3, FetchFacts, FailedFetchKeepsInv
<1>5. CASE FetchBudgetExhausted
  <2>1. FetchFails("BUDGET", fetching.attempts, fetching.bytes) /\ sent' = sent
        /\ fetching.active
    BY <1>5 DEF FetchBudgetExhausted, Fetching
  <2>2. RecordedBytes + fetching.bytes <= MaxBytes + 1
    BY <2>1, FetchFacts
  <2> QED BY <1>1, <2>1, <2>2, FetchFacts, FailedFetchKeepsInv
<1>6. CASE ResolveFails
  <2>1. PICK category : FetchFails(category, 0, 0)
    BY <1>6 DEF ResolveFails, KeptAttempts
  <2>2. sent' = sent
    BY <1>6 DEF ResolveFails
  <2>3. /\ RecordedRequests + 0 <= max_requests /\ RecordedRequests + 0 <= sent.fetch
        /\ RecordedBytes + 0 <= MaxBytes + 1
    BY FetchFacts
  <2> QED BY <1>1, <2>1, <2>2, <2>3, FetchFacts, FailedFetchKeepsInv
<1>7. CASE FetchRetried
  <2>1. PICK bytes \in 0 .. MaxResponse, pause \in FetchPauses :
          /\ Request /\ bytes <= Cap
          /\ fetching' = [fetching EXCEPT !.attempts = @ + 1, !.bytes = @ + bytes,
                                          !.retries = @ + 1, !.waited = @ + pause]
          /\ UNCHANGED <<pc, pages, searching, searches, group, fetches, result>>
    BY <1>7 DEF FetchRetried
  <2>2. bytes \in Nat
    BY FetchFacts
  <2>3. /\ DOMAIN fetching' = DOMAIN fetching /\ fetching'.active = fetching.active
        /\ fetching'.attempts = fetching.attempts + 1
        /\ fetching'.bytes = fetching.bytes + bytes
    BY <2>1, FetchFacts DEF NoFetch
  <2> QED BY <1>1, <2>1, <2>2, <2>3, OngoingFetchKeepsInv
<1>8. CASE FetchGivesUp
  <2>1. PICK bytes \in 0 .. MaxResponse :
          /\ Request /\ bytes <= Cap
          /\ FetchFails("TRANSIENT", fetching.attempts + 1, fetching.bytes + bytes)
    BY <1>8 DEF FetchGivesUp
  <2>2. bytes \in Nat
    BY FetchFacts
  <2>3. fetching.bytes + bytes \in Nat /\ RecordedBytes + (fetching.bytes + bytes) <= MaxBytes + 1
    BY <2>1, <2>2, FetchFacts, RequestFacts
  <2> QED BY <1>1, <2>1, <2>3, RequestFacts, FailedFetchKeepsInv
<1>9. CASE FetchRefused
  <2>1. PICK failure \in {<<"PERMANENT", 0>>, <<"SECURITY", 0>>, <<"BUDGET", 0>>, <<"BUDGET", Cap + 1>>}
                       \cup {<<"SECURITY", size>> : size \in {n \in BodySizes : n <= Cap}}
                       \cup {<<"CONTRACT", size>> : size \in 0 .. Cap + 1} :
          Request /\ FetchFails(failure[1], fetching.attempts + 1, fetching.bytes + failure[2])
    BY <1>9 DEF FetchRefused
  <2>2. PICK size : size = failure[2]
    OBVIOUS
  <2>3. Cap \in Nat
    BY <2>1, RequestFacts
  <2>4. size \in Nat /\ size <= Cap + 1
    <3>1. CASE failure \in {<<"PERMANENT", 0>>, <<"SECURITY", 0>>, <<"BUDGET", 0>>, <<"BUDGET", Cap + 1>>}
      BY <2>2, <2>3, <3>1
    <3>2. CASE failure \in {<<"SECURITY", n>> : n \in {m \in BodySizes : m <= Cap}}
      <4>1. failure[2] \in BodySizes /\ failure[2] <= Cap
        BY <3>2
      <4> QED BY <2>2, <2>3, <4>1, RunAssumption
    <3>3. CASE failure \in {<<"CONTRACT", n>> : n \in 0 .. Cap + 1}
      BY <2>2, <2>3, <3>3
    <3> QED BY <2>1, <3>1, <3>2, <3>3
  <2>5. fetching.bytes + size \in Nat /\ RecordedBytes + (fetching.bytes + size) <= MaxBytes + 1
    BY <2>1, <2>3, <2>4, FetchFacts, RequestFacts
  <2>6. FetchFails(failure[1], fetching.attempts + 1, fetching.bytes + size)
    BY <2>1, <2>2
  <2> QED BY <1>1, <2>1, <2>5, <2>6, RequestFacts, FailedFetchKeepsInv
<1>10. CASE RedirectFollowed
  <2>1. /\ Request
        /\ fetching' = [fetching EXCEPT !.attempts = @ + 1, !.redirects = @ + 1]
        /\ UNCHANGED <<pc, pages, searching, searches, group, fetches, result>>
    BY <1>10 DEF RedirectFollowed
  <2>2. 0 \in Nat /\ 0 <= Cap
    BY <2>1, RequestFacts
  <2>3. /\ DOMAIN fetching' = DOMAIN fetching /\ fetching'.active = fetching.active
        /\ fetching'.attempts = fetching.attempts + 1
        /\ fetching'.bytes = fetching.bytes + 0
    BY <2>1, FetchFacts DEF NoFetch
  <2> QED BY <1>1, <2>1, <2>2, <2>3, OngoingFetchKeepsInv
<1>11. CASE RedirectRefused
  <2>1. PICK category : Request /\ FetchFails(category, fetching.attempts + 1, fetching.bytes)
    BY <1>11 DEF RedirectRefused
  <2>2. RecordedBytes + fetching.bytes <= MaxBytes + 1
    BY <2>1, FetchFacts, RequestFacts
  <2> QED BY <1>1, <2>1, <2>2, FetchFacts, RequestFacts, FailedFetchKeepsInv
<1>12. CASE FetchSucceeds
  <2>1. PICK size \in BodySizes :
          /\ Request /\ size <= Cap
          /\ Recorded(fetching.attempts + 1, fetching.bytes + size)
          /\ group' = group + 1 /\ fetching' = NoFetch
          /\ UNCHANGED <<pc, pages, searching, searches, result>>
    BY <1>12 DEF FetchSucceeds, Settle
  <2>2. size \in Nat
    BY RunAssumption
  <2>3. fetching.bytes + size \in Nat /\ RecordedBytes + (fetching.bytes + size) <= MaxBytes + 1
    BY <2>1, <2>2, FetchFacts, RequestFacts
  <2>4. FetchesCharged'
    BY <1>1, <2>1, <2>3, RequestFacts, EndOfFetchCharged
  <2>5. SearchesLogged'
    BY <2>1, RequestFacts, SearchesUntouched
  <2>6. fetching'.active \in BOOLEAN /\ fetching'.attempts \in Nat /\ fetching'.bytes \in Nat
        /\ DOMAIN fetching' = DOMAIN NoFetch
    BY <2>1 DEF NoFetch
  <2>7. RunHolds'
    BY <1>1, <2>1, <2>6, RequestFacts DEF InspirationInv, RunHolds
  <2> QED BY <2>4, <2>5, <2>7 DEF InspirationInv
<1> QED BY <1>2, <1>3, <1>4, <1>5, <1>6, <1>7, <1>8, <1>9, <1>10, <1>11, <1>12 DEF FetchNext

\* What a bundle is compiled from, each part from the one before.
Compiled(parents, quota, found, evidence, packets, drafts, pool, target, selected) ==
  /\ found = Passages /\ evidence = Cards(found) /\ packets = Packets(evidence, Len(pages))
  /\ drafts = Drafts(packets, parents) /\ pool = Candidates(drafts)
  /\ target = FeasibleTarget(pool, quota) /\ selected = Select(pool, target)
  /\ CompileCode(found, evidence, packets, drafts,
                 QuotaLost(pool, quota, target, selected)) = ""
  /\ result' = Bundle(parents, quota,
                      Audit(pool, quota, selected, QuotaStatus(pool, quota, target)),
                      Ledger(found, drafts, pool),
                      Feedback(pages, searches, Hits, found, evidence, packets, fetches))

\* An answer is an error or a bundle of what was compiled.
LEMMA AnswerFacts ==
  ASSUME NEW parents, NEW quota, Answer(parents, quota)
  PROVE  \/ \E code : pc' = "done" /\ result' = [kind |-> "RAISED", code |-> code]
         \/ pc' = "done" /\ \E found, evidence, packets, drafts, pool, target, selected :
              Compiled(parents, quota, found, evidence, packets, drafts, pool, target, selected)
<1> DEFINE found == Passages
           evidence == Cards(found)
           packets == Packets(evidence, Len(pages))
           drafts == Drafts(packets, parents)
           pool == Candidates(drafts)
           target == FeasibleTarget(pool, quota)
           selected == Select(pool, target)
           status == QuotaStatus(pool, quota, target)
           network == NetworkCode(evidence, packets)
           code == CompileCode(found, evidence, packets, drafts,
                               QuotaLost(pool, quota, target, selected))
           bundle == Bundle(parents, quota, Audit(pool, quota, selected, status),
                            Ledger(found, drafts, pool),
                            Feedback(pages, searches, Hits, found, evidence, packets, fetches))
           Ends(f, e, p, d, c, t, s) ==
             IF NetworkCode(e, p) # "" THEN Raise(NetworkCode(e, p))
             ELSE IF CompileCode(f, e, p, d, QuotaLost(c, quota, t, s)) # ""
             THEN Raise(CompileCode(f, e, p, d, QuotaLost(c, quota, t, s)))
             ELSE /\ pc' = "done"
                  /\ result' = Bundle(parents, quota,
                                 Audit(c, quota, s, QuotaStatus(c, quota, t)),
                                 Ledger(f, d, c),
                                 Feedback(pages, searches, Hits, f, e, p, fetches))
<1>1. IF network # "" THEN Raise(network)
      ELSE IF code # "" THEN Raise(code)
      ELSE pc' = "done" /\ result' = bundle
  <2>1. \E f \in {Passages} : \E e \in {Cards(f)} : \E p \in {Packets(e, Len(pages))} :
        \E d \in {Drafts(p, parents)} : \E c \in {Candidates(d)} :
        \E t \in {FeasibleTarget(c, quota)} : \E s \in {Select(c, t)} : Ends(f, e, p, d, c, t, s)
    BY DEF Answer
  <2> HIDE DEF Ends
  <2>2. Ends(found, evidence, packets, drafts, pool, target, selected)
    BY <2>1
  <2> QED BY <2>2 DEF Ends
<1>2. CASE network # "" \/ code # ""
  <2> HIDE DEF network, code
  <2> QED BY <1>1, <1>2 DEF Raise
<1>3. CASE network = "" /\ code = ""
  <2>1. pc' = "done" /\ result' = bundle
    BY <1>1, <1>3
  <2>2. Compiled(parents, quota, found, evidence, packets, drafts, pool, target, selected)
    BY <1>3, <2>1 DEF Compiled
  <2> HIDE DEF found, evidence, packets, drafts, pool, target, selected
  <2> QED BY <2>1, <2>2
<1> QED BY <1>2, <1>3

\* Compilation writes an answer and nothing else.
LEMMA CompileFacts ==
  ASSUME Compile
  PROVE  /\ pc = "fetch" /\ pc' = "done" /\ group = Len(Groups)
         /\ UNCHANGED <<max_requests, pages, searching, searches, group, fetching, fetches,
                        manifest, sent>>
         /\ \/ \E code : result' = [kind |-> "RAISED", code |-> code]
            \/ \E parents \in ParentPools, policy \in Policies :
                 result'.kind = "BUNDLE" /\ Answer(parents, policy.quota)
<1>1. /\ pc = "fetch" /\ group = Len(Groups)
      /\ UNCHANGED <<max_requests, pages, searching, searches, group, fetching, fetches,
                     manifest, sent>>
  BY DEF Compile, Calm
<1>2. CASE Raise("WALLTIME_BUDGET_EXCEEDED")
  BY <1>1, <1>2 DEF Raise
<1>3. ASSUME NEW parents \in ParentPools, NEW policy \in Policies,
             Answer(parents, policy.quota)
      PROVE  /\ pc' = "done"
             /\ \/ \E code : result' = [kind |-> "RAISED", code |-> code]
                \/ result'.kind = "BUNDLE"
  <2>1. CASE \E code : pc' = "done" /\ result' = [kind |-> "RAISED", code |-> code]
    BY <2>1
  <2>2. CASE pc' = "done" /\ \E found, evidence, packets, drafts, pool, target, selected :
               Compiled(parents, policy.quota, found, evidence, packets, drafts, pool,
                         target, selected)
    <3>1. PICK found, evidence, packets, drafts, pool, target, selected :
            Compiled(parents, policy.quota, found, evidence, packets, drafts, pool, target,
                     selected)
      BY <2>2
    <3>2. result'.kind = "BUNDLE"
      BY <3>1 DEF Compiled, Bundle
    <3> QED BY <2>2, <3>2
  <2>3. \/ \E code : pc' = "done" /\ result' = [kind |-> "RAISED", code |-> code]
        \/ pc' = "done" /\ \E found, evidence, packets, drafts, pool, target, selected :
             Compiled(parents, policy.quota, found, evidence, packets, drafts, pool, target,
                      selected)
    BY <1>3, AnswerFacts
  <2> QED BY <2>1, <2>2, <2>3
<1> QED BY <1>1, <1>2, <1>3 DEF Compile

LEMMA CompileKeepsInv ==
  ASSUME InspirationInv, Compile
  PROVE  InspirationInv'
<1>1. ~fetching.active
  <2>1. pc = "fetch" /\ group = Len(Groups)
    BY CompileFacts
  <2> QED BY <2>1, GroupsFacts DEF InspirationInv, FetchesCharged
<1>2. FetchesCharged' /\ SearchesLogged'
  BY <1>1, CompileFacts, SearchesUntouched, FetchesUntouched
<1>3. RunHolds'
  BY CompileFacts DEF InspirationInv, RunHolds
<1> QED BY <1>2, <1>3 DEF InspirationInv

LEMMA InitInv == Init => InspirationInv
<1> SUFFICES ASSUME Init PROVE InspirationInv
  OBVIOUS
<1>1. max_requests \in Nat
  <2>1. PICK policy \in Policies : max_requests = policy.max_requests
    BY DEF Init
  <2>2. policy.max_requests \in 0 .. Budget["documents"]
    BY RunAssumption
  <2> QED BY <2>1, <2>2, Budgets
<1>2. /\ searching.attempts = 0 /\ Len(searches) = 0 /\ sent.search = 0 /\ sent.fetch = 0
      /\ sent \in [search : Nat, fetch : Nat] /\ Len(pages) = 0
      /\ fetching = NoFetch /\ fetching.attempts = 0 /\ fetching.bytes = 0
      /\ fetching.active = FALSE
  BY DEF Init, NoSearch, NoFetch
<1>3. RunHolds
  <2>1. pages \in Seq(Seq(Records)) /\ searches \in Seq(SearchAttempts) /\ group = 0
    BY DEF Init
  <2>2. Len(pages) <= Len(Plan)
    BY <1>2, PlanFacts
  <2>3. searching.attempts \in Nat /\ {fetching.attempts, fetching.bytes} \subseteq Nat
        /\ fetching.active \in BOOLEAN
    BY <1>2
  <2>4. result = Pending /\ DOMAIN fetching = DOMAIN NoFetch /\ group \in Nat
    BY <1>2, <2>1 DEF Init
  <2> QED BY <1>1, <1>2, <2>1, <2>2, <2>3, <2>4 DEF RunHolds, SearchAttempts
<1>4. SearchesLogged
  BY <1>2 DEF Init, SearchesLogged
<1>5. fetches = {} /\ IsFiniteSet(fetches)
  BY FS_EmptySet DEF Init
<1>6. RecordedRequests = 0 /\ RecordedBytes = 0
  <2> DEFINE r == [a \in fetches |-> a.requests]
             b == [a \in fetches |-> a.bytes]
  <2>1. r \in [fetches -> Nat] /\ b \in [fetches -> Nat]
    BY <1>5
  <2>2. RecordedRequests = SumFunction(r) /\ RecordedBytes = SumFunction(b)
    BY DEF RecordedRequests, RecordedBytes
  <2> HIDE DEF r, b
  <2> QED BY <1>5, <2>1, <2>2, SumTotal, TotalFacts
<1>7. FetchesCharged
  BY <1>1, <1>2, <1>5, <1>6, RunAssumption DEF FetchesCharged
<1> QED BY <1>3, <1>4, <1>7 DEF InspirationInv

LEMMA NextKeepsInv == InspirationInv /\ [Next]_vars => InspirationInv'
<1> SUFFICES ASSUME InspirationInv, [Next]_vars PROVE InspirationInv'
  OBVIOUS
<1>1. CASE Done \/ UNCHANGED vars
  <2>1. UNCHANGED vars
    BY <1>1 DEF Done
  <2>2. RunHolds' /\ SearchesLogged'
    BY <2>1 DEF InspirationInv, RunHolds, SearchesLogged, vars
  <2>3. FetchesCharged'
    BY <2>1 DEF InspirationInv, FetchesCharged, RecordedRequests, RecordedBytes, Groups, Hits,
                vars
  <2> QED BY <2>2, <2>3 DEF InspirationInv
<1> QED BY <1>1, SearchKeepsInv, FetchKeepsInv, CompileKeepsInv DEF Next

\* What a run holds, logs and charges is in order in every state.
THEOREM InspirationInvariant == Spec => []InspirationInv
<1> QED BY InitInv, NextKeepsInv, PTL DEF Spec

(***************************************************************************)
(* Order of the log and the limits of the policy.                          *)
(***************************************************************************)

\* The order LogInOrder asks of the log.
Ordered(log) ==
  /\ log # <<>> => log[1].query = 1 /\ log[1].number = 1
  /\ \A i \in 2 .. Len(log) : Succeeds(log[i - 1], log[i])
  /\ \A i \in DOMAIN log : log[i].number <= SearchRetries + 1

\* Where a log stands when the next attempt is for query q.
Before(log, q) ==
  \/ log = <<>> /\ q = 1
  \/ log # <<>> /\ log[Len(log)].ok /\ log[Len(log)].query = q - 1

\* The numbers the policy gives.
LEMMA PolicyNumbers ==
  /\ SearchRetries \in Nat /\ SearchWait \in Nat /\ FetchRetries \in Nat /\ FetchWait \in Nat
  /\ MaxRedirects \in Nat
  /\ \A pause \in SearchPauses \cup Pacing \cup FetchPauses \cup {0} : pause \in Nat
BY RunAssumption

\* What one attempt of a query says.
LEMMA AttemptFields ==
  ASSUME NEW q \in QueryIds, NEW n \in Nat, NEW ok \in BOOLEAN
  PROVE  /\ Attempts(q, n, ok) \in Seq(SearchAttempts) /\ Len(Attempts(q, n, ok)) = n
         /\ \A i \in 1 .. n : /\ Attempts(q, n, ok)[i].query = q
                              /\ Attempts(q, n, ok)[i].number = i
                              /\ Attempts(q, n, ok)[i].ok <=> ok /\ i = n
<1> DEFINE more == [i \in 1 .. n |-> [query |-> q, number |-> i, ok |-> ok /\ i = n]]
<1>1. \A i \in 1 .. n : /\ more[i].query = q /\ more[i].number = i
                        /\ more[i].ok <=> ok /\ i = n
  OBVIOUS
<1>2. Attempts(q, n, ok) \in Seq(SearchAttempts) /\ Len(Attempts(q, n, ok)) = n
  <2>1. CASE ok = TRUE
    BY <2>1, AttemptsFacts
  <2>2. CASE ok = FALSE
    BY <2>2, AttemptsFacts
  <2> QED BY <2>1, <2>2
<1>3. Attempts(q, n, ok) = more
  BY DEF Attempts
<1> QED BY <1>1, <1>2, <1>3

\* The attempts of a query continue the log; an answer is the last of them.
LEMMA AttemptsInOrder ==
  ASSUME NEW log \in Seq(SearchAttempts), Ordered(log), NEW q \in QueryIds, NEW n \in Nat,
         NEW ok \in BOOLEAN, n <= SearchRetries + 1, Before(log, q)
  PROVE  /\ Ordered(log \o Attempts(q, n, ok))
         /\ ok /\ n > 0 => Before(log \o Attempts(q, n, ok), q + 1)
<1> DEFINE more == Attempts(q, n, ok)
           new == log \o more
           N == Len(log)
<1>1. /\ more \in Seq(SearchAttempts) /\ Len(more) = n
      /\ \A i \in 1 .. n : /\ more[i].query = q /\ more[i].number = i
                           /\ more[i].ok <=> ok /\ i = n
  BY AttemptFields
<1> HIDE DEF more
<1>2. /\ N \in Nat /\ Len(new) = N + n /\ DOMAIN new = 1 .. N + n /\ DOMAIN log = 1 .. N
      /\ \A i \in 1 .. N : new[i] = log[i]
      /\ \A i \in 1 .. n : new[N + i] = more[i]
      /\ (log = <<>> <=> N = 0) /\ (new = <<>> <=> N + n = 0)
  BY <1>1
<1> HIDE DEF new, N
<1>3. ASSUME NEW i \in 1 .. N + n, i > N
      PROVE  /\ i - N \in 1 .. n /\ new[i].query = q /\ new[i].number = i - N
             /\ new[i].ok <=> ok /\ i = N + n
  <2>1. PICK k \in 1 .. n : i = N + k
    <3>1. i - N \in 1 .. n /\ i = N + (i - N)
      BY <1>2, <1>3
    <3> QED BY <3>1
  <2>2. new[i] = more[k]
    BY <1>2, <2>1
  <2>3. i - N = k /\ (i = N + n <=> k = n)
    BY <1>2, <2>1
  <2> QED BY <1>1, <2>2, <2>3
<1>4. q \in Nat
  BY PlanFacts
<1>5. new # <<>> => new[1].query = 1 /\ new[1].number = 1
  <2>1. CASE N > 0
    <3>1. new[1] = log[1] /\ log # <<>>
      BY <1>2, <2>1
    <3> QED BY <3>1 DEF Ordered
  <2>2. CASE N = 0 /\ n > 0
    <3>1. q = 1
      BY <1>2, <2>2 DEF Before
    <3>2. 1 \in 1 .. N + n /\ 1 > N /\ 1 - N = 1
      BY <2>2
    <3> QED BY <1>3, <3>1, <3>2
  <2> QED BY <1>2, <2>1, <2>2
<1>6. ASSUME NEW i \in 2 .. Len(new) PROVE Succeeds(new[i - 1], new[i])
  <2>1. CASE i <= N
    <3>1. i \in 2 .. Len(log) /\ new[i] = log[i] /\ new[i - 1] = log[i - 1]
      <4>1. i \in 1 .. N /\ i - 1 \in 1 .. N /\ i \in 2 .. N
        BY <1>2, <2>1
      <4> QED BY <1>2, <4>1 DEF N
    <3> QED BY <3>1 DEF Ordered
  <2>2. CASE i = N + 1
    <3>1. N > 0 /\ i - 1 = N /\ i \in 1 .. N + n /\ i > N /\ i - N = 1
      BY <1>2, <2>2
    <3>2. new[i - 1] = log[Len(log)]
      <4>1. N \in 1 .. N
        BY <1>2, <3>1
      <4> QED BY <1>2, <3>1, <4>1 DEF N
    <3>3. log[Len(log)].ok /\ log[Len(log)].query + 1 = q
      <4>1. log # <<>>
        BY <1>2, <3>1
      <4>2. log[Len(log)].ok /\ log[Len(log)].query = q - 1
        BY <4>1 DEF Before
      <4>3. (q - 1) + 1 = q
        BY <1>4
      <4> QED BY <4>2, <4>3
    <3>4. new[i].query = q /\ new[i].number = 1
      BY <1>3, <3>1
    <3> QED BY <3>2, <3>3, <3>4 DEF Succeeds
  <2>3. CASE i > N + 1
    <3>1. /\ i \in 1 .. N + n /\ i > N /\ i - 1 \in 1 .. N + n /\ i - 1 > N
          /\ i - 1 # N + n /\ i - N = (i - 1) - N + 1
      BY <1>2, <2>3
    <3>2. new[i].query = q /\ new[i].number = i - N
      BY <1>3, <3>1
    <3>3. new[i - 1].query = q /\ new[i - 1].number = (i - 1) - N /\ ~new[i - 1].ok
      <4>1. PICK j \in 1 .. N + n : j = i - 1 /\ j > N /\ j # N + n
        BY <3>1
      <4>2. new[j].query = q /\ new[j].number = j - N /\ ~new[j].ok
        BY <1>3, <4>1
      <4> QED BY <4>1, <4>2
    <3> QED BY <3>1, <3>2, <3>3 DEF Succeeds
  <2> QED BY <1>2, <2>1, <2>2, <2>3
<1>7. ASSUME NEW i \in DOMAIN new PROVE new[i].number <= SearchRetries + 1
  <2>1. CASE i <= N
    <3>1. i \in DOMAIN log /\ new[i] = log[i]
      BY <1>2, <2>1
    <3> QED BY <3>1 DEF Ordered
  <2>2. CASE i > N
    <3>1. new[i].number = i - N /\ i - N \in 1 .. n
      BY <1>2, <1>3, <2>2
    <3>2. i - N <= n /\ n <= SearchRetries + 1
      BY <3>1
    <3>3. SearchRetries \in Nat /\ i - N \in Nat
      BY <3>1, PolicyNumbers
    <3> QED BY <3>1, <3>2, <3>3
  <2> QED BY <1>2, <2>1, <2>2
<1>8. ASSUME ok, n > 0 PROVE Before(new, q + 1)
  <2>1. N + n \in 1 .. N + n /\ N + n > N /\ new # <<>> /\ Len(new) = N + n
    BY <1>2, <1>8
  <2>2. new[N + n].query = q /\ new[N + n].ok
    BY <1>3, <1>8, <2>1
  <2> QED BY <1>4, <2>1, <2>2 DEF Before
<1>9. Ordered(new)
  BY <1>5, <1>6, <1>7 DEF Ordered
<1> QED BY <1>8, <1>9 DEF new, more

\* What a fetch has waited, retried and followed so far.
FetchPaced ==
  /\ fetching.waited <= FetchWait
  /\ {fetching.waited, fetching.retries, fetching.redirects} \subseteq Nat
  /\ fetching.attempts = fetching.retries + fetching.redirects
  /\ fetching.retries <= FetchRetries /\ fetching.redirects <= MaxRedirects

LEMMA NoFetchPaced == fetching' = NoFetch => FetchPaced'
BY PolicyNumbers DEF NoFetch, FetchPaced

\* The policy in parts: the log, the search under way and the fetches.
LEMMA PolicyParts ==
  PolicyInv <=>
    /\ Ordered(searches) /\ searching.attempts <= SearchRetries
    /\ searching.waited <= SearchWait /\ searching.waited \in Nat
    /\ FetchPaced /\ \A a \in fetches : a.requests <= FetchRetries + MaxRedirects + 1
    /\ pc = "search" =>
         \/ pages = <<>> /\ searches = <<>>
         \/ /\ searches # <<>> /\ searches[Len(searches)].ok
            /\ searches[Len(searches)].query = Len(pages)
BY DEF PolicyInv, LogInOrder, WithinPolicy, Ordered, FetchPaced

\* The same of the next state, part by part.
LEMMA PolicyNext ==
  ASSUME Ordered(searches'), searching'.attempts <= SearchRetries,
         searching'.waited <= SearchWait, searching'.waited \in Nat, FetchPaced',
         \A a \in fetches' : a.requests <= FetchRetries + MaxRedirects + 1,
         pc' = "search" =>
           \/ pages' = <<>> /\ searches' = <<>>
           \/ /\ searches' # <<>> /\ searches'[Len(searches')].ok
              /\ searches'[Len(searches')].query = Len(pages')
  PROVE  PolicyInv'
BY DEF PolicyInv, LogInOrder, WithinPolicy, Ordered, FetchPaced

\* A search step continues the log, or retries and pauses within the policy.
LEMMA SearchKeepsPolicy ==
  ASSUME InspirationInv, PolicyInv, SearchNext
  PROVE  PolicyInv'
<1>1. /\ fetching' = fetching /\ fetches' = fetches /\ pc = "search"
  BY DEF SearchNext, SearchSucceeds, PageIsMalformed, SearchRetried, SearchFails,
         WaitBudgetExceeded, GroupDocuments, Calm, Troubled, Searching, Paced, FailSearch
<1>2. FetchPaced' /\ \A a \in fetches' : a.requests <= FetchRetries + MaxRedirects + 1
  BY <1>1, PolicyParts DEF FetchPaced
<1>3. /\ Ordered(searches) /\ searching.attempts \in Nat /\ searching.attempts <= SearchRetries
      /\ searching.waited \in Nat /\ searching.waited <= SearchWait
      /\ searches \in Seq(SearchAttempts) /\ pages \in Seq(Seq(Records)) /\ Len(pages) \in Nat
  BY PolicyParts DEF InspirationInv, RunHolds, SearchAttempts
<1>4. Before(searches, Current) /\ (Searching => Current \in QueryIds)
  <2>1. Current = Len(pages) + 1 /\ (pages = <<>> => Len(pages) = 0)
    BY DEF Current
  <2>2. Before(searches, Current)
    BY <1>1, <2>1, PolicyParts DEF Before
  <2> QED BY <1>3, <2>1, <2>2, PlanFacts DEF Searching
<1>5. searching' = NoSearch => /\ searching'.attempts <= SearchRetries
                              /\ searching'.waited <= SearchWait /\ searching'.waited \in Nat
  BY PolicyNumbers DEF NoSearch
<1> DEFINE n == searching.attempts + 1
<1>6. ASSUME Searching, NEW k \in {searching.attempts, n}, NEW ok \in BOOLEAN
      PROVE  /\ Ordered(searches \o Attempts(Current, k, ok))
             /\ ok /\ k > 0 => Before(searches \o Attempts(Current, k, ok), Current + 1)
  <2>1. k \in Nat /\ k <= SearchRetries + 1
    BY <1>3, PolicyNumbers
  <2>2. PICK q \in QueryIds : q = Current
    BY <1>4, <1>6
  <2>3. PICK log \in Seq(SearchAttempts) : log = searches
    BY <1>3
  <2>4. Ordered(log) /\ Before(log, q)
    BY <1>3, <1>4, <2>2, <2>3
  <2>5. /\ Ordered(log \o Attempts(q, k, ok))
        /\ ok /\ k > 0 => Before(log \o Attempts(q, k, ok), q + 1)
    BY ONLY <2>1, <2>4, <1>6, AttemptsInOrder
  <2> QED BY ONLY <2>2, <2>3, <2>5
<1>7. ASSUME Ordered(searches'), searching' = NoSearch, pc' = "done" PROVE PolicyInv'
  BY <1>2, <1>5, <1>7, PolicyNext
<1>8. CASE SearchSucceeds
  <2>1. /\ Searching /\ searching' = NoSearch
        /\ searches' = searches \o Attempts(Current, n, TRUE)
    BY <1>8 DEF SearchSucceeds, Paced
  <2>2. Len(pages') = Current /\ pages' # <<>>
    <3>1. PICK page : pages' = Append(pages, page)
      BY <1>8 DEF SearchSucceeds
    <3> QED BY <1>3, <3>1 DEF Current
  <2>3. n > 0
    BY <1>3
  <2>4. Ordered(searches') /\ Before(searches', Current + 1)
    BY <1>6, <2>1, <2>3
  <2>5. searches' # <<>> /\ searches'[Len(searches')].ok
        /\ searches'[Len(searches')].query = Len(pages')
    BY <1>3, <2>2, <2>4 DEF Before, Current
  <2> QED BY <1>2, <1>5, <2>1, <2>4, <2>5, PolicyNext
<1>9. CASE PageIsMalformed
  <2>1. /\ Searching /\ searching' = NoSearch /\ pc' = "done"
        /\ searches' = searches \o Attempts(Current, n, TRUE)
    BY <1>9 DEF PageIsMalformed, Paced, Raise
  <2> QED BY <1>6, <1>7, <2>1
<1>10. CASE SearchRetried
  <2>1. PICK delay \in Pacing \cup {0}, pause \in SearchPauses :
          /\ SearchRetriesAllowed(delay, pause)
          /\ searching' = [attempts |-> searching.attempts + 1,
                           waited |-> searching.waited + delay + pause]
          /\ UNCHANGED <<pc, pages, searches>>
    BY <1>10 DEF SearchRetried
  <2>2. delay \in Nat /\ pause \in Nat
    BY PolicyNumbers
  <2>3. /\ searching'.attempts <= SearchRetries
        /\ searching'.waited <= SearchWait /\ searching'.waited \in Nat
    BY <1>3, <2>1, <2>2, PolicyNumbers DEF SearchRetriesAllowed
  <2>4. Ordered(searches') /\ (pc' = "search" =>
          \/ pages' = <<>> /\ searches' = <<>>
          \/ /\ searches' # <<>> /\ searches'[Len(searches')].ok
             /\ searches'[Len(searches')].query = Len(pages'))
    BY <2>1, PolicyParts
  <2> QED BY <1>2, <2>3, <2>4, PolicyNext
<1>11. CASE SearchFails
  <2>1. /\ Searching /\ searching' = NoSearch /\ pc' = "done"
        /\ searches' = searches \o Attempts(Current, n, FALSE)
    BY <1>11 DEF SearchFails, FailSearch, Paced, Raise
  <2> QED BY <1>6, <1>7, <2>1
<1>12. CASE WaitBudgetExceeded
  <2>1. /\ Searching /\ searching' = NoSearch /\ pc' = "done"
        /\ searches' = searches \o Attempts(Current, searching.attempts, FALSE)
    BY <1>12 DEF WaitBudgetExceeded, FailSearch, Raise
  <2> QED BY <1>6, <1>7, <2>1
<1>13. CASE GroupDocuments
  <2>1. UNCHANGED <<searches, searching>> /\ pc' # "search"
    BY <1>1, <1>13 DEF GroupDocuments, Raise
  <2>2. Ordered(searches')
    BY <1>3, <2>1
  <2> QED BY <1>2, <1>3, <2>1, <2>2, PolicyNext
<1> QED BY <1>8, <1>9, <1>10, <1>11, <1>12, <1>13 DEF SearchNext

\* What leaves the search alone leaves its log alone.
LEMMA LogUntouched ==
  ASSUME PolicyInv, UNCHANGED <<pages, searching, searches>>, pc' # "search", FetchPaced',
         \A a \in fetches' : a.requests <= FetchRetries + MaxRedirects + 1
  PROVE  PolicyInv'
<1>1. /\ Ordered(searches') /\ searching'.attempts <= SearchRetries
      /\ searching'.waited <= SearchWait /\ searching'.waited \in Nat
  BY PolicyParts
<1> QED BY <1>1, PolicyNext

\* A request more is what the retries and redirects so far and this one allow.
LEMMA FetchKeepsPolicy ==
  ASSUME InspirationInv, PolicyInv, FetchNext
  PROVE  PolicyInv'
<1> DEFINE most == FetchRetries + MaxRedirects + 1
<1>1. UNCHANGED <<pages, searching, searches>> /\ pc' # "search" /\ pc = "fetch"
  <2>1. pc = "fetch" /\ pc' \in {pc, "done"}
    BY DEF FetchNext, LeaveBody, BeginFetch, BeginFetchFails, FetchBudgetExhausted,
           ResolveFails, FetchRetried, FetchGivesUp, FetchRefused, RedirectFollowed,
           RedirectRefused, FetchSucceeds, Fetching, Ready, Request, Processing, FetchFails, Raise
  <2>2. UNCHANGED <<pages, searching, searches>>
    BY DEF FetchNext, LeaveBody, BeginFetch, BeginFetchFails, FetchBudgetExhausted,
           ResolveFails, FetchRetried, FetchGivesUp, FetchRefused, RedirectFollowed,
           RedirectRefused, FetchSucceeds, FetchFails
  <2> QED BY <2>1, <2>2
<1>2. /\ FetchPaced /\ \A a \in fetches : a.requests <= most
      /\ fetching.attempts \in Nat /\ fetching.attempts + 1 <= most /\ 0 <= most
      /\ DOMAIN fetching = DOMAIN NoFetch
  <2>1. FetchPaced /\ \A a \in fetches : a.requests <= most
    BY PolicyParts
  <2>2. PICK retries \in Nat, redirects \in Nat :
          /\ retries = fetching.retries /\ redirects = fetching.redirects
          /\ retries <= FetchRetries /\ redirects <= MaxRedirects
          /\ fetching.attempts = retries + redirects
    BY <2>1 DEF FetchPaced
  <2> QED BY <2>1, <2>2, FetchFacts, PolicyNumbers
<1> HIDE DEF most
<1>3. ASSUME NEW attempts, attempts <= most, NEW bytes, Recorded(attempts, bytes)
      PROVE  \A a \in fetches' : a.requests <= most
  <2> DEFINE x == [doc |-> Document, requests |-> attempts, bytes |-> bytes,
                   queries |-> MemberQueries(Hits, Document)]
  <2>1. x.requests = attempts
    OBVIOUS
  <2>2. fetches' = fetches \/ fetches' = fetches \cup {x}
    BY <1>3 DEF Recorded
  <2> HIDE DEF x
  <2> QED BY <1>2, <1>3, <2>1, <2>2
<1>4. ASSUME NEW category, NEW attempts, attempts <= most, NEW bytes,
             FetchFails(category, attempts, bytes)
      PROVE  PolicyInv'
  <2>1. Recorded(attempts, bytes) /\ fetching' = NoFetch
    BY <1>4 DEF FetchFails, Settle
  <2>2. \A a \in fetches' : a.requests <= most
    BY <1>3, <1>4, <2>1
  <2> QED BY <1>1, <2>1, <2>2, NoFetchPaced, LogUntouched DEF most
<1>5. ASSUME FetchPaced', fetches' = fetches PROVE PolicyInv'
  BY <1>1, <1>2, <1>5, LogUntouched DEF most
<1>6. CASE LeaveBody
  BY <1>5, <1>6, NoFetchPaced DEF LeaveBody, Settle
<1>7. CASE BeginFetch
  <2>1. fetching' = [NoFetch EXCEPT !.active = TRUE] /\ fetches' = fetches
    BY <1>7 DEF BeginFetch
  <2>2. FetchPaced'
    BY <2>1, PolicyNumbers DEF NoFetch, FetchPaced
  <2> QED BY <1>5, <2>1, <2>2
<1>8. CASE BeginFetchFails
  <2>1. PICK category : FetchFails(category, 0, 0)
    BY <1>8 DEF BeginFetchFails
  <2> QED BY <1>2, <1>4, <2>1
<1>9. CASE FetchBudgetExhausted
  <2>1. FetchFails("BUDGET", fetching.attempts, fetching.bytes)
    BY <1>9 DEF FetchBudgetExhausted
  <2>2. fetching.attempts <= most
    BY <1>2, PolicyNumbers DEF most
  <2> QED BY <1>4, <2>1, <2>2
<1>10. CASE ResolveFails
  <2>1. PICK category : FetchFails(category, 0, 0)
    BY <1>10 DEF ResolveFails, KeptAttempts
  <2> QED BY <1>2, <1>4, <2>1
<1>11. CASE FetchRetried
  <2>1. PICK bytes \in 0 .. MaxResponse, pause \in FetchPauses :
          /\ FetchRetriesAllowed(pause)
          /\ fetching' = [fetching EXCEPT !.attempts = @ + 1, !.bytes = @ + bytes,
                                          !.retries = @ + 1, !.waited = @ + pause]
          /\ fetches' = fetches
    BY <1>11 DEF FetchRetried
  <2>2. /\ fetching'.attempts = fetching.attempts + 1
        /\ fetching'.retries = fetching.retries + 1
        /\ fetching'.redirects = fetching.redirects
        /\ fetching'.waited = fetching.waited + pause
    BY <1>2, <2>1 DEF NoFetch
  <2>3. pause \in Nat /\ fetching.retries < FetchRetries
        /\ fetching.waited + pause <= FetchWait
    BY <2>1, PolicyNumbers DEF FetchRetriesAllowed
  <2>4. FetchPaced'
    BY <1>2, <2>2, <2>3, PolicyNumbers DEF FetchPaced
  <2> QED BY <1>5, <2>1, <2>4
<1>12. CASE FetchGivesUp
  <2>1. PICK bytes : FetchFails("TRANSIENT", fetching.attempts + 1, bytes)
    BY <1>12 DEF FetchGivesUp
  <2> QED BY <1>2, <1>4, <2>1
<1>13. CASE FetchRefused
  <2>1. PICK category, bytes : FetchFails(category, fetching.attempts + 1, bytes)
    BY <1>13 DEF FetchRefused
  <2> QED BY <1>2, <1>4, <2>1
<1>14. CASE RedirectFollowed
  <2>1. /\ fetching.redirects < MaxRedirects /\ fetches' = fetches
        /\ fetching' = [fetching EXCEPT !.attempts = @ + 1, !.redirects = @ + 1]
    BY <1>14 DEF RedirectFollowed
  <2>2. /\ fetching'.attempts = fetching.attempts + 1
        /\ fetching'.redirects = fetching.redirects + 1
        /\ fetching'.retries = fetching.retries /\ fetching'.waited = fetching.waited
    BY <1>2, <2>1 DEF NoFetch
  <2>3. FetchPaced'
    BY <1>2, <2>1, <2>2, PolicyNumbers DEF FetchPaced
  <2> QED BY <1>5, <2>1, <2>3
<1>15. CASE RedirectRefused
  <2>1. PICK category : FetchFails(category, fetching.attempts + 1, fetching.bytes)
    BY <1>15 DEF RedirectRefused
  <2> QED BY <1>2, <1>4, <2>1
<1>16. CASE FetchSucceeds
  <2>1. PICK bytes : Recorded(fetching.attempts + 1, bytes) /\ fetching' = NoFetch
    BY <1>16 DEF FetchSucceeds, Settle
  <2>2. \A a \in fetches' : a.requests <= most
    BY <1>2, <1>3, <2>1
  <2> QED BY <1>1, <2>1, <2>2, NoFetchPaced, LogUntouched DEF most
<1> QED BY <1>6, <1>7, <1>8, <1>9, <1>10, <1>11, <1>12, <1>13, <1>14, <1>15, <1>16
        DEF FetchNext

\* The policy holds at the start and is kept.
LEMMA PolicyHolds == Spec => []PolicyInv
<1>1. Init => PolicyInv
  <2> SUFFICES ASSUME Init PROVE PolicyInv
    OBVIOUS
  <2>1. /\ searches = <<>> /\ pages = <<>> /\ fetches = {} /\ searching = NoSearch
        /\ fetching = NoFetch
    BY DEF Init
  <2>2. Ordered(searches)
    <3>1. Len(searches) = 0 /\ DOMAIN searches = {}
      BY <2>1
    <3> QED BY <2>1, <3>1 DEF Ordered
  <2>3. FetchPaced
    BY <2>1, PolicyNumbers DEF NoFetch, FetchPaced
  <2>4. /\ searching.attempts <= SearchRetries /\ searching.waited <= SearchWait
        /\ searching.waited \in Nat
    BY <2>1, PolicyNumbers DEF NoSearch
  <2> QED BY <2>1, <2>2, <2>3, <2>4, PolicyParts
<1>2. InspirationInv /\ PolicyInv /\ [Next]_vars => PolicyInv'
  <2> SUFFICES ASSUME InspirationInv, PolicyInv, [Next]_vars PROVE PolicyInv'
    OBVIOUS
  <2>1. CASE Compile
    <3>1. /\ UNCHANGED <<pages, searching, searches, fetching, fetches>> /\ pc' # "search"
      BY <2>1, CompileFacts
    <3>2. FetchPaced' /\ \A a \in fetches' : a.requests <= FetchRetries + MaxRedirects + 1
      BY <3>1, PolicyParts DEF FetchPaced
    <3> QED BY <3>1, <3>2, LogUntouched
  <2>2. CASE Done \/ UNCHANGED vars
    <3>1. UNCHANGED <<pc, pages, searching, searches, fetching, fetches>>
      BY <2>2 DEF Done, vars
    <3> QED BY <3>1 DEF PolicyInv, LogInOrder, WithinPolicy
  <2> QED BY <2>1, <2>2, SearchKeepsPolicy, FetchKeepsPolicy DEF Next
<1> QED BY <1>1, <1>2, InspirationInvariant, PTL DEF Spec

\* No search request is lost from the log, which is in the order of the plan and
\* numbered on while a query is retried; retries, pauses and recorded requests are
\* what the policy allows; what is recorded of fetches keeps to its budgets and is
\* never more than went out.
THEOREM RequestsLogged == Spec => []RequestsAreLogged
<1>1. InspirationInv /\ PolicyInv => RequestsAreLogged
  <2> SUFFICES ASSUME InspirationInv, PolicyInv PROVE RequestsAreLogged
    OBVIOUS
  <2>1. RecordedRequests <= max_requests
    BY FetchFacts
  <2>2. \A q \in QueryIds : q <= Len(pages) =>
         Cardinality({i \in DOMAIN searches : searches[i].query = q /\ searches[i].ok}) = 1
    <3>1. \A q \in QueryIds : q <= Len(pages) => q \in 1 .. Len(pages)
      BY PlanFacts, GroupsFacts DEF Pages
    <3> QED BY <3>1 DEF InspirationInv, SearchesLogged
  <2>3. LogInOrder /\ WithinPolicy
    BY DEF PolicyInv
  <2> QED BY <2>1, <2>2, <2>3, FetchFacts DEF InspirationInv, SearchesLogged, RequestsAreLogged
<1> QED BY <1>1, InspirationInvariant, PolicyHolds, PTL

(***************************************************************************)
(* The feedback.                                                           *)
(***************************************************************************)

\* A hit is found once: queries and ranks tell hits apart.
LEMMA HitsAreDistinct ==
  ASSUME NEW p \in Pages
  PROVE  \A i, j \in DOMAIN HitsOf(p) : HitsOf(p)[i] = HitsOf(p)[j] => i = j
<1> DEFINE rows == [q \in DOMAIN p |-> [i \in DOMAIN p[q] |-> Hit(q, i, p[q][i])]]
           N == Len(p)
           Once(s) == \A i, j \in DOMAIN s : s[i] = s[j] => i = j
           Until(s, n) == \A i \in DOMAIN s : s[i].query \in 1 .. n
<1>1. p \in Seq(Seq(Records)) /\ N \in Nat /\ N <= Len(Plan) /\ DOMAIN p = 1 .. N
  BY DEF Pages
<1>2. ASSUME NEW q \in 1 .. N
      PROVE  /\ rows[q] \in Seq(HitRecords) /\ Once(rows[q])
             /\ \A i \in DOMAIN rows[q] : rows[q][i].query = q
  <2>1. p[q] \in Seq(Records) /\ Len(p[q]) \in Nat /\ DOMAIN p[q] = 1 .. Len(p[q])
    BY <1>1
  <2>2. q \in QueryIds
    BY <1>1, PlanFacts
  <2>3. rows[q] = [i \in 1 .. Len(p[q]) |-> Hit(q, i, p[q][i])]
    BY <1>1, <2>1
  <2>4. ASSUME NEW i \in 1 .. Len(p[q]) PROVE Hit(q, i, p[q][i]) \in HitRecords
    BY <2>1, <2>2 DEF Hit, HitRecords
  <2> HIDE DEF rows
  <2>5. rows[q] \in [1 .. Len(p[q]) -> HitRecords]
    BY <2>3, <2>4
  <2>6. \A i \in 1 .. Len(p[q]) : rows[q][i].query = q /\ rows[q][i].rank = i
    BY <2>3 DEF Hit
  <2>7. \A i, j \in 1 .. Len(p[q]) : rows[q][i] = rows[q][j] => i = j
    BY <2>6
  <2> QED BY <2>1, <2>5, <2>6, <2>7
<1>3. rows \in Seq(Seq(HitRecords)) /\ Len(rows) = N
  <2>1. rows \in [1 .. N -> Seq(HitRecords)]
    <3>1. rows = [q \in 1 .. N |-> rows[q]]
      BY <1>1
    <3> HIDE DEF rows
    <3> QED BY <1>2, <3>1
  <2> HIDE DEF rows, N
  <2> QED BY <1>1, <2>1
<1> HIDE DEF rows, N
<1>4. Once(FlattenSeq(rows)) /\ FlattenSeq(rows) \in Seq(HitRecords)
  <2>0. FlattenSeq(rows) \in Seq(HitRecords)
    BY <1>3, FlattenType
  <2>1. CASE N = 0
    <3>1. FlattenSeq(rows) = <<>>
      BY <1>3, <2>1 DEF FlattenSeq
    <3> QED BY <2>0, <3>1
  <2>2. CASE N # 0
    <3>1. PICK f : Joins(f, rows) /\ FlattenSeq(rows) = f[Len(rows)]
      BY <1>3, <2>2, FlattenJoins
    <3> DEFINE Good(n) == f[n] \in Seq(HitRecords) /\ Once(f[n]) /\ Until(f[n], n)
               B == {n \in Nat : n + 1 <= N => Good(n + 1)}
    <3>2. 0 \in B
      <4> SUFFICES ASSUME 1 <= N PROVE Good(1)
        OBVIOUS
      <4>1. 1 \in 1 .. N /\ f[1] = rows[1]
        BY <1>1, <1>3, <3>1 DEF Joins
      <4> QED BY <1>2, <4>1
    <3>3. ASSUME NEW n \in B PROVE n + 1 \in B
      <4> SUFFICES ASSUME n + 2 <= N PROVE Good(n + 2)
        OBVIOUS
      <4> DEFINE m == n + 2
                 s == f[n + 1]
                 t == rows[m]
      <4>1. n \in Nat /\ Good(n + 1) /\ m \in 1 .. N /\ m # 1 /\ m - 1 = n + 1 /\ m \in Nat
        BY <1>1
      <4>2. f[m] = s \o t
        <5> HIDE DEF m
        <5> QED BY <1>3, <3>1, <4>1 DEF Joins
      <4>3. s \in Seq(HitRecords) /\ Once(s) /\ \A i \in DOMAIN s : s[i].query \in 1 .. n + 1
        BY <4>1
      <4>4. t \in Seq(HitRecords) /\ Once(t) /\ \A i \in DOMAIN t : t[i].query = m
        <5> HIDE DEF m
        <5> QED BY <1>2, <4>1
      <4>5. m = n + 2
        OBVIOUS
      <4> HIDE DEF m, s, t, B, Once
      <4>6. /\ s \o t \in Seq(HitRecords) /\ Len(s) \in Nat /\ Len(t) \in Nat
            /\ DOMAIN s = 1 .. Len(s) /\ DOMAIN t = 1 .. Len(t)
            /\ DOMAIN (s \o t) = 1 .. Len(s) + Len(t)
            /\ \A i \in 1 .. Len(s) : (s \o t)[i] = s[i]
            /\ \A i \in Len(s) + 1 .. Len(s) + Len(t) : (s \o t)[i] = t[i - Len(s)]
        BY <4>3, <4>4
      <4>7. ASSUME NEW i \in DOMAIN (s \o t)
            PROVE  \/ i \in DOMAIN s /\ (s \o t)[i] = s[i] /\ s[i].query \in 1 .. n + 1
                   \/ /\ i - Len(s) \in DOMAIN t /\ (s \o t)[i] = t[i - Len(s)]
                      /\ t[i - Len(s)].query = m
        <5>1. CASE i <= Len(s)
          <6>1. i \in 1 .. Len(s)
            BY <4>6, <5>1
          <6> QED BY <4>3, <4>6, <6>1
        <5>2. CASE i > Len(s)
          <6>1. i - Len(s) \in 1 .. Len(t) /\ i \in Len(s) + 1 .. Len(s) + Len(t)
            BY <4>6, <5>2
          <6> QED BY <4>4, <4>6, <6>1
        <5> QED BY <4>6, <5>1, <5>2
      <4>8. m \notin 1 .. n + 1 /\ 1 .. n + 1 \subseteq 1 .. m /\ m \in 1 .. m
        BY <4>1, <4>5
      <4>9. Until(s \o t, m)
        BY <4>7, <4>8
      <4>10. Once(s \o t)
        <5> SUFFICES ASSUME NEW i \in DOMAIN (s \o t), NEW j \in DOMAIN (s \o t),
                            (s \o t)[i] = (s \o t)[j]
                     PROVE  i = j
          BY DEF Once
        <5>1. CASE i \in DOMAIN s /\ (s \o t)[i] = s[i] /\ s[i].query \in 1 .. n + 1
          <6>1. j \in DOMAIN s /\ (s \o t)[j] = s[j]
            BY <4>7, <4>8, <5>1
          <6> QED BY <4>3, <5>1, <6>1 DEF Once
        <5>2. CASE /\ i - Len(s) \in DOMAIN t /\ (s \o t)[i] = t[i - Len(s)]
                   /\ t[i - Len(s)].query = m
          <6>1. j - Len(s) \in DOMAIN t /\ (s \o t)[j] = t[j - Len(s)]
            BY <4>7, <4>8, <5>2
          <6>2. i - Len(s) = j - Len(s)
            BY <4>4, <5>2, <6>1 DEF Once
          <6> QED BY <4>6, <6>2
        <5> QED BY <4>7, <5>1, <5>2
      <4> QED BY <4>2, <4>5, <4>6, <4>9, <4>10
    <3>4. B = Nat
      <4>1. B \in SUBSET Nat
        OBVIOUS
      <4> HIDE DEF B
      <4> QED BY <3>2, <3>3, <4>1, SetInduction
    <3>5. N - 1 \in B /\ (N - 1) + 1 = N /\ N <= N
      <4> HIDE DEF B
      <4> QED BY <1>1, <2>2, <3>4
    <3>6. Good(N)
      <4>1. N - 1 \in B => ((N - 1) + 1 <= N => Good((N - 1) + 1))
        OBVIOUS
      <4> HIDE DEF Good, B
      <4> QED BY <3>5, <4>1
    <3> HIDE DEF B
    <3> QED BY <1>3, <3>1, <3>6
  <2> QED BY <2>1, <2>2
<1>5. HitsOf(p) = Prefix(FlattenSeq(rows), Budget["hits"])
  BY DEF HitsOf, rows
<1>6. \A i \in DOMAIN HitsOf(p) :
         i \in DOMAIN FlattenSeq(rows) /\ HitsOf(p)[i] = FlattenSeq(rows)[i]
  BY <1>4, <1>5, Budgets, PrefixFacts
<1> QED BY <1>4, <1>6

\* A sequence whose elements are distinct is as long as its set of elements is large.
LEMMA DistinctLength ==
  ASSUME NEW S, NEW s \in Seq(S), \A i, j \in DOMAIN s : s[i] = s[j] => i = j
  PROVE  IsFiniteSet(ToSet(s)) /\ Cardinality(ToSet(s)) = Len(s)
<1> DEFINE N == Len(s)
           f == [i \in 1 .. N |-> s[i]]
<1>1. N \in Nat /\ DOMAIN s = 1 .. N /\ ToSet(s) = {s[i] : i \in 1 .. N}
  BY ToSetType
<1>2. f \in [1 .. N -> ToSet(s)] /\ \A i, j \in 1 .. N : f[i] = f[j] => i = j
  BY <1>1
<1>3. \A x \in ToSet(s) : \E i \in 1 .. N : f[i] = x
  BY <1>1
<1> HIDE DEF f, N
<1>4. f \in Bijection(1 .. N, ToSet(s))
  BY <1>2, <1>3 DEF Bijection, Injection, Surjection, IsInjective
<1>5. IsFiniteSet(1 .. N) /\ Cardinality(1 .. N) = N
  BY <1>1, IntervalFacts
<1>6. ExistsBijection(1 .. N, ToSet(s))
  BY <1>4 DEF ExistsBijection
<1>7. IsFiniteSet(ToSet(s)) /\ Cardinality(ToSet(s)) = N
  BY <1>5, <1>6, FS_Bijection
<1> QED BY <1>7 DEF N

\* Sets of a finite set, one for each query, add up to at least what they cover.
LEMMA ColumnsAddUp ==
  ASSUME NEW S, IsFiniteSet(S), NEW F \in [QueryIds -> SUBSET S],
         \A x \in S : \E q \in QueryIds : x \in F[q]
  PROVE  LET w == [q \in QueryIds |-> Cardinality(F[q])]
         IN  /\ w \in [QueryIds -> Nat] /\ SumFunction(w) \in Nat
             /\ Cardinality(S) \in Nat /\ Cardinality(S) <= SumFunction(w)
             /\ (\A p, q \in QueryIds : p # q => F[p] \cap F[q] = {})
                  => Cardinality(S) = SumFunction(w)
<1> DEFINE w == [q \in QueryIds |-> Cardinality(F[q])]
<1>1. IsFiniteSet(QueryIds)
  BY PlanFacts, IntervalFacts
<1>2. \A q \in QueryIds : IsFiniteSet(F[q]) /\ Cardinality(F[q]) \in Nat
  BY FS_Subset, FS_CardinalityType
<1>3. w \in [QueryIds -> Nat] /\ \A q \in QueryIds : w[q] = Cardinality(F[q])
  BY <1>2
<1>4. UNION {F[q] : q \in QueryIds} = S
  OBVIOUS
<1> HIDE DEF w
<1>5. /\ SumFunction(w) \in Nat
      /\ Cardinality(UNION {F[q] : q \in QueryIds}) <= SumFunction(w)
      /\ (\A p, q \in QueryIds : p # q => F[p] \cap F[q] = {})
           => Cardinality(UNION {F[q] : q \in QueryIds}) = SumFunction(w)
  <2> DEFINE Q == QueryIds
  <2>1. /\ IsFiniteSet(Q) /\ w \in [Q -> Nat]
        /\ \A q \in Q : IsFiniteSet(F[q]) /\ w[q] = Cardinality(F[q])
    BY <1>1, <1>2, <1>3
  <2> HIDE DEF Q
  <2>2. SumFunction(w) \in Nat
    BY <2>1, SumOfSizes
  <2>3. Cardinality(UNION {F[q] : q \in Q}) <= SumFunction(w)
    BY <2>1, SumOfSizes
  <2>4. (\A p, q \in Q : p # q => F[p] \cap F[q] = {})
          => Cardinality(UNION {F[q] : q \in Q}) = SumFunction(w)
    BY <2>1, SumOfSizes
  <2> QED BY <2>2, <2>3, <2>4 DEF Q
<1>6. Cardinality(S) \in Nat
  BY FS_CardinalityType
<1> QED BY <1>3, <1>4, <1>5, <1>6 DEF w

\* The requests of all queries are the attempts there are.
LEMMA RequestsAddUp ==
  ASSUME NEW log \in Seq(SearchAttempts)
  PROVE  SumFunction([q \in QueryIds |-> Cardinality({i \in DOMAIN log : log[i].query \in {q}})])
           = Len(log)
<1> DEFINE S == DOMAIN log
           F == [q \in QueryIds |-> {i \in S : log[i].query \in {q}}]
           w == [q \in QueryIds |-> Cardinality(F[q])]
<1>1. Len(log) \in Nat /\ S = 1 .. Len(log) /\ \A i \in S : log[i] \in SearchAttempts
  OBVIOUS
<1>2. IsFiniteSet(S) /\ Cardinality(S) = Len(log)
  BY <1>1, IntervalFacts
<1>3. \A i \in S : log[i].query \in QueryIds
  BY <1>1 DEF SearchAttempts
<1> HIDE DEF S
<1>4. /\ F \in [QueryIds -> SUBSET S] /\ \A i \in S : \E q \in QueryIds : i \in F[q]
      /\ \A p, q \in QueryIds : p # q => F[p] \cap F[q] = {}
  BY <1>3
<1>5. [q \in QueryIds |-> Cardinality({i \in DOMAIN log : log[i].query \in {q}})] = w
  BY DEF S
<1> HIDE DEF F
<1>6. SumFunction(w) = Cardinality(S)
  BY <1>2, <1>4, ColumnsAddUp
<1> HIDE DEF w
<1> QED BY <1>2, <1>5, <1>6

\* The hits of all queries are the hits there are, and a document is in the row of
\* each query that led to it.
LEMMA HitsAddUp ==
  ASSUME NEW p \in Pages
  PROVE  LET hits == HitsOf(p)
             found(q) == {h \in ToSet(hits) : h.query \in {q}}
         IN  /\ SumFunction([q \in QueryIds |-> Cardinality(found(q))]) = Len(hits)
             /\ SumFunction([q \in QueryIds |-> Cardinality({Listed(h) : h \in found(q)})])
                  >= Cardinality(DocumentsOf(hits))
<1> DEFINE hits == HitsOf(p)
           H == ToSet(hits)
           D == DocumentsOf(hits)
           found(q) == {h \in H : h.query \in {q}}
           F == [q \in QueryIds |-> found(q)]
           G == [q \in QueryIds |-> {Listed(h) : h \in found(q)}]
           v == [q \in QueryIds |-> Cardinality(F[q])]
           w == [q \in QueryIds |-> Cardinality(G[q])]
<1>1. hits \in Seq(HitRecords) /\ \A h \in H : h \in HitRecords /\ h.query \in QueryIds
  BY HitsFacts DEF HitRecords
<1>2. IsFiniteSet(H) /\ Cardinality(H) = Len(hits)
  BY <1>1, HitsAreDistinct, DistinctLength
<1>3. IsFiniteSet(D) /\ D = {Listed(h) : h \in H}
  BY <1>1, DocumentsFacts DEF DocumentsOf
<1> HIDE DEF H, D
<1>4. /\ F \in [QueryIds -> SUBSET H] /\ \A h \in H : \E q \in QueryIds : h \in F[q]
      /\ \A q, r \in QueryIds : q # r => F[q] \cap F[r] = {}
  BY <1>1
<1>5. G \in [QueryIds -> SUBSET D] /\ \A d \in D : \E q \in QueryIds : d \in G[q]
  BY <1>1, <1>3
<1>6. /\ [q \in QueryIds |-> Cardinality(found(q))] = v
      /\ [q \in QueryIds |-> Cardinality({Listed(h) : h \in found(q)})] = w
  OBVIOUS
<1> HIDE DEF F, G, found
<1>7. SumFunction(v) = Cardinality(H)
  BY <1>2, <1>4, ColumnsAddUp
<1>8. SumFunction(w) \in Nat /\ Cardinality(D) \in Nat /\ Cardinality(D) <= SumFunction(w)
  BY <1>3, <1>5, ColumnsAddUp
<1>9. SumFunction(w) >= Cardinality(D)
  BY <1>8
<1>10. SumFunction([q \in QueryIds |-> Cardinality(found(q))]) = Len(hits)
  BY <1>2, <1>6, <1>7
<1>11. SumFunction([q \in QueryIds |-> Cardinality({Listed(h) : h \in found(q)})])
         >= Cardinality(D)
  BY <1>6, <1>9
<1> QED BY <1>10, <1>11 DEF D, H, found

\* Each recorded request is charged to a query.
LEMMA FetchesAddUp ==
  ASSUME NEW A \in SUBSET Allocations, IsFiniteSet(A)
  PROVE  SumFunction([q \in QueryIds |->
             SumFunction([a \in {x \in A : x.queries \cap {q} # {}} |-> a.requests])])
           >= SumFunction([a \in A |-> a.requests])
<1> DEFINE w == [a \in A |-> a.requests]
           Part(q) == {x \in A : x.queries \cap {q} # {}}
           part(q) == [a \in Part(q) |-> a.requests]
           S == Units(w, A)
           F == [q \in QueryIds |-> Units(w, Part(q))]
           v == [q \in QueryIds |-> Cardinality(F[q])]
<1>1. w \in [A -> Nat] /\ \A a \in A : \E q \in QueryIds : a \in Part(q)
  BY DEF Allocations
<1>2. IsFiniteSet(S) /\ SumFunction(w) = Cardinality(S)
  <2> HIDE DEF w
  <2> QED BY <1>1, TotalFacts, SumTotal DEF Total
<1>3. ASSUME NEW q \in QueryIds PROVE SumFunction(part(q)) = v[q]
  <2> DEFINE P == Part(q)
             u == part(q)
  <2>1. P \subseteq A /\ IsFiniteSet(P)
    BY FS_Subset
  <2>2. u \in [P -> Nat] /\ \A a \in P : u[a] = w[a]
    BY <1>1
  <2> HIDE DEF P, u, w
  <2>3. SumFunction(u) = Cardinality(Units(u, P))
    BY <2>1, <2>2, SumTotal DEF Total
  <2>4. Units(u, P) = Units(w, P)
    BY <2>2 DEF Units
  <2>5. v[q] = Cardinality(Units(w, P))
    BY DEF P
  <2> QED BY <2>3, <2>4, <2>5 DEF u
<1>4. /\ F \in [QueryIds -> SUBSET S]
      /\ \A x \in S : \E q \in QueryIds : x \in F[q]
  <2>1. \A q \in QueryIds : Part(q) \subseteq A
    OBVIOUS
  <2> HIDE DEF w, Part
  <2> QED BY <1>1, <2>1 DEF Units
<1>5. [q \in QueryIds |-> SumFunction(part(q))] = v
  <2>1. v = [q \in QueryIds |-> v[q]]
    OBVIOUS
  <2> HIDE DEF v, part
  <2> QED BY <1>3, <2>1
<1> HIDE DEF S, F
<1>6. SumFunction(v) \in Nat /\ Cardinality(S) \in Nat /\ Cardinality(S) <= SumFunction(v)
  BY <1>2, <1>4, ColumnsAddUp
<1> HIDE DEF v
<1>7. SumFunction([q \in QueryIds |-> SumFunction(part(q))]) >= SumFunction(w)
  BY <1>2, <1>5, <1>6
<1> QED BY <1>7

\* A rule stands as supported exactly if it misses nothing, and as not executed
\* only if no query was.
LEMMA StandingFacts ==
  ASSUME NEW cards, NEW p \in Pages, NEW r \in Rules
  PROVE  LET packets == Packets(cards, Len(p))
             missing == Rule[r].required \ SupportTags(CardsOf(cards, r))
         IN  /\ RuleStanding(r, p, packets) = "SEARCH_SUPPORTED"
                  <=> missing = {} /\ \E q \in DOMAIN p : Plan[q].rule = r
             /\ RuleStanding(r, p, packets) = "NOT_EXECUTED" =>
                  \A q \in DOMAIN p : Plan[q].rule # r
<1> DEFINE packets == Packets(cards, Len(p))
           missing == Rule[r].required \ SupportTags(CardsOf(cards, r))
           answered == \E q \in DOMAIN p : Plan[q].rule = r
<1>1. DOMAIN p = 1 .. Len(p) /\ Len(p) \in Nat /\ Len(p) <= Len(Plan)
      /\ QueryIds = 1 .. Len(Plan) /\ Len(Plan) \in Nat
  BY PlanFacts DEF Pages
<1>2. QueriesOf(r, Len(p)) # {} <=> answered
  BY <1>1 DEF QueriesOf
<1>3. (\E x \in packets : x.rule = r) <=> r \in SupportedRules(cards, Len(p))
  <2> DEFINE packet(n) == [rule |-> n, cards |-> CardsOf(cards, n)]
  <2>1. packets = {packet(n) : n \in SupportedRules(cards, Len(p))}
    BY DEF Packets
  <2>2. \A n : packet(n).rule = n
    OBVIOUS
  <2> HIDE DEF packet, packets
  <2>3. ASSUME NEW x \in packets, x.rule = r PROVE r \in SupportedRules(cards, Len(p))
    <3>1. PICK n \in SupportedRules(cards, Len(p)) : x = packet(n)
      BY <2>1
    <3> QED BY <2>2, <2>3, <3>1
  <2>4. ASSUME r \in SupportedRules(cards, Len(p)) PROVE \E x \in packets : x.rule = r
    BY <2>1, <2>2, <2>4
  <2> QED BY <2>3, <2>4
<1>4. r \in SupportedRules(cards, Len(p)) <=> missing = {} /\ answered
  BY <1>2 DEF SupportedRules
<1>5. QueriesOf(r, Len(Plan)) \cap DOMAIN p = {} => ~answered
  BY <1>1 DEF QueriesOf
<1> HIDE DEF packets, missing, answered
<1>6. /\ (\E x \in packets : x.rule = r) => RuleStanding(r, p, packets) = "SEARCH_SUPPORTED"
      /\ ~(\E x \in packets : x.rule = r) => RuleStanding(r, p, packets) # "SEARCH_SUPPORTED"
      /\ RuleStanding(r, p, packets) = "NOT_EXECUTED" => QueriesOf(r, Len(Plan)) \cap DOMAIN p = {}
  BY DEF RuleStanding, Executed
<1> QED BY <1>3, <1>4, <1>5, <1>6 DEF packets, missing, answered

\* What a step does to the answer: nothing, or it is an error, or a compiled bundle.
LEMMA ResultFacts ==
  ASSUME InspirationInv, [Next]_vars
  PROVE  \/ UNCHANGED vars
         \/ result'.kind # "BUNDLE"
         \/ /\ pc = "fetch" /\ group = Len(Groups)
            /\ UNCHANGED <<max_requests, pages, searches, group, fetches, manifest>>
            /\ \E parents \in ParentPools, policy \in Policies :
                 \E found, evidence, packets, drafts, pool, target, selected :
                   Compiled(parents, policy.quota, found, evidence, packets, drafts, pool,
                            target, selected)
<1>1. pc # "done" => result.kind # "BUNDLE"
  BY DEF InspirationInv, RunHolds, Pending
<1>2. CASE Done \/ UNCHANGED vars
  BY <1>2 DEF Done
<1>3. CASE SearchNext
  <2>1. /\ pc = "search"
        /\ result' = result \/ \E code : result' = [kind |-> "RAISED", code |-> code]
    BY <1>3 DEF SearchNext, SearchSucceeds, PageIsMalformed, SearchRetried, SearchFails,
       WaitBudgetExceeded, GroupDocuments, FailSearch, Raise, Searching, Paced
  <2> QED BY <1>1, <2>1
<1>4. CASE FetchNext
  <2>1. pc = "fetch"
    BY <1>4 DEF FetchNext, LeaveBody, BeginFetch, BeginFetchFails, FetchBudgetExhausted,
     ResolveFails, FetchRetried, FetchGivesUp, FetchRefused, RedirectFollowed,
     RedirectRefused, FetchSucceeds, Fetching, Ready, Request, Processing
  <2>2. ASSUME NEW category, NEW attempts, NEW bytes, FetchFails(category, attempts, bytes)
        PROVE  result' = result \/ \E code : result' = [kind |-> "RAISED", code |-> code]
    BY <2>2 DEF FetchFails, Raise
  <2>3. result' = result \/ \E code : result' = [kind |-> "RAISED", code |-> code]
    BY <1>4, <2>2 DEF FetchNext, LeaveBody, BeginFetch, BeginFetchFails, FetchBudgetExhausted,
     ResolveFails, FetchRetried, FetchGivesUp, FetchRefused, RedirectFollowed,
     RedirectRefused, FetchSucceeds
  <2> QED BY <1>1, <2>1, <2>3
<1>5. CASE Compile
  <2>1. pc = "fetch" /\ group = Len(Groups)
        /\ UNCHANGED <<max_requests, pages, searches, group, fetches, manifest>>
    BY <1>5, CompileFacts
  <2>2. CASE Raise("WALLTIME_BUDGET_EXCEEDED")
    BY <2>2 DEF Raise
  <2>3. ASSUME NEW parents \in ParentPools, NEW policy \in Policies,
               Answer(parents, policy.quota), result'.kind = "BUNDLE"
        PROVE  \E found, evidence, packets, drafts, pool, target, selected :
                 Compiled(parents, policy.quota, found, evidence, packets, drafts, pool, target,
                          selected)
    <3>1. \/ \E code : pc' = "done" /\ result' = [kind |-> "RAISED", code |-> code]
          \/ pc' = "done" /\ \E found, evidence, packets, drafts, pool, target, selected :
               Compiled(parents, policy.quota, found, evidence, packets, drafts, pool, target,
                        selected)
      BY <2>3, AnswerFacts
    <3> QED BY <2>3, <3>1
  <2> QED BY <1>5, <2>1, <2>2, <2>3 DEF Compile
<1> QED BY <1>2, <1>3, <1>4, <1>5 DEF Next

\* What the feedback of a compiled bundle says of queries and rules.
LEMMA CompiledReconciles ==
  ASSUME InspirationInv, NEW cards, NEW found, NEW packets, packets = Packets(cards, Len(pages))
  PROVE  LET feedback == Feedback(pages, searches, Hits, found, cards, packets, fetches)
             rows == feedback.queries
             rules == feedback.rules
         IN  /\ SumFunction([q \in QueryIds |-> rows[q].requests]) = Len(searches)
             /\ SumFunction([q \in QueryIds |-> rows[q].hits]) = Len(Hits)
             /\ SumFunction([q \in QueryIds |-> rows[q].fetches]) >= RecordedRequests
             /\ SumFunction([q \in QueryIds |-> rows[q].documents]) >= Len(Groups)
             /\ \A r \in Rules :
                  /\ (rules[r].standing = "SEARCH_SUPPORTED") =
                       (rules[r].missing = {} /\ \E q \in DOMAIN pages : Plan[q].rule = r)
                  /\ rules[r].standing = "NOT_EXECUTED" =>
                       \A q \in DOMAIN pages : Plan[q].rule # r
<1> DEFINE feedback == Feedback(pages, searches, Hits, found, cards, packets, fetches)
           rows == feedback.queries
           rules == feedback.rules
           row(q) == Yield({q}, searches, Hits, found, cards, packets, fetches)
           A == fetches
           mine(q) == {h \in ToSet(Hits) : h.query \in {q}}
<1>1. /\ pages \in Pages /\ searches \in Seq(SearchAttempts)
      /\ A \in SUBSET Allocations /\ IsFiniteSet(A)
      /\ Len(Groups) = Cardinality(DocumentsOf(Hits)) /\ Hits = HitsOf(pages)
  BY GroupsFacts, RecordedFacts DEF InspirationInv, RunHolds, SearchAttempts, Hits
<1>2. rows = [q \in QueryIds |-> row(q)]
  BY DEF Feedback
<1>3. \A q \in QueryIds :
        /\ row(q).requests = Cardinality({i \in DOMAIN searches : searches[i].query \in {q}})
        /\ row(q).hits = Cardinality(mine(q))
        /\ row(q).documents = Cardinality({Listed(h) : h \in mine(q)})
        /\ row(q).fetches =
             SumFunction([a \in {x \in A : x.queries \cap {q} # {}} |-> a.requests])
  BY DEF Yield
<1>4. \A q \in QueryIds : rows[q] = row(q)
  <2> HIDE DEF row, rows
  <2> QED BY <1>2
<1> HIDE DEF row, rows
<1>5. [q \in QueryIds |-> rows[q].requests] =
        [q \in QueryIds |-> Cardinality({i \in DOMAIN searches : searches[i].query \in {q}})]
  BY <1>3, <1>4
<1>6. /\ [q \in QueryIds |-> rows[q].hits] = [q \in QueryIds |-> Cardinality(mine(q))]
      /\ [q \in QueryIds |-> rows[q].documents] =
           [q \in QueryIds |-> Cardinality({Listed(h) : h \in mine(q)})]
  <2> HIDE DEF mine
  <2> QED BY <1>3, <1>4
<1>7. [q \in QueryIds |-> rows[q].fetches] =
        [q \in QueryIds |->
           SumFunction([a \in {x \in A : x.queries \cap {q} # {}} |-> a.requests])]
  <2> DEFINE sum(q) == SumFunction([a \in {x \in A : x.queries \cap {q} # {}} |-> a.requests])
  <2>1. \A q \in QueryIds : rows[q].fetches = sum(q)
    BY <1>3, <1>4
  <2> HIDE DEF sum
  <2>2. [q \in QueryIds |-> rows[q].fetches] = [q \in QueryIds |-> sum(q)]
    BY <2>1
  <2> QED BY <2>2 DEF sum
<1>8. SumFunction([q \in QueryIds |-> rows[q].requests]) = Len(searches)
  BY <1>1, <1>5, RequestsAddUp
<1>9. /\ SumFunction([q \in QueryIds |-> rows[q].hits]) = Len(Hits)
      /\ SumFunction([q \in QueryIds |-> rows[q].documents]) >= Len(Groups)
  BY <1>1, <1>6, HitsAddUp
<1>10. SumFunction([q \in QueryIds |-> rows[q].fetches]) >= RecordedRequests
  BY <1>1, <1>7, FetchesAddUp DEF RecordedRequests
<1>11. \A r \in Rules :
         /\ (rules[r].standing = "SEARCH_SUPPORTED") =
              (rules[r].missing = {} /\ \E q \in DOMAIN pages : Plan[q].rule = r)
         /\ rules[r].standing = "NOT_EXECUTED" => \A q \in DOMAIN pages : Plan[q].rule # r
  <2> SUFFICES ASSUME NEW r \in Rules
               PROVE  /\ (rules[r].standing = "SEARCH_SUPPORTED") =
                           (rules[r].missing = {} /\ \E q \in DOMAIN pages : Plan[q].rule = r)
                      /\ rules[r].standing = "NOT_EXECUTED" =>
                           \A q \in DOMAIN pages : Plan[q].rule # r
    OBVIOUS
  <2>1. /\ rules[r].standing = RuleStanding(r, pages, packets)
        /\ rules[r].missing = Rule[r].required \ SupportTags(CardsOf(cards, r))
    BY DEF Feedback
  <2> HIDE DEF rules
  <2>2. /\ RuleStanding(r, pages, packets) = "SEARCH_SUPPORTED"
             <=> /\ Rule[r].required \ SupportTags(CardsOf(cards, r)) = {}
                 /\ \E q \in DOMAIN pages : Plan[q].rule = r
        /\ RuleStanding(r, pages, packets) = "NOT_EXECUTED" =>
             \A q \in DOMAIN pages : Plan[q].rule # r
    BY <1>1, StandingFacts
  <2> QED BY <2>1, <2>2
<1> HIDE DEF rules
<1> QED BY <1>8, <1>9, <1>10, <1>11 DEF rows, rules

\* The feedback agrees with the ledger and with the pages.
THEOREM FeedbackAgrees == Spec => []FeedbackReconciles
<1>1. Init => FeedbackReconciles
  BY DEF Init, Pending, FeedbackReconciles
<1>2. InspirationInv /\ FeedbackReconciles /\ [Next]_vars => FeedbackReconciles'
  <2> SUFFICES ASSUME InspirationInv, FeedbackReconciles, [Next]_vars
               PROVE  FeedbackReconciles'
    OBVIOUS
  <2>1. CASE UNCHANGED vars
    BY <2>1 DEF FeedbackReconciles, vars
  <2>2. CASE result'.kind # "BUNDLE"
    BY <2>2 DEF FeedbackReconciles
  <2>3. ASSUME NEW parents \in ParentPools, NEW policy \in Policies,
               NEW found, NEW cards, NEW packets, NEW drafts, NEW pool, NEW target, NEW selected,
               Compiled(parents, policy.quota, found, cards, packets, drafts, pool, target,
                        selected), pages' = pages
        PROVE  FeedbackReconciles'
    <3> DEFINE feedback == Feedback(pages, searches, Hits, found, cards, packets, fetches)
    <3>1. /\ packets = Packets(cards, Len(pages)) /\ result'.feedback = feedback
          /\ result'.ledger.search_requests = Len(searches)
          /\ result'.ledger.raw_documents = Len(Hits)
          /\ result'.ledger.fetch_requests = RecordedRequests
          /\ result'.ledger.unique_documents = Len(Groups)
      <4>1. packets = Packets(cards, Len(pages)) /\ result'.feedback = feedback
            /\ result'.ledger = Ledger(found, drafts, pool)
        BY <2>3 DEF Compiled, Bundle
      <4> QED BY <4>1 DEF Ledger
    <3>2. LET rows == feedback.queries
              rules == feedback.rules
          IN  /\ SumFunction([q \in QueryIds |-> rows[q].requests]) = Len(searches)
              /\ SumFunction([q \in QueryIds |-> rows[q].hits]) = Len(Hits)
              /\ SumFunction([q \in QueryIds |-> rows[q].fetches]) >= RecordedRequests
              /\ SumFunction([q \in QueryIds |-> rows[q].documents]) >= Len(Groups)
              /\ \A r \in Rules :
                   /\ (rules[r].standing = "SEARCH_SUPPORTED") =
                        (rules[r].missing = {} /\ \E q \in DOMAIN pages : Plan[q].rule = r)
                   /\ rules[r].standing = "NOT_EXECUTED" =>
                        \A q \in DOMAIN pages : Plan[q].rule # r
      BY <3>1, CompiledReconciles
    <3> HIDE DEF feedback
    <3> QED BY <2>3, <3>1, <3>2 DEF FeedbackReconciles
  <2> QED BY <2>1, <2>2, <2>3, ResultFacts
<1> QED BY <1>1, <1>2, InspirationInvariant, PTL DEF Spec

(***************************************************************************)
(* Pools and their order.                                                  *)
(***************************************************************************)

\* What the selection relies on: one candidate for each structure.
SoundPool(pool) ==
  /\ IsFiniteSet(pool)
  /\ \A c \in pool :
       /\ c.structure \in DOMAIN StructureOrder
       /\ Len(StructureOrder[c.structure].species) # 0
       /\ IsFiniteSet(c.mechanisms) /\ IsFiniteSet(c.families) /\ IsFiniteSet(c.routes)
  /\ \A a, b \in pool : a.structure = b.structure => a = b

\* A pool in order is the pool, each candidate once.
LEMMA InOrderFacts ==
  ASSUME NEW pool, SoundPool(pool), NEW part \in SUBSET pool
  PROVE  /\ InOrder(part) \in Seq(part) /\ Len(InOrder(part)) \in Nat
         /\ DOMAIN InOrder(part) = 1 .. Len(InOrder(part))
         /\ ToSet(InOrder(part)) = part
         /\ \A c \in part : \E i \in DOMAIN InOrder(part) : InOrder(part)[i] = c
         /\ \A i, j \in DOMAIN InOrder(part) : InOrder(part)[i] = InOrder(part)[j] => i = j
<1> DEFINE key == [c \in part |-> c.structure]
           D == {key[c] : c \in part}
           D1 == {c.structure : c \in part}
           order == Ascending(D)
           N == Cardinality(D)
           s == InOrder(part)
<1>0. IsFiniteSet(part) /\ DOMAIN key = part /\ D = D1
  BY FS_Subset DEF SoundPool
<1>1. IsFiniteSet(D)
  <2> HIDE DEF key
  <2> QED BY <1>0, FiniteImage
<1>2. D \in SUBSET Nat
  <2>1. DOMAIN StructureOrder \subseteq Nat
    BY SelectionAssumption
  <2> QED BY <2>1 DEF SoundPool
<1>3. /\ N \in Nat /\ Len(order) = N /\ order \in Seq(D)
      /\ \A x \in D : \E n \in 1 .. N : order[n] = x
      /\ \A m, n \in 1 .. N : m < n => order[m] < order[n]
  <2> HIDE DEF D
  <2> QED BY <1>1, <1>2, AscendingFacts
<1>4. s = [i \in DOMAIN order |-> CHOOSE c \in part : c.structure = order[i]]
  <2>1. s = [i \in DOMAIN Ascending(D1) |-> CHOOSE c \in part : c.structure = Ascending(D1)[i]]
    BY DEF InOrder
  <2> HIDE DEF D, D1
  <2> QED BY <1>0, <2>1
<1>5. DOMAIN order = 1 .. N
  <2> HIDE DEF order, D, N
  <2> QED BY <1>3
<1>6. \A i \in 1 .. N : order[i] \in D
  <2> HIDE DEF order, D, N
  <2> QED BY <1>3, <1>5
<1>7. \A i \in 1 .. N : s[i] \in part /\ s[i].structure = order[i]
  <2> SUFFICES ASSUME NEW i \in 1 .. N PROVE s[i] \in part /\ s[i].structure = order[i]
    OBVIOUS
  <2>1. \E c \in part : c.structure = order[i]
    <3> HIDE DEF order, N
    <3> QED BY <1>6
  <2> HIDE DEF order, s, N
  <2> QED BY <1>4, <1>5, <2>1
<1> HIDE DEF s, order, N
<1>8. DOMAIN s = 1 .. N
  BY <1>4, <1>5
<1>9. s \in [1 .. N -> part]
  BY <1>4, <1>5, <1>7
<1>10. s \in Seq(part) /\ Len(s) = N
  BY <1>3, <1>9
<1>11. \A i, j \in 1 .. N : s[i] = s[j] => i = j
  <2> SUFFICES ASSUME NEW i \in 1 .. N, NEW j \in 1 .. N, s[i] = s[j], i # j PROVE FALSE
    OBVIOUS
  <2>1. order[i] = order[j] /\ order[i] \in Nat
    BY <1>2, <1>6, <1>7
  <2>2. i < j \/ j < i
    BY <1>3
  <2> HIDE DEF D
  <2> QED BY <1>2, <1>3, <1>6, <2>1, <2>2
<1>12. ASSUME NEW c \in part PROVE \E i \in 1 .. N : s[i] = c
  <2>1. c.structure \in D
    OBVIOUS
  <2>2. PICK i \in 1 .. N : order[i] = c.structure
    <3> HIDE DEF D
    <3> QED BY <1>3, <2>1
  <2>3. s[i] = c
    BY <1>7, <2>2 DEF SoundPool
  <2> QED BY <2>3
<1>13. ToSet(s) = part
  BY <1>7, <1>8, <1>12 DEF ToSet
<1> QED BY <1>3, <1>8, <1>10, <1>11, <1>12, <1>13 DEF s

(***************************************************************************)
(* The best of those that are left.                                        *)
(***************************************************************************)

\* Products and shares of integers are integers.
LEMMA Products ==
  \A x, y \in Int : x * y \in Int /\ (y > 0 => x \div y \in Int)
  OBVIOUS

\* The distance of two finite sets is a number.
LEMMA JaccardType ==
  ASSUME NEW a, NEW b, IsFiniteSet(a), IsFiniteSet(b)
  PROVE  Jaccard(a, b) \in Int
<1>1. CASE a \cup b = {}
  BY <1>1 DEF Jaccard
<1>2. CASE a \cup b # {}
  <2>1. IsFiniteSet(a \cup b) /\ IsFiniteSet(a \cap b)
    BY FS_Union, FS_Intersection
  <2>2. Cardinality(a \cup b) \in Nat /\ Cardinality(a \cap b) \in Nat
    BY <2>1, FS_CardinalityType
  <2>3. Cardinality(a \cup b) > 0
    BY <1>2, <2>1, <2>2, FS_EmptySet
  <2>4. PICK all \in Nat : all = Cardinality(a \cup b)
    BY <2>2
  <2>5. PICK both \in Nat : both = Cardinality(a \cap b)
    BY <2>2
  <2>6. Jaccard(a, b) = ((all - both) * Unit) \div all
    BY <1>2, <2>4, <2>5 DEF Jaccard
  <2>7. (all - both) * Unit \in Int /\ all > 0
    BY <2>3, <2>4 DEF Unit
  <2> QED BY <2>6, <2>7, Products
<1> QED BY <1>1, <1>2

\* So is the distance of two compositions of a pool ...
LEMMA CompositionDistanceType ==
  ASSUME NEW pool, SoundPool(pool), NEW a \in pool, NEW b \in pool
  PROVE  CompositionDistance(a.structure, b.structure) \in Int
<1> DEFINE share(s, e) == Share(StructureOrder[s], e, Unit)
           gap(e) == IF share(a.structure, e) > share(b.structure, e)
                     THEN share(a.structure, e) - share(b.structure, e)
                     ELSE share(b.structure, e) - share(a.structure, e)
           w == [e \in Elements |-> gap(e)]
<1>1. ASSUME NEW c \in pool, NEW e PROVE share(c.structure, e) \in Int
  <2> DEFINE species == StructureOrder[c.structure].species
             places == {i \in DOMAIN species : species[i][1] = e}
  <2>1. Len(species) \in Nat /\ Len(species) # 0 /\ DOMAIN species = 1 .. Len(species)
    <3>1. StructureOrder[c.structure] \in
             [frame : DOMAIN Frame, species : Seq(Elements \X SUBSET (-2 .. 4))]
      <4> DEFINE T == [frame : DOMAIN Frame, species : Seq(Elements \X SUBSET (-2 .. 4))]
      <4>1. StructureOrder \in Seq(T) /\ c.structure \in DOMAIN StructureOrder
        BY SelectionAssumption DEF SoundPool
      <4>2. StructureOrder[c.structure] \in T
        <5> HIDE DEF T
        <5> QED BY <4>1
      <4> QED BY <4>2
    <3>2. species \in Seq(Elements \X SUBSET (-2 .. 4))
      BY <3>1
    <3>3. Len(species) # 0
      BY DEF SoundPool
    <3> HIDE DEF species
    <3> QED BY <3>2, <3>3
  <2>2. Cardinality(places) \in Nat
    <3>1. IsFiniteSet(DOMAIN species) /\ places \in SUBSET DOMAIN species
      BY <2>1, IntervalFacts
    <3>2. IsFiniteSet(places)
      <4> HIDE DEF species, places
      <4> QED BY <3>1, FS_Subset
    <3> QED BY <3>2, FS_CardinalityType
  <2>3. share(c.structure, e) = (Cardinality(places) * Unit) \div Len(species)
    BY DEF Share
  <2> HIDE DEF species, places
  <2>4. Cardinality(places) * Unit \in Int /\ Len(species) > 0 /\ Len(species) \in Int
    BY <2>1, <2>2 DEF Unit
  <2> QED BY <2>3, <2>4, Products
<1>2. \A e \in Elements : gap(e) \in Nat
  <2> HIDE DEF share
  <2> QED BY <1>1
<1>3. CompositionDistance(a.structure, b.structure) = SumFunction(w) \div 2
  BY DEF CompositionDistance
<1>4. w \in [Elements -> Nat]
  <2> HIDE DEF gap
  <2> QED BY <1>2
<1>5. IsFiniteSet(Elements)
  <2>1. Elements = {"S", "Se", "Fe"} \cup {"Co"} /\ {"S", "Se", "Fe"} = {"S", "Se"} \cup {"Fe"}
        /\ {"S", "Se"} = {"S"} \cup {"Se"}
    BY DEF Elements
  <2> QED BY <2>1, FS_Singleton, FS_Union
<1> HIDE DEF w
<1>6. SumFunction(w) \in Nat
  BY <1>4, <1>5, SumTotal, TotalFacts
<1> QED BY <1>3, <1>6, Products

\* ... that of two candidates ...
LEMMA DistanceType ==
  ASSUME NEW pool, SoundPool(pool), NEW a \in pool, NEW b \in pool
  PROVE  Distance(a, b) \in Int
<1>1. ASSUME NEW c \in pool PROVE IsFiniteSet(Features(c))
  <2> DEFINE R == c.routes
             f == [r \in R |-> <<"route", r.parent>>]
             g == [r \in R |-> <<"parent", r.parent>>]
             h == [r \in R |-> <<"bridge", r.rule>>]
  <2>1. IsFiniteSet(R)
    BY DEF SoundPool
  <2>2. Features(c) = {f[r] : r \in R} \cup {g[r] : r \in R} \cup {h[r] : r \in R}
    BY DEF Features
  <2>3. DOMAIN f = R /\ DOMAIN g = R /\ DOMAIN h = R
    OBVIOUS
  <2> HIDE DEF f, g, h, R
  <2>4. IsFiniteSet({f[r] : r \in R}) /\ IsFiniteSet({g[r] : r \in R})
        /\ IsFiniteSet({h[r] : r \in R})
    BY <2>1, <2>3, FiniteImage
  <2>5. PICK A, B, C : A = {f[r] : r \in R} /\ B = {g[r] : r \in R} /\ C = {h[r] : r \in R}
    OBVIOUS
  <2>6. Features(c) = (A \cup B) \cup C /\ IsFiniteSet(A) /\ IsFiniteSet(B) /\ IsFiniteSet(C)
    BY <2>2, <2>4, <2>5
  <2>7. IsFiniteSet(A \cup B)
    BY <2>6, FS_Union
  <2>8. IsFiniteSet((A \cup B) \cup C)
    BY <2>6, <2>7, FS_Union
  <2> QED BY <2>6, <2>8
<1>2. Jaccard(Features(a), Features(b)) \in Int /\ Jaccard(a.mechanisms, b.mechanisms) \in Int
  BY <1>1, JaccardType DEF SoundPool
<1>3. CompositionDistance(a.structure, b.structure) \in Int
  BY CompositionDistanceType
<1>4. /\ Weight["structure"] \in Int /\ Weight["composition"] \in Int
      /\ Weight["route"] \in Int /\ Weight["mechanism"] \in Int
  BY SelectionAssumption
<1>5. (IF a.shape = b.shape THEN 0 ELSE Unit) \in Int
  BY DEF Unit
<1>6. /\ Weight["structure"] * (IF a.shape = b.shape THEN 0 ELSE Unit) \in Int
      /\ Weight["composition"] * CompositionDistance(a.structure, b.structure) \in Int
      /\ Weight["route"] * Jaccard(Features(a), Features(b)) \in Int
      /\ Weight["mechanism"] * Jaccard(a.mechanisms, b.mechanisms) \in Int
  BY <1>2, <1>3, <1>4, <1>5, Products
<1> QED BY <1>6 DEF Distance

\* ... and what a candidate adds to a selection.
LEMMA ScoreType ==
  ASSUME NEW pool, SoundPool(pool), NEW c \in pool, NEW chosen \in SUBSET pool
  PROVE  Score(c, chosen) \in Int
<1>1. Redundancy(c, chosen) \in Int
  <2>1. CASE chosen = {}
    BY <2>1 DEF Redundancy
  <2>2. CASE chosen # {}
    <3> DEFINE f == [x \in chosen |-> Distance(c, x)]
               D == {f[x] : x \in chosen}
               least == CHOOSE n \in D : \A x \in chosen : n <= f[x]
    <3>1. \A x \in chosen : f[x] \in Int
      BY DistanceType
    <3>2. IsFiniteSet(chosen) /\ DOMAIN f = chosen
      BY FS_Subset DEF SoundPool
    <3>3. least = CHOOSE n \in {Distance(c, x) : x \in chosen} :
                    \A x \in chosen : n <= Distance(c, x)
      <4>1. D = {Distance(c, x) : x \in chosen}
        OBVIOUS
      <4>2. \A x \in chosen : f[x] = Distance(c, x)
        OBVIOUS
      <4> HIDE DEF f
      <4> QED BY <4>1, <4>2
    <3> HIDE DEF f
    <3>4. D \in SUBSET Int /\ IsFiniteSet(D) /\ D # {}
      BY <2>2, <3>1, <3>2, FiniteImage
    <3>5. \E n \in D : \A x \in chosen : n <= f[x]
      <4>1. \A x \in chosen : f[x] \in D
        OBVIOUS
      <4> HIDE DEF D
      <4> QED BY <3>4, <4>1, BoundsExist
    <3>6. least \in D
      <4> HIDE DEF D
      <4> QED BY <3>5
    <3>7. Redundancy(c, chosen) = 100 * Unit - least
      BY <2>2, <3>3 DEF Redundancy
    <3>8. least \in Int
      <4> HIDE DEF D, least
      <4> QED BY <3>4, <3>6
    <3> HIDE DEF least
    <3> QED BY <3>7, <3>8 DEF Unit
  <2> QED BY <2>1, <2>2
<1>2. Weight["quality"] \in Int /\ Weight["coverage"] \in Int /\ Weight["redundancy"] \in Int
  BY SelectionAssumption
<1>3. PICK r \in Int : r = Redundancy(c, chosen) \div 100
  BY <1>1
<1>4. (2 * Weight["redundancy"]) * r \in Int
      /\ (Weight["quality"] + 2 * Weight["coverage"]) * Unit \in Int
  BY <1>2, Products DEF Unit
<1> QED BY <1>3, <1>4 DEF Score

\* There is a best candidate, and it is one that was eligible.
LEMMA BestFacts ==
  ASSUME NEW pool, SoundPool(pool), NEW eligible \in SUBSET pool, eligible # {},
         NEW chosen \in SUBSET pool
  PROVE  Best(eligible, chosen) \in eligible
<1> DEFINE score == [c \in pool |-> Score(c, chosen)]
           place == [c \in pool |-> c.structure]
           R == {pair \in eligible \X eligible :
                   \/ score[pair[1]] > score[pair[2]]
                   \/ /\ score[pair[1]] = score[pair[2]]
                      /\ place[pair[1]] < place[pair[2]]}
           Wins(c) == \A x \in eligible \ {c} :
                        \/ score[c] > score[x]
                        \/ score[c] = score[x] /\ place[c] < place[x]
<1>1. \A c \in eligible : score[c] \in Int /\ place[c] \in Int
  <2>1. DOMAIN StructureOrder \subseteq Int
    BY SelectionAssumption
  <2> QED BY <2>1, ScoreType DEF SoundPool
<1>2. \A a, b \in eligible : place[a] = place[b] => a = b
  BY DEF SoundPool
<1>3. Best(eligible, chosen) = CHOOSE c \in eligible : Wins(c)
  <2>1. \A c \in eligible : Wins(c) <=>
          \A x \in eligible \ {c} :
            \/ Score(c, chosen) > Score(x, chosen)
            \/ Score(c, chosen) = Score(x, chosen) /\ c.structure < x.structure
    <3>1. \A c \in pool : score[c] = Score(c, chosen) /\ place[c] = c.structure
      OBVIOUS
    <3> HIDE DEF score, place
    <3> QED BY <3>1
  <2> HIDE DEF Wins
  <2> QED BY <2>1 DEF Best
<1>4. IsFiniteSet(eligible)
  BY FS_Subset DEF SoundPool
<1> HIDE DEF score, place
<1>5. Orders(R, eligible)
  BY <1>1, <1>2 DEF Orders
<1>6. \A a, b \in eligible : <<a, b>> \in R =>
        score[a] > score[b] \/ (score[a] = score[b] /\ place[a] < place[b])
  OBVIOUS
<1> HIDE DEF R
<1>7. \E c \in eligible : Wins(c)
  <2>1. PICK c \in eligible : \A x \in eligible \ {c} : <<c, x>> \in R
    BY <1>4, <1>5, LeastExists
  <2> QED BY <1>6, <2>1
<1> HIDE DEF Wins
<1> QED BY <1>3, <1>7

(***************************************************************************)
(* What the hard quotas allow.                                             *)
(***************************************************************************)

\* The mechanisms of some candidates are finitely many, and more candidates have
\* no fewer.
LEMMA CoveredFacts ==
  ASSUME NEW pool, SoundPool(pool), NEW T \in SUBSET pool, NEW S \in SUBSET T
  PROVE  /\ IsFiniteSet(Covered(T)) /\ Cardinality(Covered(T)) \in Nat
         /\ IsFiniteSet(Covered(S)) /\ Cardinality(Covered(S)) \in Nat
         /\ Covered(S) \subseteq Covered(T)
         /\ Cardinality(Covered(S)) <= Cardinality(Covered(T))
<1> DEFINE F == [c \in T |-> c.mechanisms]
<1>1. IsFiniteSet(T)
  BY FS_Subset DEF SoundPool
<1>2. \A c \in T : IsFiniteSet(F[c])
  BY DEF SoundPool
<1>4. Covered(T) = UNION {F[c] : c \in T}
  BY DEF Covered
<1>5. IsFiniteSet(Covered(T))
  <2>1. Covered(T) = UnionOver(F, T)
    BY <1>4 DEF UnionOver
  <2> HIDE DEF F
  <2> QED BY <1>1, <1>2, <2>1, UnionIsFinite
<1>6. Covered(S) \in SUBSET Covered(T)
  BY DEF Covered
<1> QED BY <1>5, <1>6, FS_Subset, FS_CardinalityType

\* The members of a family.
LEMMA FamilyFacts ==
  ASSUME NEW T, IsFiniteSet(T), NEW S \in SUBSET T, NEW f
  PROVE  /\ IsFiniteSet({x \in T : f \in x.families})
         /\ InFamily(T, f) \in Nat /\ InFamily(S, f) \in Nat
         /\ InFamily(S, f) <= InFamily(T, f)
<1> DEFINE of(X) == {x \in X : f \in x.families}
<1>1. of(T) \in SUBSET T /\ of(S) \in SUBSET of(T)
  OBVIOUS
<1>2. InFamily(T, f) = Cardinality(of(T)) /\ InFamily(S, f) = Cardinality(of(S))
  BY DEF InFamily
<1> HIDE DEF of
<1>3. IsFiniteSet(of(T)) /\ IsFiniteSet(of(S))
      /\ Cardinality(of(S)) <= Cardinality(of(T))
  BY <1>1, FS_Subset
<1> QED BY <1>2, <1>3, FS_CardinalityType DEF of

\* One member more, of some families.
LEMMA FamilyAdds ==
  ASSUME NEW S, IsFiniteSet(S), NEW c, c \notin S, NEW f
  PROVE  InFamily(S \cup {c}, f) = IF f \in c.families THEN InFamily(S, f) + 1
                                   ELSE InFamily(S, f)
<1> DEFINE of == {x \in S : f \in x.families}
           more == {x \in S \cup {c} : f \in x.families}
<1>1. of \in SUBSET S /\ c \notin of
  OBVIOUS
<1>2. more = IF f \in c.families THEN of \cup {c} ELSE of
  OBVIOUS
<1>3. InFamily(S, f) = Cardinality(of) /\ InFamily(S \cup {c}, f) = Cardinality(more)
  BY DEF InFamily
<1> HIDE DEF of, more
<1>4. IsFiniteSet(of)
  BY <1>1, FS_Subset
<1> QED BY <1>1, <1>2, <1>3, <1>4, FS_AddElement

\* Nobody in a set that is allowed stands in the way of a part of it.
LEMMA AllowedParts ==
  ASSUME NEW T, IsFiniteSet(T), Allowed(T), NEW S \in SUBSET T
  PROVE  Allowed(S) /\ IsFiniteSet(S) /\ \A c \in T \ S : Eligible(c, S)
<1>1. IsFiniteSet(S) /\ Cardinality(S) \in Nat /\ Cardinality(T) \in Nat
      /\ Cardinality(S) <= Cardinality(T)
  BY FS_Subset, FS_CardinalityType
<1>2. TopK \in Nat /\ MaxPerFamily \in Nat
  BY SelectionAssumption
<1>3. \A f \in UNION {x.families : x \in T} : InFamily(T, f) <= MaxPerFamily
  BY DEF Allowed, InFamily
<1>4. Allowed(S)
  <2>1. Cardinality(S) <= TopK
    BY <1>1, <1>2 DEF Allowed
  <2>2. \A f \in UNION {x.families : x \in S} : InFamily(S, f) <= MaxPerFamily
    <3>1. \A f \in UNION {x.families : x \in S} :
            InFamily(S, f) \in Nat /\ InFamily(T, f) \in Nat
              /\ InFamily(S, f) <= InFamily(T, f) /\ InFamily(T, f) <= MaxPerFamily
      BY <1>3, FamilyFacts
    <3> QED BY <1>2, <3>1
  <2> QED BY <2>1, <2>2 DEF Allowed, InFamily
<1>5. ASSUME NEW c \in T \ S PROVE Eligible(c, S)
  <2>1. EligibleByShape(c, S)
    BY <1>5 DEF EligibleByShape, Allowed
  <2>2. ASSUME NEW f \in c.families PROVE InFamily(S, f) < MaxPerFamily
    <3>1. S \cup {c} \in SUBSET T /\ f \in UNION {x.families : x \in T}
      OBVIOUS
    <3>2. InFamily(S \cup {c}, f) = InFamily(S, f) + 1
      BY <1>1, FamilyAdds
    <3>3. InFamily(S \cup {c}, f) <= InFamily(T, f) /\ InFamily(T, f) \in Nat
          /\ InFamily(S, f) \in Nat /\ InFamily(T, f) <= MaxPerFamily
      BY <1>3, <3>1, FamilyFacts
    <3> QED BY <1>2, <3>2, <3>3
  <2> QED BY <2>1, <2>2 DEF Eligible
<1> QED BY <1>1, <1>4, <1>5

\* Who is eligible may join.
LEMMA AllowedAdds ==
  ASSUME NEW S, IsFiniteSet(S), Allowed(S), Cardinality(S) < TopK, NEW c, Eligible(c, S)
  PROVE  c \notin S /\ Allowed(S \cup {c}) /\ IsFiniteSet(S \cup {c})
<1>1. c \notin S
  BY DEF Eligible, EligibleByShape
<1>2. IsFiniteSet(S \cup {c}) /\ Cardinality(S) \in Nat
      /\ Cardinality(S \cup {c}) = Cardinality(S) + 1
  BY <1>1, FS_AddElement, FS_CardinalityType
<1>3. TopK \in Nat /\ MaxPerFamily \in Nat
  BY SelectionAssumption
<1>4. \A x, y \in S \cup {c} : x # y => x.shape # y.shape
  BY DEF Eligible, EligibleByShape, Allowed
<1>5. ASSUME NEW f \in UNION {x.families : x \in S \cup {c}}
      PROVE  InFamily(S \cup {c}, f) <= MaxPerFamily
  <2>1. InFamily(S, f) \in Nat
    BY FamilyFacts
  <2>2. InFamily(S \cup {c}, f) = IF f \in c.families THEN InFamily(S, f) + 1
                                   ELSE InFamily(S, f)
    BY <1>1, FamilyAdds
  <2>3. CASE f \in c.families
    BY <1>3, <2>1, <2>2, <2>3 DEF Eligible
  <2>4. CASE f \notin c.families
    <3>1. f \in UNION {x.families : x \in S}
      BY <2>4
    <3>2. InFamily(S, f) <= MaxPerFamily
      BY <3>1 DEF Allowed, InFamily
    <3> QED BY <2>2, <2>4, <3>2
  <2> QED BY <2>3, <2>4
<1> QED BY <1>1, <1>2, <1>3, <1>4, <1>5 DEF Allowed, InFamily

\* Nobody alone breaks a quota.
LEMMA AllowedAlone ==
  /\ Allowed({}) /\ IsFiniteSet({})
  /\ \A c : Allowed({c}) /\ IsFiniteSet({c}) /\ Cardinality({c}) = 1
<1>1. TopK \in Nat /\ 0 < TopK /\ MaxPerFamily \in Nat /\ 0 < MaxPerFamily
  BY SelectionAssumption
<1>2. Allowed({}) /\ IsFiniteSet({}) /\ Cardinality({}) = 0
  BY <1>1, FS_EmptySet DEF Allowed
<1>3. ASSUME NEW c PROVE Allowed({c}) /\ IsFiniteSet({c}) /\ Cardinality({c}) = 1
  <2>1. Eligible(c, {})
    <3>1. \A f : InFamily({}, f) = 0
      <4>1. \A f : {x \in {} : f \in x.families} = {}
        OBVIOUS
      <4> QED BY <4>1, <1>2 DEF InFamily
    <3> QED BY <1>1, <3>1 DEF Eligible, EligibleByShape
  <2>2. Allowed({} \cup {c})
    BY <1>1, <1>2, <2>1, AllowedAdds
  <2>3. {} \cup {c} = {c}
    OBVIOUS
  <2> QED BY <2>2, <2>3, FS_Singleton
<1> QED BY <1>2, <1>3

(***************************************************************************)
(* Selections grow from the witness while somebody is eligible.            *)
(***************************************************************************)

\* Selections the quotas allow, nobody twice, and all of base.
Selections(pool, base) ==
  {s \in Seq(pool) : /\ IsFiniteSet(ToSet(s)) /\ Cardinality(ToSet(s)) = Len(s)
                     /\ Allowed(ToSet(s)) /\ base \subseteq ToSet(s)}

LeftOf(pool, s) == {c \in pool \ ToSet(s) : Eligible(c, ToSet(s))}

\* One more candidate leaves a selection a selection; it stays as it is when it is
\* full or nobody is left.
LEMMA OneMoreFacts ==
  ASSUME NEW pool, SoundPool(pool), NEW base, NEW s \in Selections(pool, base)
  PROVE  /\ OneMore(LeftOf(pool, s), s) \in Selections(pool, base)
         /\ LeftOf(pool, s) = {} \/ Len(s) >= TopK => OneMore(LeftOf(pool, s), s) = s
         /\ LeftOf(pool, s) # {} /\ Len(s) < TopK =>
              Len(OneMore(LeftOf(pool, s), s)) = Len(s) + 1
<1>1. Len(s) \in Nat /\ s \in Seq(pool) /\ ToSet(s) \subseteq pool /\ TopK \in Nat
  BY SelectionAssumption, ToSetType DEF Selections
<1>2. CASE LeftOf(pool, s) = {} \/ Len(s) >= TopK
  BY <1>1, <1>2 DEF OneMore
<1>3. CASE LeftOf(pool, s) # {} /\ Len(s) < TopK
  <2> DEFINE c == Best(LeftOf(pool, s), ToSet(s))
             t == Append(s, c)
  <2>1. c \in LeftOf(pool, s)
    <3>1. LeftOf(pool, s) \in SUBSET pool
      BY DEF LeftOf
    <3> QED BY <1>1, <1>3, <3>1, BestFacts
  <2>2. OneMore(LeftOf(pool, s), s) = t
    BY <1>1, <1>3 DEF OneMore
  <2> HIDE DEF c
  <2>3. c \in pool /\ Eligible(c, ToSet(s))
    BY <2>1 DEF LeftOf
  <2>4. t \in Seq(pool) /\ Len(t) = Len(s) + 1
        /\ \A i \in 1 .. Len(s) + 1 : t[i] = IF i <= Len(s) THEN s[i] ELSE c
    BY <1>1, <2>3
  <2>5. ToSet(t) = ToSet(s) \cup {c}
    <3>1. ToSet(t) = {t[i] : i \in 1 .. Len(s) + 1} /\ ToSet(s) = {s[i] : i \in 1 .. Len(s)}
      <4> HIDE DEF t
      <4> QED BY <1>1, <2>4, ToSetType
    <3>2. \A i \in 1 .. Len(s) : i \in 1 .. Len(s) + 1 /\ t[i] = s[i]
      BY <1>1, <2>4
    <3>3. Len(s) + 1 \in 1 .. Len(s) + 1 /\ t[Len(s) + 1] = c
      BY <1>1, <2>4
    <3>4. \A i \in 1 .. Len(s) + 1 : i \in 1 .. Len(s) \/ i = Len(s) + 1
      BY <1>1
    <3> HIDE DEF t
    <3> QED BY <3>1, <3>2, <3>3, <3>4
  <2>6. /\ c \notin ToSet(s) /\ Allowed(ToSet(s) \cup {c})
        /\ IsFiniteSet(ToSet(s) \cup {c})
        /\ Cardinality(ToSet(s) \cup {c}) = Cardinality(ToSet(s)) + 1
    <3>1. PICK S : S = ToSet(s)
      OBVIOUS
    <3>2. IsFiniteSet(S) /\ Cardinality(S) = Len(s) /\ Allowed(S)
      BY <3>1 DEF Selections
    <3>3. Cardinality(S) < TopK /\ Eligible(c, S)
      BY <1>3, <2>3, <3>1, <3>2
    <3>4. c \notin S /\ Allowed(S \cup {c}) /\ IsFiniteSet(S \cup {c})
      BY <3>2, <3>3, AllowedAdds
    <3>5. Cardinality(S \cup {c}) = Cardinality(S) + 1
      BY <3>2, <3>4, FS_AddElement
    <3> QED BY <3>1, <3>4, <3>5
  <2> HIDE DEF t
  <2>7. t \in Selections(pool, base)
    BY <2>4, <2>5, <2>6 DEF Selections
  <2> QED BY <1>3, <1>1, <2>2, <2>4, <2>7
<1> QED BY <1>1, <1>2, <1>3

\* The selection is allowed, holds its witness, and nobody can be added.
LEMMA SelectFacts ==
  ASSUME NEW pool, SoundPool(pool), NEW target,
         NEW base \in SUBSET pool, base = IF target = 0 THEN {} ELSE Witness(pool, target),
         Allowed(base)
  PROVE  /\ Select(pool, target) \in Selections(pool, base)
         /\ Len(Select(pool, target)) = TopK \/ LeftOf(pool, Select(pool, target)) = {}
<1> DEFINE V == Selections(pool, base)
           first == InOrder(base)
           step(s) == OneMore(LeftOf(pool, s), s)
           Is(f) == f = [k \in 0 .. TopK |-> IF k = 0 THEN first ELSE step(f[k - 1])]
           more == CHOOSE f : Is(f)
           next == [n \in 1 .. TopK |-> [s \in V |-> step(s)]]
<1>1. TopK \in Nat
  BY SelectionAssumption
<1>2. Select(pool, target) = more[TopK]
  <2>1. first = InOrder(IF target = 0 THEN {} ELSE Witness(pool, target))
    OBVIOUS
  <2> HIDE DEF first
  <2> QED BY <2>1 DEF Select, LeftOf
<1>3. first \in V
  <2>1. /\ InOrder(base) \in Seq(base) /\ ToSet(InOrder(base)) = base
        /\ \A i, j \in DOMAIN InOrder(base) : InOrder(base)[i] = InOrder(base)[j] => i = j
    BY InOrderFacts
  <2>2. InOrder(base) \in Seq(pool)
    BY <2>1, SeqSubset
  <2>3. IsFiniteSet(ToSet(first)) /\ Cardinality(ToSet(first)) = Len(first)
    BY <2>1, DistinctLength
  <2> QED BY <2>1, <2>2, <2>3 DEF Selections
<1>4. \A s \in V : step(s) \in V
  BY OneMoreFacts
<1> HIDE DEF first, V, step
<1>5. next \in [1 .. TopK -> [V -> V]]
  BY <1>4
<1>6. PICK g \in [0 .. TopK -> V] : Steps(g, TopK, first, next)
  <2> HIDE DEF next
  <2> QED BY <1>1, <1>3, <1>5, StepsExist
<1>7. Is(g)
  <2>1. \A n \in 1 .. TopK : n - 1 \in 0 .. TopK /\ g[n] = next[n][g[n - 1]]
    BY <1>1, <1>6 DEF Steps
  <2>2. \A n \in 1 .. TopK : g[n] = step(g[n - 1])
    BY <1>6, <2>1
  <2>3. g[0] = first /\ DOMAIN g = 0 .. TopK
    BY <1>6 DEF Steps
  <2>4. \A n \in 0 .. TopK : g[n] = IF n = 0 THEN first ELSE step(g[n - 1])
    BY <1>1, <2>2, <2>3
  <2> QED BY <1>6, <2>4
<1>8. Is(more)
  <2> HIDE DEF Is
  <2> QED BY <1>7
<1> HIDE DEF more
<1>9. more[0] = first /\ \A k \in 1 .. TopK : more[k] = step(more[k - 1])
  BY <1>1, <1>8
<1> DEFINE Full(s) == Len(s) >= TopK \/ LeftOf(pool, s) = {}
           B == {n \in Nat : n <= TopK =>
                   more[n] \in V /\ (Len(more[n]) >= n \/ Full(more[n]))}
<1>10. \A s \in V : Len(s) \in Nat /\ (Full(s) => step(s) = s)
                    /\ (~Full(s) => Len(step(s)) = Len(s) + 1)
  <2> SUFFICES ASSUME NEW s \in V
               PROVE  Len(s) \in Nat /\ (Full(s) => step(s) = s)
                      /\ (~Full(s) => Len(step(s)) = Len(s) + 1)
    OBVIOUS
  <2>1. Len(s) \in Nat
    BY DEF V, Selections
  <2> QED BY <1>1, <2>1, OneMoreFacts DEF V, step
<1>11. 0 \in B
  BY <1>3, <1>9, <1>10
<1>12. ASSUME NEW n \in B PROVE n + 1 \in B
  <2> SUFFICES ASSUME n + 1 <= TopK
               PROVE  /\ more[n + 1] \in V
                      /\ Len(more[n + 1]) >= n + 1 \/ Full(more[n + 1])
    OBVIOUS
  <2>1. n \in Nat /\ n + 1 \in 1 .. TopK /\ (n + 1) - 1 = n /\ n <= TopK
    BY <1>1
  <2>2. more[n] \in V /\ (Len(more[n]) >= n \/ Full(more[n]))
    BY <2>1
  <2>3. more[n + 1] = step(more[n])
    BY <1>9, <2>1
  <2> HIDE DEF Full
  <2>4. CASE Full(more[n])
    BY <1>4, <1>10, <2>2, <2>3, <2>4
  <2>5. CASE ~Full(more[n])
    <3>1. Len(more[n]) \in Nat /\ Len(more[n]) >= n /\ Len(step(more[n])) = Len(more[n]) + 1
      BY <1>10, <2>2, <2>5
    <3> QED BY <1>4, <2>1, <2>2, <2>3, <3>1
  <2> QED BY <2>4, <2>5
<1>13. B = Nat
  <2>1. B \in SUBSET Nat
    OBVIOUS
  <2> HIDE DEF B
  <2> QED BY <1>11, <1>12, <2>1, SetInduction
<1>14. more[TopK] \in V /\ Full(more[TopK])
  <2>1. TopK \in B
    BY <1>1, <1>13
  <2> QED BY <1>1, <2>1
<1>15. Len(more[TopK]) \in Nat /\ Len(more[TopK]) <= TopK
  BY <1>14 DEF V, Selections, Allowed
<1> QED BY <1>1, <1>2, <1>14, <1>15 DEF V

(***************************************************************************)
(* The deep search.                                                        *)
(***************************************************************************)

\* The parts of DeepWitness, with the recursive function as a parameter.
Chosen(order, S) == {order[i] : i \in S}
Covers(order, target, S) == Cardinality(Covered(Chosen(order, S))) >= target
Adding(order, i, S) ==
  /\ ~(order[i].mechanisms \subseteq Covered(Chosen(order, S)))
  /\ Eligible(order[i], Chosen(order, S))
Potential(order, start, S) ==
  Covered(Chosen(order, S)) \cup
    Covered({order[i] : i \in {j \in start .. Len(order) :
                                 Eligible(order[j], Chosen(order, S))}})
Stuck(order, target, start, S) ==
  Cardinality(S) >= TopK \/ Cardinality(Potential(order, start, S)) < target
Branches(order, f, start, S) ==
  {i \in start .. Len(order) : Adding(order, i, S) /\ f[i + 1][S \cup {i}] # {}}
FirstOf(S) == CHOOSE i \in S : \A j \in S : i <= j
SearchStep(order, target, f, start, S) ==
  IF Covers(order, target, S) THEN S
  ELSE IF Stuck(order, target, start, S) THEN {}
  ELSE IF Branches(order, f, start, S) = {} THEN {}
  ELSE f[FirstOf(Branches(order, f, start, S)) + 1]
        [S \cup {FirstOf(Branches(order, f, start, S))}]

Searches(f, order, target) ==
  f = [start \in 1 .. Len(order) + 1 |->
         [S \in SUBSET DOMAIN order |-> SearchStep(order, target, f, start, S)]]

\* A set of numbers of an interval has a first one.
LEMMA FirstFacts ==
  ASSUME NEW m \in Nat, NEW n \in Nat, NEW S \in SUBSET (m .. n), S # {}
  PROVE  FirstOf(S) \in S /\ \A j \in S : FirstOf(S) <= j
<1>1. IsFiniteSet(m .. n)
  BY FS_Interval
<1>2. IsFiniteSet(S)
  BY <1>1, FS_Subset
<1>3. S \in SUBSET Int
  OBVIOUS
<1>4. \E i \in S : \A j \in S : i <= j
  BY <1>2, <1>3, BoundsExist
<1> QED BY <1>4 DEF FirstOf

\* The first branch of a step extends the choice; from choices a step makes one.
LEMMA SearchStepFacts ==
  ASSUME NEW T, NEW order \in Seq(T), NEW target,
         NEW start \in 1 .. Len(order) + 1, NEW S \in SUBSET DOMAIN order, NEW f
  PROVE  /\ Branches(order, f, start, S) # {} =>
              LET i == FirstOf(Branches(order, f, start, S))
              IN  /\ i \in start .. Len(order) /\ i \in DOMAIN order
                  /\ S \cup {i} \in SUBSET DOMAIN order
                  /\ Adding(order, i, S) /\ f[i + 1][S \cup {i}] # {}
         /\ (\A i \in start .. Len(order) :
                f[i + 1] \in [SUBSET DOMAIN order -> SUBSET DOMAIN order])
              => SearchStep(order, target, f, start, S) \in SUBSET DOMAIN order
<1> DEFINE L == Len(order)
           branches == Branches(order, f, start, S)
           i == FirstOf(branches)
<1>1. L \in Nat /\ DOMAIN order = 1 .. L /\ start \in Nat
  OBVIOUS
<1>2. branches \in SUBSET (start .. L)
  BY DEF Branches
<1>3. ASSUME branches # {}
      PROVE  /\ i \in start .. L /\ i \in DOMAIN order /\ S \cup {i} \in SUBSET DOMAIN order
             /\ Adding(order, i, S) /\ f[i + 1][S \cup {i}] # {}
  <2>1. i \in branches
    <3> HIDE DEF branches, L
    <3> QED BY <1>1, <1>2, <1>3, FirstFacts
  <2>2. i \in start .. L /\ Adding(order, i, S) /\ f[i + 1][S \cup {i}] # {}
    <3> HIDE DEF i
    <3> QED BY <2>1 DEF Branches
  <2> HIDE DEF i, branches
  <2>3. i \in DOMAIN order
    BY <1>1, <2>2
  <2> QED BY <2>2, <2>3
<1>4. ASSUME \A k \in start .. L : f[k + 1] \in [SUBSET DOMAIN order -> SUBSET DOMAIN order]
      PROVE  SearchStep(order, target, f, start, S) \in SUBSET DOMAIN order
  <2>1. CASE branches = {}
    BY <2>1 DEF SearchStep
  <2>2. CASE branches # {}
    <3>1. f[i + 1][S \cup {i}] \in SUBSET DOMAIN order
      <4> HIDE DEF i
      <4> QED BY <1>3, <1>4, <2>2
    <3> QED BY <3>1 DEF SearchStep
  <2> QED BY <2>1, <2>2
<1> QED BY <1>3, <1>4

\* A step looks at later rows only.
LEMMA SearchStepLocal ==
  ASSUME NEW T, NEW order \in Seq(T), NEW target, NEW start \in 1 .. Len(order) + 1,
         NEW S \in SUBSET DOMAIN order, NEW f, NEW g,
         \A i \in start .. Len(order) : \A R \in SUBSET DOMAIN order :
           f[i + 1][R] = g[i + 1][R]
  PROVE  SearchStep(order, target, f, start, S) = SearchStep(order, target, g, start, S)
<1> DEFINE branches == Branches(order, f, start, S)
           i == FirstOf(branches)
<1>1. \A k \in start .. Len(order) : S \cup {k} \in SUBSET DOMAIN order
  OBVIOUS
<1>2. Branches(order, g, start, S) = branches
  BY <1>1 DEF Branches
<1>3. branches # {} => f[i + 1][S \cup {i}] = g[i + 1][S \cup {i}]
  <2>1. branches # {} => i \in start .. Len(order) /\ S \cup {i} \in SUBSET DOMAIN order
    BY SearchStepFacts
  <2> HIDE DEF i, branches
  <2> QED BY <2>1
<1> QED BY <1>2, <1>3 DEF SearchStep

\* There is such a function ...
LEMMA SearchExists ==
  ASSUME NEW T, NEW order \in Seq(T), NEW target
  PROVE  \E f : Searches(f, order, target)
<1> DEFINE L == Len(order)
           Sets == SUBSET DOMAIN order
           Up(s) == \E f \in [s .. L + 1 -> [Sets -> Sets]] :
                      \A a \in s .. L + 1 : \A S \in Sets :
                        f[a][S] = SearchStep(order, target, f, a, S)
           B == {s \in 1 .. L + 1 : Up(s)}
<1>1. L \in Nat /\ L + 1 \in Nat
  OBVIOUS
<1>2. ASSUME NEW s \in 1 .. L + 1, s + 1 .. L + 1 \subseteq B PROVE s \in B
  <2>1. PICK f : /\ f \in [s + 1 .. L + 1 -> [Sets -> Sets]]
                 /\ \A a \in s + 1 .. L + 1 : \A S \in Sets :
                      f[a][S] = SearchStep(order, target, f, a, S)
    <3>1. CASE s = L + 1
      <4> DEFINE e == [a \in s + 1 .. L + 1 |-> [S \in Sets |-> {}]]
      <4>1. s + 1 .. L + 1 = {}
        BY <1>1, <3>1
      <4>2. e \in [s + 1 .. L + 1 -> [Sets -> Sets]]
        OBVIOUS
      <4> HIDE DEF e
      <4> QED BY <4>1, <4>2
    <3>2. CASE s # L + 1
      <4>1. s + 1 \in s + 1 .. L + 1
        BY <1>1, <3>2
      <4>2. Up(s + 1)
        <5> HIDE DEF Up
        <5> QED BY <1>2, <4>1
      <4> QED BY <4>2
    <3> QED BY <3>1, <3>2
  <2> DEFINE row == [S \in Sets |-> SearchStep(order, target, f, s, S)]
             g == [a \in s .. L + 1 |-> IF a = s THEN row ELSE f[a]]
  <2>2. row \in [Sets -> Sets]
    <3>1. \A i \in s .. L : f[i + 1] \in [Sets -> Sets]
      <4>1. \A i \in s .. L : i + 1 \in s + 1 .. L + 1
        BY <1>1
      <4> HIDE DEF Sets, L
      <4> QED BY <2>1, <4>1
    <3>2. \A S \in Sets : SearchStep(order, target, f, s, S) \in Sets
      BY <3>1, SearchStepFacts
    <3> HIDE DEF Sets
    <3> QED BY <3>2
  <2>3. \A S \in Sets : row[S] = SearchStep(order, target, f, s, S)
    OBVIOUS
  <2> HIDE DEF row
  <2>4. g \in [s .. L + 1 -> [Sets -> Sets]]
    <3> HIDE DEF Sets
    <3>1. \A a \in s .. L + 1 : a # s => a \in s + 1 .. L + 1
      BY <1>1
    <3> QED BY <2>1, <2>2, <3>1
  <2>5. ASSUME NEW a \in s .. L + 1, NEW S \in Sets
        PROVE  g[a][S] = SearchStep(order, target, g, a, S)
    <3>1. a \in 1 .. L + 1 /\ \A i \in a .. L : i + 1 \in s .. L + 1 /\ i + 1 # s
      BY <1>1
    <3>2. \A i \in a .. L : \A R \in Sets : f[i + 1][R] = g[i + 1][R]
      <4> HIDE DEF Sets
      <4> QED BY <3>1
    <3>3. SearchStep(order, target, f, a, S) = SearchStep(order, target, g, a, S)
      <4> HIDE DEF g
      <4> QED BY <3>1, <3>2, SearchStepLocal
    <3>4. CASE a = s
      BY <2>3, <3>3, <3>4
    <3>5. CASE a # s
      <4>1. a \in s + 1 .. L + 1 /\ g[a] = f[a]
        BY <1>1, <3>5
      <4> QED BY <2>1, <3>3, <4>1
    <3> QED BY <3>4, <3>5
  <2>6. Up(s)
    <3> HIDE DEF g
    <3> QED BY <2>4, <2>5
  <2> HIDE DEF Up
  <2> QED BY <2>6
<1>3. B = 1 .. L + 1
  <2>1. B \in SUBSET (1 .. L + 1)
    OBVIOUS
  <2> HIDE DEF B, L
  <2> QED BY <1>1, <1>2, <2>1, BackInduction
<1>4. 1 \in 1 .. L + 1
  BY <1>1
<1>5. Up(1)
  <2> HIDE DEF Up
  <2> QED BY <1>3, <1>4
<1>6. PICK f \in [1 .. L + 1 -> [Sets -> Sets]] :
             \A a \in 1 .. L + 1 : \A S \in Sets : f[a][S] = SearchStep(order, target, f, a, S)
  BY <1>5
<1>7. Searches(f, order, target)
  <2> HIDE DEF L, Sets
  <2> DEFINE g == [a \in 1 .. L + 1 |-> [S \in Sets |-> SearchStep(order, target, f, a, S)]]
  <2>1. ASSUME NEW a \in 1 .. L + 1 PROVE f[a] = g[a]
    <3>1. f[a] \in [Sets -> Sets] /\ \A S \in Sets : f[a][S] = SearchStep(order, target, f, a, S)
      BY <1>6
    <3> QED BY <3>1
  <2>2. DOMAIN g = 1 .. L + 1
    OBVIOUS
  <2>3. f = g
    <3> HIDE DEF g
    <3>1. g = [a \in 1 .. L + 1 |-> g[a]]
      BY <2>2 DEF g
    <3> QED BY <1>6, <2>1, <3>1
  <2> QED BY <2>3 DEF Searches, L, Sets
<1> QED BY <1>7

\* ... and DeepWitness is its value at the beginning.
LEMMA DeepWitnessSearches ==
  ASSUME NEW T, NEW order \in Seq(T), NEW target
  PROVE  \E f : Searches(f, order, target) /\ DeepWitness(order, target) = f[1][{}]
<1> DEFINE f == CHOOSE f : Searches(f, order, target)
<1>1. Searches(f, order, target)
  BY SearchExists
<1>2. DeepWitness(order, target) = f[1][{}]
  BY DEF DeepWitness, Searches, SearchStep, Covers, Stuck, Potential, Branches, Adding,
     Chosen, FirstOf
<1> HIDE DEF f
<1> QED BY <1>1, <1>2

\* Chosen candidates: as many as their places, and one more with a place more.
LEMMA ChosenFacts ==
  ASSUME NEW pool, SoundPool(pool), NEW order \in Seq(pool),
         \A i, j \in DOMAIN order : order[i] = order[j] => i = j,
         NEW S \in SUBSET DOMAIN order
  PROVE  /\ Chosen(order, S) \in SUBSET pool /\ IsFiniteSet(Chosen(order, S))
         /\ IsFiniteSet(S) /\ Cardinality(S) \in Nat
         /\ Cardinality(Chosen(order, S)) = Cardinality(S)
         /\ \A i \in DOMAIN order :
              /\ Chosen(order, S \cup {i}) = Chosen(order, S) \cup {order[i]}
              /\ order[i] \in Chosen(order, S) <=> i \in S
<1>1. Len(order) \in Nat /\ DOMAIN order = 1 .. Len(order)
      /\ \A i \in DOMAIN order : order[i] \in pool
  OBVIOUS
<1>2. IsFiniteSet(S)
  BY <1>1, IntervalFacts, FS_Subset
<1>3. Chosen(order, S) \in SUBSET pool
  BY <1>1 DEF Chosen
<1>4. IsFiniteSet(Chosen(order, S)) /\ Cardinality(Chosen(order, S)) = Cardinality(S)
  <2> DEFINE f == [i \in S |-> order[i]]
             C == Chosen(order, S)
  <2>1. f \in [S -> C] /\ (\A i, j \in S : f[i] = f[j] => i = j)
        /\ \A c \in C : \E i \in S : f[i] = c
    BY DEF Chosen
  <2> HIDE DEF f, C
  <2>2. f \in Bijection(S, C)
    BY <2>1 DEF Bijection, Injection, Surjection, IsInjective
  <2>3. ExistsBijection(S, C)
    BY <2>2 DEF ExistsBijection
  <2> QED BY <1>2, <2>3, FS_Bijection DEF C
<1>5. \A i \in DOMAIN order :
        /\ Chosen(order, S \cup {i}) = Chosen(order, S) \cup {order[i]}
        /\ order[i] \in Chosen(order, S) <=> i \in S
  BY DEF Chosen
<1> QED BY <1>2, <1>3, <1>4, <1>5, FS_CardinalityType

\* The deep search satisfies its step equation.
LEMMA SearchUnfolds ==
  ASSUME NEW order, NEW target, NEW f, Searches(f, order, target),
         NEW s \in 1 .. Len(order) + 1, NEW S \in SUBSET DOMAIN order
  PROVE  f[s][S] = SearchStep(order, target, f, s, S)
<1> DEFINE row(a) == [X \in SUBSET DOMAIN order |-> SearchStep(order, target, f, a, X)]
<1>1. f = [a \in 1 .. Len(order) + 1 |-> row(a)]
  BY DEF Searches
<1>2. f[s] = row(s)
  <2> HIDE DEF row
  <2> QED BY <1>1
<1> QED BY <1>2

\* What the deep search returns, from wherever it starts, is allowed and covers.
LEMMA SearchIsSound ==
  ASSUME NEW pool, SoundPool(pool), NEW order \in Seq(pool),
         \A i, j \in DOMAIN order : order[i] = order[j] => i = j,
         NEW target, NEW f, Searches(f, order, target)
  PROVE  \A s \in 1 .. Len(order) + 1 : \A S \in SUBSET DOMAIN order :
           Allowed(Chosen(order, S)) /\ f[s][S] # {} =>
             /\ f[s][S] \in SUBSET DOMAIN order /\ Allowed(Chosen(order, f[s][S]))
             /\ Covers(order, target, f[s][S])
<1> DEFINE L == Len(order)
           Sets == SUBSET DOMAIN order
           Good(W) == W \in Sets /\ Allowed(Chosen(order, W)) /\ Covers(order, target, W)
           B == {s \in 1 .. L + 1 : \A S \in Sets :
                   Allowed(Chosen(order, S)) /\ f[s][S] # {} => Good(f[s][S])}
<1>1. L + 1 \in Nat
  OBVIOUS
<1>2. ASSUME NEW s \in 1 .. L + 1, s + 1 .. L + 1 \subseteq B PROVE s \in B
  <2> SUFFICES ASSUME NEW S \in Sets, Allowed(Chosen(order, S)), f[s][S] # {}
               PROVE  Good(f[s][S])
    OBVIOUS
  <2> DEFINE branches == Branches(order, f, s, S)
             i == FirstOf(branches)
  <2>1. f[s][S] = SearchStep(order, target, f, s, S)
    BY SearchUnfolds
  <2>2. CASE Covers(order, target, S)
    BY <2>1, <2>2 DEF SearchStep
  <2>3. CASE ~Covers(order, target, S)
    <3>1. ~Stuck(order, target, s, S) /\ branches # {} /\ f[s][S] = f[i + 1][S \cup {i}]
      BY <2>1, <2>3 DEF SearchStep
    <3>2. /\ i \in s .. L /\ i \in DOMAIN order /\ S \cup {i} \in Sets
          /\ Adding(order, i, S) /\ f[i + 1][S \cup {i}] # {}
      BY <3>1, SearchStepFacts
    <3> HIDE DEF i, branches
    <3>3. i + 1 \in s + 1 .. L + 1
      BY <1>1, <3>2
    <3>4. Allowed(Chosen(order, S \cup {i}))
      <4>1. IsFiniteSet(Chosen(order, S)) /\ Cardinality(S) \in Nat
            /\ Cardinality(Chosen(order, S)) = Cardinality(S)
            /\ Chosen(order, S \cup {i}) = Chosen(order, S) \cup {order[i]}
        BY <3>2, ChosenFacts
      <4>2. Cardinality(S) < TopK
        BY <3>1, <4>1, SelectionAssumption DEF Stuck
      <4>3. Eligible(order[i], Chosen(order, S))
        BY <3>2 DEF Adding
      <4> DEFINE C == Chosen(order, S)
                 c == order[i]
      <4>4. Allowed(C) /\ IsFiniteSet(C) /\ Cardinality(C) < TopK /\ Eligible(c, C)
        BY <4>1, <4>2, <4>3
      <4>5. Chosen(order, S \cup {i}) = C \cup {c}
        BY <4>1
      <4>6. Allowed(C \cup {c})
        <5> HIDE DEF C, c
        <5> QED BY <4>4, AllowedAdds
      <4> QED BY <4>5, <4>6
    <3>5. i + 1 \in B
      BY <1>2, <3>3
    <3>6. Good(f[i + 1][S \cup {i}])
      <4> HIDE DEF Good
      <4> QED BY <3>2, <3>4, <3>5
    <3> QED BY <3>1, <3>6
  <2> QED BY <2>2, <2>3
<1>3. B = 1 .. L + 1
  <2>1. B \in SUBSET (1 .. L + 1)
    OBVIOUS
  <2> HIDE DEF B, L
  <2> QED BY <1>1, <1>2, <2>1, BackInduction
<1> QED BY <1>3

\* The deep search finds something wherever there is something to be found: a
\* choice that goes on from S with places from s on.
LEMMA SearchIsComplete ==
  ASSUME NEW pool, SoundPool(pool), NEW order \in Seq(pool),
         \A i, j \in DOMAIN order : order[i] = order[j] => i = j,
         NEW target \in Nat \ {0}, NEW f, Searches(f, order, target)
  PROVE  \A s \in 1 .. Len(order) + 1 : \A S, R \in SUBSET DOMAIN order :
           /\ R \subseteq s .. Len(order) /\ Allowed(Chosen(order, S \cup R))
           /\ Covers(order, target, S \cup R)
           => f[s][S] # {}
<1> DEFINE L == Len(order)
           Sets == SUBSET DOMAIN order
           B == {s \in 1 .. L + 1 : \A S, R \in Sets :
                   /\ R \subseteq s .. L /\ Allowed(Chosen(order, S \cup R))
                   /\ Covers(order, target, S \cup R)
                   => f[s][S] # {}}
<1>1. L \in Nat /\ L + 1 \in Nat /\ DOMAIN order = 1 .. L
  OBVIOUS
<1>2. ASSUME NEW s \in 1 .. L + 1, s + 1 .. L + 1 \subseteq B PROVE s \in B
  <2> SUFFICES ASSUME NEW S \in Sets, NEW R \in Sets, R \subseteq s .. L,
                      Allowed(Chosen(order, S \cup R)), Covers(order, target, S \cup R)
               PROVE  f[s][S] # {}
    OBVIOUS
  <2> DEFINE C == Chosen(order, S)
             T == Chosen(order, S \cup R)
             branches == Branches(order, f, s, S)
             k == FirstOf(branches)
             new == {i \in R : ~(order[i].mechanisms \subseteq Covered(C))}
  <2>1. f[s][S] = SearchStep(order, target, f, s, S)
    BY SearchUnfolds
  <2>2. S \cup R \in Sets
    OBVIOUS
  <2>3. /\ T \in SUBSET pool /\ IsFiniteSet(T) /\ Cardinality(T) \in Nat
        /\ C \in SUBSET T /\ IsFiniteSet(C) /\ Cardinality(C) = Cardinality(S)
        /\ Cardinality(S) \in Nat
    <3>1. C \in SUBSET T
      BY DEF Chosen
    <3>2. T \in SUBSET pool /\ IsFiniteSet(T)
      <4> HIDE DEF Sets
      <4> QED BY <2>2, ChosenFacts DEF Sets
    <3>3. IsFiniteSet(C) /\ Cardinality(C) = Cardinality(S) /\ Cardinality(S) \in Nat
      BY ChosenFacts
    <3> HIDE DEF C, T
    <3> QED BY <3>1, <3>2, <3>3, FS_CardinalityType
  <2>4. \A i \in R : order[i] \in T /\ i \in DOMAIN order /\ i \in s .. L
    BY DEF Chosen
  <2>5. CASE Covers(order, target, S)
    <3>1. S # {}
      <4> SUFFICES ASSUME S = {} PROVE FALSE
        OBVIOUS
      <4>1. Chosen(order, S) = {}
        BY DEF Chosen
      <4>2. Covered({}) = {}
        BY DEF Covered
      <4>3. Cardinality(Covered(Chosen(order, S))) = 0
        BY <4>1, <4>2, FS_EmptySet
      <4>4. 0 >= target
        BY <2>5, <4>3 DEF Covers
      <4> QED BY <4>4
    <3> QED BY <2>1, <2>5, <3>1 DEF SearchStep
  <2>6. CASE ~Covers(order, target, S)
    <3>1. IsFiniteSet(Covered(C)) /\ Cardinality(Covered(C)) \in Nat
          /\ IsFiniteSet(Covered(T)) /\ Cardinality(Covered(T)) \in Nat
      <4> HIDE DEF C, T
      <4> QED BY <2>3, CoveredFacts
    <3>2. Cardinality(Covered(C)) < target /\ Cardinality(Covered(T)) >= target
      BY <2>6, <3>1 DEF Covers
    <3>3. new # {}
      <4> SUFFICES ASSUME new = {} PROVE FALSE
        OBVIOUS
      <4>1. \A i \in R : order[i].mechanisms \subseteq Covered(C)
        OBVIOUS
      <4>2. Covered(T) = Covered(C)
        <5>1. \A c \in T : c \in C \/ \E i \in R : c = order[i]
          BY DEF Chosen
        <5>2. \A c \in T : c.mechanisms \subseteq Covered(C)
          <6> TAKE c \in T
          <6>1. CASE c \in C
            BY <6>1 DEF Covered
          <6>2. CASE \E i \in R : c = order[i]
            BY <4>1, <6>2
          <6> QED BY <5>1, <6>1, <6>2
        <5>3. \A c \in C : c \in T
          BY DEF Chosen
        <5> HIDE DEF C, T
        <5> QED BY <5>2, <5>3 DEF Covered
      <4> QED BY <3>1, <3>2, <4>2
    <3>4. \A i \in new : order[i] \in T \ C /\ Eligible(order[i], C)
      <4>1. \A i \in new : order[i] \notin C
        BY DEF Covered
      <4>2. \A c \in T \ C : Eligible(c, C)
        <5> HIDE DEF C
        <5> QED BY <2>3, AllowedParts
      <4> HIDE DEF C, T
      <4> QED BY <2>4, <4>1, <4>2
    <3>5. ~Stuck(order, target, s, S)
      <4>1. Cardinality(S) < TopK
        <5>1. C # T
          <6> HIDE DEF C, T, new
          <6> QED BY <3>3, <3>4
        <5>2. Cardinality(C) < Cardinality(T)
          <6>1. Cardinality(C) <= Cardinality(T) /\ Cardinality(C) # Cardinality(T)
            <7> HIDE DEF C, T
            <7> QED BY <2>3, <5>1, FS_Subset
          <6> QED BY <2>3, <6>1
        <5>3. Cardinality(T) <= TopK /\ TopK \in Nat
          BY SelectionAssumption DEF Allowed
        <5> HIDE DEF C, T
        <5> QED BY <2>3, <5>2, <5>3
      <4>2. /\ Cardinality(Potential(order, s, S)) \in Nat
            /\ Cardinality(Potential(order, s, S)) >= target
        <5> DEFINE open == {order[i] : i \in {j \in s .. L : Eligible(order[j], C)}}
                   P == Potential(order, s, S)
        <5>1. P = Covered(C) \cup Covered(open)
          BY DEF Potential
        <5>2. P = Covered(C \cup open)
          <6> HIDE DEF C, open
          <6> QED BY <5>1 DEF Covered
        <5>3. C \cup open \in SUBSET pool
          <6>1. \A j \in s .. L : order[j] \in pool
            BY <1>1
          <6>2. C \in SUBSET pool
            <7> HIDE DEF C, T
            <7> QED BY <2>3
          <6> QED BY <6>1, <6>2
        <5>4. Covered(T) \subseteq P
          <6>1. \A i \in R : order[i].mechanisms \subseteq P
            <7> SUFFICES ASSUME NEW i \in R PROVE order[i].mechanisms \subseteq P
              OBVIOUS
            <7>1. CASE i \in new
              <8>1. order[i] \in open
                <9> HIDE DEF new, C
                <9> QED BY <2>4, <3>4, <7>1
              <8> HIDE DEF P, open, C
              <8> QED BY <5>2, <8>1 DEF Covered
            <7>2. CASE i \notin new
              <8>1. order[i].mechanisms \subseteq Covered(C)
                BY <7>2
              <8> HIDE DEF P, open, C
              <8> QED BY <5>1, <8>1
            <7> QED BY <7>1, <7>2
          <6>2. \A c \in T : c \in C \/ \E i \in R : c = order[i]
            BY DEF Chosen
          <6>3. \A c \in C : c.mechanisms \subseteq P
            <7> HIDE DEF P, open, C
            <7> QED BY <5>2 DEF Covered
          <6> HIDE DEF P, C, T
          <6> QED BY <6>1, <6>2, <6>3 DEF Covered
        <5>5. IsFiniteSet(P) /\ Cardinality(P) \in Nat
          <6> HIDE DEF C, open, P
          <6> QED BY <5>2, <5>3, CoveredFacts
        <5>6. Cardinality(Covered(T)) <= Cardinality(P)
          <6> HIDE DEF P, T
          <6> QED BY <5>4, <5>5, FS_Subset
        <5> HIDE DEF P, T
        <5> QED BY <3>1, <3>2, <5>5, <5>6 DEF P
      <4>3. TopK \in Nat /\ target \in Nat /\ Cardinality(S) \in Nat
        BY <2>3, SelectionAssumption
      <4> QED BY <4>1, <4>2, <4>3 DEF Stuck
    <3>6. branches # {}
      <4> DEFINE i == FirstOf(new)
                 S1 == S \cup {i}
                 R1 == {j \in R : j > i}
      <4>1. i \in new /\ \A j \in new : i <= j
        <5>1. new \in SUBSET (1 .. L)
          OBVIOUS
        <5> HIDE DEF new, L
        <5> QED BY <1>1, <3>3, <5>1, FirstFacts
      <4> HIDE DEF i
      <4>2. i \in R /\ i \in s .. L /\ i \in DOMAIN order /\ i \in Nat
            /\ i + 1 \in s + 1 .. L + 1
        BY <1>1, <4>1
      <4>3. Adding(order, i, S)
        <5> HIDE DEF C
        <5> QED BY <3>4, <4>1 DEF Adding, C
      <4>4. S1 \in Sets /\ R1 \in Sets /\ R1 \subseteq i + 1 .. L
        BY <1>1, <2>4, <4>2
      <4>5. Allowed(Chosen(order, S1 \cup R1))
        <5>1. Chosen(order, S1 \cup R1) \in SUBSET T
          BY <4>2 DEF Chosen
        <5>2. Allowed(T)
          OBVIOUS
        <5> HIDE DEF T, S1, R1
        <5> QED BY <2>3, <5>1, <5>2, AllowedParts
      <4>6. Covered(Chosen(order, S1 \cup R1)) = Covered(T)
        <5> DEFINE U == Chosen(order, S1 \cup R1)
        <5>1. \A c \in U : c \in T
          BY <4>2 DEF Chosen
        <5>2. \A c \in C : c \in U
          BY DEF Chosen
        <5>3. \A j \in R : j \notin new => order[j].mechanisms \subseteq Covered(C)
          OBVIOUS
        <5>4. \A j \in new : order[j] \in U
          <6>1. \A j \in new : j \in R /\ (j = i \/ j > i)
            BY <1>1, <2>4, <4>1, <4>2
          <6>2. \A j \in new : j \in S1 \cup R1
            <7> HIDE DEF new
            <7> QED BY <6>1
          <6> HIDE DEF new, S1, R1
          <6> QED BY <6>2 DEF Chosen
        <5>5. \A c \in T : c \in C \/ \E j \in R : c = order[j]
          BY DEF Chosen
        <5> HIDE DEF C, T, U, new
        <5>6. \A c \in T : c.mechanisms \subseteq Covered(U)
          <6>1. Covered(C) \subseteq Covered(U)
            BY <5>2 DEF Covered
          <6>2. \A c \in U : c.mechanisms \subseteq Covered(U)
            BY DEF Covered
          <6> QED BY <5>2, <5>3, <5>4, <5>5, <6>1, <6>2
        <5>7. Covered(U) = Covered(T)
          BY <5>1, <5>6 DEF Covered
        <5> QED BY <5>7 DEF U
      <4>7. Covers(order, target, S1 \cup R1)
        <5> HIDE DEF T, S1, R1
        <5> QED BY <3>2, <4>6 DEF Covers
      <4>8. f[i + 1][S1] # {}
        <5>1. i + 1 \in B
          BY <1>2, <4>2
        <5> HIDE DEF S1, R1
        <5> QED BY <4>4, <4>5, <4>7, <5>1
      <4>9. i \in branches
        <5> HIDE DEF C
        <5> QED BY <4>2, <4>3, <4>8 DEF Branches
      <4> QED BY <4>9
    <3>7. f[k + 1][S \cup {k}] # {}
      <4> HIDE DEF k
      <4> QED BY <3>6, SearchStepFacts DEF k
    <3>8. f[s][S] = f[k + 1][S \cup {k}]
      BY <2>1, <2>6, <3>5, <3>6 DEF SearchStep
    <3> QED BY <3>7, <3>8
  <2> QED BY <2>5, <2>6
<1>3. B = 1 .. L + 1
  <2>1. B \in SUBSET (1 .. L + 1)
    OBVIOUS
  <2> HIDE DEF B, L
  <2> QED BY <1>1, <1>2, <2>1, BackInduction
<1> QED BY <1>3

(***************************************************************************)
(* The witness of a target.                                                *)
(***************************************************************************)

\* A witness is one that counts: allowed, and with the mechanisms wanted.
Witnesses(pool, target) ==
  {S \in SUBSET pool : Allowed(S) /\ Cardinality(Covered(S)) >= target}

\* One candidate alone.
LEMMA SingleFacts ==
  ASSUME NEW pool, SoundPool(pool), NEW order \in Seq(pool), NEW target,
         NEW i \in DOMAIN order, Cardinality(order[i].mechanisms) >= target
  PROVE  {order[i]} \in Witnesses(pool, target)
<1>1. order[i] \in pool
  OBVIOUS
<1>2. Covered({order[i]}) = order[i].mechanisms
  BY DEF Covered
<1> QED BY <1>1, <1>2, AllowedAlone DEF Witnesses

\* A pair that is found is a witness, and one is found if no single candidate is
\* enough but some choice is.
LEMMA PairFacts ==
  ASSUME NEW pool, SoundPool(pool), NEW order \in Seq(pool), 2 <= TopK
  PROVE  /\ \A pair \in Pairs(order, 2) :
              {order[pair[1]], order[pair[2]]} \in Witnesses(pool, 2)
         /\ (/\ \A c \in pool : \E i \in DOMAIN order : order[i] = c
             /\ \A i \in DOMAIN order : ~(Cardinality(order[i].mechanisms) >= 2)
             /\ Witnesses(pool, 2) # {}) => Pairs(order, 2) # {}
<1>0. DOMAIN order = 1 .. Len(order) /\ Len(order) \in Nat
      /\ \A i \in DOMAIN order : order[i] \in pool
  OBVIOUS
<1>1. ASSUME NEW pair \in Pairs(order, 2)
      PROVE  {order[pair[1]], order[pair[2]]} \in Witnesses(pool, 2)
  <2>1. PICK i \in DOMAIN order, j \in DOMAIN order : pair = <<i, j>>
    BY DEF Pairs
  <2>2. /\ pair[1] = i /\ pair[2] = j /\ Eligible(order[j], {order[i]})
        /\ Cardinality(order[i].mechanisms \cup order[j].mechanisms) >= 2
    BY <2>1 DEF Pairs
  <2>3. order[i] \in pool /\ order[j] \in pool
    BY <1>0
  <2> DEFINE a == order[i]
             b == order[j]
  <2>4. Covered({a, b}) = a.mechanisms \cup b.mechanisms
    BY DEF Covered
  <2>5. Cardinality({a}) < TopK /\ Allowed({a}) /\ IsFiniteSet({a})
    <3> HIDE DEF a
    <3>1. Allowed({a}) /\ IsFiniteSet({a}) /\ Cardinality({a}) = 1
      BY AllowedAlone
    <3> QED BY <3>1, SelectionAssumption
  <2>6. Eligible(b, {a})
    BY <2>2
  <2>7. Allowed({a} \cup {b})
    <3> HIDE DEF a, b
    <3> QED BY <2>5, <2>6, AllowedAdds
  <2>8. {a, b} = {a} \cup {b}
    OBVIOUS
  <2>9. Allowed({a, b})
    <3> HIDE DEF a, b
    <3> QED BY <2>7, <2>8
  <2> QED BY <2>2, <2>3, <2>4, <2>9 DEF Witnesses
<1>2. ASSUME \A c \in pool : \E i \in DOMAIN order : order[i] = c,
             \A i \in DOMAIN order : ~(Cardinality(order[i].mechanisms) >= 2),
             NEW S \in Witnesses(pool, 2)
      PROVE  Pairs(order, 2) # {}
  <2>1. S \in SUBSET pool /\ Allowed(S) /\ Cardinality(Covered(S)) >= 2
    BY DEF Witnesses
  <2>2. IsFiniteSet(S) /\ IsFiniteSet(Covered(S)) /\ Cardinality(Covered(S)) \in Nat
    BY <2>1, CoveredFacts, FS_Subset DEF SoundPool
  <2>3. \E m, n \in Covered(S) : m # n
    <3> SUFFICES ASSUME \A m, n \in Covered(S) : m = n PROVE FALSE
      OBVIOUS
    <3>1. Covered(S) = {} \/ \E m : Covered(S) = {m}
      OBVIOUS
    <3>2. Cardinality(Covered(S)) = 0 \/ Cardinality(Covered(S)) = 1
      BY <3>1, FS_EmptySet, FS_Singleton
    <3> QED BY <2>1, <3>2
  <2>4. PICK m \in Covered(S), n \in Covered(S) : m # n
    BY <2>3
  <2>5. PICK a \in S : m \in a.mechanisms
    BY DEF Covered
  <2>6. PICK b \in S : n \in b.mechanisms
    BY DEF Covered
  <2>7. ASSUME NEW x, NEW y, NEW C, IsFiniteSet(C), x \in C, y \in C, x # y
        PROVE  Cardinality(C) >= 2
    <3>1. Cardinality({x}) = 1 /\ IsFiniteSet({x})
      BY FS_Singleton
    <3> DEFINE X == {x}
    <3>4. y \notin X
      BY <2>7
    <3>2. Cardinality({x} \cup {y}) = 2
      <4> HIDE DEF X
      <4>1. Cardinality(X) = 1 /\ IsFiniteSet(X)
        BY <3>1 DEF X
      <4>2. Cardinality(X \cup {y}) = 1 + 1
        BY <3>4, <4>1, FS_AddElement
      <4>3. Cardinality(X \cup {y}) = 2
        BY <4>2
      <4> QED BY <4>3, Zenon DEF X
    <3>3. {x} \cup {y} \in SUBSET C
      BY <2>7
    <3> QED BY <2>7, <3>2, <3>3, FS_Subset, FS_CardinalityType
  <2>8. IsFiniteSet(a.mechanisms) /\ IsFiniteSet(b.mechanisms) /\ a \in pool /\ b \in pool
    BY <2>1 DEF SoundPool
  <2>9. Cardinality(a.mechanisms \cup b.mechanisms) >= 2
    <3>1. IsFiniteSet(a.mechanisms \cup b.mechanisms)
      BY <2>8, FS_Union
    <3> QED BY <2>4, <2>5, <2>6, <2>7, <3>1
  <2>10. PICK i \in DOMAIN order : order[i] = a
    BY <1>2, <2>8
  <2>11. PICK j \in DOMAIN order : order[j] = b
    BY <1>2, <2>8
  <2>12. a # b
    <3> SUFFICES ASSUME a = b PROVE FALSE
      OBVIOUS
    <3>1. Cardinality(a.mechanisms) >= 2
      BY <2>4, <2>5, <2>6, <2>7, <2>8
    <3> QED BY <1>2, <2>10, <3>1
  <2>13. Eligible(a, {b}) /\ Eligible(b, {a})
    <3>1. {a} \in SUBSET S /\ {b} \in SUBSET S /\ b \in S \ {a} /\ a \in S \ {b}
      BY <2>12
    <3> QED BY <2>1, <2>2, <3>1, AllowedParts
  <2>14. CASE i < j
    <3>1. <<i, j>> \in Pairs(order, 2)
      BY <2>9, <2>10, <2>11, <2>13, <2>14 DEF Pairs
    <3> QED BY <3>1
  <2>15. CASE ~(i < j)
    <3>1. j < i
      BY <1>0, <2>10, <2>11, <2>12, <2>15
    <3>2. b.mechanisms \cup a.mechanisms = a.mechanisms \cup b.mechanisms
      OBVIOUS
    <3>3. <<j, i>> \in Pairs(order, 2)
      BY <2>9, <2>10, <2>11, <2>13, <3>1, <3>2 DEF Pairs
    <3> QED BY <3>3
  <2> QED BY <2>14, <2>15
<1> QED BY <1>1, <1>2

\* The deep search decides whether there is a witness.
LEMMA DeepFacts ==
  ASSUME NEW pool, SoundPool(pool), NEW order \in Seq(pool),
         \A i, j \in DOMAIN order : order[i] = order[j] => i = j,
         \A c \in pool : \E i \in DOMAIN order : order[i] = c,
         NEW target \in Nat \ {0}
  PROVE  /\ \/ Chosen(order, DeepWitness(order, target)) = {}
            \/ Chosen(order, DeepWitness(order, target)) \in Witnesses(pool, target)
         /\ Witnesses(pool, target) # {} => Chosen(order, DeepWitness(order, target)) # {}
<1> DEFINE found == DeepWitness(order, target)
           W == Chosen(order, found)
<1>1. PICK f : Searches(f, order, target) /\ found = f[1][{}]
  BY DeepWitnessSearches
<1>2. 1 \in 1 .. Len(order) + 1 /\ {} \in SUBSET DOMAIN order
  OBVIOUS
<1>3. Chosen(order, {}) = {} /\ Allowed({})
  BY AllowedAlone DEF Chosen
<1>7. W = Chosen(order, found)
  OBVIOUS
<1> HIDE DEF found, W
<1>8. \A S : Allowed(Chosen(order, S)) /\ S = {} /\ f[1][S] # {} =>
        /\ f[1][S] \in SUBSET DOMAIN order /\ Allowed(Chosen(order, f[1][S]))
        /\ Covers(order, target, f[1][S])
  BY <1>1, <1>2, SearchIsSound
<1>4. found = {} => W = {}
  BY <1>3, <1>7
<1>5. found # {} => W \in Witnesses(pool, target) /\ W # {}
  <2> SUFFICES ASSUME found # {} PROVE W \in Witnesses(pool, target) /\ W # {}
    OBVIOUS
  <2>1. /\ found \in SUBSET DOMAIN order /\ Allowed(W) /\ Covers(order, target, found)
    BY <1>1, <1>3, <1>7, <1>8
  <2>2. W \in SUBSET pool
    BY <1>7, <2>1 DEF Chosen
  <2>3. W # {}
    <3>1. \E i \in found : order[i] \in W
      BY <1>7 DEF Chosen
    <3> QED BY <3>1
  <2> QED BY <1>7, <2>1, <2>2, <2>3 DEF Witnesses, Covers
<1>6. ASSUME NEW S \in Witnesses(pool, target) PROVE found # {}
  <2> DEFINE R == {i \in DOMAIN order : order[i] \in S}
  <2>1. S \in SUBSET pool /\ Allowed(S) /\ Cardinality(Covered(S)) >= target
    BY DEF Witnesses
  <2>2. Chosen(order, {} \cup R) = S
    BY <2>1 DEF Chosen
  <2>3. R \in SUBSET DOMAIN order /\ R \subseteq 1 .. Len(order)
    OBVIOUS
  <2>4. Allowed(Chosen(order, {} \cup R)) /\ Covers(order, target, {} \cup R)
    <3> HIDE DEF R
    <3> QED BY <2>1, <2>2 DEF Covers
  <2> HIDE DEF R
  <2>5. f[1][{}] # {}
    <3> DEFINE S0 == {}
    <3>1. S0 \in SUBSET DOMAIN order /\ Allowed(Chosen(order, S0 \cup R))
          /\ Covers(order, target, S0 \cup R) /\ 1 \in 1 .. Len(order) + 1
      BY <1>2, <2>4
    <3> HIDE DEF S0
    <3>3. \A s \in 1 .. Len(order) + 1 : \A S1, R1 \in SUBSET DOMAIN order :
            /\ R1 \subseteq s .. Len(order) /\ Allowed(Chosen(order, S1 \cup R1))
            /\ Covers(order, target, S1 \cup R1)
            => f[s][S1] # {}
      <4>1. Searches(f, order, target)
        BY <1>1
      <4> QED BY ONLY <4>1, SearchIsComplete, SoundPool(pool), order \in Seq(pool), target \in Nat \ {0},
                \A i, j \in DOMAIN order : order[i] = order[j] => i = j
    <3>2. f[1][S0] # {}
      BY <2>3, <3>1, <3>3
    <3> QED BY <3>2 DEF S0
  <2> QED BY <1>1, <2>5
<1>9. W = {} \/ W \in Witnesses(pool, target)
  BY <1>4, <1>5
<1>10. Witnesses(pool, target) # {} => W # {}
  BY <1>5, <1>6
<1> QED BY <1>9, <1>10 DEF W, found

\* A witness is found for a target if and only if there is one.
LEMMA WitnessFacts ==
  ASSUME NEW pool, SoundPool(pool), NEW target \in 1 .. TopK
  PROVE  /\ Witness(pool, target) = {} \/ Witness(pool, target) \in Witnesses(pool, target)
         /\ Witnesses(pool, target) # {} => Witness(pool, target) # {}
<1> DEFINE order == InOrder(pool)
           single == {i \in DOMAIN order : Cardinality(order[i].mechanisms) >= target}
           pairs == Pairs(order, target)
           i == FirstOf({p[1] : p \in pairs})
           j == FirstOf({p[2] : p \in {x \in pairs : x[1] = i}})
           deep == Chosen(order, DeepWitness(order, target))
           W == Witness(pool, target)
<1>1. /\ order \in Seq(pool) /\ Len(order) \in Nat /\ DOMAIN order = 1 .. Len(order)
      /\ \A c \in pool : \E n \in DOMAIN order : order[n] = c
      /\ \A m, n \in DOMAIN order : order[m] = order[n] => m = n
  BY InOrderFacts
<1>2. TopK \in Nat /\ target \in Nat \ {0} /\ target <= TopK
  BY SelectionAssumption
<1>3. W = IF single # {} THEN {order[FirstOf(single)]}
          ELSE IF target = 2 THEN IF pairs = {} THEN {} ELSE {order[i], order[j]}
          ELSE deep
  BY DEF Witness, FirstOf, Chosen
<1> HIDE DEF W, order
<1>4. CASE single # {}
  <2>1. FirstOf(single) \in single
    BY <1>1, <1>4, FirstFacts
  <2>2. {order[FirstOf(single)]} \in Witnesses(pool, target)
    BY <1>1, <2>1, SingleFacts
  <2> QED BY <1>3, <1>4, <2>2 DEF W
<1>5. CASE single = {} /\ target = 2
  <2>1. 2 <= TopK /\ \A n \in DOMAIN order : ~(Cardinality(order[n].mechanisms) >= 2)
    BY <1>2, <1>5
  <2>2. CASE pairs = {}
    <3>1. Witnesses(pool, target) = {}
      BY <1>1, <1>5, <2>1, <2>2, PairFacts
    <3> QED BY <1>3, <1>5, <2>2, <3>1 DEF W
  <2>3. CASE pairs # {}
    <3>1. \A p \in pairs : p = <<p[1], p[2]>> /\ p[1] \in 1 .. Len(order)
                           /\ p[2] \in 1 .. Len(order)
      BY <1>1 DEF Pairs
    <3>2. i \in {p[1] : p \in pairs}
      <4>1. {p[1] : p \in pairs} \in SUBSET (1 .. Len(order)) /\ {p[1] : p \in pairs} # {}
        BY <2>3, <3>1
      <4> HIDE DEF pairs
      <4> QED BY <1>1, <4>1, FirstFacts
    <3> HIDE DEF i
    <3> DEFINE seconds == {p[2] : p \in {x \in pairs : x[1] = i}}
    <3>3. j \in seconds
      <4>1. seconds \in SUBSET (1 .. Len(order)) /\ seconds # {}
        BY <3>1, <3>2
      <4> HIDE DEF seconds
      <4>2. FirstOf(seconds) \in seconds
        BY <1>1, <4>1, FirstFacts
      <4> QED BY <4>2 DEF seconds
    <3>4. PICK p \in pairs : p[1] = i /\ p[2] = j
      <4> HIDE DEF j, pairs
      <4> QED BY <3>3
    <3>5. {order[i], order[j]} \in Witnesses(pool, target)
      <4> HIDE DEF j
      <4> QED BY <1>1, <1>5, <2>1, <3>4, PairFacts
    <3>6. W = {order[i], order[j]}
      <4> HIDE DEF j, pairs, single
      <4> QED BY <1>3, <1>5, <2>3
    <3> QED BY <3>5, <3>6 DEF W
  <2> QED BY <2>2, <2>3
<1>6. CASE single = {} /\ target # 2
  <2>1. W = deep
    <3> HIDE DEF deep, single
    <3> QED BY <1>3, <1>6
  <2>2. deep = {} \/ deep \in Witnesses(pool, target)
    BY <1>1, <1>2, DeepFacts
  <2>3. Witnesses(pool, target) # {} => deep # {}
    BY <1>1, <1>2, DeepFacts
  <2> HIDE DEF deep
  <2> QED BY <2>1, <2>2, <2>3 DEF W
<1> QED BY <1>4, <1>5, <1>6

\* The target a pool can meet, up to the quota, and a witness for it.
LEMMA FeasibleFacts ==
  ASSUME NEW pool, SoundPool(pool), NEW quota \in 1 .. TopK
  PROVE  LET target == FeasibleTarget(pool, quota)
         IN  /\ target \in 0 .. quota
             /\ target # 0 => Witness(pool, target) \in Witnesses(pool, target)
             /\ target = quota <=> Witnesses(pool, quota) # {}
<1> DEFINE available == Cardinality(Covered(pool))
           desired == IF available < quota THEN available ELSE quota
           targets == {0} \cup {n \in 1 .. desired : Witness(pool, n) # {}}
           target == FeasibleTarget(pool, quota)
<1>1. available \in Nat /\ TopK \in Nat /\ quota \in Nat /\ quota <= TopK
  BY SelectionAssumption, CoveredFacts
<1>2. desired \in 0 .. quota
  BY <1>1
<1>3. target = CHOOSE n \in targets : \A m \in targets : n >= m
  BY DEF FeasibleTarget, Max
<1>4. targets \in SUBSET (0 .. quota) /\ 0 \in targets
  BY <1>2
<1>5. target \in targets /\ \A m \in targets : target >= m
  <2>1. IsFiniteSet(0 .. quota)
    BY <1>1, FS_Interval
  <2>2. targets \in SUBSET Int /\ IsFiniteSet(targets) /\ targets # {}
    <3> HIDE DEF targets
    <3>1. IsFiniteSet(targets)
      BY <1>4, <2>1, FS_Subset
    <3> QED BY <1>4, <3>1
  <2> HIDE DEF targets, target
  <2>3. \E n \in targets : \A m \in targets : n >= m
    BY <2>2, BoundsExist
  <2> QED BY <1>3, <2>3
<1> HIDE DEF target
<1>6. target \in 0 .. quota
  BY <1>4, <1>5
<1>7. ASSUME target # 0 PROVE Witness(pool, target) \in Witnesses(pool, target)
  <2>1. Witness(pool, target) # {} /\ target \in 1 .. TopK
    BY <1>1, <1>5, <1>6, <1>7
  <2> QED BY <2>1, WitnessFacts
<1>8. target = quota => Witnesses(pool, quota) # {}
  <2> SUFFICES ASSUME target = quota PROVE Witnesses(pool, quota) # {}
    OBVIOUS
  <2>1. target # 0
    BY <1>1
  <2> QED BY <1>7, <2>1
<1>9. ASSUME NEW S \in Witnesses(pool, quota) PROVE target = quota
  <2>1. S \in SUBSET pool /\ Cardinality(Covered(S)) >= quota
    BY DEF Witnesses
  <2>2. Cardinality(Covered(S)) <= available /\ Cardinality(Covered(S)) \in Nat
    BY <2>1, CoveredFacts
  <2>3. desired = quota
    BY <1>1, <2>1, <2>2
  <2>4. Witness(pool, quota) # {}
    BY <1>9, WitnessFacts
  <2>5. quota \in targets
    BY <1>1, <2>3, <2>4
  <2> HIDE DEF targets
  <2> QED BY <1>1, <1>5, <1>6, <2>5
<1> QED BY <1>6, <1>7, <1>8, <1>9 DEF target

(***************************************************************************)
(* The pool of a run.                                                      *)
(***************************************************************************)

\* Drafts whose structures have sites and whose cards name finitely many mechanisms.
SoundDrafts(drafts) ==
  /\ IsFiniteSet(drafts)
  /\ \A d \in drafts : /\ DOMAIN d.edit.output.species # {}
                       /\ IsFiniteSet(TagsOf(d.bridge.cards))

\* Where a draft comes from.
DraftOf(d, packets, parents) ==
  /\ d.parent \in parents /\ d.edit = Edit(d.parent) /\ OneClass(d.parent.id)
  /\ d.bridge \in packets /\ d.parent.rule \in {0, d.bridge.rule}

\* Drafts are finitely many, and each comes from a packet and a parent.
LEMMA DraftsFacts ==
  ASSUME NEW packets, NEW parents \in ParentPools
  PROVE  /\ IsFiniteSet(Drafts(packets, parents))
         /\ \A d \in Drafts(packets, parents) : DraftOf(d, packets, parents)
<1> DEFINE ids == {p.id : p \in parents}
           byId == [n \in ids |-> CHOOSE p \in parents : p.id = n]
           apt == {p \in parents : OneClass(p.id) /\ BridgeOf(packets, p) # {}}
           order == Prefix(Ascending({p.id : p \in apt}), MaxPlans)
           taken == {x \in apt : x.id \in ToSet(order)}
           draft(p) == [parent |-> p, bridge |-> CHOOSE b \in BridgeOf(packets, p) : TRUE,
                        edit |-> Edit(p)]
           drafts == Drafts(packets, parents)
           make == [p \in taken |-> draft(p)]
<1>1. /\ parents \subseteq Parents /\ \A p, q \in parents : p.id = q.id => p = q
      /\ IsFiniteSet(DOMAIN Crystal)
  BY RunAssumption, CrystalAssumption
<1>2. IsFiniteSet(parents)
  <2>1. ids \in SUBSET DOMAIN Crystal
    BY <1>1 DEF Parents
  <2>2. IsFiniteSet(ids) /\ DOMAIN byId = ids
    <3> HIDE DEF ids
    <3> QED BY <1>1, <2>1, FS_Subset
  <2>3. \A p \in parents : p.id \in ids /\ byId[p.id] = p
    BY <1>1
  <2> HIDE DEF ids, byId
  <2>4. IsFiniteSet({byId[n] : n \in ids})
    BY <2>2, FiniteImage
  <2>5. parents \in SUBSET {byId[n] : n \in ids}
    BY <2>3
  <2> QED BY <2>4, <2>5, FS_Subset
<1>3. drafts = {draft(p) : p \in taken}
  BY DEF Drafts
<1>4. IsFiniteSet(drafts)
  <2>1. taken \in SUBSET parents
    OBVIOUS
  <2>2. drafts = {make[p] : p \in taken}
    BY <1>3
  <2> HIDE DEF taken, drafts
  <2>3. IsFiniteSet(taken)
    BY <1>2, <2>1, FS_Subset
  <2>4. DOMAIN make = taken
    OBVIOUS
  <2> HIDE DEF make
  <2> QED BY <2>2, <2>3, <2>4, FiniteImage
<1>5. ASSUME NEW d \in drafts PROVE DraftOf(d, packets, parents)
  <2>1. PICK p \in taken : d = draft(p)
    <3> HIDE DEF draft, taken, drafts
    <3> QED BY <1>3
  <2>2. p \in parents /\ OneClass(p.id) /\ BridgeOf(packets, p) # {}
    OBVIOUS
  <2>3. d.parent = p /\ d.edit = Edit(p) /\ d.bridge = CHOOSE b \in BridgeOf(packets, p) : TRUE
    BY <2>1
  <2>4. d.bridge \in BridgeOf(packets, p)
    BY <2>2, <2>3
  <2>5. BridgeOf(packets, p) \subseteq packets
        /\ \A b \in BridgeOf(packets, p) : p.rule \in {0, b.rule}
    BY DEF BridgeOf, PacketFor
  <2> QED BY <2>2, <2>3, <2>4, <2>5 DEF DraftOf
<1> QED BY <1>4, <1>5 DEF drafts

\* What a substitution yields.
LEMMA EditFacts ==
  ASSUME NEW p \in Parents, OneClass(p.id)
  PROVE  \E k, dimensions :
           /\ Edit(p).verdict = Verdict(Crystal[p.id], k, dimensions, MaxSites)
           /\ Edit(p).output = Output(Crystal[p.id], k)
           /\ Crystal[p.id].sites \in Seq(Sites) \ {<<>>}
<1>1. p.id \in DOMAIN Crystal
  BY DEF Parents
<1> DEFINE flat == p.rule # 0
           k == CHOOSE k \in SulfurClasses(Crystal[p.id].sites) : TRUE
           dimensions == IF flat THEN {2} ELSE 0 .. 3
<1>2. Edit(p) = Edited(p.id, dimensions)
  <2>1. flat \in BOOLEAN
    OBVIOUS
  <2>2. Edit(p) = Substitution[p.id][flat]
    BY DEF Edit
  <2> HIDE DEF flat
  <2> QED BY <1>1, <2>1, <2>2 DEF Substitution
<1>3. /\ Edited(p.id, dimensions).verdict = Verdict(Crystal[p.id], k, dimensions, MaxSites)
      /\ Edited(p.id, dimensions).output = Output(Crystal[p.id], k)
  BY DEF Edited
<1>4. Crystal[p.id].sites \in Seq(Sites) \ {<<>>}
  BY <1>1, CrystalAssumption
<1> HIDE DEF k, dimensions
<1> QED BY <1>2, <1>3, <1>4

\* The cards of a packet name mechanisms.
LEMMA PacketFacts ==
  ASSUME NEW cards, NEW n, NEW b \in Packets(cards, n)
  PROVE  /\ b.rule \in Rules /\ b.cards = CardsOf(cards, b.rule)
         /\ Rule[b.rule].required \subseteq SupportTags(b.cards)
<1>1. PICK r \in SupportedRules(cards, n) : b = [rule |-> r, cards |-> CardsOf(cards, r)]
  BY DEF Packets
<1> QED BY <1>1 DEF SupportedRules

\* What a card says is what its passage says.
LEMMA CardFacts ==
  ASSUME NEW found, NEW c \in Cards(found)
  PROVE  /\ c.passage \in ToSet(found) /\ c.rule = RuleOf(c.passage)
         /\ c.relation = Relation(c.passage) /\ c.tags = c.passage.tags \cap Mechanisms
<1>1. PICK p \in ToSet(found) : c = [passage |-> p, rule |-> RuleOf(p), relation |-> Relation(p),
                                     tags |-> p.tags \cap Mechanisms]
  BY DEF Cards
<1> QED BY <1>1

\* The drafts of a run are what the selection relies on.
LEMMA DraftsAreSound ==
  ASSUME NEW found, NEW n, NEW parents \in ParentPools
  PROVE  SoundDrafts(Drafts(Packets(Cards(found), n), parents))
<1> DEFINE packets == Packets(Cards(found), n)
           drafts == Drafts(packets, parents)
<1>1. IsFiniteSet(drafts) /\ \A d \in drafts : DraftOf(d, packets, parents)
  BY DraftsFacts
<1>2. parents \subseteq Parents
  BY RunAssumption
<1> HIDE DEF drafts
<1>3. ASSUME NEW d \in drafts
      PROVE  DOMAIN d.edit.output.species # {}
  <2>1. d.parent \in Parents /\ OneClass(d.parent.id) /\ d.edit = Edit(d.parent)
    BY <1>1, <1>2 DEF DraftOf
  <2> DEFINE crystal == Crystal[d.parent.id]
  <2>2. PICK k : d.edit.output = Output(crystal, k) /\ crystal.sites \in Seq(Sites) \ {<<>>}
    BY <2>1, EditFacts
  <2> HIDE DEF crystal
  <2>3. DOMAIN d.edit.output.species = DOMAIN crystal.sites
    BY <2>2 DEF Output, Substituted
  <2>4. 1 \in DOMAIN crystal.sites
    BY <2>2
  <2> QED BY <2>3, <2>4
<1>4. ASSUME NEW d \in drafts
      PROVE  IsFiniteSet(TagsOf(d.bridge.cards))
  <2>1. d.bridge \in packets
    BY <1>1 DEF DraftOf
  <2>2. d.bridge.cards = CardsOf(Cards(found), d.bridge.rule)
    BY <2>1, PacketFacts
  <2>3. \A c \in Cards(found) : c.tags \subseteq Mechanisms
    BY CardFacts
  <2>4. TagsOf(d.bridge.cards) \in SUBSET Tags
    BY <2>2, <2>3, EvidenceAssumption DEF TagsOf, CardsOf
  <2> QED BY <2>4, EvidenceAssumption, FS_Subset
<1> QED BY <1>1, <1>3, <1>4 DEF SoundDrafts, drafts

\* One candidate for each structure, with the routes that lead there.
LEMMA CandidateFacts ==
  ASSUME NEW drafts, SoundDrafts(drafts)
  PROVE  /\ SoundPool(Candidates(drafts))
         /\ \A c \in Candidates(drafts) : \A r \in c.routes : \E d \in drafts :
              /\ r = Route(d) /\ d.edit.verdict = "STRUCTURE_VALID"
              /\ d.edit.output = StructureOrder[c.structure]
<1> DEFINE pool == Candidates(drafts)
           routes(s) == {Route(d) : d \in Yielding(drafts, s)}
           used == {n \in DOMAIN StructureOrder : Yielding(drafts, n) # {}}
           make == [s \in used |-> Candidate(s, routes(s))]
<1>1. pool = {Candidate(s, routes(s)) : s \in used}
  BY DEF Candidates
<1>2. IsFiniteSet(DOMAIN StructureOrder)
  BY SelectionAssumption, IntervalFacts
<1>3. used \in SUBSET DOMAIN StructureOrder
  OBVIOUS
<1>4. IsFiniteSet(pool)
  <2>1. IsFiniteSet(used)
    <3> HIDE DEF used
    <3> QED BY <1>2, <1>3, FS_Subset
  <2>2. pool = {make[s] : s \in used} /\ DOMAIN make = used
    BY <1>1
  <2> HIDE DEF used, make, pool
  <2> QED BY <2>1, <2>2, FiniteImage
<1>5. ASSUME NEW c \in pool
      PROVE  \E s \in used : c = Candidate(s, routes(s))
  <2> HIDE DEF used, routes, pool
  <2> QED BY <1>1
<1>6. ASSUME NEW s \in used, NEW c, c = Candidate(s, routes(s))
      PROVE  /\ c.structure \in DOMAIN StructureOrder
             /\ Len(StructureOrder[c.structure].species) # 0
             /\ IsFiniteSet(c.mechanisms) /\ IsFiniteSet(c.families) /\ IsFiniteSet(c.routes)
             /\ \A r \in c.routes : \E d \in drafts :
                  /\ r = Route(d) /\ d.edit.verdict = "STRUCTURE_VALID"
                  /\ d.edit.output = StructureOrder[c.structure]
  <2> DEFINE R == routes(s)
             Y == Yielding(drafts, s)
             route == [d \in Y |-> Route(d)]
             family == [r \in R |-> r.family]
             named == [r \in R |-> r.mechanisms]
  <2>1. /\ c.structure = s /\ c.routes = R /\ c.families = {r.family : r \in R}
        /\ c.mechanisms = UNION {r.mechanisms : r \in R}
    BY <1>6 DEF Candidate
  <2>2. Y \in SUBSET drafts /\ \A d \in Y : d.edit.verdict = "STRUCTURE_VALID"
                                            /\ d.edit.output = StructureOrder[s]
    BY DEF Yielding, Proposals
  <2>3. IsFiniteSet(Y) /\ Y # {}
    <3> HIDE DEF Y
    <3>1. Y # {}
      BY DEF Y
    <3> QED BY <2>2, <3>1, FS_Subset DEF SoundDrafts
  <2>4. R = {route[d] : d \in Y} /\ DOMAIN route = Y
    OBVIOUS
  <2>5. IsFiniteSet(R)
    <3> HIDE DEF R, Y, route
    <3> QED BY <2>3, <2>4, FiniteImage
  <2>6. IsFiniteSet({r.family : r \in R})
    <3>1. {r.family : r \in R} = {family[r] : r \in R} /\ DOMAIN family = R
      OBVIOUS
    <3> HIDE DEF R, family
    <3>2. IsFiniteSet({family[r] : r \in R})
      BY <2>5, <3>1, FiniteImage
    <3> QED BY <3>1, <3>2
  <2>7. \A r \in R : \E d \in Y : r = Route(d)
    OBVIOUS
  <2>8. \A r \in R : IsFiniteSet(r.mechanisms)
    <3>1. \A d \in Y : IsFiniteSet(Route(d).mechanisms)
      BY <2>2 DEF SoundDrafts, Route
    <3> HIDE DEF R
    <3> QED BY <2>7, <3>1
  <2>9. IsFiniteSet(UNION {r.mechanisms : r \in R})
    <3>1. UNION {r.mechanisms : r \in R} = UnionOver(named, R)
          /\ \A r \in R : named[r] = r.mechanisms
      BY DEF UnionOver
    <3> HIDE DEF R, named
    <3>2. \A r \in R : IsFiniteSet(named[r])
      BY <2>8, <3>1
    <3>3. IsFiniteSet(UnionOver(named, R))
      BY <2>5, <3>2, UnionIsFinite
    <3> QED BY <3>1, <3>3
  <2>10. Len(StructureOrder[s].species) # 0
    <3>1. PICK d \in Y : TRUE
      BY <2>3
    <3>2. DOMAIN StructureOrder[s].species # {}
      BY <2>2, <3>1 DEF SoundDrafts
    <3>3. StructureOrder[s].species \in Seq(Elements \X SUBSET (-2 .. 4))
      <4> DEFINE V == Seq(Elements \X SUBSET (-2 .. 4))
                 T == [frame : DOMAIN Frame, species : V]
      <4>1. StructureOrder \in Seq(T) /\ s \in DOMAIN StructureOrder
        BY SelectionAssumption
      <4>2. StructureOrder[s] \in T
        <5> HIDE DEF T
        <5> QED BY <4>1
      <4> HIDE DEF V
      <4>3. StructureOrder[s].species \in V
        BY <4>2
      <4> QED BY <4>3 DEF V
    <3> QED BY <3>2, <3>3
  <2> HIDE DEF R, Y
  <2> QED BY <2>1, <2>2, <2>5, <2>6, <2>7, <2>9, <2>10
<1>7. \A a, b \in pool : a.structure = b.structure => a = b
  <2>1. \A s : Candidate(s, routes(s)).structure = s
    BY DEF Candidate
  <2> HIDE DEF routes, used, pool
  <2> QED BY <1>5, <2>1
<1> HIDE DEF pool, used, routes
<1>8. \A c \in pool :
        /\ c.structure \in DOMAIN StructureOrder
        /\ Len(StructureOrder[c.structure].species) # 0
        /\ IsFiniteSet(c.mechanisms) /\ IsFiniteSet(c.families) /\ IsFiniteSet(c.routes)
  BY <1>5, <1>6
<1>9. \A c \in pool : \A r \in c.routes : \E d \in drafts :
        /\ r = Route(d) /\ d.edit.verdict = "STRUCTURE_VALID"
        /\ d.edit.output = StructureOrder[c.structure]
  BY <1>5, <1>6
<1> QED BY <1>4, <1>7, <1>8, <1>9 DEF SoundPool, pool

(***************************************************************************)
(* The audit of the selection.                                             *)
(***************************************************************************)

\* The selection holds its witness, and the quotas decide when it ends.
LEMMA SelectionFacts ==
  ASSUME NEW pool, SoundPool(pool), NEW quota \in 1 .. TopK, NEW target, NEW s,
         target = FeasibleTarget(pool, quota), s = Select(pool, target)
  PROVE  /\ target \in 0 .. quota /\ (target = quota <=> Witnesses(pool, quota) # {})
         /\ s \in Seq(pool) /\ ToSet(s) \subseteq pool /\ IsFiniteSet(ToSet(s))
         /\ Cardinality(ToSet(s)) = Len(s) /\ Allowed(ToSet(s))
         /\ Len(s) = TopK \/ LeftOf(pool, s) = {}
         /\ target = quota => Cardinality(Covered(ToSet(s))) >= quota
<1> DEFINE base == IF target = 0 THEN {} ELSE Witness(pool, target)
<1>1. /\ target \in 0 .. quota
      /\ target # 0 => Witness(pool, target) \in Witnesses(pool, target)
      /\ target = quota <=> Witnesses(pool, quota) # {}
  BY FeasibleFacts
<1>2. base \in SUBSET pool /\ Allowed(base)
  <2>1. CASE target = 0
    BY <2>1, AllowedAlone
  <2>2. CASE target # 0
    BY <1>1, <2>2 DEF Witnesses
  <2> QED BY <2>1, <2>2
<1>3. /\ Select(pool, target) \in Selections(pool, base)
      /\ Len(Select(pool, target)) = TopK \/ LeftOf(pool, Select(pool, target)) = {}
  <2>1. base = IF target = 0 THEN {} ELSE Witness(pool, target)
    OBVIOUS
  <2> HIDE DEF base
  <2> QED BY <1>2, <2>1, SelectFacts
<1>4. /\ s \in Seq(pool) /\ IsFiniteSet(ToSet(s)) /\ Cardinality(ToSet(s)) = Len(s)
      /\ Allowed(ToSet(s)) /\ base \subseteq ToSet(s)
  BY <1>3 DEF Selections
<1>5. ToSet(s) \subseteq pool
  BY <1>4, ToSetType
<1>6. ASSUME target = quota PROVE Cardinality(Covered(ToSet(s))) >= quota
  <2>1. quota \in Nat /\ quota # 0
    BY SelectionAssumption
  <2>2. base = Witness(pool, target) /\ Witness(pool, target) \in Witnesses(pool, target)
    BY <1>1, <1>6, <2>1
  <2>3. Cardinality(Covered(base)) >= quota
    BY <1>6, <2>2 DEF Witnesses
  <2> HIDE DEF base
  <2>4. Cardinality(Covered(base)) <= Cardinality(Covered(ToSet(s)))
        /\ Cardinality(Covered(base)) \in Nat /\ Cardinality(Covered(ToSet(s))) \in Nat
    BY <1>4, <1>5, CoveredFacts
  <2> QED BY <2>1, <2>3, <2>4
<1> QED BY <1>1, <1>3, <1>4, <1>5, <1>6

\* What is reported of the quota: met if some choice meets it, short if the pool is.
LEMMA StatusFacts ==
  ASSUME NEW pool, SoundPool(pool), NEW quota \in 1 .. TopK,
         NEW target \in 0 .. quota, target = quota <=> Witnesses(pool, quota) # {}
  PROVE  /\ QuotaStatus(pool, quota, target) = "MET" <=> Witnesses(pool, quota) # {}
         /\ QuotaStatus(pool, quota, target) = "POOL_INSUFFICIENT"
              <=> ~(Cardinality(Covered(pool)) >= quota)
<1>1. quota \in Nat /\ target \in Nat /\ target <= quota /\ Cardinality(Covered(pool)) \in Nat
  BY SelectionAssumption, CoveredFacts
<1>2. Witnesses(pool, quota) # {} => Cardinality(Covered(pool)) >= quota
  <2> SUFFICES ASSUME NEW S \in Witnesses(pool, quota)
               PROVE  Cardinality(Covered(pool)) >= quota
    OBVIOUS
  <2>1. S \in SUBSET pool /\ Cardinality(Covered(S)) >= quota
    BY DEF Witnesses
  <2>2. Cardinality(Covered(S)) <= Cardinality(Covered(pool)) /\ Cardinality(Covered(S)) \in Nat
    BY <2>1, CoveredFacts
  <2> QED BY <1>1, <2>1, <2>2
<1>3. QuotaStatus(pool, quota, target) = "MET"
        <=> ~(Cardinality(Covered(pool)) < quota) /\ ~(target < quota)
  BY DEF QuotaStatus
<1>4. QuotaStatus(pool, quota, target) = "POOL_INSUFFICIENT"
        <=> Cardinality(Covered(pool)) < quota
  BY DEF QuotaStatus
<1> QED BY <1>1, <1>2, <1>3, <1>4

\* Nobody can be added to a selection that has ended.
LEMMA SelectionIsMaximal ==
  ASSUME NEW pool, NEW s \in Seq(pool), IsFiniteSet(ToSet(s)),
         Cardinality(ToSet(s)) = Len(s), Len(s) = TopK \/ LeftOf(pool, s) = {},
         NEW c \in pool \ ToSet(s)
  PROVE  ~Allowed(ToSet(s) \cup {c})
<1> SUFFICES ASSUME Allowed(ToSet(s) \cup {c}) PROVE FALSE
  OBVIOUS
<1> DEFINE T == ToSet(s)
           more == T \cup {c}
<1>1. TopK \in Nat /\ Len(s) \in Nat
  BY SelectionAssumption
<1>2. IsFiniteSet(more) /\ Cardinality(more) = Len(s) + 1 /\ c \notin T
  <2>1. c \notin T
    OBVIOUS
  <2> HIDE DEF T
  <2> QED BY <2>1, FS_AddElement DEF T
<1>3. CASE Len(s) = TopK
  <2>1. Cardinality(more) <= TopK
    BY DEF Allowed
  <2> QED BY <1>1, <1>2, <1>3, <2>1
<1>4. CASE LeftOf(pool, s) = {}
  <2>1. ~Eligible(c, T)
    BY <1>4 DEF LeftOf
  <2>2. Allowed(more) /\ T \in SUBSET more /\ c \in more \ T
    BY <1>2
  <2> HIDE DEF T, more
  <2>3. Eligible(c, T)
    BY <1>2, <2>2, AllowedParts
  <2> QED BY <2>1, <2>3
<1> QED BY <1>3, <1>4

\* An underfilled selection has a reason.
LEMMA UnderfillHasReason ==
  ASSUME NEW pool, SoundPool(pool), NEW status, NEW s \in Seq(pool),
         Cardinality(ToSet(s)) = Len(s), Len(s) < TopK, LeftOf(pool, s) = {}
  PROVE  Underfill(pool, status, s) # {}
<1> DEFINE T == ToSet(s)
<1>1. T \subseteq pool /\ IsFiniteSet(T)
  <2>1. T \subseteq pool
    BY ToSetType
  <2> HIDE DEF T
  <2> QED BY <2>1, FS_Subset DEF SoundPool
<1>2. CASE pool \ T = {}
  <2>1. pool = T
    BY <1>1, <1>2
  <2>2. Cardinality(pool) < TopK
    BY <2>1
  <2>3. "CANDIDATE_POOL_BELOW_TOP_K" \in Underfill(pool, status, s)
    BY <2>2 DEF Underfill
  <2> QED BY <2>3
<1>3. ASSUME NEW c \in pool \ T PROVE Underfill(pool, status, s) # {}
  <2>1. ~Eligible(c, T)
    BY DEF LeftOf
  <2>2. CASE ~EligibleByShape(c, T)
    <3>1. "STRICT_STRUCTURE_GROUP_LIMIT" \in Underfill(pool, status, s)
      BY <2>2 DEF Underfill
    <3> QED BY <3>1
  <2>3. CASE EligibleByShape(c, T)
    <3>1. PICK f \in c.families : ~(InFamily(T, f) < MaxPerFamily)
      BY <2>1, <2>3 DEF Eligible
    <3>2. InFamily(T, f) \in Nat /\ MaxPerFamily \in Nat
      BY <1>1, FamilyFacts, SelectionAssumption
    <3>3. InFamily(T, f) >= MaxPerFamily
      BY <3>1, <3>2
    <3>4. "PARENT_FAMILY_LIMIT" \in Underfill(pool, status, s)
      BY <3>3 DEF Underfill
    <3> QED BY <3>4
  <2> QED BY <2>2, <2>3
<1> QED BY <1>2, <1>3

\* The audit says the truth about the pool, whatever was drafted.
THEOREM QuotaIsTold == Spec => []QuotaIsTruthful
<1>1. Init => QuotaIsTruthful
  BY DEF Init, Pending, QuotaIsTruthful
<1>2. InspirationInv /\ QuotaIsTruthful /\ [Next]_vars => QuotaIsTruthful'
  <2> SUFFICES ASSUME InspirationInv, QuotaIsTruthful, [Next]_vars
               PROVE  QuotaIsTruthful'
    OBVIOUS
  <2>1. CASE UNCHANGED vars
    BY <2>1 DEF QuotaIsTruthful, vars
  <2>2. CASE result'.kind # "BUNDLE"
    BY <2>2 DEF QuotaIsTruthful
  <2>3. ASSUME NEW parents \in ParentPools, NEW policy \in Policies,
               NEW found, NEW cards, NEW packets, NEW drafts, NEW pool, NEW target, NEW s,
               Compiled(parents, policy.quota, found, cards, packets, drafts, pool, target, s)
        PROVE  QuotaIsTruthful'
    <3> DEFINE quota == policy.quota
               status == QuotaStatus(pool, quota, target)
               meets(S) == Cardinality(Covered(S)) >= quota
               feasible == \E S \in SUBSET pool : Allowed(S) /\ meets(S)
    <3>1. /\ drafts = Drafts(Packets(Cards(found), Len(pages)), parents)
          /\ pool = Candidates(drafts) /\ target = FeasibleTarget(pool, quota)
          /\ s = Select(pool, target)
          /\ result'.audit = Audit(pool, quota, s, status) /\ result'.quota = quota
      BY <2>3 DEF Compiled, Bundle
    <3>2. /\ result'.audit.pool = pool /\ result'.audit.selected = s
          /\ result'.audit.quota_status = status
          /\ result'.audit.underfill = Underfill(pool, status, s)
      BY <3>1 DEF Audit
    <3>3. SoundPool(pool)
      BY <3>1, DraftsAreSound, CandidateFacts
    <3>4. quota \in 1 .. TopK
      BY RunAssumption
    <3> HIDE DEF quota
    <3>5. /\ target \in 0 .. quota /\ (target = quota <=> Witnesses(pool, quota) # {})
          /\ s \in Seq(pool) /\ ToSet(s) \subseteq pool /\ IsFiniteSet(ToSet(s))
          /\ Cardinality(ToSet(s)) = Len(s) /\ Allowed(ToSet(s))
          /\ Len(s) = TopK \/ LeftOf(pool, s) = {}
          /\ target = quota => Cardinality(Covered(ToSet(s))) >= quota
      BY <3>1, <3>3, <3>4, SelectionFacts
    <3>6. feasible <=> Witnesses(pool, quota) # {}
      BY DEF Witnesses
    <3>7. (status = "MET") = feasible
      BY <3>3, <3>4, <3>5, <3>6, StatusFacts
    <3>8. (status = "POOL_INSUFFICIENT") = ~meets(pool)
      BY <3>3, <3>4, <3>5, StatusFacts
    <3>9. feasible => meets(ToSet(s))
      BY <3>5, <3>6
    <3>10. \A c \in pool \ ToSet(s) : ~Allowed(ToSet(s) \cup {c})
      BY <3>5, SelectionIsMaximal
    <3>11. Len(s) < TopK => Underfill(pool, status, s) # {}
      <4> SUFFICES ASSUME Len(s) < TopK PROVE Underfill(pool, status, s) # {}
        OBVIOUS
      <4>1. LeftOf(pool, s) = {}
        BY <3>5, SelectionAssumption
      <4> HIDE DEF status
      <4> QED BY <3>3, <3>5, <4>1, UnderfillHasReason
    <3> HIDE DEF status
    <3> QED BY <3>1, <3>2, <3>5, <3>7, <3>8, <3>9, <3>10, <3>11 DEF QuotaIsTruthful
  <2> QED BY <2>1, <2>2, <2>3, ResultFacts
<1> QED BY <1>1, <1>2, InspirationInvariant, PTL DEF Spec

(***************************************************************************)
(* What a selected candidate goes back to.                                 *)
(***************************************************************************)

\* A document is processed for a hit that led to it.
LEMMA ProcessingHitFacts ==
  ASSUME NEW hits \in Seq(HitRecords), NEW d \in DocumentsOf(hits)
  PROVE  ProcessingHit(hits, d) \in Members(hits, d)
<1> DEFINE M == Members(hits, d)
           Key(h) == <<KindPriority(Plan[h.query].kind), Plan[h.query].rule, h.rank>>
           key == [h \in M |-> Key(h)]
           K == {key[h] : h \in M}
           R == {pair \in K \X K : Lower(pair[1], pair[2])}
<1>1. M \in SUBSET ToSet(hits) /\ ToSet(hits) \subseteq HitRecords /\ IsFiniteSet(ToSet(hits))
  BY ToSetType, DocumentsFacts DEF Members
<1>2. IsFiniteSet(M) /\ M # {}
  <2>1. M # {}
    BY DEF Members, DocumentsOf
  <2> HIDE DEF M
  <2> QED BY <1>1, <2>1, FS_Subset
<1>3. ASSUME NEW h \in M PROVE Key(h) \in Nat \X Nat \X Nat
  <2>1. h.query \in QueryIds /\ h.rank \in Nat
    BY <1>1 DEF HitRecords
  <2>2. Plan[h.query] \in PlannedQueries
    BY <2>1, PlanFacts
  <2>3. Plan[h.query].rule \in Nat
    <3>1. Plan[h.query].rule \in Rules \cup {0}
      BY <2>2 DEF PlannedQueries
    <3>2. \A r \in Rules \cup {0} : r \in Nat
      <4>1. Rules \subseteq Nat
        BY EvidenceAssumption
      <4>2. 0 \in Nat
        OBVIOUS
      <4> QED BY ONLY <4>1, <4>2, Zenon
    <3> QED BY <3>1, <3>2, Zenon
  <2>4. KindPriority(Plan[h.query].kind) \in Nat
    <3>1. Plan[h.query].kind \in {"DIRECT", "BRIDGE", "COUNTER"}
      BY <2>2 DEF PlannedQueries
    <3> QED BY <3>1 DEF KindPriority
  <2> QED BY <2>1, <2>3, <2>4
<1>4. K \in SUBSET (Nat \X Nat \X Nat) /\ DOMAIN key = M /\ K # {}
  <2> HIDE DEF M, Key
  <2> QED BY <1>2, <1>3
<1>5. IsFiniteSet(K)
  <2> HIDE DEF M, key
  <2> QED BY <1>2, <1>4, FiniteImage
<1>6. Orders(R, K) /\ \A a, b \in K : Lower(a, b) => ~Lower(b, a)
  <2> HIDE DEF K
  <2> QED BY <1>4, LowerOrders
<1>7. PICK k \in K : \A y \in K \ {k} : <<k, y>> \in R
  <2> HIDE DEF K, R
  <2> QED BY <1>4, <1>5, <1>6, LeastExists
<1>8. PICK h \in M : key[h] = k
  OBVIOUS
<1>9. ASSUME NEW other \in M PROVE ~Lower(Key(other), Key(h))
  <2>1. Key(h) = k /\ Key(other) \in K
    <3> HIDE DEF Key, M
    <3> QED BY <1>8
  <2> HIDE DEF Key, M
  <2>2. CASE Key(other) = k
    <3>1. ~Lower(k, k)
      BY <1>6
    <3> QED BY <2>1, <2>2, <3>1
  <2>3. CASE Key(other) # k
    <3>1. Lower(k, Key(other))
      BY <1>7, <2>1, <2>3
    <3> QED BY <1>6, <2>1, <3>1
  <2> QED BY <2>2, <2>3
<1>10. ProcessingHit(hits, d) =
         CHOOSE x \in M : \A other \in M : ~Lower(Key(other), Key(x))
  BY DEF ProcessingHit, Lower
<1> HIDE DEF M, Key
<1>11. ProcessingHit(hits, d) \in M
  BY <1>9, <1>10
<1> QED BY <1>11 DEF M

\* Texts of a document that may be quoted, and what may be quoted of them.
TextsOf(d, fetched) ==
  ToSet(Works[d].abstract) \cup (IF fetched THEN ToSet(Works[d].body) ELSE {})

Quotable(d, fetched) ==
  {x \in [tier : {0, 1}, at : Nat, text : STRING, like : Nat, tags : SUBSET Tags] :
     \E t \in TextsOf(d, fetched) : x.tags \subseteq Works[d].title \cup t.tags}

\* What is ranked of a document are drafts of its texts.
LEMMA RankedDraftsType ==
  ASSUME NEW hits, NEW d \in Documents, NEW fetched \in BOOLEAN
  PROVE  RankedDrafts(hits, d, fetched) \in Seq(Quotable(d, fetched))
<1> DEFINE W == Works[d]
           Q == Quotable(d, fetched)
           draft(tier, texts, i) ==
             Draft(tier, i, texts[i], (W.title \cup texts[i].tags) \cap MemberTags(hits, d))
           From(tier, texts) ==
             {draft(tier, texts, i) : i \in {j \in DOMAIN texts : texts[j].enough}}
           all == From(0, W.abstract) \cup (IF fetched THEN From(1, W.body) ELSE {})
           S == {x \in all : x.tags # {}}
           Better(a, b) ==
             \/ Cardinality(a.tags) > Cardinality(b.tags)
             \/ /\ Cardinality(a.tags) = Cardinality(b.tags)
                /\ a.tier < b.tier \/ (a.tier = b.tier /\ a.at < b.at)
           R == {pair \in all \X all : Better(pair[1], pair[2])}
<1>1. /\ W.title \subseteq Tags /\ W.abstract \in Seq(Texts) /\ W.body \in Seq(Texts)
      /\ IsFiniteSet(Tags)
  BY EvidenceAssumption
<1>2. RankedDrafts(hits, d, fetched) = Ranked(S, R)
  BY DEF RankedDrafts
<1>3. ASSUME NEW tier \in {0, 1}, NEW texts \in Seq(Texts),
             ToSet(texts) \subseteq TextsOf(d, fetched)
      PROVE  /\ IsFiniteSet(From(tier, texts)) /\ From(tier, texts) \subseteq Q
             /\ \A x \in From(tier, texts) : x.tier = tier
             /\ \A x, y \in From(tier, texts) : x.at = y.at => x = y
  <2> DEFINE I == {j \in DOMAIN texts : texts[j].enough}
             f == [i \in I |-> draft(tier, texts, i)]
             F == From(tier, texts)
  <2>1. DOMAIN texts = 1 .. Len(texts) /\ Len(texts) \in Nat
    OBVIOUS
  <2>2. F = {f[i] : i \in I} /\ DOMAIN f = I /\ \A x \in F : \E i \in I : x = f[i]
    <3> HIDE DEF draft
    <3>1. \A i \in I : f[i] = draft(tier, texts, i)
      OBVIOUS
    <3>2. F = {draft(tier, texts, i) : i \in I} /\ DOMAIN f = I
      OBVIOUS
    <3> HIDE DEF F, I, f
    <3> QED BY <3>1, <3>2
  <2>3. IsFiniteSet(I)
    <3>1. I \in SUBSET (1 .. Len(texts)) /\ IsFiniteSet(1 .. Len(texts))
      BY <2>1, IntervalFacts
    <3> HIDE DEF I
    <3> QED BY <3>1, FS_Subset
  <2>4. IsFiniteSet(F)
    <3> HIDE DEF F, f, I
    <3> QED BY <2>2, <2>3, FiniteImage
  <2>5. ASSUME NEW i \in I PROVE f[i] \in Q /\ f[i].tier = tier /\ f[i].at = i
    <3>1. texts[i] \in Texts /\ texts[i] \in ToSet(texts) /\ i \in Nat
      BY <2>1 DEF ToSet
    <3> DEFINE t == texts[i]
               named == (W.title \cup t.tags) \cap MemberTags(hits, d)
               x == f[i]
    <3>2. /\ x.tier = tier /\ x.at = i /\ x.text = t.name /\ x.like = t.like /\ x.tags = named
          /\ x = [tier |-> tier, at |-> i, text |-> t.name, like |-> t.like, tags |-> named]
      BY DEF Draft
    <3>3. t.name \in STRING /\ t.like \in Nat /\ t.tags \subseteq Tags
      BY <3>1 DEF Texts
    <3>4. named \subseteq W.title \cup t.tags /\ named \in SUBSET Tags
      BY <1>1, <3>3
    <3>5. t \in TextsOf(d, fetched)
      BY <1>3, <3>1
    <3> HIDE DEF x, t, named
    <3>6. x \in [tier : {0, 1}, at : Nat, text : STRING, like : Nat, tags : SUBSET Tags]
      BY <3>1, <3>2, <3>3, <3>4
    <3>7. x \in Q
      BY <3>2, <3>4, <3>5, <3>6 DEF Quotable
    <3> QED BY <3>2, <3>7 DEF x
  <2> HIDE DEF F, I, f, Q
  <2>6. F \subseteq Q /\ \A x \in F : x.tier = tier
    BY <2>2, <2>5
  <2>7. \A x, y \in F : x.at = y.at => x = y
    BY <2>2, <2>5
  <2> QED BY <2>4, <2>6, <2>7 DEF F
<1>4. /\ IsFiniteSet(all) /\ all \subseteq Q
      /\ \A x, y \in all : x.tier = y.tier /\ x.at = y.at => x = y
  <2> DEFINE A == From(0, W.abstract)
             B == From(1, W.body)
  <2>1. /\ IsFiniteSet(A) /\ A \subseteq Q /\ \A x \in A : x.tier = 0
        /\ \A x, y \in A : x.at = y.at => x = y
    <3>1. ToSet(W.abstract) \subseteq TextsOf(d, fetched)
      BY DEF TextsOf
    <3> HIDE DEF From, Q, W
    <3> QED BY <1>1, <1>3, <3>1
  <2>2. CASE fetched
    <3>1. /\ IsFiniteSet(B) /\ B \subseteq Q /\ \A x \in B : x.tier = 1
          /\ \A x, y \in B : x.at = y.at => x = y
      <4>1. ToSet(W.body) \subseteq TextsOf(d, fetched)
        BY <2>2 DEF TextsOf
      <4> HIDE DEF From, Q, W
      <4> QED BY <1>1, <1>3, <4>1
    <3>2. all = A \cup B
      BY <2>2
    <3> HIDE DEF A, B, all, Q
    <3>3. IsFiniteSet(A \cup B)
      BY <2>1, <3>1, FS_Union
    <3>4. all \subseteq Q
      BY <2>1, <3>1, <3>2
    <3>5. \A x, y \in all : x.tier = y.tier /\ x.at = y.at => x = y
      BY <2>1, <3>1, <3>2
    <3> QED BY <3>2, <3>3, <3>4, <3>5
  <2>3. CASE ~fetched
    <3>1. all = A
      BY <2>3
    <3> HIDE DEF A, all, Q
    <3> QED BY <2>1, <3>1
  <2> QED BY <2>2, <2>3
<1>5. IsFiniteSet(S) /\ S \in SUBSET all
  <2>1. S \in SUBSET all
    OBVIOUS
  <2> HIDE DEF S, all
  <2> QED BY <1>4, <2>1, FS_Subset
<1>6. \A x \in all : Cardinality(x.tags) \in Nat /\ x.tier \in Nat /\ x.at \in Nat
  <2>1. \A x \in Q : x.tags \in SUBSET Tags /\ x.tier \in Nat /\ x.at \in Nat
    BY DEF Quotable
  <2> HIDE DEF all, Q
  <2> QED BY <1>1, <1>4, <2>1, FS_Subset, FS_CardinalityType
<1>7. \A x, y \in all : <<x, y>> \in R <=> Better(x, y)
  <2> HIDE DEF all, Better
  <2> QED OBVIOUS
<1> HIDE DEF all, R, S, Q
<1>8. /\ \A x \in S : <<x, x>> \notin R
      /\ \A x, y \in S : x = y \/ <<x, y>> \in R \/ <<y, x>> \in R
      /\ \A x, y, z \in S : <<x, y>> \in R /\ <<y, z>> \in R => <<x, z>> \in R
  <2>1. \A x \in S : x \in all
    BY <1>5
  <2>2. \A x \in all : ~Better(x, x)
    BY <1>6
  <2>3. \A x, y \in all : x = y \/ Better(x, y) \/ Better(y, x)
    BY <1>4, <1>6
  <2>4. \A x, y, z \in all : Better(x, y) /\ Better(y, z) => Better(x, z)
    <3> TAKE x, y, z \in all
    <3> DEFINE i == Cardinality(x.tags)
               j == Cardinality(y.tags)
               k == Cardinality(z.tags)
    <3>1. /\ i \in Nat /\ j \in Nat /\ k \in Nat /\ x.tier \in Nat /\ y.tier \in Nat
          /\ z.tier \in Nat /\ x.at \in Nat /\ y.at \in Nat /\ z.at \in Nat
      BY <1>6
    <3> HIDE DEF i, j, k
    <3> QED BY <3>1 DEF i, j, k
  <2> HIDE DEF Better
  <2> QED BY <1>7, <2>1, <2>2, <2>3, <2>4
<1>9. Ranked(S, R) \in Seq(S)
  BY <1>5, <1>8, RankedFacts
<1>10. S \subseteq Q
  BY <1>4, <1>5
<1> QED BY <1>2, <1>9, <1>10, SeqSubset DEF Q

\* Duplicates are left out, nothing is added.
LEMMA DistinctDraftsType ==
  ASSUME NEW S, NEW drafts \in Seq(S)
  PROVE  DistinctDrafts(drafts) \in Seq(S)
<1> DEFINE N == Len(drafts)
           V == Seq(S)
           Repeats(x, kept) ==
             \E i \in DOMAIN kept : x.text = kept[i].text \/ x.like = kept[i].like
           step(n, kept) ==
             IF Repeats(drafts[n], kept) THEN kept ELSE Append(kept, drafts[n])
           Is(f) == f = [n \in 0 .. N |-> IF n = 0 THEN <<>> ELSE step(n, f[n - 1])]
           distinct == CHOOSE f : Is(f)
           next == [n \in 1 .. N |-> [kept \in V |-> step(n, kept)]]
<1>1. N \in Nat /\ \A n \in 1 .. N : drafts[n] \in S
  OBVIOUS
<1>2. DistinctDrafts(drafts) = Prefix(distinct[N], Budget["perHit"])
  BY DEF DistinctDrafts
<1>3. <<>> \in V /\ \A n \in 1 .. N : \A kept \in V : step(n, kept) \in V
  <2> HIDE DEF Repeats
  <2> QED BY <1>1
<1> HIDE DEF V, step
<1>4. next \in [1 .. N -> [V -> V]]
  BY <1>3
<1>5. PICK g \in [0 .. N -> V] : Steps(g, N, <<>>, next)
  <2> HIDE DEF next, N
  <2> QED BY <1>1, <1>3, <1>4, StepsExist
<1>6. Is(g)
  <2> HIDE DEF N
  <2>1. \A n \in 1 .. N : n - 1 \in 0 .. N /\ g[n] = next[n][g[n - 1]]
    BY <1>1, <1>5 DEF Steps
  <2>2. \A n \in 1 .. N : g[n] = step(n, g[n - 1])
    BY <1>5, <2>1
  <2>3. g[0] = <<>> /\ DOMAIN g = 0 .. N
    BY <1>5 DEF Steps
  <2>4. \A n \in 0 .. N : g[n] = IF n = 0 THEN <<>> ELSE step(n, g[n - 1])
    BY <1>1, <2>2, <2>3
  <2> QED BY <1>5, <2>4
<1>7. Is(distinct)
  <2> HIDE DEF Is
  <2> QED BY <1>6
<1> HIDE DEF distinct
<1> DEFINE B == {n \in Nat : n <= N => distinct[n] \in V}
<1>8. 0 \in B
  BY <1>1, <1>3, <1>7
<1>9. ASSUME NEW n \in B PROVE n + 1 \in B
  <2> SUFFICES ASSUME n + 1 <= N PROVE distinct[n + 1] \in V
    OBVIOUS
  <2> HIDE DEF N
  <2>1. n \in Nat /\ n + 1 \in 1 .. N /\ n + 1 \in 0 .. N /\ (n + 1) - 1 = n /\ n <= N
        /\ n + 1 # 0
    BY <1>1
  <2>2. distinct[n] \in V
    BY <2>1
  <2>3. distinct[n + 1] = step(n + 1, distinct[n])
    BY <1>7, <2>1
  <2> QED BY <1>3, <2>1, <2>2, <2>3
<1>10. N \in B
  <2>1. B \in SUBSET Nat
    OBVIOUS
  <2> HIDE DEF B, N
  <2>2. B = Nat
    BY <1>8, <1>9, <2>1, SetInduction
  <2> QED BY <1>1, <2>2
<1>11. distinct[N] \in Seq(S)
  <2>1. distinct[N] \in V
    BY <1>1, <1>10
  <2> QED BY <2>1 DEF V
<1>12. Budget["perHit"] \in Nat
  BY Budgets
<1> QED BY <1>2, <1>11, <1>12, PrefixFacts

\* A passage quotes a text of a document that was read, for a hit that listed it.
Quotes(p, hits, fetched) ==
  /\ p.doc \in DocumentsOf(hits) /\ p.hit \in Members(hits, p.doc)
  /\ \E t \in TextsOf(p.doc, p.doc \in fetched) :
       p.tags \subseteq Works[p.doc].title \cup t.tags

\* Every passage quotes the document of a hit.
LEMMA PassagesQuote ==
  ASSUME NEW hits \in Seq(HitRecords), NEW documents \in Seq(DocumentsOf(hits)), NEW fetched
  PROVE  \A p \in ToSet(PassagesOf(hits, documents, fetched)) : Quotes(p, hits, fetched)
<1> DEFINE D == DocumentsOf(hits)
           PassageRecords == [doc : D, text : STRING, tier : {0, 1}, tags : SUBSET Tags,
                              hit : HitRecords]
           S == {p \in PassageRecords : Quotes(p, hits, fetched)}
           drafts(d) == DistinctDrafts(RankedDrafts(hits, d, d \in fetched))
           passage(d, i) ==
             [doc |-> d, text |-> drafts(d)[i].text, tier |-> drafts(d)[i].tier,
              tags |-> drafts(d)[i].tags, hit |-> ProcessingHit(hits, d)]
           From(d) == [i \in DOMAIN drafts(d) |-> passage(d, i)]
           rows == [i \in DOMAIN documents |-> From(documents[i])]
<1>1. D \subseteq Documents /\ ToSet(hits) \subseteq HitRecords
      /\ documents \in Seq(D) /\ DOMAIN documents = 1 .. Len(documents)
      /\ Len(documents) \in Nat /\ \A i \in 1 .. Len(documents) : documents[i] \in D
  BY DocumentsFacts, ToSetType
<1>2. ASSUME NEW d \in D PROVE From(d) \in Seq(S)
  <2> DEFINE Q == Quotable(d, d \in fetched)
             s == drafts(d)
  <2>1. s \in Seq(Q)
    <3> DEFINE b == d \in fetched
               ranked == RankedDrafts(hits, d, b)
    <3>1. b \in BOOLEAN /\ d \in Documents
      BY <1>1
    <3> HIDE DEF b
    <3>2. ranked \in Seq(Quotable(d, b))
      BY <3>1, RankedDraftsType
    <3> HIDE DEF ranked
    <3>3. DistinctDrafts(ranked) \in Seq(Quotable(d, b))
      BY <3>2, DistinctDraftsType
    <3> QED BY <3>3 DEF ranked, b
  <2>2. ProcessingHit(hits, d) \in Members(hits, d) /\ ProcessingHit(hits, d) \in HitRecords
    BY <1>1, ProcessingHitFacts DEF Members
  <2>3. ASSUME NEW i \in DOMAIN s PROVE passage(d, i) \in S
    <3>1. s[i] \in Q
      <4> HIDE DEF s, Q
      <4> QED BY <2>1
    <3> DEFINE x == s[i]
               p == passage(d, i)
    <3>2. /\ x.text \in STRING /\ x.tier \in {0, 1} /\ x.tags \in SUBSET Tags
          /\ \E t \in TextsOf(d, d \in fetched) : x.tags \subseteq Works[d].title \cup t.tags
      <4> HIDE DEF x
      <4>1. x \in Q
        BY <3>1 DEF x
      <4> QED BY <4>1 DEF Quotable
    <3>3. /\ p.doc = d /\ p.tags = x.tags /\ p.hit = ProcessingHit(hits, d)
          /\ p = [doc |-> d, text |-> x.text, tier |-> x.tier, tags |-> x.tags,
                  hit |-> ProcessingHit(hits, d)]
      OBVIOUS
    <3> HIDE DEF x, p
    <3>4. p \in PassageRecords
      BY <2>2, <3>2, <3>3
    <3>5. Quotes(p, hits, fetched)
      BY <2>2, <3>2, <3>3 DEF Quotes
    <3> QED BY <3>4, <3>5 DEF p
  <2>4. DOMAIN s = 1 .. Len(s) /\ Len(s) \in Nat
    <3> HIDE DEF s
    <3> QED BY <2>1
  <2> DEFINE n == Len(s)
  <2>5. From(d) \in [1 .. n -> S]
    <3> HIDE DEF S, passage, n
    <3> QED BY <2>3, <2>4 DEF n
  <2> HIDE DEF S, From, n
  <2>6. n \in Nat
    BY <2>4 DEF n
  <2> QED BY <2>5, <2>6
<1>3. rows \in Seq(Seq(S))
  <2> DEFINE N == Len(documents)
  <2>1. rows \in [1 .. N -> Seq(S)] /\ N \in Nat
    <3> HIDE DEF S, From
    <3> QED BY <1>1, <1>2
  <2> HIDE DEF S, rows, N
  <2> QED BY <2>1
<1>4. FlattenSeq(rows) \in Seq(S)
  <2> HIDE DEF S, rows
  <2> QED BY <1>3, FlattenType
<1>5. PassagesOf(hits, documents, fetched) = Prefix(FlattenSeq(rows), Budget["passages"])
  BY DEF PassagesOf
<1>6. Budget["passages"] \in Nat
  BY Budgets
<1> HIDE DEF rows
<1>7. PassagesOf(hits, documents, fetched) \in Seq(S)
  <2> HIDE DEF S
  <2> QED BY <1>4, <1>5, <1>6, PrefixFacts
<1>8. ToSet(PassagesOf(hits, documents, fetched)) \subseteq S
  <2> HIDE DEF S
  <2> QED BY <1>7, ToSetType
<1> QED BY <1>8

\* A substitution that is valid leaves sites of known charge that cancel out.
LEMMA ValidIsNeutral ==
  ASSUME NEW p \in Parents, OneClass(p.id), Edit(p).verdict = "STRUCTURE_VALID"
  PROVE  LET species == Edit(p).output.species
         IN  (\A i \in DOMAIN species : species[i][2] # {}) /\ Neutral(species)
<1> DEFINE crystal == Crystal[p.id]
           species == Edit(p).output.species
           any(c) == CHOOSE n \in c : TRUE
<1>1. PICK k, dimensions : /\ Edit(p).verdict = Verdict(crystal, k, dimensions, MaxSites)
                           /\ Edit(p).output = Output(crystal, k)
  BY EditFacts
<1> DEFINE sites == Substituted(crystal.sites, k)
<1>2. WholeCharge(sites) = "PASS"
  <2> HIDE DEF crystal, sites
  <2> QED BY <1>1 DEF Verdict, sites
<1>3. species = [i \in DOMAIN sites |-> <<sites[i].element, sites[i].charge>>]
  <2> HIDE DEF crystal
  <2>1. species = Output(crystal, k).species
    BY <1>1
  <2> QED BY <2>1 DEF Output
<1> HIDE DEF crystal, sites, species, any
<1>4. DOMAIN species = DOMAIN sites /\ \A i \in DOMAIN sites : species[i][2] = sites[i].charge
  BY <1>3
<1>5. {} \notin ChargesOf(sites, DOMAIN sites)
      /\ SumFunction([i \in DOMAIN sites |-> any(sites[i].charge)]) = 0
  BY <1>2 DEF WholeCharge, any
<1>6. \A i \in DOMAIN species : species[i][2] # {}
  BY <1>4, <1>5 DEF ChargesOf
<1>7. [i \in DOMAIN species |-> any(species[i][2])] = [i \in DOMAIN sites |-> any(sites[i].charge)]
  BY <1>4
<1>8. Neutral(species)
  <2>1. SumFunction([i \in DOMAIN species |-> any(species[i][2])]) = 0
    BY <1>5, <1>7
  <2> QED BY <2>1 DEF Neutral, any
<1> QED BY <1>6, <1>8 DEF species

\* Whatever was found quotes a document for a hit of some query.
LEMMA FoundQuote ==
  ASSUME InspirationInv
  PROVE  \A p \in ToSet(Passages) : Quotes(p, Hits, FetchedDocuments) /\ p.hit.query \in QueryIds
<1> DEFINE documents == Prefix(Groups, group)
<1>1. /\ Hits \in Seq(HitRecords) /\ Groups \in Seq(DocumentsOf(Hits)) /\ group \in Nat
  BY GroupsFacts DEF InspirationInv, RunHolds
<1>2. documents \in Seq(DocumentsOf(Hits))
  BY <1>1, PrefixFacts
<1>3. \A p \in ToSet(Passages) : Quotes(p, Hits, FetchedDocuments)
  <2> HIDE DEF documents
  <2>1. Passages = PassagesOf(Hits, documents, FetchedDocuments)
    BY DEF Passages, documents
  <2> QED BY <1>1, <1>2, <2>1, PassagesQuote
<1>4. ASSUME NEW p \in ToSet(Passages) PROVE p.hit.query \in QueryIds
  <2>1. p.hit \in HitRecords
    BY <1>1, <1>3, ToSetType DEF Quotes, Members
  <2> QED BY <2>1 DEF HitRecords
<1> QED BY <1>3, <1>4

\* What supports a rule was found by a bridge query.
LEMMA SupportIsBridged ==
  ASSUME NEW p, p.hit.query \in QueryIds, RuleOf(p) # 0, Relation(p) = "SUPPORT"
  PROVE  Plan[p.hit.query].kind = "BRIDGE"
<1> DEFINE q == p.hit.query
<1>1. Plan[q] \in PlannedQueries /\ (Plan[q].kind = "DIRECT" <=> Plan[q].rule = 0)
  BY PlanFacts
<1>2. Plan[q].kind \in {"DIRECT", "BRIDGE", "COUNTER"}
  BY <1>1 DEF PlannedQueries
<1>3. Plan[q].kind # "COUNTER"
  <2> SUFFICES ASSUME Plan[q].kind = "COUNTER" PROVE FALSE
    OBVIOUS
  <2>1. Relation(p) = "COUNTER"
    BY DEF Relation, RuleOf
  <2> QED BY <2>1
<1> QED BY <1>1, <1>2, <1>3 DEF RuleOf

\* What a packet requires is said in documents that bridge queries of its rule listed.
LEMMA PacketIsBacked ==
  ASSUME InspirationInv, NEW n, NEW b \in Packets(Cards(Passages), n),
         NEW m \in Rule[b.rule].required
  PROVE  \E d \in ListedFor(b.rule) : \E words \in Says(d) : m \in words
<1>1. b.rule \in Rules /\ b.cards = CardsOf(Cards(Passages), b.rule)
      /\ m \in SupportTags(b.cards)
  BY PacketFacts
<1>2. PICK c \in b.cards : c.relation = "SUPPORT" /\ m \in c.tags
  BY <1>1 DEF SupportTags, TagsOf
<1>3. c \in Cards(Passages) /\ c.rule = b.rule
  BY <1>1 DEF CardsOf
<1> DEFINE p == c.passage
           q == p.hit.query
<1>4. /\ p \in ToSet(Passages) /\ RuleOf(p) = b.rule /\ Relation(p) = "SUPPORT"
      /\ m \in p.tags
  BY <1>2, <1>3, CardFacts
<1> HIDE DEF p
<1>5. /\ p.doc \in DocumentsOf(Hits) /\ p.hit \in Members(Hits, p.doc)
      /\ \E t \in TextsOf(p.doc, p.doc \in FetchedDocuments) :
           p.tags \subseteq Works[p.doc].title \cup t.tags
  BY <1>4, FoundQuote DEF Quotes
<1>6. Plan[q].rule = b.rule /\ Plan[q].kind = "BRIDGE"
  <2>1. q \in QueryIds
    BY <1>4, FoundQuote
  <2>2. Plan[q].rule = b.rule /\ b.rule # 0
    BY <1>1, <1>4, EvidenceAssumption DEF RuleOf
  <2> QED BY <1>4, <2>1, <2>2, SupportIsBridged
<1>7. p.doc \in ListedFor(b.rule)
  BY <1>5, <1>6 DEF ListedFor, Members
<1>8. PICK t \in TextsOf(p.doc, p.doc \in FetchedDocuments) :
         p.tags \subseteq Works[p.doc].title \cup t.tags
  BY <1>5
<1>9. Works[p.doc].title \cup t.tags \in Says(p.doc)
  BY DEF Says, TextsOf
<1> QED BY <1>4, <1>7, <1>8, <1>9

\* What a candidate's routes go back to.
BackedBy(c, route, parents) ==
  /\ \A m \in Rule[route.rule].required :
       \E d \in ListedFor(route.rule) : \E words \in Says(d) : m \in words
  /\ \E p \in parents :
       /\ p.id = route.parent /\ p.rule \in {0, route.rule}
       /\ Edit(p).output = StructureOrder[c.structure]
  /\ \A i \in DOMAIN StructureOrder[c.structure].species :
       StructureOrder[c.structure].species[i][2] # {}
  /\ Neutral(StructureOrder[c.structure].species)

\* Each route of a candidate goes back to a packet of the run.
LEMMA CandidatesAreBacked ==
  ASSUME InspirationInv, NEW n, NEW parents \in ParentPools, NEW pool,
         pool = Candidates(Drafts(Packets(Cards(Passages), n), parents))
  PROVE  \A c \in pool : \A route \in c.routes :
           /\ BackedBy(c, route, parents)
           /\ route.cards = CardsOf(Cards(Passages), route.rule)
<1> DEFINE packets == Packets(Cards(Passages), n)
           drafts == Drafts(packets, parents)
<1>1. /\ SoundDrafts(drafts) /\ \A d \in drafts : DraftOf(d, packets, parents)
  BY DraftsAreSound, DraftsFacts
<1>2. \A c \in pool : \A r \in c.routes : \E d \in drafts :
        /\ r = Route(d) /\ d.edit.verdict = "STRUCTURE_VALID"
        /\ d.edit.output = StructureOrder[c.structure]
  <2> HIDE DEF packets
  <2>1. pool = Candidates(drafts)
    BY DEF packets
  <2> HIDE DEF drafts
  <2> QED BY <1>1, <2>1, CandidateFacts
<1>3. parents \subseteq Parents
  BY RunAssumption
<1> SUFFICES ASSUME NEW c \in pool, NEW route \in c.routes
             PROVE  /\ BackedBy(c, route, parents)
                    /\ route.cards = CardsOf(Cards(Passages), route.rule)
  OBVIOUS
<1> HIDE DEF drafts
<1>4. PICK d \in drafts : /\ route = Route(d) /\ d.edit.verdict = "STRUCTURE_VALID"
                          /\ d.edit.output = StructureOrder[c.structure]
  BY <1>2
<1>5. /\ d.parent \in parents /\ d.edit = Edit(d.parent) /\ OneClass(d.parent.id)
      /\ d.bridge \in packets /\ d.parent.rule \in {0, d.bridge.rule}
  BY <1>1 DEF DraftOf
<1>6. /\ route.parent = d.parent.id /\ route.rule = d.bridge.rule
      /\ route.cards = d.bridge.cards
  BY <1>4 DEF Route
<1> DEFINE b == d.bridge
           p == d.parent
           species == StructureOrder[c.structure].species
<1>7. /\ Edit(p).output = StructureOrder[c.structure] /\ p \in Parents /\ OneClass(p.id)
      /\ Edit(p).verdict = "STRUCTURE_VALID"
  BY <1>3, <1>4, <1>5
<1>8. (\A i \in DOMAIN species : species[i][2] # {}) /\ Neutral(species)
  <2> HIDE DEF p
  <2> QED BY <1>7, ValidIsNeutral
<1>9. route.cards = CardsOf(Cards(Passages), route.rule)
  <2> HIDE DEF b
  <2>1. b \in Packets(Cards(Passages), n)
    BY <1>5 DEF b
  <2>2. b.cards = CardsOf(Cards(Passages), b.rule)
    BY <2>1, PacketFacts
  <2> QED BY <1>6, <2>2 DEF b
<1>10. ASSUME NEW m \in Rule[route.rule].required
       PROVE  \E x \in ListedFor(route.rule) : \E words \in Says(x) : m \in words
  <2> HIDE DEF b
  <2>1. b \in Packets(Cards(Passages), n) /\ m \in Rule[b.rule].required /\ route.rule = b.rule
    BY <1>5, <1>6 DEF b
  <2>2. \E x \in ListedFor(b.rule) : \E words \in Says(x) : m \in words
    BY <2>1, PacketIsBacked
  <2> QED BY <2>1, <2>2
<1>11. \E x \in parents : /\ x.id = route.parent /\ x.rule \in {0, route.rule}
                          /\ Edit(x).output = StructureOrder[c.structure]
  BY <1>5, <1>6, <1>7
<1> QED BY <1>8, <1>9, <1>10, <1>11 DEF BackedBy

\* Whoever is selected is backed by what was read.
THEOREM SelectionIsBacked == Spec => []SelectedIsBacked
<1>1. Init => SelectedIsBacked
  BY DEF Init, Pending, SelectedIsBacked
<1>2. InspirationInv /\ SelectedIsBacked /\ [Next]_vars => SelectedIsBacked'
  <2> SUFFICES ASSUME InspirationInv, SelectedIsBacked, [Next]_vars
               PROVE  SelectedIsBacked'
    OBVIOUS
  <2>1. CASE UNCHANGED vars
    <3>1. result' = result /\ Hits' = Hits /\ FetchedDocuments' = FetchedDocuments
      BY <2>1 DEF vars, Hits, FetchedDocuments
    <3>2. (\A r : ListedFor(r)' = ListedFor(r)) /\ (\A d : Says(d)' = Says(d))
      BY <3>1 DEF ListedFor, Says
    <3> QED BY <3>1, <3>2 DEF SelectedIsBacked
  <2>2. CASE result'.kind # "BUNDLE"
    BY <2>2 DEF SelectedIsBacked
  <2>3. ASSUME NEW parents \in ParentPools, NEW policy \in Policies,
               NEW found, NEW cards, NEW packets, NEW drafts, NEW pool, NEW target, NEW s,
               Compiled(parents, policy.quota, found, cards, packets, drafts, pool, target, s),
               pages' = pages, manifest' = manifest
        PROVE  SelectedIsBacked'
    <3> DEFINE quota == policy.quota
               status == QuotaStatus(pool, quota, target)
    <3>1. /\ pool = Candidates(Drafts(Packets(Cards(Passages), Len(pages)), parents))
          /\ target = FeasibleTarget(pool, quota) /\ s = Select(pool, target)
          /\ result'.audit = Audit(pool, quota, s, status) /\ result'.parents = parents
      BY <2>3 DEF Compiled, Bundle
    <3>2. result'.audit.selected = s
      BY <3>1 DEF Audit
    <3>3. SoundPool(pool)
      BY <3>1, DraftsAreSound, CandidateFacts
    <3>4. quota \in 1 .. TopK
      BY RunAssumption
    <3> HIDE DEF quota, status
    <3>5. ToSet(s) \subseteq pool
      BY <3>1, <3>3, <3>4, SelectionFacts
    <3>6. \A c \in pool : \A route \in c.routes :
            /\ BackedBy(c, route, parents)
            /\ route.cards = CardsOf(Cards(Passages), route.rule)
      BY <3>1, CandidatesAreBacked
    <3>7. Hits' = Hits /\ FetchedDocuments' = FetchedDocuments
      BY <2>3 DEF Hits, FetchedDocuments
    <3>8. \A r : ListedFor(r)' = ListedFor(r)
      BY <3>7 DEF ListedFor
    <3>9. \A d : Says(d)' = Says(d)
      BY <3>7 DEF Says
    <3> DEFINE routes == UNION {c.routes : c \in ToSet(s)}
    <3>10. \A c \in ToSet(s) : \A route \in c.routes : \A other \in routes :
             other.rule # route.rule => other.cards \cap route.cards = {}
      <4>1. \A other \in routes : other.cards = CardsOf(Cards(Passages), other.rule)
        BY <3>5, <3>6
      <4>2. \A c \in ToSet(s) : \A route \in c.routes :
              route.cards = CardsOf(Cards(Passages), route.rule)
        BY <3>5, <3>6
      <4>3. \A q, r : q # r => CardsOf(Cards(Passages), q) \cap CardsOf(Cards(Passages), r) = {}
        BY DEF CardsOf
      <4> HIDE DEF routes
      <4> QED BY <4>1, <4>2, <4>3
    <3> HIDE DEF routes
    <3>11. \A c \in ToSet(s) : \A route \in c.routes : BackedBy(c, route, parents)
      BY <3>5, <3>6
    <3> QED BY <3>1, <3>2, <3>8, <3>9, <3>10, <3>11 DEF SelectedIsBacked, BackedBy, routes
  <2> QED BY <2>1, <2>2, <2>3, ResultFacts
<1> QED BY <1>1, <1>2, InspirationInvariant, PTL DEF Spec

(***************************************************************************)
(* The checks of the run.                                                  *)
(***************************************************************************)

\* What a packet cites closes down to hits of queries of its rule.
LEMMA ClosuresHold ==
  ASSUME InspirationInv, NEW n, NEW b \in Packets(Cards(Passages), n)
  PROVE  ~ClosureBreaks(b, Passages, Hits)
<1> DEFINE support == {c \in b.cards : c.relation = "SUPPORT"}
           queries(card) == {h.query : h \in {x \in ToSet(Hits) : x = card.passage.hit}}
<1>1. /\ b.rule \in Rules /\ b.cards = CardsOf(Cards(Passages), b.rule)
      /\ Rule[b.rule].required \subseteq SupportTags(b.cards)
  BY PacketFacts
<1>2. ASSUME NEW c \in b.cards
      PROVE  /\ c.passage \in ToSet(Passages) /\ RuleOf(c.passage) = b.rule
             /\ c.relation = Relation(c.passage)
             /\ c.passage.hit \in ToSet(Hits) /\ Listed(c.passage.hit) = c.passage.doc
             /\ queries(c) = {c.passage.hit.query}
  <2>1. c \in Cards(Passages) /\ c.rule = b.rule
    BY <1>1 DEF CardsOf
  <2>2. c.passage \in ToSet(Passages) /\ c.rule = RuleOf(c.passage)
        /\ c.relation = Relation(c.passage)
    BY <2>1, CardFacts
  <2>3. Quotes(c.passage, Hits, FetchedDocuments)
    BY <2>2, FoundQuote
  <2>4. c.passage.hit \in ToSet(Hits) /\ Listed(c.passage.hit) = c.passage.doc
    BY <2>3 DEF Quotes, Members
  <2> QED BY <2>1, <2>2, <2>4
<1>3. Rule[b.rule].required # {} /\ TagsOf(support) = SupportTags(b.cards)
  BY <1>1, EvidenceAssumption DEF SupportTags
<1>4. support # {} /\ Rule[b.rule].required \subseteq TagsOf(support)
  <2>1. TagsOf({}) = {}
    BY DEF TagsOf
  <2> QED BY <1>1, <1>3, <2>1
<1>5. PICK c \in support : TRUE
  BY <1>4
<1>6. \E q \in QueryIds : q \in queries(c) /\ Plan[q].kind = "BRIDGE"
  <2>1. c \in b.cards /\ Relation(c.passage) = "SUPPORT" /\ c.passage \in ToSet(Passages)
    BY <1>2, <1>5
  <2>2. /\ c.passage.hit \in ToSet(Hits) /\ queries(c) = {c.passage.hit.query}
        /\ RuleOf(c.passage) = b.rule
    BY <1>2, <2>1
  <2>3. c.passage.hit.query \in QueryIds /\ Plan[c.passage.hit.query].kind = "BRIDGE"
    <3> DEFINE p == c.passage
    <3>1. p \in ToSet(Passages) /\ Relation(p) = "SUPPORT" /\ RuleOf(p) # 0
      BY <1>1, <2>1, <2>2, EvidenceAssumption
    <3> HIDE DEF p
    <3>2. p.hit.query \in QueryIds
      BY <3>1, FoundQuote
    <3>3. Plan[p.hit.query].kind = "BRIDGE"
      BY <3>1, <3>2, SupportIsBridged
    <3> QED BY <3>2, <3>3 DEF p
  <2> QED BY <2>2, <2>3
<1>7. \A x \in b.cards : \A q \in queries(x) : Plan[q].rule = b.rule
  BY <1>2 DEF RuleOf
<1>8. \A x \in b.cards : x.passage \in ToSet(Passages) /\ queries(x) # {}
                         /\ Listed(x.passage.hit) = x.passage.doc
  BY <1>2
<1> HIDE DEF support, queries
<1> QED BY <1>4, <1>5, <1>6, <1>7, <1>8 DEF ClosureBreaks, support, queries

\* A supported rule is covered in full.
LEMMA CoverageIsFull ==
  ASSUME NEW b, b.rule \in Rules, Rule[b.rule].required \subseteq SupportTags(b.cards)
  PROVE  Coverage(b) = Unit
<1> DEFINE required == Rule[b.rule].required
           n == Cardinality(required)
<1>1. /\ required \in SUBSET Tags /\ required # {} /\ IsFiniteSet(Tags)
      /\ required \cap SupportTags(b.cards) = required
  BY EvidenceAssumption
<1>2. n \in Nat /\ n # 0
  <2> HIDE DEF required
  <2> QED BY <1>1, FS_Subset, FS_CardinalityType, FS_EmptySet
<1>3. Coverage(b) = (n * Unit) \div n
  BY <1>1 DEF Coverage
<1> HIDE DEF n
<1>4. (n * Unit) \div n = Unit
  BY <1>2 DEF Unit
<1> QED BY <1>3, <1>4

\* A catalog parent yields what it was listed for, within the same limit of sites.
LEMMA CatalogHolds ==
  ASSUME MaxCatalogSites <= MaxSites, NEW p \in Parents, p.rule # 0, OneClass(p.id),
         CatalogAccepts(Crystal[p.id])
  PROVE  Edit(p).verdict = "STRUCTURE_VALID"
<1> DEFINE crystal == Crystal[p.id]
           k == CHOOSE k \in SulfurClasses(crystal.sites) : TRUE
<1>1. p.id \in DOMAIN Crystal
  BY DEF Parents
<1>2. Edit(p).verdict = Verdict(crystal, k, {2}, MaxSites)
  <2>1. Edit(p) = Substitution[p.id][TRUE]
    BY DEF Edit
  <2>2. Edit(p) = Edited(p.id, {2})
    BY <1>1, <2>1 DEF Substitution
  <2> QED BY <2>2 DEF Edited
<1>3. PICK x : SulfurClasses(crystal.sites) = {x}
               /\ Verdict(crystal, x, {2}, MaxCatalogSites) = "STRUCTURE_VALID"
  BY DEF CatalogAccepts
<1>4. k = x
  BY <1>3
<1>5. Len(crystal.sites) \in Nat /\ MaxSites \in Nat /\ MaxCatalogSites \in Nat
  BY <1>1, CrystalAssumption
<1> HIDE DEF crystal, k
<1>6. /\ ~Disqualified(crystal, k, {2}, MaxCatalogSites)
      /\ SubstitutedCharge(crystal.sites, k) = "PASS"
      /\ WholeCharge(Substituted(crystal.sites, k)) = "PASS"
  BY <1>3, <1>4 DEF Verdict
<1>7. ~Disqualified(crystal, k, {2}, MaxSites)
  BY <1>5, <1>6 DEF Disqualified
<1>8. Verdict(crystal, k, {2}, MaxSites) = "STRUCTURE_VALID"
  BY <1>6, <1>7 DEF Verdict
<1> QED BY <1>2, <1>8

\* No draft of a run is an error of the engine.
LEMMA DraftsHold ==
  ASSUME MaxCatalogSites <= MaxSites, NEW cards, NEW n, NEW parents \in ParentPools
  PROVE  ~DraftsBreak(Drafts(Packets(cards, n), parents))
<1> DEFINE packets == Packets(cards, n)
           drafts == Drafts(packets, parents)
<1>1. \A d \in drafts : DraftOf(d, packets, parents)
  BY DraftsFacts
<1>2. /\ parents \subseteq Parents
      /\ \A p \in parents : p.rule # 0 => CatalogAccepts(Crystal[p.id])
  BY RunAssumption
<1> HIDE DEF drafts
<1>3. ASSUME NEW d \in drafts
      PROVE  /\ ~(Coverage(d.bridge) < Unit)
             /\ ~(d.parent.rule # 0 /\ d.edit.verdict # "STRUCTURE_VALID")
             /\ TagsOf(d.bridge.cards) # {}
  <2>1. /\ d.parent \in parents /\ d.edit = Edit(d.parent) /\ OneClass(d.parent.id)
        /\ d.bridge \in Packets(cards, n)
    BY <1>1 DEF DraftOf
  <2> DEFINE b == d.bridge
             p == d.parent
  <2>2. /\ b.rule \in Rules /\ Rule[b.rule].required \subseteq SupportTags(b.cards)
    BY <2>1, PacketFacts
  <2>3. p \in Parents /\ OneClass(p.id) /\ (p.rule # 0 => CatalogAccepts(Crystal[p.id]))
    BY <1>2, <2>1
  <2> HIDE DEF b, p
  <2>4. Coverage(b) = Unit
    BY <2>2, CoverageIsFull
  <2>5. p.rule # 0 => Edit(p).verdict = "STRUCTURE_VALID"
    BY <2>3, CatalogHolds
  <2>6. TagsOf(b.cards) # {}
    <3>1. SupportTags(b.cards) \subseteq TagsOf(b.cards)
      BY DEF SupportTags, TagsOf
    <3>2. Rule[b.rule].required # {}
      BY <2>2, EvidenceAssumption
    <3> QED BY <2>2, <3>1, <3>2
  <2> QED BY <2>1, <2>4, <2>5, <2>6 DEF b, p, Unit
<1> QED BY <1>3 DEF DraftsBreak, drafts

\* Fetches are charged to queries that were executed.
ChargedToPages == \A a \in fetches : a.queries \subseteq DOMAIN pages

\* No step charges a fetch to a query that has no page.
LEMMA ChargesFacts ==
  ASSUME InspirationInv, ChargedToPages, [Next]_vars
  PROVE  ChargedToPages'
<1>1. /\ pages \in Pages /\ pages \in Seq(Seq(Records)) /\ Len(pages) \in Nat
      /\ DOMAIN pages = 1 .. Len(pages)
  BY GroupsFacts DEF Pages
<1>2. CASE UNCHANGED <<pages, fetches>>
  BY <1>2 DEF ChargedToPages
<1>3. CASE SearchNext
  <2>1. \/ UNCHANGED <<pages, fetches>>
        \/ fetches' = fetches /\ \E page : pages' = Append(pages, page)
    BY <1>3 DEF SearchNext, SearchSucceeds, PageIsMalformed, SearchRetried, SearchFails,
       WaitBudgetExceeded, GroupDocuments, FailSearch
  <2>2. ASSUME NEW page, pages' = Append(pages, page) PROVE DOMAIN pages \subseteq DOMAIN pages'
    BY <1>1, <2>2
  <2> QED BY <1>2, <2>1, <2>2 DEF ChargedToPages
<1>4. CASE FetchNext
  <2>1. pages' = pages
    BY <1>4 DEF FetchNext, LeaveBody, BeginFetch, BeginFetchFails, FetchBudgetExhausted,
     ResolveFails, FetchRetried, FetchGivesUp, FetchRefused, RedirectFollowed,
     RedirectRefused, FetchSucceeds, FetchFails
  <2>2. ASSUME NEW attempts, NEW bytes, Recorded(attempts, bytes) PROVE ChargedToPages'
    <3>1. MemberQueries(Hits, Document) \subseteq DOMAIN pages
      BY <1>1, HitsFacts DEF MemberQueries, Members, Hits
    <3>2. fetches' \subseteq fetches \cup
            {[doc |-> Document, requests |-> attempts, bytes |-> bytes,
              queries |-> MemberQueries(Hits, Document)]}
      BY <2>2 DEF Recorded
    <3> QED BY <2>1, <3>1, <3>2 DEF ChargedToPages
  <2>3. ASSUME NEW category, NEW attempts, NEW bytes, FetchFails(category, attempts, bytes)
        PROVE  ChargedToPages'
    BY <2>2, <2>3 DEF FetchFails
  <2> QED BY <1>2, <1>4, <2>1, <2>2, <2>3 DEF FetchNext, LeaveBody, BeginFetch, BeginFetchFails,
     FetchBudgetExhausted, ResolveFails, FetchRetried, FetchGivesUp, FetchRefused,
     RedirectFollowed, RedirectRefused, FetchSucceeds
<1>5. CASE Compile
  BY <1>2, <1>5 DEF Compile
<1>6. CASE Done \/ UNCHANGED vars
  BY <1>2, <1>6 DEF Done, vars
<1> QED BY <1>3, <1>4, <1>5, <1>6 DEF Next

\* The feedback compiler takes what a run hands it.
LEMMA FeedbackAccepts ==
  ASSUME InspirationInv, ChargedToPages
  PROVE  ~FeedbackRefuses(pages, searches, Hits, Passages, Cards(Passages),
                          Packets(Cards(Passages), Len(pages)), fetches)
<1> DEFINE cards == Cards(Passages)
           packets == Packets(cards, Len(pages))
<1>1. pages \in Pages /\ DOMAIN pages = 1 .. Len(pages)
  BY GroupsFacts DEF Pages
<1>2. \A i \in DOMAIN searches : searches[i].query \in QueryIds
  <2> DEFINE T == [query : QueryIds, number : Nat, ok : BOOLEAN]
  <2>1. searches \in Seq(T)
    BY DEF InspirationInv, RunHolds
  <2>2. \A t \in T : t.query \in QueryIds
    OBVIOUS
  <2> HIDE DEF T
  <2>3. \A i \in DOMAIN searches : searches[i] \in T
    BY <2>1
  <2> QED BY <2>2, <2>3
<1>3. \A q \in Executed(pages) : \E i \in DOMAIN searches : searches[i].query = q /\ searches[i].ok
  <2> SUFFICES ASSUME NEW q \in 1 .. Len(pages)
               PROVE  \E i \in DOMAIN searches : searches[i].query = q /\ searches[i].ok
    BY <1>1 DEF Executed
  <2>1. Cardinality({i \in DOMAIN searches : searches[i].query = q /\ searches[i].ok}) = 1
    BY DEF InspirationInv, SearchesLogged
  <2>2. {i \in DOMAIN searches : searches[i].query = q /\ searches[i].ok} # {}
    BY <2>1, FS_EmptySet
  <2> QED BY <2>2
<1>4. \A h \in ToSet(Hits) : h.query \in Executed(pages)
  BY <1>1, HitsFacts DEF Hits, Executed
<1>5. \A p \in ToSet(Passages) : p.hit \in ToSet(Hits) /\ Listed(p.hit) = p.doc
  BY FoundQuote DEF Quotes, Members
<1>6. \A a \in fetches : a.queries \subseteq Executed(pages)
  BY DEF ChargedToPages, Executed
<1>7. \A c \in cards : c.passage \in ToSet(Passages) /\ RuleOf(c.passage) = c.rule
  BY CardFacts
<1>8. \A b \in packets : /\ b.rule \in Rules /\ b.cards = CardsOf(cards, b.rule)
                         /\ Rule[b.rule].required \subseteq SupportTags(b.cards)
  BY PacketFacts
<1>9. \A a, b \in packets : a.rule = b.rule => a = b
  BY DEF Packets
<1> HIDE DEF cards, packets
<1>10. \A b \in packets : \A c \in b.cards : c \in cards /\ RuleOf(c.passage) = b.rule
  BY <1>7, <1>8 DEF CardsOf
<1>11. ~FeedbackRefuses(pages, searches, Hits, Passages, cards, packets, fetches)
  BY <1>2, <1>3, <1>4, <1>5, <1>6, <1>7, <1>8, <1>9, <1>10 DEF FeedbackRefuses
<1> QED BY <1>11 DEF cards, packets

\* What ends a compilation: a code of the network, one of the checks, or the bundle.
LEMMA AnswerEnds ==
  ASSUME NEW parents, NEW quota, Answer(parents, quota)
  PROVE  \E evidence, packets, drafts, pool, target, selected :
           /\ evidence = Cards(Passages) /\ packets = Packets(evidence, Len(pages))
           /\ drafts = Drafts(packets, parents) /\ pool = Candidates(drafts)
           /\ target = FeasibleTarget(pool, quota) /\ selected = Select(pool, target)
           /\ \/ result'.code = NetworkCode(evidence, packets) /\ result'.code # ""
              \/ /\ result'.code = CompileCode(Passages, evidence, packets, drafts,
                                               QuotaLost(pool, quota, target, selected))
                 /\ result'.code # ""
              \/ result'.kind = "BUNDLE"
<1> DEFINE found == Passages
           evidence == Cards(found)
           packets == Packets(evidence, Len(pages))
           drafts == Drafts(packets, parents)
           pool == Candidates(drafts)
           target == FeasibleTarget(pool, quota)
           selected == Select(pool, target)
           checks(f, e, p, d, c, t, s) == CompileCode(f, e, p, d, QuotaLost(c, quota, t, s))
           Ends(f, e, p, d, c, t, s) ==
             IF NetworkCode(e, p) # "" THEN Raise(NetworkCode(e, p))
             ELSE IF checks(f, e, p, d, c, t, s) # "" THEN Raise(checks(f, e, p, d, c, t, s))
             ELSE /\ pc' = "done"
                  /\ result' = Bundle(parents, quota,
                                 Audit(c, quota, s, QuotaStatus(c, quota, t)),
                                 Ledger(f, d, c),
                                 Feedback(pages, searches, Hits, f, e, p, fetches))
<1>1. \E f \in {Passages} : \E e \in {Cards(f)} : \E p \in {Packets(e, Len(pages))} :
      \E d \in {Drafts(p, parents)} : \E c \in {Candidates(d)} :
      \E t \in {FeasibleTarget(c, quota)} : \E s \in {Select(c, t)} : Ends(f, e, p, d, c, t, s)
  BY DEF Answer
<1>2. Ends(found, evidence, packets, drafts, pool, target, selected)
  <2> HIDE DEF Ends
  <2> QED BY <1>1
<1> DEFINE network == NetworkCode(evidence, packets)
           code == checks(found, evidence, packets, drafts, pool, target, selected)
<1>3. \/ network # "" /\ Raise(network)
      \/ code # "" /\ Raise(code)
      \/ result'.kind = "BUNDLE"
  <2>1. \/ network # "" /\ Raise(network)
        \/ code # "" /\ Raise(code)
        \/ \E a, l, f : result' = Bundle(parents, quota, a, l, f)
    <3> HIDE DEF network, code
    <3>1. IF network # "" THEN Raise(network)
          ELSE IF code # "" THEN Raise(code)
          ELSE \E a, l, f : result' = Bundle(parents, quota, a, l, f)
      BY <1>2 DEF network, code
    <3> QED BY <3>1
  <2> HIDE DEF network, code
  <2>2. (\E a, l, f : result' = Bundle(parents, quota, a, l, f)) => result'.kind = "BUNDLE"
    BY DEF Bundle
  <2> QED BY <2>1, <2>2
<1>4. \/ result'.code = network /\ result'.code # ""
      \/ result'.code = code /\ result'.code # ""
      \/ result'.kind = "BUNDLE"
  <2> HIDE DEF network, code
  <2>1. \A c : Raise(c) => result'.code = c
    BY DEF Raise
  <2> QED BY <1>3, <2>1
<1> HIDE DEF evidence, packets, drafts, pool, target, selected
<1> QED BY <1>4 DEF evidence, packets, drafts, pool, target, selected

\* Errors of the run itself, as opposed to those of the network and of its budgets.
OwnCodes == {"BRIDGE_CLOSURE_INVALID", "CANDIDATE_EVIDENCE_MISSING",
             "MECHANISM_QUOTA_NOT_MET", "FEEDBACK_INPUT_INVALID",
             "FETCH_REQUEST_BUDGET_EXCEEDED"}

\* No check of a compilation fires.
LEMMA CompilationHolds ==
  ASSUME MaxCatalogSites <= MaxSites, InspirationInv, ChargedToPages,
         NEW parents \in ParentPools, NEW policy \in Policies, Answer(parents, policy.quota)
  PROVE  result'.kind = "BUNDLE" \/ result'.code \notin OwnCodes
<1> DEFINE quota == policy.quota
<1>1. PICK evidence, packets, drafts, pool, target, selected :
        /\ evidence = Cards(Passages) /\ packets = Packets(evidence, Len(pages))
        /\ drafts = Drafts(packets, parents) /\ pool = Candidates(drafts)
        /\ target = FeasibleTarget(pool, quota) /\ selected = Select(pool, target)
        /\ \/ result'.code = NetworkCode(evidence, packets) /\ result'.code # ""
           \/ /\ result'.code = CompileCode(Passages, evidence, packets, drafts,
                                            QuotaLost(pool, quota, target, selected))
              /\ result'.code # ""
           \/ result'.kind = "BUNDLE"
  BY AnswerEnds
<1> HIDE DEF quota
<1>2. NetworkCode(evidence, packets) \notin OwnCodes
  <2>1. ~(RecordedRequests > max_requests)
    BY RecordedFacts DEF InspirationInv, RunHolds, FetchesCharged
  <2>2. NetworkCode(evidence, packets)
          \in {"EXTERNAL_FETCH_UNAVAILABLE", "BRIDGE_PACKET_BUDGET_EXCEEDED", ""}
    BY <2>1 DEF NetworkCode
  <2> QED BY <2>2 DEF OwnCodes
<1>3. \A b \in packets : ~ClosureBreaks(b, Passages, Hits)
  BY <1>1, ClosuresHold
<1>4. ~DraftsBreak(drafts)
  BY <1>1, DraftsHold
<1>5. ~FeedbackRefuses(pages, searches, Hits, Passages, evidence, packets, fetches)
  BY <1>1, FeedbackAccepts
<1>6. ~QuotaLost(pool, quota, target, selected)
  <2>1. SoundPool(pool)
    BY <1>1, DraftsAreSound, CandidateFacts
  <2>2. quota \in 1 .. TopK
    BY RunAssumption DEF quota
  <2>3. target = FeasibleTarget(pool, quota) /\ selected = Select(pool, target)
    BY <1>1
  <2>4. target \in 0 .. quota /\ (target = quota <=> Witnesses(pool, quota) # {})
    BY ONLY <2>1, <2>2, <2>3, SelectionFacts
  <2>5. ToSet(selected) \subseteq pool
    BY ONLY <2>1, <2>2, <2>3, SelectionFacts
  <2>6. target = quota => Cardinality(Covered(ToSet(selected))) >= quota
    BY ONLY <2>1, <2>2, <2>3, SelectionFacts
  <2>7. QuotaStatus(pool, quota, target) = "MET" <=> target = quota
    BY <2>1, <2>2, <2>4, StatusFacts
  <2>8. Cardinality(Covered(ToSet(selected))) \in Nat /\ quota \in Nat
    <3> DEFINE chosen == ToSet(selected)
    <3>1. chosen \in SUBSET pool /\ chosen \in SUBSET chosen
      BY <2>5
    <3> HIDE DEF chosen
    <3>2. Cardinality(Covered(chosen)) \in Nat
      BY ONLY <2>1, <3>1, CoveredFacts
    <3>3. quota \in Nat
      BY ONLY <2>2, SelectionAssumption
    <3> QED BY <3>2, <3>3 DEF chosen
  <2> QED BY <2>6, <2>7, <2>8 DEF QuotaLost
<1>7. CompileCode(Passages, evidence, packets, drafts,
                  QuotaLost(pool, quota, target, selected)) = ""
  BY <1>3, <1>4, <1>5, <1>6 DEF CompileCode
<1> QED BY <1>1, <1>2, <1>7

\* What a step may raise.
LEMMA StepsRaise ==
  ASSUME MaxCatalogSites <= MaxSites, InspirationInv, ChargedToPages, [Next]_vars
  PROVE  \/ UNCHANGED result
         \/ result'.kind = "BUNDLE"
         \/ result'.code \notin OwnCodes
<1>1. CASE SearchNext
  <2> DEFINE codes == {"WAIT_BUDGET_EXCEEDED", "INVALID_RESPONSE", "SEARCH_FAILED",
                       "DUPLICATE_HIT_ID", "UNIQUE_DOCUMENT_BUDGET_EXCEEDED"}
  <2>1. result' = result \/ \E code \in codes : result' = [kind |-> "RAISED", code |-> code]
    BY <1>1 DEF SearchNext, SearchSucceeds, PageIsMalformed, SearchRetried, SearchFails,
       WaitBudgetExceeded, GroupDocuments, FailSearch, Raise
  <2>2. codes \cap OwnCodes = {}
    BY DEF OwnCodes
  <2> HIDE DEF codes
  <2> QED BY <2>1, <2>2
<1>2. CASE FetchNext
  <2>1. ASSUME NEW category, NEW attempts, NEW bytes, FetchFails(category, attempts, bytes)
        PROVE  UNCHANGED result \/ result'.code \notin OwnCodes
    BY <2>1 DEF FetchFails, Raise, OwnCodes
  <2> QED BY <1>2, <2>1 DEF FetchNext, LeaveBody, BeginFetch, BeginFetchFails,
     FetchBudgetExhausted, ResolveFails, FetchRetried, FetchGivesUp, FetchRefused,
     RedirectFollowed, RedirectRefused, FetchSucceeds
<1>3. CASE Compile
  <2>1. CASE Raise("WALLTIME_BUDGET_EXCEEDED")
    BY <2>1 DEF Raise, OwnCodes
  <2> QED BY <1>3, <2>1, CompilationHolds DEF Compile
<1>4. CASE Done \/ UNCHANGED vars
  BY <1>4 DEF Done, vars
<1> QED BY <1>1, <1>2, <1>3, <1>4 DEF Next

\* The checks a run makes of what it computed never fire, whatever the network
\* brings, provided the catalog was reviewed within the limit of sites the policy
\* gives the run (validation, engine, selection and feedback of the inspiration).
THEOREM OwnChecksHold ==
  ASSUME MaxCatalogSites <= MaxSites
  PROVE  Spec => []ChecksNeverFire
<1>1. Init => ChargedToPages /\ ChecksNeverFire
  BY DEF Init, ChargedToPages, ChecksNeverFire, Pending
<1>2. InspirationInv /\ ChargedToPages /\ ChecksNeverFire /\ [Next]_vars
        => ChargedToPages' /\ ChecksNeverFire'
  <2> SUFFICES ASSUME InspirationInv, ChargedToPages, ChecksNeverFire, [Next]_vars
               PROVE  ChargedToPages' /\ ChecksNeverFire'
    OBVIOUS
  <2>1. ChargedToPages'
    BY ChargesFacts
  <2>2. \/ UNCHANGED result
        \/ result'.kind = "BUNDLE"
        \/ result'.code \notin OwnCodes
    BY StepsRaise
  <2>3. ChecksNeverFire'
    BY <2>2 DEF ChecksNeverFire, OwnCodes
  <2> QED BY <2>1, <2>3
<1> QED BY <1>1, <1>2, InspirationInvariant, PTL DEF Spec

=============================================================================
