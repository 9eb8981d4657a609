-------------------------- MODULE RetrievalProofs --------------------------
(***************************************************************************)
(* Proofs about the retrieval run: a completed operation stays closed and  *)
(* coherent, a usable answer is the recorded one, a refusal has a cause,   *)
(* and a run that succeeds has missed nothing, for every set of records,   *)
(* Requirements, sources, policies, calls and disturbances.                *)
(***************************************************************************)
EXTENDS RetrievalSafety, ListingFacts

(***************************************************************************)
(* Sequences put in order.                                                 *)
(***************************************************************************)

\* The sorted entries of a sequence of numbers are its entries.
LEMMA SortedFacts ==
  ASSUME NEW S \in SUBSET Nat, NEW seq \in Seq(S)
  PROVE  Sorted(seq) \in Seq(S) /\ Len(Sorted(seq)) = Len(seq)
<1> DEFINE D == DOMAIN seq
           R == {pair \in D \X D : \/ seq[pair[1]] < seq[pair[2]]
                                   \/ seq[pair[1]] = seq[pair[2]] /\ pair[1] < pair[2]}
           Until(i) == {j \in D : \/ seq[j] < seq[i]
                                  \/ seq[j] = seq[i] /\ j <= i}
<1>1. Len(seq) \in Nat /\ D = 1 .. Len(seq)
  OBVIOUS
<1>2. ASSUME NEW i \in D
      PROVE  i \in Nat /\ seq[i] \in S /\ seq[i] \in Nat
  <2>1. i \in 1 .. Len(seq) /\ i \in Nat
    BY <1>1
  <2>2. seq[i] \in S
    BY <2>1, ElementOfSeq
  <2> QED BY <2>1, <2>2
<1>3. IsFiniteSet(D) /\ Cardinality(D) = Len(seq)
  <2>1. IsFiniteSet(1 .. Len(seq)) /\ Cardinality(1 .. Len(seq)) = Len(seq)
    BY <1>1, IntervalFacts
  <2> QED BY <1>1, <2>1
<1>4. /\ \A x \in D : <<x, x>> \notin R
      /\ \A x, y \in D : x = y \/ <<x, y>> \in R \/ <<y, x>> \in R
      /\ \A x, y, z \in D : <<x, y>> \in R /\ <<y, z>> \in R => <<x, z>> \in R
  <2> HIDE DEF D
  <2> QED BY <1>2
<1>5. \A x, y \in D : (y = x \/ <<y, x>> \in R) <=> y \in Until(x)
  <2> HIDE DEF D
  <2> QED BY <1>2
<1>6. \A n \in 1 .. Len(seq) : \E x \in D : Cardinality(UpToIn(D, R, x)) = n
  <2> HIDE DEF R, D
  <2> QED BY <1>3, <1>4, PlaceTaken
<1>7. \A x \in D : UpToIn(D, R, x) = Until(x)
  <2>1. \A x \in D : Until(x) \subseteq D
    OBVIOUS
  <2> HIDE DEF R, D, Until
  <2> QED BY <1>5, <2>1 DEF UpToIn
<1>8. ASSUME NEW n \in 1 .. Len(seq)
      PROVE  Sorted(seq)[n] \in S
  <2>1. \E x \in D : Cardinality(Until(x)) = n
    <3> HIDE DEF R, D, Until
    <3> QED BY <1>6, <1>7
  <2>2. Sorted(seq)[n] = seq[CHOOSE x \in D : Cardinality(Until(x)) = n]
    BY <1>1 DEF Sorted
  <2> HIDE DEF Until, D
  <2> QED BY <1>2, <2>1, <2>2
<1>9. Sorted(seq) \in [1 .. Len(seq) -> S]
  <2>1. Sorted(seq) = [n \in 1 .. Len(seq) |-> Sorted(seq)[n]]
    BY <1>1 DEF Sorted
  <2> QED BY <1>8, <2>1
<1> QED BY <1>1, <1>9

\* Some entries of a sequence are a sequence of its entries.
LEMMA OnlyFacts ==
  ASSUME NEW S, NEW seq \in Seq(S), NEW P \in SUBSET DOMAIN seq
  PROVE  Only(seq, P) \in Seq(S)
<1>1. Len(seq) \in Nat /\ DOMAIN seq = 1 .. Len(seq)
  OBVIOUS
<1>2. P \in SUBSET Nat /\ IsFiniteSet(P)
  <2>1. IsFiniteSet(1 .. Len(seq)) /\ P \in SUBSET (1 .. Len(seq))
    BY <1>1, FS_Interval
  <2> QED BY <2>1, FS_Subset
<1>3. /\ Ascending(P) \in Seq(P) /\ Len(Ascending(P)) \in Nat
      /\ DOMAIN Ascending(P) = 1 .. Len(Ascending(P))
  BY <1>2, AscendingFacts
<1>4. \A n \in DOMAIN Ascending(P) : seq[Ascending(P)[n]] \in S
  BY <1>1, <1>3
<1>5. Only(seq, P) = [n \in DOMAIN Ascending(P) |-> seq[Ascending(P)[n]]]
  BY DEF Only
<1> QED BY <1>3, <1>4, <1>5

(***************************************************************************)
(* Sequences cut and joined.                                               *)
(***************************************************************************)

\* What integer division leaves.
LEMMA Division ==
  ASSUME NEW a \in Nat, NEW d \in Nat \ {0}
  PROVE  /\ a \div d \in Nat
         /\ (a \div d) * d <= a
         /\ a < (a \div d) * d + d
  OBVIOUS

Pieces(seq) == [i \in 1 .. (Len(seq) + ChunkSize - 1) \div ChunkSize |->
                  Slice(seq, (i - 1) * ChunkSize, ChunkSize)]
\* A sequence cut into chunks and joined again is the same sequence.
LEMMA PiecesJoin ==
  ASSUME NEW S, NEW seq \in Seq(S)
  PROVE  Pieces(seq) \in Seq(Seq(S)) /\ FlattenSeq(Pieces(seq)) = seq
<1> DEFINE L == Len(seq)
           c == ChunkSize
           N == (L + c - 1) \div c
           ss == Pieces(seq)
           Cut(i) == IF i * c < L THEN i * c ELSE L
<1>1. c \in Nat \ {0} /\ L \in Nat /\ L + c - 1 \in Nat
  BY SearchAssumption
<1>2. N \in Nat /\ N * c < L + c /\ L <= N * c
  <2> DEFINE a == L + c - 1
             q == a \div c
  <2>1. a \in Nat /\ c \in Nat \ {0}
    BY <1>1
  <2>2. q \in Nat /\ q * c <= a /\ a < q * c + c
    <3> HIDE DEF a
    <3> QED BY <2>1, Division
  <2>3. q * c \in Nat
    BY <2>1, <2>2
  <2> QED BY <1>1, <2>2, <2>3
<1>3. ASSUME NEW i \in 1 .. N
      PROVE  /\ (i - 1) * c \in Nat /\ i * c \in Nat /\ i * c = (i - 1) * c + c
             /\ (i - 1) * c < L
  <2>1. i \in Nat /\ i - 1 \in Nat /\ i <= N /\ N \in Nat
    BY <1>2
  <2> HIDE DEF N, L, c
  <2>2. (i - 1) * c \in Nat /\ i * c \in Nat /\ i * c = (i - 1) * c + c
    BY <1>1, <2>1
  <2>3. i * c <= N * c /\ N * c \in Nat
    BY <1>1, <2>1
  <2> QED BY <1>1, <1>2, <2>2, <2>3
<1>4. ASSUME NEW i \in 1 .. N
      PROVE  ss[i] = SubSeq(seq, (i - 1) * c + 1, Cut(i)) /\ ss[i] \in Seq(S)
  <2>1. ss[i] = SubSeq(seq, (i - 1) * c + 1, Cut(i))
    BY <1>3 DEF Pieces, Slice
  <2>2. \A j \in (i - 1) * c + 1 .. Cut(i) : seq[j] \in S
    <3> HIDE DEF c
    <3>1. (i - 1) * c \in Nat /\ Cut(i) \in 0 .. L
      BY <1>1, <1>3
    <3> HIDE DEF Cut
    <3> QED BY <1>1, <3>1
  <2>3. SubSeq(seq, (i - 1) * c + 1, Cut(i)) \in Seq(S)
    <3>1. (i - 1) * c + 1 \in Int /\ Cut(i) \in Int
      BY <1>1, <1>3
    <3> HIDE DEF c, Cut
    <3> QED BY <2>2, <3>1, SubSeqProperties
  <2> QED BY <2>1, <2>3
<1>5. ss \in Seq(Seq(S)) /\ Len(ss) = N
  <2>1. ss = [i \in 1 .. N |-> ss[i]]
    BY DEF Pieces
  <2> HIDE DEF ss, N
  <2> QED BY <1>2, <1>4, <2>1
<1>6. CASE N = 0
  <2>1. L = 0 /\ seq = <<>>
    <3>1. N * c = 0
      <4> HIDE DEF N, c
      <4> QED BY <1>1, <1>6
    <3> HIDE DEF N
    <3> QED BY <1>1, <1>2, <3>1
  <2>2. Len(ss) = 0 /\ ss = <<>>
    <3> HIDE DEF ss, N
    <3> QED BY <1>5, <1>6
  <2>3. FlattenSeq(ss) = ss
    <3> HIDE DEF ss
    <3> QED BY <2>2 DEF FlattenSeq
  <2> QED BY <1>5, <2>1, <2>2, <2>3
<1>7. CASE N # 0
  <2>1. PICK f : Joins(f, ss) /\ FlattenSeq(ss) = f[N]
    <3> HIDE DEF ss, N
    <3> QED BY <1>5, <1>7, FlattenJoins
  <2> DEFINE B == {n \in Nat : n + 1 <= N => f[n + 1] = SubSeq(seq, 1, Cut(n + 1))}
  <2>2. 0 \in B
    <3> SUFFICES ASSUME 1 <= N PROVE f[1] = SubSeq(seq, 1, Cut(1))
      OBVIOUS
    <3>1. 1 \in 1 .. N
      <4> HIDE DEF N
      <4> QED BY <1>2
    <3>2. f[1] = ss[1]
      <4> HIDE DEF ss, N
      <4> QED BY <1>5, <2>1, <3>1 DEF Joins
    <3>3. (1 - 1) * c + 1 = 1
      <4> HIDE DEF c
      <4> QED BY <1>1
    <3> HIDE DEF ss, N, Cut
    <3> QED BY <1>4, <3>1, <3>2, <3>3
  <2>3. ASSUME NEW n \in B PROVE n + 1 \in B
    <3> SUFFICES ASSUME n + 2 <= N PROVE f[n + 2] = SubSeq(seq, 1, Cut(n + 2))
      OBVIOUS
    <3>1. /\ n \in Nat /\ n + 1 \in 1 .. N /\ n + 2 \in 1 .. N /\ n + 2 # 1
          /\ (n + 2) - 1 = n + 1 /\ (n + 1) - 1 = n
      <4> HIDE DEF N
      <4> QED BY <1>2
    <3>2. f[n + 1] = SubSeq(seq, 1, Cut(n + 1))
      <4> HIDE DEF N, Cut
      <4> QED BY <3>1
    <3>3. f[n + 2] = f[n + 1] \o ss[n + 2]
      <4> HIDE DEF N, ss
      <4> QED BY <1>5, <2>1, <3>1 DEF Joins
    <3>4. /\ (n + 1) * c \in Nat /\ (n + 1) * c < L /\ Cut(n + 1) = (n + 1) * c
          /\ Cut(n + 2) \in (n + 1) * c .. L
      <4>1. /\ (n + 1) * c \in Nat /\ (n + 2) * c \in Nat
            /\ (n + 2) * c = (n + 1) * c + c /\ (n + 1) * c < L
        <5> HIDE DEF N, c
        <5> QED BY <1>3, <3>1
      <4> HIDE DEF c, L
      <4> QED BY <1>1, <4>1
    <3>5. ss[n + 2] = SubSeq(seq, (n + 1) * c + 1, Cut(n + 2))
      <4> HIDE DEF N, ss, Cut, c
      <4> QED BY <1>4, <3>1
    <3> HIDE DEF ss, N, Cut, c
    <3>6. (n + 1) * c \in 0 .. Len(seq) /\ 1 \in 1 .. Len(seq) + 1
      BY <1>1, <3>4
    <3>7. SubSeq(seq, 1, (n + 1) * c) \o SubSeq(seq, (n + 1) * c + 1, Cut(n + 2))
            = SubSeq(seq, 1, Cut(n + 2))
      <4>1. PICK k, m : k = (n + 1) * c /\ m = Cut(n + 2)
        OBVIOUS
      <4>2. k \in 1 - 1 .. Len(seq) /\ m \in k .. Len(seq)
        BY <3>4, <3>6, <4>1
      <4>3. SubSeq(seq, 1, k) \o SubSeq(seq, k + 1, m) = SubSeq(seq, 1, m)
        BY <3>6, <4>2, ConcatAdjacentSubSeq
      <4> QED BY <4>1, <4>3
    <3> QED BY <3>2, <3>3, <3>4, <3>5, <3>7
  <2>4. B = Nat
    <3>1. B \subseteq Nat OBVIOUS
    <3> HIDE DEF B
    <3> QED BY <2>2, <2>3, <3>1, SetInduction
  <2>5. f[N] = SubSeq(seq, 1, Cut(N))
    <3>1. N - 1 \in Nat /\ (N - 1) + 1 = N
      <4> HIDE DEF N
      <4> QED BY <1>2, <1>7
    <3>2. N - 1 \in B
      <4> HIDE DEF B, N
      <4> QED BY <2>4, <3>1
    <3> HIDE DEF N, Cut
    <3> QED BY <3>1, <3>2
  <2>6. Cut(N) = L
    <3> HIDE DEF N, L, c
    <3>1. N * c \in Nat
      BY <1>1, <1>2
    <3> QED BY <1>1, <1>2, <3>1
  <2>7. SubSeq(seq, 1, L) = seq
    BY SubSeqFull
  <2>8. FlattenSeq(ss) = seq
    <3> HIDE DEF ss, N, Cut, L
    <3> QED BY <2>1, <2>5, <2>6, <2>7
  <2> QED BY <1>5, <2>8
<1> QED BY <1>6, <1>7

\* Cutting a sequence keeps the type of its elements, whatever the bounds.
LEMMA CutTypes ==
  ASSUME NEW S, NEW seq \in Seq(S), NEW n \in Int, NEW from \in Nat
  PROVE  TakeFirst(seq, n) \in Seq(S) /\ Slice(seq, from, n) \in Seq(S)
<1>1. Len(seq) \in Nat /\ \A i \in 1 .. Len(seq) : seq[i] \in S
  OBVIOUS
<1>2. ASSUME NEW m \in Int, m <= Len(seq)
      PROVE  SubSeq(seq, from + 1, m) \in Seq(S) /\ SubSeq(seq, 1, m) \in Seq(S)
  <2>1. /\ \A i \in from + 1 .. m : seq[i] \in S
        /\ \A i \in 1 .. m : seq[i] \in S
    BY <1>1, <1>2
  <2> QED BY <2>1, SubSeqProperties
<1> QED BY <1>1, <1>2 DEF TakeFirst, Slice

(***************************************************************************)
(* The search.                                                             *)
(***************************************************************************)

\* A listing can be put in order.
LEMMA RowsInOrder ==
  ASSUME NEW rows \in SUBSET Ids
  PROVE  Ascending(rows) \in Seq(rows) /\ Cardinality(rows) \in Nat
<1>1. rows \in SUBSET Nat /\ IsFiniteSet(rows)
  BY EvaluationAssumption, FS_Subset
<1> QED BY <1>1, AscendingFacts

\* A page holds records, whatever the listing is when it is asked for.
LEMMA AnswerType ==
  ASSUME NEW src, NEW req, NEW listing \in SUBSET Ids, NEW s, SearchShape(s)
  PROVE  /\ Answered(src, req, listing, s).data \in Seq(listing)
         /\ Repeated(src, req, listing, s).data \in Seq(listing)
<1>0. ChunkSize \in Nat \ {0} /\ MaxRecordsScanned \in Nat \ {0}
  BY SearchAssumption
<1>1. ASSUME NEW rows \in SUBSET listing, NEW t, SearchShape(t)
      PROVE  /\ KeyedPage(src, rows, t).data \in Seq(listing)
             /\ NumberedPage(src, rows, t).data \in Seq(listing)
             /\ TakeFirst(Ascending(rows), MaxRecordsScanned) \in Seq(listing)
  <2>1. t.page \in Nat /\ t.found \in Seq(Ids) /\ Len(t.found) \in Nat
    BY <1>1 DEF SearchShape
  <2>2. t.page * ChunkSize \in Nat
    BY <1>0, <2>1
  <2>3. Min({ChunkSize, MaxRecordsScanned - Len(t.found)}) \in Int
    <3> DEFINE room == MaxRecordsScanned - Len(t.found)
    <3>1. room \in Int /\ ChunkSize \in Int
      BY <1>0, <2>1
    <3> HIDE DEF room
    <3>2. \E x \in {ChunkSize, room} : \A y \in {ChunkSize, room} : x <= y
      BY <3>1
    <3>3. Min({ChunkSize, room}) \in {ChunkSize, room}
      BY <3>2 DEF Min
    <3> QED BY <3>1, <3>3 DEF room
  <2>4. {id \in rows : id > t.after} \in SUBSET listing
    OBVIOUS
  <2>5. KeyedPage(src, rows, t).data =
          TakeFirst(Ascending({id \in rows : id > t.after}),
                    Min({ChunkSize, MaxRecordsScanned - Len(t.found)}))
    BY DEF KeyedPage
  <2>6. NumberedPage(src, rows, t).data =
          Slice(Ascending(rows), t.page * ChunkSize, ChunkSize)
    BY DEF NumberedPage
  <2>7. TakeFirst(Ascending({id \in rows : id > t.after}),
                  Min({ChunkSize, MaxRecordsScanned - Len(t.found)})) \in Seq(listing)
    <3>1. PICK n \in Int : n = Min({ChunkSize, MaxRecordsScanned - Len(t.found)})
      BY <2>3
    <3>2. Ascending({id \in rows : id > t.after}) \in Seq(listing)
      BY <2>4, RowsInOrder, SeqMonotonic
    <3> QED BY <3>1, <3>2, CutTypes
  <2>8. Ascending(rows) \in Seq(listing)
    BY RowsInOrder, SeqMonotonic
  <2>11. MaxRecordsScanned \in Int /\ 0 \in Nat
    BY <1>0
  <2>9. Slice(Ascending(rows), t.page * ChunkSize, ChunkSize) \in Seq(listing)
    BY <1>0, <2>2, <2>8, CutTypes
  <2>10. TakeFirst(Ascending(rows), MaxRecordsScanned) \in Seq(listing)
    BY <2>8, <2>11, CutTypes
  <2> QED
    BY <2>5, <2>6, <2>7, <2>9, <2>10
<1>2. ASSUME NEW t, SearchShape(t)
      PROVE  /\ Answered(src, req, listing, t).data \in Seq(listing)
             /\ \E data \in Seq(listing) : \E next :
                  Answered(src, req, listing, t) = [data |-> data, next |-> next]
  <2> DEFINE rows == {id \in listing : Matches(src, req, id)}
  <2>1. rows \in SUBSET listing
    OBVIOUS
  <2> HIDE DEF rows
  <2>2. CASE src \in ByKey
    <3>1. Answered(src, req, listing, t) = KeyedPage(src, rows, t)
      BY <2>2 DEF Answered, rows, ByKey, ByPage
    <3>2. KeyedPage(src, rows, t).data \in Seq(listing)
      BY <1>1, <1>2, <2>1
    <3>3. PICK data, next : KeyedPage(src, rows, t) = [data |-> data, next |-> next]
      BY DEF KeyedPage
    <3> QED BY <3>1, <3>2, <3>3
  <2>3. CASE src \in ByPage
    <3>1. Answered(src, req, listing, t) = NumberedPage(src, rows, t)
      BY <2>3 DEF Answered, rows, ByKey, ByPage
    <3>2. NumberedPage(src, rows, t).data \in Seq(listing)
      BY <1>1, <1>2, <2>1
    <3>3. PICK data, next : NumberedPage(src, rows, t) = [data |-> data, next |-> next]
      BY DEF NumberedPage
    <3> QED BY <3>1, <3>2, <3>3
  <2>4. CASE src \notin ByKey /\ src \notin ByPage
    <3>1. Answered(src, req, listing, t) =
            [data |-> TakeFirst(Ascending(rows), MaxRecordsScanned), next |-> 0]
      BY <2>4 DEF Answered, rows
    <3>2. TakeFirst(Ascending(rows), MaxRecordsScanned) \in Seq(listing)
      BY <1>1, <1>2, <2>1
    <3>3. PICK data \in Seq(listing) : data = TakeFirst(Ascending(rows), MaxRecordsScanned)
      BY <3>2
    <3>4. Answered(src, req, listing, t) = [data |-> data, next |-> 0]
      BY <3>1, <3>3
    <3>5. Answered(src, req, listing, t).data \in Seq(listing)
      BY <3>4
    <3> QED BY <3>4, <3>5
  <2> QED BY <2>2, <2>3, <2>4
<1> DEFINE again == [s EXCEPT !.after = 0, !.page = IF s.page = 0 THEN 0 ELSE s.page - 1]
<1>3. SearchShape(again)
  <2>1. s.found \in Seq(Ids) /\ s.page \in Nat
        /\ DOMAIN s = {"found", "after", "page", "seen", "state"}
    BY DEF SearchShape
  <2>2. /\ DOMAIN again = {"found", "after", "page", "seen", "state"}
        /\ again.found = s.found
        /\ again.page = IF s.page = 0 THEN 0 ELSE s.page - 1
    BY <2>1
  <2> HIDE DEF again
  <2> QED BY <2>1, <2>2 DEF SearchShape
<1>4. PICK position :
        Repeated(src, req, listing, s) =
          [Answered(src, req, listing, again) EXCEPT !.next = position]
  BY DEF Repeated
<1>5. PICK data \in Seq(listing) : \E next :
        Answered(src, req, listing, again) = [data |-> data, next |-> next]
  <2> HIDE DEF again
  <2> QED BY <1>2, <1>3
<1>6. Repeated(src, req, listing, s) = [data |-> data, next |-> position]
  <2> HIDE DEF again
  <2> QED BY <1>4, <1>5
<1> QED BY <1>2, <1>5, <1>6

\* A search gathers records.
LEMMA AdvanceType ==
  ASSUME NEW src, NEW s, SearchShape(s), NEW S \in SUBSET Ids, s.found \in Seq(S),
         NEW answer, answer.data \in Seq(S)
  PROVE  LET after == Advance(src, s, answer) IN
           /\ SearchShape(after) /\ after.found \in Seq(S)
           /\ Documents(after) \in Seq(S) /\ Len(Documents(after)) = Len(after.found)
<1> DEFINE found == Gather(src, s.found, Kept(src, answer.data))
           after == Advance(src, s, answer)
<1>1. /\ DOMAIN s = {"found", "after", "page", "seen", "state"}
      /\ s.found \in Seq(S) /\ s.page \in Nat
  BY DEF SearchShape
<1>2. Kept(src, answer.data) \in Seq(S)
  <2> DEFINE P == {i \in DOMAIN answer.data : Entry[answer.data[i]].complete}
  <2>1. P \in SUBSET DOMAIN answer.data
    OBVIOUS
  <2>2. Only(answer.data, P) \in Seq(S)
    <3> HIDE DEF P
    <3> QED BY <2>1, OnlyFacts
  <2> QED BY <2>2 DEF Kept
<1>3. found \in Seq(S)
  <2>1. ASSUME NEW data \in Seq(S)
        PROVE  Gather(src, s.found, data) \in Seq(S)
    <3> DEFINE P == {i \in DOMAIN data : ~Contains(s.found, data[i])}
               new == IF src = "topological_quantum_chemistry" THEN Only(data, P) ELSE data
    <3>1. P \in SUBSET DOMAIN data
      OBVIOUS
    <3>2. Only(data, P) \in Seq(S)
      <4> HIDE DEF P
      <4> QED BY <3>1, OnlyFacts
    <3>3. new \in Seq(S)
      <4> HIDE DEF P
      <4> QED BY <3>2
    <3>4. Gather(src, s.found, data) = TakeFirst(s.found \o new, MaxRecordsScanned)
      BY DEF Gather
    <3>5. s.found \o new \in Seq(S) /\ MaxRecordsScanned \in Int
      <4> HIDE DEF new
      <4> QED BY <1>1, <3>3, SearchAssumption
    <3> HIDE DEF new
    <3> QED BY <3>4, <3>5, CutTypes
  <2> QED BY <1>2, <2>1
<1>4. SearchShape(after) /\ after.found \in Seq(S)
  <2> DEFINE seen == s.seen \cup {answer.next}
             read == [s EXCEPT !.found = found, !.seen = seen]
             full == Len(found) >= MaxRecordsScanned
             Ends(state, to) == [to EXCEPT !.state = state]
  <2> HIDE DEF found, seen
  <2>1. /\ DOMAIN read = {"found", "after", "page", "seen", "state"}
        /\ read.found = found /\ read.page = s.page
    BY <1>1
  <2>2. after =
          IF src \in ByKey THEN
            IF answer.next = 0 THEN Ends("done", read)
            ELSE IF Seen(s, answer.next) \/ answer.data = <<>> THEN Ends("error", s)
            ELSE [read EXCEPT !.after = answer.next,
                              !.state = IF full THEN "done" ELSE "open"]
          ELSE IF answer.next = 0 \/ full THEN Ends("done", read)
          ELSE IF src = "mc3d" /\ Seen(s, answer.next) THEN Ends("error", s)
          ELSE IF src = "c2db" /\ answer.data = <<>> THEN Ends("done", read)
          ELSE [read EXCEPT !.page = s.page + 1]
    BY DEF Advance, found, seen
  <2> HIDE DEF after, read, full
  <2>3. \/ \E state : after = Ends(state, read)
        \/ \E state : after = Ends(state, s)
        \/ \E x, state : after = [read EXCEPT !.after = x, !.state = state]
        \/ after = [read EXCEPT !.page = s.page + 1]
    BY <2>2
  <2>4. /\ DOMAIN after = {"found", "after", "page", "seen", "state"}
        /\ after.found \in {found, s.found} /\ after.page \in {s.page, s.page + 1}
    BY <1>1, <2>1, <2>3
  <2>5. after.found \in Seq(S) /\ after.found \in Seq(Ids)
    BY <1>1, <1>3, <2>4, SeqMonotonic
  <2> QED BY <1>1, <2>4, <2>5 DEF SearchShape
<1>5. Documents(after) \in Seq(S) /\ Len(Documents(after)) = Len(after.found)
  <2> HIDE DEF after
  <2>1. after.found \in Seq(S) /\ S \in SUBSET Nat
    BY <1>4, EvaluationAssumption
  <2>2. Documents(after) = Sorted(after.found)
    BY DEF Documents
  <2> QED BY <2>1, <2>2, SortedFacts
<1> QED BY <1>4, <1>5

(***************************************************************************)
(* What the steps have in common.                                          *)
(***************************************************************************)

\* What each artifact may hold, one by one.
LEMMA ContentsAre ==
  /\ DOMAIN Contents = Artifacts \ {"operation"}
  /\ Contents["input"] = Requirements /\ Contents["capability"] = Nat
  /\ Contents["coverage"] = RunSources /\ Contents["query_plan"] = Plans
  /\ Contents["raw_manifest"] = Seq(Seq(Ids)) /\ Contents["origin"] = SUBSET Ids
  /\ Contents["audit"] = Audits /\ Contents["groups"] = SUBSET SUBSET Ids
  /\ Contents["manifest"] = [audit : Audits, published : Publications]
  /\ Contents["enrichment"] = BOOLEAN
  /\ Contents["report"] = [status : RunStatuses, raw : Nat, audit : Audits,
                           published : Publications]
  /\ Contents["stage_result"] = Results
<1>1. DOMAIN Contents = Artifacts \ {"operation"}
  BY DEF Contents, Artifacts
<1> QED BY <1>1 DEF Contents

\* A call that is under way has not been answered.
LEMMA UnderWay ==
  ASSUME IndInv, job.pc # "idle"
  PROVE  calls \in 1 .. MaxCalls /\ outcome = NoOutcome /\ outcome.status \notin Usable
<1>1. calls # 0
  BY DEF IndInv, ShapesOK, Idle
<1>2. outcome = NoOutcome
  BY DEF IndInv, OutcomeOK
<1>3. None \notin Usable
  BY NoneAssumption DEF RunStatuses, Usable
<1> QED BY <1>1, <1>2, <1>3 DEF IndInv, ShapesOK, NoOutcome

\* A call at rest has nothing in hand.
LEMMA Resting ==
  ASSUME job' = Idle PROVE JobShape' /\ CallOK'
<1>1. /\ job'.pc = "idle" /\ job'.k = 1 /\ job'.plan = None /\ job'.prepared = FALSE
      /\ job'.search = NewSearch /\ job'.docs = <<>> /\ job'.resolved = {}
      /\ job'.published = {} /\ job'.partial = FALSE
      /\ DOMAIN job' = {"pc", "k", "plan", "prepared", "tries", "search", "docs",
                        "resolved", "published", "partial"}
  BY DEF Idle
<1>2. SearchShape(NewSearch) /\ {} \in Publications
  BY DEF SearchShape, NewSearch, Publications
<1>3. JobShape'
  <2>1. SearchShape(job'.search)
    BY <1>1, <1>2
  <2>2. /\ job'.pc \in Places /\ job'.k \in Nat \ {0}
        /\ job'.plan \in {None} \cup Plans /\ job'.prepared \in BOOLEAN
        /\ job'.docs \in Seq(Ids) /\ job'.resolved \in SUBSET Ids
        /\ job'.published \in Publications /\ job'.partial \in BOOLEAN
    <3>1. "idle" \in Places /\ 1 \in Nat \ {0} /\ FALSE \in BOOLEAN
          /\ {} \in SUBSET Ids /\ None \in {None} \cup Plans
      BY DEF Places
    <3>2. <<>> \in Seq(Ids)
      OBVIOUS
    <3> QED BY <1>1, <1>2, <3>1, <3>2
  <2> QED BY <1>1, <2>1, <2>2 DEF JobShape
<1>4. CallOK'
  BY <1>1 DEF CallOK, Opened, Settled, Planned, Read, Judged, Told
<1> QED BY <1>3, <1>4

\* What is on file stays so when nothing is written.
LEMMA FilesStay ==
  ASSUME IndInv, UNCHANGED <<disk, native, batches>>, request'.source = request.source
  PROVE  FilesOK' /\ StoreOK' /\ (Backed <=> Backed')
<1>1. FilesOK /\ StoreOK
  BY DEF IndInv, ShapesOK
<1>2. FilesOK'
  BY <1>1 DEF FilesOK
<1>3. StoreOK' /\ (Backed <=> Backed')
  BY <1>1 DEF StoreOK, Backed, CompletionIsClosed, CompletionIsCoherent, RecordedIsIntact, source
<1> QED BY <1>2, <1>3

\* Before the operation is recorded any artifact may be written.
LEMMA Filing ==
  ASSUME IndInv, disk["operation"] = None,
         disk' = [name \in Artifacts |-> disk'[name]],
         disk'["operation"] = None, disk'["raw_manifest"] = disk["raw_manifest"],
         \A name \in DOMAIN Contents :
           disk'[name] = disk[name] \/ disk'[name] \in Contents[name],
         UNCHANGED <<native, batches>>
  PROVE  FilesOK' /\ StoreOK' /\ (Backed <=> Backed')
<1>1. FilesOK /\ StoreOK
  BY DEF IndInv, ShapesOK
<1>2. FilesOK'
  BY <1>1 DEF FilesOK
<1>3. Backed <=> Backed'
  BY DEF Backed
<1>4. StoreOK'
  BY <1>1, <1>3 DEF StoreOK, CompletionIsClosed, CompletionIsCoherent
<1> QED BY <1>2, <1>3, <1>4

\* One artifact written before the operation is recorded.
LEMMA Written ==
  ASSUME IndInv, disk["operation"] = None,
         NEW name \in DOMAIN Contents, name # "raw_manifest",
         NEW content \in Contents[name], Write(name, content), UNCHANGED <<native, batches>>
  PROVE  /\ FilesOK' /\ StoreOK' /\ (Backed <=> Backed')
         /\ disk'[name] = content
         /\ \A other \in Artifacts \ {name} : disk'[other] = disk[other]
<1>1. /\ disk = [n \in Artifacts |-> disk[n]] /\ name \in Artifacts
      /\ name # "operation" /\ DOMAIN Contents \subseteq Artifacts
  BY ContentsAre DEF IndInv, ShapesOK, FilesOK
<1>2. /\ disk'[name] = content
      /\ \A other \in Artifacts \ {name} : disk'[other] = disk[other]
      /\ disk' = [n \in Artifacts |-> disk'[n]]
  BY <1>1 DEF Write
<1>3. {"operation", "raw_manifest"} \subseteq Artifacts
  BY DEF Artifacts
<1> QED BY <1>1, <1>2, <1>3, Filing

\* A step by which a call goes on.
LEMMA Moving ==
  ASSUME IndInv, job.pc # "idle", UNCHANGED <<request, remote, calls, attempt, outcome>>,
         FilesOK', StoreOK', JobShape', CallOK'
  PROVE  IndInv'
<1>1. calls \in 1 .. MaxCalls /\ outcome' = NoOutcome /\ outcome'.status \notin Usable
  BY UnderWay
<1>2. ShapesOK'
  BY <1>1 DEF IndInv, ShapesOK
<1> QED BY <1>1, <1>2 DEF IndInv, OutcomeOK, AnswersAreRecorded

\* A step that ends the call with an answer.
LEMMA Ending ==
  ASSUME IndInv, job.pc # "idle", UNCHANGED <<request, remote, calls, attempt>>,
         FilesOK', StoreOK', job' = Idle, AnswersAreRecorded'
  PROVE  IndInv'
<1>1. calls \in 1 .. MaxCalls
  BY UnderWay
<1>2. JobShape' /\ CallOK' /\ job'.pc = "idle"
  BY Resting DEF Idle
<1>3. ShapesOK'
  BY <1>1, <1>2 DEF IndInv, ShapesOK
<1> QED BY <1>2, <1>3 DEF IndInv, OutcomeOK

\* A refusal is not a usable answer, and writes nothing.
LEMMA Refusing ==
  ASSUME IndInv, job.pc # "idle", UNCHANGED <<request, remote, calls, attempt>>,
         UNCHANGED <<disk, native, batches>>, Refuse
  PROVE  IndInv'
<1>1. job' = Idle /\ outcome'.status = "PERMANENT_FAILED"
  BY DEF Refuse, Finish, Failure
<1>2. AnswersAreRecorded'
  BY <1>1 DEF AnswersAreRecorded, Usable
<1>3. FilesOK' /\ StoreOK'
  BY FilesStay
<1> QED BY <1>1, <1>2, <1>3, Ending

(***************************************************************************)
(* The beginning, and what comes from outside.                             *)
(***************************************************************************)

\* Nothing is on file and no call is under way.
LEMMA TheInit ==
  ASSUME Init PROVE IndInv
<1>1. /\ job = Idle /\ outcome = NoOutcome /\ calls = 0 /\ attempt = 1
      /\ disk = [name \in Artifacts |-> None]
      /\ native = [n \in 1 .. MaxCalls |-> None] /\ batches = <<>>
  BY DEF Init
<1>2. JobShape
  <2>1. SearchShape(NewSearch) /\ {} \in Publications
    BY DEF SearchShape, NewSearch, Publications
  <2>2. /\ job.pc = "idle" /\ job.k = 1 /\ job.plan = None /\ job.prepared = FALSE
        /\ job.search = NewSearch /\ job.docs = <<>> /\ job.resolved = {}
        /\ job.published = {} /\ job.partial = FALSE
        /\ DOMAIN job = {"pc", "k", "plan", "prepared", "tries", "search", "docs",
                         "resolved", "published", "partial"}
    BY <1>1 DEF Idle
  <2>3. "idle" \in Places /\ 1 \in Nat \ {0} /\ FALSE \in BOOLEAN
        /\ {} \in SUBSET Ids /\ None \in {None} \cup Plans
    BY DEF Places
  <2>4. <<>> \in Seq(Ids)
    OBVIOUS
  <2>5. SearchShape(job.search)
    BY <2>1, <2>2
  <2>6. /\ job.pc \in Places /\ job.k \in Nat \ {0}
        /\ job.plan \in {None} \cup Plans /\ job.prepared \in BOOLEAN
        /\ job.docs \in Seq(Ids) /\ job.resolved \in SUBSET Ids
        /\ job.published \in Publications /\ job.partial \in BOOLEAN
    BY <2>1, <2>2, <2>3, <2>4
  <2> QED BY <2>2, <2>5, <2>6 DEF JobShape
<1>3. FilesOK
  <2>1. \A name \in Artifacts : disk[name] = None
    BY <1>1
  <2>2. DOMAIN Contents \subseteq Artifacts
    BY ContentsAre
  <2>3. batches \in Seq(Seq(Ids))
    BY <1>1
  <2> QED BY <1>1, <2>1, <2>2, <2>3 DEF FilesOK
<1>4. ShapesOK
  <2>1. /\ request \in [source : RunSources, req : Requirements,
                        caller : {"orchestrator", "cli"}, input : Inputs]
        /\ remote \in [listing : SUBSET Ids, version : Nat, stuck : BOOLEAN]
    <3>1. remote \in [listing : Listings, version : {0}, stuck : {FALSE}]
      BY DEF Init
    <3>2. \A listing \in Listings : listing \in SUBSET Ids
      BY RunAssumption
    <3>3. PICK l \in Listings : remote = [listing |-> l, version |-> 0, stuck |-> FALSE]
      BY <3>1
    <3>4. remote \in [listing : SUBSET Ids, version : Nat, stuck : BOOLEAN]
      BY <3>2, <3>3
    <3> QED BY <3>4 DEF Init
  <2> QED BY <1>1, <1>2, <1>3, <2>1, RunAssumption DEF ShapesOK
<1>5. disk["operation"] = None /\ disk["raw_manifest"] = None
  BY <1>1 DEF Artifacts
<1>6. StoreOK
  BY <1>5 DEF StoreOK, CompletionIsClosed, CompletionIsCoherent
<1>7. CallOK
  <2>1. job.pc = "idle"
    BY <1>1 DEF Idle
  <2> QED BY <2>1 DEF CallOK, Opened, Settled, Planned, Read, Judged, Told
<1>8. AnswersAreRecorded
  <2>1. outcome.status \notin Usable
    BY <1>1, NoneAssumption DEF NoOutcome, Usable, RunStatuses
  <2> QED BY <2>1 DEF AnswersAreRecorded
<1> QED BY <1>1, <1>4, <1>6, <1>7, <1>8 DEF IndInv, OutcomeOK

\* A call starts with nothing in hand; an edited Requirement does not touch the
\* snapshot on file.
LEMMA InvokeKeeps ==
  ASSUME IndInv, Invoke PROVE IndInv'
<1>1. /\ job.pc = "idle" /\ calls < MaxCalls /\ calls' = calls + 1
      /\ outcome' = NoOutcome
      /\ job' = [Idle EXCEPT !.pc = IF Direct THEN "run" ELSE "adapter"]
      /\ UNCHANGED <<disk, native, batches, remote>>
      /\ \/ attempt' = attempt
         \/ attempt' = attempt + 1 /\ outcome.status = "RETRYABLE_FAILED"
  BY DEF Invoke, store
<1>2. /\ request' \in [source : RunSources, req : Requirements,
                       caller : {"orchestrator", "cli"}, input : Inputs]
      /\ request'.source = request.source /\ request'.caller = request.caller
  <2>1. request \in [source : RunSources, req : Requirements,
                     caller : {"orchestrator", "cli"}, input : Inputs]
    BY DEF IndInv, ShapesOK
  <2>2. \/ request' = request
        \/ \E req \in Requirements : request' = [request EXCEPT !.req = req]
    BY DEF Invoke
  <2> QED BY <2>1, <2>2
<1>3. /\ job'.pc \in {"run", "adapter"} /\ (job'.pc = "adapter" => ~Direct)
      /\ job'.k = 1 /\ job'.plan = None /\ job'.prepared = FALSE
      /\ job'.search = NewSearch /\ job'.docs = <<>> /\ job'.resolved = {}
      /\ job'.published = {} /\ job'.partial = FALSE
      /\ DOMAIN job' = {"pc", "k", "plan", "prepared", "tries", "search", "docs",
                        "resolved", "published", "partial"}
  BY <1>1 DEF Idle
<1>4. JobShape'
  <2>1. SearchShape(NewSearch) /\ {} \in Publications
    BY DEF SearchShape, NewSearch, Publications
  <2>2. SearchShape(job'.search)
    BY <1>3, <2>1
  <2>3. {"run", "adapter"} \subseteq Places /\ 1 \in Nat \ {0} /\ FALSE \in BOOLEAN
        /\ {} \in SUBSET Ids /\ None \in {None} \cup Plans
    BY DEF Places
  <2>4. <<>> \in Seq(Ids)
    OBVIOUS
  <2>5. /\ job'.pc \in Places /\ job'.k \in Nat \ {0}
        /\ job'.plan \in {None} \cup Plans /\ job'.prepared \in BOOLEAN
        /\ job'.docs \in Seq(Ids) /\ job'.resolved \in SUBSET Ids
        /\ job'.published \in Publications /\ job'.partial \in BOOLEAN
    BY <1>3, <2>1, <2>3, <2>4
  <2> QED BY <1>3, <2>2, <2>5 DEF JobShape
<1>5. CallOK'
  <2>1. ~Direct => ~Direct'
    BY <1>2 DEF Direct
  <2> QED BY <1>3, <2>1 DEF CallOK, Opened, Settled, Planned, Read, Judged, Told
<1>6. calls' \in 1 .. MaxCalls /\ attempt' \in 1 .. MaxCalls /\ attempt' <= calls'
  <2>1. /\ calls \in 0 .. MaxCalls /\ attempt \in 1 .. MaxCalls /\ MaxCalls \in Nat
        /\ attempt <= calls \/ (calls = 0 /\ attempt = 1)
    BY RunAssumption DEF IndInv, ShapesOK
  <2>2. outcome.status = "RETRYABLE_FAILED" => calls # 0
    <3>1. None # "RETRYABLE_FAILED"
      BY NoneAssumption DEF RunStatuses
    <3> QED BY <3>1 DEF IndInv, ShapesOK, NoOutcome
  <2> QED BY <1>1, <2>1, <2>2
<1>7. FilesOK' /\ StoreOK'
  BY <1>1, <1>2, FilesStay
<1>8. ShapesOK'
  BY <1>1, <1>2, <1>4, <1>6, <1>7 DEF IndInv, ShapesOK
<1>9. AnswersAreRecorded' /\ OutcomeOK'
  <2>1. outcome'.status \notin Usable
    BY <1>1, NoneAssumption DEF NoOutcome, Usable, RunStatuses
  <2> QED BY <1>1, <2>1 DEF AnswersAreRecorded, OutcomeOK
<1> QED BY <1>5, <1>7, <1>8, <1>9 DEF IndInv

\* A crash loses what the call had in hand, never what is on file.
LEMMA CrashKeeps ==
  ASSUME IndInv, Crash PROVE IndInv'
<1>1. /\ job' = Idle /\ outcome' = NoOutcome
      /\ UNCHANGED <<request, remote, disk, native, batches, attempt, calls>>
  BY DEF Crash, store
<1>2. FilesOK' /\ StoreOK' /\ JobShape' /\ CallOK' /\ job'.pc = "idle"
  BY <1>1, FilesStay, Resting DEF Idle
<1>3. ShapesOK'
  BY <1>1, <1>2 DEF IndInv, ShapesOK
<1>4. AnswersAreRecorded'
  <2>1. outcome'.status \notin Usable
    BY <1>1, NoneAssumption DEF NoOutcome, Usable, RunStatuses
  <2> QED BY <2>1 DEF AnswersAreRecorded
<1> QED BY <1>2, <1>3, <1>4 DEF IndInv, OutcomeOK

\* validate_input answers before anything is read.
LEMMA RejectInputKeeps ==
  ASSUME IndInv, RejectInput PROVE IndInv'
<1>1. /\ job.pc # "idle" /\ job' = Idle /\ outcome'.status = InputStatus
      /\ UNCHANGED <<request, remote, disk, native, batches, attempt, calls>>
  BY DEF RejectInput, store, Finish, Failure
<1>2. InputStatus \notin Usable
  BY DEF InputStatus, Usable
<1>3. FilesOK' /\ StoreOK'
  BY <1>1, FilesStay
<1>4. AnswersAreRecorded'
  BY <1>1, <1>2 DEF AnswersAreRecorded
<1> QED BY <1>1, <1>3, <1>4, Ending

\* The database is not on file.
LEMMA RemoteChangesKeeps ==
  ASSUME IndInv, RemoteChanges PROVE IndInv'
<1>1. UNCHANGED <<request, disk, native, batches, structures, memory, job, attempt,
                  calls, outcome>>
  BY DEF RemoteChanges, store
<1>2. remote' \in [listing : SUBSET Ids, version : Nat, stuck : BOOLEAN]
  <2>1. remote \in [listing : SUBSET Ids, version : Nat, stuck : BOOLEAN]
    BY DEF IndInv, ShapesOK
  <2>2. \/ remote' = [remote EXCEPT !.version = remote.version + 1]
        \/ remote' = [remote EXCEPT !.stuck = TRUE]
        \/ \E id \in Ids : remote' = [remote EXCEPT !.listing =
              IF id \in remote.listing THEN remote.listing \ {id}
              ELSE remote.listing \cup {id}]
    BY DEF RemoteChanges
  <2>3. PICK listing, version, stuck :
          /\ remote = [listing |-> listing, version |-> version, stuck |-> stuck]
          /\ listing \in SUBSET Ids /\ version \in Nat /\ stuck \in BOOLEAN
    BY <2>1
  <2>4. /\ \A v : [remote EXCEPT !.version = v] =
                  [listing |-> listing, version |-> v, stuck |-> stuck]
        /\ \A v : [remote EXCEPT !.stuck = v] =
                  [listing |-> listing, version |-> version, stuck |-> v]
        /\ \A v : [remote EXCEPT !.listing = v] =
                  [listing |-> v, version |-> version, stuck |-> stuck]
    BY <2>3
  <2>5. remote.listing = listing /\ remote.version + 1 \in Nat
    BY <2>3
  <2>6. \A id \in Ids : (IF id \in listing THEN listing \ {id} ELSE listing \cup {id})
                         \in SUBSET Ids
    BY <2>3
  <2>7. \E l \in SUBSET Ids, v \in Nat, s \in BOOLEAN :
          remote' = [listing |-> l, version |-> v, stuck |-> s]
    <3>1. CASE remote' = [remote EXCEPT !.version = remote.version + 1]
      BY <2>3, <2>4, <2>5, <3>1
    <3>2. CASE remote' = [remote EXCEPT !.stuck = TRUE]
      BY <2>3, <2>4, <3>2
    <3>3. CASE \E id \in Ids : remote' = [remote EXCEPT !.listing =
                 IF id \in remote.listing THEN remote.listing \ {id}
                 ELSE remote.listing \cup {id}]
      <4>1. PICK id \in Ids : remote' = [remote EXCEPT !.listing =
                 IF id \in listing THEN listing \ {id} ELSE listing \cup {id}]
        BY <2>5, <3>3
      <4>2. PICK l \in SUBSET Ids :
              l = IF id \in listing THEN listing \ {id} ELSE listing \cup {id}
        BY <2>6
      <4> QED BY <2>3, <2>4, <4>1, <4>2
    <3> QED BY <2>2, <3>1, <3>2, <3>3
  <2> QED BY <2>7
<1>3. FilesOK' /\ StoreOK' /\ (Backed <=> Backed')
  BY <1>1, FilesStay
<1>4. JobShape' /\ CallOK'
  <2>1. JobShape /\ CallOK
    BY DEF IndInv, ShapesOK
  <2>2. JobShape'
    BY <1>1, <2>1 DEF JobShape
  <2>3. CallOK'
    BY <1>1, <1>3, <2>1
       DEF CallOK, Direct, Batch, DocIds, Audit, UsableDocs, Report, RunStatus,
           Truncated, Unresolved, source
  <2> QED BY <2>2, <2>3
<1>5. ShapesOK'
  BY <1>1, <1>2, <1>3, <1>4 DEF IndInv, ShapesOK
<1> QED
  BY <1>1, <1>3, <1>4, <1>5 DEF IndInv, OutcomeOK, AnswersAreRecorded

(***************************************************************************)
(* The plan.                                                               *)
(***************************************************************************)

\* The places, in the order of a call.
LEMMA Stages ==
  /\ {"documents"} \cup Judged \subseteq Read /\ Told \subseteq Judged
  /\ Read \subseteq Planned /\ Planned \subseteq Settled /\ Settled \subseteq Opened
  /\ Opened \subseteq Places
  /\ {"idle", "adapter", "run"} \cap Opened = {}
  BY DEF Places, Opened, Settled, Planned, Read, Judged, Told

\* The adapter hands over the plan of the attempt, as it was frozen.
LEMMA ReuseNativePlanKeeps ==
  ASSUME IndInv, ReuseNativePlan PROVE IndInv'
<1>1. /\ job.pc = "adapter" /\ native[attempt] # None
      /\ job' = [job EXCEPT !.pc = "run", !.plan = native[attempt], !.prepared = TRUE]
      /\ UNCHANGED <<request, remote, disk, native, batches, attempt, calls, outcome>>
  BY DEF ReuseNativePlan, Step, store, Quiet
<1>2. JobShape /\ native[attempt] \in Plans
  BY <1>1 DEF IndInv, ShapesOK, FilesOK
<1>3. /\ DOMAIN job' = DOMAIN job /\ job'.pc = "run" /\ job'.plan = native[attempt]
      /\ job'.prepared = TRUE /\ job'.k = job.k /\ job'.search = job.search
      /\ job'.docs = job.docs /\ job'.resolved = job.resolved
      /\ job'.published = job.published /\ job'.partial = job.partial
  BY <1>1, <1>2 DEF JobShape
<1>4. JobShape'
  BY <1>2, <1>3 DEF JobShape, Places
<1>5. CallOK'
  BY <1>2, <1>3 DEF CallOK, Opened, Settled, Planned, Read, Judged, Told
<1> QED BY <1>1, <1>4, <1>5, FilesStay, Moving

\* The adapter freezes a plan, outside the artifacts of the run.
LEMMA MakeNativePlanKeeps ==
  ASSUME IndInv, MakeNativePlan PROVE IndInv'
<1> DEFINE plan == [version |-> remote.version, when |-> calls]
<1>1. /\ job.pc = "adapter"
      /\ job' = [job EXCEPT !.pc = "run", !.plan = plan, !.prepared = TRUE, !.tries = 0]
      /\ native' = [native EXCEPT ![attempt] = plan]
      /\ UNCHANGED <<request, remote, disk, batches, attempt, calls, outcome>>
  BY DEF MakeNativePlan, Step, Quiet
<1>2. plan \in Plans
  <2>1. remote.version \in Nat /\ calls \in Nat
    BY RunAssumption DEF IndInv, ShapesOK
  <2> QED BY <2>1 DEF Plans
<1> HIDE DEF plan
<1>3. JobShape /\ native \in [1 .. MaxCalls -> {None} \cup Plans]
      /\ FilesOK /\ StoreOK /\ attempt \in 1 .. MaxCalls
  BY DEF IndInv, ShapesOK, FilesOK
<1>4. /\ DOMAIN job' = DOMAIN job /\ job'.pc = "run" /\ job'.plan = plan
      /\ job'.prepared = TRUE /\ job'.k = job.k /\ job'.search = job.search
      /\ job'.docs = job.docs /\ job'.resolved = job.resolved
      /\ job'.published = job.published /\ job'.partial = job.partial
  BY <1>1, <1>3 DEF JobShape
<1>5. JobShape'
  BY <1>2, <1>3, <1>4 DEF JobShape, Places
<1>6. CallOK'
  BY <1>2, <1>4 DEF CallOK, Opened, Settled, Planned, Read, Judged, Told
<1>7. FilesOK'
  <2>1. native' \in [1 .. MaxCalls -> {None} \cup Plans]
    BY <1>1, <1>2, <1>3
  <2> QED BY <1>1, <1>3, <2>1 DEF FilesOK
<1>8. StoreOK'
  BY <1>1, <1>3
     DEF StoreOK, Backed, CompletionIsClosed, CompletionIsCoherent, RecordedIsIntact, source
<1> QED BY <1>1, <1>5, <1>6, <1>7, <1>8, Moving

\* With the plan settled, the snapshot is written or the call refused.
LEMMA Settling ==
  ASSUME IndInv, job.pc # "idle", NEW plan \in Plans, Settle(plan),
         UNCHANGED <<request, remote, calls, attempt>>,
         FilesOK', StoreOK', disk'["operation"] = None, disk'["input"] = request.req
  PROVE  IndInv'
<1>1. \/ Refuse
      \/ \E p \in Plans : /\ job' = [job EXCEPT !.pc = "snapshot", !.plan = p, !.k = 1]
                          /\ outcome' = outcome
  <2>1. disk["query_plan"] # None => disk["query_plan"] \in Plans
    BY ContentsAre DEF IndInv, ShapesOK, FilesOK, Artifacts
  <2>2. [job EXCEPT !.pc = "snapshot", !.k = 1, !.plan = disk["query_plan"]]
          = [job EXCEPT !.pc = "snapshot", !.plan = disk["query_plan"], !.k = 1]
    <3>1. DOMAIN job = {"pc", "k", "plan", "prepared", "tries", "search", "docs",
                   "resolved", "published", "partial"}
      BY DEF IndInv, ShapesOK, JobShape
    <3> QED BY <3>1
  <2> QED BY <2>1, <2>2 DEF Settle
<1>2. CASE Refuse
  <2>1. job' = Idle /\ outcome'.status = "PERMANENT_FAILED"
    BY <1>2 DEF Refuse, Finish, Failure
  <2>2. AnswersAreRecorded'
    BY <2>1 DEF AnswersAreRecorded, Usable
  <2> QED BY <2>1, <2>2, Ending
<1>3. CASE \E p \in Plans : /\ job' = [job EXCEPT !.pc = "snapshot", !.plan = p, !.k = 1]
                            /\ outcome' = outcome
  <2>1. PICK p \in Plans : /\ job' = [job EXCEPT !.pc = "snapshot", !.plan = p, !.k = 1]
                           /\ outcome' = outcome
    BY <1>3
  <2>2. JobShape
    BY DEF IndInv, ShapesOK
  <2>3. /\ DOMAIN job' = DOMAIN job /\ job'.pc = "snapshot" /\ job'.plan = p
        /\ job'.prepared = job.prepared /\ job'.k = 1 /\ job'.search = job.search
        /\ job'.docs = job.docs /\ job'.resolved = job.resolved
        /\ job'.published = job.published /\ job'.partial = job.partial
    BY <2>1, <2>2 DEF JobShape
  <2>4. JobShape'
    BY <2>2, <2>3 DEF JobShape, Places, Opened, Settled
  <2>5. CallOK'
    BY <2>3 DEF CallOK, Opened, Settled, Planned, Read, Judged, Told
  <2> QED BY <2>1, <2>4, <2>5, Moving
<1> QED BY <1>1, <1>2, <1>3

\* run(): the recorded answer, or the input snapshot and a plan.
LEMMA OpenKeeps ==
  ASSUME IndInv, Open PROVE IndInv'
<1>1. /\ job.pc = "run" /\ job.pc # "idle"
      /\ UNCHANGED <<request, remote, attempt, calls>>
      /\ \/ Refuse /\ UNCHANGED <<disk, native, batches>>
         \/ /\ OperationExists /\ RecordedIsIntact
            /\ Finish([status |-> disk["operation"].result.status,
                       category |-> None, result |-> disk["operation"].result])
            /\ UNCHANGED <<disk, native, batches>>
         \/ /\ ~OperationExists
            /\ Write("input", request.req) /\ UNCHANGED <<native, batches>>
            /\ \/ Resumable /\ Settle(disk["query_plan"])
               \/ job.prepared /\ Settle(job.plan)
               \/ job' = [job EXCEPT !.pc = "metadata"] /\ UNCHANGED outcome
  BY DEF Open, Step, Quiet, store
<1>2. CASE Refuse /\ UNCHANGED <<disk, native, batches>>
  BY <1>1, <1>2, Refusing
<1>3. CASE /\ OperationExists
           /\ Finish([status |-> disk["operation"].result.status,
                      category |-> None, result |-> disk["operation"].result])
           /\ UNCHANGED <<disk, native, batches>>
  <2>1. AnswersAreRecorded'
    BY <1>3 DEF AnswersAreRecorded, OperationExists, Finish
  <2> QED BY <1>1, <1>3, <2>1, FilesStay, Ending DEF Finish
<1>4. CASE /\ ~OperationExists
           /\ Write("input", request.req) /\ UNCHANGED <<native, batches>>
           /\ \/ Resumable /\ Settle(disk["query_plan"])
              \/ job.prepared /\ Settle(job.plan)
              \/ job' = [job EXCEPT !.pc = "metadata"] /\ UNCHANGED outcome
  <2>1. /\ disk["operation"] = None /\ JobShape /\ CallOK
        /\ disk["query_plan"] # None => disk["query_plan"] \in Plans
        /\ request.req \in Requirements
    BY <1>4, ContentsAre
       DEF OperationExists, IndInv, StoreOK, ShapesOK, FilesOK, Artifacts
  <2>2. "input" \in DOMAIN Contents /\ "operation" \in Artifacts \ {"input"}
        /\ request.req \in Contents["input"]
    BY <2>1, ContentsAre DEF Artifacts
  <2>3. /\ FilesOK' /\ StoreOK' /\ disk'["input"] = request.req
        /\ disk'["operation"] = None
    BY <1>4, <2>1, <2>2, Written
  <2>4. CASE Resumable /\ Settle(disk["query_plan"])
    <3>1. disk["query_plan"] \in Plans
      BY <2>1, <2>4 DEF Resumable
    <3> QED BY <1>1, <2>3, <2>4, <3>1, Settling
  <2>5. CASE job.prepared /\ Settle(job.plan)
    <3>1. job.plan \in Plans
      BY <1>1, <2>1, <2>5 DEF CallOK
    <3> QED BY <1>1, <2>3, <2>5, <3>1, Settling
  <2>6. CASE job' = [job EXCEPT !.pc = "metadata"] /\ UNCHANGED outcome
    <3>1. /\ DOMAIN job' = DOMAIN job /\ job'.pc = "metadata" /\ job'.plan = job.plan
          /\ job'.prepared = job.prepared /\ job'.k = job.k /\ job'.search = job.search
          /\ job'.docs = job.docs /\ job'.resolved = job.resolved
          /\ job'.published = job.published /\ job'.partial = job.partial
      BY <2>1, <2>6 DEF JobShape
    <3>2. JobShape'
      BY <2>1, <3>1 DEF JobShape, Places, Opened
    <3>3. CallOK'
      BY <1>1, <2>3, <3>1 DEF CallOK, Opened, Settled, Planned, Read, Judged, Told
    <3> QED BY <1>1, <2>3, <2>6, <3>2, <3>3, Moving
  <2> QED BY <1>4, <2>4, <2>5, <2>6
<1> QED BY <1>1, <1>2, <1>3, <1>4

\* Without a plan on file a new one is made.
LEMMA MetadataKeeps ==
  ASSUME IndInv, Metadata PROVE IndInv'
<1> DEFINE plan == [version |-> remote.version, when |-> calls]
<1>1. /\ job.pc = "metadata" /\ Settle(plan)
      /\ UNCHANGED <<request, remote, attempt, calls, disk, native, batches>>
  BY DEF Metadata, Step, Quiet, store
<1>2. plan \in Plans
  <2>1. remote.version \in Nat /\ calls \in Nat
    BY RunAssumption DEF IndInv, ShapesOK
  <2> QED BY <2>1 DEF Plans
<1>3. disk["operation"] = None /\ disk["input"] = request.req
  BY <1>1 DEF IndInv, CallOK, Opened
<1> HIDE DEF plan
<1> QED BY <1>1, <1>2, <1>3, FilesStay, Settling

\* A failed metadata request is retried, or leaves a result that is not usable.
LEMMA MetadataFailsKeeps ==
  ASSUME IndInv, MetadataFails PROVE IndInv'
<1>1. /\ job.pc = "metadata" \/ job.pc = "adapter"
      /\ UNCHANGED <<native, batches, request, remote, attempt, calls>>
      /\ \/ /\ job' = [job EXCEPT !.tries = job.tries + 1]
            /\ UNCHANGED <<disk, outcome>>
         \/ /\ Finish(Failure("RETRYABLE_FAILED", "TRANSIENT_EXTERNAL"))
            /\ \/ UNCHANGED disk
               \/ /\ Direct
                  /\ disk' = [disk EXCEPT
                        !["coverage"] = IF source = "materials_project" THEN @ ELSE source,
                        !["stage_result"] = Result("RETRYABLE_FAILED", {}, {})]
  BY DEF MetadataFails, Step
<1>2. JobShape /\ CallOK /\ FilesOK
  BY DEF IndInv, ShapesOK
<1>3. CASE job' = [job EXCEPT !.tries = job.tries + 1] /\ UNCHANGED <<disk, outcome>>
  <2>1. /\ DOMAIN job' = DOMAIN job /\ job'.pc = job.pc /\ job'.plan = job.plan
        /\ job'.prepared = job.prepared /\ job'.k = job.k /\ job'.search = job.search
        /\ job'.docs = job.docs /\ job'.resolved = job.resolved
        /\ job'.published = job.published /\ job'.partial = job.partial
    BY <1>2, <1>3 DEF JobShape
  <2>2. JobShape'
    BY <1>2, <2>1 DEF JobShape
  <2>3. CallOK'
    BY <1>1, <1>2, <1>3, <2>1
       DEF CallOK, Opened, Settled, Planned, Read, Judged, Told, Direct
  <2> QED BY <1>1, <1>3, <2>2, <2>3, FilesStay, Moving
<1>4. CASE /\ Finish(Failure("RETRYABLE_FAILED", "TRANSIENT_EXTERNAL"))
           /\ \/ UNCHANGED disk
              \/ /\ Direct
                 /\ disk' = [disk EXCEPT
                       !["coverage"] = IF source = "materials_project" THEN @ ELSE source,
                       !["stage_result"] = Result("RETRYABLE_FAILED", {}, {})]
  <2>1. job' = Idle /\ outcome'.status = "RETRYABLE_FAILED"
    BY <1>4 DEF Finish, Failure
  <2>2. AnswersAreRecorded'
    BY <2>1 DEF AnswersAreRecorded, Usable
  <2>3. CASE UNCHANGED disk
    BY <1>1, <2>1, <2>2, <2>3, FilesStay, Ending
  <2>4. CASE /\ Direct
             /\ disk' = [disk EXCEPT
                   !["coverage"] = IF source = "materials_project" THEN @ ELSE source,
                   !["stage_result"] = Result("RETRYABLE_FAILED", {}, {})]
    <3>1. disk["operation"] = None
      BY <1>1, <1>2, <2>4 DEF CallOK, Opened
    <3>2. Result("RETRYABLE_FAILED", {}, {}) \in Results /\ source \in RunSources
      <4>1. calls \in Nat /\ source \in RunSources
        BY RunAssumption DEF IndInv, ShapesOK, source
      <4>2. {} \in Publications /\ {} \in SUBSET Ids /\ "RETRYABLE_FAILED" \in RunStatuses
        BY DEF Publications, RunStatuses
      <4> QED BY <4>1, <4>2 DEF Result, Results
    <3>3. /\ disk = [name \in Artifacts |-> disk[name]]
          /\ {"coverage", "stage_result", "operation", "raw_manifest"} \subseteq Artifacts
          /\ DOMAIN Contents \subseteq Artifacts
      BY <1>2, ContentsAre DEF FilesOK, Artifacts
    <3>4. /\ disk' = [name \in Artifacts |-> disk'[name]]
          /\ disk'["coverage"] = disk["coverage"] \/ disk'["coverage"] \in RunSources
          /\ disk'["stage_result"] \in Results
          /\ \A name \in Artifacts \ {"coverage", "stage_result"} : disk'[name] = disk[name]
      BY <2>4, <3>2, <3>3
    <3>5. \A name \in DOMAIN Contents :
            disk'[name] = disk[name] \/ disk'[name] \in Contents[name]
      BY <3>3, <3>4, ContentsAre
    <3>6. disk'["operation"] = None /\ disk'["raw_manifest"] = disk["raw_manifest"]
      BY <3>1, <3>3, <3>4
    <3>7. FilesOK' /\ StoreOK'
      BY <1>1, <3>1, <3>4, <3>5, <3>6, Filing
    <3> QED BY <1>1, <2>1, <2>2, <3>7, Ending
  <2> QED BY <1>4, <2>3, <2>4
<1> QED BY <1>1, <1>3, <1>4

(***************************************************************************)
(* The snapshot and the search.                                            *)
(***************************************************************************)

\* One artifact of a list is written, or the call is refused.
LEMMA WriteNextMeans ==
  ASSUME IndInv, NEW pc, NEW writes, NEW next, NEW name, NEW content,
         WriteNext(pc, writes, next), writes[job.k] = <<name, content>>
  PROVE  /\ job.pc = pc
         /\ UNCHANGED <<native, batches, structures, memory, request, remote,
                         attempt, calls>>
         /\ \/ Conflicts(name, content) /\ Refuse /\ UNCHANGED disk
            \/ /\ Write(name, content) /\ UNCHANGED outcome
               /\ DOMAIN job' = DOMAIN job /\ job'.plan = job.plan
               /\ job'.prepared = job.prepared /\ job'.search = job.search
               /\ job'.docs = job.docs /\ job'.resolved = job.resolved
               /\ job'.published = job.published /\ job'.partial = job.partial
               /\ \/ job.k < Len(writes) /\ job'.pc = pc /\ job'.k = job.k + 1
                  \/ ~(job.k < Len(writes)) /\ job'.pc = next /\ job'.k = 1
<1>1. PICK w : w = writes[job.k] /\ IF Conflicts(w[1], w[2]) THEN Refuse /\ UNCHANGED disk
       ELSE /\ Write(w[1], w[2])
            /\ job' = IF job.k < Len(writes) THEN [job EXCEPT !.k = job.k + 1]
                      ELSE [job EXCEPT !.k = 1, !.pc = next, !.tries = 0]
            /\ UNCHANGED outcome
  BY DEF WriteNext
<1>2. w[1] = name /\ w[2] = content
  BY <1>1
<1>3. DOMAIN job = {"pc", "k", "plan", "prepared", "tries", "search", "docs",
                   "resolved", "published", "partial"}
  BY DEF IndInv, ShapesOK, JobShape
<1>4. /\ job.pc = pc
      /\ UNCHANGED <<native, batches, structures, memory, request, remote, attempt, calls>>
  BY DEF WriteNext, Step, Quiet
<1>5. CASE Conflicts(w[1], w[2]) /\ Refuse /\ UNCHANGED disk
  BY <1>2, <1>4, <1>5
<1>6. CASE /\ Write(w[1], w[2])
           /\ job' = IF job.k < Len(writes) THEN [job EXCEPT !.k = job.k + 1]
                     ELSE [job EXCEPT !.k = 1, !.pc = next, !.tries = 0]
           /\ UNCHANGED outcome
  <2>1. Write(name, content) /\ UNCHANGED outcome
    BY <1>2, <1>6
  <2>2. /\ DOMAIN job' = DOMAIN job /\ job'.plan = job.plan
        /\ job'.prepared = job.prepared /\ job'.search = job.search
        /\ job'.docs = job.docs /\ job'.resolved = job.resolved
        /\ job'.published = job.published /\ job'.partial = job.partial
    BY <1>3, <1>6
  <2>3. \/ job.k < Len(writes) /\ job'.pc = pc /\ job'.k = job.k + 1
        \/ ~(job.k < Len(writes)) /\ job'.pc = next /\ job'.k = 1
    BY <1>3, <1>4, <1>6
  <2> QED BY <1>4, <2>1, <2>2, <2>3
<1> QED BY <1>1, <1>5, <1>6

\* Capability, coverage and plan are written in this order.
LEMMA WriteSnapshotKeeps ==
  ASSUME IndInv, WriteSnapshot PROVE IndInv'
<1>1. /\ job.pc = "snapshot" /\ JobShape /\ CallOK
  BY DEF WriteSnapshot, WriteNext, Step, IndInv, ShapesOK
<1>2. /\ job.k \in 1 .. 3 /\ job.plan \in Plans /\ disk["operation"] = None
      /\ disk["input"] = request.req
      /\ job.k > 1 => disk["capability"] = job.plan.version
  BY <1>1, Stages DEF CallOK, JobShape, Settled
<1>3. /\ Len(Snapshot) = 3 /\ Snapshot[1] = <<"capability", job.plan.version>>
      /\ Snapshot[2] = <<"coverage", source>> /\ Snapshot[3] = <<"query_plan", job.plan>>
  BY DEF Snapshot
<1>4. PICK name, content :
        /\ name \in {"capability", "coverage", "query_plan"}
        /\ Snapshot[job.k] = <<name, content>>
        /\ job.k = 1 => name = "capability" /\ content = job.plan.version
        /\ job.k = 2 => name = "coverage" /\ content = source
        /\ job.k = 3 => name = "query_plan" /\ content = job.plan
  <2>1. CASE job.k = 1
    BY <1>3, <2>1
  <2>2. CASE job.k = 2
    BY <1>3, <2>2
  <2>3. CASE job.k = 3
    BY <1>3, <2>3
  <2> QED BY <1>2, <2>1, <2>2, <2>3
<1>5. /\ UNCHANGED <<native, batches, request, remote, attempt, calls>>
      /\ \/ Refuse /\ UNCHANGED disk
         \/ /\ Write(name, content) /\ UNCHANGED outcome
            /\ DOMAIN job' = DOMAIN job /\ job'.plan = job.plan
            /\ job'.prepared = job.prepared /\ job'.search = job.search
            /\ job'.docs = job.docs /\ job'.resolved = job.resolved
            /\ job'.published = job.published /\ job'.partial = job.partial
            /\ \/ job.k < Len(Snapshot) /\ job'.pc = "snapshot" /\ job'.k = job.k + 1
               \/ ~(job.k < Len(Snapshot)) /\ job'.pc = "collect" /\ job'.k = 1
  BY <1>4, WriteNextMeans DEF WriteSnapshot
<1>6. CASE Refuse /\ UNCHANGED disk
  BY <1>1, <1>5, <1>6, Refusing
<1>7. CASE Write(name, content) /\ UNCHANGED outcome
           /\ DOMAIN job' = DOMAIN job /\ job'.plan = job.plan
           /\ job'.prepared = job.prepared /\ job'.search = job.search
           /\ job'.docs = job.docs /\ job'.resolved = job.resolved
           /\ job'.published = job.published /\ job'.partial = job.partial
           /\ \/ job.k < Len(Snapshot) /\ job'.pc = "snapshot" /\ job'.k = job.k + 1
              \/ ~(job.k < Len(Snapshot)) /\ job'.pc = "collect" /\ job'.k = 1
  <2>1. name \in DOMAIN Contents /\ name # "raw_manifest" /\ content \in Contents[name]
    <3>1. job.plan.version \in Nat /\ source \in RunSources
      BY <1>2 DEF Plans, IndInv, ShapesOK, source
    <3>2. {"capability", "coverage", "query_plan"} \subseteq DOMAIN Contents
      BY ContentsAre DEF Artifacts
    <3>3. content \in Contents[name]
      BY <1>2, <1>4, <3>1, ContentsAre
    <3> QED BY <1>4, <3>2, <3>3
  <2>2. /\ FilesOK' /\ StoreOK' /\ disk'[name] = content
        /\ \A other \in Artifacts \ {name} : disk'[other] = disk[other]
    BY <1>2, <1>5, <1>7, <2>1, Written
  <2>3. /\ disk'["operation"] = None /\ disk'["input"] = request.req
        /\ disk'["capability"] = job.plan.version
        /\ job.k = 3 => disk'["query_plan"] = job.plan
    <3>1. {"operation", "input", "capability", "query_plan"} \subseteq Artifacts
      BY DEF Artifacts
    <3>2. disk'["operation"] = None /\ disk'["input"] = request.req
      BY <1>2, <1>4, <2>2, <3>1
    <3>3. disk'["capability"] = job.plan.version
      <4>1. CASE job.k = 1
        BY <1>4, <2>2, <4>1
      <4>2. CASE job.k > 1
        <5>1. name # "capability"
          BY <1>2, <1>4, <4>2
        <5> QED BY <1>2, <2>2, <3>1, <4>2, <5>1
      <4> QED BY <1>2, <4>1, <4>2
    <3>4. job.k = 3 => disk'["query_plan"] = job.plan
      BY <1>4, <2>2
    <3> QED BY <3>2, <3>3, <3>4
  <2>4. job'.k \in Nat \ {0} /\ job'.pc \in {"snapshot", "collect"}
        /\ (job'.pc = "snapshot" => job'.k <= 3)
        /\ (job'.pc = "collect" => job'.k = 1 /\ job.k = 3)
    BY <1>2, <1>3, <1>7
  <2>5. JobShape'
    BY <1>1, <1>7, <2>4 DEF JobShape, Places, Opened, Settled, Planned
  <2>6. CallOK'
    BY <1>2, <1>5, <1>7, <2>3, <2>4
       DEF CallOK, Opened, Settled, Planned, Read, Judged, Told
  <2> QED BY <1>1, <1>5, <1>7, <2>2, <2>5, <2>6, Moving
<1> QED BY <1>5, <1>6, <1>7

\* The archived responses are read back, or a search starts.
LEMMA CollectKeeps ==
  ASSUME IndInv, Collect PROVE IndInv'
<1>1. /\ job.pc = "collect"
      /\ UNCHANGED <<disk, native, batches, outcome, request, remote, attempt, calls>>
      /\ \/ /\ disk["raw_manifest"] # None
            /\ job' = [job EXCEPT !.pc = "documents",
                                  !.docs = FlattenSeq(disk["raw_manifest"])]
         \/ job' = [job EXCEPT !.pc = "search"]
  BY DEF Collect, Step, store
<1>2. JobShape /\ CallOK /\ FilesOK /\ StoreOK
  BY DEF IndInv, ShapesOK
<1>3. /\ job.k = 1 /\ job.plan \in Plans /\ disk["operation"] = None
      /\ disk["input"] = request.req /\ disk["query_plan"] = job.plan
      /\ disk["capability"] = job.plan.version
  BY <1>1, <1>2 DEF CallOK, Opened, Settled, Planned
<1>4. FilesOK' /\ StoreOK' /\ (Backed <=> Backed')
  BY <1>1, FilesStay
<1>5. CASE disk["raw_manifest"] # None
           /\ job' = [job EXCEPT !.pc = "documents",
                                 !.docs = FlattenSeq(disk["raw_manifest"])]
  <2> DEFINE raw == disk["raw_manifest"]
  <2>1. raw \in Seq(Seq(Ids)) /\ Backed
    BY <1>2, <1>5, ContentsAre DEF FilesOK, Artifacts, StoreOK
  <2>2. FlattenSeq(raw) \in Seq(Ids)
    <3> HIDE DEF raw
    <3> QED BY <2>1, FlattenType
  <2>3. /\ DOMAIN job' = DOMAIN job /\ job'.pc = "documents" /\ job'.plan = job.plan
        /\ job'.prepared = job.prepared /\ job'.k = 1 /\ job'.search = job.search
        /\ job'.docs = FlattenSeq(raw) /\ job'.resolved = job.resolved
        /\ job'.published = job.published /\ job'.partial = job.partial
    BY <1>2, <1>3, <1>5 DEF JobShape
  <2>4. JobShape'
    BY <1>2, <2>2, <2>3 DEF JobShape, Places, Opened, Settled, Planned, Read
  <2>5. raw' = raw /\ Backed' /\ DocIds' = ToSet(FlattenSeq(raw))
    BY <1>1, <1>4, <2>1, <2>3 DEF DocIds
  <2>6. CallOK'
    BY <1>1, <1>3, <2>1, <2>3, <2>5
       DEF CallOK, Opened, Settled, Planned, Read, Judged, Told
  <2> QED BY <1>1, <1>4, <2>4, <2>6, Moving
<1>6. CASE job' = [job EXCEPT !.pc = "search"]
  <2>1. /\ DOMAIN job' = DOMAIN job /\ job'.pc = "search" /\ job'.plan = job.plan
        /\ job'.prepared = job.prepared /\ job'.k = 1 /\ job'.search = job.search
        /\ job'.docs = job.docs /\ job'.resolved = job.resolved
        /\ job'.published = job.published /\ job'.partial = job.partial
    BY <1>2, <1>3, <1>6 DEF JobShape
  <2>2. JobShape'
    BY <1>2, <2>1 DEF JobShape, Places, Opened, Settled, Planned
  <2>3. CallOK'
    BY <1>1, <1>3, <2>1
       DEF CallOK, Opened, Settled, Planned, Read, Judged, Told
  <2> QED BY <1>1, <1>4, <2>2, <2>3, Moving
<1> QED BY <1>1, <1>5, <1>6

\* A failed search leaves its two reports and ends the call.
LEMMA SearchFailsKeeps ==
  ASSUME IndInv, job.pc = "search", NEW status \in {"PERMANENT_FAILED", "RETRYABLE_FAILED"},
         SearchFails(status), UNCHANGED <<native, batches, request, remote, attempt, calls>>
  PROVE  IndInv'
<1>1. job' = Idle /\ outcome'.status = status
  BY DEF SearchFails, Finish, Failure
<1>2. AnswersAreRecorded'
  BY <1>1 DEF AnswersAreRecorded, Usable
<1>3. disk["operation"] = None /\ FilesOK
  BY DEF IndInv, ShapesOK, CallOK, Opened, Settled, Planned
<1> DEFINE empty == [status |-> status, raw |-> 0, published |-> {},
                     audit |-> [docs |-> {}, resolved |-> {}]]
<1>4. empty \in Contents["report"] /\ Result(status, {}, {}) \in Contents["stage_result"]
  <2>1. calls \in Nat
    BY RunAssumption DEF IndInv, ShapesOK
  <2>2. {} \in Publications /\ {} \in SUBSET Ids /\ status \in RunStatuses /\ 0 \in Nat
    BY DEF Publications, RunStatuses
  <2>3. [docs |-> {}, resolved |-> {}] \in Audits
    BY <2>2 DEF Audits
  <2>4. empty \in [status : RunStatuses, raw : Nat, audit : Audits, published : Publications]
    BY <2>2, <2>3
  <2>5. Result(status, {}, {}) \in Results
    BY <2>1, <2>2 DEF Result, Results
  <2> HIDE DEF empty
  <2> QED BY <2>4, <2>5, ContentsAre
<1> HIDE DEF empty
<1>5. /\ disk = [name \in Artifacts |-> disk[name]]
      /\ {"report", "stage_result", "operation", "raw_manifest"} \subseteq Artifacts
      /\ DOMAIN Contents \subseteq Artifacts
  BY <1>3, ContentsAre DEF FilesOK, Artifacts
<1>6. disk' = [disk EXCEPT !["report"] = empty, !["stage_result"] = Result(status, {}, {})]
  BY DEF SearchFails, empty
<1>7. /\ disk' = [name \in Artifacts |-> disk'[name]]
      /\ disk'["report"] = empty /\ disk'["stage_result"] = Result(status, {}, {})
      /\ \A name \in Artifacts \ {"report", "stage_result"} : disk'[name] = disk[name]
  BY <1>5, <1>6
<1>8. \A name \in DOMAIN Contents :
        disk'[name] = disk[name] \/ disk'[name] \in Contents[name]
  BY <1>4, <1>5, <1>7
<1>9. disk'["operation"] = None /\ disk'["raw_manifest"] = disk["raw_manifest"]
  BY <1>3, <1>5, <1>7
<1>10. FilesOK' /\ StoreOK'
  BY <1>3, <1>7, <1>8, <1>9, Filing
<1> QED BY <1>1, <1>2, <1>10, Ending

\* A search going on or just over: nothing is written yet.
LEMMA Searching ==
  ASSUME IndInv, job.pc = "search", NEW pc \in {"search", "archive"},
         DOMAIN job' = DOMAIN job, job'.pc = pc, job'.k = job.k, job'.plan = job.plan,
         job'.prepared = job.prepared, SearchShape(job'.search), job'.docs \in Seq(Ids),
         job'.resolved = job.resolved, job'.published = job.published,
         job'.partial = job.partial,
         UNCHANGED <<disk, native, batches, outcome, request, remote, attempt, calls>>
  PROVE  IndInv'
<1>1. JobShape /\ CallOK
  BY DEF IndInv, ShapesOK
<1>2. /\ job.k = 1 /\ job.plan \in Plans /\ disk["operation"] = None
      /\ disk["input"] = request.req /\ disk["query_plan"] = job.plan
      /\ disk["capability"] = job.plan.version
  BY <1>1 DEF CallOK, Opened, Settled, Planned
<1>3. JobShape'
  BY <1>1 DEF JobShape, Places, Opened, Settled, Planned
<1>4. \A i \in 1 .. 1 - 1 : FALSE
  OBVIOUS
<1>5. CallOK'
  BY <1>2, <1>4 DEF CallOK, Opened, Settled, Planned, Read, Judged, Told
<1> QED BY <1>3, <1>5, FilesStay, Moving

\* A page adds records to the search, ends it, or fails the call.
LEMMA PageKeeps ==
  ASSUME IndInv, Page PROVE IndInv'
<1>1. PICK answer, after :
        /\ answer = Answer /\ after = Advance(source, job.search, answer)
        /\ CASE after.state = "open" ->
                  job' = [job EXCEPT !.search = after] /\ UNCHANGED <<disk, outcome>>
             [] after.state = "done" ->
                  /\ job' = [job EXCEPT !.pc = "archive", !.search = NewSearch,
                                        !.docs = Documents(after)]
                  /\ UNCHANGED <<disk, outcome>>
             [] OTHER -> SearchFails("PERMANENT_FAILED")
  BY DEF Page
<1>2. /\ job.pc = "search"
      /\ UNCHANGED <<native, batches, request, remote, attempt, calls>>
  BY DEF Page, Step
<1>3. JobShape /\ SearchShape(job.search) /\ remote.listing \in SUBSET Ids
  BY DEF IndInv, ShapesOK, JobShape
<1>4. answer.data \in Seq(Ids) /\ job.search.found \in Seq(Ids)
  <2>1. /\ Answered(source, request.req, remote.listing, job.search).data \in Seq(Ids)
        /\ Repeated(source, request.req, remote.listing, job.search).data \in Seq(Ids)
        /\ job.search.found \in Seq(Ids)
    BY <1>3, AnswerType, SeqMonotonic DEF SearchShape
  <2> QED BY <1>1, <2>1 DEF Answer
<1>5. SearchShape(after) /\ Documents(after) \in Seq(Ids)
  BY <1>1, <1>3, <1>4, AdvanceType
<1>6. SearchShape(NewSearch)
  BY DEF SearchShape, NewSearch
<1>7. CASE after.state = "open"
  <2>1. job' = [job EXCEPT !.search = after] /\ UNCHANGED <<disk, outcome>>
    BY <1>1, <1>7
  <2>2. /\ DOMAIN job' = DOMAIN job /\ job'.pc = "search" /\ job'.plan = job.plan
        /\ job'.prepared = job.prepared /\ job'.k = job.k /\ job'.search = after
        /\ job'.docs = job.docs /\ job'.resolved = job.resolved
        /\ job'.published = job.published /\ job'.partial = job.partial
    BY <1>2, <1>3, <2>1 DEF JobShape
  <2>3. job.docs \in Seq(Ids)
    BY <1>3 DEF JobShape
  <2> QED BY <1>2, <1>5, <2>1, <2>2, <2>3, Searching
<1>8. CASE after.state = "done"
  <2>1. job' = [job EXCEPT !.pc = "archive", !.search = NewSearch,
                           !.docs = Documents(after)] /\ UNCHANGED <<disk, outcome>>
    BY <1>1, <1>8
  <2>2. /\ DOMAIN job' = DOMAIN job /\ job'.pc = "archive" /\ job'.plan = job.plan
        /\ job'.prepared = job.prepared /\ job'.k = job.k /\ job'.search = NewSearch
        /\ job'.docs = Documents(after) /\ job'.resolved = job.resolved
        /\ job'.published = job.published /\ job'.partial = job.partial
    BY <1>2, <1>3, <2>1 DEF JobShape
  <2> QED BY <1>2, <1>5, <1>6, <2>1, <2>2, Searching
<1>9. CASE after.state \notin {"open", "done"}
  <2>1. SearchFails("PERMANENT_FAILED")
    BY <1>1, <1>9
  <2> QED BY <1>2, <2>1, SearchFailsKeeps
<1> QED BY <1>7, <1>8, <1>9

\* A failed request starts the search again, or fails the call.
LEMMA PageFailsKeeps ==
  ASSUME IndInv, PageFails PROVE IndInv'
<1>1. /\ job.pc = "search"
      /\ UNCHANGED <<native, batches, request, remote, attempt, calls>>
      /\ \/ /\ job' = [job EXCEPT !.tries = job.tries + 1, !.search = NewSearch]
            /\ UNCHANGED <<disk, outcome>>
         \/ SearchFails("RETRYABLE_FAILED")
  BY DEF PageFails, Step
<1>2. CASE job' = [job EXCEPT !.tries = job.tries + 1, !.search = NewSearch]
           /\ UNCHANGED <<disk, outcome>>
  <2>1. JobShape
    BY DEF IndInv, ShapesOK
  <2>2. /\ DOMAIN job' = DOMAIN job /\ job'.pc = "search" /\ job'.plan = job.plan
        /\ job'.prepared = job.prepared /\ job'.k = job.k /\ job'.search = NewSearch
        /\ job'.docs = job.docs /\ job'.resolved = job.resolved
        /\ job'.published = job.published /\ job'.partial = job.partial
    BY <1>1, <1>2, <2>1 DEF JobShape
  <2>3. job.docs \in Seq(Ids) /\ SearchShape(NewSearch)
    BY <2>1 DEF JobShape, SearchShape, NewSearch
  <2> QED BY <1>1, <1>2, <2>2, <2>3, Searching
<1>3. CASE SearchFails("RETRYABLE_FAILED")
  BY <1>1, <1>3, SearchFailsKeeps
<1> QED BY <1>1, <1>2, <1>3

(***************************************************************************)
(* The documents.                                                          *)
(***************************************************************************)

\* The documents at hand are records.
LEMMA DocsAreIds ==
  ASSUME JobShape
  PROVE  DocIds \in SUBSET Ids /\ UsableDocs \in SUBSET Ids
<1>1. job.docs \in Seq(Ids)
  BY DEF JobShape
<1>2. \A i \in DOMAIN job.docs : job.docs[i] \in Ids
  BY <1>1
<1> QED BY <1>2 DEF DocIds, UsableDocs, ToSet

\* What a call has read and judged is the same as long as its job tells so.
LEMMA SameView ==
  ASSUME job'.docs = job.docs, job'.resolved = job.resolved,
         job'.published = job.published, job'.partial = job.partial, UNCHANGED request
  PROVE  /\ DocIds' = DocIds /\ Audit' = Audit /\ Report' = Report
         /\ RunStatus' = RunStatus /\ source' = source
         /\ \A i : Batch(i)' = Batch(i)
<1>1. DocIds' = DocIds /\ Audit' = Audit /\ RunStatus' = RunStatus /\ source' = source
  BY DEF DocIds, Audit, RunStatus, UsableDocs, Truncated, Unresolved, source
<1>2. Report' = Report
  BY <1>1 DEF Report
<1>3. \A i : Batch(i)' = Batch(i)
  BY DEF Batch
<1> QED BY <1>1, <1>2, <1>3

\* The batches before the k-th are those of the documents at hand.
LEMMA WriteBatchKeeps ==
  ASSUME IndInv, WriteBatch PROVE IndInv'
<1>1. /\ job.pc = "archive" /\ job.k <= Chunks
      /\ UNCHANGED <<disk, native, request, remote, attempt, calls>>
      /\ \/ Refuse /\ UNCHANGED batches
         \/ /\ \/ batches' = batches /\ job.k <= Len(batches) /\ batches[job.k] = Batch(job.k)
               \/ batches' = Append(batches, Batch(job.k)) /\ ~(job.k <= Len(batches))
            /\ job' = [job EXCEPT !.k = job.k + 1] /\ UNCHANGED outcome
  BY DEF WriteBatch, Step, Quiet
<1>2. JobShape /\ CallOK /\ FilesOK /\ StoreOK
  BY DEF IndInv, ShapesOK
<1>3. /\ job.k \in Nat \ {0} /\ job.docs \in Seq(Ids) /\ batches \in Seq(Seq(Ids))
      /\ job.plan \in Plans /\ disk["operation"] = None
      /\ disk["input"] = request.req /\ disk["query_plan"] = job.plan
      /\ disk["capability"] = job.plan.version
      /\ \A i \in 1 .. job.k - 1 : i \in DOMAIN batches /\ batches[i] = Batch(i)
  BY <1>1, <1>2 DEF CallOK, JobShape, FilesOK, Opened, Settled, Planned
<1>4. CASE Refuse /\ UNCHANGED batches
  BY <1>1, <1>4, Refusing
<1>5. CASE /\ \/ batches' = batches /\ job.k <= Len(batches) /\ batches[job.k] = Batch(job.k)
              \/ batches' = Append(batches, Batch(job.k)) /\ ~(job.k <= Len(batches))
           /\ job' = [job EXCEPT !.k = job.k + 1] /\ UNCHANGED outcome
  <2>1. Batch(job.k) \in Seq(Ids)
    <3>1. ChunkSize \in Nat /\ job.k - 1 \in Nat
      BY <1>3, SearchAssumption
    <3>2. (job.k - 1) * ChunkSize \in Nat
      BY <3>1
    <3>3. PICK from \in Nat, seq \in Seq(Ids), n \in Int :
            from = (job.k - 1) * ChunkSize /\ seq = job.docs /\ n = ChunkSize
      BY <1>3, <3>1, <3>2
    <3>4. Slice(seq, from, n) \in Seq(Ids)
      BY CutTypes
    <3> QED BY <3>3, <3>4 DEF Batch
  <2>2. Len(batches) \in Nat /\ DOMAIN batches = 1 .. Len(batches)
    BY <1>3
  <2>3. /\ batches' \in Seq(Seq(Ids))
        /\ job.k \in DOMAIN batches' /\ batches'[job.k] = Batch(job.k)
        /\ \A i \in DOMAIN batches : i \in DOMAIN batches' /\ batches'[i] = batches[i]
    <3>1. CASE batches' = batches /\ job.k <= Len(batches) /\ batches[job.k] = Batch(job.k)
      <4>1. job.k \in 1 .. Len(batches)
        BY <1>3, <2>2, <3>1
      <4> QED BY <1>3, <2>2, <3>1, <4>1
    <3>2. CASE batches' = Append(batches, Batch(job.k)) /\ ~(job.k <= Len(batches))
      <4>1. job.k - 1 <= Len(batches)
        <5>1. CASE job.k = 1
          BY <2>2, <5>1
        <5>2. CASE job.k # 1
          <6>1. job.k - 1 \in 1 .. job.k - 1
            BY <1>3, <5>2
          <6> QED BY <1>3, <2>2, <6>1
        <5> QED BY <5>1, <5>2
      <4>2. job.k = Len(batches) + 1
        BY <1>3, <2>2, <3>2, <4>1
      <4>3. PICK b \in Seq(Ids) : b = Batch(job.k)
        BY <2>1
      <4>4. batches' = Append(batches, b)
        BY <3>2, <4>3
      <4>5. /\ batches' \in Seq(Seq(Ids)) /\ DOMAIN batches' = 1 .. Len(batches) + 1
            /\ batches'[Len(batches) + 1] = b
            /\ \A i \in 1 .. Len(batches) : batches'[i] = batches[i]
        BY <1>3, <4>4
      <4> QED BY <2>2, <4>2, <4>3, <4>5
    <3> QED BY <1>5, <3>1, <3>2
  <2>4. /\ DOMAIN job' = DOMAIN job /\ job'.pc = "archive" /\ job'.plan = job.plan
        /\ job'.prepared = job.prepared /\ job'.k = job.k + 1 /\ job'.search = job.search
        /\ job'.docs = job.docs /\ job'.resolved = job.resolved
        /\ job'.published = job.published /\ job'.partial = job.partial
    BY <1>1, <1>2, <1>5 DEF JobShape
  <2>5. JobShape'
    <3>1. job'.k \in Nat \ {0} /\ JobShape
      BY <1>2, <1>3, <2>4
    <3> QED BY <2>4, <3>1, <1>1 DEF JobShape
  <2>6. \A i \in 1 .. job'.k - 1 : i \in DOMAIN batches' /\ batches'[i] = Batch(i)'
    <3>1. \A i : Batch(i)' = Batch(i)
      BY <1>1, <2>4, SameView
    <3>2. job'.k - 1 = job.k
      BY <1>3, <2>4
    <3>4. \A n \in Nat \ {0} : \A i \in 1 .. n : i = n \/ i \in 1 .. n - 1
      OBVIOUS
    <3> QED BY <1>3, <2>3, <3>1, <3>2, <3>4
  <2>7. CallOK'
    BY <1>1, <1>3, <2>4, <2>6
       DEF CallOK, Opened, Settled, Planned, Read, Judged, Told
  <2>8. FilesOK'
    BY <1>1, <1>2, <2>3 DEF FilesOK
  <2>9. StoreOK'
    <3>1. Backed => Backed'
      BY <1>1, <2>3 DEF Backed
    <3> QED BY <1>1, <1>2, <1>3, <3>1
            DEF StoreOK, CompletionIsClosed, CompletionIsCoherent
  <2> QED BY <1>1, <1>5, <2>5, <2>7, <2>8, <2>9, Moving
<1> QED BY <1>1, <1>4, <1>5

\* The manifest of the raw responses is the archived batches, all of them.
LEMMA WriteRawManifestKeeps ==
  ASSUME IndInv, WriteRawManifest PROVE IndInv'
<1> DEFINE raw == [i \in 1 .. Chunks |-> Batch(i)]
<1>1. /\ job.pc = "archive" /\ job.k > Chunks /\ Write("raw_manifest", raw)
      /\ job' = [job EXCEPT !.k = 1, !.pc = "documents"]
      /\ UNCHANGED <<native, batches, outcome, request, remote, attempt, calls>>
  BY DEF WriteRawManifest, Step, Quiet
<1>2. JobShape /\ CallOK /\ FilesOK /\ StoreOK
  BY DEF IndInv, ShapesOK
<1>3. /\ job.k \in Nat \ {0} /\ job.docs \in Seq(Ids)
      /\ job.plan \in Plans /\ disk["operation"] = None
      /\ disk["input"] = request.req /\ disk["query_plan"] = job.plan
      /\ disk["capability"] = job.plan.version
      /\ \A i \in 1 .. job.k - 1 : i \in DOMAIN batches /\ batches[i] = Batch(i)
  BY <1>1, <1>2 DEF CallOK, JobShape, Opened, Settled, Planned
<1>4. raw = Pieces(job.docs)
  BY DEF Pieces, Batch, Chunks
<1>5. raw \in Seq(Seq(Ids)) /\ FlattenSeq(raw) = job.docs /\ DOMAIN raw = 1 .. Chunks
  <2>1. Pieces(job.docs) \in Seq(Seq(Ids)) /\ FlattenSeq(Pieces(job.docs)) = job.docs
    BY <1>3, PiecesJoin
  <2> QED BY <1>4, <2>1
<1>6. Chunks \in Nat
  <2>1. Len(job.docs) \in Nat /\ ChunkSize \in Nat \ {0}
    BY <1>3, SearchAssumption
  <2>2. PICK a : a = Len(job.docs) + ChunkSize - 1
    OBVIOUS
  <2>3. a \in Nat
    BY <2>1, <2>2
  <2>4. a \div ChunkSize \in Nat
    BY <2>1, <2>3, Division
  <2> QED BY <2>2, <2>4 DEF Chunks
<1>7. \A i \in DOMAIN raw : i \in DOMAIN batches /\ batches[i] = raw[i]
  <2>1. \A i \in 1 .. Chunks : i \in 1 .. job.k - 1
    BY <1>1, <1>3, <1>6
  <2> QED BY <1>3, <2>1
<1> HIDE DEF raw
<1>8. /\ disk = [name \in Artifacts |-> disk[name]]
      /\ {"raw_manifest", "operation", "input", "query_plan", "capability"} \subseteq Artifacts
      /\ DOMAIN Contents \subseteq Artifacts
  BY <1>2, ContentsAre DEF FilesOK, Artifacts
<1>9. /\ disk' = [name \in Artifacts |-> disk'[name]] /\ disk'["raw_manifest"] = raw
      /\ \A name \in Artifacts \ {"raw_manifest"} : disk'[name] = disk[name]
  BY <1>1, <1>8 DEF Write
<1>10. FilesOK'
  <2>1. \A name \in DOMAIN Contents : disk'[name] \in {None} \cup Contents[name]
    BY <1>2, <1>5, <1>8, <1>9, ContentsAre DEF FilesOK
  <2> QED BY <1>1, <1>2, <1>9, <2>1 DEF FilesOK
<1>11. Backed'
  BY <1>1, <1>7, <1>9 DEF Backed
<1>12. StoreOK'
  BY <1>3, <1>8, <1>9, <1>11 DEF StoreOK, CompletionIsClosed, CompletionIsCoherent
<1>13. /\ DOMAIN job' = DOMAIN job /\ job'.pc = "documents" /\ job'.plan = job.plan
       /\ job'.prepared = job.prepared /\ job'.k = 1 /\ job'.search = job.search
       /\ job'.docs = job.docs /\ job'.resolved = job.resolved
       /\ job'.published = job.published /\ job'.partial = job.partial
  BY <1>1, <1>2 DEF JobShape
<1>14. JobShape'
  BY <1>2, <1>13 DEF JobShape, Places, Opened, Settled, Planned, Read
<1>15. DocIds' = ToSet(FlattenSeq(disk'["raw_manifest"]))
  BY <1>5, <1>9, <1>13 DEF DocIds
<1>16. CallOK'
  <2>1. /\ disk'["operation"] = None /\ disk'["input"] = request.req
        /\ disk'["query_plan"] = job.plan /\ disk'["capability"] = job.plan.version
    BY <1>3, <1>8, <1>9
  <2> QED BY <1>1, <1>3, <1>5, <1>9, <1>11, <1>13, <1>15, <2>1
          DEF CallOK, Opened, Settled, Planned, Read, Judged, Told
<1> QED BY <1>1, <1>10, <1>12, <1>14, <1>16, Moving

\* Structures are shared by all runs; they are no artifact of this one.
LEMMA WriteStructureKeeps ==
  ASSUME IndInv, WriteStructure PROVE IndInv'
<1>1. /\ job.pc = "documents"
      /\ UNCHANGED <<disk, native, batches, request, remote, attempt, calls>>
      /\ Refuse \/ (job' = [job EXCEPT !.k = job.k + 1] /\ UNCHANGED outcome)
  BY DEF WriteStructure, Step, Quiet
<1>2. JobShape /\ CallOK
  BY DEF IndInv, ShapesOK
<1>3. CASE Refuse
  BY <1>1, <1>3, Refusing
<1>4. CASE job' = [job EXCEPT !.k = job.k + 1] /\ UNCHANGED outcome
  <2>1. /\ DOMAIN job' = DOMAIN job /\ job'.pc = job.pc /\ job'.plan = job.plan
        /\ job'.prepared = job.prepared /\ job'.k = job.k + 1 /\ job'.search = job.search
        /\ job'.docs = job.docs /\ job'.resolved = job.resolved
        /\ job'.published = job.published /\ job'.partial = job.partial
    BY <1>2, <1>4 DEF JobShape
  <2>2. JobShape'
    BY <1>2, <2>1 DEF JobShape
  <2>3. Backed <=> Backed'
    BY <1>1, FilesStay
  <2>4. DocIds' = DocIds
    BY <1>1, <2>1, SameView
  <2>5. CallOK'
    BY <1>1, <1>2, <2>1, <2>3, <2>4
       DEF CallOK, Opened, Settled, Planned, Read, Judged, Told
  <2> QED BY <1>1, <1>4, <2>2, <2>5, FilesStay, Moving
<1> QED BY <1>1, <1>3, <1>4

\* The verdicts are those the documents on file deserve.
LEMMA ResolveKeeps ==
  ASSUME IndInv, Resolve PROVE IndInv'
<1>1. PICK answered \in BOOLEAN :
        /\ job.pc = "documents"
        /\ UNCHANGED <<disk, native, batches, outcome, request, remote, attempt, calls>>
        /\ job' = [job EXCEPT !.pc = "evidence", !.k = 1,
                     !.resolved = ResolvedBy(answered),
                     !.published = PublishedOf(source, request.req, DocIds)]
  BY DEF Resolve, Step, store
<1>2. JobShape /\ CallOK
  BY DEF IndInv, ShapesOK
<1>3. /\ DOMAIN job' = DOMAIN job /\ job'.pc = "evidence" /\ job'.plan = job.plan
      /\ job'.prepared = job.prepared /\ job'.k = 1 /\ job'.search = job.search
      /\ job'.docs = job.docs /\ job'.resolved = ResolvedBy(answered)
      /\ job'.published = PublishedOf(source, request.req, DocIds)
      /\ job'.partial = job.partial
  BY <1>1, <1>2 DEF JobShape
<1>4. DocIds \in SUBSET Ids /\ UsableDocs \in SUBSET Ids
  BY <1>2, DocsAreIds
<1>5. ResolvedBy(answered) \in SUBSET Ids
  BY <1>4 DEF ResolvedBy
<1>6. PublishedOf(source, request.req, DocIds) \in Publications
  <2>1. source \in RunSources /\ request.req \in Requirements
    BY DEF IndInv, ShapesOK, source
  <2> QED BY <1>4, <2>1 DEF Publications
<1>7. JobShape'
  BY <1>2, <1>3, <1>5, <1>6 DEF JobShape, Places, Opened, Settled, Planned, Read, Judged
<1>8. Backed <=> Backed'
  BY <1>1, FilesStay
<1>9. DocIds' = DocIds /\ source' = source
  BY <1>1, <1>3 DEF DocIds, source
<1>10. CallOK'
  BY <1>1, <1>2, <1>3, <1>8, <1>9
     DEF CallOK, Opened, Settled, Planned, Read, Judged, Told
<1> QED BY <1>1, <1>7, <1>10, FilesStay, Moving

(***************************************************************************)
(* The reports and the operation.                                          *)
(***************************************************************************)

\* The artifacts written once the verdicts are in hand.
ReportNames == {"origin", "audit", "groups", "manifest", "enrichment", "report",
                "stage_result"}

\* What the reports are made of.
LEMMA ViewTypes ==
  ASSUME JobShape
  PROVE  Audit \in Audits /\ RunStatus \in {"SUCCEEDED", "PARTIAL"}
         /\ Report \in Contents["report"] /\ Len(job.docs) \in Nat
<1>1. DocIds \in SUBSET Ids /\ UsableDocs \in SUBSET Ids
  BY DocsAreIds
<1>2. Audit \in Audits
  BY <1>1 DEF Audit, Audits
<1>3. RunStatus \in {"SUCCEEDED", "PARTIAL"} /\ RunStatus \in RunStatuses
  BY DEF RunStatus, RunStatuses
<1>4. Len(job.docs) \in Nat /\ job.published \in Publications
  BY DEF JobShape
<1>5. Report \in [status : RunStatuses, raw : Nat, audit : Audits, published : Publications]
  BY <1>2, <1>3, <1>4 DEF Report
<1> QED BY <1>2, <1>3, <1>4, <1>5, ContentsAre

\* With the verdicts in hand, one report after the other is written.
LEMMA Reporting ==
  ASSUME IndInv, job.pc \in Judged, NEW name \in ReportNames,
         NEW content \in Contents[name], Write(name, content),
         UNCHANGED <<native, batches, outcome, request, remote, attempt, calls>>,
         DOMAIN job' = DOMAIN job, job'.pc \in Judged, job'.k \in Nat \ {0},
         job'.plan = job.plan, job'.prepared = job.prepared, job'.search = job.search,
         job'.docs = job.docs, job'.resolved = job.resolved,
         job'.published = job.published, job'.partial \in BOOLEAN,
         job'.pc = "evidence" => job'.k <= 4, job'.pc \in {"enrich", "report"} => job'.k = 1,
         job'.pc \in Told \/ (job'.pc = "evidence" /\ job'.k > 2) => disk'["audit"] = Audit,
         job'.pc \in {"result", "complete"} => disk'["report"] = Report'
  PROVE  IndInv'
<1>1. JobShape /\ CallOK
  BY DEF IndInv, ShapesOK
<1>2. /\ job.pc \in Read /\ job.pc \in Planned /\ job.pc \in Settled /\ job.pc \in Opened
      /\ job'.pc \in Places /\ job.pc # "idle"
  BY DEF Places, Opened, Settled, Planned, Read, Judged, Told
<1>3. /\ job.plan \in Plans /\ disk["operation"] = None
      /\ disk["input"] = request.req /\ disk["query_plan"] = job.plan
      /\ disk["capability"] = job.plan.version
      /\ disk["raw_manifest"] \in Seq(Seq(Ids)) /\ Backed
      /\ DocIds = ToSet(FlattenSeq(disk["raw_manifest"]))
      /\ job.published = PublishedOf(source, request.req, DocIds)
  BY <1>1, <1>2 DEF CallOK
<1>4. /\ name \in DOMAIN Contents /\ name # "raw_manifest"
      /\ {"operation", "input", "query_plan", "capability", "raw_manifest"}
           \subseteq Artifacts \ {name}
  BY ContentsAre DEF Artifacts, ReportNames
<1>5. /\ FilesOK' /\ StoreOK' /\ (Backed <=> Backed')
      /\ \A other \in Artifacts \ {name} : disk'[other] = disk[other]
  BY <1>3, <1>4, Written
<1>6. JobShape'
  BY <1>1, <1>2 DEF JobShape
<1>7. DocIds' = DocIds /\ Audit' = Audit /\ source' = source
  BY DEF DocIds, Audit, UsableDocs, source
<1>8. /\ disk'["operation"] = None /\ disk'["input"] = request.req
      /\ disk'["query_plan"] = job.plan /\ disk'["capability"] = job.plan.version
      /\ disk'["raw_manifest"] = disk["raw_manifest"]
  BY <1>3, <1>4, <1>5
<1>9. job'.pc \notin {"adapter", "run", "snapshot", "collect", "search", "archive"}
  BY DEF Judged, Told
<1>10. CallOK'
  BY <1>3, <1>5, <1>7, <1>8, <1>9 DEF CallOK
<1> QED BY <1>2, <1>5, <1>6, <1>10, Moving

\* Origins, audit, groups and manifest; from the audit on, it is on file.
LEMMA WriteEvidenceKeeps ==
  ASSUME IndInv, WriteEvidence PROVE IndInv'
<1> DEFINE next == IF source = "materials_project" THEN "enrich" ELSE "report"
<1>1. /\ job.pc = "evidence" /\ JobShape /\ CallOK
  BY DEF WriteEvidence, WriteNext, Step, IndInv, ShapesOK
<1>2. /\ job.k \in 1 .. 4 /\ (job.k > 2 => disk["audit"] = Audit)
      /\ job.published \in Publications /\ job.resolved \in SUBSET Ids
      /\ job.partial \in BOOLEAN
  BY <1>1 DEF CallOK, JobShape
<1> DEFINE manifest == [audit |-> Audit, published |-> job.published]
           groups == ExactDuplicates(UsableDocs)
<1>3. /\ Len(Evidence) = 4 /\ Evidence[1] = <<"origin", job.resolved>>
      /\ Evidence[2] = <<"audit", Audit>> /\ Evidence[3] = <<"groups", groups>>
      /\ Evidence[4] = <<"manifest", manifest>>
  BY DEF Evidence
<1>4. /\ job.resolved \in Contents["origin"] /\ Audit \in Contents["audit"]
      /\ groups \in Contents["groups"] /\ manifest \in Contents["manifest"]
  <2>1. Audit \in Audits /\ UsableDocs \in SUBSET Ids
    BY <1>1, ViewTypes, DocsAreIds
  <2>2. groups \in SUBSET SUBSET Ids
    BY <2>1 DEF ExactDuplicates
  <2>3. manifest \in [audit : Audits, published : Publications]
    BY <1>2, <2>1
  <2> HIDE DEF groups, manifest
  <2> QED BY <1>2, <2>1, <2>2, <2>3, ContentsAre
<1> HIDE DEF groups, manifest
<1>5. PICK name, content :
        /\ name \in ReportNames /\ Evidence[job.k] = <<name, content>>
        /\ content \in Contents[name]
        /\ name = "audit" => content = Audit
        /\ job.k = 2 => name = "audit"
        /\ job.k > 2 => name # "audit"
  <2>1. {"origin", "audit", "groups", "manifest"} \subseteq ReportNames
    BY DEF ReportNames
  <2>2. CASE job.k = 1
    BY <1>3, <1>4, <2>1, <2>2
  <2>3. CASE job.k = 2
    BY <1>3, <1>4, <2>1, <2>3
  <2>4. CASE job.k = 3
    BY <1>3, <1>4, <2>1, <2>4
  <2>5. CASE job.k = 4
    BY <1>3, <1>4, <2>1, <2>5
  <2> QED BY <1>2, <2>2, <2>3, <2>4, <2>5
<1>6. /\ UNCHANGED <<native, batches, request, remote, attempt, calls>>
      /\ \/ Refuse /\ UNCHANGED disk
         \/ /\ Write(name, content) /\ UNCHANGED outcome
            /\ DOMAIN job' = DOMAIN job /\ job'.plan = job.plan
            /\ job'.prepared = job.prepared /\ job'.search = job.search
            /\ job'.docs = job.docs /\ job'.resolved = job.resolved
            /\ job'.published = job.published /\ job'.partial = job.partial
            /\ \/ job.k < Len(Evidence) /\ job'.pc = "evidence" /\ job'.k = job.k + 1
               \/ ~(job.k < Len(Evidence)) /\ job'.pc = next /\ job'.k = 1
  BY <1>5, WriteNextMeans DEF WriteEvidence
<1>7. CASE Refuse /\ UNCHANGED disk
  BY <1>1, <1>6, <1>7, Refusing
<1>8. CASE Write(name, content) /\ UNCHANGED outcome
           /\ DOMAIN job' = DOMAIN job /\ job'.plan = job.plan
           /\ job'.prepared = job.prepared /\ job'.search = job.search
           /\ job'.docs = job.docs /\ job'.resolved = job.resolved
           /\ job'.published = job.published /\ job'.partial = job.partial
           /\ \/ job.k < Len(Evidence) /\ job'.pc = "evidence" /\ job'.k = job.k + 1
              \/ ~(job.k < Len(Evidence)) /\ job'.pc = next /\ job'.k = 1
  <2>1. /\ job'.k \in Nat \ {0} /\ (job'.pc = "evidence" => job'.k <= 4)
        /\ (job'.pc \in {"enrich", "report"} => job'.k = 1)
        /\ job'.pc \in {"evidence", "enrich", "report"}
        /\ job'.pc \in Told \/ (job'.pc = "evidence" /\ job'.k > 2) => job.k >= 2
    BY <1>2, <1>3, <1>8 DEF Told
  <2>2. job.k >= 2 => disk'["audit"] = Audit
    <3>1. "audit" \in Artifacts /\ disk = [n \in Artifacts |-> disk[n]]
      BY DEF Artifacts, IndInv, ShapesOK, FilesOK
    <3>2. name = "audit" => disk'["audit"] = content
      BY <1>8, <3>1 DEF Write
    <3>3. name # "audit" => disk'["audit"] = disk["audit"]
      BY <1>8, <3>1 DEF Write
    <3> QED BY <1>2, <1>5, <3>2, <3>3
  <2>3. job.pc \in Judged /\ job'.pc \in Judged /\ job'.pc \notin {"result", "complete"}
        /\ job'.partial \in BOOLEAN
    BY <1>1, <1>2, <1>8, <2>1 DEF Judged, Told
  <2> QED BY <1>5, <1>6, <1>8, <2>1, <2>2, <2>3, Reporting
<1> QED BY <1>6, <1>7, <1>8

\* What is missing from the enrichment makes the status partial before the
\* report is written, not after.
LEMMA EnrichKeeps ==
  ASSUME IndInv, Enrich PROVE IndInv'
<1>1. PICK partial \in BOOLEAN :
        /\ job.pc = "enrich"
        /\ UNCHANGED <<native, batches, request, remote, attempt, calls>>
        /\ \/ Refuse /\ UNCHANGED disk
           \/ /\ Write("enrichment", partial)
              /\ job' = [job EXCEPT !.pc = "report", !.partial = partial]
              /\ UNCHANGED outcome
  BY DEF Enrich, Step
<1>2. JobShape /\ CallOK /\ FilesOK
  BY DEF IndInv, ShapesOK
<1>3. CASE Refuse /\ UNCHANGED disk
  BY <1>1, <1>3, Refusing
<1>4. CASE /\ Write("enrichment", partial)
           /\ job' = [job EXCEPT !.pc = "report", !.partial = partial]
           /\ UNCHANGED outcome
  <2>1. /\ DOMAIN job' = DOMAIN job /\ job'.pc = "report" /\ job'.plan = job.plan
        /\ job'.prepared = job.prepared /\ job'.k = job.k /\ job'.search = job.search
        /\ job'.docs = job.docs /\ job'.resolved = job.resolved
        /\ job'.published = job.published /\ job'.partial = partial
    BY <1>2, <1>4 DEF JobShape
  <2>2. /\ job.k = 1 /\ disk["audit"] = Audit
        /\ job.pc \in Judged /\ job'.pc \in Judged /\ "report" \in Judged
    BY <1>1, <1>2, <2>1 DEF CallOK, Judged, Told
  <2>3. disk'["audit"] = Audit
    <3>1. {"audit", "enrichment"} \subseteq Artifacts /\ disk = [n \in Artifacts |-> disk[n]]
      BY <1>2 DEF Artifacts, FilesOK
    <3> QED BY <1>4, <2>2, <3>1 DEF Write
  <2>4. "enrichment" \in ReportNames /\ partial \in Contents["enrichment"]
    BY ContentsAre DEF ReportNames
  <2>5. job'.k \in Nat \ {0} /\ job'.partial \in BOOLEAN
        /\ job'.pc \notin {"evidence", "result", "complete"}
        /\ (job'.pc \in {"enrich", "report"} => job'.k = 1)
    BY <2>1, <2>2
  <2> QED BY <1>1, <1>4, <2>1, <2>2, <2>3, <2>4, <2>5, Reporting
<1> QED BY <1>1, <1>3, <1>4

\* The report on file is the one the call goes on with.
LEMMA WriteReportKeeps ==
  ASSUME IndInv, WriteReport PROVE IndInv'
<1> DEFINE writes == << <<"report", Report>> >>
<1>1. job.pc = "report" /\ JobShape /\ CallOK /\ FilesOK
  BY DEF WriteReport, WriteNext, Step, IndInv, ShapesOK
<1>2. job.k = 1 /\ disk["audit"] = Audit /\ job.partial \in BOOLEAN
  BY <1>1 DEF CallOK, JobShape, Told
<1>3. Len(writes) = 1 /\ writes[job.k] = <<"report", Report>>
  BY <1>2
<1>4. WriteNext("report", writes, "result")
  BY DEF WriteReport
<1> HIDE DEF writes
<1>5. /\ UNCHANGED <<native, batches, request, remote, attempt, calls>>
      /\ \/ Refuse /\ UNCHANGED disk
         \/ /\ Write("report", Report) /\ UNCHANGED outcome
            /\ DOMAIN job' = DOMAIN job /\ job'.plan = job.plan
            /\ job'.prepared = job.prepared /\ job'.search = job.search
            /\ job'.docs = job.docs /\ job'.resolved = job.resolved
            /\ job'.published = job.published /\ job'.partial = job.partial
            /\ job'.pc = "result" /\ job'.k = 1
  <2>1. PICK ws, content : ws = writes /\ content = Report
    OBVIOUS
  <2>2. /\ WriteNext("report", ws, "result") /\ ws[job.k] = <<"report", content>>
        /\ Len(ws) = 1 /\ ~(job.k < Len(ws))
    BY <1>2, <1>3, <1>4, <2>1
  <2>3. /\ UNCHANGED <<native, batches, request, remote, attempt, calls>>
        /\ \/ Refuse /\ UNCHANGED disk
           \/ /\ Write("report", content) /\ UNCHANGED outcome
              /\ DOMAIN job' = DOMAIN job /\ job'.plan = job.plan
              /\ job'.prepared = job.prepared /\ job'.search = job.search
              /\ job'.docs = job.docs /\ job'.resolved = job.resolved
              /\ job'.published = job.published /\ job'.partial = job.partial
              /\ \/ job.k < Len(ws) /\ job'.pc = "report" /\ job'.k = job.k + 1
                 \/ ~(job.k < Len(ws)) /\ job'.pc = "result" /\ job'.k = 1
    <3>1. PICK pc, next, name : pc = "report" /\ next = "result" /\ name = "report"
      OBVIOUS
    <3>2. WriteNext(pc, ws, next) /\ ws[job.k] = <<name, content>>
      BY <2>2, <3>1
    <3>3. /\ UNCHANGED <<native, batches, structures, memory, request, remote,
                         attempt, calls>>
          /\ \/ Conflicts(name, content) /\ Refuse /\ UNCHANGED disk
             \/ /\ Write(name, content) /\ UNCHANGED outcome
                /\ DOMAIN job' = DOMAIN job /\ job'.plan = job.plan
                /\ job'.prepared = job.prepared /\ job'.search = job.search
                /\ job'.docs = job.docs /\ job'.resolved = job.resolved
                /\ job'.published = job.published /\ job'.partial = job.partial
                /\ \/ job.k < Len(ws) /\ job'.pc = pc /\ job'.k = job.k + 1
                   \/ ~(job.k < Len(ws)) /\ job'.pc = next /\ job'.k = 1
      BY <3>2, WriteNextMeans
    <3> QED BY <3>1, <3>3
  <2> QED BY <2>1, <2>2, <2>3
<1>6. CASE Refuse /\ UNCHANGED disk
  BY <1>1, <1>5, <1>6, Refusing
<1>7. CASE Write("report", Report) /\ UNCHANGED outcome
           /\ DOMAIN job' = DOMAIN job /\ job'.plan = job.plan
           /\ job'.prepared = job.prepared /\ job'.search = job.search
           /\ job'.docs = job.docs /\ job'.resolved = job.resolved
           /\ job'.published = job.published /\ job'.partial = job.partial
           /\ job'.pc = "result" /\ job'.k = 1
  <2>1. Report \in Contents["report"] /\ "report" \in ReportNames
    BY <1>1, ViewTypes DEF ReportNames
  <2>2. Report' = Report
    BY <1>5, <1>7, SameView
  <2>3. disk'["audit"] = Audit /\ disk'["report"] = Report'
    <3>1. {"audit", "report"} \subseteq Artifacts /\ disk = [n \in Artifacts |-> disk[n]]
      BY <1>1 DEF Artifacts, FilesOK
    <3> QED BY <1>2, <1>7, <2>2, <3>1 DEF Write
  <2>4. job.pc \in Judged /\ job'.pc \in Judged
        /\ job'.pc \notin {"evidence", "enrich", "report"}
    BY <1>1, <1>7 DEF Judged, Told
  <2>5. 1 \in Nat \ {0} /\ job'.k \in Nat \ {0} /\ job'.partial \in BOOLEAN
    BY <1>2, <1>7
  <2> QED BY <1>5, <1>7, <2>1, <2>3, <2>4, <2>5, Reporting
<1> QED BY <1>5, <1>6, <1>7

\* The result is written over; it is the one the operation will record.
LEMMA WriteResultKeeps ==
  ASSUME IndInv, WriteResult PROVE IndInv'
<1>1. /\ job.pc = "result" /\ Write("stage_result", RunResult)
      /\ job' = [job EXCEPT !.pc = "complete"]
      /\ UNCHANGED <<native, batches, outcome, request, remote, attempt, calls>>
  BY DEF WriteResult, Step, Quiet
<1>2. JobShape /\ CallOK /\ FilesOK
  BY DEF IndInv, ShapesOK
<1>3. /\ DOMAIN job' = DOMAIN job /\ job'.pc = "complete" /\ job'.plan = job.plan
      /\ job'.prepared = job.prepared /\ job'.k = job.k /\ job'.search = job.search
      /\ job'.docs = job.docs /\ job'.resolved = job.resolved
      /\ job'.published = job.published /\ job'.partial = job.partial
  BY <1>1, <1>2 DEF JobShape
<1>4. /\ disk["audit"] = Audit /\ disk["report"] = Report
      /\ job.pc \in Judged /\ job'.pc \in Judged /\ job.k \in Nat \ {0}
      /\ job.partial \in BOOLEAN
  BY <1>1, <1>2, <1>3 DEF CallOK, JobShape, Judged, Told
<1>5. Report' = Report
  BY <1>1, <1>3, SameView
<1>6. disk'["audit"] = Audit /\ disk'["report"] = Report'
  <2>1. {"audit", "report", "stage_result"} \subseteq Artifacts
        /\ disk = [n \in Artifacts |-> disk[n]]
    BY <1>2 DEF Artifacts, FilesOK
  <2> QED BY <1>1, <1>4, <1>5, <2>1 DEF Write
<1>7. RunResult \in Contents["stage_result"] /\ "stage_result" \in ReportNames
  <2>1. RunResult \in Results
    <3>1. calls \in Nat /\ job.published \in Publications
      BY <1>2, RunAssumption DEF IndInv, ShapesOK, JobShape
    <3>2. DocIds \in SUBSET Ids /\ RunStatus \in RunStatuses
      BY <1>2, DocsAreIds DEF RunStatus, RunStatuses
    <3> QED BY <3>1, <3>2 DEF RunResult, Result, Results
  <2> QED BY <2>1, ContentsAre DEF ReportNames
<1>8. job'.pc \notin {"evidence", "enrich", "report"}
  BY <1>3
<1> QED BY <1>1, <1>3, <1>4, <1>6, <1>7, <1>8, Reporting

\* The operation is recorded last, with the hash of everything on file.
LEMMA CompleteKeeps ==
  ASSUME IndInv, Complete PROVE IndInv'
<1> DEFINE record == [result |-> RunResult, registered |-> Registered]
<1>1. /\ job.pc = "complete" /\ Write("operation", record) /\ job' = Idle
      /\ outcome' = [status |-> RunResult.status, category |-> None, result |-> RunResult]
      /\ UNCHANGED <<native, batches, request, remote, attempt, calls>>
  BY DEF Complete, Step, Quiet, Finish
<1>2. JobShape /\ CallOK /\ FilesOK /\ StoreOK
  BY DEF IndInv, ShapesOK
<1>3. /\ disk["audit"] = Audit /\ disk["report"] = Report
      /\ job.plan \in Plans /\ disk["operation"] = None
      /\ disk["input"] = request.req /\ disk["query_plan"] = job.plan
      /\ disk["capability"] = job.plan.version
      /\ disk["raw_manifest"] \in Seq(Seq(Ids)) /\ Backed
      /\ DocIds = ToSet(FlattenSeq(disk["raw_manifest"]))
      /\ job.published = PublishedOf(source, request.req, DocIds)
  BY <1>1, <1>2 DEF CallOK, Opened, Settled, Planned, Read, Judged, Told
<1>4. RunResult \in Results
  <2>1. calls \in Nat /\ job.published \in Publications
    BY <1>2, RunAssumption DEF IndInv, ShapesOK, JobShape
  <2>2. DocIds \in SUBSET Ids /\ RunStatus \in RunStatuses
    BY <1>2, DocsAreIds DEF RunStatus, RunStatuses
  <2> QED BY <2>1, <2>2 DEF RunResult, Result, Results
<1>5. Registered \in [Artifacts \ {"operation"} ->
                        {None} \cup UNION {Contents[name] : name \in DOMAIN Contents}]
  <2>1. \A name \in Artifacts \ {"operation"} :
          disk[name] \in {None} \cup UNION {Contents[n] : n \in DOMAIN Contents}
    <3>1. \A name \in DOMAIN Contents : disk[name] \in {None} \cup Contents[name]
      BY <1>2 DEF FilesOK
    <3> QED BY <3>1, ContentsAre
  <2> QED BY <2>1 DEF Registered
<1>6. record \in Operations /\ record # None
  <2>1. record \in Operations
    BY <1>4, <1>5 DEF Operations
  <2> HIDE DEF record
  <2> QED BY <2>1, NoneAssumption
<1>7. record.result = RunResult /\ record.registered = Registered
  OBVIOUS
<1>8. /\ RunResult.docs = DocIds /\ RunResult.published = job.published
      /\ RunResult.status = RunStatus
  BY DEF RunResult, Result
<1>9. /\ Audit.docs = DocIds /\ Report.published = job.published
      /\ Report.status = RunStatus
  BY DEF Audit, Report
<1> HIDE DEF record
<1>10. /\ disk = [name \in Artifacts |-> disk[name]] /\ "operation" \in Artifacts
       /\ {"raw_manifest", "audit", "report", "input", "query_plan", "capability"}
            \subseteq Artifacts \ {"operation"}
       /\ DOMAIN Contents = Artifacts \ {"operation"}
  BY <1>2, ContentsAre DEF FilesOK, Artifacts
<1>11. /\ disk' = [name \in Artifacts |-> disk'[name]] /\ disk'["operation"] = record
       /\ \A name \in Artifacts \ {"operation"} : disk'[name] = disk[name]
  BY <1>1, <1>10 DEF Write
<1>12. FilesOK'
  <2>1. \A name \in DOMAIN Contents : disk'[name] \in {None} \cup Contents[name]
    BY <1>2, <1>10, <1>11 DEF FilesOK
  <2> QED BY <1>1, <1>2, <1>11, <2>1 DEF FilesOK
<1>13. Backed' /\ disk'["query_plan"] # None
  <2>1. None \notin Plans
    BY NoneAssumption
  <2> QED BY <1>1, <1>3, <1>10, <1>11, <2>1 DEF Backed
<1>14. DOMAIN Registered = Artifacts \ {"operation"}
       /\ \A name \in Artifacts \ {"operation"} : Registered[name] = disk[name]
  BY DEF Registered
<1>15. CompletionIsClosed'
  <2>1. RecordedIsIntact'
    BY <1>7, <1>11, <1>14 DEF RecordedIsIntact
  <2> QED BY <1>13, <2>1 DEF CompletionIsClosed, Backed
<1>16. CompletionIsCoherent'
  <2>1. source' = source
    BY <1>1 DEF source
  <2>2. /\ disk'["raw_manifest"] = disk["raw_manifest"] /\ disk'["audit"] = Audit
        /\ disk'["report"] = Report /\ disk'["input"] = request.req
        /\ disk'["query_plan"] = job.plan /\ disk'["capability"] = job.plan.version
    BY <1>3, <1>10, <1>11
  <2>3. disk'["operation"].result = RunResult
    BY <1>7, <1>11
  <2> QED BY <1>3, <1>8, <1>9, <2>1, <2>2, <2>3 DEF CompletionIsCoherent
<1>17. StoreOK'
  BY <1>7, <1>11, <1>13, <1>14, <1>15, <1>16 DEF StoreOK
<1>18. AnswersAreRecorded'
  BY <1>1, <1>6, <1>7, <1>11 DEF AnswersAreRecorded
<1> QED BY <1>1, <1>12, <1>17, <1>18, Ending

\* A step in which nothing changes.
LEMMA StutteringKeeps ==
  ASSUME IndInv, UNCHANGED vars PROVE IndInv'
<1>1. UNCHANGED <<request, remote, disk, native, batches, job, attempt, calls, outcome>>
  BY DEF vars
<1>2. FilesOK' /\ StoreOK' /\ (Backed <=> Backed')
  BY <1>1, FilesStay
<1>3. JobShape /\ CallOK
  BY DEF IndInv, ShapesOK
<1>4. JobShape'
  BY <1>1, <1>3 DEF JobShape
<1>5. CallOK'
  <2>1. /\ DocIds' = DocIds /\ Audit' = Audit /\ Report' = Report /\ source' = source
        /\ \A i : Batch(i)' = Batch(i)
    BY <1>1, SameView
  <2> QED BY <1>1, <1>2, <1>3, <2>1 DEF CallOK, Direct
<1>6. ShapesOK'
  BY <1>1, <1>2, <1>4 DEF IndInv, ShapesOK
<1> QED BY <1>1, <1>2, <1>5, <1>6 DEF IndInv, OutcomeOK, AnswersAreRecorded

(***************************************************************************)
(* The theorems.                                                           *)
(***************************************************************************)

\* The strengthening holds: files have their shapes, a call has in hand what it
\* has written, and a recorded operation is closed and coherent.
THEOREM IndInvAlways == Spec => []IndInv
<1>1. Init => IndInv
  BY TheInit
<1>2. IndInv /\ [Next]_vars => IndInv'
  <2> SUFFICES ASSUME IndInv, [Next]_vars PROVE IndInv'
    OBVIOUS
  <2>1. CASE Invoke BY <2>1, InvokeKeeps
  <2>2. CASE Crash BY <2>2, CrashKeeps
  <2>3. CASE RejectInput BY <2>3, RejectInputKeeps
  <2>4. CASE ReuseNativePlan BY <2>4, ReuseNativePlanKeeps
  <2>5. CASE MakeNativePlan BY <2>5, MakeNativePlanKeeps
  <2>6. CASE Open BY <2>6, OpenKeeps
  <2>7. CASE Metadata BY <2>7, MetadataKeeps
  <2>8. CASE MetadataFails BY <2>8, MetadataFailsKeeps
  <2>9. CASE WriteSnapshot BY <2>9, WriteSnapshotKeeps
  <2>10. CASE Collect BY <2>10, CollectKeeps
  <2>11. CASE Page BY <2>11, PageKeeps
  <2>12. CASE PageFails BY <2>12, PageFailsKeeps
  <2>13. CASE WriteBatch BY <2>13, WriteBatchKeeps
  <2>14. CASE WriteRawManifest BY <2>14, WriteRawManifestKeeps
  <2>15. CASE WriteStructure BY <2>15, WriteStructureKeeps
  <2>16. CASE Resolve BY <2>16, ResolveKeeps
  <2>17. CASE WriteEvidence BY <2>17, WriteEvidenceKeeps
  <2>18. CASE Enrich BY <2>18, EnrichKeeps
  <2>19. CASE WriteReport BY <2>19, WriteReportKeeps
  <2>20. CASE WriteResult BY <2>20, WriteResultKeeps
  <2>21. CASE Complete BY <2>21, CompleteKeeps
  <2>22. CASE RemoteChanges BY <2>22, RemoteChangesKeeps
  <2>23. CASE UNCHANGED vars BY <2>23, StutteringKeeps
  <2> QED
    BY <2>1, <2>2, <2>3, <2>4, <2>5, <2>6, <2>7, <2>8, <2>9, <2>10, <2>11, <2>12,
       <2>13, <2>14, <2>15, <2>16, <2>17, <2>18, <2>19, <2>20, <2>21, <2>22, <2>23
       DEF Next, Work
<1> QED BY <1>1, <1>2, PTL DEF Spec

\* _verify_completed: every artifact a completed operation registers keeps the
\* content it was registered with, and so do the raw responses its manifest lists,
\* through every later call, crash and failed search.
THEOREM ClosedCompletions == Spec => []CompletionIsClosed
<1>1. IndInv => CompletionIsClosed
  BY DEF IndInv, StoreOK
<1> QED BY <1>1, IndInvAlways, PTL

\* _complete: the raw responses, the audit, the report, the plan and the
\* capability snapshot of a completed run tell one story, and the published
\* records are those the frozen Requirement selects from the archived documents.
THEOREM CoherentCompletions == Spec => []CompletionIsCoherent
<1>1. IndInv => CompletionIsCoherent
  BY DEF IndInv, StoreOK
<1> QED BY <1>1, IndInvAlways, PTL

\* run(): SUCCEEDED and PARTIAL are answered only with the recorded result.
THEOREM RecordedAnswers == Spec => []AnswersAreRecorded
<1>1. IndInv => AnswersAreRecorded
  BY DEF IndInv
<1> QED BY <1>1, IndInvAlways, PTL

(***************************************************************************)
(* An undisturbed search.                                                  *)
(***************************************************************************)

\* One answered request moves a search of an unchanging database on; a path
\* leads from the first request over n answers.
Goes(src, req, listing, s, t) ==
  s.state = "open" /\ t = Advance(src, s, Answered(src, req, listing, s))
Path(src, req, listing, n, path) ==
  path[0] = NewSearch /\ \A i \in 0 .. n - 1 : Goes(src, req, listing, path[i], path[i + 1])
Reached(src, req, listing, s) ==
  \E n \in Nat : \E path : Path(src, req, listing, n, path) /\ path[n] = s

\* The documents it finds, and whether it breaks off with an error.
Finds(src, req, listing, docs) ==
  \E s : Reached(src, req, listing, s) /\ s.state = "done" /\ docs = Documents(s)
Breaks(src, req, listing) ==
  \E s : Reached(src, req, listing, s) /\ s.state \notin {"open", "done"}

\* Every search starts somewhere, and an answer leads on.
LEMMA ReachedOn ==
  ASSUME NEW src, NEW req, NEW listing
  PROVE  /\ Reached(src, req, listing, NewSearch)
         /\ \A s, t : Reached(src, req, listing, s) /\ Goes(src, req, listing, s, t)
              => Reached(src, req, listing, t)
<1>1. Reached(src, req, listing, NewSearch)
  <2> DEFINE path == [i \in {0} |-> NewSearch]
  <2>1. path[0] = NewSearch /\ \A i \in 0 .. 0 - 1 : FALSE
    OBVIOUS
  <2>2. Path(src, req, listing, 0, path)
    BY <2>1 DEF Path
  <2> QED BY <2>1, <2>2 DEF Reached
<1>2. ASSUME NEW s, NEW t, Reached(src, req, listing, s), Goes(src, req, listing, s, t)
      PROVE  Reached(src, req, listing, t)
  <2>0. PICK n \in Nat : \E path : Path(src, req, listing, n, path) /\ path[n] = s
    BY <1>2 DEF Reached
  <2>1. PICK path : Path(src, req, listing, n, path) /\ path[n] = s
    BY <2>0
  <2> DEFINE longer == [i \in 0 .. n + 1 |-> IF i <= n THEN path[i] ELSE t]
  <2>2. \A i \in 0 .. n : longer[i] = path[i]
    OBVIOUS
  <2>3. longer[n + 1] = t /\ n + 1 \in Nat
    OBVIOUS
  <2> HIDE DEF longer
  <2>4. longer[0] = NewSearch
    BY <2>1, <2>2 DEF Path
  <2>5. ASSUME NEW i \in 0 .. (n + 1) - 1
        PROVE  Goes(src, req, listing, longer[i], longer[i + 1])
    <3>1. CASE i = n
      BY <1>2, <2>1, <2>2, <2>3, <3>1
    <3>2. CASE i # n
      <4>1. i \in 0 .. n - 1 /\ i \in 0 .. n /\ i + 1 \in 0 .. n
        BY <3>2
      <4> QED BY <2>1, <2>2, <4>1 DEF Path
    <3> QED BY <3>1, <3>2
  <2>6. Path(src, req, listing, n + 1, longer)
    BY <2>4, <2>5 DEF Path
  <2> QED BY <2>3, <2>6 DEF Reached
<1> QED BY <1>1, <1>2

\* All searches of it take the same path.
LEMMA OnePath ==
  ASSUME NEW src, NEW req, NEW listing, NEW n \in Nat, NEW m \in Nat, NEW p, NEW q,
         Path(src, req, listing, n, p), Path(src, req, listing, m, q)
  PROVE  \A i \in Nat : i <= n /\ i <= m => p[i] = q[i]
<1> DEFINE B == {i \in Nat : i <= n /\ i <= m => p[i] = q[i]}
<1>1. 0 \in B
  BY DEF Path
<1>2. ASSUME NEW i \in B PROVE i + 1 \in B
  <2> SUFFICES ASSUME i + 1 <= n, i + 1 <= m PROVE p[i + 1] = q[i + 1]
    OBVIOUS
  <2>1. i \in 0 .. n - 1 /\ i \in 0 .. m - 1 /\ p[i] = q[i]
    OBVIOUS
  <2>2. /\ Goes(src, req, listing, p[i], p[i + 1])
        /\ Goes(src, req, listing, q[i], q[i + 1])
    BY <2>1 DEF Path
  <2> QED BY <2>1, <2>2 DEF Goes
<1>3. B = Nat
  <2>1. B \in SUBSET Nat
    OBVIOUS
  <2> HIDE DEF B
  <2> QED BY <1>1, <1>2, <2>1, SetInduction
<1> QED BY <1>3

\* So a search that is over has one end.
LEMMA OneEnd ==
  ASSUME NEW src, NEW req, NEW listing, NEW s, NEW t,
         Reached(src, req, listing, s), Reached(src, req, listing, t),
         s.state # "open", t.state # "open"
  PROVE  s = t
<1>1. ASSUME NEW n \in Nat, NEW m \in Nat, NEW p, NEW q,
             Path(src, req, listing, n, p), Path(src, req, listing, m, q),
             p[n].state # "open"
      PROVE  ~ (n < m)
  <2> SUFFICES ASSUME n < m PROVE FALSE
    OBVIOUS
  <2>1. p[n] = q[n]
    BY <1>1, OnePath
  <2>2. Goes(src, req, listing, q[n], q[n + 1])
    BY <1>1 DEF Path
  <2> QED BY <1>1, <2>1, <2>2 DEF Goes
<1>2. PICK n \in Nat : \E p : Path(src, req, listing, n, p) /\ p[n] = s
  BY DEF Reached
<1>3. PICK m \in Nat : \E q : Path(src, req, listing, m, q) /\ q[m] = t
  BY DEF Reached
<1>4. PICK p : Path(src, req, listing, n, p) /\ p[n] = s
  BY <1>2
<1>5. PICK q : Path(src, req, listing, m, q) /\ q[m] = t
  BY <1>3
<1>6. n = m
  BY <1>1, <1>4, <1>5
<1> QED BY <1>4, <1>5, <1>6, OnePath

LEMMA OneFind ==
  ASSUME NEW src, NEW req, NEW listing, NEW docs, Finds(src, req, listing, docs)
  PROVE  /\ \A other : Finds(src, req, listing, other) => other = docs
         /\ ~Breaks(src, req, listing)
<1>1. \A s, t : Reached(src, req, listing, s) /\ Reached(src, req, listing, t)
                /\ s.state # "open" /\ t.state # "open" => s = t
  BY OneEnd
<1>2. PICK s : Reached(src, req, listing, s) /\ s.state = "done" /\ docs = Documents(s)
  BY DEF Finds
<1>3. ASSUME NEW other, Finds(src, req, listing, other) PROVE other = docs
  <2>1. PICK t : Reached(src, req, listing, t) /\ t.state = "done" /\ other = Documents(t)
    BY <1>3 DEF Finds
  <2> QED BY <1>1, <1>2, <2>1
<1>4. ~Breaks(src, req, listing)
  BY <1>1, <1>2 DEF Breaks
<1> QED BY <1>3, <1>4

\* It finds what is listed.
LEMMA ReachedListed ==
  ASSUME NEW src, NEW req, NEW listing \in SUBSET Ids, NEW s, Reached(src, req, listing, s)
  PROVE  SearchShape(s) /\ s.found \in Seq(listing) /\ Documents(s) \in Seq(listing)
<1>0. PICK n \in Nat : \E path : Path(src, req, listing, n, path) /\ path[n] = s
  BY DEF Reached
<1>1. PICK path : Path(src, req, listing, n, path) /\ path[n] = s
  BY <1>0
<1> DEFINE Good(t) == SearchShape(t) /\ t.found \in Seq(listing)
           B == {i \in Nat : i <= n => Good(path[i])}
<1>2. 0 \in B
  <2>1. NewSearch.found = <<>> /\ SearchShape(NewSearch)
    BY DEF NewSearch, SearchShape
  <2>2. <<>> \in Seq(listing)
    OBVIOUS
  <2> QED BY <1>1, <2>1, <2>2 DEF Path
<1>3. ASSUME NEW i \in B PROVE i + 1 \in B
  <2> SUFFICES ASSUME i + 1 <= n PROVE Good(path[i + 1])
    OBVIOUS
  <2>1. i \in 0 .. n - 1 /\ Good(path[i])
    OBVIOUS
  <2>2. PICK here, answer : here = path[i] /\ answer = Answered(src, req, listing, here)
    OBVIOUS
  <2>3. path[i + 1] = Advance(src, here, answer)
    BY <1>1, <2>1, <2>2 DEF Path, Goes
  <2>4. answer.data \in Seq(listing)
    BY <2>1, <2>2, AnswerType
  <2> QED BY <2>1, <2>2, <2>3, <2>4, AdvanceType
<1>4. Good(s)
  <2>1. B \in SUBSET Nat
    OBVIOUS
  <2>2. B = Nat
    <3> HIDE DEF B
    <3> QED BY <1>2, <1>3, <2>1, SetInduction
  <2> QED BY <1>1, <2>2
<1>5. Documents(s) \in Seq(listing)
  <2>1. listing \in SUBSET Nat
    BY EvaluationAssumption
  <2> QED BY <1>4, <2>1, SortedFacts DEF Documents
<1> QED BY <1>4, <1>5

(***************************************************************************)
(* Why a run that is not disturbed never refuses.  As long as there is no  *)
(* cause, everything on file and in hand is a function of the source, the  *)
(* Requirement and the listing, so what a call writes is what is there.    *)
(* (Reached quantifies over paths, so TLC has no way to evaluate the       *)
(* invariant as it stands.)                                                *)
(***************************************************************************)

\* What a run owes to the documents an undisturbed search finds, artifact by
\* artifact.
Found(docs) == Finds(source, request.req, remote.listing, docs)
UsableOf(docs) == {id \in ToSet(docs) : Entry[id].structure # None}
ResolvedOf(src, docs) == IF src = "nims_supercon" THEN {} ELSE UsableOf(docs)
AuditOf(src, docs) ==
  [docs |-> ToSet(docs), resolved |-> ResolvedOf(src, docs) \cap UsableOf(docs)]
StatusOf(src, docs) ==
  IF \/ Len(docs) >= MaxRecordsScanned \/ ToSet(docs) # UsableOf(docs)
     \/ UsableOf(docs) # {} /\ ResolvedOf(src, docs) \cap UsableOf(docs) = {}
    THEN "PARTIAL" ELSE "SUCCEEDED"
Due(src, req, docs) ==
  [origin |-> ResolvedOf(src, docs), audit |-> AuditOf(src, docs),
   groups |-> ExactDuplicates(UsableOf(docs)),
   manifest |-> [audit |-> AuditOf(src, docs),
                 published |-> PublishedOf(src, req, ToSet(docs))],
   enrichment |-> FALSE,
   report |-> [status |-> StatusOf(src, docs), raw |-> Len(docs),
               audit |-> AuditOf(src, docs),
               published |-> PublishedOf(src, req, ToSet(docs))]]

\* The parts of the invariant: the plans on file and in hand agree with the
\* database, the documents are those it yields, a stored structure was listed
\* in that form, the reports are those due, and the process has seen the
\* records whose origins it will be asked for.
PlansAgree ==
  /\ remote.version = 0 /\ ~remote.stuck
  /\ disk["input"] \in {None, request.req} /\ disk["coverage"] \in {None, source}
  /\ disk["capability"] \in {None, 0}
  /\ disk["query_plan"] # None => disk["query_plan"].version = 0
  /\ job.plan # None => job.plan.version = 0
  /\ \A n \in 1 .. MaxCalls : native[n] # None => native[n].version = 0
  /\ job.pc = "snapshot" => disk["query_plan"] \in {None, job.plan}
SearchesAgree ==
  /\ Reached(source, request.req, remote.listing, job.search)
  /\ job.search.state = "open" /\ (job.pc # "search" => job.search = NewSearch)
  /\ job.pc \in {"archive"} \cup Read => Found(job.docs)
  /\ disk["raw_manifest"] # None => Found(FlattenSeq(disk["raw_manifest"]))
  /\ \A i \in DOMAIN batches : \E docs :
       Found(docs) /\ batches[i] = Slice(docs, (i - 1) * ChunkSize, ChunkSize)
StructuresAgree ==
  \A s \in Structures : structures[s] # None =>
    \E id \in remote.listing : Entry[id].structure = s /\ Entry[id].raw = structures[s]
Agreed == {"origin", "audit", "groups", "manifest", "enrichment", "report"}
Reported(name) ==
  disk[name] # None =>
    \/ \E docs : Found(docs) /\ disk[name] = Due(source, request.req, docs)[name]
    \/ name = "report" /\ Breaks(source, request.req, remote.listing)
ReportsAgree ==
  /\ \A name \in Agreed : Reported(name)
  /\ job.pc \in Judged => job.resolved = ResolvedOf(source, job.docs)
  /\ job.partial = FALSE
Forgetful == {"nomad", "topological_quantum_chemistry"}
MemoryServes ==
  source \in Forgetful =>
    /\ ToSet(job.search.found) \subseteq memory
    /\ job.pc \in {"archive", "documents"} => ToSet(job.docs) \subseteq memory
    /\ disk["raw_manifest"] # None => disk["operation"] # None \/ job.pc \in Read
Steadfast == PlansAgree /\ SearchesAgree /\ StructuresAgree /\ ReportsAgree /\ MemoryServes

\* Until there is a cause, everything agrees and nothing is refused.
SteadyInv ==
  /\ trouble \in [Kinds -> Nat]
  /\ Caused \/ (Steadfast /\ outcome.category \notin Refusals)

(***************************************************************************)
(* What the steps do to the causes.                                        *)
(***************************************************************************)

\* Only counted disturbances touch the database and the Requirement.
LEMMA StepsCount ==
  ASSUME IndInv, [Next]_vars
  PROVE  /\ source' = source
         /\ UNCHANGED trouble \/ \E kind \in Kinds : Troubled(kind)
         /\ UNCHANGED remote \/ Troubled("remote")
         /\ UNCHANGED request \/ Troubled("edited")
<1>1. request \in [source : RunSources, req : Requirements,
                   caller : {"orchestrator", "cli"}, input : Inputs]
  BY DEF IndInv, ShapesOK
<1>2. {"remote", "failed", "crashed", "edited"} = Kinds
  BY DEF Kinds
<1>3. /\ UNCHANGED trouble \/ \E kind \in Kinds : Troubled(kind)
      /\ UNCHANGED remote \/ Troubled("remote")
      /\ UNCHANGED request
         \/ (Troubled("edited") /\ \E req : request' = [request EXCEPT !.req = req])
  <2>1. CASE Invoke BY <1>2, <2>1 DEF Invoke
  <2>2. CASE Crash BY <1>2, <2>2 DEF Crash
  <2>3. CASE MetadataFails BY <1>2, <2>3 DEF MetadataFails
  <2>4. CASE PageFails BY <1>2, <2>4 DEF PageFails
  <2>5. CASE Resolve BY <1>2, <2>5 DEF Resolve
  <2>6. CASE Enrich BY <1>2, <2>6 DEF Enrich
  <2>7. CASE RemoteChanges BY <1>2, <2>7 DEF RemoteChanges
  <2>8. CASE RejectInput BY <2>8 DEF RejectInput
  <2>9. CASE Collect \/ Page BY <2>9 DEF Collect, Page
  <2>10. CASE ReuseNativePlan \/ MakeNativePlan \/ Open \/ Metadata
    BY <2>10 DEF ReuseNativePlan, MakeNativePlan, Open, Metadata, Quiet
  <2>11. CASE WriteSnapshot \/ WriteEvidence \/ WriteReport
    BY <2>11 DEF WriteSnapshot, WriteEvidence, WriteReport, WriteNext, Quiet
  <2>12. CASE WriteBatch \/ WriteRawManifest \/ WriteStructure \/ WriteResult \/ Complete
    BY <2>12 DEF WriteBatch, WriteRawManifest, WriteStructure, WriteResult, Complete, Quiet
  <2>13. CASE UNCHANGED vars BY <2>13 DEF vars
  <2> QED
    BY <2>1, <2>2, <2>3, <2>4, <2>5, <2>6, <2>7, <2>8, <2>9, <2>10, <2>11, <2>12, <2>13
       DEF Next, Work
<1>4. source' = source
  BY <1>1, <1>3 DEF source
<1> QED BY <1>3, <1>4

\* A disturbance counted is a cause, and a cause stays one.
LEMMA CauseStays ==
  ASSUME IndInv, trouble \in [Kinds -> Nat], [Next]_vars
  PROVE  /\ trouble' \in [Kinds -> Nat] /\ (Caused => Caused')
         /\ Troubled("remote") \/ Troubled("failed") \/ Troubled("edited") => Caused'
         /\ Troubled("crashed") /\ source \in Forgetful => Caused'
<1>1. {"remote", "failed", "crashed", "edited"} = Kinds
  BY DEF Kinds
<1>2. /\ trouble' \in [Kinds -> Nat]
      /\ \A kind \in Kinds : trouble'[kind] >= trouble[kind]
      /\ \A kind \in Kinds : Troubled(kind) => trouble'[kind] > 0
  <2>1. CASE UNCHANGED trouble /\ \A kind \in Kinds : ~Troubled(kind)
    BY <2>1
  <2>2. ASSUME NEW kind \in Kinds, Troubled(kind)
        PROVE  /\ trouble' \in [Kinds -> Nat]
               /\ \A k \in Kinds : trouble'[k] >= trouble[k]
               /\ trouble'[kind] > 0
    BY <2>2 DEF Troubled
  <2> QED BY <2>1, <2>2, StepsCount
<1>3. source' = source /\ (UNCHANGED remote \/ Troubled("remote"))
  BY StepsCount
<1>4. /\ {trouble["remote"], trouble["failed"], trouble["edited"], trouble["crashed"],
          trouble'["remote"], trouble'["failed"], trouble'["edited"],
          trouble'["crashed"]} \subseteq Nat
      /\ trouble'["remote"] >= trouble["remote"] /\ trouble'["failed"] >= trouble["failed"]
      /\ trouble'["edited"] >= trouble["edited"] /\ trouble'["crashed"] >= trouble["crashed"]
  BY <1>1, <1>2
<1>5. Troubled("remote") \/ Troubled("failed") \/ Troubled("edited") => Caused'
  BY <1>1, <1>2, <1>4 DEF Caused
<1>6. Caused => Caused'
  <2>1. CASE Troubled("remote")
    BY <1>5, <2>1
  <2>2. CASE UNCHANGED remote
    BY <1>3, <1>4, <2>2 DEF Caused
  <2> QED BY <1>3, <2>1, <2>2
<1>7. Troubled("crashed") /\ source \in Forgetful => Caused'
  BY <1>1, <1>2, <1>3 DEF Caused, Forgetful
<1> QED BY <1>2, <1>5, <1>6, <1>7

(***************************************************************************)
(* What a step leaves alone stays in agreement.                            *)
(***************************************************************************)

\* The plans go on agreeing when nothing of them is written.
LEMMA PlansStay ==
  ASSUME PlansAgree, UNCHANGED <<request, remote, native>>,
         \A name \in {"input", "coverage", "capability", "query_plan"} :
           disk'[name] = disk[name],
         job'.plan \in {None, job.plan},
         job'.pc = "snapshot" => job.pc = "snapshot" /\ job'.plan = job.plan
  PROVE  PlansAgree'
<1>1. source' = source
  BY DEF source
<1>2. /\ disk'["input"] = disk["input"] /\ disk'["coverage"] = disk["coverage"]
      /\ disk'["capability"] = disk["capability"]
      /\ disk'["query_plan"] = disk["query_plan"]
  OBVIOUS
<1> QED BY <1>1, <1>2 DEF PlansAgree

\* What a search finds depends on the database and the request alone.
LEMMA FoundStays ==
  ASSUME UNCHANGED <<request, remote>>
  PROVE  /\ source' = source /\ \A docs : Found(docs)' <=> Found(docs)
         /\ \A s : Reached(source, request.req, remote.listing, s)'
                     <=> Reached(source, request.req, remote.listing, s)
  BY DEF source, Found

\* So do the documents, when no batch and no manifest is written.
LEMMA SearchesStay ==
  ASSUME SearchesAgree, UNCHANGED <<request, remote, batches>>,
         disk'["raw_manifest"] = disk["raw_manifest"], job'.search = NewSearch,
         job'.pc \in {"archive"} \cup Read => Found(job'.docs)
  PROVE  SearchesAgree'
<1>1. /\ source' = source /\ \A docs : Found(docs)' <=> Found(docs)
  BY FoundStays
<1>2. Reached(source, request.req, remote.listing, NewSearch)
  BY ReachedOn
<1>3. Reached(source', request'.req, remote'.listing, job'.search)
  BY <1>1, <1>2
<1>4. NewSearch.state = "open"
  BY DEF NewSearch
<1>5. job'.pc \in {"archive"} \cup Read => Found(job.docs)'
  BY DEF Found, source
<1>6. disk'["raw_manifest"] # None => Found(FlattenSeq(disk["raw_manifest"]))'
  BY DEF SearchesAgree, Found, source
<1>7. \A i \in DOMAIN batches' : \E docs :
        Found(docs)' /\ batches'[i] = Slice(docs, (i - 1) * ChunkSize, ChunkSize)
  BY <1>1 DEF SearchesAgree
<1> QED BY <1>3, <1>4, <1>5, <1>6, <1>7 DEF SearchesAgree

\* So do the structures.
LEMMA StructuresStay ==
  ASSUME StructuresAgree, UNCHANGED <<remote, structures>> PROVE StructuresAgree'
  BY DEF StructuresAgree

\* So does an artifact that is not written,
LEMMA ReportedStays ==
  ASSUME NEW name, Reported(name), UNCHANGED <<request, remote>>, disk'[name] = disk[name]
  PROVE  Reported(name)'
  BY DEF Reported, Found, source

\* and with it all of the reports.
LEMMA ReportsStay ==
  ASSUME ReportsAgree, UNCHANGED <<request, remote>>,
         \A name \in Agreed : disk'[name] = disk[name],
         job'.pc \in Judged => job'.resolved = ResolvedOf(source, job'.docs),
         job'.partial = FALSE
  PROVE  ReportsAgree'
<1>1. \A name \in Agreed : Reported(name)'
  BY ReportedStays DEF ReportsAgree
<1>2. source' = source
  BY DEF source
<1> QED BY <1>1, <1>2 DEF ReportsAgree

\* What the process has seen serves on.
LEMMA MemoryStays ==
  ASSUME MemoryServes, UNCHANGED request, job'.search = NewSearch,
         source \in Forgetful => /\ job'.pc \in {"archive", "documents"} =>
                                      ToSet(job'.docs) \subseteq memory'
                                 /\ disk'["raw_manifest"] # None =>
                                      disk'["operation"] # None \/ job'.pc \in Read
  PROVE  MemoryServes'
<1>1. source' = source
  BY DEF source
<1>2. ToSet(NewSearch.found) = {}
  BY DEF NewSearch, ToSet
<1> QED BY <1>1, <1>2 DEF MemoryServes

\* Without a cause the step is undisturbed.
LEMMA Undisturbed ==
  ASSUME IndInv, trouble \in [Kinds -> Nat], [Next]_vars, ~Caused'
  PROVE  /\ UNCHANGED <<request, remote>> /\ ~Troubled("failed") /\ ~Troubled("remote")
         /\ ~Troubled("edited") /\ (Troubled("crashed") => source \notin Forgetful)
         /\ trouble' \in [Kinds -> Nat] /\ ~Caused
  BY StepsCount, CauseStays

\* A call under way is not refused yet.
LEMMA NotRefused ==
  /\ None \notin Refusals
  /\ IndInv /\ job.pc # "idle" => outcome.category \notin Refusals
<1>1. None \notin Refusals
  BY NoneAssumption
<1>2. ASSUME IndInv, job.pc # "idle" PROVE outcome.category \notin Refusals
  BY <1>1, <1>2, UnderWay DEF NoOutcome
<1> QED BY <1>1, <1>2

\* A call that starts or ends without a word on file.
LEMMA RestSteady ==
  ASSUME Steadfast,
         UNCHANGED <<request, remote, disk, native, batches, structures>>,
         job'.pc \in {"idle", "adapter", "run"}, job'.plan = None,
         job'.search = NewSearch, job'.partial = FALSE,
         source \in Forgetful => job.pc \notin Read \/ disk["operation"] # None
  PROVE  Steadfast'
<1>1. job'.pc \notin {"snapshot", "archive", "documents"} \cup Read \cup Judged
  BY DEF Read, Judged, Told
<1>2. PlansAgree'
  BY <1>1, PlansStay DEF Steadfast
<1>3. SearchesAgree'
  BY <1>1, SearchesStay DEF Steadfast
<1>4. StructuresAgree'
  BY StructuresStay DEF Steadfast
<1>5. ReportsAgree'
  BY <1>1, ReportsStay DEF Steadfast
<1>6. MemoryServes'
  <2>1. source \in Forgetful /\ disk'["raw_manifest"] # None => disk'["operation"] # None
    BY DEF Steadfast, MemoryServes
  <2> QED BY <1>1, <2>1, MemoryStays DEF Steadfast
<1> QED BY <1>2, <1>3, <1>4, <1>5, <1>6 DEF Steadfast

\* What a call at rest has in hand.
LEMMA IdleFacts ==
  /\ Idle.pc = "idle" /\ Idle.plan = None /\ Idle.search = NewSearch
  /\ Idle.partial = FALSE
  BY DEF Idle

\* A call starts with nothing in hand.
LEMMA InvokeSteady ==
  ASSUME IndInv, Steadfast, UNCHANGED <<request, remote>>, Invoke
  PROVE  Steadfast' /\ outcome'.category \notin Refusals
<1>1. /\ job.pc = "idle" /\ outcome' = NoOutcome
      /\ job' = [Idle EXCEPT !.pc = IF Direct THEN "run" ELSE "adapter"]
      /\ UNCHANGED <<disk, native, batches, structures>>
  BY DEF Invoke, store
<1>2. /\ job'.pc \in {"adapter", "run"} /\ job'.plan = None /\ job'.search = NewSearch
      /\ job'.partial = FALSE
  BY <1>1 DEF Idle
<1>3. job.pc \notin Read
  BY <1>1 DEF Read, Judged, Told
<1>4. outcome'.category \notin Refusals
  BY <1>1, NotRefused DEF NoOutcome
<1> QED BY <1>1, <1>2, <1>3, <1>4, RestSteady

\* A crash loses what a call had in hand, and nothing else that matters unless the
\* source keeps its origins in memory.
LEMMA CrashSteady ==
  ASSUME IndInv, Steadfast, UNCHANGED <<request, remote>>, Crash, source \notin Forgetful
  PROVE  Steadfast' /\ outcome'.category \notin Refusals
<1>1. /\ job' = Idle /\ outcome' = NoOutcome
      /\ UNCHANGED <<disk, native, batches, structures>>
  BY DEF Crash, store
<1>2. outcome'.category \notin Refusals
  BY <1>1, NotRefused DEF NoOutcome
<1> QED BY <1>1, <1>2, IdleFacts, RestSteady

\* An input that is not sound is answered before anything is compared.
LEMMA RejectInputSteady ==
  ASSUME IndInv, Steadfast, UNCHANGED <<request, remote>>, RejectInput
  PROVE  Steadfast' /\ outcome'.category \notin Refusals
<1>1. /\ job' = Idle /\ outcome'.category = InputCategory
      /\ job.pc \in {"adapter", "run"}
      /\ UNCHANGED <<disk, native, batches, structures>>
  BY DEF RejectInput, store, Finish, Failure
<1>2. InputCategory \notin Refusals
  BY DEF InputCategory, Refusals
<1>3. job.pc \notin Read
  BY <1>1 DEF Read, Judged, Told
<1> QED BY <1>1, <1>2, <1>3, IdleFacts, RestSteady

\* A step in which nothing changes.
LEMMA StutteringSteady ==
  ASSUME Steadfast, outcome.category \notin Refusals, UNCHANGED vars
  PROVE  Steadfast' /\ outcome'.category \notin Refusals
<1>1. UNCHANGED <<request, remote, disk, native, batches, structures, memory, job,
                  outcome>> /\ source' = source
  BY DEF vars, source
<1>2. PlansAgree' /\ StructuresAgree' /\ MemoryServes'
  BY <1>1 DEF Steadfast, PlansAgree, StructuresAgree, MemoryServes
<1>3. SearchesAgree'
  BY <1>1 DEF Steadfast, SearchesAgree, Found
<1>4. ReportsAgree'
  BY <1>1 DEF Steadfast, ReportsAgree, Reported, Found
<1> QED BY <1>1, <1>2, <1>3, <1>4 DEF Steadfast

(***************************************************************************)
(* The plan.                                                               *)
(***************************************************************************)

\* A call that goes on with its plan, before it has documents.
LEMMA PlanSteady ==
  ASSUME IndInv, Steadfast, UNCHANGED <<request, remote, batches, structures>>,
         NEW name \in {"input", "capability", "coverage", "query_plan"},
         disk' = disk \/ disk' = [disk EXCEPT ![name] = disk'[name]],
         job.pc \in {"adapter", "run", "metadata", "snapshot"},
         job'.pc \in {"run", "metadata", "snapshot", "collect"},
         job'.search = job.search, job'.partial = job.partial, PlansAgree'
  PROVE  Steadfast'
<1>1. /\ job.pc # "search" /\ job'.pc \notin {"archive", "documents"} \cup Read \cup Judged
      /\ job.pc \notin Read
  BY DEF Read, Judged, Told
<1>2. {"raw_manifest", "operation"} \cup Agreed \subseteq Artifacts \ {name}
  BY DEF Agreed, Artifacts
<1>3. \A other \in {"raw_manifest", "operation"} \cup Agreed : disk'[other] = disk[other]
  <2>1. disk = [n \in Artifacts |-> disk[n]]
    BY DEF IndInv, ShapesOK, FilesOK
  <2> QED BY <1>2, <2>1
<1>4. disk'["raw_manifest"] = disk["raw_manifest"] /\ disk'["operation"] = disk["operation"]
  BY <1>3
<1>5. job'.search = NewSearch /\ job'.partial = FALSE
  BY <1>1 DEF Steadfast, SearchesAgree, ReportsAgree
<1>6. SearchesAgree'
  BY <1>1, <1>4, <1>5, SearchesStay DEF Steadfast
<1>7. StructuresAgree'
  BY StructuresStay DEF Steadfast
<1>8. ReportsAgree'
  BY <1>1, <1>3, <1>5, ReportsStay DEF Steadfast
<1>9. MemoryServes'
  <2>1. source \in Forgetful /\ disk'["raw_manifest"] # None => disk'["operation"] # None
    BY <1>1, <1>4 DEF Steadfast, MemoryServes
  <2> QED BY <1>1, <1>5, <2>1, MemoryStays DEF Steadfast
<1> QED BY <1>6, <1>7, <1>8, <1>9 DEF Steadfast

\* A frozen native plan was made of the same database.
LEMMA ReuseNativePlanSteady ==
  ASSUME IndInv, Steadfast, UNCHANGED <<request, remote>>, ReuseNativePlan
  PROVE  Steadfast' /\ outcome'.category \notin Refusals
<1>1. /\ job.pc = "adapter" /\ native[attempt] # None
      /\ job' = [job EXCEPT !.pc = "run", !.plan = native[attempt], !.prepared = TRUE]
      /\ UNCHANGED <<disk, native, batches, structures, outcome>>
  BY DEF ReuseNativePlan, Step, store
<1>2. JobShape /\ attempt \in 1 .. MaxCalls
  BY DEF IndInv, ShapesOK
<1>3. /\ job'.pc = "run" /\ job'.plan = native[attempt] /\ job'.search = job.search
      /\ job'.partial = job.partial
  BY <1>1, <1>2 DEF JobShape
<1>4. PlansAgree'
  <2>1. native[attempt].version = 0
    BY <1>1, <1>2 DEF Steadfast, PlansAgree
  <2> QED BY <1>1, <1>3, <2>1 DEF Steadfast, PlansAgree, source
<1>5. Steadfast'
  BY <1>1, <1>3, <1>4, PlanSteady
<1> QED BY <1>1, <1>5, NotRefused

\* A new native plan is made of the same database.
LEMMA MakeNativePlanSteady ==
  ASSUME IndInv, Steadfast, UNCHANGED <<request, remote>>, MakeNativePlan
  PROVE  Steadfast' /\ outcome'.category \notin Refusals
<1> DEFINE plan == [version |-> remote.version, when |-> calls]
<1>1. /\ job.pc = "adapter"
      /\ job' = [job EXCEPT !.pc = "run", !.plan = plan, !.prepared = TRUE, !.tries = 0]
      /\ native' = [native EXCEPT ![attempt] = plan]
      /\ UNCHANGED <<disk, batches, structures, outcome>>
  BY DEF MakeNativePlan, Step
<1>2. plan.version = 0
  BY DEF Steadfast, PlansAgree
<1> HIDE DEF plan
<1>3. JobShape /\ attempt \in 1 .. MaxCalls /\ native \in [1 .. MaxCalls -> {None} \cup Plans]
  BY DEF IndInv, ShapesOK, FilesOK
<1>4. /\ job'.pc = "run" /\ job'.plan = plan /\ job'.search = job.search
      /\ job'.partial = job.partial
  BY <1>1, <1>3 DEF JobShape
<1>5. \A n \in 1 .. MaxCalls : native'[n] = plan \/ native'[n] = native[n]
  BY <1>1, <1>3
<1>6. PlansAgree'
  BY <1>1, <1>2, <1>4, <1>5 DEF Steadfast, PlansAgree, source
<1>7. Steadfast'
  BY <1>1, <1>4, <1>6, PlanSteady
<1> QED BY <1>1, <1>7, NotRefused

\* All plans have the version of the database, so none is refused.
LEMMA SettleSteady ==
  ASSUME IndInv, Steadfast, UNCHANGED <<request, remote, native, batches, structures>>,
         job.pc \in {"run", "metadata"}, NEW plan, plan.version = 0, Settle(plan),
         disk' = disk \/ (disk' = [disk EXCEPT !["input"] = request.req])
  PROVE  Steadfast' /\ outcome'.category \notin Refusals
<1>1. disk["query_plan"] # None => disk["query_plan"].version = 0
  BY DEF Steadfast, PlansAgree
<1>2. PICK p : /\ outcome' = outcome /\ disk["query_plan"] \in {None, p}
               /\ p.version = 0
               /\ \/ job' = [job EXCEPT !.pc = "snapshot", !.plan = p, !.k = 1]
                  \/ job' = [job EXCEPT !.pc = "snapshot", !.k = 1, !.plan = p]
  BY <1>1 DEF Settle
<1>3. JobShape
  BY DEF IndInv, ShapesOK
<1>4. /\ job'.pc = "snapshot" /\ job'.plan = p /\ job'.search = job.search
      /\ job'.partial = job.partial
  <2>1. {"pc", "k", "plan", "search", "partial"} \subseteq DOMAIN job
    BY <1>3 DEF JobShape
  <2>2. CASE job' = [job EXCEPT !.pc = "snapshot", !.plan = p, !.k = 1]
    BY <2>1, <2>2
  <2>3. CASE job' = [job EXCEPT !.pc = "snapshot", !.k = 1, !.plan = p]
    BY <2>1, <2>3
  <2> QED BY <1>2, <2>2, <2>3
<1>5. /\ disk'["input"] \in {disk["input"], request.req}
      /\ disk'["coverage"] = disk["coverage"] /\ disk'["capability"] = disk["capability"]
      /\ disk'["query_plan"] = disk["query_plan"]
      /\ disk' = disk \/ disk' = [disk EXCEPT !["input"] = disk'["input"]]
  <2>1. /\ disk = [n \in Artifacts |-> disk[n]]
        /\ {"input", "coverage", "capability", "query_plan"} \subseteq Artifacts
    BY DEF IndInv, ShapesOK, FilesOK, Artifacts
  <2> QED BY <2>1
<1>6. PlansAgree'
  BY <1>2, <1>4, <1>5 DEF Steadfast, PlansAgree, source
<1>7. Steadfast'
  BY <1>4, <1>5, <1>6, PlanSteady
<1> QED BY <1>2, <1>7, NotRefused

\* run(): the input on file is the one of this call, a recorded operation is
\* intact, and the plan on file has the version of the database.
LEMMA OpenSteady ==
  ASSUME IndInv, Steadfast, UNCHANGED <<request, remote>>, Open
  PROVE  Steadfast' /\ outcome'.category \notin Refusals
<1>1. ~Conflicts("input", request.req)
  BY DEF Conflicts, Steadfast, PlansAgree
<1>2. OperationExists => RecordedIsIntact
  BY DEF OperationExists, IndInv, StoreOK, CompletionIsClosed
<1>3. job.pc = "run" /\ JobShape /\ CallOK
  BY DEF Open, Step, IndInv, ShapesOK
<1>4. \/ /\ OperationExists
         /\ Finish([status |-> disk["operation"].result.status,
                    category |-> None, result |-> disk["operation"].result])
         /\ UNCHANGED <<disk, native, batches, structures>>
      \/ /\ Write("input", request.req) /\ UNCHANGED <<native, batches, structures>>
         /\ \/ Resumable /\ Settle(disk["query_plan"])
            \/ job.prepared /\ Settle(job.plan)
            \/ job' = [job EXCEPT !.pc = "metadata"] /\ UNCHANGED outcome
  BY <1>1, <1>2 DEF Open, store
<1>5. CASE /\ OperationExists
           /\ Finish([status |-> disk["operation"].result.status,
                      category |-> None, result |-> disk["operation"].result])
           /\ UNCHANGED <<disk, native, batches, structures>>
  <2>1. job' = Idle /\ outcome'.category = None /\ disk["operation"] # None
    BY <1>5 DEF Finish, OperationExists
  <2> QED BY <1>5, <2>1, IdleFacts, NotRefused, RestSteady
<1>6. CASE /\ Write("input", request.req) /\ UNCHANGED <<native, batches, structures>>
           /\ \/ Resumable /\ Settle(disk["query_plan"])
              \/ job.prepared /\ Settle(job.plan)
              \/ job' = [job EXCEPT !.pc = "metadata"] /\ UNCHANGED outcome
  <2>1. disk' = [disk EXCEPT !["input"] = request.req]
    BY <1>6 DEF Write
  <2>2. CASE Resumable /\ Settle(disk["query_plan"])
    <3>1. disk["query_plan"].version = 0
      BY <2>2 DEF Resumable, Steadfast, PlansAgree
    <3> QED BY <1>3, <1>6, <2>1, <2>2, <3>1, SettleSteady
  <2>3. CASE job.prepared /\ Settle(job.plan)
    <3>1. job.plan.version = 0
      <4>1. job.plan \in Plans
        BY <1>3, <2>3 DEF CallOK
      <4>2. job.plan # None
        BY <4>1, NoneAssumption
      <4> QED BY <4>2 DEF Steadfast, PlansAgree
    <3> QED BY <1>3, <1>6, <2>1, <2>3, <3>1, SettleSteady
  <2>4. CASE job' = [job EXCEPT !.pc = "metadata"] /\ UNCHANGED outcome
    <3>1. /\ job'.pc = "metadata" /\ job'.plan = job.plan /\ job'.search = job.search
          /\ job'.partial = job.partial
      BY <1>3, <2>4 DEF JobShape
    <3>2. /\ disk'["input"] = request.req
          /\ disk'["coverage"] = disk["coverage"] /\ disk'["capability"] = disk["capability"]
          /\ disk'["query_plan"] = disk["query_plan"]
          /\ disk' = [disk EXCEPT !["input"] = disk'["input"]]
      <4>1. /\ disk = [n \in Artifacts |-> disk[n]]
            /\ {"input", "coverage", "capability", "query_plan"} \subseteq Artifacts
        BY DEF IndInv, ShapesOK, FilesOK, Artifacts
      <4> QED BY <2>1, <4>1
    <3>3. PlansAgree'
      BY <1>6, <3>1, <3>2 DEF Steadfast, PlansAgree, source
    <3>4. Steadfast'
      BY <1>3, <1>6, <3>1, <3>2, <3>3, PlanSteady
    <3> QED BY <1>3, <2>4, <3>4, NotRefused
  <2> QED BY <1>6, <2>2, <2>3, <2>4
<1> QED BY <1>4, <1>5, <1>6

\* A new plan has the version of the one on file.
LEMMA MetadataSteady ==
  ASSUME IndInv, Steadfast, UNCHANGED <<request, remote>>, Metadata
  PROVE  Steadfast' /\ outcome'.category \notin Refusals
<1> DEFINE plan == [version |-> remote.version, when |-> calls]
<1>1. job.pc = "metadata" /\ Settle(plan) /\ UNCHANGED <<disk, native, batches, structures>>
  BY DEF Metadata, Step, store
<1>2. plan.version = 0
  BY DEF Steadfast, PlansAgree
<1> HIDE DEF plan
<1> QED BY <1>1, <1>2, SettleSteady

\* The snapshot on file is the one this call would write.
LEMMA WriteSnapshotSteady ==
  ASSUME IndInv, Steadfast, UNCHANGED <<request, remote>>, WriteSnapshot
  PROVE  Steadfast' /\ outcome'.category \notin Refusals
<1>1. job.pc = "snapshot" /\ JobShape /\ CallOK
  BY DEF WriteSnapshot, WriteNext, Step, IndInv, ShapesOK
<1>2. job.k \in 1 .. 3 /\ job.plan \in Plans
  BY <1>1, Stages DEF CallOK, JobShape, Settled
<1>3. /\ job.plan.version = 0 /\ job.plan # None
      /\ disk["query_plan"] \in {None, job.plan} /\ disk["capability"] \in {None, 0}
      /\ disk["coverage"] \in {None, source}
  <2>1. job.plan # None
    BY <1>2, NoneAssumption
  <2> QED BY <1>1, <2>1 DEF Steadfast, PlansAgree
<1>4. /\ Len(Snapshot) = 3 /\ Snapshot[1] = <<"capability", job.plan.version>>
      /\ Snapshot[2] = <<"coverage", source>> /\ Snapshot[3] = <<"query_plan", job.plan>>
  BY DEF Snapshot
<1>5. PICK name, content :
        /\ name \in {"capability", "coverage", "query_plan"}
        /\ Snapshot[job.k] = <<name, content>>
        /\ name = "capability" => content = 0
        /\ name = "coverage" => content = source
        /\ name = "query_plan" => content = job.plan
  <2>1. CASE job.k = 1
    BY <1>3, <1>4, <2>1
  <2>2. CASE job.k = 2
    BY <1>3, <1>4, <2>2
  <2>3. CASE job.k = 3
    BY <1>3, <1>4, <2>3
  <2> QED BY <1>2, <2>1, <2>2, <2>3
<1>6. ~Conflicts(name, content)
  BY <1>3, <1>5 DEF Conflicts
<1>7. /\ UNCHANGED <<native, batches, structures>> /\ Write(name, content)
      /\ UNCHANGED outcome /\ job'.plan = job.plan /\ job'.search = job.search
      /\ job'.partial = job.partial /\ job'.pc \in {"snapshot", "collect"}
  BY <1>5, <1>6, WriteNextMeans DEF WriteSnapshot
<1>8. /\ disk'[name] = content /\ disk' = [disk EXCEPT ![name] = disk'[name]]
      /\ \A other \in Artifacts \ {name} : disk'[other] = disk[other]
  <2>1. disk = [n \in Artifacts |-> disk[n]] /\ name \in Artifacts
    BY <1>5 DEF IndInv, ShapesOK, FilesOK, Artifacts
  <2> QED BY <1>7, <2>1 DEF Write
<1>9. PlansAgree'
  <2>1. {"input", "capability", "coverage", "query_plan"} \subseteq Artifacts
    BY DEF Artifacts
  <2>2. source' = source /\ disk'["input"] = disk["input"]
    BY <1>5, <1>8, <2>1 DEF source
  <2>3. /\ disk'["coverage"] \in {None, source} /\ disk'["capability"] \in {None, 0}
        /\ disk'["query_plan"] \in {None, job.plan}
    BY <1>3, <1>5, <1>8, <2>1
  <2> QED BY <1>3, <1>7, <2>2, <2>3 DEF Steadfast, PlansAgree
<1>10. Steadfast'
  BY <1>1, <1>5, <1>7, <1>8, <1>9, PlanSteady
<1> QED BY <1>1, <1>7, <1>10, NotRefused

(***************************************************************************)
(* The documents.                                                          *)
(***************************************************************************)

\* An archived response is what a search finds.
LEMMA CollectSteady ==
  ASSUME IndInv, Steadfast, UNCHANGED <<request, remote>>, Collect
  PROVE  Steadfast' /\ outcome'.category \notin Refusals
<1>1. /\ job.pc = "collect"
      /\ UNCHANGED <<disk, native, batches, structures, memory, outcome>>
      /\ \/ /\ disk["raw_manifest"] # None
            /\ job' = [job EXCEPT !.pc = "documents",
                                  !.docs = FlattenSeq(disk["raw_manifest"])]
         \/ /\ disk["raw_manifest"] = None
            /\ job' = [job EXCEPT !.pc = "search"]
  BY DEF Collect, Step, store
<1>2. JobShape /\ CallOK
  BY DEF IndInv, ShapesOK
<1>3. /\ job'.pc \in {"documents", "search"} /\ job'.plan = job.plan
      /\ job'.search = job.search /\ job'.partial = job.partial
      /\ job'.pc = "documents" => /\ disk["raw_manifest"] # None
                                  /\ job'.docs = FlattenSeq(disk["raw_manifest"])
      /\ job'.pc = "search" => disk["raw_manifest"] = None
  BY <1>1, <1>2 DEF JobShape
<1>4. /\ job'.search = NewSearch /\ job'.partial = FALSE
      /\ job'.pc = "documents" => Found(job'.docs)
  BY <1>1, <1>3 DEF Steadfast, SearchesAgree, ReportsAgree
<1>5. /\ job.pc \notin Read /\ disk["operation"] = None
      /\ {"archive", "search"} \cap Read = {} /\ job'.pc \notin Judged
  BY <1>1, <1>2, <1>3 DEF CallOK, Opened, Settled, Planned, Read, Judged, Told
<1>6. PlansAgree'
  BY <1>1, <1>3, PlansStay DEF Steadfast
<1>7. SearchesAgree'
  BY <1>1, <1>3, <1>4, <1>5, SearchesStay DEF Steadfast
<1>8. StructuresAgree'
  BY <1>1, StructuresStay DEF Steadfast
<1>9. ReportsAgree'
  BY <1>1, <1>4, <1>5, ReportsStay DEF Steadfast
<1>10. MemoryServes'
  <2>1. source \in Forgetful => disk["raw_manifest"] = None
    BY <1>5 DEF Steadfast, MemoryServes
  <2>2. source \in Forgetful => job'.pc = "search" /\ disk'["raw_manifest"] = None
    BY <1>1, <1>3, <2>1
  <2> QED BY <1>4, <2>2, MemoryStays DEF Steadfast
<1> QED BY <1>1, <1>6, <1>7, <1>8, <1>9, <1>10, NotRefused DEF Steadfast

\* The documents of a search are entries it gathered.
LEMMA DocumentsGathered ==
  ASSUME NEW s, SearchShape(s)
  PROVE  ToSet(Documents(s)) \subseteq ToSet(s.found)
<1> DEFINE S == ToSet(s.found)
<1>1. s.found \in Seq(Ids) /\ Ids \subseteq Nat
  BY EvaluationAssumption DEF SearchShape
<1>2. S \in SUBSET Nat /\ s.found \in Seq(S)
  <2>1. \A i \in 1 .. Len(s.found) : s.found[i] \in S /\ s.found[i] \in Ids
    BY <1>1 DEF ToSet
  <2>2. S \in SUBSET Nat
    <3>1. \A id \in S : \E i \in 1 .. Len(s.found) : id = s.found[i]
      BY <1>1 DEF ToSet
    <3> QED BY <1>1, <2>1, <3>1
  <2>3. PICK seq : seq = s.found
    OBVIOUS
  <2>4. seq \in Seq(S)
    <3>1. /\ Len(seq) \in Nat /\ seq = [i \in 1 .. Len(seq) |-> seq[i]]
          /\ \A i \in 1 .. Len(seq) : seq[i] \in S
      BY <1>1, <2>1, <2>3
    <3> HIDE DEF S
    <3>2. seq \in [1 .. Len(seq) -> S]
      BY <3>1
    <3> QED BY <3>1, <3>2, SeqDef
  <2> QED BY <2>2, <2>3, <2>4
<1>3. Sorted(s.found) \in Seq(S)
  <2> HIDE DEF S
  <2> QED BY <1>2, SortedFacts
<1>4. \A i \in DOMAIN Sorted(s.found) : Sorted(s.found)[i] \in S
  <2> HIDE DEF S
  <2> QED BY <1>3
<1> QED BY <1>4 DEF Documents, ToSet

\* A page leads on along the path, to its end, or to the error the database has
\* in store for every search.
LEMMA PageSteady ==
  ASSUME IndInv, Steadfast, UNCHANGED <<request, remote>>, Page
  PROVE  Steadfast' /\ outcome'.category \notin Refusals
<1>1. PICK answer, after :
        /\ answer = Answer /\ after = Advance(source, job.search, answer)
        /\ memory' = memory \cup ToSet(after.found)
        /\ CASE after.state = "open" ->
                  job' = [job EXCEPT !.search = after] /\ UNCHANGED <<disk, outcome>>
             [] after.state = "done" ->
                  /\ job' = [job EXCEPT !.pc = "archive", !.search = NewSearch,
                                        !.docs = Documents(after)]
                  /\ UNCHANGED <<disk, outcome>>
             [] OTHER -> SearchFails("PERMANENT_FAILED")
  BY DEF Page
<1>2. job.pc = "search" /\ UNCHANGED <<native, batches, structures>>
  BY DEF Page, Step
<1>3. /\ JobShape /\ SearchShape(job.search) /\ remote.listing \in SUBSET Ids /\ FilesOK
      /\ disk["operation"] = None
  BY <1>2 DEF IndInv, ShapesOK, JobShape, CallOK, Opened, Settled, Planned
<1>4. answer = Answered(source, request.req, remote.listing, job.search)
  BY <1>1 DEF Answer, Steadfast, PlansAgree
<1>5. Reached(source, request.req, remote.listing, after)
  <2>1. Goes(source, request.req, remote.listing, job.search, after)
    BY <1>1, <1>4 DEF Goes, Steadfast, SearchesAgree
  <2>2. Reached(source, request.req, remote.listing, job.search)
    BY DEF Steadfast, SearchesAgree
  <2>3. PICK src, req, listing, s : /\ src = source /\ req = request.req
                                    /\ listing = remote.listing /\ s = job.search
    OBVIOUS
  <2>4. Goes(src, req, listing, s, after) /\ Reached(src, req, listing, s)
    BY <2>1, <2>2, <2>3
  <2>5. Reached(src, req, listing, after)
    BY <2>4, ReachedOn
  <2> QED BY <2>3, <2>5
<1>6. SearchShape(after)
  BY <1>3, <1>5, ReachedListed
<1>7. /\ job.pc \notin Read /\ {"search", "archive", "idle"} \cap Judged = {}
      /\ {"search", "archive", "idle"} \cap Read = {}
  BY <1>2 DEF Read, Judged, Told
<1>8. source \in Forgetful => disk["raw_manifest"] = None
  BY <1>3, <1>7 DEF Steadfast, MemoryServes
<1>9. StructuresAgree'
  BY <1>2, StructuresStay DEF Steadfast
<1>10. source' = source /\ job.partial = FALSE
  BY DEF source, Steadfast, ReportsAgree
<1>11. CASE after.state = "open"
  <2>1. job' = [job EXCEPT !.search = after] /\ UNCHANGED <<disk, outcome>>
    BY <1>1, <1>11
  <2>2. /\ job'.pc = "search" /\ job'.plan = job.plan /\ job'.search = after
        /\ job'.partial = FALSE
    BY <1>2, <1>3, <1>10, <2>1 DEF JobShape
  <2>3. PlansAgree'
    BY <1>2, <2>1, <2>2, PlansStay DEF Steadfast
  <2>4. SearchesAgree'
    BY <1>2, <1>5, <1>7, <1>11, <2>1, <2>2, FoundStays
       DEF Steadfast, SearchesAgree, Found, source
  <2>5. ReportsAgree'
    BY <1>7, <2>1, <2>2, ReportsStay DEF Steadfast
  <2>6. MemoryServes'
    BY <1>1, <1>8, <1>10, <2>1, <2>2 DEF MemoryServes
  <2> QED BY <1>2, <1>9, <2>1, <2>3, <2>4, <2>5, <2>6, NotRefused DEF Steadfast
<1>12. CASE after.state = "done"
  <2>1. job' = [job EXCEPT !.pc = "archive", !.search = NewSearch,
                           !.docs = Documents(after)] /\ UNCHANGED <<disk, outcome>>
    BY <1>1, <1>12
  <2>2. /\ job'.pc = "archive" /\ job'.plan = job.plan /\ job'.search = NewSearch
        /\ job'.partial = FALSE /\ job'.docs = Documents(after)
    BY <1>2, <1>3, <1>10, <2>1 DEF JobShape
  <2>3. Found(job'.docs)
    BY <1>5, <1>12, <2>2 DEF Found, Finds
  <2>4. PlansAgree'
    BY <1>2, <2>1, <2>2, PlansStay DEF Steadfast
  <2>5. SearchesAgree'
    BY <1>2, <2>1, <2>2, <2>3, SearchesStay DEF Steadfast
  <2>6. ReportsAgree'
    BY <1>7, <2>1, <2>2, ReportsStay DEF Steadfast
  <2>7. MemoryServes'
    <3>1. ToSet(job'.docs) \subseteq memory'
      BY <1>1, <1>6, <2>2, DocumentsGathered
    <3> QED BY <1>8, <2>1, <2>2, <3>1, MemoryStays DEF Steadfast
  <2> QED BY <1>2, <1>9, <2>1, <2>4, <2>5, <2>6, <2>7, NotRefused DEF Steadfast
<1>13. CASE after.state \notin {"open", "done"}
  <2>1. SearchFails("PERMANENT_FAILED")
    BY <1>1, <1>13
  <2>2. job' = Idle /\ outcome'.category = "INVALID_RESPONSE"
    BY <2>1 DEF SearchFails, Finish, Failure
  <2>3. /\ job'.pc = "idle" /\ job'.plan = None /\ job'.search = NewSearch
        /\ job'.partial = FALSE
    BY <2>2, IdleFacts
  <2>4. /\ \A name \in Artifacts \ {"report", "stage_result"} : disk'[name] = disk[name]
        /\ {"input", "coverage", "capability", "query_plan", "raw_manifest", "origin",
            "audit", "groups", "manifest", "enrichment"}
             \subseteq Artifacts \ {"report", "stage_result"}
    <3>1. disk = [n \in Artifacts |-> disk[n]]
      BY <1>3 DEF FilesOK
    <3>2. {"report", "stage_result"} \subseteq Artifacts
      BY DEF Artifacts
    <3>3. PICK one, two : disk' = [disk EXCEPT !["report"] = one, !["stage_result"] = two]
      BY <2>1 DEF SearchFails
    <3>4. \A name \in Artifacts \ {"report", "stage_result"} : disk'[name] = disk[name]
      BY <3>1, <3>2, <3>3
    <3> QED BY <3>4 DEF Artifacts
  <2>5. Breaks(source, request.req, remote.listing)
    BY <1>5, <1>13 DEF Breaks
  <2>6. PlansAgree'
    BY <1>2, <2>3, <2>4, PlansStay DEF Steadfast
  <2>7. SearchesAgree'
    BY <1>2, <1>7, <2>3, <2>4, SearchesStay DEF Steadfast
  <2>8. ReportsAgree'
    <3>1. ASSUME NEW name \in Agreed PROVE Reported(name)'
      <4>1. CASE name = "report"
        BY <1>10, <2>5, <4>1 DEF Reported
      <4>2. CASE name # "report"
        <5>1. disk'[name] = disk[name]
          BY <2>4, <4>2 DEF Agreed
        <5> QED BY <5>1, ReportedStays DEF Steadfast, ReportsAgree
      <4> QED BY <4>1, <4>2
    <3> QED BY <1>7, <2>3, <3>1 DEF ReportsAgree
  <2>9. MemoryServes'
    BY <1>8, <2>3, <2>4, MemoryStays DEF Steadfast
  <2>10. outcome'.category \notin Refusals
    BY <2>2 DEF Refusals
  <2> QED BY <1>9, <2>6, <2>7, <2>8, <2>9, <2>10 DEF Steadfast
<1> QED BY <1>11, <1>12, <1>13

\* Documents found are listed.
LEMMA FoundListed ==
  ASSUME IndInv, NEW docs, Found(docs)
  PROVE  docs \in Seq(remote.listing) /\ ToSet(docs) \subseteq remote.listing
<1>1. remote.listing \in SUBSET Ids
  BY DEF IndInv, ShapesOK
<1>2. PICK s : /\ Reached(source, request.req, remote.listing, s)
               /\ docs = Documents(s)
  BY DEF Found, Finds
<1>3. docs \in Seq(remote.listing)
  BY <1>1, <1>2, ReachedListed
<1> QED BY <1>3 DEF ToSet

\* Batches are pieces of what every search finds.
LEMMA WriteBatchSteady ==
  ASSUME IndInv, Steadfast, UNCHANGED <<request, remote>>, WriteBatch
  PROVE  Steadfast' /\ outcome'.category \notin Refusals
<1>1. /\ job.pc = "archive" /\ UNCHANGED <<disk, native, structures, memory>>
      /\ \/ /\ job.k <= Len(batches) /\ batches[job.k] # Batch(job.k)
         \/ /\ \/ batches' = batches
               \/ batches' = Append(batches, Batch(job.k)) /\ ~(job.k <= Len(batches))
            /\ job' = [job EXCEPT !.k = job.k + 1] /\ UNCHANGED outcome
  BY DEF WriteBatch, Step, Quiet
<1>2. JobShape /\ CallOK /\ FilesOK
  BY DEF IndInv, ShapesOK
<1>3. /\ job.k \in Nat \ {0} /\ batches \in Seq(Seq(Ids)) /\ Found(job.docs)
      /\ \A i \in 1 .. job.k - 1 : i \in DOMAIN batches
      /\ job.partial = FALSE /\ job.search = NewSearch
      /\ \A i \in DOMAIN batches : \E docs :
           Found(docs) /\ batches[i] = Slice(docs, (i - 1) * ChunkSize, ChunkSize)
  BY <1>1, <1>2 DEF CallOK, JobShape, FilesOK, Steadfast, SearchesAgree, ReportsAgree
<1>4. \A docs : Found(docs) => docs = job.docs
  BY <1>3, OneFind DEF Found
<1>5. ~(job.k <= Len(batches) /\ batches[job.k] # Batch(job.k))
  <2> SUFFICES ASSUME job.k <= Len(batches) PROVE batches[job.k] = Batch(job.k)
    OBVIOUS
  <2>1. job.k \in DOMAIN batches
    BY <1>3
  <2> QED BY <1>3, <1>4, <2>1 DEF Batch
<1>6. /\ \/ batches' = batches
         \/ batches' = Append(batches, Batch(job.k)) /\ ~(job.k <= Len(batches))
      /\ UNCHANGED outcome /\ job'.pc = "archive" /\ job'.plan = job.plan
      /\ job'.search = NewSearch /\ job'.partial = FALSE /\ job'.docs = job.docs
  BY <1>1, <1>2, <1>3, <1>5 DEF JobShape
<1>7. \A i \in DOMAIN batches' : \E docs :
        Found(docs) /\ batches'[i] = Slice(docs, (i - 1) * ChunkSize, ChunkSize)
  <2>1. CASE batches' = Append(batches, Batch(job.k)) /\ ~(job.k <= Len(batches))
    <3>1. job.k = Len(batches) + 1
      <4>1. Len(batches) \in Nat /\ DOMAIN batches = 1 .. Len(batches)
        BY <1>3
      <4>2. job.k > 1 => job.k - 1 \in DOMAIN batches
        BY <1>3
      <4> QED BY <1>3, <2>1, <4>1, <4>2
    <3>2. /\ DOMAIN batches' = DOMAIN batches \cup {job.k}
          /\ batches'[job.k] = Batch(job.k)
          /\ \A i \in DOMAIN batches : batches'[i] = batches[i]
      <4>1. PICK batch : batch = Batch(job.k)
        OBVIOUS
      <4>2. batches' = Append(batches, batch)
        BY <2>1, <4>1
      <4> QED BY <1>3, <3>1, <4>1, <4>2
    <3> QED BY <1>3, <3>2 DEF Batch
  <2> QED BY <1>3, <1>6, <2>1
<1>8. job'.pc \notin Judged /\ job.pc \notin Read /\ disk["operation"] = None
  BY <1>1, <1>2, <1>6 DEF CallOK, Opened, Settled, Planned, Read, Judged, Told
<1>9. PlansAgree'
  BY <1>1, <1>6, PlansStay DEF Steadfast
<1>10. SearchesAgree'
  <2>1. Reached(source, request.req, remote.listing, NewSearch) /\ NewSearch.state = "open"
    BY ReachedOn DEF NewSearch
  <2>2. disk["raw_manifest"] # None => Found(FlattenSeq(disk["raw_manifest"]))
    BY DEF Steadfast, SearchesAgree
  <2> QED BY <1>1, <1>3, <1>6, <1>7, <2>1, <2>2 DEF SearchesAgree, Found, source
<1>11. StructuresAgree'
  BY <1>1, StructuresStay DEF Steadfast
<1>12. ReportsAgree'
  BY <1>1, <1>6, <1>8, ReportsStay DEF Steadfast
<1>13. MemoryServes'
  <2>1. source \in Forgetful => /\ ToSet(job'.docs) \subseteq memory'
                                /\ disk'["raw_manifest"] = None
    BY <1>1, <1>6, <1>8 DEF Steadfast, MemoryServes
  <2> QED BY <1>6, <2>1, MemoryStays DEF Steadfast
<1> QED BY <1>1, <1>6, <1>9, <1>10, <1>11, <1>12, <1>13, NotRefused DEF Steadfast

\* The manifest lists the pieces of what was found.
LEMMA WriteRawManifestSteady ==
  ASSUME IndInv, Steadfast, UNCHANGED <<request, remote>>, WriteRawManifest
  PROVE  Steadfast' /\ outcome'.category \notin Refusals
<1> DEFINE raw == [i \in 1 .. Chunks |-> Batch(i)]
<1>1. /\ job.pc = "archive" /\ Write("raw_manifest", raw)
      /\ job' = [job EXCEPT !.k = 1, !.pc = "documents"]
      /\ UNCHANGED <<native, batches, structures, memory, outcome>>
  BY DEF WriteRawManifest, Step, Quiet
<1>2. JobShape /\ FilesOK
  BY DEF IndInv, ShapesOK
<1>3. job.docs \in Seq(Ids) /\ Found(job.docs) /\ job.partial = FALSE
      /\ job.search = NewSearch
  BY <1>1, <1>2 DEF JobShape, Steadfast, SearchesAgree, ReportsAgree
<1>4. FlattenSeq(raw) = job.docs
  <2>1. raw = Pieces(job.docs)
    BY DEF Pieces, Batch, Chunks
  <2> QED BY <1>3, <2>1, PiecesJoin
<1> HIDE DEF raw
<1>5. /\ disk'["raw_manifest"] = raw
      /\ \A name \in Artifacts \ {"raw_manifest"} : disk'[name] = disk[name]
      /\ {"input", "coverage", "capability", "query_plan"} \cup Agreed
           \subseteq Artifacts \ {"raw_manifest"}
  <2>1. disk = [n \in Artifacts |-> disk[n]]
    BY <1>2 DEF FilesOK
  <2>2. "raw_manifest" \in Artifacts
        /\ {"input", "coverage", "capability", "query_plan"} \cup Agreed
             \subseteq Artifacts \ {"raw_manifest"}
    BY DEF Artifacts, Agreed
  <2> QED BY <1>1, <2>1, <2>2 DEF Write
<1>6. /\ job'.pc = "documents" /\ job'.plan = job.plan /\ job'.search = NewSearch
      /\ job'.partial = FALSE /\ job'.docs = job.docs
  BY <1>1, <1>2, <1>3 DEF JobShape
<1>7. job'.pc \notin Judged /\ job'.pc \in Read
  BY <1>6 DEF Read, Judged, Told
<1>8. PlansAgree'
  BY <1>1, <1>5, <1>6, PlansStay DEF Steadfast
<1>9. SearchesAgree'
  <2>1. Reached(source, request.req, remote.listing, NewSearch) /\ NewSearch.state = "open"
    BY ReachedOn DEF NewSearch
  <2>2. \A i \in DOMAIN batches : \E docs :
           Found(docs) /\ batches[i] = Slice(docs, (i - 1) * ChunkSize, ChunkSize)
    BY DEF Steadfast, SearchesAgree
  <2>3. Found(FlattenSeq(disk'["raw_manifest"]))
    BY <1>3, <1>4, <1>5
  <2> QED BY <1>1, <1>3, <1>6, <2>1, <2>2, <2>3 DEF SearchesAgree, Found, source
<1>10. StructuresAgree'
  BY <1>1, StructuresStay DEF Steadfast
<1>11. ReportsAgree'
  BY <1>5, <1>6, <1>7, ReportsStay DEF Steadfast
<1>12. MemoryServes'
  <2>1. source \in Forgetful => ToSet(job'.docs) \subseteq memory'
    BY <1>1, <1>6 DEF Steadfast, MemoryServes
  <2> QED BY <1>6, <1>7, <2>1, MemoryStays DEF Steadfast
<1> QED BY <1>1, <1>8, <1>9, <1>10, <1>11, <1>12, NotRefused DEF Steadfast

\* A call that goes on reading its documents.
LEMMA ReadSteady ==
  ASSUME IndInv, Steadfast, job.pc \in Read, job'.pc \in Read,
         UNCHANGED <<request, remote, disk, native, batches, memory>>,
         StructuresAgree', job'.plan = job.plan, job'.search = job.search,
         job'.partial = job.partial, job'.docs = job.docs,
         job'.pc = "documents" => job.pc = "documents",
         job'.pc \in Judged => job'.resolved = ResolvedOf(source, job'.docs)
  PROVE  Steadfast'
<1>1. /\ {"snapshot", "search", "archive"} \cap Read = {}
  BY DEF Read, Judged, Told
<1>2. /\ job'.search = NewSearch /\ job'.partial = FALSE /\ Found(job'.docs)
  BY <1>1 DEF Steadfast, SearchesAgree, ReportsAgree
<1>3. PlansAgree'
  BY <1>1, PlansStay DEF Steadfast
<1>4. SearchesAgree'
  BY <1>2, SearchesStay DEF Steadfast
<1>5. ReportsAgree'
  BY <1>2, ReportsStay DEF Steadfast
<1>6. MemoryServes'
  <2>1. source \in Forgetful /\ job'.pc = "documents" => ToSet(job'.docs) \subseteq memory'
    BY DEF Steadfast, MemoryServes
  <2> QED BY <1>1, <1>2, <2>1, MemoryStays DEF Steadfast
<1> QED BY <1>3, <1>4, <1>5, <1>6 DEF Steadfast

\* A structure on file in another form was sent in two.
LEMMA WriteStructureSteady ==
  ASSUME IndInv, Steadfast, UNCHANGED <<request, remote>>, WriteStructure, ~Caused
  PROVE  Steadfast' /\ outcome'.category \notin Refusals
<1>1. /\ job.pc = "documents" /\ job.k <= Len(Unique)
      /\ UNCHANGED <<disk, native, batches, memory>>
  BY DEF WriteStructure, Step, Quiet
<1>2. JobShape /\ remote.listing \in SUBSET Ids
  BY DEF IndInv, ShapesOK
<1>3. Found(job.docs) /\ job.k \in Nat \ {0}
  BY <1>1, <1>2 DEF Steadfast, SearchesAgree, JobShape, Read
<1>4. PICK id : id = Unique[job.k]
  OBVIOUS
<1>5. id \in remote.listing /\ id \in Ids
  <2>1. DocIds \in SUBSET Ids /\ DocIds \subseteq remote.listing
    BY <1>2, <1>3, DocsAreIds, FoundListed DEF DocIds
  <2>2. PICK ids : ids = DocIds
    OBVIOUS
  <2>3. Ascending(ids) \in Seq(ids) /\ Unique = Ascending(ids)
    BY <2>1, <2>2, RowsInOrder DEF Unique
  <2>4. PICK seq : seq = Ascending(ids)
    OBVIOUS
  <2>5. job.k \in 1 .. Len(seq) /\ seq \in Seq(ids)
    BY <1>1, <1>3, <2>3, <2>4
  <2>6. seq[job.k] \in ids
    BY <2>5, ElementOfSeq
  <2> QED BY <1>4, <2>1, <2>2, <2>3, <2>4, <2>6
<1>6. Entry[id].structure # None => structures[Entry[id].structure] \in {None, Entry[id].raw}
  <2> SUFFICES ASSUME Entry[id].structure # None,
                      structures[Entry[id].structure] # None
               PROVE  structures[Entry[id].structure] = Entry[id].raw
    OBVIOUS
  <2>1. Entry[id].structure \in Structures
    BY <1>5, EvaluationAssumption
  <2>2. PICK twin \in remote.listing : /\ Entry[twin].structure = Entry[id].structure
                                       /\ Entry[twin].raw = structures[Entry[id].structure]
    BY <2>1 DEF Steadfast, StructuresAgree
  <2>3. twin \in Ids /\ {twin, id} \subseteq remote.listing
    BY <1>2, <1>5, <2>2
  <2> QED BY <1>5, <2>2, <2>3 DEF Caused
<1>7. /\ structures' = [s \in Structures |->
                          IF s = Entry[id].structure THEN Entry[id].raw ELSE structures[s]]
      /\ job' = [job EXCEPT !.k = job.k + 1] /\ UNCHANGED outcome
  BY <1>4, <1>6 DEF WriteStructure
<1>8. StructuresAgree'
  <2> SUFFICES ASSUME NEW s \in Structures, structures'[s] # None
               PROVE  \E other \in remote'.listing :
                        Entry[other].structure = s /\ Entry[other].raw = structures'[s]
    BY DEF StructuresAgree
  <2>1. CASE s = Entry[id].structure
    BY <1>5, <1>7, <2>1
  <2>2. CASE s # Entry[id].structure
    BY <1>7, <2>2 DEF Steadfast, StructuresAgree
  <2> QED BY <2>1, <2>2
<1>9. /\ job'.pc = "documents" /\ job'.plan = job.plan /\ job'.search = job.search
      /\ job'.partial = job.partial /\ job'.docs = job.docs
  BY <1>1, <1>2, <1>7 DEF JobShape
<1>10. "documents" \in Read /\ "documents" \notin Judged
  BY DEF Read, Judged, Told
<1>11. Steadfast'
  BY <1>1, <1>8, <1>9, <1>10, ReadSteady
<1> QED BY <1>1, <1>7, <1>11, NotRefused

\* Origins are resolved for all the documents, or for none.
LEMMA ResolveSteady ==
  ASSUME IndInv, Steadfast, UNCHANGED <<request, remote>>, Resolve, ~Troubled("failed")
  PROVE  Steadfast' /\ outcome'.category \notin Refusals
<1>1. PICK answered \in BOOLEAN :
        /\ job.pc = "documents" /\ UNCHANGED <<disk, native, batches, structures, memory, outcome>>
        /\ answered \/ source # "materials_project"
        /\ job' = [job EXCEPT !.pc = "evidence", !.k = 1,
                     !.resolved = ResolvedBy(answered),
                     !.published = PublishedOf(source, request.req, DocIds)]
  BY DEF Resolve, Step, store
<1>2. JobShape /\ source \in Sources
  BY RunAssumption DEF IndInv, ShapesOK, source
<1>3. UsableDocs = UsableOf(job.docs)
  BY DEF UsableDocs, UsableOf, DocIds
<1>4. ResolvedBy(answered) = ResolvedOf(source, job.docs)
  <2>1. source \in Forgetful => UsableDocs \cap memory = UsableDocs
    <3>1. source \in Forgetful => DocIds \subseteq memory
      BY <1>1 DEF Steadfast, MemoryServes, DocIds
    <3> QED BY <3>1 DEF UsableDocs
  <2>2. CASE source = "nims_supercon"
    BY <2>2 DEF ResolvedBy, ResolvedOf
  <2>3. CASE source \in Forgetful
    BY <1>3, <2>1, <2>3 DEF ResolvedBy, ResolvedOf, Forgetful
  <2>4. CASE source \in {"mc3d", "c2db", "materials_project"}
    BY <1>1, <1>3, <2>4 DEF ResolvedBy, ResolvedOf
  <2> QED BY <1>2, <2>2, <2>3, <2>4 DEF Sources, Forgetful
<1>5. /\ job'.pc = "evidence" /\ job'.plan = job.plan /\ job'.search = job.search
      /\ job'.partial = job.partial /\ job'.docs = job.docs
      /\ job'.resolved = ResolvedOf(source, job'.docs)
  BY <1>1, <1>2, <1>4 DEF JobShape
<1>6. {"documents", "evidence"} \subseteq Read
  BY DEF Read, Judged
<1>7. StructuresAgree'
  BY <1>1, StructuresStay DEF Steadfast
<1>8. Steadfast'
  BY <1>1, <1>5, <1>6, <1>7, ReadSteady
<1> QED BY <1>1, <1>8, NotRefused

(***************************************************************************)
(* The reports and the operation.                                          *)
(***************************************************************************)

\* What the call would write is what is due.
LEMMA ViewIsDue ==
  ASSUME job.resolved = ResolvedOf(source, job.docs), job.partial = FALSE,
         job.published = PublishedOf(source, request.req, DocIds)
  PROVE  LET due == Due(source, request.req, job.docs) IN
           /\ job.resolved = due.origin /\ Audit = due.audit
           /\ ExactDuplicates(UsableDocs) = due.groups
           /\ [audit |-> Audit, published |-> job.published] = due.manifest
           /\ due.enrichment = FALSE /\ Report = due.report
<1>1. DocIds = ToSet(job.docs) /\ UsableDocs = UsableOf(job.docs)
  BY DEF DocIds, UsableDocs, UsableOf
<1>2. Audit = AuditOf(source, job.docs)
  BY <1>1 DEF Audit, AuditOf
<1>3. RunStatus = StatusOf(source, job.docs)
  BY <1>1 DEF RunStatus, StatusOf, Truncated, Unresolved
<1>4. Report = [status |-> StatusOf(source, job.docs), raw |-> Len(job.docs),
                audit |-> AuditOf(source, job.docs),
                published |-> PublishedOf(source, request.req, ToSet(job.docs))]
  BY <1>1, <1>2, <1>3 DEF Report
<1> QED BY <1>1, <1>2, <1>4 DEF Due

\* What is due does not conflict with what is on file.
LEMMA DueAgrees ==
  ASSUME NEW name, Reported(name), NEW docs, Found(docs)
  PROVE  ~Conflicts(name, Due(source, request.req, docs)[name])
<1>1. (\A other : Found(other) => other = docs)
      /\ ~Breaks(source, request.req, remote.listing)
  BY OneFind DEF Found
<1> QED BY <1>1 DEF Reported, Conflicts

\* One report written as it is due.
LEMMA ReportSteady ==
  ASSUME IndInv, Steadfast, job.pc \in Judged, job'.pc \in Judged,
         UNCHANGED <<request, remote, native, batches, structures, memory>>,
         NEW name \in Agreed \cup {"stage_result"}, NEW content, Write(name, content),
         name \in Agreed => content = Due(source, request.req, job.docs)[name],
         job'.plan = job.plan, job'.search = job.search, job'.partial = FALSE,
         job'.docs = job.docs, job'.resolved = job.resolved
  PROVE  Steadfast'
<1>1. /\ {"snapshot", "search", "archive", "documents"} \cap Judged = {}
      /\ job.pc \in Read /\ job'.pc \in Read
  BY DEF Read, Judged, Told
<1>2. /\ job'.search = NewSearch /\ Found(job.docs)
      /\ job.resolved = ResolvedOf(source, job.docs)
  BY <1>1 DEF Steadfast, SearchesAgree, ReportsAgree
<1>3. /\ disk'[name] = content
      /\ \A other \in Artifacts \ {name} : disk'[other] = disk[other]
      /\ {"input", "coverage", "capability", "query_plan", "raw_manifest"}
           \subseteq Artifacts \ {name}
      /\ Agreed \subseteq Artifacts
  <2>1. disk = [n \in Artifacts |-> disk[n]] /\ name \in Artifacts
    BY DEF IndInv, ShapesOK, FilesOK, Artifacts, Agreed
  <2>2. {"input", "coverage", "capability", "query_plan", "raw_manifest"}
           \subseteq Artifacts \ {name} /\ Agreed \subseteq Artifacts
    BY DEF Artifacts, Agreed
  <2> QED BY <2>1, <2>2 DEF Write
<1>4. PlansAgree'
  BY <1>1, <1>3, PlansStay DEF Steadfast
<1>5. SearchesAgree'
  BY <1>2, <1>3, SearchesStay DEF Steadfast
<1>6. StructuresAgree'
  BY StructuresStay DEF Steadfast
<1>7. ReportsAgree'
  <2>1. ASSUME NEW other \in Agreed PROVE Reported(other)'
    <3>1. CASE other = name
      <4>1. disk'[other] = Due(source, request.req, job.docs)[other]
        BY <1>3, <3>1
      <4> QED BY <1>2, <4>1 DEF Reported, Found, source
    <3>2. CASE other # name
      BY <1>3, <3>2, ReportedStays DEF Steadfast, ReportsAgree
    <3> QED BY <3>1, <3>2
  <2>2. source' = source
    BY DEF source
  <2> QED BY <1>2, <2>1, <2>2 DEF ReportsAgree
<1>8. MemoryServes'
  BY <1>1, <1>2, MemoryStays DEF Steadfast
<1> QED BY <1>4, <1>5, <1>6, <1>7, <1>8 DEF Steadfast

\* With the verdicts in hand.
LEMMA JudgedFacts ==
  ASSUME IndInv, Steadfast, job.pc \in Judged
  PROVE  LET due == Due(source, request.req, job.docs) IN
           /\ JobShape /\ FilesOK /\ Found(job.docs) /\ job.partial = FALSE
           /\ job.search = NewSearch
           /\ \A name \in Agreed : ~Conflicts(name, due[name])
           /\ job.resolved = due.origin /\ Audit = due.audit
           /\ ExactDuplicates(UsableDocs) = due.groups
           /\ [audit |-> Audit, published |-> job.published] = due.manifest
           /\ due.enrichment = FALSE /\ Report = due.report
<1>1. JobShape /\ FilesOK /\ CallOK
  BY DEF IndInv, ShapesOK
<1>2. /\ Found(job.docs) /\ job.partial = FALSE /\ job.search = NewSearch
      /\ job.resolved = ResolvedOf(source, job.docs)
      /\ \A name \in Agreed : Reported(name)
  BY DEF Steadfast, SearchesAgree, ReportsAgree, Read, Judged, Told
<1>3. job.published = PublishedOf(source, request.req, DocIds)
  BY <1>1 DEF CallOK
<1>4. \A name \in Agreed : ~Conflicts(name, Due(source, request.req, job.docs)[name])
  BY <1>2, DueAgrees
<1>5. LET due == Due(source, request.req, job.docs) IN
           /\ job.resolved = due.origin /\ Audit = due.audit
           /\ ExactDuplicates(UsableDocs) = due.groups
           /\ [audit |-> Audit, published |-> job.published] = due.manifest
           /\ due.enrichment = FALSE /\ Report = due.report
  BY <1>2, <1>3, ViewIsDue
<1> QED BY <1>1, <1>2, <1>4, <1>5

\* Origins, audit, groups and manifest on file are those due.
LEMMA WriteEvidenceSteady ==
  ASSUME IndInv, Steadfast, UNCHANGED <<request, remote>>, WriteEvidence
  PROVE  Steadfast' /\ outcome'.category \notin Refusals
<1> DEFINE next == IF source = "materials_project" THEN "enrich" ELSE "report"
<1>1. job.pc = "evidence" /\ job.pc \in Judged /\ JobShape /\ CallOK
  BY DEF WriteEvidence, WriteNext, Step, IndInv, ShapesOK, Judged
<1>2. job.k \in 1 .. 4
  BY <1>1 DEF CallOK, JobShape
<1>3. PICK due : /\ due = Due(source, request.req, job.docs) /\ job.partial = FALSE
                 /\ \A name \in Agreed : ~Conflicts(name, due[name])
                 /\ job.resolved = due.origin /\ Audit = due.audit
                 /\ ExactDuplicates(UsableDocs) = due.groups
                 /\ [audit |-> Audit, published |-> job.published] = due.manifest
  BY <1>1, JudgedFacts
<1>4. /\ Evidence[1] = <<"origin", due["origin"]>> /\ Evidence[2] = <<"audit", due["audit"]>>
      /\ Evidence[3] = <<"groups", due["groups"]>>
      /\ Evidence[4] = <<"manifest", due["manifest"]>>
  BY <1>3 DEF Evidence
<1>5. PICK name : name \in Agreed /\ Evidence[job.k] = <<name, due[name]>>
  <2>1. {"origin", "audit", "groups", "manifest"} \subseteq Agreed
    BY DEF Agreed
  <2>2. CASE job.k = 1
    BY <1>4, <2>1, <2>2
  <2>3. CASE job.k = 2
    BY <1>4, <2>1, <2>3
  <2>4. CASE job.k = 3
    BY <1>4, <2>1, <2>4
  <2>5. CASE job.k = 4
    BY <1>4, <2>1, <2>5
  <2> QED BY <1>2, <2>2, <2>3, <2>4, <2>5
<1>6. PICK content : content = due[name]
  OBVIOUS
<1>7. /\ UNCHANGED <<native, batches, structures, memory>>
      /\ Write(name, content) /\ UNCHANGED outcome
      /\ job'.plan = job.plan /\ job'.search = job.search
      /\ job'.docs = job.docs /\ job'.resolved = job.resolved
      /\ job'.partial = job.partial /\ job'.pc \in {"evidence", next}
  <2>1. Evidence[job.k] = <<name, content>> /\ ~Conflicts(name, content)
    BY <1>3, <1>5, <1>6
  <2> QED BY <2>1, WriteNextMeans DEF WriteEvidence
<1>8. job'.pc \in Judged
  BY <1>7 DEF Judged, Told
<1>9. Steadfast'
  BY <1>1, <1>3, <1>5, <1>6, <1>7, <1>8, ReportSteady
<1> QED BY <1>1, <1>7, <1>9, NotRefused

\* Nothing is missing from the enrichment without a failed request.
LEMMA EnrichSteady ==
  ASSUME IndInv, Steadfast, UNCHANGED <<request, remote>>, Enrich, ~Troubled("failed")
  PROVE  Steadfast' /\ outcome'.category \notin Refusals
<1>1. /\ job.pc = "enrich" /\ UNCHANGED <<native, batches, structures, memory>>
      /\ IF Conflicts("enrichment", FALSE) THEN Refuse /\ UNCHANGED disk
         ELSE /\ Write("enrichment", FALSE)
              /\ job' = [job EXCEPT !.pc = "report", !.partial = FALSE]
              /\ UNCHANGED outcome
  BY DEF Enrich, Step
<1>2. job.pc \in Judged /\ "report" \in Judged /\ "enrichment" \in Agreed
  BY <1>1 DEF Judged, Told, Agreed
<1>3. PICK due : /\ due = Due(source, request.req, job.docs) /\ due["enrichment"] = FALSE
                 /\ \A name \in Agreed : ~Conflicts(name, due[name])
                 /\ JobShape
  BY <1>2, JudgedFacts
<1>4. /\ Write("enrichment", FALSE) /\ UNCHANGED outcome
      /\ job' = [job EXCEPT !.pc = "report", !.partial = FALSE]
  <2>1. ~Conflicts("enrichment", due["enrichment"])
    BY <1>2, <1>3
  <2> QED BY <1>1, <1>3, <2>1
<1>5. /\ job'.pc = "report" /\ job'.plan = job.plan /\ job'.search = job.search
      /\ job'.docs = job.docs /\ job'.resolved = job.resolved /\ job'.partial = FALSE
  BY <1>3, <1>4 DEF JobShape
<1>6. Steadfast'
  BY <1>1, <1>2, <1>3, <1>4, <1>5, ReportSteady
<1> QED BY <1>1, <1>4, <1>6, NotRefused

\* The report on file is the one due: one left by a failed search would have been
\* the end of this search too.
LEMMA WriteReportSteady ==
  ASSUME IndInv, Steadfast, UNCHANGED <<request, remote>>, WriteReport
  PROVE  Steadfast' /\ outcome'.category \notin Refusals
<1>1. job.pc = "report" /\ job.pc \in Judged /\ CallOK
  BY DEF WriteReport, WriteNext, Step, IndInv, ShapesOK, Judged, Told
<1>2. PICK due : /\ due = Due(source, request.req, job.docs) /\ job.partial = FALSE
                 /\ \A name \in Agreed : ~Conflicts(name, due[name])
                 /\ Report = due["report"]
  BY <1>1, JudgedFacts
<1>3. PICK ws, content : ws = << <<"report", Report>> >> /\ content = Report
  OBVIOUS
<1>4. /\ WriteNext("report", ws, "result") /\ ws[job.k] = <<"report", content>>
      /\ "report" \in Agreed /\ ~Conflicts("report", content)
  <2>1. job.k = 1
    BY <1>1 DEF CallOK
  <2>2. "report" \in Agreed
    BY DEF Agreed
  <2> QED BY <1>2, <1>3, <2>1, <2>2 DEF WriteReport
<1>5. /\ UNCHANGED <<native, batches, structures, memory>>
      /\ Write("report", content) /\ UNCHANGED outcome
      /\ job'.plan = job.plan /\ job'.search = job.search
      /\ job'.docs = job.docs /\ job'.resolved = job.resolved
      /\ job'.partial = job.partial /\ job'.pc \in {"report", "result"}
  BY <1>4, WriteNextMeans
<1>6. job'.pc \in Judged
  BY <1>5 DEF Judged, Told
<1>7. Steadfast'
  BY <1>1, <1>2, <1>3, <1>4, <1>5, <1>6, ReportSteady
<1> QED BY <1>1, <1>5, <1>7, NotRefused

\* The result is written over, so nothing is compared.
LEMMA WriteResultSteady ==
  ASSUME IndInv, Steadfast, UNCHANGED <<request, remote>>, WriteResult
  PROVE  Steadfast' /\ outcome'.category \notin Refusals
<1>1. /\ job.pc = "result" /\ Write("stage_result", RunResult)
      /\ job' = [job EXCEPT !.pc = "complete"]
      /\ UNCHANGED <<native, batches, structures, memory, outcome>>
  BY DEF WriteResult, Step, Quiet
<1>2. /\ job.pc \in Judged /\ "complete" \in Judged
      /\ "stage_result" \notin Agreed
  BY <1>1 DEF Judged, Told, Agreed
<1>3. JobShape /\ job.partial = FALSE
  BY <1>2, JudgedFacts
<1>4. /\ job'.pc = "complete" /\ job'.plan = job.plan /\ job'.search = job.search
      /\ job'.docs = job.docs /\ job'.resolved = job.resolved /\ job'.partial = FALSE
  BY <1>1, <1>3 DEF JobShape
<1>5. Steadfast'
  BY <1>1, <1>2, <1>4, ReportSteady
<1> QED BY <1>1, <1>5, NotRefused

\* The operation is written last.
LEMMA CompleteSteady ==
  ASSUME IndInv, Steadfast, UNCHANGED <<request, remote>>, Complete
  PROVE  Steadfast' /\ outcome'.category \notin Refusals
<1> DEFINE record == [result |-> RunResult, registered |-> Registered]
<1>1. /\ Write("operation", record) /\ job' = Idle /\ outcome'.category = None
      /\ outcome'.status = RunStatus
      /\ UNCHANGED <<native, batches, structures, memory>>
  BY DEF Complete, Step, Quiet, Finish, RunResult, Result
<1> HIDE DEF record
<1>2. disk'["operation"] # None
  <2>1. AnswersAreRecorded'
    BY CompleteKeeps DEF IndInv
  <2>2. outcome'.status \in Usable
    BY <1>1 DEF RunStatus, Usable
  <2> QED BY <2>1, <2>2 DEF AnswersAreRecorded
<1>3. /\ \A name \in Artifacts \ {"operation"} : disk'[name] = disk[name]
      /\ {"input", "coverage", "capability", "query_plan", "raw_manifest"} \cup Agreed
           \subseteq Artifacts \ {"operation"}
  <2>1. disk = [n \in Artifacts |-> disk[n]] /\ "operation" \in Artifacts
    BY DEF IndInv, ShapesOK, FilesOK, Artifacts
  <2>2. {"input", "coverage", "capability", "query_plan", "raw_manifest"} \cup Agreed
           \subseteq Artifacts \ {"operation"}
    BY DEF Artifacts, Agreed
  <2> QED BY <1>1, <2>1, <2>2 DEF Write
<1>4. /\ job'.pc = "idle" /\ job'.plan = None /\ job'.search = NewSearch
      /\ job'.partial = FALSE
      /\ job'.pc \notin {"archive", "documents", "snapshot"} \cup Read \cup Judged
  BY <1>1, IdleFacts DEF Read, Judged, Told
<1>5. PlansAgree'
  BY <1>1, <1>3, <1>4, PlansStay DEF Steadfast
<1>6. SearchesAgree'
  BY <1>1, <1>3, <1>4, SearchesStay DEF Steadfast
<1>7. StructuresAgree'
  BY <1>1, StructuresStay DEF Steadfast
<1>8. ReportsAgree'
  BY <1>3, <1>4, ReportsStay DEF Steadfast
<1>9. MemoryServes'
  BY <1>2, <1>4, MemoryStays DEF Steadfast
<1> QED BY <1>1, <1>5, <1>6, <1>7, <1>8, <1>9, NotRefused DEF Steadfast

\* In the beginning everything agrees.
LEMMA SteadyInit ==
  ASSUME Init PROVE SteadyInv
<1>1. /\ job = Idle /\ outcome = NoOutcome /\ disk = [name \in Artifacts |-> None]
      /\ native = [n \in 1 .. MaxCalls |-> None] /\ batches = <<>>
      /\ structures = [s \in Structures |-> None]
      /\ trouble = [kind \in Kinds |-> 0]
      /\ remote \in [listing : Listings, version : {0}, stuck : {FALSE}]
  BY DEF Init
<1>2. remote.version = 0 /\ remote.stuck = FALSE
  <2>1. PICK l \in Listings : remote = [listing |-> l, version |-> 0, stuck |-> FALSE]
    BY <1>1
  <2> QED BY <2>1
<1>3. \A name \in Artifacts : disk[name] = None
  BY <1>1
<1>4. {"input", "coverage", "capability", "query_plan", "raw_manifest"} \cup Agreed
        \subseteq Artifacts
  BY DEF Artifacts, Agreed
<1>5. job.pc = "idle" /\ job.plan = None /\ job.search = NewSearch /\ job.partial = FALSE
      /\ job.pc \notin {"archive", "documents", "snapshot"} \cup Read \cup Judged
  BY <1>1, IdleFacts DEF Read, Judged, Told
<1>6. PlansAgree
  BY <1>1, <1>2, <1>3, <1>4, <1>5 DEF PlansAgree
<1>7. SearchesAgree
  <2>1. Reached(source, request.req, remote.listing, NewSearch) /\ NewSearch.state = "open"
    BY ReachedOn DEF NewSearch
  <2>2. DOMAIN batches = {}
    BY <1>1
  <2> QED BY <1>3, <1>4, <1>5, <2>1, <2>2 DEF SearchesAgree
<1>8. StructuresAgree
  BY <1>1 DEF StructuresAgree
<1>9. ReportsAgree
  BY <1>3, <1>4, <1>5 DEF ReportsAgree, Reported
<1>10. MemoryServes
  <2>1. ToSet(NewSearch.found) = {}
    BY DEF NewSearch, ToSet
  <2> QED BY <1>3, <1>4, <1>5, <2>1 DEF MemoryServes
<1>11. outcome.category \notin Refusals
  BY <1>1, NotRefused DEF NoOutcome
<1> QED BY <1>1, <1>6, <1>7, <1>8, <1>9, <1>10, <1>11 DEF SteadyInv, Steadfast

\* Either there is a cause, or the step leaves everything in agreement.
LEMMA SteadyKeeps ==
  ASSUME IndInv, SteadyInv, [Next]_vars PROVE SteadyInv'
<1>1. trouble' \in [Kinds -> Nat]
  BY CauseStays DEF SteadyInv
<1>2. CASE ~Caused'
  <2>1. /\ UNCHANGED <<request, remote>> /\ ~Troubled("failed") /\ ~Troubled("remote")
        /\ (Troubled("crashed") => source \notin Forgetful) /\ ~Caused
    BY <1>2, Undisturbed DEF SteadyInv
  <2>2. Steadfast /\ outcome.category \notin Refusals
    BY <2>1 DEF SteadyInv
  <2>3. Steadfast' /\ outcome'.category \notin Refusals
    <3>1. CASE Invoke BY <2>1, <2>2, <3>1, InvokeSteady
    <3>2. CASE Crash
      <4>1. source \notin Forgetful
        BY <2>1, <3>2 DEF Crash
      <4> QED BY <2>1, <2>2, <3>2, <4>1, CrashSteady
    <3>3. CASE RejectInput BY <2>1, <2>2, <3>3, RejectInputSteady
    <3>4. CASE ReuseNativePlan BY <2>1, <2>2, <3>4, ReuseNativePlanSteady
    <3>5. CASE MakeNativePlan BY <2>1, <2>2, <3>5, MakeNativePlanSteady
    <3>6. CASE Open BY <2>1, <2>2, <3>6, OpenSteady
    <3>7. CASE Metadata BY <2>1, <2>2, <3>7, MetadataSteady
    <3>8. ~MetadataFails BY <2>1 DEF MetadataFails
    <3>9. CASE WriteSnapshot BY <2>1, <2>2, <3>9, WriteSnapshotSteady
    <3>10. CASE Collect BY <2>1, <2>2, <3>10, CollectSteady
    <3>11. CASE Page BY <2>1, <2>2, <3>11, PageSteady
    <3>12. ~PageFails BY <2>1 DEF PageFails
    <3>13. CASE WriteBatch BY <2>1, <2>2, <3>13, WriteBatchSteady
    <3>14. CASE WriteRawManifest BY <2>1, <2>2, <3>14, WriteRawManifestSteady
    <3>15. CASE WriteStructure BY <2>1, <2>2, <3>15, WriteStructureSteady
    <3>16. CASE Resolve BY <2>1, <2>2, <3>16, ResolveSteady
    <3>17. CASE WriteEvidence BY <2>1, <2>2, <3>17, WriteEvidenceSteady
    <3>18. CASE Enrich BY <2>1, <2>2, <3>18, EnrichSteady
    <3>19. CASE WriteReport BY <2>1, <2>2, <3>19, WriteReportSteady
    <3>20. CASE WriteResult BY <2>1, <2>2, <3>20, WriteResultSteady
    <3>21. CASE Complete BY <2>1, <2>2, <3>21, CompleteSteady
    <3>22. ~RemoteChanges BY <2>1 DEF RemoteChanges
    <3>23. CASE UNCHANGED vars BY <2>2, <3>23, StutteringSteady
    <3> QED
      BY <3>1, <3>2, <3>3, <3>4, <3>5, <3>6, <3>7, <3>8, <3>9, <3>10, <3>11, <3>12,
         <3>13, <3>14, <3>15, <3>16, <3>17, <3>18, <3>19, <3>20, <3>21, <3>22, <3>23
         DEF Next, Work
  <2> QED BY <1>1, <2>3 DEF SteadyInv
<1> QED BY <1>1, <1>2 DEF SteadyInv

\* run(), save_immutable: a run refuses its own artifacts, or fails for want of an
\* answer, only after the database changed, a request failed or the Requirement
\* was edited, when one structure is listed in two forms, or when a crash lost
\* the origins NOMAD or TQC had sent.
THEOREM RefusalsCaused == Spec => []RefusalHasACause
<1>1. Init => SteadyInv
  BY SteadyInit
<1>2. IndInv /\ SteadyInv /\ [Next]_vars => SteadyInv'
  BY SteadyKeeps
<1>3. SteadyInv => RefusalHasACause
  BY DEF SteadyInv, RefusalHasACause
<1> QED BY <1>1, <1>2, <1>3, IndInvAlways, PTL DEF Spec

(***************************************************************************)
(* What a sequence holds.                                                  *)
(***************************************************************************)

\* The sorted entries of a sequence of numbers are all of its entries.
LEMMA SortedHolds ==
  ASSUME NEW S \in SUBSET Nat, NEW seq \in Seq(S)
  PROVE  ToSet(seq) \subseteq ToSet(Sorted(seq)) /\ Len(Sorted(seq)) = Len(seq)
<1> DEFINE D == DOMAIN seq
           R == {pair \in D \X D : \/ seq[pair[1]] < seq[pair[2]]
                                   \/ seq[pair[1]] = seq[pair[2]] /\ pair[1] < pair[2]}
           Until(i) == {j \in D : \/ seq[j] < seq[i]
                                  \/ seq[j] = seq[i] /\ j <= i}
<1>1. Len(seq) \in Nat /\ D = 1 .. Len(seq)
  OBVIOUS
<1>2. ASSUME NEW i \in D
      PROVE  i \in Nat /\ seq[i] \in Nat
  <2>1. i \in 1 .. Len(seq) /\ i \in Nat
    BY <1>1
  <2>2. seq[i] \in S
    BY <2>1, ElementOfSeq
  <2> QED BY <2>1, <2>2
<1>3. IsFiniteSet(D) /\ Cardinality(D) = Len(seq)
  <2>1. IsFiniteSet(1 .. Len(seq)) /\ Cardinality(1 .. Len(seq)) = Len(seq)
    BY <1>1, IntervalFacts
  <2> QED BY <1>1, <2>1
<1>4. /\ \A x \in D : <<x, x>> \notin R
      /\ \A x, y \in D : x = y \/ <<x, y>> \in R \/ <<y, x>> \in R
      /\ \A x, y, z \in D : <<x, y>> \in R /\ <<y, z>> \in R => <<x, z>> \in R
  <2> HIDE DEF D
  <2> QED BY <1>2
<1>5. \A x \in D : UpToIn(D, R, x) = Until(x)
  <2>1. \A x, y \in D : (y = x \/ <<y, x>> \in R) <=> y \in Until(x)
    <3> HIDE DEF D
    <3> QED BY <1>2
  <2>2. \A x \in D : Until(x) \subseteq D
    OBVIOUS
  <2> HIDE DEF R, D, Until
  <2> QED BY <2>1, <2>2 DEF UpToIn
<1>6. ASSUME NEW i \in D PROVE seq[i] \in ToSet(Sorted(seq))
  <2> DEFINE n == Cardinality(Until(i))
             Is(x) == Cardinality(Until(x)) = n
             j == CHOOSE x \in D : Is(x)
  <2>1. /\ n \in 1 .. Len(seq)
        /\ \A x, y \in D : <<x, y>> \in R => Cardinality(Until(x)) < Cardinality(Until(y))
        /\ \A x \in D : Cardinality(Until(x)) \in Nat
    <3>1. /\ \A x \in D : Cardinality(UpToIn(D, R, x)) \in 1 .. Cardinality(D)
          /\ \A x, y \in D : <<x, y>> \in R =>
               Cardinality(UpToIn(D, R, x)) < Cardinality(UpToIn(D, R, y))
      <4> HIDE DEF D, R
      <4> QED BY <1>3, <1>4, PlaceTaken
    <3> HIDE DEF D, R, Until
    <3> QED BY <1>1, <1>3, <1>5, <3>1
  <2>2. j \in D /\ Is(j)
    <3> HIDE DEF D, Until
    <3> QED OBVIOUS
  <2> HIDE DEF j
  <2>3. j = i
    <3>1. Cardinality(Until(j)) = Cardinality(Until(i)) /\ j \in D /\ i \in D
      BY <2>2
    <3> HIDE DEF D, R, Until, Is, n
    <3>2. /\ <<j, i>> \in R => Cardinality(Until(j)) < Cardinality(Until(i))
          /\ <<i, j>> \in R => Cardinality(Until(i)) < Cardinality(Until(j))
          /\ Cardinality(Until(i)) \in Nat
      BY <2>1, <3>1
    <3>3. <<j, i>> \notin R /\ <<i, j>> \notin R
      BY <3>1, <3>2
    <3> QED BY <1>4, <3>1, <3>3
  <2>4. n \in DOMAIN seq /\ DOMAIN Sorted(seq) = DOMAIN seq /\ Sorted(seq)[n] = seq[j]
    <3>1. n \in D /\ n \in DOMAIN seq
      BY <1>1, <2>1
    <3> HIDE DEF n
    <3> QED BY <3>1 DEF Sorted, j, n
  <2> HIDE DEF n
  <2> QED BY <2>3, <2>4 DEF ToSet
<1> QED BY <1>6, SortedFacts DEF ToSet

\* Some entries of a sequence, each of them.
LEMMA OnlyHolds ==
  ASSUME NEW S, NEW seq \in Seq(S), NEW P \in SUBSET DOMAIN seq, NEW i \in P
  PROVE  seq[i] \in ToSet(Only(seq, P))
<1>1. Len(seq) \in Nat /\ DOMAIN seq = 1 .. Len(seq)
  OBVIOUS
<1>2. P \in SUBSET Nat /\ IsFiniteSet(P)
  <2>1. IsFiniteSet(1 .. Len(seq)) /\ P \in SUBSET (1 .. Len(seq))
    BY <1>1, FS_Interval
  <2> QED BY <2>1, FS_Subset
<1>3. PICK n \in 1 .. Cardinality(P) : Ascending(P)[n] = i
  BY <1>2, AscendingFacts
<1>4. DOMAIN Ascending(P) = 1 .. Cardinality(P)
  BY DEF Ascending
<1>5. n \in DOMAIN Only(seq, P) /\ Only(seq, P)[n] = seq[i]
  BY <1>3, <1>4 DEF Only
<1> QED BY <1>5 DEF ToSet

\* A sequence cut short holds what comes before the cut.
LEMMA CutHolds ==
  ASSUME NEW S, NEW seq \in Seq(S), NEW n \in Nat
  PROVE  /\ Len(TakeFirst(seq, n)) = IF n < Len(seq) THEN n ELSE Len(seq)
         /\ \A i \in 1 .. Len(seq) : i <= n =>
              i \in 1 .. Len(TakeFirst(seq, n)) /\ TakeFirst(seq, n)[i] = seq[i]
         /\ Len(seq) <= n => TakeFirst(seq, n) = seq
<1> DEFINE m == IF n < Len(seq) THEN n ELSE Len(seq)
<1>1. Len(seq) \in Nat /\ m \in 0 .. Len(seq)
  OBVIOUS
<1>2. TakeFirst(seq, n) = SubSeq(seq, 1, m)
  BY DEF TakeFirst
<1>3. Len(SubSeq(seq, 1, m)) = m /\ \A i \in 1 .. m : SubSeq(seq, 1, m)[i] = seq[i]
  <2> HIDE DEF m
  <2> QED BY <1>1
<1>4. Len(seq) <= n => TakeFirst(seq, n) = seq
  BY <1>1, <1>2, SubSeqFull
<1> QED BY <1>1, <1>2, <1>3, <1>4

\* So does a piece of it.
LEMMA SliceHolds ==
  ASSUME NEW S, NEW seq \in Seq(S), NEW from \in Nat, NEW c \in Nat,
         NEW n \in 1 .. Len(seq), from < n, n <= from + c
  PROVE  seq[n] \in ToSet(Slice(seq, from, c))
<1> DEFINE m == IF from + c < Len(seq) THEN from + c ELSE Len(seq)
           piece == SubSeq(seq, from + 1, m)
<1>1. /\ Len(seq) \in Nat /\ m \in Nat /\ from + 1 <= n /\ n <= m /\ m <= Len(seq)
      /\ n - from \in 1 .. m - from
  OBVIOUS
<1>2. Slice(seq, from, c) = piece
  BY DEF Slice
<1>3. /\ Len(piece) = m - from
      /\ piece[n - from] = seq[n]
  <2>1. PICK a, b, i : a = from + 1 /\ b = m /\ i = n - from
    OBVIOUS
  <2> HIDE DEF m
  <2>2. a \in Nat /\ b \in Nat /\ a <= b + 1 /\ i \in 1 .. b + 1 - a /\ b + 1 - a = m - from
        /\ a + i - 1 = n
    BY <1>1, <2>1
  <2>3. Len(SubSeq(seq, a, b)) = b + 1 - a /\ SubSeq(seq, a, b)[i] = seq[a + i - 1]
    BY ONLY <2>2
  <2> QED BY <2>1, <2>2, <2>3
<1>4. n - from \in DOMAIN piece
  <2>1. piece \in Seq(S)
    <3>1. \A i \in from + 1 .. m : seq[i] \in S
      <4> HIDE DEF m
      <4> QED BY <1>1
    <3>2. from + 1 \in Int /\ m \in Int
      BY <1>1
    <3> HIDE DEF m
    <3> QED BY <3>1, <3>2, SubSeqProperties
  <2>2. DOMAIN piece = 1 .. Len(piece)
    <3> HIDE DEF piece
    <3> QED BY <2>1
  <2> QED BY <1>1, <1>3, <2>2
<1> QED BY <1>2, <1>3, <1>4 DEF ToSet

\* A sequence joined to another.
LEMMA JoinType ==
  ASSUME NEW S, NEW s \in Seq(S), NEW t \in Seq(S)
  PROVE  s \o t \in Seq(S) /\ Len(s \o t) = Len(s) + Len(t)
  OBVIOUS

\* It has the entries of both.
LEMMA JoinHolds ==
  ASSUME NEW S, NEW s \in Seq(S), NEW t \in Seq(S)
  PROVE  /\ s \o t \in Seq(S) /\ Len(s \o t) = Len(s) + Len(t)
         /\ ToSet(s) \cup ToSet(t) \subseteq ToSet(s \o t)
<1>1. /\ s \o t \in Seq(S) /\ Len(s) \in Nat /\ Len(t) \in Nat
      /\ Len(s \o t) = Len(s) + Len(t)
      /\ DOMAIN s = 1 .. Len(s) /\ DOMAIN t = 1 .. Len(t)
      /\ DOMAIN (s \o t) = 1 .. Len(s) + Len(t)
  OBVIOUS
<1>2. \A i \in 1 .. Len(s) : i \in 1 .. Len(s) + Len(t) /\ (s \o t)[i] = s[i]
  BY <1>1
<1>3. \A i \in 1 .. Len(t) :
        Len(s) + i \in 1 .. Len(s) + Len(t) /\ (s \o t)[Len(s) + i] = t[i]
  BY <1>1
<1> QED BY <1>1, <1>2, <1>3 DEF ToSet

(***************************************************************************)
(* A search loses nothing on its way.                                      *)
(***************************************************************************)

\* A search has kept what it has passed of the records it must not lose, and
\* knows where it is: by key it has passed the records up to the last one, by
\* page those of the pages read.
Gathers(src, rows, due, s) ==
  /\ s.state = "open" /\ Len(s.found) < MaxRecordsScanned /\ s.after \in Nat
  /\ src \in ByKey \/ s.after = 0
  /\ src \in ByPage \/ s.page = 0
  /\ s.after # 0 => s.after \in s.seen
  /\ src \in ByKey => \A id \in due : id <= s.after => id \in ToSet(s.found)
  /\ src \in ByPage =>
       \A n \in 1 .. Cardinality(rows) :
         n <= s.page * ChunkSize /\ Ascending(rows)[n] \in due =>
           Ascending(rows)[n] \in ToSet(s.found)

\* Unless the limit is reached, everything gathered is kept.
LEMMA GatherHolds ==
  ASSUME NEW src, NEW S, NEW found \in Seq(S), NEW data \in Seq(S),
         Len(Gather(src, found, data)) < MaxRecordsScanned
  PROVE  /\ ToSet(found) \cup ToSet(data) \subseteq ToSet(Gather(src, found, data))
         /\ src # "topological_quantum_chemistry" => Len(data) < MaxRecordsScanned
<1> DEFINE P == {i \in DOMAIN data : ~Contains(found, data[i])}
           new == IF src = "topological_quantum_chemistry" THEN Only(data, P) ELSE data
<1>1. MaxRecordsScanned \in Nat /\ Len(found) \in Nat /\ Len(data) \in Nat
  BY SearchAssumption
<1>2. new \in Seq(S) /\ ToSet(data) \subseteq ToSet(found) \cup ToSet(new)
  <2>1. P \in SUBSET DOMAIN data
    OBVIOUS
  <2>2. Only(data, P) \in Seq(S)
    <3> HIDE DEF P
    <3> QED BY <2>1, OnlyFacts
  <2>3. ASSUME NEW i \in DOMAIN data PROVE data[i] \in ToSet(found) \cup ToSet(Only(data, P))
    <3>1. CASE i \in P
      <4> HIDE DEF P
      <4> QED BY <2>1, <3>1, OnlyHolds
    <3>2. CASE i \notin P
      BY <3>2 DEF Contains, ToSet
    <3> QED BY <3>1, <3>2
  <2> HIDE DEF P
  <2> QED BY <2>2, <2>3 DEF ToSet
<1>3. Gather(src, found, data) = TakeFirst(found \o new, MaxRecordsScanned)
  BY DEF Gather
<1>4. src # "topological_quantum_chemistry" => new = data
  OBVIOUS
<1> HIDE DEF new
<1>5. /\ found \o new \in Seq(S) /\ Len(found \o new) = Len(found) + Len(new)
      /\ ToSet(found) \cup ToSet(new) \subseteq ToSet(found \o new)
  BY <1>2, JoinHolds
<1>6. Len(new) \in Nat /\ Len(found \o new) \in Nat
  BY <1>2, <1>5
<1>7. Len(found \o new) < MaxRecordsScanned
  <2>1. Len(TakeFirst(found \o new, MaxRecordsScanned))
          = IF MaxRecordsScanned < Len(found \o new) THEN MaxRecordsScanned
            ELSE Len(found \o new)
    BY <1>1, <1>5, CutHolds
  <2> QED BY <1>1, <1>3, <1>6, <2>1
<1>8. TakeFirst(found \o new, MaxRecordsScanned) = found \o new
  <2> DEFINE all == found \o new
  <2>1. all \in Seq(S) /\ Len(all) <= MaxRecordsScanned
    BY <1>1, <1>5, <1>6, <1>7
  <2> HIDE DEF all
  <2>2. TakeFirst(all, MaxRecordsScanned) = all
    BY <1>1, <2>1, CutHolds
  <2> QED BY <2>2 DEF all
<1> QED BY <1>1, <1>2, <1>3, <1>4, <1>5, <1>6, <1>7, <1>8

\* A complete record of a page is kept, whatever the source.
LEMMA KeptHolds ==
  ASSUME NEW src, NEW S, NEW data \in Seq(S)
  PROVE  /\ Kept(src, data) \in Seq(S)
         /\ src \notin ByKey => Kept(src, data) = data
         /\ \A i \in DOMAIN data : Entry[data[i]].complete => data[i] \in ToSet(Kept(src, data))
<1> DEFINE P == {i \in DOMAIN data : Entry[data[i]].complete}
<1>1. P \in SUBSET DOMAIN data
  OBVIOUS
<1>2. Only(data, P) \in Seq(S)
  <2> HIDE DEF P
  <2> QED BY <1>1, OnlyFacts
<1>3. \A i \in P : data[i] \in ToSet(Only(data, P))
  <2> HIDE DEF P
  <2> QED BY <1>1, OnlyHolds
<1>4. Kept(src, data) = IF src \in ByKey THEN Only(data, P) ELSE data
  BY DEF Kept
<1>5. \A i \in DOMAIN data : data[i] \in ToSet(data)
  BY DEF ToSet
<1> QED BY <1>2, <1>3, <1>4, <1>5

\* Where a search stands after an answer.
Gathered(src, s, answer) == Gather(src, s.found, Kept(src, answer.data))
Ends(src, s, answer, after) ==
  /\ after.found = Gathered(src, s, answer)
  /\ \/ answer.next = 0
     \/ Len(after.found) >= MaxRecordsScanned
     \/ src = "c2db" /\ answer.data = <<>>
Continues(src, s, answer, after) ==
  /\ after.found = Gathered(src, s, answer) /\ answer.next # 0
  /\ ~(Len(after.found) >= MaxRecordsScanned)
  /\ src \in ByKey => /\ answer.next \notin s.seen
                      /\ after.after = answer.next /\ after.page = s.page
                      /\ after.seen = s.seen \cup {answer.next}
  /\ src \notin ByKey => /\ after.after = s.after /\ after.page = s.page + 1
                         /\ after.seen = s.seen \cup {answer.next}
LEMMA AdvanceMeans ==
  ASSUME NEW src, NEW s, SearchShape(s), s.state = "open", NEW answer, NEW after,
         after = Advance(src, s, answer)
  PROVE  /\ after.state = "done" => Ends(src, s, answer, after)
         /\ after.state = "open" => Continues(src, s, answer, after)
<1> DEFINE found == Gathered(src, s, answer)
           seen == s.seen \cup {answer.next}
           read == [s EXCEPT !.found = found, !.seen = seen]
           full == Len(found) >= MaxRecordsScanned
           To(state, to) == [to EXCEPT !.state = state]
<1>1. DOMAIN s = {"found", "after", "page", "seen", "state"}
  BY DEF SearchShape
<1> HIDE DEF found, seen, full
<1>2. after =
        IF src \in ByKey THEN
          IF answer.next = 0 THEN To("done", read)
          ELSE IF Seen(s, answer.next) \/ answer.data = <<>> THEN To("error", s)
          ELSE [read EXCEPT !.after = answer.next,
                            !.state = IF full THEN "done" ELSE "open"]
        ELSE IF answer.next = 0 \/ full THEN To("done", read)
        ELSE IF src = "mc3d" /\ Seen(s, answer.next) THEN To("error", s)
        ELSE IF src = "c2db" /\ answer.data = <<>> THEN To("done", read)
        ELSE [read EXCEPT !.page = s.page + 1]
  BY DEF Advance, Gathered, found, seen, full
<1>3. /\ DOMAIN read = {"found", "after", "page", "seen", "state"}
      /\ read.found = found /\ read.page = s.page /\ read.after = s.after
      /\ read.seen = seen /\ read.state = "open"
  BY <1>1
<1>4. To("error", s).state = "error"
  BY <1>1
<1> HIDE DEF read
<1>5. /\ To("done", read).found = found /\ To("done", read).state = "done"
  BY <1>3
<1> DEFINE on == [read EXCEPT !.after = answer.next, !.state = IF full THEN "done" ELSE "open"]
           next == [read EXCEPT !.page = s.page + 1]
<1>6. /\ on.found = found /\ on.after = answer.next /\ on.page = s.page /\ on.seen = seen
      /\ on.state = IF full THEN "done" ELSE "open"
      /\ next.found = found /\ next.after = s.after /\ next.page = s.page + 1
      /\ next.seen = seen /\ next.state = "open"
  BY <1>3
<1>7. \/ after = To("error", s)
      \/ /\ after = To("done", read)
         /\ answer.next = 0 \/ full \/ (src = "c2db" /\ answer.data = <<>>)
      \/ /\ src \in ByKey /\ answer.next # 0 /\ ~Seen(s, answer.next) /\ after = on
      \/ /\ src \notin ByKey /\ answer.next # 0 /\ ~full /\ after = next
  BY <1>2
<1> HIDE DEF To, on, next
<1>8. CASE after = To("error", s)
  BY <1>4, <1>8
<1>9. CASE /\ after = To("done", read)
           /\ answer.next = 0 \/ full \/ (src = "c2db" /\ answer.data = <<>>)
  BY <1>5, <1>9 DEF found, full, Ends
<1>10. CASE src \in ByKey /\ answer.next # 0 /\ ~Seen(s, answer.next) /\ after = on
  BY <1>6, <1>10 DEF found, full, seen, Seen, Ends, Continues
<1>11. CASE src \notin ByKey /\ answer.next # 0 /\ ~full /\ after = next
  BY <1>6, <1>11 DEF found, full, seen, Continues
<1> QED BY <1>7, <1>8, <1>9, <1>10, <1>11

\* What an answer leaves in order: an open search that gathers, or a finished one
\* that lost nothing unless the limit was reached.
GoesOn(src, rows, due, after) ==
  /\ after.state = "open" => Gathers(src, rows, due, after)
  /\ after.state = "done" =>
       (Len(after.found) < MaxRecordsScanned => due \subseteq ToSet(after.found))

\* What the search held and what the page brought is in the search after it.
LEMMA PageHolds ==
  ASSUME NEW src, NEW s, SearchShape(s), NEW answer, answer.data \in Seq(Ids),
         NEW found, found = Gathered(src, s, answer), Len(found) < MaxRecordsScanned
  PROVE  /\ ToSet(s.found) \subseteq ToSet(found)
         /\ \A i \in DOMAIN answer.data :
              Entry[answer.data[i]].complete => answer.data[i] \in ToSet(found)
         /\ src \notin ByKey \cup ByPage => Len(answer.data) < MaxRecordsScanned
<1> DEFINE data == answer.data
           kept == Kept(src, data)
<1>1. s.found \in Seq(Ids) /\ data \in Seq(Ids)
  BY DEF SearchShape
<1>2. /\ kept \in Seq(Ids) /\ (src \notin ByKey => kept = data)
      /\ \A i \in DOMAIN data : Entry[data[i]].complete => data[i] \in ToSet(kept)
  <2> HIDE DEF data
  <2> QED BY <1>1, KeptHolds
<1>3. found = Gather(src, s.found, kept)
  BY DEF Gathered
<1> HIDE DEF data, kept
<1>4. /\ ToSet(s.found) \cup ToSet(kept) \subseteq ToSet(found)
      /\ src # "topological_quantum_chemistry" => Len(kept) < MaxRecordsScanned
  BY <1>1, <1>2, <1>3, GatherHolds
<1>5. src \notin ByKey \cup ByPage => src # "topological_quantum_chemistry"
  BY DEF ByPage
<1>6. src \notin ByKey \cup ByPage => Len(data) < MaxRecordsScanned
  BY <1>2, <1>4, <1>5
<1> QED BY <1>2, <1>4, <1>6 DEF data

\* An answer to everything at once.
LEMMA OnceGoesOn ==
  ASSUME NEW src, src \notin ByKey \cup ByPage, NEW rows \in SUBSET Ids, NEW due \in SUBSET rows,
         \A id \in due : Entry[id].complete,
         NEW s, SearchShape(s), Gathers(src, rows, due, s), NEW answer,
         answer = [data |-> TakeFirst(Ascending(rows), MaxRecordsScanned), next |-> 0],
         NEW after, after = Advance(src, s, answer)
  PROVE  GoesOn(src, rows, due, after)
<1> DEFINE all == Ascending(rows)
<1>1. /\ rows \in SUBSET Nat /\ IsFiniteSet(rows) /\ MaxRecordsScanned \in Nat
      /\ s.state = "open"
  BY EvaluationAssumption, SearchAssumption, FS_Subset DEF Gathers
<1>2. /\ Cardinality(rows) \in Nat /\ Len(all) = Cardinality(rows) /\ all \in Seq(rows)
      /\ \A id \in rows : \E n \in 1 .. Cardinality(rows) : all[n] = id
  BY <1>1, AscendingFacts
<1>3. all \in Seq(Ids)
  <2> HIDE DEF all
  <2> QED BY <1>2, SeqMonotonic
<1>4. answer.data = TakeFirst(all, MaxRecordsScanned) /\ answer.next = 0
  OBVIOUS
<1> HIDE DEF all
<1>5. /\ Len(answer.data) = IF MaxRecordsScanned < Len(all) THEN MaxRecordsScanned
                            ELSE Len(all)
      /\ Len(all) <= MaxRecordsScanned => answer.data = all
  BY <1>1, <1>3, <1>4, CutHolds
<1>6. answer.data \in Seq(Ids)
  <2>1. 0 \in Nat /\ MaxRecordsScanned \in Int
    BY <1>1
  <2> QED BY <1>3, <1>4, <2>1, CutTypes
<1>7. /\ after.state # "open"
      /\ after.state = "done" => after.found = Gathered(src, s, answer)
  BY <1>1, <1>4, AdvanceMeans DEF Ends, Continues
<1>8. ASSUME after.state = "done", Len(after.found) < MaxRecordsScanned, NEW id \in due
      PROVE  id \in ToSet(after.found)
  <2>1. /\ Len(answer.data) < MaxRecordsScanned
        /\ \A i \in DOMAIN answer.data :
              Entry[answer.data[i]].complete => answer.data[i] \in ToSet(after.found)
    BY <1>6, <1>7, <1>8, PageHolds
  <2>2. answer.data = all
    BY <1>1, <1>2, <1>5, <2>1
  <2>3. PICK n \in 1 .. Cardinality(rows) : all[n] = id
    BY <1>2
  <2>4. n \in DOMAIN all
    BY <1>2, <2>3
  <2> QED BY <2>1, <2>2, <2>3, <2>4
<1> QED BY <1>7, <1>8 DEF GoesOn

\* A page of a listing that stays as it is.
LEMMA NumberedGoesOn ==
  ASSUME NEW src \in ByPage, NEW rows \in SUBSET Ids, NEW due \in SUBSET rows,
         \A id \in due : Entry[id].complete,
         NEW s, SearchShape(s), Gathers(src, rows, due, s), NEW answer,
         answer = NumberedPage(src, rows, s),
         NEW after, after = Advance(src, s, answer)
  PROVE  GoesOn(src, rows, due, after)
<1> DEFINE all == Ascending(rows)
           N == Cardinality(rows)
           from == s.page * ChunkSize
           to == (s.page + 1) * ChunkSize
<1>1. /\ rows \in SUBSET Nat /\ IsFiniteSet(rows) /\ MaxRecordsScanned \in Nat
      /\ s.state = "open" /\ s.page \in Nat /\ ChunkSize \in Nat \ {0}
  BY EvaluationAssumption, SearchAssumption, FS_Subset DEF Gathers, SearchShape
<1>2. /\ N \in Nat /\ Len(all) = N /\ all \in Seq(rows)
      /\ \A id \in rows : \E n \in 1 .. N : all[n] = id
  BY <1>1, AscendingFacts
<1>3. all \in Seq(Ids)
  <2> HIDE DEF all
  <2> QED BY <1>2, SeqMonotonic
<1>4. from \in Nat /\ to \in Nat /\ to = from + ChunkSize /\ s.page + 1 # 0
  BY <1>1
<1>5. /\ answer.data = Slice(all, from, ChunkSize)
      /\ answer.next = IF N > to THEN s.page + 1 ELSE 0
  BY DEF NumberedPage
<1>6. src \notin ByKey
  BY DEF ByKey, ByPage
<1> HIDE DEF all, N, from, to
<1>7. answer.data \in Seq(Ids)
  BY <1>1, <1>3, <1>4, <1>5, CutTypes
<1>8. ASSUME NEW n \in 1 .. N, from < n, n <= to
      PROVE  \E i \in DOMAIN answer.data : answer.data[i] = all[n]
  <2>1. all[n] \in ToSet(Slice(all, from, ChunkSize))
    BY <1>1, <1>2, <1>3, <1>4, <1>8, SliceHolds
  <2> QED BY <1>5, <2>1 DEF ToSet
<1>9. ASSUME NEW found, found = Gathered(src, s, answer), Len(found) < MaxRecordsScanned,
             NEW n \in 1 .. N, n <= to, all[n] \in due
      PROVE  all[n] \in ToSet(found)
  <2>1. /\ ToSet(s.found) \subseteq ToSet(found)
        /\ \A i \in DOMAIN answer.data :
              Entry[answer.data[i]].complete => answer.data[i] \in ToSet(found)
    BY <1>7, <1>9, PageHolds
  <2>2. CASE n <= from
    <3>1. all[n] \in ToSet(s.found)
      BY <1>9, <2>2 DEF Gathers, all, N, from
    <3> QED BY <2>1, <3>1
  <2>3. CASE ~(n <= from)
    <3>1. from < n
      BY <1>2, <1>4, <2>3
    <3>2. PICK i \in DOMAIN answer.data : answer.data[i] = all[n]
      BY <1>8, <1>9, <3>1
    <3> QED BY <1>9, <2>1, <3>2
  <2> QED BY <2>2, <2>3
<1>10. ASSUME after.state = "open" PROVE Gathers(src, rows, due, after)
  <2>1. /\ after.found = Gathered(src, s, answer)
        /\ ~(Len(after.found) >= MaxRecordsScanned)
        /\ after.after = s.after /\ after.page = s.page + 1
        /\ after.seen = s.seen \cup {answer.next}
    BY <1>1, <1>6, <1>10, AdvanceMeans DEF Continues
  <2>2. Len(after.found) < MaxRecordsScanned
    <3>1. SearchShape(after)
      <4>1. s.found \in Seq(Ids)
        BY DEF SearchShape
      <4> QED BY <1>7, <4>1, AdvanceType
    <3>2. Len(after.found) \in Nat
      BY <3>1 DEF SearchShape
    <3> QED BY <1>1, <2>1, <3>2
  <2>3. s.after = 0
    BY <1>6 DEF Gathers
  <2>4. after.page * ChunkSize = to
    BY <2>1 DEF to
  <2>5. \A n \in 1 .. N : n <= after.page * ChunkSize /\ all[n] \in due =>
          all[n] \in ToSet(after.found)
    BY <1>9, <2>1, <2>2, <2>4
  <2> QED BY <1>6, <1>10, <2>1, <2>2, <2>3, <2>5 DEF Gathers, all, N
<1>11. after.state = "done" => Ends(src, s, answer, after)
  BY <1>1, AdvanceMeans
<1>12. ASSUME after.state = "done", Len(after.found) < MaxRecordsScanned, NEW id \in due
       PROVE  id \in ToSet(after.found)
  <2>1. PICK n \in 1 .. N : all[n] = id
    BY <1>2
  <2>2. Ends(src, s, answer, after) /\ after.found = Gathered(src, s, answer)
    BY <1>11, <1>12 DEF Ends
  <2>3. SearchShape(after)
    <3>1. s.found \in Seq(Ids)
      BY DEF SearchShape
    <3> QED BY <1>7, <3>1, AdvanceType
  <2>4. ~(Len(after.found) >= MaxRecordsScanned)
    <3>1. Len(after.found) \in Nat
      BY <2>3 DEF SearchShape
    <3> QED BY <1>1, <1>12, <3>1
  <2>5. answer.data = <<>> => ~(N > to)
    <3> SUFFICES ASSUME answer.data = <<>>, N > to PROVE FALSE
      OBVIOUS
    <3>1. to \in 1 .. N /\ from < to /\ to <= to
      BY <1>1, <1>2, <1>4
    <3>2. \E i \in DOMAIN answer.data : answer.data[i] = all[to]
      BY <1>8, <3>1
    <3>3. DOMAIN <<>> = {}
      OBVIOUS
    <3> QED BY <3>2, <3>3
  <2>6. ~(N > to)
    BY <1>4, <1>5, <2>2, <2>4, <2>5 DEF Ends
  <2>7. n <= to
    BY <1>2, <1>4, <2>6
  <2> QED BY <1>9, <1>12, <2>1, <2>2, <2>7
<1> QED BY <1>10, <1>12 DEF GoesOn

\* A page by key, or one a stuck server gives again.
LEMMA KeyedGoesOn ==
  ASSUME NEW src \in ByKey, NEW rows \in SUBSET Ids, NEW due \in SUBSET rows,
         \A id \in due : Entry[id].complete,
         NEW s, SearchShape(s), Gathers(src, rows, due, s),
         NEW answer, answer.data \in Seq(Ids),
         answer = KeyedPage(src, rows, s) \/ (s.after # 0 /\ answer.next = s.after),
         NEW after, after = Advance(src, s, answer)
  PROVE  GoesOn(src, rows, due, after)
<1> DEFINE room == MaxRecordsScanned - Len(s.found)
           rest == {id \in rows : id > s.after}
           all == Ascending(rest)
           N == Cardinality(rest)
           most == Min({ChunkSize, room})
<1>1. /\ MaxRecordsScanned \in Nat /\ s.state = "open" /\ ChunkSize \in Nat \ {0}
      /\ s.after \in Nat /\ s.found \in Seq(Ids) /\ Len(s.found) \in Nat
      /\ Len(s.found) < MaxRecordsScanned
      /\ \A id \in due : id <= s.after => id \in ToSet(s.found)
      /\ src \notin ByPage /\ s.page = 0
  BY SearchAssumption DEF Gathers, SearchShape, ByKey, ByPage
<1>2. /\ after.state = "done" => Ends(src, s, answer, after)
      /\ after.state = "open" => Continues(src, s, answer, after)
  BY <1>1, AdvanceMeans
<1>3. CASE s.after # 0 /\ answer.next = s.after
  <2>1. answer.next \in s.seen /\ answer.next # 0
    BY <1>3 DEF Gathers
  <2>2. after = [s EXCEPT !.state = "error"]
    BY <2>1 DEF Advance, Seen
  <2>3. after.state = "error"
    BY <2>2 DEF SearchShape
  <2> QED BY <2>3 DEF GoesOn
<1>4. CASE answer = KeyedPage(src, rows, s)
  <2>1. /\ rows \in SUBSET Nat /\ \A id \in rows : id # 0
        /\ rest \in SUBSET rows /\ rest \in SUBSET Nat /\ IsFiniteSet(rest)
    BY EvaluationAssumption, FS_Subset
  <2>2. /\ N \in Nat /\ Len(all) = N /\ all \in Seq(rest)
        /\ \A id \in rest : \E n \in 1 .. N : all[n] = id
        /\ \A m, n \in 1 .. N : m < n => all[m] < all[n]
    <3> HIDE DEF rest
    <3> QED BY <2>1, AscendingFacts
  <2>3. most \in Nat \ {0}
    <3>1. room \in Nat \ {0}
      BY <1>1
    <3> HIDE DEF room
    <3>2. \E x \in {ChunkSize, room} : \A y \in {ChunkSize, room} : x <= y
      BY <1>1, <3>1
    <3>3. most \in {ChunkSize, room}
      BY <3>2 DEF Min
    <3> QED BY <1>1, <3>1, <3>3
  <2>4. /\ answer.data = TakeFirst(all, most)
        /\ answer.next = IF Len(answer.data) = N THEN 0 ELSE Last(answer.data)
    BY <1>4 DEF KeyedPage
  <2>5. \A n \in 1 .. N : all[n] \in rest /\ all[n] \in Nat /\ all[n] # 0
    <3>1. \A n \in 1 .. N : all[n] \in rest
      <4> HIDE DEF all, rest, N
      <4> QED BY <2>2
    <3> QED BY <2>1, <3>1
  <2> HIDE DEF all, N, most
  <2>6. /\ Len(answer.data) = IF most < N THEN most ELSE N
        /\ \A i \in 1 .. N : i <= most =>
              i \in 1 .. Len(answer.data) /\ answer.data[i] = all[i]
    <3> HIDE DEF rest
    <3> QED BY <2>2, <2>3, <2>4, CutHolds
  <2>7. most < N => answer.next = all[most] /\ answer.next # 0
    <3> SUFFICES ASSUME most < N PROVE answer.next = all[most] /\ answer.next # 0
      OBVIOUS
    <3>1. most \in 1 .. N /\ Len(answer.data) = most /\ Len(answer.data) # N
      BY <2>2, <2>3, <2>6
    <3>2. answer.data[most] = all[most]
      BY <2>3, <2>6, <3>1
    <3>3. answer.next = answer.data[most]
      BY <2>4, <3>1 DEF Last
    <3> QED BY <2>5, <3>1, <3>2, <3>3
  <2>8. ~(most < N) => answer.next = 0
    BY <2>2, <2>3, <2>4, <2>6
  <2>9. ASSUME NEW found, found = Gathered(src, s, answer), Len(found) < MaxRecordsScanned,
               NEW id \in due, id > s.after => \E n \in 1 .. N : n <= most /\ all[n] = id
        PROVE  id \in ToSet(found)
    <3>1. /\ ToSet(s.found) \subseteq ToSet(found)
          /\ \A i \in DOMAIN answer.data :
                Entry[answer.data[i]].complete => answer.data[i] \in ToSet(found)
      BY <2>9, PageHolds
    <3>2. id \in Nat
      BY <2>1
    <3>3. CASE id <= s.after
      BY <1>1, <3>1, <3>3
    <3>4. CASE id > s.after
      <4>1. PICK n \in 1 .. N : n <= most /\ all[n] = id
        BY <2>9, <3>4
      <4>2. n \in 1 .. Len(answer.data) /\ answer.data[n] = id
        BY <2>6, <4>1
      <4>3. n \in DOMAIN answer.data
        BY <4>2
      <4> QED BY <3>1, <4>2, <4>3
    <3> QED BY <1>1, <3>2, <3>3, <3>4
  <2>10. ASSUME after.state = "open" \/ after.state = "done"
         PROVE  /\ after.found = Gathered(src, s, answer)
                /\ Len(after.found) \in Nat
    <3>1. SearchShape(after)
      BY <1>1, AdvanceType
    <3> QED BY <1>2, <2>10, <3>1 DEF Ends, Continues, SearchShape
  <2>11. ASSUME after.state = "open" PROVE Gathers(src, rows, due, after)
    <3>1. /\ answer.next # 0 /\ ~(Len(after.found) >= MaxRecordsScanned)
          /\ after.after = answer.next /\ after.page = s.page
          /\ after.seen = s.seen \cup {answer.next}
      BY <1>2, <2>11 DEF Continues
    <3>2. Len(after.found) < MaxRecordsScanned
      BY <1>1, <2>10, <2>11, <3>1
    <3>3. most < N /\ after.after = all[most] /\ most \in 1 .. N
      BY <2>2, <2>3, <2>7, <2>8, <3>1
    <3>4. ASSUME NEW id \in due, id <= after.after PROVE id \in ToSet(after.found)
      <4>1. ASSUME id > s.after PROVE \E n \in 1 .. N : n <= most /\ all[n] = id
        <5>1. id \in rest
          BY <4>1
        <5>2. PICK n \in 1 .. N : all[n] = id
          BY <2>2, <5>1
        <5>3. ~(most < n)
          <6>1. most < n => all[most] < all[n]
            BY <2>2, <3>3
          <6>2. all[most] \in Nat /\ all[n] \in Nat
            BY <2>5, <3>3
          <6> QED BY <3>3, <3>4, <5>2, <6>1, <6>2
        <5>4. n <= most
          BY <2>2, <2>3, <5>3
        <5> QED BY <5>2, <5>4
      <4> QED BY <2>9, <2>10, <2>11, <3>2, <4>1
    <3>5. after.after \in Nat /\ after.after \in after.seen
      BY <2>5, <3>1, <3>3
    <3> QED BY <1>1, <2>11, <3>1, <3>2, <3>4, <3>5 DEF Gathers
  <2>12. ASSUME after.state = "done", Len(after.found) < MaxRecordsScanned, NEW id \in due
         PROVE  id \in ToSet(after.found)
    <3>1. answer.next = 0
      <4>1. ~(Len(after.found) >= MaxRecordsScanned)
        BY <1>1, <2>10, <2>12
      <4>2. src # "c2db"
        BY DEF ByKey
      <4> QED BY <1>2, <2>12, <4>1, <4>2 DEF Ends
    <3>2. ~(most < N)
      BY <2>7, <3>1
    <3>3. ASSUME id > s.after PROVE \E n \in 1 .. N : n <= most /\ all[n] = id
      <4>1. id \in rest
        BY <3>3
      <4>2. PICK n \in 1 .. N : all[n] = id
        BY <2>2, <4>1
      <4>3. n <= most
        BY <2>2, <2>3, <3>2
      <4> QED BY <4>2, <4>3
    <3> QED BY <2>9, <2>10, <2>12, <3>3
  <2> QED BY <2>11, <2>12 DEF GoesOn
<1> QED BY <1>3, <1>4

\* The records of a listing that a query asks for.
Rows(src, req, listing) == {id \in listing : Matches(src, req, id)}

\* Any answer: of a stuck server, of one asked by key, by page, or for everything.
LEMMA AnswerGoesOn ==
  ASSUME NEW src, NEW req, NEW listing \in SUBSET Ids,
         NEW rows, rows = Rows(src, req, listing), NEW due \in SUBSET rows,
         \A id \in due : Entry[id].complete,
         NEW s, SearchShape(s), Gathers(src, rows, due, s),
         NEW stuck \in BOOLEAN, src \in ByPage => ~stuck,
         NEW answer, answer = IF stuck /\ s.page + s.after > 0
                                THEN Repeated(src, req, listing, s)
                                ELSE Answered(src, req, listing, s),
         NEW after, after = Advance(src, s, answer)
  PROVE  GoesOn(src, rows, due, after)
<1>1. rows \in SUBSET Ids /\ rows = {id \in listing : Matches(src, req, id)}
  BY DEF Rows
<1>2. answer.data \in Seq(Ids)
  <2>1. Seq(listing) \subseteq Seq(Ids)
    BY SeqMonotonic
  <2>2. answer.data \in Seq(listing)
    BY AnswerType
  <2> QED BY <2>1, <2>2
<1>3. CASE src \in ByKey
  <2>1. src \notin ByPage /\ s.page = 0 /\ s.after \in Nat
    BY <1>3 DEF ByKey, ByPage, Gathers
  <2>2. \A t : Answered(src, req, listing, t) = KeyedPage(src, rows, t)
    BY <1>1, <1>3, <2>1 DEF Answered
  <2>3. CASE stuck /\ s.page + s.after > 0
    <3> DEFINE again == [s EXCEPT !.after = 0,
                                  !.page = IF s.page = 0 THEN 0 ELSE s.page - 1]
    <3>0. src # "topological_quantum_chemistry"
      BY <1>3 DEF ByKey
    <3>1. answer = [Answered(src, req, listing, again) EXCEPT !.next = s.after]
      <4>1. answer = Repeated(src, req, listing, s)
        BY <2>3
      <4> QED BY <1>3, <3>0, <4>1 DEF Repeated
    <3>2. PICK data, next : Answered(src, req, listing, again) = [data |-> data, next |-> next]
      <4> HIDE DEF again
      <4> QED BY <2>2 DEF KeyedPage
    <3>3. answer.next = s.after
      <4> HIDE DEF again
      <4> QED BY <3>1, <3>2
    <3>4. s.after # 0
      BY <2>1, <2>3
    <3> QED BY <1>1, <1>2, <1>3, <3>3, <3>4, KeyedGoesOn
  <2>4. CASE ~(stuck /\ s.page + s.after > 0)
    <3>1. answer = KeyedPage(src, rows, s)
      BY <2>2, <2>4
    <3> QED BY <1>1, <1>2, <1>3, <3>1, KeyedGoesOn
  <2> QED BY <2>3, <2>4
<1>4. CASE src \in ByPage
  <2>1. src \notin ByKey
    BY <1>4 DEF ByKey, ByPage
  <2>2. answer = NumberedPage(src, rows, s)
    BY <1>1, <1>4, <2>1 DEF Answered
  <2> QED BY <1>1, <1>4, <2>2, NumberedGoesOn
<1>5. CASE src \notin ByKey \cup ByPage
  <2>1. ~(s.page + s.after > 0)
    <3>1. s.page = 0 /\ s.after = 0
      BY <1>5 DEF Gathers
    <3> QED BY <3>1
  <2>2. answer = [data |-> TakeFirst(Ascending(rows), MaxRecordsScanned), next |-> 0]
    BY <1>1, <1>5, <2>1 DEF Answered
  <2> QED BY <1>1, <1>5, <2>2, OnceGoesOn
<1> QED BY <1>3, <1>4, <1>5

\* A search that has not started has passed nothing.
LEMMA NewGathers ==
  ASSUME NEW src, NEW rows, NEW due
  PROVE  /\ Gathers(src, rows, due, NewSearch) \/ \E id \in due : id \notin Nat \ {0}
         /\ SearchShape(NewSearch)
<1>1. /\ NewSearch.found = <<>> /\ NewSearch.after = 0 /\ NewSearch.page = 0
      /\ NewSearch.state = "open" /\ SearchShape(NewSearch)
  BY DEF NewSearch, SearchShape
<1>2. Len(<<>>) < MaxRecordsScanned /\ 0 * ChunkSize = 0
  BY SearchAssumption
<1>3. \A n \in 1 .. Cardinality(rows) : ~(n <= 0)
  OBVIOUS
<1>4. \A id \in due : id \in Nat \ {0} => ~(id <= 0)
  OBVIOUS
<1> QED BY <1>1, <1>2, <1>3, <1>4 DEF Gathers

(***************************************************************************)
(* A run loses nothing on its way.                                         *)
(***************************************************************************)

\* The records sought are those listed throughout; a list of documents leaves none
\* of them out unless it was cut off.
Sought(req) == {id \in Rows(source, req, steady) : Entry[id].complete}
LeavesOutNothing(docs) ==
  Len(docs) < MaxRecordsScanned => Sought(disk["input"]) \subseteq ToSet(docs)

\* Sources read page by page promise nothing of a listing that changes meanwhile.
Untouched == source \notin ByPage \/ trouble["remote"] = 0
Calm ==
  /\ trouble \in [Kinds -> Nat]
  /\ trouble["remote"] = 0 => ~remote.stuck
Onward == Calm' /\ source' = source /\ (Untouched' => Untouched)

\* What is sought is in the search, then in the documents at hand, then in the
\* manifest of the raw responses, and at last in the result.
Holding == {"archive"} \cup Read
Searches ==
  /\ steady \subseteq remote.listing
  /\ source \in ByPage => steady = remote.listing
  /\ Gathers(source, Rows(source, request.req, remote.listing), Sought(request.req),
             job.search)
NothingLost ==
  /\ job.pc = "search" => Searches
  /\ job.pc \in Holding => LeavesOutNothing(job.docs)
  /\ disk["raw_manifest"] # None => LeavesOutNothing(FlattenSeq(disk["raw_manifest"]))
  /\ disk["operation"] # None /\ disk["operation"].result.status = "SUCCEEDED" =>
       Sought(disk["input"]) \subseteq disk["operation"].result.docs
LossInv ==
  /\ Calm
  /\ disk["input"] # None \/ (disk["raw_manifest"] = None /\ disk["operation"] = None)
  /\ job.pc = "search" => disk["raw_manifest"] = None
  /\ job.pc # "search" => job.search = NewSearch
  /\ disk["operation"] # None => disk["operation"].result.docs \in SUBSET Ids
  /\ Untouched => NothingLost

\* A server is stuck only after the database changed, and the source stays.
LEMMA CalmStays ==
  ASSUME IndInv, Calm, [Next]_vars PROVE Onward
<1>1. trouble \in [Kinds -> Nat] /\ trouble' \in [Kinds -> Nat]
  BY CauseStays DEF Calm
<1>2. "remote" \in Kinds
  BY DEF Kinds
<1>3. /\ source' = source
      /\ UNCHANGED trouble \/ \E kind \in Kinds : Troubled(kind)
      /\ UNCHANGED remote \/ Troubled("remote")
  BY StepsCount
<1>4. trouble'["remote"] >= trouble["remote"]
  BY <1>1, <1>2, <1>3 DEF Troubled
<1>5. Troubled("remote") => trouble'["remote"] > 0
  BY <1>1, <1>2 DEF Troubled
<1>6. trouble["remote"] \in Nat /\ trouble'["remote"] \in Nat
  BY <1>1, <1>2
<1>7. trouble'["remote"] = 0 => trouble["remote"] = 0 /\ UNCHANGED remote
  BY <1>3, <1>4, <1>5, <1>6
<1>8. Calm'
  BY <1>1, <1>7 DEF Calm
<1>9. Untouched' => Untouched
  BY <1>3, <1>7 DEF Untouched
<1> QED BY <1>3, <1>8, <1>9 DEF Onward

\* A step that neither searches nor writes what the search brought.
Leaves ==
  /\ steady' = steady
  /\ disk'["raw_manifest"] = disk["raw_manifest"] /\ disk'["operation"] = disk["operation"]
  /\ disk'["input"] = disk["input"] \/ (disk["input"] = None /\ disk'["input"] # None)
  /\ job'.pc # "search" /\ job'.search = NewSearch
  /\ job'.pc \in Holding => job.pc \in Holding /\ job'.docs = job.docs

\* With an artifact come its Requirement and what the call holds of it.
LEMMA InputThere ==
  ASSUME IndInv, job.pc \in Holding \/ job.pc = "search"
  PROVE  disk["input"] = request.req /\ disk["input"] # None /\ disk["operation"] = None
<1>1. job.pc \in Opened
  BY DEF Holding, Opened, Settled, Planned
<1>2. request.req \in Requirements
  BY DEF IndInv, ShapesOK
<1>3. None \notin Requirements
  BY NoneAssumption
<1> QED BY <1>1, <1>2, <1>3 DEF IndInv, CallOK

LEMMA LossStays ==
  ASSUME IndInv, LossInv, Onward, Leaves PROVE LossInv'
<1>1. disk'["input"] # None \/ (disk'["raw_manifest"] = None /\ disk'["operation"] = None)
  BY DEF LossInv, Leaves
<1>2. ASSUME Untouched' PROVE NothingLost'
  <2>1. NothingLost /\ source' = source /\ steady' = steady
    BY <1>2 DEF LossInv, Onward, Leaves
  <2>2. CASE disk["input"] = None
    <3>1. disk'["raw_manifest"] = None /\ disk'["operation"] = None
      BY <2>2 DEF LossInv, Leaves
    <3>2. job'.pc \notin Holding
      BY <2>2, InputThere DEF Leaves
    <3> QED BY <3>1, <3>2 DEF NothingLost, Leaves
  <2>3. CASE disk["input"] # None
    <3>1. disk'["input"] = disk["input"]
      BY <2>3 DEF Leaves
    <3>2. Sought(disk["input"])' = Sought(disk["input"])
      BY <2>1, <3>1 DEF Sought
    <3>3. job'.pc \in Holding => LeavesOutNothing(job.docs) /\ job'.docs = job.docs
      BY <2>1 DEF NothingLost, Leaves
    <3>4. job'.pc \in Holding => LeavesOutNothing(job.docs)'
      BY <3>2, <3>3 DEF LeavesOutNothing
    <3>5. disk'["raw_manifest"] # None => LeavesOutNothing(FlattenSeq(disk["raw_manifest"]))'
      BY <2>1, <3>2 DEF NothingLost, Leaves, LeavesOutNothing
    <3>6. disk'["operation"] # None /\ disk'["operation"].result.status = "SUCCEEDED" =>
            Sought(disk["input"])' \subseteq disk'["operation"].result.docs
      BY <2>1, <3>2 DEF NothingLost, Leaves
    <3> QED BY <3>4, <3>5, <3>6 DEF NothingLost, Leaves
  <2> QED BY <2>2, <2>3
<1> QED BY <1>1, <1>2 DEF LossInv, Leaves, Onward

\* Artifacts other than those of the search leave alone what it brought.
Sparing(name) == name \in Artifacts \ {"input", "raw_manifest", "operation"}
Spared == \A name \in {"input", "raw_manifest", "operation"} : disk'[name] = disk[name]
LEMMA WritesSpare ==
  ASSUME IndInv, NEW name, Sparing(name), NEW content, Write(name, content)
  PROVE  Spared
<1>1. /\ disk = [n \in Artifacts |-> disk[n]] /\ disk' = [disk EXCEPT ![name] = content]
      /\ name \notin {"input", "raw_manifest", "operation"}
  BY DEF IndInv, ShapesOK, FilesOK, Write, Sparing
<1> QED BY <1>1 DEF Spared

\* A call that ends, or goes on without new documents.
LEMMA MovesLeave ==
  ASSUME IndInv, LossInv, job.pc # "search", steady' = steady, Spared,
         \/ job' = Idle
         \/ /\ job'.search = job.search /\ job'.pc # "search"
            /\ job'.pc \in Holding => job.pc \in Holding /\ job'.docs = job.docs
  PROVE  Leaves
<1>1. CASE job' = Idle
  <2>1. job'.pc = "idle" /\ job'.search = NewSearch
    BY <1>1, IdleFacts
  <2>2. "idle" \notin Holding
    BY DEF Holding, Read, Judged, Told
  <2> QED BY <2>1, <2>2 DEF Leaves, Spared
<1>2. CASE /\ job'.search = job.search /\ job'.pc # "search"
           /\ job'.pc \in Holding => job.pc \in Holding /\ job'.docs = job.docs
  BY <1>2 DEF Leaves, Spared, LossInv
<1> QED BY <1>1, <1>2

\* The places before and after the documents are at hand.
LEMMA HoldingFacts ==
  /\ {"idle", "adapter", "run", "metadata", "snapshot", "collect", "search"}
       \cap Holding = {}
  /\ {"archive", "documents", "evidence", "enrich", "report", "result", "complete"}
       = Holding
  BY DEF Holding, Read, Judged, Told

\* A call that starts, is lost, or is turned away.
LEMMA OutsideLeaves ==
  ASSUME IndInv, LossInv, Invoke \/ Crash \/ RejectInput PROVE Leaves
<1>1. steady' = steady /\ Spared
  BY DEF Invoke, Crash, RejectInput, store, Spared
<1>2. CASE Invoke
  <2>1. job' = [Idle EXCEPT !.pc = IF Direct THEN "run" ELSE "adapter"]
    BY <1>2 DEF Invoke
  <2>2. job'.pc \in {"run", "adapter"} /\ job'.search = NewSearch
    BY <2>1 DEF Idle
  <2> QED BY <1>1, <2>2, HoldingFacts DEF Leaves, Spared
<1>3. CASE Crash \/ RejectInput
  <2>1. job' = Idle
    BY <1>3 DEF Crash, RejectInput, Finish
  <2> QED BY <1>1, <2>1, IdleFacts, HoldingFacts DEF Leaves, Spared
<1> QED BY <1>2, <1>3

\* The adapter's plan is no artifact of the run.
LEMMA NativePlanLeaves ==
  ASSUME IndInv, LossInv, ReuseNativePlan \/ MakeNativePlan PROVE Leaves
<1>1. steady' = steady /\ Spared /\ job.pc = "adapter"
  BY DEF ReuseNativePlan, MakeNativePlan, Step, Quiet, store, Spared
<1>2. JobShape
  BY DEF IndInv, ShapesOK
<1>3. job'.pc = "run" /\ job'.search = job.search
  BY <1>2 DEF ReuseNativePlan, MakeNativePlan, JobShape
<1> QED BY <1>1, <1>3, HoldingFacts, MovesLeave

\* With the plan settled no document is at hand.
LEMMA SettleMoves ==
  ASSUME IndInv, NEW plan, Settle(plan)
  PROVE  job' = Idle \/ (job'.pc = "snapshot" /\ job'.search = job.search)
<1>1. JobShape
  BY DEF IndInv, ShapesOK
<1>2. \/ job' = Idle
      \/ \E p : \/ job' = [job EXCEPT !.pc = "snapshot", !.plan = p, !.k = 1]
                \/ job' = [job EXCEPT !.pc = "snapshot", !.k = 1, !.plan = p]
  BY DEF Settle, Refuse, Finish
<1> QED BY <1>1, <1>2 DEF JobShape

\* run() writes the Requirement where there is none, and never replaces it.
LEMMA OpenLeaves ==
  ASSUME IndInv, LossInv, Open PROVE Leaves
<1>1. steady' = steady /\ job.pc = "run" /\ JobShape /\ job.search = NewSearch
  BY DEF Open, Step, Quiet, IndInv, ShapesOK, LossInv
<1>2. \/ job' = Idle /\ disk' = disk
      \/ /\ ~Conflicts("input", request.req) /\ Write("input", request.req)
         /\ \/ \E plan : Settle(plan)
            \/ job' = [job EXCEPT !.pc = "metadata"]
  BY DEF Open, store, Refuse, Finish
<1>3. CASE job' = Idle /\ disk' = disk
  BY <1>1, <1>3, MovesLeave DEF Spared
<1>4. CASE /\ ~Conflicts("input", request.req) /\ Write("input", request.req)
           /\ \/ \E plan : Settle(plan)
              \/ job' = [job EXCEPT !.pc = "metadata"]
  <2>1. disk = [n \in Artifacts |-> disk[n]] /\ request.req \in Requirements
    BY DEF IndInv, ShapesOK, FilesOK
  <2>2. request.req # None /\ disk["input"] \in {None, request.req}
    BY <1>4, <2>1, NoneAssumption DEF Conflicts
  <2>3. /\ disk'["input"] = request.req
        /\ disk'["raw_manifest"] = disk["raw_manifest"]
        /\ disk'["operation"] = disk["operation"]
    <3>1. {"input", "raw_manifest", "operation"} \subseteq Artifacts
      BY DEF Artifacts
    <3> QED BY <1>4, <2>1, <3>1 DEF Write
  <2>4. job'.pc \in {"idle", "snapshot", "metadata"} /\ job'.search = NewSearch
    <3>1. CASE \E plan : Settle(plan)
      BY <1>1, <3>1, SettleMoves, IdleFacts
    <3>2. CASE job' = [job EXCEPT !.pc = "metadata"]
      BY <1>1, <3>2 DEF JobShape
    <3> QED BY <1>4, <3>1, <3>2
  <2> QED BY <1>1, <2>2, <2>3, <2>4, HoldingFacts DEF Leaves
<1> QED BY <1>2, <1>3, <1>4

\* Metadata that arrives, or fails to.
LEMMA MetadataLeaves ==
  ASSUME IndInv, LossInv, Metadata \/ MetadataFails PROVE Leaves
<1>1. steady' = steady /\ job.pc \in {"metadata", "adapter"} /\ JobShape
  BY DEF Metadata, MetadataFails, Step, Quiet, IndInv, ShapesOK
<1>2. CASE Metadata
  <2>1. Spared /\ \E plan : Settle(plan)
    BY <1>2 DEF Metadata, store, Spared
  <2>2. job' = Idle \/ (job'.pc = "snapshot" /\ job'.search = job.search)
    BY <2>1, SettleMoves
  <2> QED BY <1>1, <2>1, <2>2, HoldingFacts, MovesLeave
<1>3. CASE MetadataFails
  <2>1. \/ job' = [job EXCEPT !.tries = job.tries + 1] /\ disk' = disk
        \/ /\ job' = Idle
           /\ \/ disk' = disk
              \/ \E one, two : disk' = [disk EXCEPT !["coverage"] = one,
                                                    !["stage_result"] = two]
    BY <1>3 DEF MetadataFails, Finish
  <2>2. Spared
    <3>1. disk = [n \in Artifacts |-> disk[n]]
      BY DEF IndInv, ShapesOK, FilesOK
    <3>2. {"input", "raw_manifest", "operation"} \subseteq Artifacts
      BY DEF Artifacts
    <3> QED BY <2>1, <3>1, <3>2 DEF Spared
  <2>3. job' = Idle \/ (job'.pc = job.pc /\ job'.search = job.search)
    BY <1>1, <2>1 DEF JobShape
  <2> QED BY <1>1, <2>2, <2>3, HoldingFacts, MovesLeave
<1> QED BY <1>2, <1>3

\* One more artifact, or a refusal.
LEMMA WriteNextLeaves ==
  ASSUME IndInv, LossInv, NEW pc, NEW writes, NEW next, WriteNext(pc, writes, next),
         NEW name, Sparing(name), NEW content, writes[job.k] = <<name, content>>,
         pc # "search", next # "search", next \in Holding => pc \in Holding
  PROVE  Leaves
<1>1. steady' = steady /\ job.pc = pc
  BY DEF WriteNext, Step, Quiet
<1>2. \/ Refuse /\ UNCHANGED disk
      \/ /\ Write(name, content) /\ job'.search = job.search /\ job'.docs = job.docs
         /\ job'.pc \in {pc, next}
  BY WriteNextMeans
<1>3. CASE Refuse /\ UNCHANGED disk
  BY <1>1, <1>3, MovesLeave DEF Spared, Refuse, Finish
<1>4. CASE /\ Write(name, content) /\ job'.search = job.search /\ job'.docs = job.docs
           /\ job'.pc \in {pc, next}
  <2>1. Spared
    BY <1>4, WritesSpare
  <2> QED BY <1>1, <1>4, <2>1, MovesLeave
<1> QED BY <1>2, <1>3, <1>4

\* Capability, coverage and plan are no documents.
LEMMA WriteSnapshotLeaves ==
  ASSUME IndInv, LossInv, WriteSnapshot PROVE Leaves
<1>1. job.k \in 1 .. 3
  BY Stages DEF WriteSnapshot, WriteNext, Step, IndInv, ShapesOK, CallOK, JobShape
<1>2. PICK name, content : Sparing(name) /\ Snapshot[job.k] = <<name, content>>
  <2>1. Sparing("capability") /\ Sparing("coverage") /\ Sparing("query_plan")
    BY DEF Sparing, Artifacts
  <2>2. /\ Snapshot[1] = <<"capability", job.plan.version>>
        /\ Snapshot[2] = <<"coverage", source>> /\ Snapshot[3] = <<"query_plan", job.plan>>
    BY DEF Snapshot
  <2> QED BY <1>1, <2>1, <2>2
<1> QED BY <1>2, HoldingFacts, WriteNextLeaves DEF WriteSnapshot

\* The evidence is told of the documents at hand.
LEMMA WriteEvidenceLeaves ==
  ASSUME IndInv, LossInv, WriteEvidence PROVE Leaves
<1> DEFINE next == IF source = "materials_project" THEN "enrich" ELSE "report"
<1>1. job.k \in 1 .. 4
  BY DEF WriteEvidence, WriteNext, Step, IndInv, ShapesOK, CallOK, JobShape
<1>2. PICK name, content : Sparing(name) /\ Evidence[job.k] = <<name, content>>
  <2>1. Sparing("origin") /\ Sparing("audit") /\ Sparing("groups") /\ Sparing("manifest")
    BY DEF Sparing, Artifacts
  <2>2. /\ Evidence[1] = <<"origin", job.resolved>> /\ Evidence[2] = <<"audit", Audit>>
        /\ Evidence[3] = <<"groups", ExactDuplicates(UsableDocs)>>
        /\ Evidence[4] = <<"manifest", [audit |-> Audit, published |-> job.published]>>
    BY DEF Evidence
  <2> QED BY <1>1, <2>1, <2>2
<1>3. next # "search" /\ "evidence" \in Holding
  BY HoldingFacts
<1>4. WriteNext("evidence", Evidence, next)
  BY DEF WriteEvidence
<1> HIDE DEF next
<1> QED BY <1>2, <1>3, <1>4, WriteNextLeaves

\* So is the report.
LEMMA WriteReportLeaves ==
  ASSUME IndInv, LossInv, WriteReport PROVE Leaves
<1> DEFINE writes == << <<"report", Report>> >>
<1>1. job.k = 1
  BY DEF WriteReport, WriteNext, Step, IndInv, CallOK
<1>2. writes[job.k] = <<"report", Report>> /\ Sparing("report") /\ "report" \in Holding
  BY <1>1, HoldingFacts DEF Sparing, Artifacts
<1>3. WriteNext("report", writes, "result")
  BY DEF WriteReport
<1> HIDE DEF writes
<1> QED BY <1>2, <1>3, WriteNextLeaves

\* Batches, structures and origins are stored beside the artifacts.
LEMMA DocumentsLeave ==
  ASSUME IndInv, LossInv, WriteBatch \/ WriteStructure \/ Resolve PROVE Leaves
<1>1. /\ steady' = steady /\ Spared /\ JobShape
      /\ job.pc \in {"archive", "documents"}
  BY DEF WriteBatch, WriteStructure, Resolve, Step, Quiet, store, Spared, IndInv, ShapesOK
<1>2. job.pc \in Holding /\ "evidence" \in Holding /\ job.pc # "search"
  BY <1>1, HoldingFacts
<1>3. \/ job' = Idle
      \/ job'.pc \in {job.pc, "evidence"} /\ job'.search = job.search /\ job'.docs = job.docs
  <2>1. CASE WriteBatch
    <3>1. job' = Idle \/ job' = [job EXCEPT !.k = job.k + 1]
      BY <2>1 DEF WriteBatch, Refuse, Finish
    <3> QED BY <1>1, <3>1 DEF JobShape
  <2>2. CASE WriteStructure
    <3>1. job' = Idle \/ job' = [job EXCEPT !.k = job.k + 1]
      BY <2>2 DEF WriteStructure, Refuse, Finish
    <3> QED BY <1>1, <3>1 DEF JobShape
  <2>3. CASE Resolve
    <3>1. PICK one, two : job' = [job EXCEPT !.pc = "evidence", !.k = 1,
                                             !.resolved = one, !.published = two]
      BY <2>3 DEF Resolve
    <3> QED BY <1>1, <3>1 DEF JobShape
  <2> QED BY <2>1, <2>2, <2>3
<1> QED BY <1>1, <1>2, <1>3, MovesLeave

\* What is published may be enriched, and the result is written.
LEMMA TellingLeaves ==
  ASSUME IndInv, LossInv, Enrich \/ WriteResult PROVE Leaves
<1>1. /\ steady' = steady /\ JobShape /\ job.pc \in {"enrich", "result"}
  BY DEF Enrich, WriteResult, Step, Quiet, IndInv, ShapesOK
<1>2. \/ job' = Idle /\ disk' = disk
      \/ /\ \E name, content : Sparing(name) /\ Write(name, content)
         /\ job'.pc \in {"report", "complete"} /\ job'.search = job.search
         /\ job'.docs = job.docs
  <2>1. CASE Enrich
    <3>1. PICK partial \in BOOLEAN :
            \/ job' = Idle /\ disk' = disk
            \/ /\ Write("enrichment", partial)
               /\ job' = [job EXCEPT !.pc = "report", !.partial = partial]
      BY <2>1 DEF Enrich, Refuse, Finish
    <3>2. Sparing("enrichment")
      BY DEF Sparing, Artifacts
    <3> QED BY <1>1, <3>1, <3>2 DEF JobShape
  <2>2. CASE WriteResult
    <3>1. (\E result : Write("stage_result", result)) /\ job' = [job EXCEPT !.pc = "complete"]
      BY <2>2 DEF WriteResult
    <3>2. Sparing("stage_result")
      BY DEF Sparing, Artifacts
    <3> QED BY <1>1, <3>1, <3>2 DEF JobShape
  <2> QED BY <2>1, <2>2
<1>3. Spared
  BY <1>2, WritesSpare DEF Spared
<1> QED BY <1>1, <1>2, <1>3, HoldingFacts, MovesLeave

\* A search that fails brought nothing.
LEMMA SearchFailsLeaves ==
  ASSUME IndInv, LossInv, NEW status, SearchFails(status), steady' = steady PROVE Leaves
<1>1. job' = Idle
  BY DEF SearchFails, Finish
<1>2. Spared
  <2>1. /\ disk = [n \in Artifacts |-> disk[n]]
        /\ {"input", "raw_manifest", "operation"} \subseteq Artifacts
    BY DEF IndInv, ShapesOK, FilesOK, Artifacts
  <2>2. PICK one, two : disk' = [disk EXCEPT !["report"] = one, !["stage_result"] = two]
    BY DEF SearchFails
  <2> QED BY <2>1, <2>2 DEF Spared
<1>3. job'.pc = "idle" /\ job'.search = NewSearch
  BY <1>1, IdleFacts
<1> QED BY <1>2, <1>3, HoldingFacts DEF Leaves, Spared

\* At first nothing is on file and no search is under way.
LEMMA LossInit ==
  ASSUME Init PROVE LossInv
<1>1. /\ job = Idle /\ disk = [name \in Artifacts |-> None]
      /\ trouble = [kind \in Kinds |-> 0]
      /\ remote \in [listing : Listings, version : {0}, stuck : {FALSE}]
  BY DEF Init
<1>2. Calm
  <2>1. remote.stuck = FALSE
    BY <1>1
  <2> QED BY <1>1, <2>1 DEF Calm
<1>3. disk["raw_manifest"] = None /\ disk["operation"] = None
  BY <1>1 DEF Artifacts
<1>4. job.pc = "idle" /\ job.search = NewSearch /\ "idle" \notin Holding
  BY <1>1, IdleFacts, HoldingFacts
<1> QED BY <1>2, <1>3, <1>4 DEF LossInv, NothingLost

\* A call that searches has nothing on file yet.
LEMMA SearchingOn ==
  ASSUME IndInv, LossInv, Onward, job.pc \in {"collect", "search"}, disk' = disk,
         disk["raw_manifest"] = None, job'.pc = "search", Untouched' => Searches'
  PROVE  LossInv'
<1>1. disk["operation"] = None
  BY Stages DEF IndInv, CallOK, Planned, Settled, Opened
<1>2. job'.pc \notin Holding
  BY HoldingFacts
<1> QED BY <1>1, <1>2 DEF LossInv, NothingLost, Onward

\* A search that starts has everything before it.
LEMMA SearchStarts ==
  ASSUME IndInv, UNCHANGED <<request, remote>>, steady' = remote.listing,
         job'.search = NewSearch
  PROVE  Searches'
<1>1. remote.listing \in SUBSET Ids /\ source' = source
  BY DEF IndInv, ShapesOK, source
<1>2. PICK src, rows, due :
        /\ src = source' /\ rows = Rows(source, request.req, remote.listing)'
        /\ due = Sought(request.req)'
  OBVIOUS
<1>3. \A id \in due : id \in Nat \ {0}
  <2>1. due \subseteq Ids
    BY <1>1, <1>2 DEF Sought, Rows
  <2> QED BY <2>1, EvaluationAssumption
<1>4. Gathers(src, rows, due, NewSearch)
  BY <1>3, NewGathers
<1> QED BY <1>2, <1>4 DEF Searches

\* An archived response is read back whole, and a search starts from nothing.
LEMMA CollectLoses ==
  ASSUME IndInv, LossInv, Onward, Collect PROVE LossInv'
<1>1. /\ job.pc = "collect" /\ UNCHANGED <<disk, request, remote>> /\ JobShape
      /\ job.search = NewSearch
      /\ \/ /\ disk["raw_manifest"] # None /\ steady' = steady
            /\ job' = [job EXCEPT !.pc = "documents",
                                  !.docs = FlattenSeq(disk["raw_manifest"])]
         \/ /\ disk["raw_manifest"] = None /\ steady' = remote.listing
            /\ job' = [job EXCEPT !.pc = "search"]
  BY DEF Collect, Step, store, IndInv, ShapesOK, LossInv
<1>2. CASE /\ disk["raw_manifest"] # None /\ steady' = steady
           /\ job' = [job EXCEPT !.pc = "documents",
                                 !.docs = FlattenSeq(disk["raw_manifest"])]
  <2>1. /\ job'.pc = "documents" /\ job'.docs = FlattenSeq(disk["raw_manifest"])
        /\ job'.search = NewSearch
    BY <1>1, <1>2 DEF JobShape
  <2>2. ASSUME Untouched' PROVE NothingLost'
    <3>1. NothingLost /\ source' = source
      BY <2>2 DEF LossInv, Onward
    <3>2. Sought(disk["input"])' = Sought(disk["input"])
      BY <1>1, <1>2, <3>1 DEF Sought
    <3>3. LeavesOutNothing(FlattenSeq(disk["raw_manifest"]))
      BY <1>2, <3>1 DEF NothingLost
    <3>4. /\ LeavesOutNothing(job.docs)'
          /\ LeavesOutNothing(FlattenSeq(disk["raw_manifest"]))'
      BY <1>1, <2>1, <3>2, <3>3 DEF LeavesOutNothing
    <3> QED BY <1>1, <2>1, <3>1, <3>2, <3>4 DEF NothingLost
  <2> QED BY <1>1, <2>1, <2>2 DEF LossInv, Onward
<1>3. CASE /\ disk["raw_manifest"] = None /\ steady' = remote.listing
           /\ job' = [job EXCEPT !.pc = "search"]
  <2>1. job'.pc = "search" /\ job'.search = NewSearch
    BY <1>1, <1>3 DEF JobShape
  <2> QED BY <1>1, <1>3, <2>1, SearchStarts, SearchingOn
<1> QED BY <1>1, <1>2, <1>3

\* A failed request starts the search again, or ends the call.
LEMMA PageFailsLoses ==
  ASSUME IndInv, LossInv, Onward, PageFails PROVE LossInv'
<1>1. /\ job.pc = "search" /\ UNCHANGED <<request, remote>> /\ JobShape
      /\ disk["raw_manifest"] = None
      /\ \/ /\ job' = [job EXCEPT !.tries = job.tries + 1, !.search = NewSearch]
            /\ steady' = remote.listing /\ disk' = disk
         \/ SearchFails("RETRYABLE_FAILED") /\ steady' = steady
  BY DEF PageFails, Step, IndInv, ShapesOK, LossInv
<1>2. CASE /\ job' = [job EXCEPT !.tries = job.tries + 1, !.search = NewSearch]
           /\ steady' = remote.listing /\ disk' = disk
  <2>1. job'.pc = "search" /\ job'.search = NewSearch
    BY <1>1, <1>2 DEF JobShape
  <2> QED BY <1>1, <1>2, <2>1, SearchStarts, SearchingOn
<1>3. CASE SearchFails("RETRYABLE_FAILED") /\ steady' = steady
  BY <1>3, SearchFailsLeaves, LossStays
<1> QED BY <1>1, <1>2, <1>3

\* A page leads on, to the documents, or to the end of the call.
LEMMA PageLoses ==
  ASSUME IndInv, LossInv, Onward, Page PROVE LossInv'
<1>1. PICK answer, after :
        /\ answer = Answer /\ after = Advance(source, job.search, answer)
        /\ CASE after.state = "open" ->
                  job' = [job EXCEPT !.search = after] /\ UNCHANGED <<disk, outcome>>
             [] after.state = "done" ->
                  /\ job' = [job EXCEPT !.pc = "archive", !.search = NewSearch,
                                        !.docs = Documents(after)]
                  /\ UNCHANGED <<disk, outcome>>
             [] OTHER -> SearchFails("PERMANENT_FAILED")
  BY DEF Page
<1>2. /\ job.pc = "search" /\ UNCHANGED <<request, remote, steady>>
      /\ disk["raw_manifest"] = None
  BY DEF Page, Step, LossInv
<1>3. /\ JobShape /\ SearchShape(job.search) /\ remote.listing \in SUBSET Ids
      /\ remote.stuck \in BOOLEAN
  BY DEF IndInv, ShapesOK, JobShape
<1>4. PICK src, req, listing, rows, due, s, stuck :
        /\ src = source /\ req = request.req /\ listing = remote.listing
        /\ rows = Rows(src, req, listing) /\ due = Sought(request.req)
        /\ s = job.search /\ stuck = remote.stuck
  OBVIOUS
<1>5. ASSUME Untouched' PROVE GoesOn(src, rows, due, after)
  <2>1. /\ Searches /\ (src \in ByPage => trouble["remote"] = 0)
    BY <1>2, <1>4, <1>5 DEF LossInv, Onward, NothingLost, Untouched
  <2>2. src \in ByPage => ~stuck
    BY <1>4, <2>1 DEF LossInv, Calm
  <2>3. due \in SUBSET rows /\ \A id \in due : Entry[id].complete
    BY <1>4, <2>1 DEF Searches, Sought, Rows
  <2>4. Gathers(src, rows, due, s)
    BY <1>4, <2>1 DEF Searches
  <2>5. answer = IF stuck /\ s.page + s.after > 0 THEN Repeated(src, req, listing, s)
                 ELSE Answered(src, req, listing, s)
    BY <1>1, <1>4 DEF Answer
  <2>6. /\ after = Advance(src, s, answer) /\ SearchShape(s)
        /\ listing \in SUBSET Ids /\ stuck \in BOOLEAN
    BY <1>1, <1>3, <1>4
  <2> QED BY <1>4, <2>2, <2>3, <2>4, <2>5, <2>6, AnswerGoesOn
<1>6. CASE after.state = "open"
  <2>1. job' = [job EXCEPT !.search = after] /\ UNCHANGED <<disk, outcome>>
    BY <1>1, <1>6
  <2>2. job'.pc = "search" /\ job'.search = after
    BY <1>2, <1>3, <2>1 DEF JobShape
  <2>3. ASSUME Untouched' PROVE Searches'
    <3>1. Gathers(src, rows, due, after)
      BY <1>5, <1>6, <2>3 DEF GoesOn
    <3>2. Searches
      BY <1>2, <2>3 DEF LossInv, Onward, NothingLost
    <3>3. /\ rows = Rows(source, request.req, remote.listing)'
          /\ due = Sought(request.req)' /\ src = source'
      BY <1>2, <1>4 DEF Sought, source
    <3> QED BY <1>2, <1>4, <2>2, <3>1, <3>2, <3>3 DEF Searches
  <2> QED BY <1>2, <2>1, <2>2, <2>3, SearchingOn
<1>7. CASE after.state = "done"
  <2>1. job' = [job EXCEPT !.pc = "archive", !.search = NewSearch,
                           !.docs = Documents(after)] /\ UNCHANGED <<disk, outcome>>
    BY <1>1, <1>7
  <2>2. job'.pc = "archive" /\ job'.search = NewSearch /\ job'.docs = Documents(after)
    BY <1>2, <1>3, <2>1 DEF JobShape
  <2>3. disk["input"] = request.req /\ disk["input"] # None /\ disk["operation"] = None
    BY <1>2, InputThere
  <2>4. ASSUME Untouched' PROVE LeavesOutNothing(job.docs)'
    <3>1. Len(after.found) < MaxRecordsScanned => due \subseteq ToSet(after.found)
      BY <1>5, <1>7, <2>4 DEF GoesOn
    <3>2. after.found \in Seq(Ids)
      <4>1. answer.data \in Seq(Ids)
        <5>1. /\ Answered(source, request.req, remote.listing, job.search).data \in Seq(Ids)
              /\ Repeated(source, request.req, remote.listing, job.search).data \in Seq(Ids)
          BY <1>3, AnswerType, SeqMonotonic
        <5> QED BY <1>1, <5>1 DEF Answer
      <4>2. job.search.found \in Seq(Ids) /\ Ids \in SUBSET Ids
        BY <1>3 DEF SearchShape
      <4> QED BY <1>1, <1>3, <4>1, <4>2, AdvanceType
    <3>3. /\ Len(Documents(after)) = Len(after.found)
          /\ ToSet(after.found) \subseteq ToSet(Documents(after))
      <4>1. Ids \in SUBSET Nat
        BY EvaluationAssumption
      <4> QED BY <3>2, <4>1, SortedHolds, SortedFacts DEF Documents
    <3>4. due = Sought(disk["input"])'
      BY <1>2, <1>4, <2>1, <2>3 DEF Sought, source
    <3> QED BY <2>2, <3>1, <3>3, <3>4 DEF LeavesOutNothing
  <2>5. disk'["raw_manifest"] = None /\ disk'["operation"] = None
    BY <1>2, <2>1, <2>3
  <2> QED BY <2>2, <2>4, <2>5 DEF LossInv, NothingLost, Onward
<1>8. CASE after.state \notin {"open", "done"}
  <2>1. SearchFails("PERMANENT_FAILED")
    BY <1>1, <1>8
  <2> QED BY <1>2, <2>1, SearchFailsLeaves, LossStays
<1> QED BY <1>6, <1>7, <1>8

\* The manifest of the raw responses lists the documents at hand.
LEMMA WriteRawManifestLoses ==
  ASSUME IndInv, LossInv, Onward, WriteRawManifest PROVE LossInv'
<1> DEFINE raw == [i \in 1 .. Chunks |-> Batch(i)]
<1>1. /\ job.pc = "archive" /\ Write("raw_manifest", raw)
      /\ job' = [job EXCEPT !.k = 1, !.pc = "documents"]
      /\ UNCHANGED steady
  BY DEF WriteRawManifest, Step, Quiet
<1>2. FlattenSeq(raw) = job.docs
  <2>1. raw = Pieces(job.docs)
    BY DEF Pieces, Batch, Chunks
  <2>2. FlattenSeq(Pieces(job.docs)) = job.docs
    BY PiecesJoin DEF IndInv, ShapesOK, JobShape
  <2> QED BY <2>1, <2>2
<1> HIDE DEF raw
<1>3. job.pc \in Holding /\ disk["input"] # None /\ disk["operation"] = None
  BY <1>1, HoldingFacts, InputThere
<1>4. /\ disk'["raw_manifest"] = raw /\ disk'["input"] = disk["input"]
      /\ disk'["operation"] = None
  <2>1. /\ disk = [n \in Artifacts |-> disk[n]]
        /\ {"input", "raw_manifest", "operation"} \subseteq Artifacts
    BY DEF IndInv, ShapesOK, FilesOK, Artifacts
  <2> QED BY <1>1, <1>3, <2>1 DEF Write
<1>5. job'.pc = "documents" /\ job'.search = NewSearch /\ job'.docs = job.docs
  BY <1>1 DEF IndInv, ShapesOK, JobShape, LossInv
<1>6. ASSUME Untouched'
      PROVE  LeavesOutNothing(job.docs)' /\ LeavesOutNothing(FlattenSeq(disk["raw_manifest"]))'
  <2>1. LeavesOutNothing(job.docs)
    BY <1>3, <1>6 DEF LossInv, Onward, NothingLost
  <2>2. Sought(disk["input"])' = Sought(disk["input"])
    BY <1>1, <1>4 DEF Sought, Onward
  <2> QED BY <1>2, <1>4, <1>5, <2>1, <2>2 DEF LeavesOutNothing
<1> QED BY <1>3, <1>4, <1>5, <1>6 DEF LossInv, NothingLost, Onward

\* A run that answers SUCCEEDED has not been cut off.
LEMMA CompleteLoses ==
  ASSUME IndInv, LossInv, Onward, Complete PROVE LossInv'
<1>1. /\ job.pc = "complete" /\ job' = Idle /\ UNCHANGED steady
      /\ Write("operation", [result |-> RunResult, registered |-> Registered])
  BY DEF Complete, Step, Finish, Quiet
<1>2. job.pc \in Holding /\ disk["input"] # None
  BY <1>1, HoldingFacts, InputThere
<1>3. /\ disk'["operation"].result = RunResult /\ disk'["input"] = disk["input"]
      /\ disk'["raw_manifest"] = disk["raw_manifest"]
  <2>1. /\ disk = [n \in Artifacts |-> disk[n]]
        /\ {"input", "raw_manifest", "operation"} \subseteq Artifacts
    BY DEF IndInv, ShapesOK, FilesOK, Artifacts
  <2> QED BY <1>1, <2>1 DEF Write
<1>4. job'.pc = "idle" /\ job'.search = NewSearch /\ "idle" \notin Holding
  BY <1>1, IdleFacts, HoldingFacts
<1>5. /\ RunResult.status = RunStatus /\ RunResult.docs = DocIds
      /\ DocIds \in SUBSET Ids
  BY DocsAreIds DEF RunResult, Result, IndInv, ShapesOK
<1>6. RunStatus = "SUCCEEDED" => Len(job.docs) < MaxRecordsScanned
  <2>1. Len(job.docs) \in Nat /\ MaxRecordsScanned \in Nat
    BY SearchAssumption DEF IndInv, ShapesOK, JobShape
  <2>2. RunStatus = "SUCCEEDED" => ~Truncated
    BY DEF RunStatus
  <2> QED BY <2>1, <2>2 DEF Truncated
<1>7. ASSUME Untouched' PROVE NothingLost'
  <2>1. NothingLost
    BY <1>7 DEF LossInv, Onward
  <2>2. Sought(disk["input"])' = Sought(disk["input"])
    BY <1>1, <1>3 DEF Sought, Onward
  <2>3. RunStatus = "SUCCEEDED" => Sought(disk["input"]) \subseteq DocIds
    BY <1>2, <1>6, <2>1 DEF NothingLost, LeavesOutNothing, DocIds
  <2>4. disk'["raw_manifest"] # None => LeavesOutNothing(FlattenSeq(disk["raw_manifest"]))'
    BY <1>3, <2>1, <2>2 DEF NothingLost, LeavesOutNothing
  <2>5. disk'["operation"].result.status = "SUCCEEDED" =>
          Sought(disk["input"])' \subseteq disk'["operation"].result.docs
    BY <1>3, <1>5, <2>2, <2>3
  <2> QED BY <1>4, <2>4, <2>5 DEF NothingLost
<1>8. disk'["operation"].result.docs \in SUBSET Ids
  BY <1>3, <1>5
<1> QED BY <1>2, <1>3, <1>4, <1>7, <1>8 DEF LossInv, Onward

\* What is still listed after a change was listed before it.
LEMMA RemoteChangesLoses ==
  ASSUME IndInv, LossInv, Onward, RemoteChanges PROVE LossInv'
<1>1. /\ Troubled("remote") /\ UNCHANGED <<request, disk, job>>
      /\ steady' = IF job.pc = "search" THEN steady \cap remote'.listing ELSE steady
  BY DEF RemoteChanges, store
<1>2. CASE job.pc # "search"
  <2>1. Leaves
    BY <1>1, <1>2 DEF Leaves, LossInv
  <2> QED BY <2>1, LossStays
<1>3. CASE job.pc = "search"
  <2>1. trouble'["remote"] > 0
    <3>1. trouble \in [Kinds -> Nat] /\ "remote" \in Kinds
      BY DEF LossInv, Calm, Kinds
    <3> QED BY <1>1, <3>1 DEF Troubled
  <2>2. ASSUME Untouched' PROVE Searches'
    <3>1. source \notin ByPage /\ source' = source /\ Searches
      BY <1>3, <2>1, <2>2 DEF LossInv, NothingLost, Untouched, Onward
    <3>2. Sought(request.req)' \subseteq Sought(request.req)
      BY <1>1, <1>3, <3>1 DEF Sought, Rows
    <3>3. PICK src, rows, due, s :
            /\ src = source /\ rows = Rows(source, request.req, remote.listing)
            /\ due = Sought(request.req) /\ s = job.search
      OBVIOUS
    <3>4. PICK fewer, other :
            /\ fewer = Sought(request.req)'
            /\ other = Rows(source, request.req, remote.listing)'
      OBVIOUS
    <3>5. Gathers(src, rows, due, s) /\ fewer \subseteq due /\ src \notin ByPage
      BY <3>1, <3>2, <3>3, <3>4 DEF Searches
    <3>6. Gathers(src, other, fewer, s)
      BY <3>5 DEF Gathers
    <3>7. steady' \subseteq remote'.listing
      BY <1>1, <1>3
    <3> QED BY <1>1, <3>1, <3>3, <3>4, <3>6, <3>7 DEF Searches
  <2>3. disk' = disk /\ disk["raw_manifest"] = None /\ job'.pc = "search"
    BY <1>1, <1>3 DEF LossInv
  <2> QED BY <1>3, <2>2, <2>3, SearchingOn
<1> QED BY <1>2, <1>3

\* A step in which nothing changes.
LEMMA StutteringLoses ==
  ASSUME LossInv, UNCHANGED vars PROVE LossInv'
<1>1. UNCHANGED <<request, remote, disk, job, trouble, steady>>
  BY DEF vars
<1>2. Calm' /\ (Untouched' <=> Untouched) /\ source' = source
  BY <1>1 DEF LossInv, Calm, Untouched, source
<1>3. Sought(disk["input"])' = Sought(disk["input"])
      /\ Sought(request.req)' = Sought(request.req)
  BY <1>1, <1>2 DEF Sought
<1>4. Searches => Searches'
  BY <1>1, <1>2, <1>3 DEF Searches
<1>5. NothingLost => NothingLost'
  BY <1>1, <1>3, <1>4 DEF NothingLost, LeavesOutNothing
<1> QED BY <1>1, <1>2, <1>5 DEF LossInv

\* No step loses what is sought.
LEMMA LossKeeps ==
  ASSUME IndInv, LossInv, [Next]_vars PROVE LossInv'
<1>1. Onward
  BY CalmStays DEF LossInv
<1>2. CASE Invoke \/ Crash \/ RejectInput
  BY <1>1, <1>2, OutsideLeaves, LossStays
<1>3. CASE ReuseNativePlan \/ MakeNativePlan
  BY <1>1, <1>3, NativePlanLeaves, LossStays
<1>4. CASE Open BY <1>1, <1>4, OpenLeaves, LossStays
<1>5. CASE Metadata \/ MetadataFails BY <1>1, <1>5, MetadataLeaves, LossStays
<1>6. CASE WriteSnapshot BY <1>1, <1>6, WriteSnapshotLeaves, LossStays
<1>7. CASE Collect BY <1>1, <1>7, CollectLoses
<1>8. CASE Page BY <1>1, <1>8, PageLoses
<1>9. CASE PageFails BY <1>1, <1>9, PageFailsLoses
<1>10. CASE WriteBatch \/ WriteStructure \/ Resolve
  BY <1>1, <1>10, DocumentsLeave, LossStays
<1>11. CASE WriteRawManifest BY <1>1, <1>11, WriteRawManifestLoses
<1>12. CASE WriteEvidence BY <1>1, <1>12, WriteEvidenceLeaves, LossStays
<1>13. CASE Enrich \/ WriteResult BY <1>1, <1>13, TellingLeaves, LossStays
<1>14. CASE WriteReport BY <1>1, <1>14, WriteReportLeaves, LossStays
<1>15. CASE Complete BY <1>1, <1>15, CompleteLoses
<1>16. CASE RemoteChanges BY <1>1, <1>16, RemoteChangesLoses
<1>17. CASE UNCHANGED vars BY <1>17, StutteringLoses
<1> QED
  BY <1>2, <1>3, <1>4, <1>5, <1>6, <1>7, <1>8, <1>9, <1>10, <1>11, <1>12, <1>13, <1>14,
     <1>15, <1>16, <1>17 DEF Next, Work

(***************************************************************************)
(* The records published are the first in the ranking.                     *)
(***************************************************************************)

\* Of a finite set in a strict total order, one that is not among the first N
\* comes after all of them, and they are N.
Ordered(S, R) ==
  /\ \A x \in S : <<x, x>> \notin R
  /\ \A x, y \in S : x = y \/ <<x, y>> \in R \/ <<y, x>> \in R
  /\ \A x, y, z \in S : <<x, y>> \in R /\ <<y, z>> \in R => <<x, z>> \in R
FirstOf(first, S, R, N) ==
  first = {x \in S : Cardinality(UpToIn(S, R, x)) <= N}
AllAhead(first, R, id) == \A x \in first : <<x, id>> \in R
LEMMA FirstOnes ==
  ASSUME NEW S, IsFiniteSet(S), NEW R, Ordered(S, R), NEW N \in Nat,
         NEW first, FirstOf(first, S, R, N), NEW id \in S, id \notin first
  PROVE  AllAhead(first, R, id) /\ Cardinality(first) = N
<1>0. /\ \A x \in S : <<x, x>> \notin R
      /\ \A x, y \in S : x = y \/ <<x, y>> \in R \/ <<y, x>> \in R
      /\ \A x, y, z \in S : <<x, y>> \in R /\ <<y, z>> \in R => <<x, z>> \in R
  BY DEF Ordered
<1> DEFINE at == [x \in S |-> Cardinality(UpToIn(S, R, x))]
           M == Cardinality(S)
<1>1. /\ M \in Nat
      /\ \A x \in S : at[x] \in 1 .. M
      /\ \A n \in 1 .. M : \E x \in S : at[x] = n
      /\ \A x, y \in S : <<x, y>> \in R => at[x] < at[y]
  BY <1>0, PlaceTaken
<1>2. first = {x \in S : at[x] <= N} /\ at = [x \in S |-> at[x]]
  BY DEF FirstOf
<1> HIDE DEF at, M
<1>3. N < at[id] /\ N < M
  BY <1>1, <1>2
<1>4. AllAhead(first, R, id)
  <2> SUFFICES ASSUME NEW x \in first PROVE <<x, id>> \in R
    BY DEF AllAhead
  <2>1. x \in S /\ at[x] \in Nat /\ at[id] \in Nat /\ at[x] <= N
    BY <1>1, <1>2
  <2>2. ~(at[id] < at[x]) /\ x # id
    BY <1>3, <2>1
  <2> QED BY <1>0, <1>1, <2>1, <2>2
<1>5. ExistsBijection(1 .. N, first)
  <2> DEFINE who == [n \in 1 .. N |-> CHOOSE x \in S : at[x] = n]
  <2>1. \A n \in 1 .. N : who[n] \in S /\ at[who[n]] = n
    <3> TAKE n \in 1 .. N
    <3>1. n \in 1 .. M
      BY <1>1, <1>3
    <3> QED BY <1>1, <3>1
  <2>2. \A n \in 1 .. N : who[n] \in first
    BY <1>2, <2>1
  <2>3. who \in [1 .. N -> first]
    BY <2>2
  <2>4. \A m, n \in 1 .. N : m # n => who[m] # who[n]
    BY <2>1
  <2>5. \A x \in first : \E n \in 1 .. N : who[n] = x
    <3> TAKE x \in first
    <3>1. at[x] \in 1 .. N /\ x \in S
      BY <1>1, <1>2
    <3>2. who[at[x]] = x
      <4>1. who[at[x]] \in S /\ at[who[at[x]]] = at[x]
        BY <2>1, <3>1
      <4>2. \A y \in S : at[y] = at[x] => y = x
        <5> TAKE y \in S
        <5>1. at[y] \in Nat /\ at[x] \in Nat
          BY <1>1, <3>1
        <5>2. y = x \/ <<x, y>> \in R \/ <<y, x>> \in R
          BY <1>0, <3>1
        <5>3. y = x \/ at[x] < at[y] \/ at[y] < at[x]
          BY <1>1, <3>1, <5>2
        <5> QED BY <5>1, <5>3
      <4> QED BY <4>1, <4>2
    <3> QED BY <3>1, <3>2
  <2> HIDE DEF who
  <2>6. who \in Bijection(1 .. N, first)
    BY <2>3, <2>4, <2>5 DEF Bijection, Injection, Surjection, IsInjective
  <2> QED BY <2>6 DEF ExistsBijection
<1>6. Cardinality(first) = N
  BY <1>5, FS_Bijection, IntervalFacts
<1> QED BY <1>4, <1>6

\* Keys of one length, none alike, are in a strict total order by the first place
\* at which two of them differ.
LEMMA BeforeOrders ==
  ASSUME NEW L \in Nat, NEW E, NEW K, \A x \in E : K[x] \in [1 .. L -> Int],
         \A x, y \in E : x # y => K[x] # K[y]
  PROVE  /\ \A x \in E : ~Before(K[x], K[x])
         /\ \A x, y \in E : x = y \/ Before(K[x], K[y]) \/ Before(K[y], K[x])
         /\ \A x, y, z \in E :
              Before(K[x], K[y]) /\ Before(K[y], K[z]) => Before(K[x], K[z])
<1>1. \A x \in E : DOMAIN K[x] = 1 .. L /\ \A i \in 1 .. L : K[x][i] \in Int
  OBVIOUS
<1>2. \A x, y \in E : Before(K[x], K[y]) <=>
        \E i \in 1 .. L : K[x][i] < K[y][i] /\ \A j \in 1 .. i - 1 : K[x][j] = K[y][j]
  BY <1>1 DEF Before
<1>3. \A x \in E : ~Before(K[x], K[x])
  BY <1>1, <1>2
<1>4. ASSUME NEW x \in E, NEW y \in E, x # y
      PROVE  Before(K[x], K[y]) \/ Before(K[y], K[x])
  <2> DEFINE D == {i \in 1 .. L : K[x][i] # K[y][i]}
  <2>1. D # {}
    <3>1. PICK f, g : f = K[x] /\ g = K[y]
      OBVIOUS
    <3>2. f # g /\ f \in [1 .. L -> Int] /\ g \in [1 .. L -> Int]
      BY <1>4, <3>1
    <3>3. \E i \in 1 .. L : f[i] # g[i]
      BY <3>2
    <3> QED BY <3>1, <3>3
  <2>2. D \in SUBSET Int /\ IsFiniteSet(D)
    BY IntervalFacts, FS_Subset
  <2>3. PICK i \in D : \A j \in D : i <= j
    <3> HIDE DEF D
    <3> QED BY <2>1, <2>2, BoundsExist
  <2>4. \A j \in 1 .. i - 1 : K[x][j] = K[y][j]
    <3> TAKE j \in 1 .. i - 1
    <3>1. i \in 1 .. L
      OBVIOUS
    <3>2. j \in 1 .. L /\ ~(i <= j)
      BY <3>1
    <3> QED BY <2>3, <3>2
  <2>5. i \in 1 .. L /\ K[x][i] # K[y][i]
    OBVIOUS
  <2>6. K[x][i] < K[y][i] \/ K[y][i] < K[x][i]
    BY <1>1, <2>5
  <2> QED BY <1>2, <2>4, <2>5, <2>6
<1>5. ASSUME NEW x \in E, NEW y \in E, NEW z \in E, Before(K[x], K[y]), Before(K[y], K[z])
      PROVE  Before(K[x], K[z])
  <2>1. PICK i \in 1 .. L :
          K[x][i] < K[y][i] /\ \A j \in 1 .. i - 1 : K[x][j] = K[y][j]
    BY <1>2, <1>5
  <2>2. PICK k \in 1 .. L :
          K[y][k] < K[z][k] /\ \A j \in 1 .. k - 1 : K[y][j] = K[z][j]
    BY <1>2, <1>5
  <2>3. PICK m : m = IF i < k THEN i ELSE k
    OBVIOUS
  <2>4. m \in 1 .. L /\ \A j \in 1 .. m - 1 : j \in 1 .. i - 1 /\ j \in 1 .. k - 1
    BY <2>3
  <2>5. \A j \in 1 .. m - 1 : K[x][j] = K[z][j]
    BY <2>1, <2>2, <2>4
  <2>6. K[x][m] < K[z][m]
    <3>1. /\ K[x][i] \in Int /\ K[y][i] \in Int /\ K[z][i] \in Int
          /\ K[x][k] \in Int /\ K[y][k] \in Int /\ K[z][k] \in Int
      BY <1>1
    <3>2. CASE i < k
      <4>1. m = i /\ i \in 1 .. k - 1
        BY <2>3, <3>2
      <4> QED BY <2>1, <2>2, <4>1
    <3>3. CASE k < i
      <4>1. m = k /\ k \in 1 .. i - 1
        BY <2>3, <3>3
      <4> QED BY <2>1, <2>2, <4>1
    <3>4. CASE i = k
      BY <2>1, <2>2, <2>3, <3>1, <3>4
    <3> QED BY <3>2, <3>3, <3>4
  <2> QED BY <1>2, <2>4, <2>5, <2>6
<1> QED BY <1>3, <1>4, <1>5

\* A gap that a source reports is a number, if it reports one.
LEMMA GapType ==
  ASSUME NEW src, NEW id \in Ids
  PROVE  ReportedGap(src, id) \in Int \cup {None}
<1> DEFINE reported == {gap \in Entry[id].gaps : gap >= 0}
<1>1. /\ IsFiniteSet(Entry[id].gaps) /\ Entry[id].gaps \subseteq Int
      /\ Entry[id].gap \in Int \cup {None}
  BY EvaluationAssumption
<1>2. reported # {} => Least(reported) \in Int
  <2>1. reported \in SUBSET Int /\ IsFiniteSet(reported)
    BY <1>1, FS_Subset
  <2> HIDE DEF reported
  <2> SUFFICES ASSUME reported # {} PROVE Least(reported) \in Int
    OBVIOUS
  <2>2. \E n \in reported : \A other \in reported : n <= other
    BY <2>1, BoundsExist
  <2> QED BY <2>1, <2>2 DEF Least
<1>3. NomadGap(id) \in Int \cup {None}
  BY <1>2 DEF NomadGap
<1> QED BY <1>1, <1>3 DEF ReportedGap

\* A value that is a number has one.
Numeric(value) == value # None /\ value.k = "num" => value.v \in Int
LEMMA ValueType ==
  ASSUME NEW src, NEW id \in Ids, NEW name
  PROVE  Numeric(Value(src, id, name))
<1>1. ASSUME NEW n \in Int \cup {None} PROVE Numeric(Known(n, "num"))
  BY <1>1 DEF Known, Numeric
<1>2. ASSUME NEW flag PROVE Numeric(Known(flag, "flag"))
  BY <1>2 DEF Known, Numeric
<1>3. Numeric(Known(ReportedGap(src, id), "num"))
  BY <1>1, GapType
<1>4. Entry[id].hull \in Int \cup {None} /\ Entry[id].dimensionality \in Int \cup {None}
  BY EvaluationAssumption
<1>5. Numeric(Known(Entry[id].hull, "num")) /\ Numeric(Known(Entry[id].dimensionality, "num"))
  BY <1>1, <1>4
<1>6. name \in DOMAIN Entry[id].labels => Numeric(Entry[id].labels[name].value)
  <2> SUFFICES ASSUME name \in DOMAIN Entry[id].labels
               PROVE  Numeric(Entry[id].labels[name].value)
    OBVIOUS
  <2>1. PICK value : value = Entry[id].labels[name].value
    OBVIOUS
  <2>2. value \in Values
    BY <2>1, EvaluationAssumption
  <2>3. Numeric(value)
    BY <2>2 DEF Values, Numeric
  <2> QED BY <2>1, <2>3
<1>7. Numeric(None)
  BY DEF Numeric
<1> QED BY <1>2, <1>3, <1>5, <1>6, <1>7, Zenon DEF Value

\* A record is judged by finitely many conditions.
LEMMA MissingType ==
  ASSUME NEW src, NEW req \in Requirements, NEW id
  PROVE  MissingEvidence(src, req, id) \in Nat
<1>1. /\ IsFiniteSet(DOMAIN req.ranges) /\ IsFiniteSet(req.source_constraints)
      /\ IsFiniteSet(req.class_evidence) /\ IsFiniteSet(req.scientific_targets)
  BY RunAssumption
<1>2. \A x : IsFiniteSet({x}) /\ IsFiniteSet({})
  BY FS_Singleton, FS_EmptySet
<1>3. IsFiniteSet(CommonVerdicts(src, req, id))
  <2> DEFINE ranged == [name \in DOMAIN req.ranges |->
                          <<name, RangeVerdict(Value(src, id, name), req.ranges[name])>>]
  <2>1. IsFiniteSet({ranged[name] : name \in DOMAIN req.ranges})
    <3>1. DOMAIN ranged = DOMAIN req.ranges
      OBVIOUS
    <3> HIDE DEF ranged
    <3> QED BY <1>1, <3>1, FiniteImage
  <2>2. IsFiniteSet({<<name, RangeVerdict(Value(src, id, name), req.ranges[name])>> :
                       name \in DOMAIN req.ranges})
    BY <2>1
  <2> DEFINE
        A == {<<"elements", Verdict(ElementsMatch(req, id))>>}
        B == {<<name, RangeVerdict(Value(src, id, name), req.ranges[name])>> :
                name \in DOMAIN req.ranges}
        C == IF req.is_metal = None THEN {}
             ELSE {<<"is_metal",
                     EqualVerdict(Value(src, id, "is_metal"), req.is_metal, "flag")>>}
        D == IF req.max_num_sites = None THEN {}
             ELSE {<<"max_num_sites", IF Sites(id) = None THEN "MISSING"
                                      ELSE Verdict(Sites(id) <= req.max_num_sites)>>}
        E == IF req.dimensionality = None THEN {}
             ELSE {<<"dimensionality",
                     EqualVerdict(Value(src, id, "structural_dimensionality"),
                                  req.dimensionality, "num")>>}
  <2>3. /\ CommonVerdicts(src, req, id) = (((A \cup B) \cup C) \cup D) \cup E
        /\ IsFiniteSet(A) /\ IsFiniteSet(B) /\ IsFiniteSet(C) /\ IsFiniteSet(D)
        /\ IsFiniteSet(E)
    BY <1>2, <2>2 DEF CommonVerdicts
  <2> HIDE DEF A, B, C, D, E
  <2>4. IsFiniteSet(A \cup B)
    BY <2>3, FS_Union
  <2>5. IsFiniteSet((A \cup B) \cup C)
    BY <2>3, <2>4, FS_Union
  <2>6. IsFiniteSet(((A \cup B) \cup C) \cup D)
    BY <2>3, <2>5, FS_Union
  <2> QED BY <2>3, <2>6, FS_Union
<1>4. IsFiniteSet(FormulaVerdicts(req, id))
  BY <1>2 DEF FormulaVerdicts
<1>5. IsFiniteSet(SourceVerdicts(src, req, id))
  <2> DEFINE verdict == [c \in req.source_constraints |->
        <<c.name, IF c.source = src THEN EqualVerdict(Value(src, id, c.name), c.value.v, c.value.k)
                  ELSE "MISSING">>]
  <2>1. IsFiniteSet({verdict[c] : c \in req.source_constraints})
    <3>1. DOMAIN verdict = req.source_constraints
      OBVIOUS
    <3> HIDE DEF verdict
    <3> QED BY <1>1, <3>1, FiniteImage
  <2> QED BY <2>1 DEF SourceVerdicts
<1>6. IsFiniteSet(ClassVerdicts(src, req))
  <2> DEFINE named == req.class_evidence \cap NotJudged(src)
             verdict == [name \in named |-> <<name, "MISSING">>]
  <2>1. IsFiniteSet(named)
    BY <1>1, FS_Subset
  <2>2. IsFiniteSet({verdict[name] : name \in named})
    <3>1. DOMAIN verdict = named
      OBVIOUS
    <3> HIDE DEF verdict, named
    <3> QED BY <2>1, <3>1, FiniteImage
  <2> QED BY <2>2 DEF ClassVerdicts
<1>7. IsFiniteSet(Evaluations(src, req, id))
  <2>1. IsFiniteSet(CommonVerdicts(src, req, id) \cup FormulaVerdicts(req, id))
    BY <1>3, <1>4, FS_Union
  <2>2. IsFiniteSet((CommonVerdicts(src, req, id) \cup FormulaVerdicts(req, id))
                      \cup SourceVerdicts(src, req, id))
    BY <1>5, <2>1, FS_Union
  <2>3. IsFiniteSet(((CommonVerdicts(src, req, id) \cup FormulaVerdicts(req, id))
                       \cup SourceVerdicts(src, req, id)) \cup ClassVerdicts(src, req))
    BY <1>6, <2>2, FS_Union
  <2> QED BY <2>3 DEF Evaluations
<1>8. /\ Cardinality({e \in Evaluations(src, req, id) : e[2] \in {"MISSING", "ERROR"}}) \in Nat
      /\ Cardinality({t \in req.scientific_targets :
                        TargetVerdict(src, t, id) = "MISSING"}) \in Nat
  BY <1>1, <1>7, FS_Subset, FS_CardinalityType
<1> QED BY <1>8 DEF MissingEvidence

\* A ranking key is a list of numbers, two for each preference, with the id last.
KeyLength(req) == 2 * Len(req.ranking_preferences) + 3
LEMMA KeyShape ==
  ASSUME NEW src, NEW req \in Requirements, NEW id \in Ids
  PROVE  /\ KeyLength(req) \in Nat
         /\ RankingKey(src, req, id) \in [1 .. KeyLength(req) -> Int]
         /\ RankingKey(src, req, id)[KeyLength(req)] = id
<1> DEFINE prefs == req.ranking_preferences
           M == 2 * Len(prefs)
           value(n) == Value(src, id, prefs[(n + 1) \div 2].property)
           known(n) == value(n) # None /\ value(n).k = "num"
           Preferred(n) ==
             IF n % 2 = 1 THEN (IF known(n) THEN 0 ELSE 1)
             ELSE IF known(n) THEN Score(prefs[n \div 2], value(n)) ELSE 0
           head == <<IF Decision(src, req, id) = "PASS" THEN 0 ELSE 1>>
           body == [n \in 1 .. M |-> Preferred(n)]
           tail == <<MissingEvidence(src, req, id), id>>
<1>1. prefs \in Seq(Preferences) /\ Len(prefs) \in Nat
  <2>1. prefs \in Seq(Preferences)
    BY RunAssumption
  <2> QED BY <2>1
<1>2. M \in Nat /\ KeyLength(req) = M + 3 /\ M + 3 \in Nat
  <2>1. \A k \in Nat : 2 * k \in Nat
    OBVIOUS
  <2> QED BY <1>1, <2>1 DEF KeyLength
<1>3. RankingKey(src, req, id) = (head \o body) \o tail
  BY DEF RankingKey
<1>4. \A n \in 1 .. M : Preferred(n) \in Int
  <2> TAKE n \in 1 .. M
  <2>1. Numeric(value(n))
    BY ValueType
  <2>2. known(n) => value(n).v \in Int
    BY <2>1 DEF Numeric
  <2>3. CASE n % 2 = 1
    BY <2>3
  <2>4. CASE n % 2 # 1
    <3>1. n \div 2 \in 1 .. Len(prefs)
      <4>1. PICK k : k = Len(prefs)
        OBVIOUS
      <4>2. k \in Nat /\ n \in 1 .. 2 * k
        BY <1>1, <4>1
      <4>3. n % 2 = 0
        BY <2>4, <4>2
      <4> QED BY <4>1, <4>2, <4>3
    <3>2. PICK pref : pref = prefs[n \div 2]
      OBVIOUS
    <3>3. pref \in Preferences
      BY <1>1, <3>1, <3>2
    <3>4. pref.mode \in {"minimize", "maximize"} \/ pref.target \in Int
      BY <3>3 DEF Preferences
    <3>5. PICK val : val = value(n)
      OBVIOUS
    <3>6. ASSUME val.v \in Int PROVE Score(pref, val) \in Int
      BY <3>4, <3>6 DEF Score, Magnitude
    <3> QED BY <2>2, <2>4, <3>2, <3>5, <3>6
  <2> QED BY <2>3, <2>4
<1>5. body \in Seq(Int) /\ Len(body) = M
  <2> HIDE DEF Preferred, M
  <2>1. body \in [1 .. M -> Int]
    BY <1>4
  <2> HIDE DEF body
  <2> QED BY <1>2, <2>1, SeqDef
<1>6. head \in Seq(Int) /\ Len(head) = 1
  OBVIOUS
<1>7. /\ tail \in Seq(Int) /\ Len(tail) = 2 /\ tail[2] = id
  <2>1. MissingEvidence(src, req, id) \in Int /\ id \in Int
    BY MissingType, EvaluationAssumption
  <2> QED BY <2>1
<1> HIDE DEF head, body, tail, M
<1>8. head \o body \in Seq(Int) /\ Len(head \o body) = 1 + M
  <2>1. head \o body \in Seq(Int) /\ Len(head \o body) = Len(head) + Len(body)
    BY <1>5, <1>6, JoinType
  <2> QED BY <1>5, <1>6, <2>1
<1> DEFINE front == head \o body
<1>9. /\ front \o tail \in Seq(Int) /\ Len(front \o tail) = M + 3
      /\ (front \o tail)[M + 3] = tail[2]
  <2> HIDE DEF front
  <2>1. front \in Seq(Int) /\ Len(front) = 1 + M
    BY <1>8 DEF front
  <2>2. front \o tail \in Seq(Int) /\ Len(front \o tail) = M + 3
    <3>1. /\ front \o tail \in Seq(Int)
          /\ Len(front \o tail) = Len(front) + Len(tail)
      BY <1>7, <2>1, JoinType
    <3> QED BY <1>2, <1>7, <2>1, <3>1
  <2>3. M + 3 \in 1 .. Len(front \o tail) /\ M + 3 - Len(front) = 2
    BY <1>2, <2>1, <2>2
  <2> QED BY <1>2, <1>7, <2>1, <2>2, <2>3
<1>10. (front \o tail) \in [1 .. M + 3 -> Int]
  <2> DEFINE key == front \o tail
  <2> HIDE DEF key
  <2>1. key \in Seq(Int) /\ Len(key) = M + 3
    BY <1>9 DEF key
  <2>2. key \in [1 .. M + 3 -> Int]
    BY <2>1
  <2> QED BY <2>2 DEF key
<1> QED BY <1>2, <1>3, <1>7, <1>9, <1>10

\* The table holds what it is made of.
LEMMA PublishedIs ==
  ASSUME NEW s \in RunSources, NEW req \in Requirements, NEW ids \in SUBSET Ids
  PROVE  PublishedOf(s, req, ids) = Published(s, req, ids)
<1>1. Published(s, req, ids) \subseteq ids
  BY DEF Published, UpTo, Keys, Eligible
<1>2. \A id \in ids : <<s, req, ids, id>> \in PublishedTable <=> id \in Published(s, req, ids)
  BY DEF PublishedTable
<1> QED BY <1>1, <1>2 DEF PublishedOf

\* A record that could be published and is not has max_candidates better ones.
LEMMA OutdoneBy ==
  ASSUME NEW src \in RunSources, NEW req \in Requirements, NEW docs \in SUBSET Ids,
         NEW id \in Eligible(src, req, docs), id \notin Published(src, req, docs)
  PROVE  Cardinality({other \in Published(src, req, docs) :
                        <<other, id>> \in Outranks[src][req]}) = req.max_candidates
<1> DEFINE S == Eligible(src, req, docs)
           K == Keys(src, req, docs)
           L == KeyLength(req)
           N == req.max_candidates
           R == {pair \in S \X S : Before(K[pair[1]], K[pair[2]])}
           first == Published(src, req, docs)
           all == Keys(src, req, Ids)
<1>1. S \in SUBSET Ids /\ IsFiniteSet(S) /\ N \in Nat /\ DOMAIN K = S
  <2>1. S \in SUBSET Ids
    BY DEF Eligible
  <2>2. N \in Nat
    BY RunAssumption
  <2> HIDE DEF N
  <2> QED BY <2>1, <2>2, EvaluationAssumption, FS_Subset DEF Keys
<1>2. L \in Nat /\ \A x \in S : K[x] \in [1 .. L -> Int] /\ K[x][L] = x
  BY <1>1, KeyShape DEF Keys
<1>3. \A x, y \in S : x # y => K[x] # K[y]
  BY <1>2
<1>4. \A x, y \in S : <<x, y>> \in R <=> Before(K[x], K[y])
  OBVIOUS
<1>5. \A x \in S : K[x] = all[x] /\ x \in DOMAIN all
  BY <1>1 DEF Keys, Eligible
<1>6. first = {x \in S : PublicationRank(K, x) <= N}
  BY <1>1 DEF Published, UpTo
<1>7. Outranks[src][req] = {pair \in (DOMAIN all) \X (DOMAIN all) :
                              Before(all[pair[1]], all[pair[2]])}
  BY DEF Outranks, Outranking
<1>8. id \in S
  OBVIOUS
<1> HIDE DEF S, K, L, N, all
<1>9. /\ \A x \in S : ~Before(K[x], K[x])
      /\ \A x, y \in S : x = y \/ Before(K[x], K[y]) \/ Before(K[y], K[x])
      /\ \A x, y, z \in S : Before(K[x], K[y]) /\ Before(K[y], K[z]) => Before(K[x], K[z])
  <2>1. \A x \in S : K[x] \in [1 .. L -> Int]
    BY <1>2
  <2> QED BY <1>2, <1>3, <2>1, BeforeOrders
<1>10. \A x \in S : PublicationRank(K, x) = Cardinality(UpToIn(S, R, x))
  <2> TAKE x \in S
  <2> DEFINE ahead == {other \in S : Before(K[other], K[x])}
  <2>1. IsFiniteSet(ahead) /\ x \notin ahead
    BY <1>1, <1>9, FS_Subset
  <2>2. UpToIn(S, R, x) = ahead \cup {x}
    BY <1>4 DEF UpToIn
  <2>3. PublicationRank(K, x) = 1 + Cardinality(ahead)
    BY <1>1 DEF PublicationRank
  <2> HIDE DEF ahead
  <2>4. Cardinality(ahead \cup {x}) = Cardinality(ahead) + 1 /\ Cardinality(ahead) \in Nat
    BY <2>1, FS_AddElement, FS_CardinalityType
  <2>5. PICK c \in Nat : c = Cardinality(ahead)
    BY <2>4
  <2>6. Cardinality(UpToIn(S, R, x)) = c + 1
    BY <2>2, <2>4, <2>5
  <2>7. PublicationRank(K, x) = 1 + c
    BY <2>3, <2>5
  <2>8. 1 + c = c + 1
    BY <2>5
  <2> HIDE DEF R
  <2> QED BY <2>6, <2>7, <2>8
<1>11. first = {x \in S : Cardinality(UpToIn(S, R, x)) <= N}
  BY <1>6, <1>10
<1>12. /\ \A x \in S : <<x, x>> \notin R
       /\ \A x, y \in S : x = y \/ <<x, y>> \in R \/ <<y, x>> \in R
       /\ \A x, y, z \in S : <<x, y>> \in R /\ <<y, z>> \in R => <<x, z>> \in R
  BY <1>4, <1>9
<1>13. {other \in first : <<other, id>> \in Outranks[src][req]}
         = {other \in first : <<other, id>> \in R}
  <2>1. \A other \in first : other \in S
    BY <1>11
  <2>2. \A other \in S : <<other, id>> \in Outranks[src][req] <=> <<other, id>> \in R
    BY <1>4, <1>5, <1>7, <1>8
  <2> QED BY <2>1, <2>2
<1>14. id \notin first
  OBVIOUS
<1> HIDE DEF R, first
<1>15. Cardinality({other \in first : <<other, id>> \in R}) = N
  <2>1. IsFiniteSet(S) /\ N \in Nat
    BY <1>1
  <2>2. Ordered(S, R)
    BY <1>12 DEF Ordered
  <2>3. FirstOf(first, S, R, N)
    BY <1>11 DEF FirstOf
  <2>4. AllAhead(first, R, id) /\ Cardinality(first) = N
    BY <2>1, <2>2, <2>3, <1>8, <1>14, FirstOnes
  <2>5. {other \in first : <<other, id>> \in R} = first
    BY <2>4 DEF AllAhead
  <2> QED BY <2>4, <2>5
<1> QED BY <1>13, <1>15 DEF first, N

\* collect_documents, rank_candidates: where the filters a source is sent let every
\* record through that meets all conditions, a record listed during the whole
\* search that meets them is published by a SUCCEEDED run, unless max_candidates
\* better ones are; for a source read page by page, while the listing stays.
THEOREM NothingMissed == ASSUME AsksForAll PROVE Spec => []SucceededMissesNothing
<1>1. Init => LossInv
  BY LossInit
<1>2. IndInv /\ LossInv /\ [Next]_vars => LossInv'
  BY LossKeeps
<1>3. IndInv /\ LossInv => SucceededMissesNothing
  <2> SUFFICES ASSUME IndInv, LossInv, disk["operation"] # None,
                      disk["operation"].result.status = "SUCCEEDED",
                      source \notin ByPage \/ trouble["remote"] = 0
               PROVE  LET recorded == disk["operation"].result
                          req == disk["input"]
                          Better(id) == {other \in recorded.published :
                                           <<other, id>> \in Outranks[source][req]}
                      IN  \A id \in steady \cap Wanted[source][req] :
                            \/ id \in recorded.published
                            \/ Cardinality(Better(id)) = req.max_candidates
    BY DEF SucceededMissesNothing
  <2> DEFINE docs == disk["operation"].result.docs
             req == disk["input"]
             published == disk["operation"].result.published
  <2>1. Sought(req) \subseteq docs
    BY DEF LossInv, NothingLost, Untouched
  <2>2. /\ published = PublishedOf(source, req, docs)
        /\ docs = ToSet(FlattenSeq(disk["raw_manifest"]))
    BY DEF IndInv, StoreOK, CompletionIsCoherent
  <2>3. source \in RunSources /\ req \in Requirements
    <3>1. req # None
      BY DEF LossInv
    <3>2. req \in {None} \cup Requirements
      BY ContentsAre DEF IndInv, ShapesOK, FilesOK, Artifacts
    <3> QED BY <3>1, <3>2 DEF IndInv, ShapesOK, source
  <2>4. docs \in SUBSET Ids
    BY DEF LossInv
  <2>5. published = Published(source, req, docs)
    BY <2>2, <2>3, <2>4, PublishedIs
  <2>6. ASSUME NEW id \in steady \cap Wanted[source][req]
        PROVE  \/ id \in published
               \/ Cardinality({other \in published : <<other, id>> \in Outranks[source][req]})
                    = req.max_candidates
    <3>1. /\ id \in Ids /\ Entry[id].complete /\ Decision(source, req, id) = "PASS"
          /\ id \in steady
      BY <2>3, <2>6 DEF Wanted
    <3>2. Matches(source, req, id)
      BY <2>3, <2>6 DEF AsksForAll
    <3>3. id \in docs
      BY <2>1, <3>1, <3>2 DEF Sought, Rows
    <3>4. id \in Eligible(source, req, docs)
      BY <3>1, <3>3 DEF Eligible
    <3> QED BY <2>3, <2>4, <2>5, <3>4, OutdoneBy
  <2> QED BY <2>6
<1> QED BY <1>1, <1>2, <1>3, IndInvAlways, PTL DEF Spec
=============================================================================
