---------------------------- MODULE ListingFacts ----------------------------
(***************************************************************************)
(* Facts about finite sets and sequences that the proofs of several        *)
(* components rest on: induction over sets of numbers, sets put in order,  *)
(* sequences joined, functions defined step by step, and sums.             *)
(***************************************************************************)
EXTENDS Listing, Integers, SequencesExt, SequenceTheorems, FiniteSetTheorems,
        WellFoundedInduction, TLAPS

(***************************************************************************)
(* Induction, and sets put in order.                                       *)
(***************************************************************************)

\* Induction over the natural numbers, as a fact about sets.
THEOREM SetInduction ==
  ASSUME NEW B \in SUBSET Nat, 0 \in B, \A m \in B : m + 1 \in B
  PROVE  B = Nat
<1> SUFFICES ASSUME Nat \ B # {} PROVE FALSE
  OBVIOUS
<1> DEFINE T == Nat \ B
           R == OpToRel(<, Nat)
<1>1. IsWellFoundedOn(R, Nat)
  BY NatLessThanWellFounded
<1>2. T \subseteq Nat /\ T # {}
  OBVIOUS
<1>3. \E x \in T : \A y \in T : ~ (<<y, x>> \in R)
  <2> HIDE DEF T, R
  <2> QED BY <1>1, <1>2, WFMin
<1>4. \A x, y \in Nat : x < y => <<x, y>> \in R
  BY DEF OpToRel
<1>5. PICK x \in T : \A y \in T : ~ (y < x)
  BY <1>3, <1>4
<1>6. x # 0 /\ x - 1 \in Nat
  BY <1>5
<1>7. x - 1 \in B
  BY <1>5, <1>6
<1> QED BY <1>5, <1>6, <1>7

\* Those that come no later than x.
UpToIn(S, R, x) == {y \in S : y = x \/ <<y, x>> \in R}

\* Induction from the end of an interval to its beginning.
LEMMA BackInduction ==
  ASSUME NEW n \in Nat, NEW B \in SUBSET (1 .. n),
         \A s \in 1 .. n : s + 1 .. n \subseteq B => s \in B
  PROVE  B = 1 .. n
<1> DEFINE C == {k \in Nat : k <= n => n - k + 1 .. n \subseteq B}
<1>1. 0 \in C
  OBVIOUS
<1>2. ASSUME NEW k \in C PROVE k + 1 \in C
  <2> SUFFICES ASSUME k + 1 <= n PROVE n - (k + 1) + 1 .. n \subseteq B
    OBVIOUS
  <2>1. PICK s \in 1 .. n : s = n - k
    OBVIOUS
  <2>2. s + 1 .. n \subseteq B
    BY <2>1
  <2>3. s \in B
    BY <2>2
  <2> QED BY <2>1, <2>2, <2>3
<1>3. C = Nat
  <2>1. C \in SUBSET Nat
    OBVIOUS
  <2> HIDE DEF C
  <2> QED BY <1>1, <1>2, <2>1, SetInduction
<1>4. n \in C
  <2> HIDE DEF C
  <2> QED BY <1>3
<1>5. n - n + 1 .. n \subseteq B /\ n - n + 1 = 1
  BY <1>4
<1> QED BY <1>5

\* In a finite set with a strict total order, every place is taken.
LEMMA PlaceTaken ==
  ASSUME NEW S, IsFiniteSet(S), NEW R,
         \A x \in S : <<x, x>> \notin R,
         \A x, y \in S : x = y \/ <<x, y>> \in R \/ <<y, x>> \in R,
         \A x, y, z \in S : <<x, y>> \in R /\ <<y, z>> \in R => <<x, z>> \in R
  PROVE  /\ Cardinality(S) \in Nat
         /\ \A x \in S : Cardinality(UpToIn(S, R, x)) \in 1 .. Cardinality(S)
         /\ \A n \in 1 .. Cardinality(S) : \E x \in S :
              Cardinality(UpToIn(S, R, x)) = n
         /\ \A x, y \in S : <<x, y>> \in R =>
              Cardinality(UpToIn(S, R, x)) < Cardinality(UpToIn(S, R, y))
<1> DEFINE N == Cardinality(S)
           Until(x) == UpToIn(S, R, x)
           place == [x \in S |-> Cardinality(Until(x))]
<1>1. N \in Nat
  BY FS_CardinalityType
<1>2. ASSUME NEW x \in S
      PROVE  IsFiniteSet(Until(x)) /\ Cardinality(Until(x)) \in 1 .. N
  <2>1. Until(x) \in SUBSET S /\ Until(x) # {}
    BY DEF UpToIn
  <2> HIDE DEF Until
  <2>2. IsFiniteSet(Until(x)) /\ Cardinality(Until(x)) \in 0 .. N
    BY <1>1, <2>1, FS_Subset, FS_CardinalityType
  <2>3. Cardinality(Until(x)) # 0
    BY <2>1, <2>2, FS_EmptySet
  <2> QED BY <1>1, <2>2, <2>3
<1>3. ASSUME NEW x \in S, NEW y \in S, <<x, y>> \in R
      PROVE  Cardinality(Until(x)) < Cardinality(Until(y))
  <2>1. /\ Until(x) \in SUBSET Until(y)
        /\ y \in Until(y) /\ y \notin Until(x)
    BY <1>3 DEF UpToIn
  <2> HIDE DEF Until
  <2>2. /\ Cardinality(Until(x)) <= Cardinality(Until(y))
        /\ Cardinality(Until(x)) # Cardinality(Until(y))
    BY <1>2, <2>1, FS_Subset
  <2> QED BY <1>2, <2>2
<1> HIDE DEF Until
<1>4. place \in Injection(S, 1 .. N)
  <2>1. place \in [S -> 1 .. N]
    BY <1>2
  <2>2. ASSUME NEW x \in S, NEW y \in S, place[x] = place[y]
        PROVE  x = y
    <3>1. Cardinality(Until(x)) = Cardinality(Until(y))
      BY <2>2
    <3>2. /\ <<x, y>> \in R => Cardinality(Until(x)) < Cardinality(Until(y))
          /\ <<y, x>> \in R => Cardinality(Until(y)) < Cardinality(Until(x))
      BY <1>3
    <3>3. Cardinality(Until(x)) \in Nat
      BY <1>2
    <3> QED BY <3>1, <3>2, <3>3
  <2> HIDE DEF place
  <2> QED BY <2>1, <2>2 DEF Injection, IsInjective
<1>5. IsFiniteSet(1 .. N) /\ Cardinality(1 .. N) = N
  BY <1>1, FS_Interval
<1>6. place \in Surjection(S, 1 .. N)
  <2> HIDE DEF place
  <2> QED BY <1>4, <1>5, FS_Injection
<1>7. ASSUME NEW n \in 1 .. N PROVE \E x \in S : Cardinality(Until(x)) = n
  <2>1. \E x \in S : place[x] = n
    <3> HIDE DEF place
    <3> QED BY <1>6 DEF Surjection
  <2> QED BY <2>1
<1> QED
  BY <1>1, <1>2, <1>3, <1>7 DEF Until

\* An interval is finite and as large as it is long.
LEMMA IntervalFacts ==
  ASSUME NEW n \in Nat
  PROVE  IsFiniteSet(1 .. n) /\ Cardinality(1 .. n) = n
  BY FS_Interval

\* A finite set in a strict total order, as a sequence: all of it, each once.
LEMMA RankedFacts ==
  ASSUME NEW S, IsFiniteSet(S), NEW R,
         \A x \in S : <<x, x>> \notin R,
         \A x, y \in S : x = y \/ <<x, y>> \in R \/ <<y, x>> \in R,
         \A x, y, z \in S : <<x, y>> \in R /\ <<y, z>> \in R => <<x, z>> \in R
  PROVE  /\ Cardinality(S) \in Nat /\ Len(Ranked(S, R)) = Cardinality(S)
         /\ Ranked(S, R) \in Seq(S)
         /\ \A x \in S : \E n \in 1 .. Cardinality(S) : Ranked(S, R)[n] = x
         /\ \A m, n \in 1 .. Cardinality(S) :
              m < n => <<Ranked(S, R)[m], Ranked(S, R)[n]>> \in R
<1> DEFINE N == Cardinality(S)
           at(x) == Cardinality(UpToIn(S, R, x))
           s == Ranked(S, R)
<1>1. N \in Nat /\ \A x \in S : at(x) \in 1 .. N
  BY PlaceTaken
<1>2. \A n \in 1 .. N : \E x \in S : at(x) = n
  BY PlaceTaken
<1>3. \A x, y \in S : <<x, y>> \in R => at(x) < at(y)
  BY PlaceTaken
<1>4. s = [n \in 1 .. N |-> CHOOSE x \in S : at(x) = n]
  BY DEF Ranked, UpToIn
<1> HIDE DEF at
<1>5. \A n \in 1 .. N : s[n] \in S /\ at(s[n]) = n
  <2> HIDE DEF s
  <2> QED BY <1>2, <1>4
<1>6. s \in [1 .. N -> S]
  <2> HIDE DEF s
  <2> QED BY <1>4, <1>5
<1> HIDE DEF s, N
<1>7. ASSUME NEW x \in S, NEW y \in S, at(x) = at(y) PROVE x = y
  <2>1. at(x) \in Nat /\ ~(at(x) < at(y)) /\ ~(at(y) < at(x))
    BY <1>1, <1>7
  <2> QED BY <1>3, <2>1
<1>8. ASSUME NEW x \in S PROVE \E n \in 1 .. N : s[n] = x
  BY <1>1, <1>5, <1>7
<1>9. ASSUME NEW m \in 1 .. N, NEW n \in 1 .. N, m < n
      PROVE  <<s[m], s[n]>> \in R
  <2>1. m < n /\ m \in Nat /\ n \in Nat
    BY <1>1, <1>9
  <2>2. s[m] \in S /\ s[n] \in S /\ at(s[m]) = m /\ at(s[n]) = n
    BY <1>5
  <2>3. s[m] # s[n] /\ <<s[n], s[m]>> \notin R
    <3>1. <<s[n], s[m]>> \in R => at(s[n]) < at(s[m])
      BY <1>3, <2>2
    <3> QED BY <2>1, <2>2, <3>1
  <2> QED BY <2>2, <2>3
<1>10. s \in Seq(S) /\ Len(s) = N
  BY <1>1, <1>6
<1> QED BY <1>1, <1>8, <1>9, <1>10 DEF s, N

\* R orders S: strictly, and any two elements.
Orders(R, S) ==
  /\ \A x \in S : <<x, x>> \notin R
  /\ \A x, y \in S : x = y \/ <<x, y>> \in R \/ <<y, x>> \in R
  /\ \A x, y, z \in S : <<x, y>> \in R /\ <<y, z>> \in R => <<x, z>> \in R

\* A finite set in a strict total order has a least element.
LEMMA LeastExists ==
  ASSUME NEW S, IsFiniteSet(S), S # {}, NEW R, Orders(R, S)
  PROVE  \E x \in S : \A y \in S \ {x} : <<x, y>> \in R
<1> DEFINE N == Cardinality(S)
           s == Ranked(S, R)
<1>1. /\ N \in Nat /\ Len(s) = N /\ s \in Seq(S)
      /\ \A x \in S : \E n \in 1 .. N : s[n] = x
      /\ \A m, n \in 1 .. N : m < n => <<s[m], s[n]>> \in R
  BY RankedFacts DEF Orders
<1>2. N # 0
  BY FS_EmptySet
<1> HIDE DEF N, s
<1>3. 1 \in 1 .. N /\ s[1] \in S
  BY <1>1, <1>2
<1>4. ASSUME NEW y \in S \ {s[1]} PROVE <<s[1], y>> \in R
  <2>1. PICK n \in 1 .. N : s[n] = y
    BY <1>1
  <2>2. n # 1 /\ 1 < n
    BY <1>1, <1>4, <2>1
  <2> QED BY <1>1, <1>3, <2>1, <2>2
<1> QED BY <1>3, <1>4

\* A finite set of numbers has a least and a greatest element.
LEMMA BoundsExist ==
  ASSUME NEW S \in SUBSET Int, IsFiniteSet(S), S # {}
  PROVE  (\E x \in S : \A y \in S : x <= y) /\ (\E x \in S : \A y \in S : x >= y)
<1> DEFINE Up == {pair \in S \X S : pair[1] < pair[2]}
           Down == {pair \in S \X S : pair[1] > pair[2]}
<1>1. Orders(Up, S)
  BY DEF Orders
<1>2. Orders(Down, S)
  BY DEF Orders
<1>3. \A x, y \in S : (<<x, y>> \in Up => x <= y) /\ (<<x, y>> \in Down => x >= y)
  OBVIOUS
<1> HIDE DEF Up, Down
<1>4. \E x \in S : \A y \in S \ {x} : <<x, y>> \in Up
  BY <1>1, LeastExists
<1>5. \E x \in S : \A y \in S \ {x} : <<x, y>> \in Down
  BY <1>2, LeastExists
<1>6. \A x \in S : x <= x /\ x >= x
  OBVIOUS
<1>7. \E x \in S : \A y \in S : x <= y
  BY <1>3, <1>4, <1>6
<1>8. \E x \in S : \A y \in S : x >= y
  BY <1>3, <1>5, <1>6
<1> QED BY <1>7, <1>8

\* Lexicographic order of three numbers.
Lower(a, b) == \E i \in 1 .. 3 : a[i] < b[i] /\ \A j \in 1 .. i - 1 : a[j] = b[j]

\* The lexicographic order of three numbers is one.
LEMMA LowerOrders ==
  ASSUME NEW K \in SUBSET (Nat \X Nat \X Nat)
  PROVE  /\ Orders({pair \in K \X K : Lower(pair[1], pair[2])}, K)
         /\ \A a, b \in K : Lower(a, b) => ~Lower(b, a)
<1> DEFINE R == {pair \in K \X K : Lower(pair[1], pair[2])}
           Before(a, b) == \/ a[1] < b[1]
                           \/ a[1] = b[1] /\ a[2] < b[2]
                           \/ a[1] = b[1] /\ a[2] = b[2] /\ a[3] < b[3]
<1>1. \A a, b : Lower(a, b) <=> Before(a, b)
  <2> TAKE a, b
  <2>1. ASSUME Before(a, b) PROVE Lower(a, b)
    <3>1. CASE a[1] < b[1]
      <4>1. 1 \in 1 .. 3 /\ \A j \in 1 .. 1 - 1 : a[j] = b[j]
        OBVIOUS
      <4> QED BY <3>1, <4>1 DEF Lower
    <3>2. CASE a[1] = b[1] /\ a[2] < b[2]
      <4>1. 2 \in 1 .. 3 /\ \A j \in 1 .. 2 - 1 : j = 1
        OBVIOUS
      <4> QED BY <3>2, <4>1 DEF Lower
    <3>3. CASE a[1] = b[1] /\ a[2] = b[2] /\ a[3] < b[3]
      <4>1. 3 \in 1 .. 3 /\ \A j \in 1 .. 3 - 1 : j = 1 \/ j = 2
        OBVIOUS
      <4> QED BY <3>3, <4>1 DEF Lower
    <3> QED BY <2>1, <3>1, <3>2, <3>3
  <2>2. ASSUME Lower(a, b) PROVE Before(a, b)
    <3>1. PICK i \in 1 .. 3 : a[i] < b[i] /\ \A j \in 1 .. i - 1 : a[j] = b[j]
      BY <2>2 DEF Lower
    <3>2. i = 1 \/ i = 2 \/ i = 3
      OBVIOUS
    <3>3. (i = 2 => a[1] = b[1]) /\ (i = 3 => a[1] = b[1] /\ a[2] = b[2])
      BY <3>1
    <3> QED BY <3>1, <3>2, <3>3
  <2> QED BY <2>1, <2>2
<1>2. \A a \in K : a = <<a[1], a[2], a[3]>> /\ a[1] \in Nat /\ a[2] \in Nat /\ a[3] \in Nat
  OBVIOUS
<1>3. \A a \in K : ~Before(a, a)
  BY <1>2
<1>4. \A a, b \in K : a = b \/ Before(a, b) \/ Before(b, a)
  <2> TAKE a, b \in K
  <2>1. (a[1] = b[1] /\ a[2] = b[2] /\ a[3] = b[3]) \/ Before(a, b) \/ Before(b, a)
    BY <1>2
  <2> QED BY <1>2, <2>1
<1>5. \A a, b, c \in K : Before(a, b) /\ Before(b, c) => Before(a, c)
  BY <1>2
<1>6. \A a, b \in K : Before(a, b) => ~Before(b, a)
  BY <1>2
<1>7. \A a, b \in K : <<a, b>> \in R <=> Before(a, b)
  BY <1>1
<1> HIDE DEF Before, R
<1>8. Orders(R, K)
  BY <1>3, <1>4, <1>5, <1>7 DEF Orders
<1> QED BY <1>1, <1>6, <1>8 DEF R

\* A set of numbers in ascending order.
LEMMA AscendingFacts ==
  ASSUME NEW S \in SUBSET Nat, IsFiniteSet(S)
  PROVE  /\ Cardinality(S) \in Nat /\ Len(Ascending(S)) = Cardinality(S)
         /\ Ascending(S) \in Seq(S)
         /\ \A x \in S : \E n \in 1 .. Cardinality(S) : Ascending(S)[n] = x
         /\ \A m, n \in 1 .. Cardinality(S) :
              m < n => Ascending(S)[m] < Ascending(S)[n]
<1> DEFINE R == {pair \in Nat \X Nat : pair[1] < pair[2]}
<1>1. /\ \A x \in S : <<x, x>> \notin R
      /\ \A x, y \in S : x = y \/ <<x, y>> \in R \/ <<y, x>> \in R
      /\ \A x, y, z \in S : <<x, y>> \in R /\ <<y, z>> \in R => <<x, z>> \in R
  OBVIOUS
<1>2. \A x, y \in S : (y = x \/ <<y, x>> \in R) <=> y <= x
  OBVIOUS
<1>3. Ascending(S) = Ranked(S, R)
  <2> HIDE DEF R
  <2>1. \A x \in S : {y \in S : y <= x} = {y \in S : y = x \/ <<y, x>> \in R}
    BY <1>2
  <2> DEFINE F(n) == CHOOSE x \in S : Cardinality({y \in S : y <= x}) = n
             G(n) == CHOOSE x \in S : Cardinality({y \in S : y = x \/ <<y, x>> \in R}) = n
  <2>2. /\ Ascending(S) = [n \in 1 .. Cardinality(S) |-> F(n)]
        /\ Ranked(S, R) = [n \in 1 .. Cardinality(S) |-> G(n)]
    BY DEF Ascending, Ranked
  <2>3. \A n : F(n) = G(n)
    BY <2>1
  <2> HIDE DEF F, G
  <2> QED BY <2>2, <2>3
<1>4. /\ Cardinality(S) \in Nat /\ Len(Ranked(S, R)) = Cardinality(S)
      /\ Ranked(S, R) \in Seq(S)
      /\ \A x \in S : \E n \in 1 .. Cardinality(S) : Ranked(S, R)[n] = x
      /\ \A m, n \in 1 .. Cardinality(S) :
           m < n => <<Ranked(S, R)[m], Ranked(S, R)[n]>> \in R
  <2> HIDE DEF R
  <2> QED BY <1>1, RankedFacts
<1> QED BY <1>3, <1>4

(***************************************************************************)
(* Sequences joined.                                                       *)
(***************************************************************************)

\* f[i] joins the first i sequences of ss.
Joins(f, ss) ==
  /\ DOMAIN f = 1 .. Len(ss)
  /\ \A i \in 1 .. Len(ss) : f[i] = IF i = 1 THEN ss[i] ELSE f[i-1] \o ss[i]

\* FlattenSeq is the last of these.
LEMMA JoinsExist ==
  ASSUME NEW S, NEW ss \in Seq(Seq(S))
  PROVE  \E f \in [1 .. Len(ss) -> Seq(S)] : Joins(f, ss)
<1> DEFINE Up(n) == \E f \in [1 .. n -> Seq(S)] :
             \A i \in 1 .. n : f[i] = IF i = 1 THEN ss[i] ELSE f[i-1] \o ss[i]
           B == {n \in Nat : n <= Len(ss) => Up(n)}
<1>1. Len(ss) \in Nat
  OBVIOUS
<1>2. 0 \in B
  <2> DEFINE e == [i \in 1 .. 0 |-> <<>>]
  <2>1. e \in [1 .. 0 -> Seq(S)]
    OBVIOUS
  <2>2. Up(0)
    <3>1. \A i \in 1 .. 0 : FALSE
      OBVIOUS
    <3> HIDE DEF e
    <3> QED BY <2>1, <3>1
  <2> HIDE DEF Up
  <2> QED BY <2>2
<1>3. ASSUME NEW n \in B PROVE n + 1 \in B
  <2>0. SUFFICES ASSUME n + 1 <= Len(ss) PROVE Up(n + 1)
    <3> HIDE DEF Up
    <3> QED OBVIOUS
  <2>1. n \in Nat /\ Up(n)
    <3> HIDE DEF Up
    <3> QED BY <1>1, <2>0
  <2>2. PICK f \in [1 .. n -> Seq(S)] :
             \A i \in 1 .. n : f[i] = IF i = 1 THEN ss[i] ELSE f[i-1] \o ss[i]
    BY <2>1
  <2> DEFINE last == IF n = 0 THEN ss[1] ELSE f[n] \o ss[n + 1]
             g == [i \in 1 .. n + 1 |-> IF i <= n THEN f[i] ELSE last]
  <2>3. last \in Seq(S)
    <3>1. n + 1 \in 1 .. Len(ss) /\ ss[n + 1] \in Seq(S)
      BY <1>1, <2>0, <2>1
    <3>2. n # 0 => f[n] \in Seq(S) /\ f[n] \o ss[n + 1] \in Seq(S)
      BY <2>1, <3>1
    <3> QED BY <3>1, <3>2
  <2>4. g \in [1 .. n + 1 -> Seq(S)]
    BY <2>1, <2>2, <2>3
  <2>5. ASSUME NEW i \in 1 .. n + 1
        PROVE  g[i] = IF i = 1 THEN ss[i] ELSE g[i-1] \o ss[i]
    <3>1. CASE i <= n
      <4>1. i \in 1 .. n /\ g[i] = f[i] /\ (i # 1 => i - 1 \in 1 .. n /\ g[i - 1] = f[i - 1])
        BY <2>1, <3>1
      <4> QED BY <2>2, <4>1
    <3>2. CASE i = n + 1
      BY <2>1, <3>2
    <3> QED BY <2>1, <3>1, <3>2
  <2> QED BY <2>4, <2>5
<1>4. B = Nat
  <2> HIDE DEF B
  <2>1. B \subseteq Nat BY DEF B
  <2> QED BY <1>2, <1>3, <2>1, SetInduction
<1>5. Up(Len(ss))
  <2> HIDE DEF Up
  <2> QED BY <1>1, <1>4
<1> QED BY <1>5 DEF Joins

\* FlattenSeq (SequencesExt) chooses the one function that joins step by step.
LEMMA FlattenJoins ==
  ASSUME NEW S, NEW ss \in Seq(Seq(S)), Len(ss) # 0
  PROVE  \E f : Joins(f, ss) /\ FlattenSeq(ss) = f[Len(ss)]
<1> DEFINE Is(f) == f = [i \in 1 .. Len(ss) |-> IF i = 1 THEN ss[i] ELSE f[i-1] \o ss[i]]
           flat == CHOOSE f : Is(f)
<1>1. FlattenSeq(ss) = flat[Len(ss)]
  BY DEF FlattenSeq
<1>2. PICK g \in [1 .. Len(ss) -> Seq(S)] : Joins(g, ss)
  BY JoinsExist
<1>3. Is(g)
  BY <1>2 DEF Joins
<1>4. Is(flat)
  <2> HIDE DEF Is
  <2> QED BY <1>3
<1>5. Joins(flat, ss)
  <2> HIDE DEF flat
  <2> QED BY <1>4 DEF Joins
<1> HIDE DEF flat
<1> QED BY <1>1, <1>5

\* Joining sequences keeps the type of their elements.
LEMMA FlattenType ==
  ASSUME NEW S, NEW ss \in Seq(Seq(S))
  PROVE  FlattenSeq(ss) \in Seq(S)
<1>1. CASE Len(ss) = 0
  <2>1. FlattenSeq(ss) = ss /\ ss = <<>>
    BY <1>1 DEF FlattenSeq
  <2> QED BY <2>1
<1>2. CASE Len(ss) # 0
  <2>1. PICK f : Joins(f, ss) /\ FlattenSeq(ss) = f[Len(ss)]
    BY <1>2, FlattenJoins
  <2> DEFINE B == {n \in Nat : n + 1 <= Len(ss) => f[n + 1] \in Seq(S)}
  <2>2. Len(ss) \in Nat /\ \A i \in 1 .. Len(ss) : ss[i] \in Seq(S)
    OBVIOUS
  <2>3. 0 \in B
    <3>1. 1 \in 1 .. Len(ss) => f[1] = ss[1] /\ ss[1] \in Seq(S)
      BY <2>1, <2>2 DEF Joins
    <3>2. 1 <= Len(ss) => f[1] \in Seq(S)
      BY <2>2, <3>1
    <3>3. 0 + 1 = 1
      OBVIOUS
    <3> QED BY <3>2, <3>3
  <2>4. ASSUME NEW n \in B PROVE n + 1 \in B
    <3> SUFFICES ASSUME n + 2 <= Len(ss) PROVE f[n + 2] \in Seq(S)
      OBVIOUS
    <3>1. n \in Nat /\ f[n + 1] \in Seq(S) /\ n + 2 \in 1 .. Len(ss) /\ n + 2 # 1
          /\ (n + 2) - 1 = n + 1
      BY <2>2
    <3>2. f[n + 2] = f[n + 1] \o ss[n + 2]
      BY <2>1, <3>1 DEF Joins
    <3> QED BY <2>2, <3>1, <3>2
  <2>5. B = Nat
    <3>1. B \subseteq Nat OBVIOUS
    <3> HIDE DEF B
    <3> QED BY <2>3, <2>4, <3>1, SetInduction
  <2>6. Len(ss) - 1 \in B /\ (Len(ss) - 1) + 1 = Len(ss)
    <3> HIDE DEF B
    <3> QED BY <1>2, <2>2, <2>5
  <2> QED BY <2>1, <2>2, <2>6
<1> QED BY <1>1, <1>2

(***************************************************************************)
(* Functions defined step by step.                                         *)
(***************************************************************************)

\* f starts with base, and each value comes from the one before.
Steps(f, N, base, next) ==
  /\ DOMAIN f = 0 .. N /\ f[0] = base
  /\ \A n \in 1 .. N : f[n] = next[n][f[n - 1]]

LEMMA StepsExist ==
  ASSUME NEW N \in Nat, NEW V, NEW base \in V, NEW next \in [1 .. N -> [V -> V]]
  PROVE  \E f \in [0 .. N -> V] : Steps(f, N, base, next)
<1> DEFINE B == {n \in Nat : n <= N => \E f \in [0 .. n -> V] :
                   f[0] = base /\ \A i \in 1 .. n : f[i] = next[i][f[i - 1]]}
<1>1. 0 \in B
  <2> DEFINE e == [i \in {0} |-> base]
  <2>1. e \in [0 .. 0 -> V] /\ e[0] = base /\ \A i \in 1 .. 0 : FALSE
    BY 0 .. 0 = {0}
  <2> HIDE DEF e
  <2> QED BY <2>1
<1>2. ASSUME NEW m \in B PROVE m + 1 \in B
  <2> SUFFICES ASSUME m + 1 <= N
               PROVE  \E f \in [0 .. m + 1 -> V] :
                        /\ f[0] = base
                        /\ \A i \in 1 .. m + 1 : f[i] = next[i][f[i - 1]]
    OBVIOUS
  <2>1. PICK f \in [0 .. m -> V] :
               f[0] = base /\ \A i \in 1 .. m : f[i] = next[i][f[i - 1]]
    OBVIOUS
  <2> DEFINE last == next[m + 1][f[m]]
             g == [i \in 0 .. m + 1 |-> IF i <= m THEN f[i] ELSE last]
  <2>2. last \in V
    <3>1. m + 1 \in 1 .. N /\ m \in 0 .. m
      OBVIOUS
    <3>2. next[m + 1] \in [V -> V] /\ f[m] \in V
      BY <2>1, <3>1
    <3> QED BY <3>2
  <2>3. g \in [0 .. m + 1 -> V]
    BY <2>1, <2>2
  <2>4. ASSUME NEW i \in 1 .. m + 1 PROVE g[i] = next[i][g[i - 1]]
    <3>1. CASE i <= m
      <4>1. g[i] = f[i] /\ g[i - 1] = f[i - 1] /\ i \in 1 .. m
        BY <3>1
      <4> QED BY <2>1, <4>1
    <3>2. CASE i = m + 1
      <4>1. g[i] = last /\ g[i - 1] = f[m]
        BY <3>2
      <4> QED BY <3>2, <4>1
    <3> QED BY <3>1, <3>2
  <2>5. g[0] = base
    BY <2>1
  <2> HIDE DEF g
  <2> QED BY <2>3, <2>4, <2>5
<1>3. B = Nat
  <2>1. B \in SUBSET Nat
    OBVIOUS
  <2> HIDE DEF B
  <2> QED BY <1>1, <1>2, <2>1, SetInduction
<1>4. N \in B
  BY <1>3
<1> QED BY <1>4 DEF Steps
(***************************************************************************)
(* Sums.  A sum is the number of the units it is made of.                  *)
(***************************************************************************)

\* The values of a function on a finite set.
LEMMA FiniteImage ==
  ASSUME NEW S, IsFiniteSet(S), NEW f, DOMAIN f = S
  PROVE  /\ IsFiniteSet({f[x] : x \in S})
         /\ Cardinality({f[x] : x \in S}) <= Cardinality(S)
<1> DEFINE T == {f[x] : x \in S}
           g == [x \in S |-> f[x]]
<1>1. g \in [S -> T] /\ \A t \in T : \E x \in S : g[x] = t
  OBVIOUS
<1> HIDE DEF g, T
<1>2. g \in Surjection(S, T)
  BY <1>1 DEF Surjection
<1>3. IsFiniteSet(T) /\ Cardinality(T) <= Cardinality(S)
  BY <1>2, FS_Surjection
<1> QED BY <1>3 DEF T

Units(w, S) == {unit \in S \X Nat : unit[2] \in 1 .. w[unit[1]]}
Total(w, S) == Cardinality(Units(w, S))

LEMMA TotalFacts ==
  ASSUME NEW S, IsFiniteSet(S), NEW w, \A x \in S : w[x] \in Nat
  PROVE  /\ IsFiniteSet(Units(w, S)) /\ Total(w, S) \in Nat
         /\ S = {} => Total(w, S) = 0
         /\ \A x \in S : Total(w, S) = w[x] + Total(w, S \ {x})
<1>1. ASSUME NEW x \in S
      PROVE  IsFiniteSet(Units(w, {x})) /\ Cardinality(Units(w, {x})) = w[x]
  <2>1. /\ IsFiniteSet({x}) /\ Cardinality({x}) = 1
        /\ IsFiniteSet(1 .. w[x]) /\ Cardinality(1 .. w[x]) = w[x] /\ w[x] \in Nat
    BY FS_Singleton, IntervalFacts
  <2>2. Units(w, {x}) = {x} \X (1 .. w[x])
    BY DEF Units
  <2>3. /\ IsFiniteSet({x} \X (1 .. w[x]))
        /\ Cardinality({x} \X (1 .. w[x])) = Cardinality({x}) * Cardinality(1 .. w[x])
    <3> DEFINE A == {x}
               B == 1 .. w[x]
    <3>1. IsFiniteSet(A) /\ IsFiniteSet(B)
      BY <2>1
    <3> HIDE DEF A, B
    <3>2. IsFiniteSet(A \X B) /\ Cardinality(A \X B) = Cardinality(A) * Cardinality(B)
      BY <3>1, FS_Product
    <3> QED BY <3>2 DEF A, B
  <2>4. 1 * w[x] = w[x]
    BY <2>1
  <2> QED BY <2>1, <2>2, <2>3, <2>4
<1>2. ASSUME NEW T \in SUBSET S
      PROVE  IsFiniteSet(Units(w, T)) /\ Total(w, T) \in Nat
  <2> DEFINE Parts == {Units(w, {x}) : x \in T}
  <2>1. IsFiniteSet(T)
    BY FS_Subset
  <2>2. IsFiniteSet(Parts) /\ \A P \in Parts : IsFiniteSet(P)
    <3> DEFINE part == [x \in T |-> Units(w, {x})]
    <3>1. Parts = {part[x] : x \in T} /\ DOMAIN part = T
      OBVIOUS
    <3> HIDE DEF part
    <3>2. IsFiniteSet({part[x] : x \in T})
      BY <2>1, <3>1, FiniteImage
    <3> QED BY <1>1, <3>1, <3>2
  <2>3. Units(w, T) = UNION Parts
    BY DEF Units
  <2> HIDE DEF Parts
  <2>4. IsFiniteSet(UNION Parts)
    BY <2>2, FS_UNION
  <2> QED BY <2>3, <2>4, FS_CardinalityType DEF Total
<1>3. S = {} => Total(w, S) = 0
  <2>1. S = {} => Units(w, S) = {}
    BY DEF Units
  <2> QED BY <2>1, FS_EmptySet DEF Total
<1>4. ASSUME NEW x \in S PROVE Total(w, S) = w[x] + Total(w, S \ {x})
  <2> DEFINE A == Units(w, {x})
             B == Units(w, S \ {x})
  <2>1. Units(w, S) = A \cup B /\ A \cap B = {}
    BY DEF Units
  <2>2. IsFiniteSet(A) /\ IsFiniteSet(B) /\ Cardinality(A) = w[x] /\ Cardinality(B) \in Nat
    BY <1>1, <1>2 DEF Total
  <2> HIDE DEF A, B
  <2>3. Cardinality(A \cup B) = Cardinality(A) + Cardinality(B) - Cardinality({})
    BY <2>1, <2>2, FS_Union
  <2>4. Cardinality(A \cup B) = w[x] + Cardinality(B)
    BY <2>2, <2>3, FS_EmptySet
  <2> QED BY <2>1, <2>4 DEF Total, B
<1> QED BY <1>2, <1>3, <1>4

\* What folds a set of numbers into their sum (Functions, Folds) computes it.
LEMMA SumTotal ==
  ASSUME NEW S, IsFiniteSet(S), NEW w \in [S -> Nat]
  PROVE  SumFunction(w) = Total(w, S)
<1> DEFINE Pick(s) == CHOOSE x \in s : TRUE
           Sums(f) == f = [s \in SUBSET S |->
                             IF s = {} THEN 0 ELSE w[Pick(s)] + f[s \ {Pick(s)}]]
           sum == CHOOSE f : Sums(f)
           total == [s \in SUBSET S |-> Total(w, s)]
<1>1. DOMAIN w = S
  OBVIOUS
<1>2. SumFunction(w) = sum[S]
  BY <1>1 DEF SumFunction, SumFunctionOnSet, FoldFunctionOnSet, MapThenFoldSet
<1>3. ASSUME NEW s \in SUBSET S
      PROVE  /\ IsFiniteSet(s) /\ Total(w, s) \in Nat
             /\ s = {} => Total(w, s) = 0
             /\ s # {} => /\ Pick(s) \in s
                          /\ Total(w, s) = w[Pick(s)] + Total(w, s \ {Pick(s)})
  <2>1. IsFiniteSet(s) /\ \A x \in s : w[x] \in Nat
    BY FS_Subset
  <2>2. s # {} => Pick(s) \in s
    OBVIOUS
  <2> HIDE DEF Pick
  <2> QED BY <2>1, <2>2, TotalFacts
<1>4. Sums(total)
  <2>1. ASSUME NEW s \in SUBSET S
        PROVE  total[s] = IF s = {} THEN 0 ELSE w[Pick(s)] + total[s \ {Pick(s)}]
    <3> HIDE DEF Pick
    <3> QED BY <1>3
  <2> HIDE DEF Pick
  <2> QED BY <2>1
<1>5. Sums(sum)
  <2> HIDE DEF Sums, total
  <2> QED BY <1>4
<1> HIDE DEF sum
<1> DEFINE B == {n \in Nat : \A s \in SUBSET S : Cardinality(s) = n => sum[s] = Total(w, s)}
<1>6. 0 \in B
  <2>1. ASSUME NEW s \in SUBSET S, Cardinality(s) = 0 PROVE sum[s] = Total(w, s)
    <3>1. s = {}
      BY <1>3, <2>1, FS_EmptySet
    <3> HIDE DEF Pick
    <3> QED BY <1>3, <1>5, <3>1
  <2> QED BY <2>1
<1>7. ASSUME NEW n \in B PROVE n + 1 \in B
  <2>1. ASSUME NEW s \in SUBSET S, Cardinality(s) = n + 1 PROVE sum[s] = Total(w, s)
    <3> DEFINE rest == s \ {Pick(s)}
    <3>1. s # {}
      BY <2>1, FS_EmptySet
    <3>2. Pick(s) \in s
      BY <1>3, <3>1
    <3>3. rest \in SUBSET S /\ Cardinality(rest) = n
      <4>1. Cardinality(rest) = Cardinality(s) - 1
        <5> HIDE DEF Pick
        <5> QED BY <1>3, <3>2, FS_RemoveElement
      <4> QED BY <2>1, <4>1
    <3>4. sum[rest] = Total(w, rest)
      <4> HIDE DEF rest
      <4> QED BY <3>3
    <3>5. sum[s] = w[Pick(s)] + sum[rest]
      <4> HIDE DEF Pick
      <4> QED BY <1>5, <3>1
    <3> HIDE DEF Pick
    <3> QED BY <1>3, <3>1, <3>4, <3>5
  <2> QED BY <2>1
<1>8. B = Nat
  <2>1. B \in SUBSET Nat
    OBVIOUS
  <2> HIDE DEF B
  <2> QED BY <1>6, <1>7, <2>1, SetInduction
<1>9. sum[S] = Total(w, S)
  <2>1. Cardinality(S) \in Nat
    BY FS_CardinalityType
  <2>2. Cardinality(S) \in B
    BY <1>8, <2>1
  <2> QED BY <2>2
<1> QED BY <1>2, <1>9

\* The sum of the sizes of sets is at least the size of their union, and exactly
\* that if they are disjoint.
LEMMA SumOfSizes ==
  ASSUME NEW Q, IsFiniteSet(Q), NEW F, \A q \in Q : IsFiniteSet(F[q]),
         NEW w \in [Q -> Nat], \A q \in Q : w[q] = Cardinality(F[q])
  PROVE  /\ IsFiniteSet(UNION {F[q] : q \in Q})
         /\ SumFunction(w) \in Nat
         /\ Cardinality(UNION {F[q] : q \in Q}) <= SumFunction(w)
         /\ (\A p, q \in Q : p # q => F[p] \cap F[q] = {})
              => Cardinality(UNION {F[q] : q \in Q}) = SumFunction(w)
<1> DEFINE All(T) == UNION {F[q] : q \in T}
           Apart == \A p, q \in Q : p # q => F[p] \cap F[q] = {}
           Good(T) == /\ IsFiniteSet(All(T)) /\ Cardinality(All(T)) \in Nat
                      /\ Cardinality(All(T)) <= Total(w, T)
                      /\ Apart => Cardinality(All(T)) = Total(w, T)
           B == {n \in Nat : \A T \in SUBSET Q : Cardinality(T) = n => Good(T)}
<1>1. ASSUME NEW T \in SUBSET Q
      PROVE  /\ IsFiniteSet(T) /\ Cardinality(T) \in Nat /\ Total(w, T) \in Nat
             /\ T = {} => Total(w, T) = 0
             /\ \A q \in T : Total(w, T) = w[q] + Total(w, T \ {q})
  <2>1. IsFiniteSet(T) /\ \A q \in T : w[q] \in Nat
    BY FS_Subset
  <2> QED BY <2>1, TotalFacts, FS_CardinalityType
<1>2. 0 \in B
  <2>1. ASSUME NEW T \in SUBSET Q, Cardinality(T) = 0 PROVE Good(T)
    <3>1. T = {}
      BY <1>1, <2>1, FS_EmptySet
    <3>2. All(T) = {}
      BY <3>1
    <3>3. IsFiniteSet(All(T)) /\ Cardinality(All(T)) = 0
      <4> HIDE DEF All
      <4> QED BY <3>2, FS_EmptySet
    <3> HIDE DEF All, Apart
    <3> QED BY <1>1, <3>1, <3>3
  <2> HIDE DEF Good
  <2> QED BY <2>1
<1>3. ASSUME NEW n \in B PROVE n + 1 \in B
  <2>1. ASSUME NEW T \in SUBSET Q, Cardinality(T) = n + 1 PROVE Good(T)
    <3>1. PICK q \in T : TRUE
      <4>1. T # {}
        BY <2>1, FS_EmptySet
      <4> QED BY <4>1
    <3> DEFINE rest == T \ {q}
    <3>2. rest \in SUBSET Q /\ Cardinality(rest) = n
      <4>1. Cardinality(rest) = Cardinality(T) - 1
        BY <1>1, FS_RemoveElement
      <4> QED BY <2>1, <4>1
    <3>3. Good(rest)
      <4> HIDE DEF rest, Good
      <4> QED BY <3>2
    <3>4. All(T) = All(rest) \cup F[q]
      OBVIOUS
    <3>5. Total(w, T) = w[q] + Total(w, rest)
      BY <1>1
    <3>6. IsFiniteSet(F[q]) /\ w[q] = Cardinality(F[q]) /\ w[q] \in Nat
      OBVIOUS
    <3>7. Apart => All(rest) \cap F[q] = {}
      OBVIOUS
    <3> HIDE DEF All, Apart, rest
    <3>8. /\ IsFiniteSet(All(rest) \cup F[q])
          /\ Cardinality(All(rest) \cup F[q])
               = Cardinality(All(rest)) + Cardinality(F[q]) - Cardinality(All(rest) \cap F[q])
      BY <3>3, <3>6, FS_Union
    <3>9. /\ Cardinality(All(rest) \cap F[q]) \in Nat
          /\ Apart => Cardinality(All(rest) \cap F[q]) = 0
      <4>1. IsFiniteSet(All(rest) \cap F[q])
        BY <3>6, FS_Subset
      <4> QED BY <3>7, <4>1, FS_CardinalityType, FS_EmptySet
    <3>10. Cardinality(All(rest) \cup F[q]) \in Nat
      BY <3>8, FS_CardinalityType
    <3> QED BY <1>1, <3>2, <3>3, <3>4, <3>5, <3>6, <3>8, <3>9, <3>10
  <2> HIDE DEF Good
  <2> QED BY <2>1
<1>4. B = Nat
  <2>1. B \in SUBSET Nat
    OBVIOUS
  <2> HIDE DEF B
  <2> QED BY <1>2, <1>3, <2>1, SetInduction
<1>5. Good(Q)
  <2>1. Cardinality(Q) \in B
    BY <1>1, <1>4
  <2> HIDE DEF Good
  <2> QED BY <2>1
<1>6. SumFunction(w) = Total(w, Q)
  BY SumTotal
<1> QED BY <1>1, <1>5, <1>6

\* The union of finitely many finite sets.
UnionOver(F, Q) == UNION {F[q] : q \in Q}
LEMMA UnionIsFinite ==
  ASSUME NEW Q, IsFiniteSet(Q), NEW F, \A q \in Q : IsFiniteSet(F[q])
  PROVE  IsFiniteSet(UnionOver(F, Q))
<1> DEFINE f == [q \in Q |-> F[q]]
           T == {f[q] : q \in Q}
<1>1. DOMAIN f = Q /\ UnionOver(F, Q) = UNION T /\ \A X \in T : IsFiniteSet(X)
  BY DEF UnionOver
<1>2. IsFiniteSet(T)
  <2> HIDE DEF f
  <2> QED BY <1>1, FiniteImage
<1> HIDE DEF T
<1> QED BY <1>1, <1>2, FS_UNION
=============================================================================
