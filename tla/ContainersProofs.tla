----------------------------- MODULE ContainersProofs -----------------------------
(***************************************************************************)
(* Proofs about Containers, for any heap, any number of buckets, and any   *)
(* names, values and entries: the lists of the router stay linked in both  *)
(* directions, and the heap has exactly their cells, through every         *)
(* sequence of calls of linkedlist.c and hashmap.c.  These calls implement *)
(* a sequence of items and a function on the names.                        *)
(***************************************************************************)
EXTENDS Containers, SequenceTheorems, FiniteSetTheorems, TLAPS

---------------------------------------------------------------------------------
(* A loop over next. *)

\* A set of numbers has a least one.  (The intervals from 0 to each of them are finite
\* sets, of which one contains no other strictly.)
LEMMA LeastNumber ==
  ASSUME NEW T \in SUBSET Nat, T # {}
  PROVE  \E m \in T : \A k \in T : m <= k
<1> DEFINE F == {0..n : n \in T}
<1>1. \A n \in T : IsFiniteSet(0..n) /\ 0..n \in SUBSET Nat
  BY FS_Interval
<1>2. F \subseteq FiniteSubsetsOf(Nat) /\ F # {}
  BY <1>1 DEF FiniteSubsetsOf
<1>3. PICK x \in F : \A y \in F : <<y, x>> \notin StrictSubsetOrdering(Nat)
  <2> HIDE DEF F
  <2> QED
    BY <1>2, FS_StrictSubsetOrderingWellFounded, WFMin
<1>4. PICK m \in T : x = 0..m
  OBVIOUS
<1>5. ASSUME NEW k \in T, ~(m <= k) PROVE FALSE
  <2>1. 0..k \subseteq 0..m /\ m \in 0..m /\ m \notin 0..k
    BY <1>5
  <2>2. 0..k \in SUBSET Nat /\ 0..m \in SUBSET Nat /\ 0..k # 0..m
    BY <2>1
  <2>3. <<0..k, 0..m>> \in StrictSubsetOrdering(Nat)
    BY <2>1, <2>2 DEF StrictSubsetOrdering
  <2> QED
    BY <1>3, <1>4, <2>3
<1> QED
  BY <1>5

\* The cells of a list are so many different ones.
LEMMA ChainFits ==
  ASSUME NEW s, Represents(s), NEW l \in Lists
  PROVE  /\ Len(s[l]) \in Nat /\ DOMAIN s[l] = 1..Len(s[l])
         /\ \A k \in 1..Len(s[l]) : s[l][k] \in Cells
         /\ Len(s[l]) <= Cardinality(Cells) /\ Cardinality(Cells) \in Nat
         /\ s[l] = <<>> <=> Len(s[l]) = 0
<1> DEFINE n == Len(s[l])
<1>1. s[l] \in Seq(Cells)
  BY DEF Represents
<1>2. n \in Nat /\ DOMAIN s[l] = 1..n /\ s[l] \in [1..n -> Cells] /\ (s[l] = <<>> <=> n = 0)
  BY <1>1, LenProperties, EmptySeq
<1>3. \A i, j \in 1..n : s[l][i] = s[l][j] => i = j
  BY <1>2 DEF Represents, OnePlace
<1>4. s[l] \in Injection(1..n, Cells)
  BY <1>2, <1>3 DEF Injection, IsInjective
<1>5. Cardinality(1..n) = n
  BY <1>2, FS_Interval
<1>6. Cardinality(1..n) <= Cardinality(Cells) /\ Cardinality(Cells) \in Nat
  BY <1>4, HeapAssumption, FS_Injection, FS_CardinalityType
<1> QED
  BY <1>2, <1>5, <1>6

\* From the head, next leads through the cells of a list in their order, and to NULL
\* after the last.
LEMMA WalkFollows ==
  ASSUME NEW s, Represents(s), NEW l \in Lists
  PROVE  Walk(l) = [i \in 0..Cardinality(Cells) |->
                      IF i < Len(s[l]) THEN s[l][i + 1] ELSE NULL]
<1> DEFINE n == Len(s[l])
           N == Cardinality(Cells)
           g == [i \in 0..N |-> IF i < n THEN s[l][i + 1] ELSE NULL]
           Step(w) == [i \in 0..N |->
                         IF i = 0 THEN head[l]
                         ELSE LET c == w[i - 1] IN IF c = NULL THEN NULL ELSE next[c]]
<1>1. /\ n \in Nat /\ N \in Nat /\ n <= N /\ DOMAIN s[l] = 1..n
      /\ \A k \in 1..n : s[l][k] \in Cells /\ s[l][k] # NULL
      /\ s[l] = <<>> <=> n = 0
  BY ChainFits, HeapAssumption
<1>2. /\ head[l] = IF n = 0 THEN NULL ELSE s[l][1]
      /\ \A k \in 1..n : next[s[l][k]] = IF k = n THEN NULL ELSE s[l][k + 1]
  BY <1>1 DEF Represents, Linked
<1>3. g = Step(g)
  <2>1. ASSUME NEW i \in 0..N
        PROVE  g[i] = IF i = 0 THEN head[l]
                      ELSE LET c == g[i - 1] IN IF c = NULL THEN NULL ELSE next[c]
    <3>1. CASE i = 0
      BY <1>1, <1>2, <3>1
    <3>2. CASE i # 0 /\ i <= n
      <4>1. i \in 1..n /\ i - 1 \in 0..N /\ g[i - 1] = s[l][i]
        BY <1>1, <3>2
      <4>2. next[s[l][i]] = IF i = n THEN NULL ELSE s[l][i + 1]
        BY <1>2, <4>1
      <4> QED
        BY <1>1, <3>2, <4>1, <4>2
    <3>3. CASE i > n
      <4>1. i # 0 /\ i - 1 \in 0..N /\ g[i - 1] = NULL /\ g[i] = NULL
        BY <1>1, <3>3
      <4> QED
        BY <4>1
    <3> QED
      BY <1>1, <3>1, <3>2, <3>3
  <2> HIDE DEF g
  <2>2. g = [i \in 0..N |-> g[i]]
    BY DEF g
  <2> QED
    BY <2>1, <2>2
<1>4. \A w : w = Step(w) => w = g
  <2> SUFFICES ASSUME NEW w, w = Step(w) PROVE w = g
    OBVIOUS
  <2> DEFINE differ == {i \in 0..N : w[i] # g[i]}
  <2>1. CASE differ # {}
    <3>1. differ \in SUBSET Nat
      BY <1>1
    <3>2. PICK i \in differ : \A k \in differ : i <= k
      BY <2>1, <3>1, LeastNumber
    <3>3. i \in 0..N /\ w[i] = Step(w)[i] /\ g[i] = Step(g)[i]
      BY <1>3, <3>2
    <3>4. i # 0
      BY <3>2, <3>3
    <3>5. i - 1 \in 0..N /\ i - 1 \notin differ
      BY <1>1, <3>2, <3>3, <3>4
    <3>6. w[i - 1] = g[i - 1]
      BY <3>5
    <3> QED
      BY <3>2, <3>3, <3>4, <3>6
  <2>2. CASE differ = {}
    BY <2>2
  <2> QED
    BY <2>1, <2>2
<1>5. Walk(l) = CHOOSE w : w = Step(w)
  BY DEF Walk
<1> QED
  BY <1>3, <1>4, <1>5

\* So At finds the cells of a list by their positions.
LEMMA AtPosition ==
  ASSUME NEW s, Represents(s), NEW l \in Lists
  PROVE  /\ \A i : At(l, i) = IF i \in 0..Len(s[l]) - 1 THEN s[l][i + 1] ELSE NULL
         /\ Positions(l) = 0..Len(s[l]) - 1
<1>1. /\ Len(s[l]) \in Nat /\ Cardinality(Cells) \in Nat /\ Len(s[l]) <= Cardinality(Cells)
      /\ \A k \in 1..Len(s[l]) : s[l][k] \in Cells /\ s[l][k] # NULL
  BY ChainFits, HeapAssumption
<1> DEFINE n == Len(s[l])
           N == Cardinality(Cells)
<1>2. Walk(l) = [i \in 0..N |-> IF i < n THEN s[l][i + 1] ELSE NULL]
  BY WalkFollows
<1> HIDE DEF n, N
<1>3. DOMAIN Walk(l) = 0..N /\ \A i \in 0..N : Walk(l)[i] = IF i < n THEN s[l][i + 1] ELSE NULL
  BY <1>2
<1>4. \A i : At(l, i) = IF i \in 0..n - 1 THEN s[l][i + 1] ELSE NULL
  BY <1>1, <1>3 DEF At, n, N
<1>5. Positions(l) = 0..n - 1
  BY <1>1, <1>3 DEF Positions, n, N
<1> QED
  BY <1>4, <1>5 DEF n

\* What the invariant says of a single list.
LEMMA ListFields ==
  ASSUME NEW s, Represents(s), NEW l \in Lists
  PROVE  LET n == Len(s[l]) IN
         /\ size[l] = n
         /\ head[l] = IF n = 0 THEN NULL ELSE s[l][1]
         /\ tail[l] = IF n = 0 THEN NULL ELSE s[l][n]
         /\ \A k \in 1..n : /\ next[s[l][k]] = IF k = n THEN NULL ELSE s[l][k + 1]
                            /\ prev[s[l][k]] = IF k = 1 THEN NULL ELSE s[l][k - 1]
BY ChainFits DEF Represents, Linked

\* No cell has two places.
LEMMA CellHasOnePlace ==
  ASSUME NEW s, Represents(s), NEW l \in Lists, NEW m \in Lists,
         NEW i \in 1..Len(s[l]), NEW j \in 1..Len(s[m]), s[l][i] = s[m][j]
  PROVE  l = m /\ i = j
<1>1. i \in DOMAIN s[l] /\ j \in DOMAIN s[m]
  BY ChainFits
<1> QED
  BY <1>1 DEF Represents, OnePlace

\* The sequences are those a loop over next comes to.
LEMMA ChainsAreThose ==
  ASSUME NEW s, Represents(s)
  PROVE  Chains = s
<1>1. ASSUME NEW l \in Lists
      PROVE  [k \in 1..size[l] |-> At(l, k - 1)] = s[l]
  <2> DEFINE n == Len(s[l])
  <2>1. n \in Nat /\ DOMAIN s[l] = 1..n /\ s[l] \in Seq(Cells) /\ size[l] = n
    BY ChainFits, ListFields DEF Represents
  <2>2. ASSUME NEW k \in 1..n PROVE At(l, k - 1) = s[l][k]
    <3>1. k - 1 \in 0..n - 1 /\ (k - 1) + 1 = k
      BY <2>1
    <3> QED
      BY <3>1, AtPosition
  <2>3. s[l] = [k \in 1..n |-> s[l][k]]
    BY <2>1
  <2> HIDE DEF n
  <2> QED
    BY <2>1, <2>2, <2>3
<1>2. s = [l \in Lists |-> s[l]]
  BY DEF Represents
<1> QED
  BY <1>1, <1>2 DEF Chains

\* The lists can be walked in both directions.
LEMMA RepresentsWellLinked ==
  ASSUME NEW s, Represents(s)
  PROVE  WellLinked
<1> SUFFICES ASSUME NEW l \in Lists
             PROVE  /\ Cardinality(Positions(l)) = size[l]
                    /\ size[l] = 0 => head[l] = NULL /\ tail[l] = NULL
                    /\ size[l] > 0 =>
                         /\ At(l, size[l] - 1) = tail[l] /\ next[tail[l]] = NULL
                         /\ prev[head[l]] = NULL
                         /\ \A i \in 1..size[l] - 1 : prev[At(l, i)] = At(l, i - 1)
  BY DEF WellLinked
<1> DEFINE n == Len(s[l])
<1>1. /\ n \in Nat /\ size[l] = n
      /\ head[l] = IF n = 0 THEN NULL ELSE s[l][1]
      /\ tail[l] = IF n = 0 THEN NULL ELSE s[l][n]
      /\ \A k \in 1..n : /\ next[s[l][k]] = IF k = n THEN NULL ELSE s[l][k + 1]
                         /\ prev[s[l][k]] = IF k = 1 THEN NULL ELSE s[l][k - 1]
  BY ChainFits, ListFields
<1>2. /\ \A i : At(l, i) = IF i \in 0..n - 1 THEN s[l][i + 1] ELSE NULL
      /\ Positions(l) = 0..n - 1
  BY AtPosition
<1> HIDE DEF n
<1>3. Cardinality(0..n - 1) = n
  <2>1. 0 \in Int /\ n - 1 \in Int /\ (0 > n - 1 <=> n = 0) /\ (n - 1) - 0 + 1 = n
    BY <1>1
  <2>2. Cardinality(0..n - 1) = IF 0 > n - 1 THEN 0 ELSE (n - 1) - 0 + 1
    BY <2>1, FS_Interval
  <2> QED
    BY <2>1, <2>2
<1>4. ASSUME NEW i \in 1..n - 1 PROVE prev[At(l, i)] = At(l, i - 1)
  <2>1. i \in 0..n - 1 /\ i - 1 \in 0..n - 1 /\ i + 1 \in 1..n /\ i + 1 # 1
        /\ (i + 1) - 1 = i /\ (i - 1) + 1 = i
    BY <1>1
  <2>2. At(l, i) = s[l][i + 1] /\ At(l, i - 1) = s[l][i]
    BY <1>2, <2>1
  <2> QED
    BY <1>1, <2>1, <2>2
<1>5. ASSUME n > 0
      PROVE  At(l, n - 1) = tail[l] /\ next[tail[l]] = NULL /\ prev[head[l]] = NULL
  <2>1. n - 1 \in 0..n - 1 /\ (n - 1) + 1 = n /\ n \in 1..n /\ 1 \in 1..n /\ n # 0
    BY <1>1, <1>5
  <2>2. At(l, n - 1) = s[l][n] /\ tail[l] = s[l][n] /\ head[l] = s[l][1]
    BY <1>1, <1>2, <2>1
  <2> QED
    BY <1>1, <2>1, <2>2
<1> QED
  BY <1>1, <1>2, <1>3, <1>4, <1>5

\* The cells in use are those of the lists.
LEMMA RepresentsHeapExact ==
  ASSUME FieldsOK, NEW s, Represents(s)
  PROVE  HeapExact
<1>1. \A l \in Lists :
        /\ Len(s[l]) \in Nat /\ DOMAIN s[l] = 1..Len(s[l])
        /\ \A k \in 1..Len(s[l]) : s[l][k] \in Cells
  BY ChainFits
<1>2. \A l \in Lists :
        /\ Positions(l) = 0..Len(s[l]) - 1
        /\ \A i \in 0..Len(s[l]) - 1 : i + 1 \in 1..Len(s[l]) /\ At(l, i) = s[l][i + 1]
  <2> SUFFICES ASSUME NEW l \in Lists
               PROVE  /\ Positions(l) = 0..Len(s[l]) - 1
                      /\ \A i \in 0..Len(s[l]) - 1 :
                           i + 1 \in 1..Len(s[l]) /\ At(l, i) = s[l][i + 1]
    OBVIOUS
  <2>1. Len(s[l]) \in Nat
    BY <1>1
  <2>2. \A i \in 0..Len(s[l]) - 1 : i + 1 \in 1..Len(s[l])
    BY <2>1
  <2> QED
    BY <2>2, AtPosition
<1>3. ASSUME NEW l \in Lists, NEW m \in Lists,
             NEW i \in Positions(l), NEW j \in Positions(m), At(l, i) = At(m, j)
      PROVE  l = m /\ i = j
  <2>1. s[l][i + 1] = s[m][j + 1] /\ i + 1 \in 1..Len(s[l]) /\ j + 1 \in 1..Len(s[m])
    BY <1>2, <1>3, SMTT(30)
  <2>2. i \in Int /\ j \in Int
    BY <1>1, <1>2
  <2>3. l = m /\ i + 1 = j + 1
    BY <2>1, CellHasOnePlace
  <2> QED
    BY <2>2, <2>3
<1>4. \A c \in Cells : c \in used <=> \E l \in Lists : \E k \in 1..Len(s[l]) : s[l][k] = c
  BY <1>1 DEF Represents, OnePlace
<1>5. ASSUME NEW c \in used PROVE \E l \in Lists : \E i \in Positions(l) : At(l, i) = c
  <2> PICK l \in Lists : \E k \in 1..Len(s[l]) : s[l][k] = c
    BY <1>4 DEF FieldsOK
  <2>1. PICK k \in 1..Len(s[l]) : s[l][k] = c
    OBVIOUS
  <2>2. k - 1 \in 0..Len(s[l]) - 1 /\ (k - 1) + 1 = k
    BY <1>1, <2>1
  <2> QED
    BY <1>2, <2>1, <2>2
<1>6. ASSUME NEW l \in Lists, NEW i \in Positions(l) PROVE At(l, i) \in used
  BY <1>1, <1>2, <1>4
<1>7. used = UNION {{At(l, i) : i \in Positions(l)} : l \in Lists}
  BY <1>5, <1>6
<1> QED
  BY <1>3, <1>7 DEF HeapExact

---------------------------------------------------------------------------------
(* A cell is taken out of a list. *)

\* A cell is unlinked: the fields of its neighbours, and the list's if it was the first
\* or the last, pass it by.
Unlinked(s, l, p) ==
  LET n == Len(s[l]) IN
  /\ used' = used \ {s[l][p]}
  /\ \A m \in Lists :
       /\ size'[m] = IF m = l THEN n - 1 ELSE size[m]
       /\ head'[m] = IF m # l \/ p # 1 THEN head[m] ELSE IF n = 1 THEN NULL ELSE s[l][2]
       /\ tail'[m] = IF m # l \/ p # n THEN tail[m] ELSE IF n = 1 THEN NULL ELSE s[l][n - 1]
  /\ \A d \in Cells \ {s[l][p]} :
       /\ next'[d] = IF p = 1 \/ d # s[l][p - 1] THEN next[d]
                     ELSE IF p = n THEN NULL ELSE s[l][p + 1]
       /\ prev'[d] = IF p = n \/ d # s[l][p + 1] THEN prev[d]
                     ELSE IF p = 1 THEN NULL ELSE s[l][p - 1]

\* t has the cells that s has, but the one at position p of the list l.
Without(t, s, l, p) ==
  /\ t[l] = [k \in 1..Len(s[l]) - 1 |-> s[l][IF k >= p THEN k + 1 ELSE k]]
  /\ \A m \in Lists \ {l} : t[m] = s[m]

\* The other cells keep their order.
LEMMA UnlinkedRepresents ==
  ASSUME NEW s, Represents(s), NEW l \in Lists, NEW p \in 1..Len(s[l]), Unlinked(s, l, p)
  PROVE  \E t : Represents(t)' /\ Without(t, s, l, p)
<1> DEFINE n == Len(s[l])
           len(m) == IF m = l THEN n - 1 ELSE Len(s[m])
           old(m, k) == IF m = l /\ k >= p THEN k + 1 ELSE k
<1> PICK t : t = [m \in Lists |-> [k \in 1..len(m) |-> s[m][old(m, k)]]]
  OBVIOUS
<1>1. /\ n \in Nat /\ p \in 1..n
      /\ \A m \in Lists : /\ Len(s[m]) \in Nat /\ DOMAIN s[m] = 1..Len(s[m])
                          /\ \A k \in 1..Len(s[m]) : s[m][k] \in Cells
                          /\ s[m] = <<>> <=> Len(s[m]) = 0
  BY ChainFits
<1>2. \A m \in Lists : len(m) \in Nat
  BY <1>1
<1>3. ASSUME NEW m \in Lists, NEW k \in 1..len(m)
      PROVE  /\ old(m, k) \in 1..Len(s[m]) /\ (m = l => old(m, k) # p)
             /\ k \in Int /\ s[m][old(m, k)] \in Cells
             /\ s[m][old(m, k)] # s[l][p]
  <2>1. old(m, k) \in 1..Len(s[m]) /\ (m = l => old(m, k) # p) /\ k \in Int
    BY <1>1
  <2> HIDE DEF old
  <2> QED
    BY <1>1, <2>1, CellHasOnePlace
<1>4. ASSUME NEW m \in Lists
      PROVE  /\ t[m] \in Seq(Cells) /\ Len(t[m]) = len(m) /\ DOMAIN t[m] = 1..len(m)
             /\ \A k \in 1..len(m) : t[m][k] = s[m][old(m, k)]
             /\ t[m] = <<>> <=> len(m) = 0
  <2> HIDE DEF len, old
  <2>1. t[m] = [k \in 1..len(m) |-> s[m][old(m, k)]]
    OBVIOUS
  <2>2. \A k \in 1..len(m) : s[m][old(m, k)] \in Cells
    BY <1>3
  <2>3. t[m] \in Seq(Cells) /\ Len(t[m]) = len(m)
    BY <1>2, <2>1, <2>2
  <2> QED
    BY <1>2, <2>1, <2>3, EmptySeq, LenProperties
<1>5. OnePlace(t)'
  <2>1. ASSUME NEW m \in Lists, NEW q \in Lists, NEW i \in 1..len(m), NEW j \in 1..len(q),
               t[m][i] = t[q][j]
        PROVE  m = q /\ i = j
    <3>1. s[m][old(m, i)] = s[q][old(q, j)]
      BY <1>4, <2>1
    <3>2. m = q /\ old(m, i) = old(q, j)
      <4>1. \A a \in 1..Len(s[m]), b \in 1..Len(s[q]) : s[m][a] = s[q][b] => m = q /\ a = b
        BY CellHasOnePlace
      <4> HIDE DEF old
      <4> QED
        BY <1>3, <3>1, <4>1
    <3> QED
      BY <1>1, <1>3, <3>2
  <2>2. ASSUME NEW c \in used', c \in Cells
        PROVE  \E m \in Lists : \E i \in 1..len(m) : t[m][i] = c
    <3>1. c \in used /\ c # s[l][p]
      BY <2>2 DEF Unlinked
    <3> PICK m \in Lists : \E k \in DOMAIN s[m] : s[m][k] = c
      BY <2>2, <3>1 DEF Represents, OnePlace
    <3>2. PICK k \in 1..Len(s[m]) : s[m][k] = c
      BY <1>1
    <3> DEFINE i == IF m = l /\ k > p THEN k - 1 ELSE k
    <3>3. m = l => k # p
      BY <3>1, <3>2
    <3>4. i \in 1..len(m) /\ old(m, i) = k
      BY <1>1, <3>3
    <3>5. t[m][i] = c
      <4> HIDE DEF i, old, len
      <4> QED
        BY <1>4, <3>2, <3>4
    <3> QED
      BY <3>4, <3>5
  <2>3. ASSUME NEW m \in Lists, NEW i \in 1..len(m)
        PROVE  t[m][i] \in used'
    <3> DEFINE k == old(m, i)
    <3>1. t[m][i] = s[m][k] /\ k \in 1..Len(s[m]) /\ s[m][k] \in Cells /\ s[m][k] # s[l][p]
      BY <1>3, <1>4
    <3> HIDE DEF k
    <3>2. s[m][k] \in used
      BY <1>1, <3>1 DEF Represents, OnePlace
    <3> QED
      BY <3>1, <3>2 DEF Unlinked
  <2>4. \A m, q \in Lists : \A i \in DOMAIN t[m], j \in DOMAIN t[q] :
          t[m][i] = t[q][j] => m = q /\ i = j
    <3> HIDE DEF len, old
    <3> QED
      BY <1>4, <2>1
  <2>5. ASSUME NEW c \in Cells
        PROVE  c \in used' <=> \E m \in Lists : \E i \in DOMAIN t[m] : t[m][i] = c
    <3> HIDE DEF len, old
    <3>1. c \in used' => \E m \in Lists : \E i \in DOMAIN t[m] : t[m][i] = c
      BY <1>4, <2>2
    <3>2. ASSUME NEW m \in Lists, NEW i \in DOMAIN t[m], t[m][i] = c PROVE c \in used'
      BY <1>4, <2>3, <3>2
    <3> QED
      BY <3>1, <3>2
  <2> QED
    BY <2>4, <2>5 DEF OnePlace
<1>6. ASSUME NEW m \in Lists, NEW k \in 1..len(m)
      PROVE  /\ next'[t[m][k]] = IF k = len(m) THEN NULL ELSE t[m][k + 1]
             /\ prev'[t[m][k]] = IF k = 1 THEN NULL ELSE t[m][k - 1]
  <2> DEFINE i == old(m, k)
             d == s[m][i]
  <2>1. /\ t[m][k] = d /\ i \in 1..Len(s[m]) /\ d \in Cells \ {s[l][p]} /\ (m = l => i # p)
        /\ i = IF m = l /\ k >= p THEN k + 1 ELSE k
    BY <1>3, <1>4
  <2>2. /\ next[d] = IF i = Len(s[m]) THEN NULL ELSE s[m][i + 1]
        /\ prev[d] = IF i = 1 THEN NULL ELSE s[m][i - 1]
    <3> HIDE DEF i
    <3> QED
      BY <2>1, ListFields, SMTT(30)
  <2>3. \A j \in 1..n : d = s[l][j] <=> (m = l /\ i = j)
    <3> HIDE DEF i
    <3> QED
      BY <2>1, CellHasOnePlace
  <2>4. /\ next'[d] = IF p = 1 \/ d # s[l][p - 1] THEN next[d]
                      ELSE IF p = n THEN NULL ELSE s[l][p + 1]
        /\ prev'[d] = IF p = n \/ d # s[l][p + 1] THEN prev[d]
                      ELSE IF p = 1 THEN NULL ELSE s[l][p - 1]
    BY <2>1 DEF Unlinked
  <2>5. k # len(m) => k + 1 \in 1..len(m) /\ t[m][k + 1] = s[m][old(m, k + 1)]
    BY <1>1, <1>2, <1>4
  <2>6. k # 1 => k - 1 \in 1..len(m) /\ t[m][k - 1] = s[m][old(m, k - 1)]
    BY <1>1, <1>2, <1>4
  <2> HIDE DEF d
  <2>7. next'[d] = IF k = len(m) THEN NULL ELSE t[m][k + 1]
    <3>1. CASE m = l /\ p # 1 /\ k = p - 1
      BY <1>1, <2>1, <2>3, <2>4, <2>5, <3>1
    <3>2. CASE ~(m = l /\ p # 1 /\ k = p - 1)
      <4>1. p = 1 \/ d # s[l][p - 1]
        BY <1>1, <2>1, <2>3, <3>2
      <4> QED
        BY <1>1, <2>1, <2>2, <2>4, <2>5, <3>2, <4>1
    <3> QED
      BY <3>1, <3>2
  <2>8. prev'[d] = IF k = 1 THEN NULL ELSE t[m][k - 1]
    <3>1. CASE m = l /\ p # n /\ k = p
      BY <1>1, <2>1, <2>3, <2>4, <2>6, <3>1
    <3>2. CASE ~(m = l /\ p # n /\ k = p)
      <4>1. p = n \/ d # s[l][p + 1]
        BY <1>1, <2>1, <2>3, <3>2
      <4> QED
        BY <1>1, <2>1, <2>2, <2>4, <2>6, <3>2, <4>1
    <3> QED
      BY <3>1, <3>2
  <2> QED
    BY <2>1, <2>7, <2>8
<1>7. ASSUME NEW m \in Lists
      PROVE  /\ size'[m] = len(m)
             /\ head'[m] = IF len(m) = 0 THEN NULL ELSE t[m][1]
             /\ tail'[m] = IF len(m) = 0 THEN NULL ELSE t[m][len(m)]
  <2>1. /\ size[m] = Len(s[m])
        /\ head[m] = IF Len(s[m]) = 0 THEN NULL ELSE s[m][1]
        /\ tail[m] = IF Len(s[m]) = 0 THEN NULL ELSE s[m][Len(s[m])]
    BY ListFields
  <2>2. len(m) # 0 => t[m][1] = s[m][old(m, 1)] /\ t[m][len(m)] = s[m][old(m, len(m))]
    BY <1>2, <1>4
  <2> QED
    BY <1>1, <2>1, <2>2 DEF Unlinked
<1>8. Linked(t)'
  <2> SUFFICES ASSUME NEW m \in Lists
               PROVE  /\ size'[m] = Len(t[m])
                      /\ head'[m] = IF t[m] = <<>> THEN NULL ELSE t[m][1]
                      /\ tail'[m] = IF t[m] = <<>> THEN NULL ELSE t[m][Len(t[m])]
                      /\ \A k \in DOMAIN t[m] :
                           /\ next'[t[m][k]] = IF k = Len(t[m]) THEN NULL ELSE t[m][k + 1]
                           /\ prev'[t[m][k]] = IF k = 1 THEN NULL ELSE t[m][k - 1]
    BY DEF Linked
  <2> HIDE DEF len, old
  <2>1. Len(t[m]) = len(m) /\ DOMAIN t[m] = 1..len(m) /\ (t[m] = <<>> <=> len(m) = 0)
    BY <1>4
  <2>2. /\ size'[m] = len(m)
        /\ head'[m] = IF len(m) = 0 THEN NULL ELSE t[m][1]
        /\ tail'[m] = IF len(m) = 0 THEN NULL ELSE t[m][len(m)]
    BY <1>7
  <2>3. \A k \in 1..len(m) :
          /\ next'[t[m][k]] = IF k = len(m) THEN NULL ELSE t[m][k + 1]
          /\ prev'[t[m][k]] = IF k = 1 THEN NULL ELSE t[m][k - 1]
    BY <1>6
  <2>4. /\ size'[m] = Len(t[m])
        /\ head'[m] = IF t[m] = <<>> THEN NULL ELSE t[m][1]
        /\ tail'[m] = IF t[m] = <<>> THEN NULL ELSE t[m][Len(t[m])]
    BY <2>1, <2>2
  <2>5. ASSUME NEW k \in DOMAIN t[m]
        PROVE  /\ next'[t[m][k]] = IF k = Len(t[m]) THEN NULL ELSE t[m][k + 1]
               /\ prev'[t[m][k]] = IF k = 1 THEN NULL ELSE t[m][k - 1]
    <3>1. k \in 1..len(m)
      BY <2>1
    <3>2. /\ next'[t[m][k]] = IF k = len(m) THEN NULL ELSE t[m][k + 1]
          /\ prev'[t[m][k]] = IF k = 1 THEN NULL ELSE t[m][k - 1]
      BY <2>3, <3>1, Zenon
    <3> QED
      BY <2>1, <3>2, Zenon
  <2> QED
    BY <2>4, <2>5
<1>9. t \in [Lists -> Seq(Cells)]
  <2> HIDE DEF len, old
  <2> QED
    BY <1>4
<1>10. Without(t, s, l, p)
  <2>1. t[l] = [k \in 1..Len(s[l]) - 1 |-> s[l][IF k >= p THEN k + 1 ELSE k]]
    OBVIOUS
  <2>2. ASSUME NEW m \in Lists \ {l} PROVE t[m] = s[m]
    <3>1. len(m) = Len(s[m]) /\ \A k \in 1..len(m) : old(m, k) = k
      OBVIOUS
    <3>2. s[m] = [k \in 1..Len(s[m]) |-> s[m][k]]
      BY LenProperties DEF Represents
    <3> QED
      BY <3>1, <3>2
  <2> QED
    BY <2>1, <2>2 DEF Without
<1> QED
  BY <1>5, <1>8, <1>9, <1>10 DEF Represents

\* Writing two elements of an array, or the same twice, leaves it an array.
LEMMA TwoWrites ==
  ASSUME NEW S, NEW V, NEW f \in [S -> V], NEW a, NEW v \in V, NEW b, NEW w \in V
  PROVE  [f EXCEPT ![a] = v, ![b] = w] \in [S -> V]
OBVIOUS

\* The head is taken out of a list that is not empty (llist_pop; llist_remove_at).
LEMMA TakeHeadUnlinks ==
  ASSUME FieldsOK, NEW s, Represents(s), NEW l \in Lists, Len(s[l]) # 0, TakeHead(l)
  PROVE  FieldsOK' /\ Unlinked(s, l, 1) /\ 1 \in 1..Len(s[l])
<1> DEFINE n == Len(s[l])
<1>1. n \in Nat /\ 1 \in 1..n /\ \A k \in 1..n : s[l][k] \in Cells
  BY ChainFits
<1>2. /\ size[l] = n /\ head[l] = s[l][1] /\ tail[l] = s[l][n]
      /\ next[s[l][1]] = IF n = 1 THEN NULL ELSE s[l][2]
  <2>1. n # 0 /\ 1 + 1 = 2
    BY <1>1
  <2>2. size[l] = n /\ head[l] = s[l][1] /\ tail[l] = s[l][n]
    BY <2>1, ListFields
  <2>3. next[s[l][1]] = IF 1 = n THEN NULL ELSE s[l][1 + 1]
    BY <1>1, ListFields
  <2> QED
    BY <2>1, <2>2, <2>3
<1>3. n # 1 => 2 \in 1..n /\ s[l][2] \in Cells /\ s[l][2] # s[l][1]
  <2>1. n # 1 => 2 \in 1..n
    <3> HIDE DEF n
    <3> QED
      BY <1>1
  <2>2. 2 \in 1..n => s[l][2] # s[l][1]
    BY <1>1, CellHasOnePlace
  <2> QED
    BY <1>1, <2>1, <2>2
<1>4. n - 1 \in Nat
  BY <1>1
<1> HIDE DEF n
<1>5. CASE n = 1
  <2>1. /\ used' = used \ {s[l][1]} /\ size' = [size EXCEPT ![l] = n - 1]
        /\ head' = [head EXCEPT ![l] = NULL] /\ tail' = [tail EXCEPT ![l] = NULL]
        /\ next' = [next EXCEPT ![s[l][1]] = Freed] /\ prev' = [prev EXCEPT ![s[l][1]] = Freed]
    BY <1>2, <1>5 DEF TakeHead, free
  <2>2. FieldsOK'
    BY <1>1, <1>4, <2>1 DEF FieldsOK
  <2>3. Unlinked(s, l, 1)
    BY <1>1, <1>5, <2>1 DEF FieldsOK, Unlinked, n
  <2> QED
    BY <1>1, <2>2, <2>3 DEF n
<1>6. CASE n # 1
  <2>1. /\ used' = used \ {s[l][1]} /\ size' = [size EXCEPT ![l] = n - 1]
        /\ head' = [head EXCEPT ![l] = s[l][2]] /\ tail' = tail
        /\ next' = [next EXCEPT ![s[l][1]] = Freed]
        /\ prev' = [prev EXCEPT ![s[l][2]] = NULL, ![s[l][1]] = Freed]
    BY <1>2, <1>6 DEF TakeHead, free
  <2>2. FieldsOK'
    BY <1>1, <1>3, <1>4, <1>6, <2>1, TwoWrites DEF FieldsOK
  <2>3. Unlinked(s, l, 1)
    BY <1>1, <1>3, <1>6, <2>1 DEF FieldsOK, Unlinked, n
  <2> QED
    BY <1>1, <2>2, <2>3 DEF n
<1> QED
  BY <1>5, <1>6

\* The last cell of a list of several is taken out (llist_remove_at).
LEMMA TakeTailUnlinks ==
  ASSUME FieldsOK, NEW s, Represents(s), NEW l \in Lists, Len(s[l]) > 1, TakeTail(l)
  PROVE  FieldsOK' /\ Unlinked(s, l, Len(s[l])) /\ Len(s[l]) \in 1..Len(s[l])
<1> DEFINE n == Len(s[l])
<1>1. n \in Nat /\ n > 1 /\ n \in 1..n /\ n - 1 \in 1..n /\ \A k \in 1..n : s[l][k] \in Cells
  BY ChainFits
<1>2. size[l] = n /\ tail[l] = s[l][n] /\ prev[s[l][n]] = s[l][n - 1]
  BY <1>1, ListFields
<1>3. s[l][n - 1] # s[l][n]
  BY <1>1, CellHasOnePlace
<1>4. /\ used' = used \ {s[l][n]} /\ size' = [size EXCEPT ![l] = n - 1]
      /\ head' = head /\ tail' = [tail EXCEPT ![l] = s[l][n - 1]]
      /\ next' = [next EXCEPT ![s[l][n - 1]] = NULL, ![s[l][n]] = Freed]
      /\ prev' = [prev EXCEPT ![s[l][n]] = Freed]
  BY <1>2 DEF TakeTail, free
<1> HIDE DEF n
<1>5. FieldsOK'
  <2>1. n - 1 \in Nat
    BY <1>1
  <2> QED
    BY <1>1, <1>4, <2>1, TwoWrites DEF FieldsOK
<1>6. Unlinked(s, l, n)
  BY <1>1, <1>3, <1>4 DEF FieldsOK, Unlinked, n
<1> QED
  BY <1>1, <1>5, <1>6 DEF n

\* A cell between two others is taken out (llist_remove_at).
LEMMA TakeInnerUnlinks ==
  ASSUME FieldsOK, NEW s, Represents(s), NEW l \in Lists, NEW p \in 1..Len(s[l]),
         p # 1, p # Len(s[l]), TakeInner(l, s[l][p])
  PROVE  FieldsOK' /\ Unlinked(s, l, p)
<1> DEFINE n == Len(s[l])
<1>1. /\ n \in Nat /\ p \in 1..n /\ p - 1 \in 1..n /\ p + 1 \in 1..n /\ n > 1
      /\ \A k \in 1..n : s[l][k] \in Cells
  BY ChainFits
<1>2. size[l] = n /\ prev[s[l][p]] = s[l][p - 1] /\ next[s[l][p]] = s[l][p + 1]
  BY <1>1, ListFields
<1>3. s[l][p - 1] # s[l][p] /\ s[l][p + 1] # s[l][p]
  BY <1>1, CellHasOnePlace
<1>4. /\ used' = used \ {s[l][p]} /\ size' = [size EXCEPT ![l] = n - 1]
      /\ head' = head /\ tail' = tail
      /\ next' = [next EXCEPT ![s[l][p - 1]] = s[l][p + 1], ![s[l][p]] = Freed]
      /\ prev' = [prev EXCEPT ![s[l][p + 1]] = s[l][p - 1], ![s[l][p]] = Freed]
  BY <1>2 DEF TakeInner, free
<1> HIDE DEF n
<1>5. FieldsOK'
  <2>1. n - 1 \in Nat
    BY <1>1
  <2> QED
    BY <1>1, <1>4, <2>1, TwoWrites DEF FieldsOK
<1>6. Unlinked(s, l, p)
  BY <1>1, <1>3, <1>4 DEF FieldsOK, Unlinked, n
<1> QED
  BY <1>5, <1>6

\* What every call preserves.
Represented == FieldsOK /\ \E s : Represents(s)

\* A call that touches no link preserves the links.
LEMMA LinksUnchanged ==
  ASSUME Represented, UNCHANGED <<head, tail, size, next, prev, used>>
  PROVE  Represented'
<1> PICK s : Represents(s)
  BY DEF Represented
<1>1. FieldsOK'
  BY DEF Represented, FieldsOK
<1>2. Represents(s)'
  BY DEF Represents, Linked, OnePlace
<1> QED
  BY <1>1, <1>2 DEF Represented

\* llist_remove_at, at any position: the cell there, if there is one, is taken out and freed.
LEMMA RemoveAtTakes ==
  ASSUME FieldsOK, NEW s, Represents(s), NEW l \in Lists, NEW i, llist_remove_at(l, i)
  PROVE  \/ i \notin 0..Len(s[l]) - 1 /\ UNCHANGED llistVars
         \/ /\ i \in 0..Len(s[l]) - 1 /\ FieldsOK'
            /\ item' = [item EXCEPT ![s[l][i + 1]] = Freed]
            /\ \E t : Represents(t)' /\ Without(t, s, l, i + 1)
<1> DEFINE n == Len(s[l])
           c == At(l, i)
           p == i + 1
<1>1. CASE i \notin 0..n - 1
  <2>1. c = NULL
    BY <1>1, AtPosition
  <2> QED
    BY <1>1, <2>1 DEF llist_remove_at
<1>2. CASE i \in 0..n - 1
  <2>1. n \in Nat /\ p \in 1..n /\ s[l][p] \in Cells
    BY <1>2, ChainFits
  <2>2. c = s[l][p] /\ c # NULL
    BY <1>2, <2>1, AtPosition, HeapAssumption
  <2>4. head[l] = s[l][1] /\ tail[l] = s[l][n]
    BY <2>1, ListFields
  <2>5. c = head[l] <=> p = 1
    BY <2>1, <2>2, <2>4, CellHasOnePlace
  <2>6. c = tail[l] <=> p = n
    BY <2>1, <2>2, <2>4, CellHasOnePlace
  <2>7. \/ p = 1 /\ TakeHead(l)
        \/ p = n /\ n > 1 /\ TakeTail(l)
        \/ p # 1 /\ p # n /\ TakeInner(l, c)
    BY <2>1, <2>2, <2>5, <2>6 DEF llist_remove_at
  <2>8. FieldsOK' /\ Unlinked(s, l, p)
    BY <2>1, <2>2, <2>7, TakeHeadUnlinks, TakeTailUnlinks, TakeInnerUnlinks
  <2>9. item' = [item EXCEPT ![c] = Freed]
    BY <2>1, <2>2, <2>4, <2>5, <2>6, <2>7 DEF TakeHead, TakeTail, TakeInner, free
  <2> QED
    BY <1>2, <2>1, <2>2, <2>8, <2>9, UnlinkedRepresents
<1> QED
  BY <1>1, <1>2

LEMMA RemoveAtRepresents ==
  ASSUME Represented, NEW l \in Lists, NEW i, llist_remove_at(l, i)
  PROVE  Represented'
<1> PICK s : Represents(s)
  BY DEF Represented
<1>1. CASE UNCHANGED llistVars
  BY <1>1, LinksUnchanged DEF llistVars
<1>2. CASE ~UNCHANGED llistVars
  BY <1>2, RemoveAtTakes DEF Represented
<1> QED
  BY <1>1, <1>2

\* llist_pop, of a list that is not empty: the first cell is taken out and freed.
LEMMA PopTakes ==
  ASSUME FieldsOK, NEW s, Represents(s), NEW l \in Lists, Len(s[l]) # 0, llist_pop(l)
  PROVE  /\ FieldsOK'
         /\ item' = [item EXCEPT ![s[l][1]] = Freed]
         /\ \E t : Represents(t)' /\ Without(t, s, l, 1)
<1>1. size[l] # 0 /\ head[l] = s[l][1]
  BY ListFields
<1>2. TakeHead(l)
  BY <1>1 DEF llist_pop
<1> QED
  BY <1>1, <1>2, TakeHeadUnlinks, UnlinkedRepresents DEF TakeHead, free

LEMMA PopRepresents ==
  ASSUME Represented, NEW l \in Lists, llist_pop(l)
  PROVE  Represented'
<1> PICK s : Represents(s)
  BY DEF Represented
<1>1. CASE size[l] = 0
  BY <1>1, LinksUnchanged DEF llist_pop, llistVars
<1>2. CASE size[l] # 0
  <2>1. Len(s[l]) # 0
    BY <1>2, ListFields
  <2> QED
    BY <2>1, PopTakes DEF Represented
<1> QED
  BY <1>1, <1>2

---------------------------------------------------------------------------------
(* A cell is added, moved, or the list freed. *)

\* llist_append, when malloc finds a cell: it is the new last one, with the item.
LEMMA AppendAdds ==
  ASSUME FieldsOK, NEW s, Represents(s), NEW l \in Lists, NEW x, llist_append(l, x)
  PROVE  /\ FieldsOK'
         /\ \E c \in Cells \ used :
              /\ item' = [item EXCEPT ![c] = x]
              /\ Represents([s EXCEPT ![l] = Append(s[l], c)])'
<1> DEFINE n == Len(s[l])
<1>1. PICK c \in Cells \ used :
        /\ used' = used \cup {c}
        /\ item' = [item EXCEPT ![c] = x]
        /\ size' = [size EXCEPT ![l] = @ + 1]
        /\ tail' = [tail EXCEPT ![l] = c]
        /\ IF head[l] = NULL
           THEN /\ head' = [head EXCEPT ![l] = c]
                /\ next' = [next EXCEPT ![c] = NULL]
                /\ prev' = [prev EXCEPT ![c] = NULL]
           ELSE /\ next' = [next EXCEPT ![tail[l]] = c, ![c] = NULL]
                /\ prev' = [prev EXCEPT ![c] = tail[l]]
                /\ UNCHANGED head
  BY DEF llist_append
<1>2. /\ n \in Nat /\ n + 1 \in Nat
      /\ \A m \in Lists : /\ Len(s[m]) \in Nat /\ DOMAIN s[m] = 1..Len(s[m])
                          /\ \A k \in 1..Len(s[m]) : s[m][k] \in Cells
                          /\ s[m] = <<>> <=> Len(s[m]) = 0
  BY ChainFits
<1>3. /\ size[l] = n
      /\ head[l] = IF n = 0 THEN NULL ELSE s[l][1]
      /\ tail[l] = IF n = 0 THEN NULL ELSE s[l][n]
  BY ListFields
<1>4. n # 0 => 1 \in 1..n /\ n \in 1..n /\ s[l][1] # NULL
  <2>1. n # 0 => 1 \in 1..n /\ n \in 1..n
    <3> HIDE DEF n
    <3> QED
      BY <1>2
  <2> QED
    BY <1>2, <2>1, HeapAssumption
<1>5. \A m \in Lists : \A k \in 1..Len(s[m]) : s[m][k] # c
  BY <1>2 DEF Represents, OnePlace
<1>10. PICK t : t = [s EXCEPT ![l] = Append(s[l], c)]
  OBVIOUS
<1>6. /\ t \in [Lists -> Seq(Cells)]
      /\ \A m \in Lists : m # l => t[m] = s[m]
      /\ t[l] \in Seq(Cells) /\ Len(t[l]) = n + 1 /\ DOMAIN t[l] = 1..n + 1 /\ t[l] # <<>>
      /\ t[l][n + 1] = c /\ \A k \in 1..n : t[l][k] = s[l][k]
  <2>1. s \in [Lists -> Seq(Cells)] /\ s[l] \in Seq(Cells)
    BY DEF Represents
  <2>2. Append(s[l], c) \in Seq(Cells)
    BY <2>1, AppendProperties
  <2>3. t \in [Lists -> Seq(Cells)] /\ t[l] = Append(s[l], c) /\ \A m \in Lists : m # l => t[m] = s[m]
    BY <1>10, <2>1, <2>2
  <2>4. /\ Len(t[l]) = n + 1 /\ t[l][n + 1] = c /\ \A k \in 1..n : t[l][k] = s[l][k]
        /\ t[l] # <<>>
    BY <2>1, <2>3, AppendProperties
  <2>5. DOMAIN t[l] = 1..n + 1
    BY <2>2, <2>3, <2>4, LenProperties
  <2> QED
    BY <2>2, <2>3, <2>4, <2>5
<1>7. FieldsOK'
  <2>1. n # 0 => tail[l] \in Cells
    BY <1>2, <1>3, <1>4
  <2>2. CASE n = 0
    <3>1. /\ next' = [next EXCEPT ![c] = NULL] /\ prev' = [prev EXCEPT ![c] = NULL]
          /\ head' = [head EXCEPT ![l] = c]
      BY <1>1, <1>3, <2>2
    <3> QED
      BY <1>1, <1>2, <1>3, <3>1 DEF FieldsOK
  <2>3. CASE n # 0
    <3>1. /\ next' = [next EXCEPT ![tail[l]] = c, ![c] = NULL]
          /\ prev' = [prev EXCEPT ![c] = tail[l]] /\ head' = head
      BY <1>1, <1>3, <1>4, <2>3
    <3> QED
      BY <1>1, <1>2, <1>3, <2>1, <3>1, TwoWrites DEF FieldsOK
  <2> QED
    BY <2>2, <2>3
<1>8. OnePlace(t)'
  <2>1. ASSUME NEW m \in Lists, NEW k \in DOMAIN t[m]
        PROVE  \/ k \in 1..Len(s[m]) /\ t[m][k] = s[m][k]
               \/ m = l /\ k = n + 1 /\ t[m][k] = c
    <3>1. CASE m = l
      <4>1. k \in 1..n \/ k = n + 1
        BY <1>2, <1>6, <2>1, <3>1
      <4> QED
        BY <1>6, <3>1, <4>1
    <3>2. CASE m # l
      BY <1>2, <1>6, <2>1, <3>2
    <3> QED
      BY <3>1, <3>2
  <2>2. ASSUME NEW m \in Lists, NEW q \in Lists, NEW i \in DOMAIN t[m], NEW j \in DOMAIN t[q],
               t[m][i] = t[q][j]
        PROVE  m = q /\ i = j
    BY <1>5, <2>1, <2>2, CellHasOnePlace
  <2>3. ASSUME NEW d \in Cells, d \in used'
        PROVE  \E m \in Lists : \E i \in DOMAIN t[m] : t[m][i] = d
    <3>1. CASE d = c
      <4>1. n + 1 \in DOMAIN t[l]
        BY <1>2, <1>6
      <4> QED
        BY <1>6, <3>1, <4>1
    <3>2. CASE d # c
      <4> PICK m \in Lists : \E k \in DOMAIN s[m] : s[m][k] = d
        BY <1>1, <2>3, <3>2 DEF Represents, OnePlace
      <4>1. PICK k \in 1..Len(s[m]) : s[m][k] = d
        BY <1>2
      <4>2. k \in DOMAIN t[m] /\ t[m][k] = d
        <5>1. CASE m = l
          BY <1>2, <1>6, <4>1, <5>1
        <5>2. CASE m # l
          BY <1>2, <1>6, <4>1, <5>2
        <5> QED
          BY <5>1, <5>2
      <4> QED
        BY <4>2
    <3> QED
      BY <3>1, <3>2
  <2>4. ASSUME NEW m \in Lists, NEW i \in DOMAIN t[m] PROVE t[m][i] \in used'
    <3>1. CASE i \in 1..Len(s[m]) /\ t[m][i] = s[m][i]
      <4>1. s[m][i] \in used
        BY <1>2, <3>1 DEF Represents, OnePlace
      <4> QED
        BY <1>1, <3>1, <4>1
    <3>2. CASE t[m][i] = c
      BY <1>1, <3>2
    <3> QED
      BY <2>1, <3>1, <3>2
  <2>5. \A d \in Cells : d \in used' <=> \E m \in Lists : \E i \in DOMAIN t[m] : t[m][i] = d
    BY <2>3, <2>4
  <2> QED
    BY <2>2, <2>5 DEF OnePlace
<1>9. Linked(t)'
  <2> SUFFICES ASSUME NEW m \in Lists
               PROVE  /\ size'[m] = Len(t[m])
                      /\ head'[m] = IF t[m] = <<>> THEN NULL ELSE t[m][1]
                      /\ tail'[m] = IF t[m] = <<>> THEN NULL ELSE t[m][Len(t[m])]
                      /\ \A k \in DOMAIN t[m] :
                           /\ next'[t[m][k]] = IF k = Len(t[m]) THEN NULL ELSE t[m][k + 1]
                           /\ prev'[t[m][k]] = IF k = 1 THEN NULL ELSE t[m][k - 1]
    BY DEF Linked
  <2>1. /\ \A q \in Lists : q # l =>
             size'[q] = size[q] /\ head'[q] = head[q] /\ tail'[q] = tail[q]
        /\ size'[l] = n + 1 /\ tail'[l] = c
        /\ head'[l] = IF n = 0 THEN c ELSE head[l]
    BY <1>1, <1>3, <1>4 DEF FieldsOK
  <2>2. /\ next'[c] = NULL /\ prev'[c] = IF n = 0 THEN NULL ELSE s[l][n]
        /\ \A d \in Cells \ {c} :
             /\ next'[d] = IF n # 0 /\ d = s[l][n] THEN c ELSE next[d]
             /\ prev'[d] = prev[d]
    BY <1>1, <1>2, <1>3, <1>4, <1>5 DEF FieldsOK
  <2>3. CASE m # l
    <3>1. t[m] = s[m] /\ DOMAIN s[m] = 1..Len(s[m])
      BY <1>2, <1>6, <2>3
    <3>2. /\ size[m] = Len(s[m])
          /\ head[m] = IF s[m] = <<>> THEN NULL ELSE s[m][1]
          /\ tail[m] = IF s[m] = <<>> THEN NULL ELSE s[m][Len(s[m])]
      BY DEF Represents, Linked
    <3>3. ASSUME NEW k \in 1..Len(s[m])
          PROVE  next'[s[m][k]] = next[s[m][k]] /\ prev'[s[m][k]] = prev[s[m][k]]
      <4>1. s[m][k] \in Cells \ {c} /\ (n # 0 => s[m][k] # s[l][n])
        BY <1>2, <1>4, <1>5, <2>3, CellHasOnePlace
      <4> QED
        BY <2>2, <4>1
    <3>4. \A k \in 1..Len(s[m]) :
            /\ next[s[m][k]] = IF k = Len(s[m]) THEN NULL ELSE s[m][k + 1]
            /\ prev[s[m][k]] = IF k = 1 THEN NULL ELSE s[m][k - 1]
      BY ListFields
    <3>5. \A k \in 1..Len(s[m]) :
            /\ next'[s[m][k]] = IF k = Len(s[m]) THEN NULL ELSE s[m][k + 1]
            /\ prev'[s[m][k]] = IF k = 1 THEN NULL ELSE s[m][k - 1]
      BY <3>3, <3>4
    <3>6. size'[m] = size[m] /\ head'[m] = head[m] /\ tail'[m] = tail[m]
      BY <2>1, <2>3
    <3> QED
      BY <3>1, <3>2, <3>5, <3>6, Zenon
  <2>4. CASE m = l
    <3>1. /\ size'[m] = n + 1 /\ tail'[m] = c /\ Len(t[m]) = n + 1 /\ t[m][n + 1] = c
          /\ DOMAIN t[m] = 1..n + 1 /\ t[m] # <<>>
      BY <1>6, <2>1, <2>4
    <3>2. head'[m] = t[m][1]
      <4>1. CASE n = 0
        BY <1>6, <2>1, <2>4, <4>1
      <4>2. CASE n # 0
        BY <1>3, <1>4, <1>6, <2>1, <2>4, <4>2
      <4> QED
        BY <4>1, <4>2
    <3>3. ASSUME NEW k \in 1..n
          PROVE  /\ next'[t[m][k]] = t[m][k + 1]
                 /\ prev'[t[m][k]] = IF k = 1 THEN NULL ELSE t[m][k - 1]
      <4>1. t[m][k] = s[l][k] /\ s[l][k] \in Cells \ {c} /\ n \in 1..n
        BY <1>2, <1>4, <1>5, <1>6, <2>4
      <4>2. s[l][k] = s[l][n] <=> k = n
        BY <4>1, CellHasOnePlace
      <4>3. /\ next[s[l][k]] = IF k = n THEN NULL ELSE s[l][k + 1]
            /\ prev[s[l][k]] = IF k = 1 THEN NULL ELSE s[l][k - 1]
        BY ListFields
      <4>4. next'[t[m][k]] = IF k = n THEN c ELSE s[l][k + 1]
        BY <2>2, <4>1, <4>2, <4>3
      <4>5. k # n => k + 1 \in 1..n
        BY <1>2
      <4>6. k # 1 => k - 1 \in 1..n
        BY <1>2
      <4>7. t[m][k + 1] = IF k = n THEN c ELSE s[l][k + 1]
        BY <1>6, <2>4, <4>5
      <4>8. k # 1 => t[m][k - 1] = s[l][k - 1]
        BY <1>6, <2>4, <4>6
      <4> QED
        BY <2>2, <4>1, <4>3, <4>4, <4>7, <4>8
    <3>4. next'[t[m][n + 1]] = NULL /\ prev'[t[m][n + 1]] = IF n + 1 = 1 THEN NULL ELSE t[m][n]
      BY <1>2, <1>4, <1>6, <2>2, <2>4, <3>1
    <3> HIDE DEF n
    <3>5. ASSUME NEW k \in DOMAIN t[m]
          PROVE  /\ next'[t[m][k]] = IF k = Len(t[m]) THEN NULL ELSE t[m][k + 1]
                 /\ prev'[t[m][k]] = IF k = 1 THEN NULL ELSE t[m][k - 1]
      <4>1. CASE k = n + 1
        <5>1. k - 1 = n /\ k = Len(t[m])
          BY <1>2, <3>1, <4>1
        <5>2. next'[t[m][k]] = NULL /\ prev'[t[m][k]] = IF k = 1 THEN NULL ELSE t[m][n]
          BY <3>4, <4>1, Zenon
        <5> QED
          BY <5>1, <5>2
      <4>2. CASE k \in 1..n /\ k # n + 1
        <5>1. /\ next'[t[m][k]] = t[m][k + 1]
              /\ prev'[t[m][k]] = IF k = 1 THEN NULL ELSE t[m][k - 1]
          BY <3>3, <4>2, Zenon
        <5>2. ~(k = Len(t[m]))
          BY <3>1, <4>2
        <5>3. next'[t[m][k]] = IF k = Len(t[m]) THEN NULL ELSE t[m][k + 1]
          BY <5>1, <5>2
        <5> QED
          BY <5>1, <5>3
      <4>3. k = n + 1 \/ (k \in 1..n /\ k # n + 1)
        BY <1>2, <3>1
      <4> QED
        BY <4>1, <4>2, <4>3
    <3> QED
      BY <3>1, <3>2, <3>5, Zenon
  <2> QED
    BY <2>3, <2>4
<1> QED
  BY <1>1, <1>10, <1>6, <1>7, <1>8, <1>9 DEF Represents

LEMMA AppendRepresents ==
  ASSUME Represented, NEW l \in Lists, NEW x, llist_append(l, x)
  PROVE  Represented'
<1> PICK s : Represents(s)
  BY DEF Represented
<1> QED
  BY AppendAdds DEF Represented

\* llist_requeue: the first cell becomes the last.
LEMMA RequeueTurns ==
  ASSUME FieldsOK, NEW s, Represents(s), NEW l \in Lists, llist_requeue(l)
  PROVE  \/ Len(s[l]) \in {0, 1} /\ UNCHANGED llistVars
         \/ /\ Len(s[l]) > 1 /\ FieldsOK' /\ item' = item
            /\ \E t : /\ Represents(t)' /\ \A m \in Lists \ {l} : t[m] = s[m]
                     /\ t[l] = [k \in 1..Len(s[l]) |-> s[l][IF k = Len(s[l]) THEN 1 ELSE k + 1]]
<1>1. PICK n : n = Len(s[l])
  OBVIOUS
<1>2. /\ n \in Nat
      /\ \A m \in Lists : /\ Len(s[m]) \in Nat /\ DOMAIN s[m] = 1..Len(s[m])
                          /\ \A k \in 1..Len(s[m]) : s[m][k] \in Cells
                          /\ s[m] = <<>> <=> Len(s[m]) = 0
  BY <1>1, ChainFits
<1>3. /\ size[l] = n
      /\ head[l] = IF n = 0 THEN NULL ELSE s[l][1]
      /\ tail[l] = IF n = 0 THEN NULL ELSE s[l][n]
      /\ \A k \in 1..n : /\ next[s[l][k]] = IF k = n THEN NULL ELSE s[l][k + 1]
                         /\ prev[s[l][k]] = IF k = 1 THEN NULL ELSE s[l][k - 1]
  BY <1>1, ListFields
<1>4. CASE n \in {0, 1}
  <2>1. UNCHANGED llistVars
    BY <1>3, <1>4 DEF llist_requeue
  <2> QED
    BY <1>1, <1>4, <2>1
<1>5. CASE n \notin {0, 1}
  <2>1. 1 \in 1..n /\ 2 \in 1..n /\ n \in 1..n /\ n > 1
    BY <1>2, <1>5
  <2>2. \A i, j \in 1..n : s[l][i] = s[l][j] => i = j
    BY <1>1, CellHasOnePlace
  <2>3. PICK a : a = s[l][1]
    OBVIOUS
  <2>4. PICK b : b = s[l][2]
    OBVIOUS
  <2>5. PICK z : z = s[l][n]
    OBVIOUS
  <2>6. a \in Cells /\ b \in Cells /\ z \in Cells /\ a # b /\ a # z
    BY <1>1, <1>2, <2>1, <2>2, <2>3, <2>4, <2>5
  <2>7. head[l] = a /\ tail[l] = z /\ next[a] = b /\ n # 0 /\ n # 1
    BY <1>2, <1>3, <1>5, <2>1, <2>3, <2>4, <2>5
  <2>8. /\ head' = [head EXCEPT ![l] = b] /\ tail' = [tail EXCEPT ![l] = a]
        /\ next' = [next EXCEPT ![z] = a, ![a] = NULL]
        /\ prev' = [prev EXCEPT ![b] = NULL, ![a] = z]
        /\ size' = size /\ used' = used /\ item' = item
    BY <1>3, <2>7 DEF llist_requeue
  <2>9. FieldsOK'
    BY <2>6, <2>8, TwoWrites DEF FieldsOK
  <2>10. /\ next'[a] = NULL /\ prev'[a] = z
         /\ \A d \in Cells \ {a} : /\ next'[d] = IF d = z THEN a ELSE next[d]
                                   /\ prev'[d] = IF d = b THEN NULL ELSE prev[d]
    BY <2>6, <2>8 DEF FieldsOK
  <2> DEFINE old(k) == IF k = n THEN 1 ELSE k + 1
             back(k) == IF k = 1 THEN n ELSE k - 1
  <2>11. \A k \in 1..n : /\ old(k) \in 1..n /\ back(k) \in 1..n
                         /\ old(back(k)) = k /\ back(old(k)) = k
    BY <1>2, <2>1
  <2>12. PICK t : t = [m \in Lists |-> IF m = l THEN [k \in 1..n |-> s[l][old(k)]] ELSE s[m]]
    OBVIOUS
  <2>13. /\ t \in [Lists -> Seq(Cells)]
         /\ \A m \in Lists : m # l => t[m] = s[m]
         /\ Len(t[l]) = n /\ DOMAIN t[l] = 1..n /\ t[l] # <<>>
         /\ \A k \in 1..n : t[l][k] = s[l][old(k)]
    <3> HIDE DEF old
    <3> DEFINE r == [k \in 1..n |-> s[l][old(k)]]
    <3>1. r \in [1..n -> Cells]
      BY <1>1, <1>2, <2>11
    <3>2. r \in Seq(Cells) /\ Len(r) = n /\ DOMAIN r = 1..n
      BY <1>2, <3>1
    <3>3. \A k \in 1..n : r[k] = s[l][old(k)]
      OBVIOUS
    <3> HIDE DEF r
    <3>4. t = [m \in Lists |-> IF m = l THEN r ELSE s[m]]
      BY <2>12 DEF r
    <3>5. s \in [Lists -> Seq(Cells)]
      BY DEF Represents
    <3>6. t[l] = r /\ t \in [Lists -> Seq(Cells)] /\ \A m \in Lists : m # l => t[m] = s[m]
      BY <3>2, <3>4, <3>5
    <3>7. r # <<>>
      BY <1>5, <3>2
    <3> QED
      BY <3>2, <3>3, <3>6, <3>7
  <2>14. OnePlace(t)'
    <3>1. ASSUME NEW m \in Lists, NEW k \in DOMAIN t[m]
          PROVE  \E i \in 1..Len(s[m]) :
                   t[m][k] = s[m][i] /\ i = (IF m = l THEN old(k) ELSE k)
      BY <1>1, <1>2, <2>11, <2>13, <3>1
    <3>2. ASSUME NEW m \in Lists, NEW k \in 1..Len(s[m])
          PROVE  \E i \in DOMAIN t[m] : t[m][i] = s[m][k]
      <4>1. CASE m = l
        <5>1. back(k) \in DOMAIN t[l] /\ t[l][back(k)] = s[l][k]
          BY <1>1, <2>11, <2>13, <4>1
        <5> QED
          BY <4>1, <5>1
      <4>2. CASE m # l
        BY <1>2, <2>13, <4>2
      <4> QED
        BY <4>1, <4>2
    <3>3. ASSUME NEW m \in Lists, NEW q \in Lists, NEW i \in DOMAIN t[m], NEW j \in DOMAIN t[q],
                 t[m][i] = t[q][j]
          PROVE  m = q /\ i = j
      <4> PICK i1 \in 1..Len(s[m]) : t[m][i] = s[m][i1] /\ i1 = (IF m = l THEN old(i) ELSE i)
        BY <3>1
      <4> PICK j1 \in 1..Len(s[q]) : t[q][j] = s[q][j1] /\ j1 = (IF q = l THEN old(j) ELSE j)
        BY <3>1
      <4>1. m = q /\ i1 = j1
        BY <3>3, CellHasOnePlace
      <4>2. m = l => i \in 1..n /\ j \in 1..n
        BY <2>13, <4>1
      <4> HIDE DEF old, back
      <4> QED
        BY <2>11, <4>1, <4>2
    <3>4. \A d \in Cells : d \in used <=> \E m \in Lists : \E i \in 1..Len(s[m]) : s[m][i] = d
      BY <1>2 DEF Represents, OnePlace
    <3>5. \A d \in Cells : d \in used' <=> \E m \in Lists : \E i \in DOMAIN t[m] : t[m][i] = d
      <4> HIDE DEF old, back
      <4>1. used' = used
        BY <2>8
      <4>2. ASSUME NEW d \in Cells, d \in used
            PROVE  \E m \in Lists : \E i \in DOMAIN t[m] : t[m][i] = d
        BY <3>2, <3>4, <4>2
      <4>3. ASSUME NEW d \in Cells, NEW m \in Lists, NEW i \in DOMAIN t[m], t[m][i] = d
            PROVE  d \in used
        BY <3>1, <3>4, <4>3
      <4> QED
        BY <4>1, <4>2, <4>3
    <3> QED
      BY <3>3, <3>5 DEF OnePlace
  <2>15. Linked(t)'
    <3> SUFFICES ASSUME NEW m \in Lists
                 PROVE  /\ size'[m] = Len(t[m])
                        /\ head'[m] = IF t[m] = <<>> THEN NULL ELSE t[m][1]
                        /\ tail'[m] = IF t[m] = <<>> THEN NULL ELSE t[m][Len(t[m])]
                        /\ \A k \in DOMAIN t[m] :
                             /\ next'[t[m][k]] = IF k = Len(t[m]) THEN NULL ELSE t[m][k + 1]
                             /\ prev'[t[m][k]] = IF k = 1 THEN NULL ELSE t[m][k - 1]
      BY DEF Linked
    <3>1. CASE m # l
      <4>1. t[m] = s[m] /\ DOMAIN s[m] = 1..Len(s[m])
        BY <1>2, <2>13, <3>1
      <4>2. /\ size[m] = Len(s[m])
            /\ head[m] = IF s[m] = <<>> THEN NULL ELSE s[m][1]
            /\ tail[m] = IF s[m] = <<>> THEN NULL ELSE s[m][Len(s[m])]
        BY DEF Represents, Linked
      <4>3. ASSUME NEW k \in 1..Len(s[m])
            PROVE  next'[s[m][k]] = next[s[m][k]] /\ prev'[s[m][k]] = prev[s[m][k]]
        <5>1. s[m][k] \in Cells \ {a} /\ s[m][k] # z /\ s[m][k] # b
          BY <1>1, <1>2, <2>1, <2>3, <2>4, <2>5, <3>1, CellHasOnePlace
        <5> QED
          BY <2>10, <5>1
      <4>4. \A k \in 1..Len(s[m]) :
              /\ next[s[m][k]] = IF k = Len(s[m]) THEN NULL ELSE s[m][k + 1]
              /\ prev[s[m][k]] = IF k = 1 THEN NULL ELSE s[m][k - 1]
        BY ListFields
      <4>5. \A k \in 1..Len(s[m]) :
              /\ next'[s[m][k]] = IF k = Len(s[m]) THEN NULL ELSE s[m][k + 1]
              /\ prev'[s[m][k]] = IF k = 1 THEN NULL ELSE s[m][k - 1]
        BY <4>3, <4>4
      <4>6. size'[m] = size[m] /\ head'[m] = head[m] /\ tail'[m] = tail[m]
        BY <2>8, <3>1 DEF FieldsOK
      <4> QED
        BY <4>1, <4>2, <4>5, <4>6, Zenon
    <3>2. CASE m = l
      <4>1. size'[l] = n /\ head'[l] = b /\ tail'[l] = a
        BY <1>3, <2>8 DEF FieldsOK
      <4>2. old(1) = 2 /\ old(n) = 1
        BY <1>2, <1>5
      <4>3. t[l][1] = b /\ t[l][n] = a
        BY <2>1, <2>3, <2>4, <2>13, <4>2
      <4>4. ASSUME NEW k \in 1..n
            PROVE  /\ next'[t[l][k]] = IF k = n THEN NULL ELSE t[l][k + 1]
                   /\ prev'[t[l][k]] = IF k = 1 THEN NULL ELSE t[l][k - 1]
        <5>1. CASE k = n
          <6>1. n - 1 \in 1..n /\ old(n - 1) = n /\ n # 1
            BY <1>2, <2>1
          <6>2. t[l][n - 1] = z
            BY <2>5, <2>13, <6>1
          <6> QED
            BY <2>10, <4>3, <5>1, <6>1, <6>2
        <5>2. CASE k # n
          <6>1. k \in Int /\ k + 1 \in 1..n /\ k + 1 # 1 /\ (k + 1) - 1 = k /\ k + 1 # k
            BY <1>2, <5>2
          <6>2. t[l][k] = s[l][k + 1] /\ s[l][k + 1] \in Cells /\ s[l][k + 1] # a
            BY <1>1, <1>2, <2>1, <2>2, <2>3, <2>13, <5>2, <6>1
          <6>3. (s[l][k + 1] = z <=> k + 1 = n) /\ (s[l][k + 1] = b <=> k + 1 = 2)
            BY <2>1, <2>2, <2>4, <2>5, <6>1
          <6>4. next'[t[l][k]] = t[l][k + 1]
            <7>1. CASE k + 1 = n
              BY <2>10, <4>3, <6>2, <6>3, <7>1
            <7>2. CASE k + 1 # n
              <8>1. t[l][k + 1] = s[l][(k + 1) + 1]
                BY <2>13, <6>1, <7>2
              <8>2. next[s[l][k + 1]] = s[l][(k + 1) + 1]
                BY <1>3, <6>1, <7>2
              <8> QED
                BY <2>10, <6>2, <6>3, <7>2, <8>1, <8>2
            <7> QED
              BY <7>1, <7>2
          <6>5. prev'[t[l][k]] = IF k = 1 THEN NULL ELSE t[l][k - 1]
            <7>1. CASE k = 1
              BY <2>10, <6>2, <6>3, <7>1
            <7>2. CASE k # 1
              <8>1. k + 1 # 2 /\ k - 1 \in 1..n /\ old(k - 1) = k
                BY <1>2, <5>2, <7>2
              <8>2. t[l][k - 1] = s[l][k]
                BY <2>13, <8>1
              <8>3. prev[s[l][k + 1]] = s[l][k]
                BY <1>3, <6>1
              <8> QED
                BY <2>10, <6>2, <6>3, <7>2, <8>1, <8>2, <8>3
            <7> QED
              BY <7>1, <7>2
          <6> QED
            BY <5>2, <6>4, <6>5
        <5> QED
          BY <5>1, <5>2
      <4> HIDE DEF old, back
      <4> QED
        BY <2>13, <3>2, <4>1, <4>3, <4>4
    <3> QED
      BY <3>1, <3>2
  <2>16. t[l] = [k \in 1..n |-> s[l][IF k = n THEN 1 ELSE k + 1]]
    BY <2>12
  <2> HIDE DEF old, back
  <2>17. Represents(t)'
    BY <2>13, <2>14, <2>15 DEF Represents
  <2> QED
    BY <1>1, <2>1, <2>8, <2>9, <2>13, <2>16, <2>17
<1> QED
  BY <1>4, <1>5

LEMMA RequeueRepresents ==
  ASSUME Represented, NEW l \in Lists, llist_requeue(l)
  PROVE  Represented'
<1> PICK s : Represents(s)
  BY DEF Represented
<1>1. CASE UNCHANGED llistVars
  BY <1>1, LinksUnchanged DEF llistVars
<1>2. CASE ~UNCHANGED llistVars
  BY <1>2, RequeueTurns DEF Represented
<1> QED
  BY <1>1, <1>2

\* llist_destroy, and hmap_destroy: the lists of ls are emptied, and the rest is left.
LEMMA DestroyEmpties ==
  ASSUME FieldsOK, NEW s, Represents(s), NEW ls \in SUBSET Lists, Destroy(ls)
  PROVE  /\ FieldsOK'
         /\ Represents([m \in Lists |-> IF m \in ls THEN <<>> ELSE s[m]])'
         /\ \A m \in Lists \ ls : \A k \in 1..Len(s[m]) : item'[s[m][k]] = item[s[m][k]]
<1>1. \A m \in Lists : /\ Len(s[m]) \in Nat /\ DOMAIN s[m] = 1..Len(s[m])
                       /\ \A k \in 1..Len(s[m]) : s[m][k] \in Cells
                       /\ Len(s[m]) <= Cardinality(Cells) /\ Cardinality(Cells) \in Nat
  BY ChainFits
<1> DEFINE all == {At(l, i) : l \in ls, i \in 0..Cardinality(Cells)} \ {NULL}
<1>2. PICK gone : gone = all
  <2> HIDE DEF all
  <2> QED
    OBVIOUS
<1>3. \A d \in Cells : d \in gone <=> \E l \in ls : \E k \in 1..Len(s[l]) : s[l][k] = d
  <2>1. ASSUME NEW d \in gone PROVE \E l \in ls : \E k \in 1..Len(s[l]) : s[l][k] = d
    <3>1. PICK l \in ls, i \in 0..Cardinality(Cells) : d = At(l, i) /\ d # NULL
      BY <1>2, <2>1
    <3>2. i \in 0..Len(s[l]) - 1 /\ d = s[l][i + 1]
      BY <3>1, AtPosition
    <3>3. i + 1 \in 1..Len(s[l])
      BY <1>1, <3>2
    <3> QED
      BY <3>2, <3>3
  <2>2. ASSUME NEW l \in ls, NEW k \in 1..Len(s[l]) PROVE s[l][k] \in gone
    <3>1. /\ k - 1 \in 0..Cardinality(Cells) /\ k - 1 \in 0..Len(s[l]) - 1
          /\ (k - 1) + 1 = k
      BY <1>1
    <3>2. At(l, k - 1) = s[l][k] /\ s[l][k] # NULL
      BY <1>1, <3>1, AtPosition, HeapAssumption
    <3> QED
      BY <1>2, <3>1, <3>2
  <2> QED
    BY <2>1, <2>2
<1>4. /\ used' = used \ gone
      /\ head' = [l \in Lists |-> IF l \in ls THEN NULL ELSE head[l]]
      /\ tail' = [l \in Lists |-> IF l \in ls THEN NULL ELSE tail[l]]
      /\ size' = [l \in Lists |-> IF l \in ls THEN 0 ELSE size[l]]
      /\ next' = [c \in Cells |-> IF c \in gone THEN Freed ELSE next[c]]
      /\ prev' = [c \in Cells |-> IF c \in gone THEN Freed ELSE prev[c]]
      /\ item' = [c \in Cells |-> IF c \in gone THEN Freed ELSE item[c]]
  BY <1>2 DEF Destroy
<1>5. FieldsOK'
  BY <1>4 DEF FieldsOK
<1>6. PICK t : t = [m \in Lists |-> IF m \in ls THEN <<>> ELSE s[m]]
  OBVIOUS
<1>7. /\ t \in [Lists -> Seq(Cells)]
      /\ \A m \in ls : t[m] = <<>> /\ DOMAIN t[m] = {} /\ Len(t[m]) = 0
      /\ \A m \in Lists \ ls : t[m] = s[m]
  <2>1. s \in [Lists -> Seq(Cells)] /\ <<>> \in Seq(Cells) /\ DOMAIN <<>> = {} /\ Len(<<>>) = 0
    BY DEF Represents
  <2> QED
    BY <1>6, <2>1
<1>8. OnePlace(t)'
  <2>1. \A m \in Lists, q \in Lists : \A i \in DOMAIN t[m], j \in DOMAIN t[q] :
          t[m][i] = t[q][j] => m = q /\ i = j
    BY <1>7 DEF Represents, OnePlace
  <2>2. \A d \in Cells : d \in used <=> \E m \in Lists : \E i \in DOMAIN s[m] : s[m][i] = d
    BY DEF Represents, OnePlace
  <2>3. ASSUME NEW d \in Cells, d \in used'
        PROVE  \E m \in Lists : \E i \in DOMAIN t[m] : t[m][i] = d
    <3>1. d \in used /\ d \notin gone
      BY <1>4, <2>3
    <3> PICK m \in Lists : \E i \in DOMAIN s[m] : s[m][i] = d
      BY <2>2, <3>1
    <3>2. m \notin ls
      BY <1>1, <1>3, <3>1
    <3> QED
      BY <1>7, <3>2
  <2>4. ASSUME NEW d \in Cells, NEW m \in Lists, NEW i \in DOMAIN t[m], t[m][i] = d
        PROVE  d \in used'
    <3>1. m \notin ls /\ i \in DOMAIN s[m] /\ s[m][i] = d
      BY <1>7, <2>4
    <3>2. d \in used
      BY <2>2, <3>1
    <3>3. d \notin gone
      <4>1. SUFFICES ASSUME d \in gone PROVE FALSE
        OBVIOUS
      <4>2. PICK l \in ls : \E k \in 1..Len(s[l]) : s[l][k] = d
        BY <1>3, <4>1
      <4>3. i \in 1..Len(s[m])
        BY <1>1, <3>1
      <4> QED
        BY <3>1, <4>2, <4>3, CellHasOnePlace
    <3> QED
      BY <1>4, <3>2, <3>3
  <2> QED
    BY <2>1, <2>3, <2>4 DEF OnePlace
<1>9. Linked(t)'
  <2> SUFFICES ASSUME NEW m \in Lists
               PROVE  /\ size'[m] = Len(t[m])
                      /\ head'[m] = IF t[m] = <<>> THEN NULL ELSE t[m][1]
                      /\ tail'[m] = IF t[m] = <<>> THEN NULL ELSE t[m][Len(t[m])]
                      /\ \A k \in DOMAIN t[m] :
                           /\ next'[t[m][k]] = IF k = Len(t[m]) THEN NULL ELSE t[m][k + 1]
                           /\ prev'[t[m][k]] = IF k = 1 THEN NULL ELSE t[m][k - 1]
    BY DEF Linked
  <2>1. CASE m \in ls
    BY <1>4, <1>7, <2>1
  <2>2. CASE m \notin ls
    <3>1. t[m] = s[m] /\ DOMAIN s[m] = 1..Len(s[m])
      BY <1>1, <1>7, <2>2
    <3>2. /\ size[m] = Len(s[m])
          /\ head[m] = IF s[m] = <<>> THEN NULL ELSE s[m][1]
          /\ tail[m] = IF s[m] = <<>> THEN NULL ELSE s[m][Len(s[m])]
      BY DEF Represents, Linked
    <3>3. ASSUME NEW k \in 1..Len(s[m])
          PROVE  next'[s[m][k]] = next[s[m][k]] /\ prev'[s[m][k]] = prev[s[m][k]]
      <4>1. s[m][k] \in Cells
        BY <1>1
      <4>2. \A l \in ls : \A i \in 1..Len(s[l]) : s[l][i] # s[m][k]
        BY <2>2, CellHasOnePlace
      <4>3. s[m][k] \notin gone
        BY <1>3, <4>1, <4>2
      <4> QED
        BY <1>4, <4>1, <4>3
    <3>4. \A k \in 1..Len(s[m]) :
            /\ next[s[m][k]] = IF k = Len(s[m]) THEN NULL ELSE s[m][k + 1]
            /\ prev[s[m][k]] = IF k = 1 THEN NULL ELSE s[m][k - 1]
      BY ListFields
    <3>5. \A k \in 1..Len(s[m]) :
            /\ next'[s[m][k]] = IF k = Len(s[m]) THEN NULL ELSE s[m][k + 1]
            /\ prev'[s[m][k]] = IF k = 1 THEN NULL ELSE s[m][k - 1]
      BY <3>3, <3>4
    <3>6. size'[m] = size[m] /\ head'[m] = head[m] /\ tail'[m] = tail[m]
      BY <1>4, <2>2
    <3> QED
      BY <3>1, <3>2, <3>5, <3>6, Zenon
  <2> QED
    BY <2>1, <2>2
<1>10. ASSUME NEW m \in Lists \ ls, NEW k \in 1..Len(s[m])
       PROVE  item'[s[m][k]] = item[s[m][k]]
  <2>1. s[m][k] \in Cells
    BY <1>1
  <2>2. \A l \in ls : \A i \in 1..Len(s[l]) : s[l][i] # s[m][k]
    BY CellHasOnePlace
  <2>3. s[m][k] \notin gone
    BY <1>3, <2>1, <2>2
  <2> QED
    BY <1>4, <2>1, <2>3
<1> QED
  BY <1>5, <1>6, <1>7, <1>8, <1>9, <1>10 DEF Represents

LEMMA DestroyRepresents ==
  ASSUME Represented, NEW ls \in SUBSET Lists, Destroy(ls)
  PROVE  Represented'
<1> PICK s : Represents(s)
  BY DEF Represented
<1> QED
  BY DestroyEmpties DEF Represented

\* llist_init: no list has a cell.
LEMMA InitRepresents ==
  ASSUME llist_init
  PROVE  Represented
<1>1. PICK t : t = [m \in Lists |-> <<>>]
  OBVIOUS
<1>2. /\ t \in [Lists -> Seq(Cells)]
      /\ \A m \in Lists : t[m] = <<>> /\ DOMAIN t[m] = {} /\ Len(t[m]) = 0
  <2>1. <<>> \in Seq(Cells) /\ DOMAIN <<>> = {} /\ Len(<<>>) = 0
    OBVIOUS
  <2> QED
    BY <1>1, <2>1
<1>3. FieldsOK
  BY DEF llist_init, FieldsOK
<1>4. Linked(t)
  BY <1>2 DEF llist_init, Linked
<1>5. OnePlace(t)
  BY <1>2 DEF llist_init, OnePlace
<1> QED
  BY <1>2, <1>3, <1>4, <1>5 DEF Represented, Represents

---------------------------------------------------------------------------------
(* A key is a number, so that every name has its bucket. *)

\* A fold over a finite set: a value of the right type at the start, and a step that
\* keeps the type, give a value of that type.
LEMMA FoldTyped ==
  ASSUME NEW S, IsFiniteSet(S), NEW T, NEW w, w[{}] \in T,
         \A u \in SUBSET S : u # {} => \E x \in u : w[u \ {x}] \in T => w[u] \in T
  PROVE  \A u \in SUBSET S : w[u] \in T
<1> DEFINE bad == {u \in SUBSET S : w[u] \notin T}
<1> SUFFICES ASSUME bad # {} PROVE FALSE
  OBVIOUS
<1>1. bad \subseteq FiniteSubsetsOf(S)
  BY FS_Subset DEF FiniteSubsetsOf
<1>2. PICK u \in bad : \A v \in bad : <<v, u>> \notin StrictSubsetOrdering(S)
  <2> HIDE DEF bad
  <2> QED
    BY <1>1, FS_StrictSubsetOrderingWellFounded, WFMin
<1>3. PICK x \in u : w[u \ {x}] \in T => w[u] \in T
  OBVIOUS
<1>4. u \ {x} \in bad
  BY <1>3
<1>5. <<u \ {x}, u>> \in StrictSubsetOrdering(S)
  BY DEF StrictSubsetOrdering
<1> QED
  BY <1>2, <1>4, <1>5

\* The fold that takes pick[u] out of u and combines it by g with the rest's value.
Picks(pick, S) == \A u \in SUBSET S : u # {} => pick[u] \in u
Combines(g, S, T) == \A x \in S, v \in T : g[<<x, v>>] \in T
IsFold(f, S, T, base, pick, g) ==
  /\ f \in [SUBSET S -> T]
  /\ \A u \in SUBSET S :
       f[u] = IF u = {} THEN base ELSE g[<<pick[u], f[u \ {pick[u]}]>>]

\* There is such a function, so that what a fold's definition chooses is one.
LEMMA FoldExists ==
  ASSUME NEW S, IsFiniteSet(S), NEW T, NEW base \in T,
         NEW pick, Picks(pick, S), NEW g, Combines(g, S, T)
  PROVE  \E f : IsFold(f, S, T, base, pick, g)
<1> USE DEF Picks, Combines
<1> DEFINE Right(f, u) == f[u] = IF u = {} THEN base ELSE g[<<pick[u], f[u \ {pick[u]}]>>]
           Upto(k) == \E f \in [SUBSET S -> T] :
                        \A u \in SUBSET S : Cardinality(u) <= k => Right(f, u)
           bad == {k \in Nat : ~Upto(k)}
<1>1. \A u \in SUBSET S : IsFiniteSet(u) /\ Cardinality(u) \in Nat
  BY FS_Subset, FS_CardinalityType
<1>2. \A u \in SUBSET S : u # {} =>
        u \ {pick[u]} \in SUBSET S /\ Cardinality(u \ {pick[u]}) = Cardinality(u) - 1
  BY <1>1, FS_RemoveElement
<1>3. CASE bad # {}
  <2>1. PICK m \in bad : \A k \in bad : m <= k
    <3> HIDE DEF Upto
    <3> QED
      BY <1>3, LeastNumber
  <2>2. PICK f \in [SUBSET S -> T] :
          \A u \in SUBSET S : Cardinality(u) < m => Right(f, u)
    <3>1. CASE m = 0
      <4> DEFINE f0 == [u \in SUBSET S |-> base]
      <4>1. f0 \in [SUBSET S -> T] /\ \A u \in SUBSET S : ~(Cardinality(u) < m)
        BY <1>1, <3>1
      <4> QED
        BY <4>1
    <3>2. CASE m # 0
      <4>1. m - 1 \in Nat /\ m - 1 \notin bad
        <5> HIDE DEF Upto
        <5> QED
          BY <2>1, <3>2
      <4>2. Upto(m - 1)
        BY <4>1
      <4>3. \A u \in SUBSET S : Cardinality(u) < m => Cardinality(u) <= m - 1
        BY <1>1, <2>1
      <4> QED
        BY <4>2, <4>3
    <3> QED
      BY <3>1, <3>2
  <2> PICK h : h = [u \in SUBSET S |-> IF u = {} THEN base ELSE g[<<pick[u], f[u \ {pick[u]}]>>]]
    OBVIOUS
  <2>3. h \in [SUBSET S -> T]
    BY <1>2
  <2>4. ASSUME NEW u \in SUBSET S, Cardinality(u) <= m PROVE Right(h, u)
    <3>1. CASE u = {}
      BY <3>1
    <3>2. CASE u # {}
      <4>1. u \ {pick[u]} \in SUBSET S /\ Cardinality(u \ {pick[u]}) < m
        BY <1>1, <1>2, <2>1, <2>4, <3>2
      <4>2. h[u \ {pick[u]}] = f[u \ {pick[u]}]
        BY <2>2, <4>1
      <4> QED
        BY <3>2, <4>2
    <3> QED
      BY <3>1, <3>2
  <2>5. Upto(m)
    BY <2>3, <2>4
  <2> QED
    BY <2>1, <2>5
<1>4. CASE bad = {}
  <2>1. Upto(Cardinality(S)) /\ \A u \in SUBSET S : Cardinality(u) <= Cardinality(S)
    BY <1>1, <1>4, FS_Subset
  <2> QED
    BY <2>1 DEF IsFold
<1> QED
  BY <1>3, <1>4

\* The powers of two that shift a half.
LEMMA SmallPowers == \A i \in 0..16 : 2 ^ i \in Nat \ {0}
<1>1. \A i \in 0..16 : i \in {0, 1, 2, 3, 4, 5, 6, 7, 8, 9, 10, 11, 12, 13, 14, 15, 16}
  OBVIOUS
<1>2. /\ 2 ^ 0 \in Nat \ {0} /\ 2 ^ 1 \in Nat \ {0} /\ 2 ^ 2 \in Nat \ {0}
      /\ 2 ^ 3 \in Nat \ {0} /\ 2 ^ 4 \in Nat \ {0} /\ 2 ^ 5 \in Nat \ {0}
      /\ 2 ^ 6 \in Nat \ {0} /\ 2 ^ 7 \in Nat \ {0} /\ 2 ^ 8 \in Nat \ {0}
      /\ 2 ^ 9 \in Nat \ {0} /\ 2 ^ 10 \in Nat \ {0} /\ 2 ^ 11 \in Nat \ {0}
      /\ 2 ^ 12 \in Nat \ {0} /\ 2 ^ 13 \in Nat \ {0} /\ 2 ^ 14 \in Nat \ {0}
      /\ 2 ^ 15 \in Nat \ {0} /\ 2 ^ 16 \in Nat \ {0}
  OBVIOUS
<1> QED
  BY <1>1, <1>2, Zenon

\* A word, of whatever halves.
Words == [hi : Int, lo : Int]

\* The sum of the bits of a half is a number (Xor).
LEMMA XorTyped ==
  ASSUME NEW m \in Int, NEW n \in Int
  PROVE  MapThenSumSet(LAMBDA i : ((m \div 2 ^ i + n \div 2 ^ i) % 2) * 2 ^ i, 0..15) \in Int
<1> DEFINE S == 0..15
           bit(i) == ((m \div 2 ^ i + n \div 2 ^ i) % 2) * 2 ^ i
           pick == [u \in SUBSET S |-> CHOOSE y \in u : TRUE]
           g == [p \in S \X Int |-> bit(p[1]) + p[2]]
           Step(w) == [u \in SUBSET S |->
                         IF u = {} THEN 0
                         ELSE LET x == CHOOSE y \in u : TRUE IN bit(x) + w[u \ {x}]]
<1>1. \A i \in S : bit(i) \in Int
  <2> SUFFICES ASSUME NEW i \in S PROVE bit(i) \in Int
    OBVIOUS
  <2>1. i \in 0..16
    OBVIOUS
  <2>5. 2 ^ i \in Nat \ {0}
    BY <2>1, SmallPowers, Zenon
  <2> PICK b \in Nat \ {0} : b = 2 ^ i
    BY <2>5, Zenon
  <2>2. m \div b \in Int /\ n \div b \in Int
    OBVIOUS
  <2>3. (m \div b + n \div b) % 2 \in Int
    BY <2>2
  <2>4. ((m \div b + n \div b) % 2) * b \in Int
    BY <2>3
  <2> QED
    BY <2>4
<1> HIDE DEF bit
<1>2. IsFiniteSet(S) /\ {} \in SUBSET S /\ S \in SUBSET S
  <2>1. 0 \in Int /\ 15 \in Int
    OBVIOUS
  <2> QED
    BY <2>1, FS_Interval, Zenon
<1>3. \A u \in SUBSET S : u # {} => pick[u] \in u
  OBVIOUS
<1>4. \A x \in S, v \in Int : g[<<x, v>>] = bit(x) + v /\ g[<<x, v>>] \in Int
  BY <1>1
<1>5. \E f : f = Step(f)
  <2> HIDE DEF pick, g
  <2>1. PICK f : IsFold(f, S, Int, 0, pick, g)
    <3> HIDE DEF S
    <3>1. Picks(pick, S)
      BY <1>3 DEF Picks
    <3>2. Combines(g, S, Int)
      BY <1>4 DEF Combines
    <3>3. 0 \in Int
      OBVIOUS
    <3> QED
      BY <1>2, <3>1, <3>2, <3>3, FoldExists, Zenon
  <2>5. /\ f \in [SUBSET S -> Int]
        /\ \A u \in SUBSET S :
             f[u] = IF u = {} THEN 0 ELSE g[<<pick[u], f[u \ {pick[u]}]>>]
    BY <2>1 DEF IsFold
  <2>2. ASSUME NEW u \in SUBSET S PROVE f[u] = Step(f)[u]
    <3>1. CASE u = {}
      BY <2>5, <3>1
    <3>2. CASE u # {}
      <4> PICK x : x = CHOOSE y \in u : TRUE
        OBVIOUS
      <4>1. pick[u] = x /\ x \in S /\ u \ {x} \in SUBSET S
        BY <1>3, <3>2 DEF pick
      <4>2. f[u] = bit(x) + f[u \ {x}]
        BY <1>4, <2>5, <3>2, <4>1
      <4> QED
        BY <3>2, <4>2
    <3> QED
      BY <3>1, <3>2
  <2>3. f = [u \in SUBSET S |-> f[u]] /\ Step(f) = [u \in SUBSET S |-> Step(f)[u]]
    BY <2>5
  <2> HIDE DEF Step
  <2>4. f = Step(f)
    BY <2>2, <2>3
  <2> QED
    BY <2>4
<1>6. PICK w : w = (CHOOSE f : f = Step(f))
  OBVIOUS
<1>7. w = Step(w)
  <2> HIDE DEF Step
  <2> QED
    BY <1>5, <1>6
<1>8. \A u \in SUBSET S : w[u] \in Int
  <2>1. w[{}] \in Int
    BY <1>2, <1>7
  <2>2. ASSUME NEW u \in SUBSET S, u # {}
        PROVE  \E x \in u : w[u \ {x}] \in Int => w[u] \in Int
    <3> PICK x \in u : x = CHOOSE y \in u : TRUE
      BY <2>2
    <3>1. w[u] = bit(x) + w[u \ {x}]
      BY <1>7, <2>2
    <3>2. bit(x) \in Int
      BY <1>1
    <3>3. w[u \ {x}] \in Int => w[u] \in Int
      BY <3>1, <3>2
    <3> QED
      BY <3>3, Zenon
  <2> HIDE DEF S
  <2> QED
    BY <1>2, <2>1, <2>2, FoldTyped
<1>9. MapThenSumSet(LAMBDA i : ((m \div 2 ^ i + n \div 2 ^ i) % 2) * 2 ^ i, 0..15) = w[S]
  BY <1>6 DEF MapThenSumSet, MapThenFoldSet, bit
<1> QED
  BY <1>2, <1>8, <1>9

\* Each step of the hash makes a word of words.
LEMMA WordsTyped ==
  /\ \A n \in Int : Int32(n) \in Words
  /\ \A a, b \in Words : Plus(a, b) \in Words /\ Xor(a, b) \in Words
  /\ \A a \in Words : \A k \in {3, 10, 15} : ShiftLeft(a, k) \in Words
  /\ \A a \in Words : \A k \in {6, 11} : ShiftRight(a, k) \in Words
<1>1. Half \in Nat \ {0} /\ Half = 65536
  BY DEF Half
<1>2. \A n \in Int : Int32(n) \in Words
  BY <1>1 DEF Int32, Words
<1>3. ASSUME NEW a \in Words, NEW b \in Words PROVE Plus(a, b) \in Words
  <2>1. a.lo + b.lo \in Int /\ a.hi + b.hi \in Int
    BY DEF Words
  <2> PICK l \in Int : l = a.lo + b.lo
    BY <2>1
  <2>2. l \div Half \in Int /\ l % Half \in Int
    BY <1>1
  <2>3. (a.hi + b.hi + l \div Half) % Half \in Int
    BY <1>1, <2>1, <2>2
  <2>4. Plus(a, b) = [hi |-> (a.hi + b.hi + l \div Half) % Half, lo |-> l % Half]
    BY DEF Plus
  <2> QED
    BY <2>2, <2>3, <2>4 DEF Words
<1>4. ASSUME NEW a \in Words, NEW b \in Words PROVE Xor(a, b) \in Words
  <2>1. a.hi \in Int /\ b.hi \in Int /\ a.lo \in Int /\ b.lo \in Int
    BY DEF Words
  <2> DEFINE x(m, n) == MapThenSumSet(LAMBDA i : ((m \div 2 ^ i + n \div 2 ^ i) % 2) * 2 ^ i, 0..15)
  <2>2. x(a.hi, b.hi) \in Int
    BY <2>1, XorTyped
  <2>3. x(a.lo, b.lo) \in Int
    BY <2>1, XorTyped
  <2>4. Xor(a, b) = [hi |-> x(a.hi, b.hi), lo |-> x(a.lo, b.lo)]
    BY DEF Xor
  <2> HIDE DEF x
  <2> QED
    BY <2>2, <2>3, <2>4 DEF Words
<1>5. ASSUME NEW a \in Words, NEW k \in {3, 10, 15} PROVE ShiftLeft(a, k) \in Words
  <2>1. a.hi \in Int /\ a.lo \in Int
    BY DEF Words
  <2>2. k \in 0..16 /\ 16 - k \in 0..16
    OBVIOUS
  <2>3. 2 ^ k \in Nat \ {0} /\ 2 ^ (16 - k) \in Nat \ {0}
    BY <2>2, SmallPowers, Zenon
  <2>4. PICK p \in Nat \ {0} : p = 2 ^ k
    BY <2>3, Zenon
  <2>5. PICK q \in Nat \ {0} : q = 2 ^ (16 - k)
    BY <2>3, Zenon
  <2>6. ShiftLeft(a, k) = [hi |-> (a.hi * p + a.lo \div q) % Half, lo |-> (a.lo * p) % Half]
    BY <2>4, <2>5, Zenon DEF ShiftLeft
  <2>7. a.hi * p \in Int /\ a.lo * p \in Int /\ a.lo \div q \in Int
    BY <2>1
  <2>8. (a.hi * p + a.lo \div q) % Half \in Int /\ (a.lo * p) % Half \in Int
    BY <1>1, <2>7
  <2> QED
    BY <2>6, <2>8 DEF Words
<1>6. ASSUME NEW a \in Words, NEW k \in {6, 11} PROVE ShiftRight(a, k) \in Words
  <2>1. a.hi \in Int /\ a.lo \in Int
    BY DEF Words
  <2>2. k \in 0..16 /\ 16 - k \in 0..16
    OBVIOUS
  <2>3. 2 ^ k \in Nat \ {0} /\ 2 ^ (16 - k) \in Nat \ {0}
    BY <2>2, SmallPowers, Zenon
  <2>4. PICK p \in Nat \ {0} : p = 2 ^ k
    BY <2>3, Zenon
  <2>5. PICK q \in Nat \ {0} : q = 2 ^ (16 - k)
    BY <2>3, Zenon
  <2>6. ShiftRight(a, k) = [hi |-> a.hi \div p + (IF Negative(a) THEN Half - q ELSE 0),
                            lo |-> a.lo \div p + (a.hi % p) * q]
    BY <2>4, <2>5, Zenon DEF ShiftRight
  <2>7. a.hi \div p \in Int /\ a.lo \div p \in Int /\ a.hi % p \in Int /\ Half - q \in Int
    BY <1>1, <2>1
  <2>8. /\ a.hi \div p + (IF Negative(a) THEN Half - q ELSE 0) \in Int
        /\ a.lo \div p + (a.hi % p) * q \in Int
    BY <2>7
  <2> QED
    BY <2>6, <2>8 DEF Words
<1> QED
  BY <1>2, <1>3, <1>4, <1>5, <1>6

\* The greatest of a set of positions is one of them.
LEMMA GreatestPosition ==
  ASSUME NEW n \in Nat, NEW u \in SUBSET (1..n), u # {}
  PROVE  Max(u) \in u
<1> DEFINE T == {n - k : k \in u}
<1>1. \A k \in u : k \in Nat /\ n - k \in Nat
  OBVIOUS
<1>2. T \in SUBSET Nat /\ T # {}
  BY <1>1, Zenon
<1>3. PICK m \in T : \A k \in T : m <= k
  <2> HIDE DEF T
  <2> QED
    BY <1>2, LeastNumber
<1>4. PICK x \in u : m = n - x
  BY Zenon
<1>5. ASSUME NEW y \in u PROVE x >= y
  <2>1. n - y \in T
    OBVIOUS
  <2>2. n - x <= n - y
    BY <1>3, <1>4, <2>1
  <2> QED
    BY <1>1, <2>2
<1>6. \E x1 \in u : \A y \in u : x1 >= y
  BY <1>5
<1> QED
  BY <1>6 DEF Max

\* The hash of a name is a word.
LEMMA HashTyped ==
  ASSUME NEW s \in Seq(1..127)
  PROVE  str_hash(s) \in Words
<1> DEFINE step(h, c) == Fold(Spread(Plus(h, Int32(c)), 10), 6)
           S == DOMAIN s
           pick == [u \in SUBSET S |-> Max(u)]
           g == [p \in S \X Words |-> step(p[2], s[p[1]])]
           Step(w) == [u \in SUBSET S |->
                         IF u = {} THEN Int32(0)
                         ELSE LET x == Max(u) IN step(w[u \ {x}], s[x])]
<1>1. \A a \in Words : /\ \A k \in {3, 10, 15} : Spread(a, k) \in Words
                       /\ \A k \in {6, 11} : Fold(a, k) \in Words
  BY WordsTyped DEF Spread, Fold
<1>2. \A h \in Words, x \in S : step(h, s[x]) \in Words
  <2> SUFFICES ASSUME NEW h \in Words, NEW x \in S PROVE step(h, s[x]) \in Words
    OBVIOUS
  <2>1. s[x] \in 1..127
    BY ElementOfSeq, LenProperties
  <2>4. \A y \in 1..127 : y \in Int
    OBVIOUS
  <2>3. s[x] \in Int
    BY <2>1, <2>4, Zenon
  <2>2. Plus(h, Int32(s[x])) \in Words
    BY <2>3, WordsTyped
  <2> QED
    BY <1>1, <2>2
<1>3. Int32(0) \in Words
  BY WordsTyped
<1>4. IsFiniteSet(S) /\ {} \in SUBSET S /\ S \in SUBSET S /\ S = 1..Len(s) /\ Len(s) \in Nat
  <2>1. S = 1..Len(s) /\ Len(s) \in Nat
    BY LenProperties
  <2>2. IsFiniteSet(1..Len(s))
    BY <2>1, FS_Interval
  <2> QED
    BY <2>1, <2>2
<1>5. \A u \in SUBSET S : u # {} => Max(u) \in u
  BY <1>4, GreatestPosition
<1> HIDE DEF step
<1>6. Picks(pick, S)
  BY <1>5 DEF Picks
<1>7. /\ \A x \in S, v \in Words : g[<<x, v>>] = step(v, s[x])
      /\ Combines(g, S, Words)
  BY <1>2 DEF Combines
<1>8. \E f : f = Step(f)
  <2> HIDE DEF pick, g, S
  <2>1. PICK f : IsFold(f, S, Words, Int32(0), pick, g)
    BY <1>3, <1>4, <1>6, <1>7, FoldExists, Zenon
  <2>2. /\ f \in [SUBSET S -> Words]
        /\ \A u \in SUBSET S :
             f[u] = IF u = {} THEN Int32(0) ELSE g[<<pick[u], f[u \ {pick[u]}]>>]
    BY <2>1 DEF IsFold
  <2>3. ASSUME NEW u \in SUBSET S PROVE f[u] = Step(f)[u]
    <3>1. CASE u = {}
      BY <2>2, <3>1
    <3>2. CASE u # {}
      <4> PICK x : x = Max(u)
        OBVIOUS
      <4>1. pick[u] = x /\ x \in S /\ u \ {x} \in SUBSET S
        BY <1>5, <3>2 DEF pick
      <4>2. f[u] = step(f[u \ {x}], s[x])
        BY <1>7, <2>2, <3>2, <4>1
      <4> QED
        BY <3>2, <4>2
    <3> QED
      BY <3>1, <3>2
  <2>4. f = [u \in SUBSET S |-> f[u]] /\ Step(f) = [u \in SUBSET S |-> Step(f)[u]]
    BY <2>2
  <2> HIDE DEF Step
  <2>5. f = Step(f)
    BY <2>3, <2>4
  <2> QED
    BY <2>5
<1>9. PICK w : w = (CHOOSE f : f = Step(f))
  OBVIOUS
<1>10. w = Step(w)
  <2> HIDE DEF Step
  <2> QED
    BY <1>8, <1>9
<1>11. \A u \in SUBSET S : w[u] \in Words
  <2> HIDE DEF S
  <2>1. w[{}] \in Words
    BY <1>3, <1>4, <1>10
  <2>2. ASSUME NEW u \in SUBSET S, u # {}
        PROVE  \E x \in u : w[u \ {x}] \in Words => w[u] \in Words
    <3> PICK x \in u : x = Max(u)
      BY <1>5, <2>2
    <3>1. w[u] = step(w[u \ {x}], s[x])
      BY <1>10, <2>2
    <3>2. w[u \ {x}] \in Words => w[u] \in Words
      BY <1>2, <3>1
    <3> QED
      BY <3>2, Zenon
  <2> QED
    BY <1>4, <2>1, <2>2, FoldTyped
<1>12. FoldLeft(LAMBDA h, c : Fold(Spread(Plus(h, Int32(c)), 10), 6), Int32(0), s) = w[S]
  BY <1>9 DEF FoldLeft, MapThenFoldSet, step
<1>13. w[S] \in Words
  BY <1>4, <1>11
<1>14. str_hash(s) = Spread(Fold(Spread(w[S], 3), 11), 15)
  BY <1>12 DEF str_hash
<1> QED
  BY <1>1, <1>13, <1>14

\* So a key is a number.
LEMMA KeyTyped ==
  ASSUME NEW s \in Seq(1..127)
  PROVE  abs(str_hash(s)) \in Int
<1> PICK a \in Words : a = str_hash(s)
  BY HashTyped
<1>1. Half \in Int
  BY DEF Half
<1>2. [hi |-> Half - 1 - a.hi, lo |-> Half - 1 - a.lo] \in Words
  BY <1>1 DEF Words
<1>3. Plus([hi |-> Half - 1 - a.hi, lo |-> Half - 1 - a.lo], Int32(1)) \in Words
  BY <1>2, WordsTyped
<1>4. PICK n \in Words : abs(a) = n.hi * Half + n.lo
  BY <1>3 DEF abs
<1>5. n.hi \in Int /\ n.lo \in Int
  BY DEF Words
<1> QED
  BY <1>1, <1>4, <1>5

\* The buckets, and the routing list, are among the lists.
LEMMA BucketsAreLists ==
  /\ routing_list \in Lists
  /\ Buckets \in SUBSET Lists
  /\ \A name \in Names : Bucket(Key[name]) \in Lists
<1>1. ASSUME NEW name \in Names PROVE Bucket(Key[name]) \in Buckets
  <2>1. Key[name] \in Int
    BY KeyTyped, NamesAssumption DEF Key
  <2> PICK key \in Int : key = Key[name]
    BY <2>1
  <2>2. key % HSize \in 0..HSize - 1
    BY NamesAssumption
  <2> QED
    BY <2>2 DEF Bucket, Buckets
<1> QED
  BY <1>1, ListsAssumption

---------------------------------------------------------------------------------
(* The theorems. *)

\* A call on the routing list, and a call on the map, is one of linkedlist.c or touches
\* no link.
LEMMA StepRepresents ==
  ASSUME Represented, [Next]_allVars
  PROVE  Represented'
<1>1. CASE UNCHANGED allVars
  BY <1>1, LinksUnchanged DEF allVars, llistVars
<1>2. ASSUME NEW x \in Entries, AppendEntry(x) PROVE Represented'
  <2>1. CASE llist_append(routing_list, x)
    BY <2>1, AppendRepresents, BucketsAreLists
  <2>2. CASE UNCHANGED llistVars
    BY <2>2, LinksUnchanged DEF llistVars
  <2> QED
    BY <1>2, <2>1, <2>2 DEF AppendEntry
<1>3. ASSUME NEW x \in Entries, llist_remove(x) PROVE Represented'
  BY <1>3, RemoveAtRepresents, BucketsAreLists DEF llist_remove
<1>4. ASSUME NEW i \in -1..Cardinality(Cells), RemoveAtIndex(i) PROVE Represented'
  BY <1>4, RemoveAtRepresents, BucketsAreLists DEF RemoveAtIndex
<1>5. ASSUME PopEntry PROVE Represented'
  BY <1>5, PopRepresents, BucketsAreLists DEF PopEntry
<1>6. ASSUME RequeueEntry PROVE Represented'
  BY <1>6, RequeueRepresents, BucketsAreLists DEF RequeueEntry
<1>7. ASSUME DestroyList PROVE Represented'
  <2>1. Destroy({routing_list}) /\ {routing_list} \in SUBSET Lists
    BY <1>7, BucketsAreLists DEF DestroyList, llist_destroy
  <2> QED
    BY <2>1, DestroyRepresents
<1>8. ASSUME NEW name \in Names, NEW value \in Values, hmap_put_abs(Key[name], value)
      PROVE  Represented'
  <2> DEFINE e == [key_val |-> Key[name], value |-> value]
  <2>1. CASE Overwrite(CellOf(Key[name]), e)
    BY <2>1, LinksUnchanged DEF Overwrite
  <2>2. CASE llist_append(Bucket(Key[name]), e)
    <3> HIDE DEF e
    <3> QED
      BY <2>2, AppendRepresents, BucketsAreLists
  <2>3. CASE UNCHANGED llistVars
    BY <2>3, LinksUnchanged DEF llistVars
  <2> QED
    BY <1>8, <2>1, <2>2, <2>3 DEF hmap_put_abs
<1>9. ASSUME NEW name \in Names, hmap_remove_abs(Key[name]) PROVE Represented'
  <2>1. UNCHANGED <<head, tail, size, next, prev, used>>
    BY <1>9 DEF hmap_remove_abs, Overwrite, llistVars
  <2> QED
    BY <2>1, LinksUnchanged
<1>10. ASSUME hmap_destroy PROVE Represented'
  BY <1>10, DestroyRepresents, BucketsAreLists DEF hmap_destroy
<1> QED
  BY <1>1, <1>2, <1>3, <1>4, <1>5, <1>6, <1>7, <1>8, <1>9, <1>10 DEF Next, ListCall, MapCall

LEMMA AlwaysRepresented == Spec => []Represented
<1>1. Init => Represented
  BY InitRepresents DEF Init
<1>2. Represented /\ [Next]_allVars => Represented'
  BY StepRepresents
<1> QED
  BY <1>1, <1>2, PTL DEF Spec

\* In every reachable state the fields of the lists and cells hold one sequence of
\* cells for each list, the one a loop over next comes to, and each cell in use has one
\* place in them (linkedlist.c, hashmap.c).
THEOREM LinkInvariant == Spec => []LinkInv
<1>1. Represented => LinkInv
  BY ChainsAreThose DEF Represented, LinkInv
<1> QED
  BY <1>1, AlwaysRepresented, PTL

\* Every list can be walked in both directions, and its size is its length, after any
\* calls of llist_append, llist_remove_at, llist_pop, llist_requeue, llist_destroy and
\* the map's calls (linkedlist.c:72-210).
THEOREM ListsWellLinked == Spec => []WellLinked
<1>1. Represented => WellLinked
  BY RepresentsWellLinked DEF Represented
<1> QED
  BY <1>1, AlwaysRepresented, PTL

\* No call leaks a cell, frees one twice, shares one between two lists or buckets, or
\* leaves a link to a freed one (linkedlist.c, hashmap.c).
THEOREM NothingLeaks == Spec => []HeapExact
<1>1. Represented => HeapExact
  BY RepresentsHeapExact DEF Represented
<1> QED
  BY <1>1, AlwaysRepresented, PTL

---------------------------------------------------------------------------------
(* The routing list as a sequence of items. *)

\* Functions from 1..n are sequences, and adding or taking out an element moves the others.
LEMMA AppendShape ==
  ASSUME NEW n \in Nat, NEW f, f = [k \in 1..n |-> f[k]], NEW x
  PROVE  /\ f \in Seq({f[k] : k \in 1..n} \cup {x}) /\ Len(f) = n
         /\ Append(f, x) = [k \in 1..n + 1 |-> IF k = n + 1 THEN x ELSE f[k]]
<1> DEFINE S == {f[k] : k \in 1..n} \cup {x}
<1>1. f \in [1..n -> S]
  OBVIOUS
<1> HIDE DEF S
<1>2. f \in Seq(S) /\ Len(f) = n /\ x \in S
  <2>1. f \in Seq(S) /\ Len(f) = n
    BY <1>1
  <2> QED
    BY <2>1 DEF S
<1>3. /\ Append(f, x) \in Seq(S) /\ Len(Append(f, x)) = n + 1
      /\ \A k \in 1..n : Append(f, x)[k] = f[k]
      /\ Append(f, x)[n + 1] = x
  BY <1>2, AppendProperties
<1>4. Append(f, x) = [k \in 1..n + 1 |-> Append(f, x)[k]]
  BY <1>3, LenProperties
<1>5. \A k \in 1..n + 1 : k # n + 1 => k \in 1..n
  OBVIOUS
<1> QED
  BY <1>2, <1>3, <1>4, <1>5 DEF S

LEMMA RemoveAtShape ==
  ASSUME NEW S, NEW f \in Seq(S), NEW n \in Nat, n = Len(f), NEW p \in 1..n
  PROVE  List!RemoveAt(f, p) = [k \in 1..n - 1 |-> f[IF k >= p THEN k + 1 ELSE k]]
<1> DEFINE u == SubSeq(f, 1, p - 1)
           v == SubSeq(f, p + 1, n)
<1>1. \A k \in 1..n : f[k] \in S
  BY ElementOfSeq
<1>3. /\ u \in Seq(S) /\ Len(u) = p - 1 /\ \A k \in 1..p - 1 : u[k] = f[k]
  BY <1>1, SubSeqProperties
<1>4. /\ v \in Seq(S) /\ Len(v) = n - p /\ \A k \in 1..n - p : v[k] = f[p + k]
  BY <1>1, SubSeqProperties
<1> HIDE DEF u, v
<1>5. /\ u \o v \in Seq(S) /\ Len(u \o v) = n - 1
      /\ \A k \in 1..n - 1 : (u \o v)[k] = IF k <= p - 1 THEN u[k] ELSE v[k - (p - 1)]
  <2>1. (p - 1) + (n - p) = n - 1
    OBVIOUS
  <2>2. /\ u \o v \in Seq(S) /\ Len(u \o v) = Len(u) + Len(v)
        /\ \A k \in 1..Len(u) + Len(v) : (u \o v)[k] = IF k <= Len(u) THEN u[k] ELSE v[k - Len(u)]
    BY <1>3, <1>4, ConcatProperties, Zenon
  <2> QED
    BY <1>3, <1>4, <2>1, <2>2
<1>6. ASSUME NEW k \in 1..n - 1 PROVE (u \o v)[k] = f[IF k >= p THEN k + 1 ELSE k]
  <2>1. CASE k >= p
    <3>1. ~(k <= p - 1) /\ k - (p - 1) \in 1..n - p /\ p + (k - (p - 1)) = k + 1
      BY <2>1
    <3> QED
      BY <1>4, <1>5, <2>1, <3>1
  <2>2. CASE ~(k >= p)
    <3>1. k \in 1..p - 1 /\ k <= p - 1
      BY <2>2
    <3> QED
      BY <1>3, <1>5, <2>2, <3>1
  <2> QED
    BY <2>1, <2>2
<1>7. u \o v = [k \in 1..n - 1 |-> (u \o v)[k]]
  BY <1>5, LenProperties
<1>8. List!RemoveAt(f, p) = u \o v
  BY DEF List!RemoveAt, u, v
<1> QED
  BY <1>6, <1>7, <1>8

\* Moving the first of several elements to the end moves the others forward.
LEMMA RotateShape ==
  ASSUME NEW n \in Nat, n > 1, NEW f, f = [k \in 1..n |-> f[k]]
  PROVE  /\ f # <<>>
         /\ Append(Tail(f), Head(f)) = [k \in 1..n |-> f[IF k = n THEN 1 ELSE k + 1]]
<1> DEFINE S == {f[k] : k \in 1..n} \cup {f[1]}
<1>1. f \in Seq(S) /\ Len(f) = n
  BY AppendShape
<1> HIDE DEF S
<1>2. f # <<>>
  BY <1>1, EmptySeq
<1>3. /\ Head(f) = f[1] /\ Tail(f) \in Seq(S) /\ Len(Tail(f)) = n - 1
      /\ \A k \in 1..n - 1 : Tail(f)[k] = f[k + 1]
  <2>1. Head(f) = f[1]
    BY <1>1, <1>2
  <2>2. /\ Tail(f) \in Seq(S) /\ Len(Tail(f)) = n - 1
        /\ \A k \in 1..Len(Tail(f)) : Tail(f)[k] = f[k + 1]
    BY <1>1, <1>2, HeadTailProperties
  <2> QED
    BY <2>1, <2>2
<1>4. n - 1 \in Nat /\ (n - 1) + 1 = n
  OBVIOUS
<1>5. Tail(f) = [k \in 1..n - 1 |-> Tail(f)[k]]
  BY <1>3, LenProperties
<1>6. Append(Tail(f), Head(f)) = [k \in 1..n |-> IF k = n THEN f[1] ELSE Tail(f)[k]]
  BY <1>3, <1>4, <1>5, AppendShape
<1>7. \A k \in 1..n : k # n => k \in 1..n - 1
  OBVIOUS
<1> QED
  BY <1>2, <1>3, <1>6, <1>7

\* item is an array of the cells.
ItemsOK == item = [c \in Cells |-> item[c]]

LEMMA ItemsTyped == Spec => []ItemsOK
<1>1. Init => ItemsOK
  BY DEF Init, llist_init, ItemsOK
<1>2. ASSUME ItemsOK, [Next]_allVars PROVE ItemsOK'
  <2>1. \/ UNCHANGED item
        \/ \E c, x : item' = [item EXCEPT ![c] = x]
        \/ \E gone : item' = [c \in Cells |-> IF c \in gone THEN Freed ELSE item[c]]
    <3>1. \A l, i : llist_remove_at(l, i) => UNCHANGED item \/ \E c : item' = [item EXCEPT ![c] = Freed]
      BY DEF llist_remove_at, TakeHead, TakeTail, TakeInner, free, llistVars
    <3>2. \A l : llist_pop(l) => UNCHANGED item \/ \E c : item' = [item EXCEPT ![c] = Freed]
      BY DEF llist_pop, TakeHead, free, llistVars
    <3>3. \A l, x : llist_append(l, x) => \E c : item' = [item EXCEPT ![c] = x]
      BY DEF llist_append
    <3>4. \A l : llist_requeue(l) => UNCHANGED item
      BY DEF llist_requeue, llistVars
    <3>5. \A ls : Destroy(ls) =>
            \E gone : item' = [c \in Cells |-> IF c \in gone THEN Freed ELSE item[c]]
      <4> SUFFICES ASSUME NEW ls, Destroy(ls)
                   PROVE  \E gone : item' = [c \in Cells |-> IF c \in gone THEN Freed ELSE item[c]]
        OBVIOUS
      <4> DEFINE all == {At(l, i) : l \in ls, i \in 0..Cardinality(Cells)} \ {NULL}
      <4>1. item' = [c \in Cells |-> IF c \in all THEN Freed ELSE item[c]]
        BY DEF Destroy
      <4> HIDE DEF all
      <4> QED
        BY <4>1
    <3>6. \A c, e : Overwrite(c, e) => item' = [item EXCEPT ![c] = e]
      BY DEF Overwrite
    <3>7. CASE UNCHANGED allVars
      BY <3>7 DEF allVars, llistVars
    <3>8. CASE ListCall
      BY <3>1, <3>2, <3>3, <3>4, <3>5, <3>8
      DEF ListCall, AppendEntry, llist_remove, RemoveAtIndex, PopEntry, RequeueEntry, DestroyList,
          llist_destroy, llistVars
    <3>9. CASE MapCall
      BY <3>3, <3>5, <3>6, <3>9 DEF MapCall, hmap_put_abs, hmap_remove_abs, hmap_destroy, llistVars
    <3> QED
      BY <1>2, <3>7, <3>8, <3>9 DEF Next
  <2> QED
    BY <1>2, <2>1 DEF ItemsOK
<1> QED
  BY <1>1, <1>2, PTL DEF Spec

\* The items of the cells of the routing list, in their order.
ItemsIn(s) == [k \in 1..Len(s[routing_list]) |-> item[s[routing_list][k]]]

\* They are those that llist_get finds.
LEMMA ItemsAreThose == \A s : Represents(s) => Items = ItemsIn(s)
<1> SUFFICES ASSUME NEW s, Represents(s) PROVE Items = ItemsIn(s)
  OBVIOUS
<1> PICK l \in Lists : l = routing_list
  BY BucketsAreLists
<1>1. PICK n \in Nat : n = Len(s[l])
  BY ChainFits
<1>2. size[l] = n /\ \A k \in 1..n : s[l][k] \in Cells
  BY <1>1, ChainFits, ListFields
<1>3. ASSUME NEW k \in 1..n PROVE llist_get(k - 1) = item[s[l][k]]
  <2>1. k - 1 \in 0..n - 1 /\ (k - 1) + 1 = k
    OBVIOUS
  <2>2. At(l, k - 1) = s[l][k] /\ s[l][k] # NULL
    BY <1>1, <1>2, <2>1, AtPosition, HeapAssumption
  <2> QED
    BY <2>2 DEF llist_get
<1> QED
  BY <1>1, <1>2, <1>3 DEF Items, ItemsIn

\* The same of the next state.
LEMMA ItemsNext ==
  ASSUME NEW t, Represents(t)'
  PROVE  Items' = [k \in 1..Len(t[routing_list]) |-> item'[t[routing_list][k]]]
<1>1. (\A s : Represents(s) => Items = ItemsIn(s))'
  BY ItemsAreThose, PTL
<1> QED
  BY <1>1 DEF ItemsIn

\* A call that leaves the cells alone leaves the items alone.
LEMMA ItemsUnchanged ==
  ASSUME UNCHANGED <<head, size, next, item>>
  PROVE  Items' = Items
BY DEF Items, llist_get, At, Walk

\* In this state, the routing list has n cells, those of q.
RoutingIs(s, n, q) ==
  /\ s[routing_list] = q /\ n = Len(q) /\ size[routing_list] = n
  /\ head[routing_list] = IF n = 0 THEN NULL ELSE q[1]
  /\ \A k \in 1..n : q[k] \in Cells /\ q[k] \in used
  /\ \A i, j \in 1..n : q[i] = q[j] => i = j
  /\ Items = [k \in 1..n |-> item[q[k]]] /\ Len(Items) = n /\ DOMAIN Items = 1..n
  /\ \E S : Items \in Seq(S)

LEMMA ItemsNow ==
  ASSUME ItemsOK, NEW s, Represents(s)
  PROVE  \E n \in Nat, q \in Seq(Cells) : RoutingIs(s, n, q)
<1> PICK l \in Lists : l = routing_list
  BY BucketsAreLists
<1> PICK q \in Seq(Cells) : q = s[l]
  BY DEF Represents
<1>1. PICK n \in Nat : n = Len(q)
  BY LenProperties
<1>2. /\ size[l] = n /\ head[l] = (IF n = 0 THEN NULL ELSE q[1])
      /\ \A k \in 1..n : q[k] \in Cells /\ k \in DOMAIN q
  BY <1>1, ChainFits, ListFields
<1>3. \A i, j \in 1..n : q[i] = q[j] => i = j
  BY <1>1, CellHasOnePlace
<1>4. \A k \in 1..n : q[k] \in used
  BY <1>2 DEF Represents, OnePlace
<1>5. Items = [k \in 1..n |-> item[q[k]]]
  BY <1>1, ItemsAreThose DEF ItemsIn
<1> DEFINE S == {item[c] : c \in Cells}
<1>6. Items \in [1..n -> S]
  BY <1>2, <1>5
<1> HIDE DEF S
<1>7. Items \in Seq(S) /\ Len(Items) = n /\ DOMAIN Items = 1..n
  BY <1>6
<1> QED
  BY <1>1, <1>2, <1>3, <1>4, <1>5, <1>7 DEF RoutingIs

\* When a cell of the routing list is taken out, its item leaves the sequence.
LEMMA TakenOut ==
  ASSUME ItemsOK, NEW s, NEW n \in Nat, NEW q \in Seq(Cells), RoutingIs(s, n, q), NEW p \in 1..n,
         item' = [item EXCEPT ![q[p]] = Freed],
         NEW t, Represents(t)', Without(t, s, routing_list, p)
  PROVE  Items' = List!RemoveAt(Items, p)
<1>1. /\ s[routing_list] = q /\ n = Len(q)
      /\ \A k \in 1..n : q[k] \in Cells
      /\ \A j, k \in 1..n : q[j] = q[k] => j = k
      /\ Items = [k \in 1..n |-> item[q[k]]] /\ Len(Items) = n
  BY DEF RoutingIs
<1> DEFINE old(k) == IF k >= p THEN k + 1 ELSE k
<1>2. \A k \in 1..n - 1 : old(k) \in 1..n /\ old(k) # p
  OBVIOUS
<1>3. t[routing_list] = [k \in 1..n - 1 |-> q[old(k)]]
  BY <1>1 DEF Without
<1> HIDE DEF old
<1>4. Len(t[routing_list]) = n - 1
  <2>1. n - 1 \in Nat
    OBVIOUS
  <2> QED
    BY <1>1, <1>2, <1>3, <2>1
<1>5. \A k \in 1..n - 1 : item'[q[old(k)]] = item[q[old(k)]]
  BY <1>1, <1>2 DEF ItemsOK
<1>6. Items' = [k \in 1..n - 1 |-> item'[t[routing_list][k]]]
  BY <1>4, ItemsNext
<1>7. Items' = [k \in 1..n - 1 |-> Items[old(k)]]
  BY <1>1, <1>2, <1>3, <1>5, <1>6
<1>8. List!RemoveAt(Items, p) = [k \in 1..n - 1 |-> Items[IF k >= p THEN k + 1 ELSE k]]
  <2> PICK S : Items \in Seq(S)
    BY DEF RoutingIs
  <2> PICK f \in Seq(S) : f = Items
    OBVIOUS
  <2>1. n = Len(f)
    BY <1>1
  <2>2. List!RemoveAt(f, p) = [k \in 1..n - 1 |-> f[IF k >= p THEN k + 1 ELSE k]]
    BY <2>1, RemoveAtShape
  <2> QED
    BY <2>2
<1> QED
  BY <1>7, <1>8 DEF old

\* llist_remove_at takes the item at the position out of the sequence, if there is one.
LEMMA RemoveAtKept ==
  ASSUME FieldsOK, ItemsOK, NEW s, Represents(s), NEW i \in Int, llist_remove_at(routing_list, i)
  PROVE  Items' = IF i + 1 \in DOMAIN Items THEN List!RemoveAt(Items, i + 1) ELSE Items
<1> PICK n \in Nat, q \in Seq(Cells) : RoutingIs(s, n, q)
  BY ItemsNow
<1>1. s[routing_list] = q /\ n = Len(q) /\ DOMAIN Items = 1..n
  BY DEF RoutingIs
<1>2. i \in 0..n - 1 <=> i + 1 \in 1..n
  OBVIOUS
<1>3. CASE i \notin 0..n - 1
  <2>1. UNCHANGED llistVars
    BY <1>1, <1>3, BucketsAreLists, RemoveAtTakes
  <2>2. Items' = Items
    BY <2>1, ItemsUnchanged DEF llistVars
  <2> QED
    BY <1>1, <1>2, <1>3, <2>2
<1>4. CASE i \in 0..n - 1
  <2>1. PICK p \in 1..n : p = i + 1
    BY <1>2, <1>4
  <2>2. /\ item' = [item EXCEPT ![q[p]] = Freed]
        /\ \E t : Represents(t)' /\ Without(t, s, routing_list, p)
    BY <1>1, <1>4, <2>1, BucketsAreLists, RemoveAtTakes
  <2>3. Items' = List!RemoveAt(Items, p)
    BY <2>2, TakenOut
  <2> QED
    BY <1>1, <2>1, <2>3
<1> QED
  BY <1>3, <1>4

\* llist_append adds the item at the end.
LEMMA AppendKept ==
  ASSUME FieldsOK, ItemsOK, NEW s, Represents(s), NEW x, llist_append(routing_list, x)
  PROVE  Items' = Append(Items, x)
<1> PICK n \in Nat, q \in Seq(Cells) : RoutingIs(s, n, q)
  BY ItemsNow
<1>1. /\ s[routing_list] = q /\ n = Len(q)
      /\ \A k \in 1..n : q[k] \in Cells /\ q[k] \in used
      /\ Items = [k \in 1..n |-> item[q[k]]]
  BY DEF RoutingIs
<1>2. PICK c \in Cells \ used :
        /\ item' = [item EXCEPT ![c] = x]
        /\ Represents([s EXCEPT ![routing_list] = Append(q, c)])'
  BY <1>1, AppendAdds, BucketsAreLists
<1>3. PICK t : t = [s EXCEPT ![routing_list] = Append(q, c)]
  OBVIOUS
<1>4. t[routing_list] = Append(q, c)
  BY <1>3, BucketsAreLists DEF Represents
<1>5. /\ Len(Append(q, c)) = n + 1 /\ Append(q, c)[n + 1] = c
      /\ \A k \in 1..n : Append(q, c)[k] = q[k]
  BY <1>1, AppendProperties
<1>6. Items' = [k \in 1..n + 1 |-> item'[Append(q, c)[k]]]
  <2>1. Represents(t)'
    BY <1>2, <1>3
  <2>2. Items' = [k \in 1..Len(t[routing_list]) |-> item'[t[routing_list][k]]]
    BY <2>1, ItemsNext, Zenon
  <2> QED
    BY <1>4, <1>5, <2>2
<1>7. item'[c] = x /\ \A k \in 1..n : item'[q[k]] = item[q[k]]
  BY <1>1, <1>2 DEF ItemsOK
<1>8. \A k \in 1..n + 1 : k = n + 1 \/ k \in 1..n
  OBVIOUS
<1>9. Append(Items, x) = [k \in 1..n + 1 |-> IF k = n + 1 THEN x ELSE Items[k]]
  <2>1. PICK f : f = Items
    OBVIOUS
  <2>2. f = [k \in 1..n |-> f[k]]
    BY <1>1, <2>1
  <2>3. Append(f, x) = [k \in 1..n + 1 |-> IF k = n + 1 THEN x ELSE f[k]]
    BY <2>2, AppendShape
  <2> QED
    BY <2>1, <2>3
<1>10. \A k \in 1..n + 1 : item'[Append(q, c)[k]] = IF k = n + 1 THEN x ELSE Items[k]
  BY <1>1, <1>5, <1>7, <1>8
<1> QED
  BY <1>6, <1>9, <1>10

\* An entry is put at the end of the routing list, unless the heap is full.
LEMMA PutKept ==
  ASSUME Represented, ItemsOK, NEW x, AppendEntry(x)
  PROVE  List!Put(x)
<1> PICK s : FieldsOK /\ Represents(s)
  BY DEF Represented
<1>1. CASE llist_append(routing_list, x) /\ ret' = SUCCESS
  <2>1. CanAppend
    BY <1>1 DEF llist_append, CanAppend
  <2>2. Items' = Append(Items, x)
    BY <1>1, AppendKept
  <2> QED
    BY <1>1, <2>1, <2>2 DEF List!Put
<1>2. CASE ~CanAppend /\ ret' = OUT_OF_MEMORY_ERROR /\ UNCHANGED llistVars
  <2>1. Items' = Items
    BY <1>2, ItemsUnchanged DEF llistVars
  <2> QED
    BY <1>2, <2>1 DEF List!Put
<1> QED
  BY <1>1, <1>2 DEF AppendEntry

\* The position of an entry is the first that has it.
LEMMA FirstIs ==
  ASSUME NEW s, Represents(s), NEW n, NEW q, RoutingIs(s, n, q), n \in Nat, NEW x
  PROVE  \/ llist_get_pos(x) = ELEM_NOT_FOUND /\ \A k \in 1..n : Items[k] # x
         \/ /\ llist_get_pos(x) \in 0..n - 1
            /\ Items[llist_get_pos(x) + 1] = x
            /\ \A k \in 1..llist_get_pos(x) : Items[k] # x
<1>1. s[routing_list] = q /\ n = Len(q) /\ Items = [k \in 1..n |-> item[q[k]]]
  BY DEF RoutingIs
<1>2. \A i \in 0..n - 1 : i + 1 \in 1..n /\ item[At(routing_list, i)] = Items[i + 1]
  <2> SUFFICES ASSUME NEW i \in 0..n - 1
               PROVE  i + 1 \in 1..n /\ item[At(routing_list, i)] = Items[i + 1]
    OBVIOUS
  <2>1. i + 1 \in 1..n
    OBVIOUS
  <2>2. At(routing_list, i) = q[i + 1]
    BY <1>1, AtPosition, BucketsAreLists
  <2> QED
    BY <1>1, <2>1, <2>2
<1>3. Positions(routing_list) = 0..n - 1
  BY <1>1, AtPosition, BucketsAreLists
<1> DEFINE P(i) == item[At(routing_list, i)] \in {x} /\ \A j \in 0..i - 1 : item[At(routing_list, j)] \notin {x}
<1>4. CASE Found(routing_list, {x})
  <2> DEFINE T == {i \in 0..n - 1 : Items[i + 1] = x}
  <2>1. T \in SUBSET Nat /\ T # {}
    BY <1>2, <1>3, <1>4 DEF Found
  <2>2. PICK m \in T : \A i \in T : m <= i
    <3> HIDE DEF T
    <3> QED
      BY <2>1, LeastNumber
  <2>3. m \in 0..n - 1 /\ P(m)
    BY <1>2, <2>2
  <2>4. PICK p : p = First(routing_list, {x})
    OBVIOUS
  <2>5. p \in 0..n - 1 /\ P(p)
    <3> HIDE DEF P
    <3>1. p = CHOOSE i \in 0..n - 1 : P(i)
      BY <1>3, <2>4 DEF First, P
    <3> QED
      BY <2>3, <3>1
  <2>6. Items[p + 1] = x
    BY <1>2, <2>5
  <2>7. \A k \in 1..p : Items[k] # x
    <3> SUFFICES ASSUME NEW k \in 1..p PROVE Items[k] # x
      OBVIOUS
    <3>1. k - 1 \in 0..p - 1 /\ k - 1 \in 0..n - 1 /\ (k - 1) + 1 = k
      BY <2>5
    <3> QED
      BY <1>2, <2>5, <3>1
  <2>8. llist_get_pos(x) = p
    BY <1>4, <2>4 DEF llist_get_pos
  <2> QED
    BY <2>5, <2>6, <2>7, <2>8
<1>5. CASE ~Found(routing_list, {x})
  <2>1. llist_get_pos(x) = ELEM_NOT_FOUND
    BY <1>5 DEF llist_get_pos
  <2>2. ASSUME NEW k \in 1..n PROVE Items[k] # x
    <3>1. k - 1 \in 0..n - 1 /\ (k - 1) + 1 = k
      OBVIOUS
    <3> QED
      BY <1>2, <1>3, <1>5, <3>1 DEF Found
  <2> QED
    BY <2>1, <2>2
<1> QED
  BY <1>4, <1>5

\* llist_remove takes the first entry equal to x out.
LEMMA DeleteKept ==
  ASSUME Represented, ItemsOK, NEW x, llist_remove(x)
  PROVE  List!Delete(x)
<1> PICK s : FieldsOK /\ Represents(s)
  BY DEF Represented
<1> PICK n \in Nat, q \in Seq(Cells) : RoutingIs(s, n, q)
  BY ItemsNow
<1>1. Len(Items) = n /\ DOMAIN Items = 1..n
  BY DEF RoutingIs
<1>2. PICK p : p = llist_get_pos(x)
  OBVIOUS
<1>3. /\ llist_remove_at(routing_list, p)
      /\ ret' = IF p = ELEM_NOT_FOUND THEN ELEM_NOT_FOUND ELSE SUCCESS
  BY <1>2 DEF llist_remove
<1>4. \/ p = ELEM_NOT_FOUND /\ \A k \in 1..n : Items[k] # x
      \/ p \in 0..n - 1 /\ Items[p + 1] = x /\ \A k \in 1..p : Items[k] # x
  BY <1>2, FirstIs
<1>5. CASE p = ELEM_NOT_FOUND /\ \A k \in 1..n : Items[k] # x
  <2>1. p \in Int /\ p + 1 \notin 1..n
    BY <1>5 DEF ELEM_NOT_FOUND
  <2>2. Items' = Items
    BY <1>1, <1>3, <2>1, RemoveAtKept
  <2>3. x \notin List!ToSet(Items)
    BY <1>1, <1>5 DEF List!ToSet
  <2>4. ~\E k \in 1..Len(Items) : Items[k] = x
    BY <1>1, <1>5
  <2>5. List!RemoveFirst(Items, x) = Items
    BY <2>4 DEF List!RemoveFirst
  <2> QED
    BY <1>3, <1>5, <2>2, <2>3, <2>5 DEF List!Delete
<1>6. CASE p \in 0..n - 1 /\ Items[p + 1] = x /\ \A k \in 1..p : Items[k] # x
  <2>1. p \in Int /\ p + 1 \in 1..n /\ p # ELEM_NOT_FOUND
    BY <1>6 DEF ELEM_NOT_FOUND
  <2>2. Items' = List!RemoveAt(Items, p + 1)
    BY <1>1, <1>3, <2>1, RemoveAtKept
  <2>3. x \in List!ToSet(Items)
    BY <1>1, <1>6, <2>1 DEF List!ToSet
  <2> DEFINE I == {k \in 1..n : Items[k] = x}
  <2>4. List!Min(I) = p + 1
    <3>1. p + 1 \in I /\ \A k \in I : p + 1 <= k
      BY <1>6, <2>1
    <3>2. \A k \in I : k \in Int
      OBVIOUS
    <3> HIDE DEF I
    <3>3. \A k \in I : (\A j \in I : k <= j) => k = p + 1
      BY <2>1, <3>1, <3>2
    <3> QED
      BY <3>1, <3>3 DEF List!Min
  <2>5. List!SelectInSeq(Items, LAMBDA v : v = x) = p + 1
    BY <1>1, <1>6, <2>1, <2>4 DEF List!SelectInSeq
  <2>6. List!RemoveFirst(Items, x) = List!RemoveAt(Items, p + 1)
    BY <1>1, <1>6, <2>1, <2>5 DEF List!RemoveFirst
  <2> QED
    BY <1>3, <2>1, <2>2, <2>3, <2>6 DEF List!Delete
<1> QED
  BY <1>4, <1>5, <1>6

\* llist_remove_at, used by the index, returns the item that it takes out.
LEMMA TakeKept ==
  ASSUME Represented, ItemsOK, NEW i \in Int, RemoveAtIndex(i)
  PROVE  List!TakeAt(i)
<1> PICK s : FieldsOK /\ Represents(s)
  BY DEF Represented
<1> PICK n \in Nat, q \in Seq(Cells) : RoutingIs(s, n, q)
  BY ItemsNow
<1>1. /\ s[routing_list] = q /\ n = Len(q) /\ Items = [k \in 1..n |-> item[q[k]]]
      /\ DOMAIN Items = 1..n /\ \A k \in 1..n : q[k] \in Cells
  BY DEF RoutingIs
<1>2. llist_get(i) = IF i + 1 \in 1..n THEN Items[i + 1] ELSE NULL
  <2>1. At(routing_list, i) = IF i \in 0..n - 1 THEN q[i + 1] ELSE NULL
    BY <1>1, AtPosition, BucketsAreLists
  <2>2. i \in 0..n - 1 <=> i + 1 \in 1..n
    OBVIOUS
  <2>3. i + 1 \in 1..n => q[i + 1] # NULL
    BY <1>1, HeapAssumption
  <2> QED
    BY <1>1, <2>1, <2>2, <2>3 DEF llist_get
<1>3. Items' = IF i + 1 \in 1..n THEN List!RemoveAt(Items, i + 1) ELSE Items
  BY <1>1, RemoveAtKept DEF RemoveAtIndex
<1> QED
  BY <1>1, <1>2, <1>3 DEF RemoveAtIndex, List!TakeAt

\* llist_pop is that of the first position.
LEMMA PopKept ==
  ASSUME Represented, ItemsOK, PopEntry
  PROVE  List!TakeAt(0)
<1> PICK s : FieldsOK /\ Represents(s)
  BY DEF Represented
<1> PICK n \in Nat, q \in Seq(Cells) : RoutingIs(s, n, q)
  BY ItemsNow
<1>1. /\ s[routing_list] = q /\ n = Len(q) /\ Items = [k \in 1..n |-> item[q[k]]]
      /\ DOMAIN Items = 1..n /\ size[routing_list] = n
      /\ head[routing_list] = IF n = 0 THEN NULL ELSE q[1]
  BY DEF RoutingIs
<1>2. CASE n = 0
  <2>1. ret' = NULL /\ UNCHANGED llistVars
    BY <1>1, <1>2 DEF PopEntry, llist_pop
  <2>2. Items' = Items
    BY <2>1, ItemsUnchanged DEF llistVars
  <2>3. 0 + 1 \notin DOMAIN Items
    BY <1>1, <1>2
  <2> QED
    BY <2>1, <2>2, <2>3 DEF List!TakeAt
<1>3. CASE n # 0
  <2>1. 1 \in 1..n /\ 0 + 1 = 1
    BY <1>3
  <2>2. ret' = Items[1]
    BY <1>1, <1>3, <2>1 DEF PopEntry
  <2>3. /\ item' = [item EXCEPT ![q[1]] = Freed]
        /\ \E t : Represents(t)' /\ Without(t, s, routing_list, 1)
    BY <1>1, <1>3, BucketsAreLists, PopTakes DEF PopEntry
  <2>4. Items' = List!RemoveAt(Items, 1)
    BY <2>1, <2>3, TakenOut
  <2> QED
    BY <1>1, <2>1, <2>2, <2>4 DEF List!TakeAt
<1> QED
  BY <1>2, <1>3

\* llist_requeue moves the first item to the end.
LEMMA RotateKept ==
  ASSUME Represented, ItemsOK, RequeueEntry
  PROVE  List!Rotate
<1> PICK s : FieldsOK /\ Represents(s)
  BY DEF Represented
<1> PICK n \in Nat, q \in Seq(Cells) : RoutingIs(s, n, q)
  BY ItemsNow
<1>1. /\ s[routing_list] = q /\ n = Len(q) /\ Items = [k \in 1..n |-> item[q[k]]]
      /\ DOMAIN Items = 1..n /\ Len(Items) = n
  BY DEF RoutingIs
<1>2. llist_requeue(routing_list) /\ ret' = ret
  BY DEF RequeueEntry
<1>3. CASE n \in {0, 1} /\ UNCHANGED llistVars
  <2>1. Items' = Items
    BY <1>3, ItemsUnchanged DEF llistVars
  <2>2. Items = IF Items = <<>> THEN <<>> ELSE Append(Tail(Items), Head(Items))
    <3>1. CASE n = 0
      <4>1. Items = <<>>
        BY <1>1, <3>1
      <4> QED
        BY <4>1
    <3>2. CASE n = 1
      <4>1. Items = <<Items[1]>>
        BY <1>1, <3>2
      <4> PICK e : e = Items[1]
        OBVIOUS
      <4>2. <<e>> # <<>> /\ Append(Tail(<<e>>), Head(<<e>>)) = <<e>>
        OBVIOUS
      <4> QED
        BY <4>1, <4>2
    <3> QED
      BY <1>3, <3>1, <3>2
  <2> QED
    BY <1>2, <2>1, <2>2 DEF List!Rotate
<1>4. ASSUME n > 1, item' = item, NEW t, Represents(t)',
             t[routing_list] = [k \in 1..n |-> q[IF k = n THEN 1 ELSE k + 1]]
      PROVE  List!Rotate
  <2> DEFINE old(k) == IF k = n THEN 1 ELSE k + 1
  <2>1. \A k \in 1..n : old(k) \in 1..n
    BY <1>4
  <2>2. t[routing_list] = [k \in 1..n |-> q[old(k)]]
    BY <1>4
  <2> HIDE DEF old
  <2>3. Len(t[routing_list]) = n
    BY <2>2
  <2>4. Items' = [k \in 1..n |-> item[t[routing_list][k]]]
    <3>1. Items' = [k \in 1..Len(t[routing_list]) |-> item'[t[routing_list][k]]]
      BY <1>4, ItemsNext, Zenon
    <3> QED
      BY <1>4, <2>3, <3>1
  <2>5. Items' = [k \in 1..n |-> Items[old(k)]]
    BY <1>1, <2>1, <2>2, <2>4
  <2>6. Items # <<>> /\ Append(Tail(Items), Head(Items)) = [k \in 1..n |-> Items[old(k)]]
    <3> PICK f : f = Items
      OBVIOUS
    <3>1. f = [k \in 1..n |-> f[k]]
      BY <1>1
    <3>2. f # <<>> /\ Append(Tail(f), Head(f)) = [k \in 1..n |-> f[IF k = n THEN 1 ELSE k + 1]]
      BY <1>4, <3>1, RotateShape
    <3> QED
      BY <3>2 DEF old
  <2> QED
    BY <1>2, <2>5, <2>6 DEF List!Rotate
<1>5. \/ n \in {0, 1} /\ UNCHANGED llistVars
      \/ /\ n > 1 /\ item' = item
         /\ \E t : /\ Represents(t)'
                   /\ t[routing_list] = [k \in 1..n |-> q[IF k = n THEN 1 ELSE k + 1]]
  <2>1. \/ Len(s[routing_list]) \in {0, 1} /\ UNCHANGED llistVars
        \/ /\ Len(s[routing_list]) > 1 /\ FieldsOK' /\ item' = item
           /\ \E t : /\ Represents(t)' /\ \A m \in Lists \ {routing_list} : t[m] = s[m]
                    /\ t[routing_list] =
                         [k \in 1..Len(s[routing_list]) |->
                            s[routing_list][IF k = Len(s[routing_list]) THEN 1 ELSE k + 1]]
    BY <1>2, BucketsAreLists, RequeueTurns, Zenon
  <2> QED
    BY <1>1, <2>1
<1> QED
  BY <1>3, <1>4, <1>5

\* llist_destroy leaves no item.
LEMMA ClearKept ==
  ASSUME Represented, DestroyList
  PROVE  List!Clear
<1> PICK s : FieldsOK /\ Represents(s)
  BY DEF Represented
<1>1. PICK t : t = [m \in Lists |-> IF m \in {routing_list} THEN <<>> ELSE s[m]]
  OBVIOUS
<1>2. Represents(t)'
  <2>1. Destroy({routing_list}) /\ {routing_list} \in SUBSET Lists
    BY BucketsAreLists DEF DestroyList, llist_destroy
  <2> QED
    BY <1>1, <2>1, DestroyEmpties
<1>3. t[routing_list] = <<>>
  BY <1>1, BucketsAreLists
<1>4. Items' = <<>>
  BY <1>2, <1>3, ItemsNext
<1> QED
  BY <1>4 DEF DestroyList, List!Clear

\* A call on another list leaves the items of the routing list alone.
LEMMA OtherList ==
  ASSUME NEW s, Represents(s), NEW t, Represents(t)', t[routing_list] = s[routing_list],
         \A k \in 1..Len(s[routing_list]) : item'[s[routing_list][k]] = item[s[routing_list][k]]
  PROVE  Items' = Items
<1>1. Items' = [k \in 1..Len(t[routing_list]) |-> item'[t[routing_list][k]]]
  BY ItemsNext, Zenon
<1>2. Items = [k \in 1..Len(s[routing_list]) |-> item[s[routing_list][k]]]
  BY ItemsAreThose DEF ItemsIn
<1> QED
  BY <1>1, <1>2

\* The routing list is no bucket.
LEMMA NoBucket ==
  /\ routing_list \notin Buckets
  /\ \A name \in Names : Bucket(Key[name]) # routing_list
<1>1. Len(<<"routing_list">>) = 1 /\ \A n : Len(<<"bucket", n>>) = 2
  OBVIOUS
<1>2. \A n : <<"bucket", n>> # routing_list
  BY <1>1 DEF routing_list
<1> QED
  BY <1>2 DEF Bucket, Buckets

\* The cell of a key that the map has is one of the bucket.
LEMMA CellOfBucket ==
  ASSUME NEW s, Represents(s), NEW name \in Names, HasKey(Key[name])
  PROVE  \E k \in 1..Len(s[Bucket(Key[name])]) : CellOf(Key[name]) = s[Bucket(Key[name])][k]
<1> PICK key : key = Key[name]
  OBVIOUS
<1> PICK l \in Lists : l = Bucket(key)
  BY BucketsAreLists
<1> PICK E : E = Elements(key)
  OBVIOUS
<1>1. Positions(l) = 0..Len(s[l]) - 1 /\ Len(s[l]) \in Nat
  BY AtPosition, ChainFits
<1> DEFINE P(i) == item[At(l, i)] \in E /\ \A j \in 0..i - 1 : item[At(l, j)] \notin E
           T == {i \in Positions(l) : item[At(l, i)] \in E}
<1>2. T \in SUBSET Nat /\ T # {}
  BY <1>1 DEF HasKey, Found
<1>3. PICK m \in T : \A i \in T : m <= i
  <2> HIDE DEF T
  <2> QED
    BY <1>2, LeastNumber
<1>4. m \in Positions(l) /\ P(m)
  <2>1. m \in Positions(l) /\ item[At(l, m)] \in E /\ m \in Nat
    BY <1>2, <1>3
  <2>2. ASSUME NEW j \in 0..m - 1 PROVE item[At(l, j)] \notin E
    <3>1. j \in Positions(l) /\ ~(m <= j)
      BY <1>1, <2>1
    <3> QED
      BY <1>3, <3>1
  <2> QED
    BY <2>1, <2>2
<1>5. PICK p : p = First(l, E)
  OBVIOUS
<1>6. p \in Positions(l)
  <2> HIDE DEF P
  <2>1. p = CHOOSE i \in Positions(l) : P(i)
    BY <1>5 DEF First, P
  <2> QED
    BY <1>4, <2>1
<1>7. CellOf(key) = At(l, p)
  BY <1>5 DEF CellOf
<1>8. At(l, p) = s[l][p + 1] /\ p + 1 \in 1..Len(s[l])
  BY <1>1, <1>6, AtPosition
<1> QED
  BY <1>7, <1>8

\* So writing it leaves the routing list alone.
LEMMA OverwriteKept ==
  ASSUME ItemsOK, NEW s, Represents(s), NEW name \in Names, HasKey(Key[name]),
         NEW e, Overwrite(CellOf(Key[name]), e)
  PROVE  Items' = Items
<1> PICK b \in Lists : b = Bucket(Key[name]) /\ b # routing_list
  BY BucketsAreLists, NoBucket
<1> PICK c : c = CellOf(Key[name])
  OBVIOUS
<1>1. PICK k \in 1..Len(s[b]) : c = s[b][k]
  BY CellOfBucket
<1>2. item' = [item EXCEPT ![c] = e] /\ UNCHANGED <<head, tail, size, next, prev, used>>
  BY DEF Overwrite
<1>3. Represents(s)'
  BY <1>2 DEF Represents, Linked, OnePlace
<1>4. ASSUME NEW i \in 1..Len(s[routing_list])
      PROVE  item'[s[routing_list][i]] = item[s[routing_list][i]]
  <2>1. s[routing_list][i] # c
    BY <1>1, BucketsAreLists, CellHasOnePlace
  <2>2. s[routing_list][i] \in Cells
    BY BucketsAreLists, ChainFits
  <2> QED
    BY <1>2, <2>1, <2>2 DEF ItemsOK
<1> QED
  BY <1>3, <1>4, OtherList

\* No call on the map disturbs the routing list.
LEMMA MapLeavesItems ==
  ASSUME Represented, ItemsOK, MapCall
  PROVE  List!Idle
<1> PICK s : FieldsOK /\ Represents(s)
  BY DEF Represented
<1>0. ASSUME NEW l \in Lists, NEW x, llist_append(l, x)
      PROVE  \E c \in Cells \ used : /\ item' = [item EXCEPT ![c] = x]
                                     /\ Represents([s EXCEPT ![l] = Append(s[l], c)])'
  BY <1>0, AppendAdds
<1>1. ASSUME NEW name \in Names, NEW value \in Values, hmap_put_abs(Key[name], value)
      PROVE  Items' = Items
  <2> PICK e : e = [key_val |-> Key[name], value |-> value]
    OBVIOUS
  <2> PICK b \in Lists : b = Bucket(Key[name]) /\ b # routing_list
    BY BucketsAreLists, NoBucket
  <2>1. CASE HasKey(Key[name]) /\ Overwrite(CellOf(Key[name]), e)
    BY <2>1, OverwriteKept
  <2>2. CASE llist_append(b, e)
    <3>1. PICK c \in Cells \ used :
            /\ item' = [item EXCEPT ![c] = e]
            /\ Represents([s EXCEPT ![b] = Append(s[b], c)])'
      BY <1>0, <2>2, Zenon
    <3>2. PICK t : t = [s EXCEPT ![b] = Append(s[b], c)]
      OBVIOUS
    <3>3. Represents(t)'
      BY <3>1, <3>2
    <3>4. t[routing_list] = s[routing_list]
      BY <3>2, BucketsAreLists DEF Represents
    <3>5. ASSUME NEW i \in 1..Len(s[routing_list])
          PROVE  item'[s[routing_list][i]] = item[s[routing_list][i]]
      <4>1. s[routing_list][i] \in Cells /\ i \in DOMAIN s[routing_list]
        BY BucketsAreLists, ChainFits
      <4>2. s[routing_list][i] \in used
        BY <4>1, BucketsAreLists DEF Represents, OnePlace
      <4> QED
        BY <3>1, <4>1, <4>2 DEF ItemsOK
    <3> QED
      BY <3>3, <3>4, <3>5, OtherList
  <2>3. CASE UNCHANGED llistVars
    BY <2>3, ItemsUnchanged DEF llistVars
  <2> QED
    BY <1>1, <2>1, <2>2, <2>3 DEF hmap_put_abs
<1>2. ASSUME NEW name \in Names, hmap_remove_abs(Key[name])
      PROVE  Items' = Items
  <2> PICK e : e = [item[CellOf(Key[name])] EXCEPT !.key_val = 0]
    OBVIOUS
  <2>1. CASE HasKey(Key[name])
    <3>1. Overwrite(CellOf(Key[name]), e)
      BY <1>2, <2>1 DEF hmap_remove_abs
    <3> QED
      BY <2>1, <3>1, OverwriteKept
  <2>2. CASE ~HasKey(Key[name])
    BY <1>2, <2>2, ItemsUnchanged DEF hmap_remove_abs, llistVars
  <2> QED
    BY <2>1, <2>2
<1>3. ASSUME hmap_destroy PROVE Items' = Items
  <2>1. /\ Represents([m \in Lists |-> IF m \in Buckets THEN <<>> ELSE s[m]])'
        /\ \A m \in Lists \ Buckets : \A k \in 1..Len(s[m]) : item'[s[m][k]] = item[s[m][k]]
    BY <1>3, BucketsAreLists, DestroyEmpties DEF hmap_destroy
  <2>2. PICK t : t = [m \in Lists |-> IF m \in Buckets THEN <<>> ELSE s[m]]
    OBVIOUS
  <2>3. Represents(t)'
    BY <2>1, <2>2
  <2>4. t[routing_list] = s[routing_list]
    BY <2>2, BucketsAreLists, NoBucket
  <2> QED
    BY <2>1, <2>3, <2>4, BucketsAreLists, NoBucket, OtherList
<1>4. UNCHANGED ret
  BY DEF MapCall, hmap_put_abs, hmap_remove_abs, hmap_destroy
<1> QED
  BY <1>1, <1>2, <1>3, <1>4 DEF MapCall, List!Idle

\* The calls of linkedlist.c on the routing list do what their names say to the sequence
\* of its items, and return what they should; no call on the map disturbs it.
THEOREM KeepsList == Spec => ListKept
<1>1. ASSUME Represented, ItemsOK, [Next]_allVars
      PROVE  [/\ \A x \in Entries : /\ AppendEntry(x) => List!Put(x)
                                    /\ llist_remove(x) => List!Delete(x)
              /\ \A i \in -1..Cardinality(Cells) : RemoveAtIndex(i) => List!TakeAt(i)
              /\ PopEntry => List!TakeAt(0)
              /\ RequeueEntry => List!Rotate
              /\ DestroyList => List!Clear
              /\ List!Idle \/ ListCall]_allVars
  <2>1. \A x \in Entries : AppendEntry(x) => List!Put(x)
    BY <1>1, PutKept
  <2>2. \A x \in Entries : llist_remove(x) => List!Delete(x)
    BY <1>1, DeleteKept
  <2>3. ASSUME NEW i \in -1..Cardinality(Cells), RemoveAtIndex(i) PROVE List!TakeAt(i)
    <3>1. i \in Int
      OBVIOUS
    <3> QED
      BY <1>1, <2>3, <3>1, TakeKept
  <2>4. PopEntry => List!TakeAt(0)
    BY <1>1, PopKept
  <2>5. RequeueEntry => List!Rotate
    BY <1>1, RotateKept
  <2>6. DestroyList => List!Clear
    BY <1>1, ClearKept
  <2>7. MapCall => List!Idle
    BY <1>1, MapLeavesItems
  <2> QED
    BY <1>1, <2>1, <2>2, <2>3, <2>4, <2>5, <2>6, <2>7, Zenon DEF Next
<1> QED
  BY <1>1, AlwaysRepresented, ItemsTyped, PTL DEF Spec, ListKept

---------------------------------------------------------------------------------
(* The map as a function of the names. *)

\* An element with a value under the key is in the key's bucket.
Holds(s, key, v) ==
  \E i \in 1..Len(s[Bucket(key)]) : item[s[Bucket(key)][i]] = [key_val |-> key, value |-> v]

\* The buckets hold elements, and no two in one bucket have the same key other than 0.
Keyed(s) ==
  \A b \in Buckets : \A i \in 1..Len(s[b]) :
    /\ item[s[b][i]] \in [key_val : Int, value : Values]
    /\ \A j \in 1..Len(s[b]) :
         item[s[b][i]].key_val = item[s[b][j]].key_val /\ item[s[b][i]].key_val # 0 => i = j

MapAt(s) == Represents(s) /\ Keyed(s)

\* What every call preserves.
MapOK == \E s : MapAt(s)

\* The bucket of each name is one, and its key a number.
LEMMA NameHasBucket ==
  ASSUME NEW name \in Names
  PROVE  Key[name] \in Int /\ Bucket(Key[name]) \in Buckets /\ Bucket(Key[name]) \in Lists
<1>1. Key[name] \in Int
  BY KeyTyped, NamesAssumption DEF Key
<1> PICK key \in Int : key = Key[name]
  BY <1>1
<1>2. key % HSize \in 0..HSize - 1
  BY NamesAssumption
<1> QED
  BY <1>1, <1>2, BucketsAreLists DEF Bucket, Buckets

\* The cell that a call finds under a key is one of the bucket and has that key.
LEMMA FoundInBucket ==
  ASSUME NEW s, MapAt(s), NEW name \in Names
  PROVE  LET key == Key[name]  q == s[Bucket(key)] IN
         /\ HasKey(key) <=> \E v \in Values : Holds(s, key, v)
         /\ HasKey(key) => \E k \in 1..Len(q) : CellOf(key) = q[k] /\ item[q[k]].key_val = key
<1> PICK key \in Int : key = Key[name]
  BY NameHasBucket
<1> PICK b \in Lists : b = Bucket(key) /\ b \in Buckets
  BY NameHasBucket
<1> PICK q : q = s[b]
  OBVIOUS
<1>1. Represents(s) /\ Len(q) \in Nat /\ Positions(b) = 0..Len(q) - 1
  BY AtPosition, ChainFits DEF MapAt
<1>2. \A i \in 0..Len(q) - 1 : i + 1 \in 1..Len(q) /\ At(b, i) = q[i + 1]
  <2>1. \A i \in 0..Len(q) - 1 : i + 1 \in 1..Len(q)
    BY <1>1
  <2> QED
    BY <1>1, <2>1, AtPosition
<1>3. \A k \in 1..Len(q) : item[q[k]] \in Elements(key) <=> item[q[k]].key_val = key
  <2> SUFFICES ASSUME NEW k \in 1..Len(q)
               PROVE  item[q[k]] \in Elements(key) <=> item[q[k]].key_val = key
    OBVIOUS
  <2> PICK e \in [key_val : Int, value : Values] : e = item[q[k]]
    BY DEF MapAt, Keyed
  <2>1. e = [key_val |-> e.key_val, value |-> e.value] /\ e.value \in Values
    OBVIOUS
  <2>2. e.key_val = key => e \in Elements(key)
    BY <2>1 DEF Elements
  <2>3. e \in Elements(key) => e.key_val = key
    <3>1. \A v : [key_val |-> key, value |-> v].key_val = key
      OBVIOUS
    <3>2. e \in Elements(key) => \E v \in Values : e = [key_val |-> key, value |-> v]
      BY DEF Elements
    <3> QED
      BY <3>1, <3>2
  <2> QED
    BY <2>2, <2>3
<1>4. HasKey(key) => \E v \in Values : Holds(s, key, v)
  <2> SUFFICES ASSUME HasKey(key) PROVE \E v \in Values : Holds(s, key, v)
    OBVIOUS
  <2>1. PICK i \in 0..Len(q) - 1 : item[At(b, i)] \in Elements(key)
    BY <1>1 DEF HasKey, Found
  <2>2. i + 1 \in 1..Len(q) /\ item[q[i + 1]] \in Elements(key)
    BY <1>2, <2>1
  <2>3. PICK v \in Values : item[q[i + 1]] = [key_val |-> key, value |-> v]
    BY <2>2 DEF Elements
  <2> QED
    BY <2>2, <2>3 DEF Holds
<1>5. ASSUME NEW v \in Values, Holds(s, key, v) PROVE HasKey(key)
  <2>1. PICK k \in 1..Len(q) : item[q[k]] = [key_val |-> key, value |-> v]
    BY <1>5 DEF Holds
  <2>2. k - 1 \in 0..Len(q) - 1 /\ (k - 1) + 1 = k
    BY <1>1
  <2>3. item[At(b, k - 1)] \in Elements(key)
    BY <1>2, <2>1, <2>2 DEF Elements
  <2> QED
    BY <1>1, <2>2, <2>3 DEF HasKey, Found
<1>6. ASSUME HasKey(key) PROVE \E k \in 1..Len(q) : CellOf(key) = q[k] /\ item[q[k]].key_val = key
  <2> PICK E : E = Elements(key)
    OBVIOUS
  <2> DEFINE P(i) == item[At(b, i)] \in E /\ \A j \in 0..i - 1 : item[At(b, j)] \notin E
             T == {i \in Positions(b) : item[At(b, i)] \in E}
  <2>1. T \in SUBSET Nat /\ T # {}
    BY <1>1, <1>6 DEF HasKey, Found
  <2>2. PICK m \in T : \A i \in T : m <= i
    <3> HIDE DEF T
    <3> QED
      BY <2>1, LeastNumber
  <2>3. m \in Positions(b) /\ P(m)
    <3>1. m \in Positions(b) /\ item[At(b, m)] \in E /\ m \in Nat
      BY <2>1, <2>2
    <3>2. ASSUME NEW j \in 0..m - 1 PROVE item[At(b, j)] \notin E
      <4>1. j \in Positions(b) /\ ~(m <= j)
        BY <1>1, <3>1
      <4> QED
        BY <2>2, <4>1
    <3> QED
      BY <3>1, <3>2
  <2>4. PICK p : p = First(b, E)
    OBVIOUS
  <2>5. p \in Positions(b) /\ P(p)
    <3> HIDE DEF P
    <3>1. p = CHOOSE i \in Positions(b) : P(i)
      BY <2>4 DEF First, P
    <3> QED
      BY <2>3, <3>1
  <2>6. CellOf(key) = At(b, p)
    BY <2>4 DEF CellOf
  <2>7. At(b, p) = q[p + 1] /\ p + 1 \in 1..Len(q)
    BY <1>1, <1>2, <2>5
  <2> QED
    BY <1>3, <2>5, <2>6, <2>7
<1> QED
  BY <1>4, <1>5, <1>6

\* A lookup finds what its bucket holds.
Finds(s, name) ==
  /\ \A v : Holds(s, Key[name], v) => Lookup[name] = v /\ v \in Values
  /\ Lookup[name] = NULL \/ Holds(s, Key[name], Lookup[name])

FindsAll(s) == \A name \in Names : Key[name] # 0 => Finds(s, name)

LEMMA LookupFinds == \A s : MapAt(s) => FindsAll(s)
<1> SUFFICES ASSUME NEW s, MapAt(s), NEW name \in Names, Key[name] # 0 PROVE Finds(s, name)
  BY DEF FindsAll
<1> PICK key \in Int : key = Key[name] /\ key # 0
  BY NameHasBucket
<1> PICK q : q = s[Bucket(key)]
  OBVIOUS
<1>1. \A i \in 1..Len(q) : /\ item[q[i]] \in [key_val : Int, value : Values]
                           /\ \A j \in 1..Len(q) :
                                item[q[i]].key_val = key /\ item[q[j]].key_val = key => i = j
  BY NameHasBucket DEF MapAt, Keyed
<1>2. Lookup[name] = IF HasKey(key) THEN item[CellOf(key)].value ELSE NULL
  BY DEF Lookup, hmap_get_abs
<1>3. HasKey(key) <=> \E v \in Values : Holds(s, key, v)
  BY FoundInBucket
<1>4. ASSUME HasKey(key) PROVE Finds(s, name)
  <2>1. PICK k \in 1..Len(q) : CellOf(key) = q[k] /\ item[q[k]].key_val = key
    BY <1>4, FoundInBucket
  <2> PICK e \in [key_val : Int, value : Values] : e = item[q[k]]
    BY <1>1
  <2>2. Lookup[name] = e.value
    BY <1>2, <1>4, <2>1
  <2>3. e = [key_val |-> key, value |-> e.value] /\ e.value \in Values
    BY <2>1
  <2>4. Holds(s, key, e.value)
    BY <2>3 DEF Holds
  <2>5. ASSUME NEW v, Holds(s, key, v) PROVE v = e.value
    <3>1. PICK i \in 1..Len(q) : item[q[i]] = [key_val |-> key, value |-> v]
      BY <2>5 DEF Holds
    <3>2. item[q[i]].key_val = key /\ item[q[i]].value = v
      BY <3>1
    <3>3. i = k
      BY <1>1, <2>1, <3>2
    <3> QED
      BY <3>2, <3>3
  <2> QED
    BY <2>2, <2>3, <2>4, <2>5 DEF Finds
<1>5. ASSUME ~HasKey(key) PROVE Finds(s, name)
  <2>1. Lookup[name] = NULL
    BY <1>2, <1>5
  <2>2. ASSUME NEW v, Holds(s, key, v) PROVE FALSE
    <3>1. PICK i \in 1..Len(q) : item[q[i]] = [key_val |-> key, value |-> v]
      BY <2>2 DEF Holds
    <3> PICK e \in [key_val : Int, value : Values] : e = item[q[i]]
      BY <1>1
    <3>2. v \in Values
      BY <3>1
    <3> QED
      BY <1>3, <1>5, <2>2, <3>2
  <2> QED
    BY <2>1, <2>2 DEF Finds
<1> QED
  BY <1>4, <1>5


\* The same of the next state.
LEMMA LookupFindsNext ==
  ASSUME NEW t, MapAt(t)', NEW n \in Names, Key[n] # 0
  PROVE  /\ \A v : Holds(t, Key[n], v)' => Lookup'[n] = v /\ v \in Values
         /\ Lookup'[n] = NULL \/ \E v : v = Lookup'[n] /\ Holds(t, Key[n], v)'
<1>1. (\A s : MapAt(s) => FindsAll(s))'
  BY LookupFinds, PTL
<1>2. Finds(t, n)'
  BY <1>1 DEF FindsAll, Key
<1> QED
  BY <1>2 DEF Finds, Key

\* What is held is found, and what is not is not.
LEMMA LookupSame ==
  ASSUME NEW s, MapAt(s), NEW t, MapAt(t)', NEW name \in Names, Key[name] # 0,
         \A v : Holds(t, Key[name], v)' <=> Holds(s, Key[name], v)
  PROVE  Lookup'[name] = Lookup[name]
<1>1. Finds(s, name)
  BY LookupFinds DEF FindsAll
<1>2. /\ \A v : Holds(t, Key[name], v)' => Lookup'[name] = v /\ v \in Values
      /\ Lookup'[name] = NULL \/ \E v : v = Lookup'[name] /\ Holds(t, Key[name], v)'
  BY LookupFindsNext
<1>3. CASE Lookup[name] = NULL
  <2>1. \A v : ~Holds(s, Key[name], v)
    BY <1>1, <1>3, ValuesAssumption DEF Finds
  <2> QED
    BY <1>2, <1>3, <2>1
<1>4. CASE Holds(s, Key[name], Lookup[name])
  BY <1>2, <1>4
<1> QED
  BY <1>1, <1>3, <1>4 DEF Finds

\* A call that leaves the buckets alone leaves the map alone.
LEMMA BucketsAlone ==
  ASSUME NEW s, MapAt(s), NEW t, Represents(t)',
         \A b \in Buckets : /\ t[b] = s[b]
                            /\ \A k \in 1..Len(s[b]) : item'[s[b][k]] = item[s[b][k]]
  PROVE  /\ MapAt(t)'
         /\ \A name \in Names : Key[name] # 0 => Lookup'[name] = Lookup[name]
<1>1. Keyed(t)'
  <2>1. \A b \in Buckets : \A i \in 1..Len(t[b]) :
          /\ item'[t[b][i]] \in [key_val : Int, value : Values]
          /\ \A j \in 1..Len(t[b]) :
               item'[t[b][i]].key_val = item'[t[b][j]].key_val /\ item'[t[b][i]].key_val # 0
                 => i = j
    BY DEF MapAt, Keyed
  <2> QED
    BY <2>1 DEF Keyed
<1>2. MapAt(t)'
  BY <1>1 DEF MapAt
<1>3. ASSUME NEW name \in Names, Key[name] # 0 PROVE Lookup'[name] = Lookup[name]
  <2> PICK b \in Buckets : b = Bucket(Key[name])
    BY NameHasBucket
  <2> PICK key : key = Key[name]
    OBVIOUS
  <2>1. \A v : Holds(t, key, v)' <=> Holds(s, key, v)
    BY DEF Holds, Bucket
  <2> QED
    BY <1>2, <1>3, <2>1, LookupSame
<1> QED
  BY <1>2, <1>3

\* A call on the routing list does.
LEMMA ListLeavesBuckets ==
  ASSUME FieldsOK, ItemsOK, NEW s, MapAt(s), ListCall
  PROVE  /\ FieldsOK'
         /\ \E t : /\ Represents(t)'
                   /\ \A b \in Buckets :
                        /\ t[b] = s[b]
                        /\ \A k \in 1..Len(s[b]) : item'[s[b][k]] = item[s[b][k]]
<1>1. /\ Represents(s) /\ routing_list \in Lists
      /\ \A b \in Buckets : b \in Lists \ {routing_list}
  BY BucketsAreLists, NoBucket DEF MapAt
<1>2. \A b \in Buckets : \A k \in 1..Len(s[b]) :
        /\ s[b][k] \in Cells /\ s[b][k] \in used
        /\ \A i \in 1..Len(s[routing_list]) : s[b][k] # s[routing_list][i]
  <2> SUFFICES ASSUME NEW b \in Buckets, NEW k \in 1..Len(s[b])
               PROVE  /\ s[b][k] \in Cells /\ s[b][k] \in used
                      /\ \A i \in 1..Len(s[routing_list]) : s[b][k] # s[routing_list][i]
    OBVIOUS
  <2>1. b \in Lists /\ b # routing_list
    BY <1>1
  <2>2. s[b][k] \in Cells /\ k \in DOMAIN s[b]
    BY <1>1, <2>1, ChainFits
  <2>3. s[b][k] \in used
    BY <1>1, <2>1, <2>2 DEF Represents, OnePlace
  <2>4. \A i \in 1..Len(s[routing_list]) : s[b][k] # s[routing_list][i]
    BY <1>1, <2>1, CellHasOnePlace
  <2> QED
    BY <2>2, <2>3, <2>4
<1>3. CASE UNCHANGED llistVars
  <2>1. FieldsOK'
    BY <1>3 DEF FieldsOK, llistVars
  <2>2. Represents(s)'
    BY <1>1, <1>3 DEF Represents, Linked, OnePlace, llistVars
  <2>3. item' = item
    BY <1>3 DEF llistVars
  <2> QED
    BY <2>1, <2>2, <2>3
<1>4. ASSUME NEW x, llist_append(routing_list, x)
      PROVE  FieldsOK' /\ \E t : /\ Represents(t)'
                                 /\ \A b \in Buckets :
                                      /\ t[b] = s[b]
                                      /\ \A k \in 1..Len(s[b]) : item'[s[b][k]] = item[s[b][k]]
  <2>1. FieldsOK'
    BY <1>1, <1>4, AppendAdds
  <2>2. PICK c \in Cells \ used :
          /\ item' = [item EXCEPT ![c] = x]
          /\ Represents([s EXCEPT ![routing_list] = Append(s[routing_list], c)])'
    BY <1>1, <1>4, AppendAdds
  <2>3. PICK t : t = [s EXCEPT ![routing_list] = Append(s[routing_list], c)]
    OBVIOUS
  <2>4. Represents(t)'
    BY <2>2, <2>3
  <2>5. \A b \in Buckets : t[b] = s[b]
    BY <1>1, <2>3 DEF Represents
  <2>6. \A b \in Buckets : \A k \in 1..Len(s[b]) : item'[s[b][k]] = item[s[b][k]]
    BY <1>2, <2>2 DEF ItemsOK
  <2> QED
    BY <2>1, <2>4, <2>5, <2>6
<1>5. ASSUME NEW p \in 1..Len(s[routing_list]), FieldsOK',
             item' = [item EXCEPT ![s[routing_list][p]] = Freed],
             NEW t, Represents(t)', Without(t, s, routing_list, p)
      PROVE  FieldsOK' /\ \E u : /\ Represents(u)'
                                 /\ \A b \in Buckets :
                                      /\ u[b] = s[b]
                                      /\ \A k \in 1..Len(s[b]) : item'[s[b][k]] = item[s[b][k]]
  <2>1. \A b \in Buckets : t[b] = s[b]
    BY <1>1, <1>5 DEF Without
  <2>2. \A b \in Buckets : \A k \in 1..Len(s[b]) : item'[s[b][k]] = item[s[b][k]]
    BY <1>2, <1>5 DEF ItemsOK
  <2> QED
    BY <1>5, <2>1, <2>2
<1>6. ASSUME NEW i, llist_remove_at(routing_list, i), ~UNCHANGED llistVars
      PROVE  FieldsOK' /\ \E u : /\ Represents(u)'
                                 /\ \A b \in Buckets :
                                      /\ u[b] = s[b]
                                      /\ \A k \in 1..Len(s[b]) : item'[s[b][k]] = item[s[b][k]]
  <2>1. /\ i \in 0..Len(s[routing_list]) - 1 /\ FieldsOK'
        /\ item' = [item EXCEPT ![s[routing_list][i + 1]] = Freed]
        /\ \E t : Represents(t)' /\ Without(t, s, routing_list, i + 1)
    BY <1>1, <1>6, RemoveAtTakes
  <2>2. PICK p \in 1..Len(s[routing_list]) : p = i + 1
    BY <1>1, <2>1, ChainFits
  <2> QED
    BY <1>5, <2>1, <2>2
<1>7. ASSUME llist_pop(routing_list), ~UNCHANGED llistVars
      PROVE  FieldsOK' /\ \E u : /\ Represents(u)'
                                 /\ \A b \in Buckets :
                                      /\ u[b] = s[b]
                                      /\ \A k \in 1..Len(s[b]) : item'[s[b][k]] = item[s[b][k]]
  <2>1. size[routing_list] = Len(s[routing_list]) /\ Len(s[routing_list]) \in Nat
    BY <1>1, ChainFits, ListFields
  <2>2. Len(s[routing_list]) # 0 /\ 1 \in 1..Len(s[routing_list])
    BY <1>7, <2>1 DEF llist_pop
  <2>3. /\ FieldsOK' /\ item' = [item EXCEPT ![s[routing_list][1]] = Freed]
        /\ \E t : Represents(t)' /\ Without(t, s, routing_list, 1)
    BY <1>1, <1>7, <2>2, PopTakes
  <2> QED
    BY <1>5, <2>2, <2>3
<1>8. ASSUME llist_requeue(routing_list), ~UNCHANGED llistVars
      PROVE  FieldsOK' /\ \E u : /\ Represents(u)'
                                 /\ \A b \in Buckets :
                                      /\ u[b] = s[b]
                                      /\ \A k \in 1..Len(s[b]) : item'[s[b][k]] = item[s[b][k]]
  <2>0. PICK l \in Lists : l = routing_list
    BY <1>1
  <2>1. \/ Len(s[l]) \in {0, 1} /\ UNCHANGED llistVars
        \/ /\ Len(s[l]) > 1 /\ FieldsOK' /\ item' = item
           /\ \E t : /\ Represents(t)' /\ \A m \in Lists \ {l} : t[m] = s[m]
                    /\ t[l] = [k \in 1..Len(s[l]) |-> s[l][IF k = Len(s[l]) THEN 1 ELSE k + 1]]
    <3>1. Represents(s) /\ llist_requeue(l)
      BY <1>1, <1>8, <2>0
    <3> QED
      BY <3>1, RequeueTurns, Zenon
  <2>2. FieldsOK' /\ item' = item /\ \E t : Represents(t)' /\ \A m \in Lists \ {l} : t[m] = s[m]
    BY <1>8, <2>1, Zenon
  <2>3. PICK t : Represents(t)' /\ \A m \in Lists \ {l} : t[m] = s[m]
    BY <2>2
  <2>4. \A b \in Buckets : t[b] = s[b]
    BY <1>1, <2>0, <2>3
  <2> QED
    BY <2>2, <2>3, <2>4
<1>9. ASSUME llist_destroy(routing_list)
      PROVE  FieldsOK' /\ \E u : /\ Represents(u)'
                                 /\ \A b \in Buckets :
                                      /\ u[b] = s[b]
                                      /\ \A k \in 1..Len(s[b]) : item'[s[b][k]] = item[s[b][k]]
  <2>1. Destroy({routing_list}) /\ {routing_list} \in SUBSET Lists
    BY <1>1, <1>9 DEF llist_destroy
  <2>2. /\ FieldsOK'
        /\ Represents([m \in Lists |-> IF m \in {routing_list} THEN <<>> ELSE s[m]])'
        /\ \A m \in Lists \ {routing_list} : \A k \in 1..Len(s[m]) :
             item'[s[m][k]] = item[s[m][k]]
    BY <1>1, <2>1, DestroyEmpties
  <2>3. PICK t : t = [m \in Lists |-> IF m \in {routing_list} THEN <<>> ELSE s[m]]
    OBVIOUS
  <2>4. Represents(t)' /\ \A b \in Buckets : t[b] = s[b]
    BY <1>1, <2>2, <2>3
  <2> QED
    BY <1>1, <2>2, <2>4
<1>10. \/ UNCHANGED llistVars
       \/ \E x : llist_append(routing_list, x)
       \/ \E i : llist_remove_at(routing_list, i)
       \/ llist_pop(routing_list)
       \/ llist_requeue(routing_list)
       \/ llist_destroy(routing_list)
  BY DEF ListCall, AppendEntry, llist_remove, RemoveAtIndex, PopEntry, RequeueEntry, DestroyList
<1> QED
  BY <1>3, <1>4, <1>6, <1>7, <1>8, <1>9, <1>10



\* An element written over one of the same key, or given key 0, changes what is found
\* under that key alone.
LEMMA OverwriteElement ==
  ASSUME ItemsOK, NEW s, MapAt(s), NEW b \in Buckets, NEW k \in 1..Len(s[b]),
         NEW e \in [key_val : Int, value : Values],
         e.key_val \in {0, item[s[b][k]].key_val}, Overwrite(s[b][k], e)
  PROVE  /\ MapAt(s)'
         /\ \A i \in 1..Len(s[b]) : item'[s[b][i]] = IF i = k THEN e ELSE item[s[b][i]]
         /\ \A name \in Names : Key[name] \notin {0, item[s[b][k]].key_val} =>
              Lookup'[name] = Lookup[name]
<1>1. Represents(s) /\ \A m \in Buckets : m \in Lists
  BY BucketsAreLists DEF MapAt
<1>2. PICK old : old = item[s[b][k]].key_val
  OBVIOUS
<1>3. item' = [item EXCEPT ![s[b][k]] = e] /\ UNCHANGED <<head, tail, size, next, prev, used>>
  BY DEF Overwrite
<1>4. Represents(s)'
  BY <1>1, <1>3 DEF Represents, Linked, OnePlace
<1>5. \A m \in Buckets : \A i \in 1..Len(s[m]) :
        item'[s[m][i]] = IF m = b /\ i = k THEN e ELSE item[s[m][i]]
  <2> SUFFICES ASSUME NEW m \in Buckets, NEW i \in 1..Len(s[m])
               PROVE  item'[s[m][i]] = IF m = b /\ i = k THEN e ELSE item[s[m][i]]
    OBVIOUS
  <2>1. s[m][i] \in Cells
    BY <1>1, ChainFits
  <2>2. s[m][i] = s[b][k] => m = b /\ i = k
    BY <1>1, CellHasOnePlace
  <2> QED
    BY <1>3, <2>1, <2>2 DEF ItemsOK
<1>6. \A m \in Buckets : \A i \in 1..Len(s[m]) :
        /\ item[s[m][i]] \in [key_val : Int, value : Values]
        /\ \A j \in 1..Len(s[m]) :
             item[s[m][i]].key_val = item[s[m][j]].key_val /\ item[s[m][i]].key_val # 0 => i = j
  BY DEF MapAt, Keyed
<1>7. \A m \in Buckets : \A i \in 1..Len(s[m]) :
        /\ item'[s[m][i]] \in [key_val : Int, value : Values]
        /\ \/ item'[s[m][i]].key_val = 0
           \/ item'[s[m][i]].key_val = item[s[m][i]].key_val
  BY <1>5, <1>6
<1>8. Keyed(s)'
  <2>1. \A m \in Buckets : \A i, j \in 1..Len(s[m]) :
          item'[s[m][i]].key_val = item'[s[m][j]].key_val /\ item'[s[m][i]].key_val # 0 => i = j
    BY <1>6, <1>7
  <2> QED
    BY <1>7, <2>1 DEF Keyed
<1>9. MapAt(s)'
  BY <1>4, <1>8 DEF MapAt
<1>10. ASSUME NEW name \in Names, Key[name] \notin {0, old}, NEW v
       PROVE  Holds(s, Key[name], v)' <=> Holds(s, Key[name], v)
  <2> PICK key \in Int : key = Key[name]
    BY NameHasBucket
  <2> PICK m \in Buckets : m = Bucket(key)
    BY NameHasBucket
  <2>1. Holds(s, key, v) <=> \E i \in 1..Len(s[m]) : item[s[m][i]] = [key_val |-> key, value |-> v]
    BY DEF Holds
  <2>2. Holds(s, key, v)' <=> \E i \in 1..Len(s[m]) : item'[s[m][i]] = [key_val |-> key, value |-> v]
    BY DEF Holds, Bucket
  <2> PICK r : r = [key_val |-> key, value |-> v]
    OBVIOUS
  <2>3. r.key_val = key
    OBVIOUS
  <2>4. ASSUME NEW i \in 1..Len(s[m]) PROVE item'[s[m][i]] = r <=> item[s[m][i]] = r
    <3>1. CASE m = b /\ i = k
      BY <1>2, <1>5, <1>10, <2>3, <3>1
    <3>2. CASE ~(m = b /\ i = k)
      BY <1>5, <3>2
    <3> QED
      BY <3>1, <3>2
  <2> QED
    BY <2>1, <2>2, <2>4
<1>11. ASSUME NEW name \in Names, Key[name] \notin {0, old} PROVE Lookup'[name] = Lookup[name]
  <2>1. Key[name] # 0 /\ \A v : Holds(s, Key[name], v)' <=> Holds(s, Key[name], v)
    BY <1>10, <1>11
  <2> QED
    BY <1>9, <2>1, LookupSame
<1> QED
  BY <1>2, <1>5, <1>9, <1>11


\* An element appended to the bucket of its key, where no element had the key, changes
\* what is found under that key alone.
LEMMA AppendElement ==
  ASSUME FieldsOK, ItemsOK, NEW s, MapAt(s), NEW name \in Names, NEW value \in Values,
         ~HasKey(Key[name]),
         llist_append(Bucket(Key[name]), [key_val |-> Key[name], value |-> value])
  PROVE  \E t : /\ MapAt(t)' /\ Holds(t, Key[name], value)'
                /\ \A m \in Names : Key[m] \notin {0, Key[name]} => Lookup'[m] = Lookup[m]
<1>0. ASSUME NEW l \in Lists, NEW x, llist_append(l, x)
      PROVE  \E c \in Cells \ used : /\ item' = [item EXCEPT ![c] = x]
                                     /\ Represents([s EXCEPT ![l] = Append(s[l], c)])'
  BY <1>0, AppendAdds DEF MapAt
<1> PICK key \in Int : key = Key[name]
  BY NameHasBucket
<1> PICK b \in Buckets : b = Bucket(key)
  BY NameHasBucket
<1> PICK e : e = [key_val |-> key, value |-> value]
  OBVIOUS
<1>1. e \in [key_val : Int, value : Values] /\ e.key_val = key
  OBVIOUS
<1>2. Represents(s) /\ \A m \in Buckets : m \in Lists
  BY BucketsAreLists DEF MapAt
<1>3. Represents(s) /\ b \in Lists /\ llist_append(b, e)
  BY <1>2
<1>4. PICK c \in Cells \ used :
        /\ item' = [item EXCEPT ![c] = e]
        /\ Represents([s EXCEPT ![b] = Append(s[b], c)])'
  BY <1>0, <1>3, Zenon
<1>5. PICK t : t = [s EXCEPT ![b] = Append(s[b], c)]
  OBVIOUS
<1>6. Represents(t)'
  BY <1>4, <1>5
<1>7. PICK n \in Nat : n = Len(s[b])
  BY <1>2, ChainFits
<1>8. /\ \A m \in Buckets : m # b => t[m] = s[m]
      /\ Len(t[b]) = n + 1 /\ t[b][n + 1] = c
      /\ \A i \in 1..n : t[b][i] = s[b][i]
  <2>1. s[b] \in Seq(Cells) /\ s \in [Lists -> Seq(Cells)] /\ b \in Lists
    BY <1>2 DEF Represents
  <2>2. t[b] = Append(s[b], c)
    BY <1>5, <2>1
  <2>3. \A m \in Buckets : m # b => t[m] = s[m]
    BY <1>2, <1>5, <2>1
  <2> QED
    BY <1>7, <2>1, <2>2, <2>3, AppendProperties
<1>9. \A m \in Buckets : \A i \in 1..Len(s[m]) : item'[s[m][i]] = item[s[m][i]]
  <2> SUFFICES ASSUME NEW m \in Buckets, NEW i \in 1..Len(s[m])
               PROVE  item'[s[m][i]] = item[s[m][i]]
    OBVIOUS
  <2>1. s[m][i] \in Cells /\ i \in DOMAIN s[m]
    BY <1>2, ChainFits
  <2>2. s[m][i] \in used
    BY <1>2, <2>1 DEF Represents, OnePlace
  <2> QED
    BY <1>4, <2>1, <2>2 DEF ItemsOK
<1>10. item'[c] = e
  BY <1>4 DEF ItemsOK
<1>11. \A m \in Buckets : \A i \in 1..Len(s[m]) :
         /\ item[s[m][i]] \in [key_val : Int, value : Values]
         /\ \A j \in 1..Len(s[m]) :
              item[s[m][i]].key_val = item[s[m][j]].key_val /\ item[s[m][i]].key_val # 0 => i = j
  BY DEF MapAt, Keyed
<1>12. \A i \in 1..n : item[s[b][i]].key_val # key
  <2> SUFFICES ASSUME NEW i \in 1..n, item[s[b][i]].key_val = key PROVE FALSE
    OBVIOUS
  <2> PICK f \in [key_val : Int, value : Values] : f = item[s[b][i]]
    BY <1>7, <1>11
  <2>1. f = [key_val |-> key, value |-> f.value] /\ f.value \in Values
    OBVIOUS
  <2>2. Holds(s, key, f.value)
    BY <1>7, <2>1 DEF Holds
  <2> QED
    BY <2>1, <2>2, FoundInBucket
<1>13. \A i \in 1..n : item'[t[b][i]] = item[s[b][i]]
  BY <1>7, <1>8, <1>9
<1>14. Keyed(t)'
  <2>1. ASSUME NEW m \in Buckets, NEW i \in 1..Len(t[m])
        PROVE  /\ item'[t[m][i]] \in [key_val : Int, value : Values]
               /\ \A j \in 1..Len(t[m]) :
                    item'[t[m][i]].key_val = item'[t[m][j]].key_val /\ item'[t[m][i]].key_val # 0
                      => i = j
    <3>1. CASE m # b
      <4>1. t[m] = s[m]
        BY <1>8, <3>1
      <4>2. i \in 1..Len(s[m]) /\ \A j \in 1..Len(t[m]) : j \in 1..Len(s[m])
        BY <2>1, <4>1
      <4>3. \A j \in 1..Len(s[m]) : item'[t[m][j]] = item[s[m][j]]
        BY <1>9, <4>1
      <4> QED
        BY <1>11, <4>2, <4>3, ZenonT(30)
    <3>2. CASE m = b
      <4>1. \A j \in 1..Len(t[b]) : j \in 1..n \/ j = n + 1
        BY <1>8
      <4>2. item'[t[b][n + 1]] = e
        BY <1>8, <1>10
      <4>3. \A j \in 1..n : /\ item'[t[b][j]] \in [key_val : Int, value : Values]
                            /\ item'[t[b][j]].key_val # key
        BY <1>7, <1>11, <1>12, <1>13
      <4>4. \A j, k \in 1..n :
              item'[t[b][j]].key_val = item'[t[b][k]].key_val /\ item'[t[b][j]].key_val # 0 => j = k
        <5> SUFFICES ASSUME NEW j \in 1..n, NEW k \in 1..n,
                            item'[t[b][j]].key_val = item'[t[b][k]].key_val,
                            item'[t[b][j]].key_val # 0
                     PROVE  j = k
          OBVIOUS
        <5>1. item'[t[b][j]] = item[s[b][j]] /\ item'[t[b][k]] = item[s[b][k]]
          BY <1>13
        <5>2. j \in 1..Len(s[b]) /\ k \in 1..Len(s[b])
          BY <1>7
        <5> QED
          BY <1>11, <5>1, <5>2
      <4> QED
        BY <1>1, <2>1, <3>2, <4>1, <4>2, <4>3, <4>4
    <3> QED
      BY <3>1, <3>2
  <2> QED
    BY <2>1 DEF Keyed
<1>15. MapAt(t)'
  BY <1>6, <1>14 DEF MapAt
<1>16. Holds(t, key, value)'
  <2>1. n + 1 \in 1..Len(t[b]) /\ item'[t[b][n + 1]] = [key_val |-> key, value |-> value]
    BY <1>8, <1>10
  <2> QED
    BY <2>1 DEF Holds, Bucket
<1>17. ASSUME NEW m \in Names, Key[m] \notin {0, key}, NEW v
       PROVE  Holds(t, Key[m], v)' <=> Holds(s, Key[m], v)
  <2> PICK k \in Int : k = Key[m]
    BY NameHasBucket
  <2> PICK d \in Buckets : d = Bucket(k)
    BY NameHasBucket
  <2> PICK r : r = [key_val |-> k, value |-> v]
    OBVIOUS
  <2>1. r.key_val = k /\ k # key
    BY <1>17
  <2>2. Holds(s, k, v) <=> \E i \in 1..Len(s[d]) : item[s[d][i]] = r
    BY DEF Holds
  <2>3. Holds(t, k, v)' <=> \E i \in 1..Len(t[d]) : item'[t[d][i]] = r
    BY DEF Holds, Bucket
  <2>4. ASSUME d # b
        PROVE  (\E i \in 1..Len(t[d]) : item'[t[d][i]] = r) <=> \E i \in 1..Len(s[d]) : item[s[d][i]] = r
    <3>1. t[d] = s[d]
      BY <1>8, <2>4
    <3> QED
      BY <1>9, <3>1
  <2>5. ASSUME d = b
        PROVE  (\E i \in 1..Len(t[d]) : item'[t[d][i]] = r) <=> \E i \in 1..Len(s[d]) : item[s[d][i]] = r
    <3>1. item'[t[b][n + 1]] # r
      BY <1>1, <1>8, <1>10, <2>1
    <3>2. \A i \in 1..Len(t[b]) : i \in 1..n \/ i = n + 1
      BY <1>8
    <3>3. \A i \in 1..n : i \in 1..Len(t[b])
      BY <1>8
    <3>4. \A i \in 1..Len(t[b]) : item'[t[b][i]] = r => i \in 1..n /\ item[s[b][i]] = r
      BY <1>13, <3>1, <3>2
    <3>5. \A i \in 1..n : item[s[b][i]] = r => item'[t[b][i]] = r
      BY <1>13
    <3>6. \A i \in 1..n : i \in 1..Len(s[b])
      BY <1>7
    <3> QED
      BY <1>7, <2>5, <3>3, <3>4, <3>5, <3>6, SMTT(30)
  <2> QED
    BY <2>2, <2>3, <2>4, <2>5
<1>18. ASSUME NEW m \in Names, Key[m] \notin {0, key} PROVE Lookup'[m] = Lookup[m]
  <2>1. Key[m] # 0 /\ \A v : Holds(t, Key[m], v)' <=> Holds(s, Key[m], v)
    BY <1>17, <1>18
  <2> QED
    BY <1>15, <2>1, LookupSame
<1> QED
  BY <1>15, <1>16, <1>18


\* A name is found if its bucket has its key.
LEMMA KeyIsFound ==
  ASSUME NEW s, MapAt(s), NEW name \in Names, Key[name] # 0
  PROVE  HasKey(Key[name]) <=> Lookup[name] # NULL
<1>1. Finds(s, name)
  BY LookupFinds DEF FindsAll
<1>2. HasKey(Key[name]) <=> \E v \in Values : Holds(s, Key[name], v)
  BY FoundInBucket
<1> QED
  BY <1>1, <1>2, ValuesAssumption DEF Finds

LEMMA NothingWritten ==
  ASSUME NEW s, MapAt(s), UNCHANGED llistVars
  PROVE  MapAt(s)' /\ \A m \in Names : Key[m] # 0 => Lookup'[m] = Lookup[m]
<1>1. Represents(s)' /\ item' = item
  BY DEF MapAt, Represents, Linked, OnePlace, llistVars
<1> QED
  BY <1>1, BucketsAlone

\* hmap_put_abs puts the value under the name, if there is room for it.
LEMMA PutEffect ==
  ASSUME FieldsOK, ItemsOK, NEW s, MapAt(s), NEW name \in Names, NEW value \in Values,
         hmap_put_abs(Key[name], value)
  PROVE  /\ MapOK'
         /\ \A m \in Names : Key[m] \notin {0, Key[name]} => Lookup'[m] = Lookup[m]
         /\ Key[name] # 0 =>
              Lookup'[name] = IF CanAppend \/ Lookup[name] # NULL THEN value ELSE Lookup[name]
<1>1. PICK e : e = [key_val |-> Key[name], value |-> value]
  OBVIOUS
<1>2. \/ HasKey(Key[name]) /\ Overwrite(CellOf(Key[name]), e)
      \/ ~HasKey(Key[name]) /\ llist_append(Bucket(Key[name]), e)
      \/ ~HasKey(Key[name]) /\ ~CanAppend /\ UNCHANGED llistVars
  BY <1>1, Zenon DEF hmap_put_abs
<1>3. Key[name] # 0 => (HasKey(Key[name]) <=> Lookup[name] # NULL)
  BY KeyIsFound
<1>4. ASSUME HasKey(Key[name]), Overwrite(CellOf(Key[name]), e)
      PROVE  /\ MapOK'
             /\ \A m \in Names : Key[m] \notin {0, Key[name]} => Lookup'[m] = Lookup[m]
             /\ Key[name] # 0 => Lookup'[name] = value
  <2> PICK key \in Int : key = Key[name]
    BY NameHasBucket
  <2> PICK b \in Buckets : b = Bucket(key)
    BY NameHasBucket
  <2>1. PICK k \in 1..Len(s[b]) : CellOf(key) = s[b][k] /\ item[s[b][k]].key_val = key
    BY <1>4, FoundInBucket
  <2>2. e \in [key_val : Int, value : Values] /\ e.key_val = key
    BY <1>1
  <2>3. Overwrite(s[b][k], e)
    BY <1>4, <2>1
  <2>4. /\ MapAt(s)'
        /\ \A i \in 1..Len(s[b]) : item'[s[b][i]] = IF i = k THEN e ELSE item[s[b][i]]
        /\ \A m \in Names : Key[m] \notin {0, item[s[b][k]].key_val} => Lookup'[m] = Lookup[m]
    BY <2>1, <2>2, <2>3, OverwriteElement
  <2>5. item'[s[b][k]] = [key_val |-> key, value |-> value]
    BY <1>1, <2>4
  <2>6. Holds(s, key, value)'
    BY <2>5 DEF Holds, Bucket
  <2>7. key # 0 => Lookup'[name] = value
    BY <2>4, <2>6, LookupFindsNext
  <2> QED
    BY <2>1, <2>4, <2>7 DEF MapOK
<1>5. ASSUME ~HasKey(Key[name]), llist_append(Bucket(Key[name]), e)
      PROVE  /\ MapOK' /\ CanAppend
             /\ \A m \in Names : Key[m] \notin {0, Key[name]} => Lookup'[m] = Lookup[m]
             /\ Key[name] # 0 => Lookup'[name] = value
  <2>1. llist_append(Bucket(Key[name]), [key_val |-> Key[name], value |-> value])
    BY <1>1, <1>5, Zenon
  <2>2. PICK t : /\ MapAt(t)' /\ Holds(t, Key[name], value)'
                 /\ \A m \in Names : Key[m] \notin {0, Key[name]} => Lookup'[m] = Lookup[m]
    BY <1>5, <2>1, AppendElement
  <2>3. Key[name] # 0 => Lookup'[name] = value
    BY <2>2, LookupFindsNext
  <2>4. CanAppend
    BY <1>5 DEF llist_append, CanAppend
  <2> QED
    BY <2>2, <2>3, <2>4 DEF MapOK
<1>6. ASSUME UNCHANGED llistVars
      PROVE  MapOK' /\ \A m \in Names : Key[m] # 0 => Lookup'[m] = Lookup[m]
  BY <1>6, NothingWritten DEF MapOK
<1> QED
  BY <1>2, <1>3, <1>4, <1>5, <1>6

\* hmap_remove_abs takes the name out.
LEMMA RemoveEffect ==
  ASSUME FieldsOK, ItemsOK, NEW s, MapAt(s), NEW name \in Names, hmap_remove_abs(Key[name])
  PROVE  /\ MapOK'
         /\ \A m \in Names : Key[m] \notin {0, Key[name]} => Lookup'[m] = Lookup[m]
         /\ Key[name] # 0 => Lookup'[name] = NULL
<1>1. CASE HasKey(Key[name])
  <2> PICK key \in Int : key = Key[name]
    BY NameHasBucket
  <2> PICK b \in Buckets : b = Bucket(key)
    BY NameHasBucket
  <2>1. PICK k \in 1..Len(s[b]) : CellOf(key) = s[b][k] /\ item[s[b][k]].key_val = key
    BY <1>1, FoundInBucket
  <2>2. PICK e : e = [item[s[b][k]] EXCEPT !.key_val = 0]
    OBVIOUS
  <2>3. \A i \in 1..Len(s[b]) :
          /\ item[s[b][i]] \in [key_val : Int, value : Values]
          /\ \A j \in 1..Len(s[b]) :
               item[s[b][i]].key_val = item[s[b][j]].key_val /\ item[s[b][i]].key_val # 0 => i = j
    BY DEF MapAt, Keyed
  <2>4. e \in [key_val : Int, value : Values] /\ e.key_val = 0
    BY <2>2, <2>3
  <2>5. Overwrite(s[b][k], e)
    BY <1>1, <2>1, <2>2 DEF hmap_remove_abs
  <2>6. /\ MapAt(s)'
        /\ \A i \in 1..Len(s[b]) : item'[s[b][i]] = IF i = k THEN e ELSE item[s[b][i]]
        /\ \A m \in Names : Key[m] \notin {0, item[s[b][k]].key_val} => Lookup'[m] = Lookup[m]
    BY <2>4, <2>5, OverwriteElement
  <2>7. ASSUME key # 0, NEW v, Holds(s, key, v)' PROVE FALSE
    <3>1. PICK i \in 1..Len(s[b]) : item'[s[b][i]] = [key_val |-> key, value |-> v]
      BY <2>7 DEF Holds, Bucket
    <3>2. item'[s[b][i]].key_val = key
      BY <3>1
    <3>3. i # k /\ item[s[b][i]].key_val = key
      BY <2>4, <2>6, <2>7, <3>2
    <3> QED
      BY <2>1, <2>3, <2>7, <3>3
  <2>8. key # 0 => Lookup'[name] = NULL
    BY <2>6, <2>7, LookupFindsNext
  <2> QED
    BY <2>1, <2>6, <2>8 DEF MapOK
<1>2. CASE ~HasKey(Key[name])
  <2>1. UNCHANGED llistVars
    BY <1>2 DEF hmap_remove_abs
  <2>2. Key[name] # 0 => Lookup[name] = NULL
    BY <1>2, KeyIsFound
  <2> QED
    BY <2>1, <2>2, NothingWritten DEF MapOK
<1> QED
  BY <1>1, <1>2


\* hmap_destroy takes every name out.
LEMMA DestroyEffect ==
  ASSUME FieldsOK, NEW s, MapAt(s), hmap_destroy
  PROVE  MapOK' /\ \A m \in Names : Key[m] # 0 => Lookup'[m] = NULL
<1>1. Represents(s) /\ Buckets \in SUBSET Lists /\ Destroy(Buckets)
  BY BucketsAreLists DEF MapAt, hmap_destroy
<1>2. Represents([l \in Lists |-> IF l \in Buckets THEN <<>> ELSE s[l]])'
  BY <1>1, DestroyEmpties
<1>3. PICK t : t = [l \in Lists |-> IF l \in Buckets THEN <<>> ELSE s[l]]
  OBVIOUS
<1>4. \A b \in Buckets : Len(t[b]) = 0
  BY <1>1, <1>3
<1>5. MapAt(t)'
  BY <1>2, <1>3, <1>4 DEF MapAt, Keyed
<1>6. ASSUME NEW m \in Names, Key[m] # 0 PROVE Lookup'[m] = NULL
  <2>1. \A v : ~Holds(t, Key[m], v)'
    BY <1>4, NameHasBucket DEF Holds, Bucket
  <2> QED
    BY <1>5, <1>6, <2>1, LookupFindsNext
<1> QED
  BY <1>5, <1>6 DEF MapOK

\* A call on the routing list leaves every name as it is.
LEMMA ListEffect ==
  ASSUME FieldsOK, ItemsOK, NEW s, MapAt(s), ListCall
  PROVE  MapOK' /\ \A m \in Names : Key[m] # 0 => Lookup'[m] = Lookup[m]
<1>1. PICK t : /\ Represents(t)'
               /\ \A b \in Buckets : /\ t[b] = s[b]
                                     /\ \A k \in 1..Len(s[b]) : item'[s[b][k]] = item[s[b][k]]
  BY ListLeavesBuckets
<1> QED
  BY <1>1, BucketsAlone DEF MapOK

LEMMA AlwaysMapped == Spec => []MapOK
<1>1. ASSUME Init PROVE MapOK
  <2>1. PICK s : FieldsOK /\ Represents(s)
    BY <1>1, InitRepresents DEF Init, Represented
  <2>2. \A b \in Buckets : Len(s[b]) = 0
    <3> SUFFICES ASSUME NEW b \in Buckets PROVE Len(s[b]) = 0
      OBVIOUS
    <3>1. b \in Lists /\ size[b] = 0
      BY <1>1, BucketsAreLists DEF Init, llist_init
    <3> QED
      BY <2>1, <3>1, ListFields
  <2>3. MapAt(s)
    BY <2>1, <2>2 DEF MapAt, Keyed
  <2> QED
    BY <2>3 DEF MapOK
<1>2. ASSUME Represented, ItemsOK, MapOK, [Next]_allVars PROVE MapOK'
  <2> PICK s : MapAt(s)
    BY <1>2 DEF MapOK
  <2>1. FieldsOK /\ ItemsOK
    BY <1>2 DEF Represented
  <2>2. CASE ListCall
    BY <2>1, <2>2, ListEffect
  <2>3. CASE MapCall
    BY <2>1, <2>3, PutEffect, RemoveEffect, DestroyEffect DEF MapCall
  <2>4. CASE UNCHANGED allVars
    BY <2>4, NothingWritten DEF MapOK, allVars
  <2> QED
    BY <1>2, <2>2, <2>3, <2>4 DEF Next
<1> QED
  BY <1>1, <1>2, AlwaysRepresented, ItemsTyped, PTL DEF Spec


---------------------------------------------------------------------------------
(* What the calls do to the map. *)

\* The names found, and what is found.
FoundNames == {n \in Names \ {<<>>} : Lookup[n] # NULL}
FoundMap == [name \in FoundNames |-> Lookup[name]]

\* Under the hypothesis, a key that is another name's is neither this one's nor 0.
LEMMA KeysDiffer ==
  ASSUME KeysApart(Names), NEW name \in Names
  PROVE  /\ \A m \in Names \ {<<>>} : Key[m] # 0 /\ (m # name => Key[m] \notin {0, Key[name]})
         /\ name # <<>> => Key[name] # 0
BY DEF KeysApart, Key

LEMMA MapPut ==
  ASSUME KeysApart(Names), Represented, ItemsOK, MapOK,
         NEW name \in Names, NEW value \in Values, hmap_put_abs(Key[name], value)
  PROVE  Map!Put(name, value)
<1> PICK s : MapAt(s)
  BY DEF MapOK
<1>1. /\ \A m \in Names : Key[m] \notin {0, Key[name]} => Lookup'[m] = Lookup[m]
      /\ Key[name] # 0 =>
           Lookup'[name] = IF CanAppend \/ Lookup[name] # NULL THEN value ELSE Lookup[name]
  BY PutEffect DEF Represented
<1>2. \A m \in Names \ {<<>>} : m # name => Lookup'[m] = Lookup[m]
  BY <1>1, KeysDiffer
<1>3. name # <<>> =>
        Lookup'[name] = IF CanAppend \/ Lookup[name] # NULL THEN value ELSE Lookup[name]
  BY <1>1, KeysDiffer
<1>4. value # NULL
  BY ValuesAssumption
<1>5. FoundMap' = IF name # <<>> /\ (CanAppend \/ name \in DOMAIN FoundMap)
                  THEN [n \in DOMAIN FoundMap \cup {name} |->
                          IF n = name THEN value ELSE FoundMap[n]]
                  ELSE FoundMap
  <2>1. DOMAIN FoundMap = FoundNames /\ \A n \in FoundNames : FoundMap[n] = Lookup[n]
    BY DEF FoundMap
  <2>2. FoundMap' = [n \in FoundNames' |-> Lookup'[n]]
    BY DEF FoundMap
  <2>3. \A n \in FoundNames \cup FoundNames' : n \in Names \ {<<>>}
    BY DEF FoundNames
  <2>4. \A n \in Names \ {<<>>} : /\ n \in FoundNames <=> Lookup[n] # NULL
                                  /\ n \in FoundNames' <=> Lookup'[n] # NULL
    BY DEF FoundNames
  <2>5. CASE name # <<>> /\ (CanAppend \/ name \in FoundNames)
    <3>1. Lookup'[name] = value
      BY <1>3, <2>4, <2>5
    <3>2. FoundNames' = FoundNames \cup {name}
      BY <1>2, <1>4, <2>3, <2>4, <2>5, <3>1
    <3>3. \A n \in FoundNames \cup {name} :
            Lookup'[n] = IF n = name THEN value ELSE FoundMap[n]
      BY <1>2, <2>1, <2>3, <3>1
    <3> QED
      BY <2>1, <2>2, <2>5, <3>2, <3>3
  <2>6. CASE ~(name # <<>> /\ (CanAppend \/ name \in FoundNames))
    <3>1. \A n \in Names \ {<<>>} : Lookup'[n] = Lookup[n]
      BY <1>2, <1>3, <2>4, <2>6
    <3>2. FoundNames' = FoundNames
      BY <2>3, <2>4, <3>1
    <3> QED
      BY <2>1, <2>2, <2>3, <2>6, <3>1, <3>2 DEF FoundMap
  <2> QED
    BY <2>1, <2>5, <2>6
<1> QED
  BY <1>5 DEF Map!Put, FoundMap, FoundNames

LEMMA MapDrop ==
  ASSUME KeysApart(Names), Represented, ItemsOK, MapOK,
         NEW name \in Names, hmap_remove_abs(Key[name])
  PROVE  Map!Drop(name)
<1> PICK s : MapAt(s)
  BY DEF MapOK
<1>1. /\ \A m \in Names : Key[m] \notin {0, Key[name]} => Lookup'[m] = Lookup[m]
      /\ Key[name] # 0 => Lookup'[name] = NULL
  BY RemoveEffect DEF Represented
<1>2. \A m \in Names \ {<<>>} : Lookup'[m] = IF m = name THEN NULL ELSE Lookup[m]
  BY <1>1, KeysDiffer
<1>3. FoundMap' = [n \in (DOMAIN FoundMap \ {name}) |-> FoundMap[n]]
  <2>1. DOMAIN FoundMap = FoundNames /\ \A n \in FoundNames : FoundMap[n] = Lookup[n]
    BY DEF FoundMap
  <2>2. FoundMap' = [n \in FoundNames' |-> Lookup'[n]]
    BY DEF FoundMap
  <2>3. FoundNames' = FoundNames \ {name} /\ \A n \in FoundNames : n \in Names \ {<<>>}
    BY <1>2 DEF FoundNames
  <2>4. \A n \in FoundNames \ {name} : Lookup'[n] = FoundMap[n]
    BY <1>2, <2>1, <2>3
  <2> QED
    BY <2>1, <2>2, <2>3, <2>4
<1> QED
  BY <1>3 DEF Map!Drop, Map!Restrict, FoundMap, FoundNames

LEMMA MapClear ==
  ASSUME KeysApart(Names), Represented, MapOK, hmap_destroy
  PROVE  Map!Clear
<1>1. \A m \in Names : Key[m] # 0 => Lookup'[m] = NULL
  BY DestroyEffect DEF Represented, MapOK
<1>2. \A m \in Names \ {<<>>} : Lookup'[m] = NULL
  BY <1>1, KeysDiffer
<1>3. FoundNames' = {}
  BY <1>2 DEF FoundNames
<1>4. FoundMap' = <<>>
  BY <1>3 DEF FoundMap
<1> QED
  BY <1>4 DEF Map!Clear, FoundMap, FoundNames

LEMMA MapIdle ==
  ASSUME KeysApart(Names), \A m \in Names : Key[m] # 0 => Lookup'[m] = Lookup[m]
  PROVE  Map!Idle
<1>1. \A m \in Names \ {<<>>} : Lookup'[m] = Lookup[m]
  BY KeysDiffer
<1>2. FoundNames' = FoundNames /\ \A n \in FoundNames : n \in Names \ {<<>>}
  BY <1>1 DEF FoundNames
<1>3. FoundMap' = FoundMap
  BY <1>1, <1>2 DEF FoundMap
<1> QED
  BY <1>3 DEF Map!Idle, FoundMap, FoundNames

\* If the keys of the names differ, and only the empty name's is 0, each call of hashmap.c
\* does to the map what its name says, a value put stays until the name is removed or put
\* again, and no call on the routing list disturbs it.
THEOREM KeepsMap == KeysApart(Names) => (Spec => MapKept)
<1> SUFFICES ASSUME KeysApart(Names) PROVE Spec => MapKept
  OBVIOUS
<1>1. ASSUME Represented, ItemsOK, MapOK, [Next]_allVars
      PROVE  [/\ \A name \in Names :
                   /\ \A value \in Values :
                        hmap_put_abs(Key[name], value) => Map!Put(name, value)
                   /\ hmap_remove_abs(Key[name]) => Map!Drop(name)
              /\ hmap_destroy => Map!Clear
              /\ Map!Idle \/ MapCall]_allVars
  <2> PICK s : MapAt(s)
    BY <1>1 DEF MapOK
  <2>1. \A name \in Names : \A value \in Values :
          hmap_put_abs(Key[name], value) => Map!Put(name, value)
    BY <1>1, MapPut
  <2>2. \A name \in Names : hmap_remove_abs(Key[name]) => Map!Drop(name)
    BY <1>1, MapDrop
  <2>3. hmap_destroy => Map!Clear
    BY <1>1, MapClear
  <2>4. ListCall => Map!Idle
    BY <1>1, ListEffect, MapIdle DEF Represented
  <2> QED
    BY <1>1, <2>1, <2>2, <2>3, <2>4, Zenon DEF Next
<1> QED
  BY <1>1, AlwaysRepresented, ItemsTyped, AlwaysMapped, PTL DEF Spec, MapKept

=================================================================================
