---------------------------- MODULE CommandParserProofs ----------------------------
(***************************************************************************)
(* Proofs about CommandParser, for every command that TimeKeeper can send: *)
(* the loop reads the tuples in their order, what the call returns is what *)
(* the text says, and the protocol that reads its commands this way is the *)
(* protocol of VTProtocol.                                                 *)
(***************************************************************************)
EXTENDS CommandParser, VTProtocolProofs, SequenceTheorems

---------------------------------------------------------------------------------
(* Recursion. *)

\* What holds at 0 and goes from each number to the next holds up to n.
LEMMA UpTo ==
  ASSUME NEW n \in Nat, NEW P \in SUBSET Nat, 0 \in P,
         \A k \in 1..n : k - 1 \in P => k \in P
  PROVE  \A k \in 0..n : k \in P
<1> SUFFICES ASSUME NEW j \in 0..n, j \notin P PROVE FALSE
  OBVIOUS
<1> DEFINE Bad == {k \in 0..n : k \notin P}
<1>1. Bad \in SUBSET Nat /\ Bad # {}
  OBVIOUS
<1>2. PICK m \in Bad : \A k \in Bad : m <= k
  <2> HIDE DEF Bad
  <2> QED
    BY <1>1, LeastNumber
<1>3. m \in 1..n /\ m - 1 \notin Bad
  BY <1>2
<1> QED
  BY <1>3

Steps(n, T) == [1..n -> [T -> T]]

Follows(f, n, b, step) == f[0] = b /\ \A k \in 1..n : f[k] = step[k][f[k - 1]]

\* A function is defined on 0..n by its value at 0 and a step from each value to the next.
LEMMA Recursion ==
  ASSUME NEW n \in Nat, NEW T, NEW b \in T, NEW step \in Steps(n, T)
  PROVE  \E f \in [0..n -> T] : Follows(f, n, b, step)
<1> USE DEF Steps, Follows
<1> DEFINE Is(f, m) == Follows(f, m, b, step)
           P == {m \in 0..n : \E f \in [0..m -> T] : Is(f, m)}
<1>1. 0 \in P
  <2>1. Is([k \in 0..0 |-> b], 0) /\ [k \in 0..0 |-> b] \in [0..0 -> T]
    OBVIOUS
  <2> HIDE DEF Is
  <2> QED
    BY <2>1
<1>2. ASSUME NEW m \in 1..n, m - 1 \in P PROVE m \in P
  <2>1. PICK f \in [0..m - 1 -> T] : Is(f, m - 1)
    <3> HIDE DEF Is
    <3> QED
      BY <1>2
  <2> DEFINE v == step[m][f[m - 1]]
             g == [k \in 0..m |-> IF k = m THEN v ELSE f[k]]
  <2>2. m - 1 \in 0..m - 1 /\ m \in Nat
    OBVIOUS
  <2>3. v \in T
    BY <2>2
  <2> HIDE DEF v
  <2>4. g \in [0..m -> T]
    BY <2>3
  <2>5. \A k \in 0..m - 1 : g[k] = f[k]
    OBVIOUS
  <2>6. g[0] = b
    BY <2>1, <2>2, <2>5
  <2>7. ASSUME NEW k \in 1..m PROVE g[k] = step[k][g[k - 1]]
    <3>1. g[k - 1] = f[k - 1]
      BY <2>5
    <3>2. CASE k = m
      BY <3>1, <3>2 DEF v
    <3>3. CASE k # m
      BY <2>1, <2>5, <3>1, <3>3
    <3> QED
      BY <3>2, <3>3
  <2>8. Is(g, m)
    BY <2>6, <2>7
  <2> HIDE DEF Is, g
  <2> QED
    BY <2>4, <2>8
<1>3. n \in P
  <2> HIDE DEF Is
  <2>1. P \in SUBSET Nat
    OBVIOUS
  <2> HIDE DEF P
  <2>2. \A k \in 0..n : k \in P
    BY <1>1, <1>2, <2>1, UpTo
  <2> QED
    BY <2>2
<1> QED
  BY <1>3

---------------------------------------------------------------------------------
(* The numbers of a command. *)

LEMMA Remainder ==
  ASSUME NEW a \in Nat, NEW m \in Nat \ {0}
  PROVE  a % m \in 0..m - 1
OBVIOUS

\* A number is read as an unsigned int.
LEMMA ValueTyped == \A d \in Seq(0..9) : Value(d) \in 0..2 * IntLimit - 1
<1> SUFFICES ASSUME NEW d \in Seq(0..9) PROVE Value(d) \in 0..2 * IntLimit - 1
  OBVIOUS
<1> DEFINE m == 2 * IntLimit
           T == 0..m - 1
           next(k, v) == (10 * v + d[k]) % m
           step == [k \in 1..Len(d) |-> [v \in T |-> next(k, v)]]
           Is(f) == f = [k \in 0..Len(d) |-> IF k = 0 THEN 0 ELSE next(k, f[k - 1])]
<1>1. Len(d) \in Nat /\ \A k \in 1..Len(d) : d[k] \in 0..9
  BY LenProperties
<1>2. m \in Nat \ {0} /\ 0 \in T
  BY ParserAssumption
<1> HIDE DEF m
<1>3. \A k \in 1..Len(d), v \in T : next(k, v) \in T
  <2> SUFFICES ASSUME NEW k \in 1..Len(d), NEW v \in T PROVE next(k, v) \in T
    OBVIOUS
  <2>1. 10 * v + d[k] \in Nat
    BY <1>1, <1>2
  <2> QED
    BY <1>2, <2>1, Remainder
<1>4. step \in Steps(Len(d), T)
  <2> HIDE DEF T, next
  <2> QED
    BY <1>3 DEF Steps
<1>5. PICK f \in [0..Len(d) -> T] : Follows(f, Len(d), 0, step)
  <2> HIDE DEF step, T
  <2> QED
    BY <1>1, <1>2, <1>4, Recursion
<1>6. ASSUME NEW k \in 1..Len(d) PROVE f[k] = next(k, f[k - 1])
  <2>1. k - 1 \in 0..Len(d)
    BY <1>1
  <2>2. f[k - 1] \in T
    BY <2>1
  <2> HIDE DEF T, next
  <2> QED
    BY <1>5, <2>2 DEF Follows
<1>7. Is(f)
  <2> HIDE DEF T, next
  <2>1. ASSUME NEW k \in 0..Len(d) PROVE f[k] = IF k = 0 THEN 0 ELSE next(k, f[k - 1])
    BY <1>1, <1>5, <1>6 DEF Follows
  <2> QED
    BY <2>1
<1>8. Value(d) = (CHOOSE g : Is(g))[Len(d)]
  BY DEF Value, m
<1>9. ASSUME NEW g, Is(g) PROVE g[Len(d)] \in T
  <2> DEFINE P == {k \in 0..Len(d) : g[k] \in T}
  <2> HIDE DEF T, next
  <2>1. g[0] = 0 /\ \A k \in 1..Len(d) : g[k] = next(k, g[k - 1])
    BY <1>1, <1>9, SMTT(30)
  <2>2. 0 \in P
    BY <1>1, <1>2, <2>1
  <2>3. \A k \in 1..Len(d) : k - 1 \in P => k \in P
    BY <1>1, <1>3, <2>1
  <2>4. P \in SUBSET Nat
    OBVIOUS
  <2>5. \A k \in 0..Len(d) : k \in P
    <3> HIDE DEF P
    <3> QED
      BY <1>1, <2>2, <2>3, <2>4, UpTo
  <2> QED
    BY <1>1, <2>5
<1>10. Is(CHOOSE g : Is(g))
  <2> HIDE DEF Is
  <2> QED
    BY <1>7
<1>11. (CHOOSE g : Is(g))[Len(d)] \in T
  <2> HIDE DEF Is
  <2> QED
    BY <1>9, <1>10
<1> QED
  BY <1>8, <1>11 DEF m

---------------------------------------------------------------------------------
(* The text of a command. *)

\* All characters but NUL, which ends the text.
Chars == 0..STOP

Texts == Seq(Chars)

\* The text of a tuple, character by character.
LEMMA TupleTextIs ==
  ASSUME NEW t \in [pid : Seq(0..9), n_insns : Seq(0..9)]
  PROVE  /\ Len(t.pid) \in Nat /\ Len(t.n_insns) \in Nat
         /\ TupleText(t) \in Texts
         /\ Len(TupleText(t)) = Len(t.pid) + Len(t.n_insns) + 2
         /\ TupleText(t)[1] = BAR
         /\ \A k \in 1..Len(t.pid) : TupleText(t)[k + 1] = t.pid[k]
         /\ TupleText(t)[Len(t.pid) + 2] = COMMA
         /\ \A k \in 1..Len(t.n_insns) : TupleText(t)[Len(t.pid) + 2 + k] = t.n_insns[k]
<1> DEFINE p == t.pid
           q == t.n_insns
           a == <<BAR>> \o p
           b == a \o <<COMMA>>
           c == b \o q
<1>1. /\ p \in Texts /\ q \in Texts /\ <<BAR>> \in Texts /\ <<COMMA>> \in Texts
      /\ Len(<<BAR>>) = 1 /\ Len(<<COMMA>>) = 1 /\ <<BAR>>[1] = BAR /\ <<COMMA>>[1] = COMMA
  <2>1. \A s : s \in Seq(0..9) => s \in Seq(Chars)
    BY DEF Chars, STOP
  <2> QED
    BY <2>1 DEF Texts, Chars, STOP, BAR, COMMA
<1>2. Len(p) \in Nat /\ Len(q) \in Nat
  BY <1>1, LenProperties DEF Texts
<1> HIDE DEF p, q
<1>3. /\ a \in Texts /\ Len(a) = Len(p) + 1 /\ a[1] = BAR
      /\ \A k \in 1..Len(p) : a[k + 1] = p[k]
  BY <1>1, <1>2, ConcatProperties DEF Texts
<1> HIDE DEF a
<1>4. /\ b \in Texts /\ Len(b) = Len(p) + 2 /\ b[1] = BAR /\ b[Len(p) + 2] = COMMA
      /\ \A k \in 1..Len(p) : b[k + 1] = p[k]
  BY <1>1, <1>2, <1>3, ConcatProperties DEF Texts
<1> HIDE DEF b
<1>5. c \in Texts /\ Len(c) = Len(p) + Len(q) + 2
      /\ \A k \in 1..Len(p) + 2 + Len(q) :
           c[k] = IF k <= Len(p) + 2 THEN b[k] ELSE q[k - (Len(p) + 2)]
  <2>1. /\ c \in Texts /\ Len(c) = Len(b) + Len(q)
        /\ \A k \in 1..Len(b) + Len(q) : c[k] = IF k <= Len(b) THEN b[k] ELSE q[k - Len(b)]
    BY <1>1, <1>4, ConcatProperties, ZenonT(40) DEF Texts
  <2> HIDE DEF c
  <2> QED
    BY <1>2, <1>4, <2>1
<1>6. c = TupleText(t)
  BY DEF TupleText, p, q, a, b
<1> HIDE DEF c
<1>7. c[1] = BAR /\ c[Len(p) + 2] = COMMA
  BY <1>2, <1>4, <1>5
<1>8. ASSUME NEW k \in 1..Len(p) PROVE c[k + 1] = p[k]
  BY <1>2, <1>4, <1>5
<1>9. ASSUME NEW k \in 1..Len(q) PROVE c[Len(p) + 2 + k] = q[k]
  BY <1>2, <1>5
<1> QED
  BY <1>2, <1>5, <1>6, <1>7, <1>8, <1>9 DEF p, q

LEMMA TuplesTyped == Tuples \subseteq [pid : Seq(0..9), n_insns : Seq(0..9)]
BY ParserAssumption DEF Tuples

\* The text of the first tuples grows by one tuple at a time.
LEMMA FirstTuplesAre ==
  ASSUME NEW ts \in Seq(Tuples)
  PROVE  /\ Len(ts) \in Nat /\ \A k \in 1..Len(ts) : ts[k] \in Tuples
         /\ \A k \in 0..Len(ts) : FirstTuples(ts)[k] \in Texts
         /\ FirstTuples(ts)[0] = <<>>
         /\ \A k \in 1..Len(ts) : FirstTuples(ts)[k] = FirstTuples(ts)[k - 1] \o TupleText(ts[k])
<1> DEFINE n == Len(ts)
           next(k, v) == v \o TupleText(ts[k])
           step == [k \in 1..n |-> [v \in Texts |-> next(k, v)]]
           Is(f) == f = [k \in 0..n |-> IF k = 0 THEN <<>> ELSE next(k, f[k - 1])]
           g == FirstTuples(ts)
<1>1. n \in Nat /\ \A k \in 1..n : ts[k] \in Tuples
  BY LenProperties
<1>2. \A k \in 1..n, v \in Texts : next(k, v) \in Texts
  <2> SUFFICES ASSUME NEW k \in 1..n, NEW v \in Texts PROVE next(k, v) \in Texts
    OBVIOUS
  <2>1. TupleText(ts[k]) \in Texts
    BY <1>1, TuplesTyped, TupleTextIs
  <2> QED
    BY <2>1, ConcatProperties DEF Texts
<1>3. <<>> \in Texts
  BY EmptySeq DEF Texts
<1> HIDE DEF next
<1>4. step \in Steps(n, Texts)
  BY <1>2 DEF Steps
<1>5. PICK f \in [0..n -> Texts] : Follows(f, n, <<>>, step)
  <2> HIDE DEF n, step
  <2> QED
    BY <1>1, <1>3, <1>4, Recursion
<1>6. Is(f)
  <2>1. ASSUME NEW k \in 1..n PROVE f[k] = next(k, f[k - 1])
    <3>1. k - 1 \in 0..n /\ f[k - 1] \in Texts
      BY <1>1
    <3> QED
      BY <1>5, <3>1 DEF Follows
  <2>2. \A k \in 0..n : f[k] = IF k = 0 THEN <<>> ELSE next(k, f[k - 1])
    BY <1>1, <1>5, <2>1 DEF Follows
  <2> QED
    BY <2>2
<1>7. g = CHOOSE h : Is(h)
  BY DEF FirstTuples, next
<1>8. Is(g)
  <2> HIDE DEF Is, g
  <2> QED
    BY <1>6, <1>7
<1> HIDE DEF g
<1>9. g[0] = <<>> /\ \A k \in 1..n : g[k] = next(k, g[k - 1])
  <2>1. \A k \in 0..n : g[k] = IF k = 0 THEN <<>> ELSE next(k, g[k - 1])
    BY <1>8
  <2> QED
    BY <1>1, <2>1
<1>10. \A k \in 0..n : g[k] \in Texts
  <2> DEFINE P == {k \in 0..n : g[k] \in Texts}
  <2>1. 0 \in P
    BY <1>1, <1>3, <1>9
  <2>2. \A k \in 1..n : k - 1 \in P => k \in P
    BY <1>1, <1>2, <1>9
  <2>3. P \in SUBSET Nat
    OBVIOUS
  <2>4. \A k \in 0..n : k \in P
    <3> HIDE DEF P
    <3> QED
      BY <1>1, <2>1, <2>2, <2>3, UpTo
  <2> QED
    BY <2>4
<1> QED
  BY <1>1, <1>9, <1>10 DEF g, next


\* After a tuple comes the next one or, after the last, the tail.
LEMMA RestOfText ==
  ASSUME NEW ts \in Seq(Tuples), NEW tail \in Tails, NEW k \in 1..Len(ts)
  PROVE  \E r \in Texts :
           /\ Text(ts, tail) = FirstTuples(ts)[k] \o r
           /\ IF k = Len(ts) THEN r = tail ELSE Len(r) >= 2 /\ r[1] = BAR
<1> DEFINE F == FirstTuples(ts)
           n == Len(ts)
           Follow(j, r) == F[k + j] = F[k] \o r
           Begins(r) == Len(r) >= 2 /\ r[1] = BAR
           P == {j \in 0..n - k :
                   \E r \in Texts : Follow(j, r) /\ IF j = 0 THEN r = <<>> ELSE Begins(r)}
<1>1. /\ n \in Nat /\ \A j \in 1..n : ts[j] \in Tuples
      /\ \A j \in 0..n : F[j] \in Texts
      /\ \A j \in 1..n : F[j] = F[j - 1] \o TupleText(ts[j])
  BY FirstTuplesAre, Zenon
<1>0. k \in Nat /\ k <= n /\ k \in 0..n /\ n - k \in Nat
  BY <1>1
<1>2. \A j \in 1..n : TupleText(ts[j]) \in Texts /\ Begins(TupleText(ts[j]))
  <2> SUFFICES ASSUME NEW j \in 1..n
               PROVE  TupleText(ts[j]) \in Texts /\ Begins(TupleText(ts[j]))
    OBVIOUS
  <2> DEFINE t == ts[j]
  <2>1. t \in [pid : Seq(0..9), n_insns : Seq(0..9)]
    BY <1>1, TuplesTyped
  <2> HIDE DEF t
  <2>2. /\ Len(t.pid) \in Nat /\ Len(t.n_insns) \in Nat
        /\ TupleText(t) \in Texts
        /\ Len(TupleText(t)) = Len(t.pid) + Len(t.n_insns) + 2
        /\ TupleText(t)[1] = BAR
    BY <2>1, TupleTextIs
  <2> HIDE DEF Begins
  <2>3. \A x, y \in Nat : \A z : Len(z) = x + y + 2 /\ z[1] = BAR => Begins(z)
    BY DEF Begins
  <2>4. Begins(TupleText(t))
    BY <2>2, <2>3
  <2> QED
    BY <2>2, <2>4 DEF t
<1>3. <<>> \in Texts /\ tail \in Texts
  <2>1. <<>> \in Texts /\ <<COMMA>> \in Texts /\ <<BAR>> \in Texts
    BY DEF Texts, Chars, STOP, BAR, COMMA
  <2> QED
    BY <2>1, ParserAssumption
<1>4. \A u, v \in Texts :
        /\ u \o v \in Texts
        /\ Begins(u) => Begins(u \o v)
        /\ u \o <<>> = u /\ <<>> \o u = u
  <2> SUFFICES ASSUME NEW u \in Texts, NEW v \in Texts
               PROVE  /\ u \o v \in Texts
                      /\ Begins(u) => Begins(u \o v)
                      /\ u \o <<>> = u /\ <<>> \o u = u
    OBVIOUS
  <2>1. Len(u) \in Nat /\ Len(v) \in Nat
    BY LenProperties DEF Texts
  <2>2. /\ u \o v \in Texts /\ Len(u \o v) = Len(u) + Len(v)
        /\ \A x \in 1..Len(u) + Len(v) :
             (u \o v)[x] = IF x <= Len(u) THEN u[x] ELSE v[x - Len(u)]
    BY ConcatProperties DEF Texts
  <2>3. Begins(u) => Begins(u \o v)
    BY <2>1, <2>2
  <2>4. u \o <<>> = u /\ <<>> \o u = u
    BY ConcatEmptySeq DEF Texts
  <2> HIDE DEF Begins
  <2> QED
    BY <2>2, <2>3, <2>4
<1>11. \A u, v, w \in Texts : (u \o v) \o w = u \o (v \o w)
  BY ConcatAssociative, SMTT(30) DEF Texts
<1> HIDE DEF F, n, Begins
<1>5. 0 \in P
  <2>1. F[k] \in Texts /\ k + 0 = k
    BY <1>0, <1>1
  <2>2. Follow(0, <<>>)
    BY <1>4, <2>1
  <2> HIDE DEF Follow
  <2> QED
    BY <1>0, <1>3, <2>2
<1>6. ASSUME NEW j \in 1..n - k, j - 1 \in P PROVE j \in P
  <2>1. PICK r \in Texts : Follow(j - 1, r) /\ IF j - 1 = 0 THEN r = <<>> ELSE Begins(r)
    <3> HIDE DEF Follow
    <3> QED
      BY <1>6
  <2> DEFINE t == TupleText(ts[k + j])
  <2>2. k + j \in 1..n /\ k + j - 1 = k + (j - 1)
    BY <1>0, <1>1
  <2>3. F[k + j] = F[k + (j - 1)] \o t /\ t \in Texts /\ Begins(t) /\ F[k] \in Texts
    <3>1. PICK x \in 1..n : x = k + j
      BY <2>2
    <3>2. F[x] = F[x - 1] \o TupleText(ts[x]) /\ TupleText(ts[x]) \in Texts /\ Begins(TupleText(ts[x]))
      BY <1>1, <1>2
    <3> QED
      BY <1>0, <1>1, <2>2, <3>1, <3>2
  <2> HIDE DEF t
  <2>4. Follow(j, r \o t)
    <3>1. F[k + j] = (F[k] \o r) \o t
      BY <2>1, <2>3
    <3> QED
      BY <1>11, <2>3, <3>1, Zenon
  <2>5. r \o t \in Texts /\ Begins(r \o t)
    <3>1. CASE r = <<>>
      BY <1>4, <2>3, <3>1
    <3>2. CASE Begins(r)
      BY <1>4, <2>3, <3>2
    <3> QED
      BY <2>1, <3>1, <3>2
  <2> HIDE DEF Follow
  <2> QED
    BY <1>0, <2>4, <2>5
<1>7. n - k \in P
  <2>1. P \in SUBSET Nat /\ n - k \in Nat
    BY <1>0
  <2> HIDE DEF P
  <2>2. \A j \in 0..n - k : j \in P
    BY <1>5, <1>6, <2>1, UpTo
  <2> QED
    BY <2>1, <2>2
<1>8. PICK r \in Texts : F[n] = F[k] \o r /\ IF n = k THEN r = <<>> ELSE Begins(r)
  <2>1. k + (n - k) = n /\ (n - k = 0 <=> n = k)
    BY <1>0, <1>1
  <2> QED
    BY <1>7, <2>1
<1>9. Text(ts, tail) = F[k] \o (r \o tail)
  <2>1. Text(ts, tail) = F[n] \o tail /\ F[k] \in Texts
    BY <1>0, <1>1 DEF Text, F, n
  <2>2. Text(ts, tail) = (F[k] \o r) \o tail
    BY <1>8, <2>1
  <2> QED
    BY <1>3, <1>11, <2>1, <2>2, Zenon
<1>10. r \o tail \in Texts /\ IF n = k THEN r \o tail = tail ELSE Begins(r \o tail)
  BY <1>3, <1>4, <1>8
<1> QED
  BY <1>9, <1>10 DEF F, n, Begins

---------------------------------------------------------------------------------
(* The tuple at the position where the loop stands. *)

After(k) == Start(k) + Len(sent[k].pid) + Len(sent[k].n_insns) + 2

\* The characters of a tuple of the command in the buffer.
LEMMA TupleInText ==
  ASSUME InText, NEW k \in 1..Len(sent)
  PROVE  LET i == Start(k)
             p == sent[k].pid
             q == sent[k].n_insns
         IN  /\ i \in Nat /\ Len(p) \in Nat /\ Len(q) \in Nat /\ Len(nxt_cmd) \in Nat
             /\ nxt_cmd \in Texts /\ After(k) <= Len(nxt_cmd)
             /\ nxt_cmd[i + 1] = BAR
             /\ \A j \in 1..Len(p) : nxt_cmd[i + 1 + j] = p[j]
             /\ nxt_cmd[i + Len(p) + 2] = COMMA
             /\ \A j \in 1..Len(q) : nxt_cmd[i + Len(p) + 2 + j] = q[j]
             /\ IF k < Len(sent)
                THEN /\ After(k) = Start(k + 1) /\ After(k) + 2 <= Len(nxt_cmd)
                     /\ nxt_cmd[After(k) + 1] = BAR
                ELSE /\ Len(nxt_cmd) <= After(k) + 1
                     /\ After(k) < Len(nxt_cmd) => nxt_cmd[After(k) + 1] \in {BAR, COMMA}
<1> DEFINE i == Start(k)
           p == sent[k].pid
           q == sent[k].n_insns
           u == FirstTuples(sent)[k - 1]
           t == TupleText(sent[k])
           v == u \o t
<1>1. sent \in Seq(Tuples) /\ Len(sent) \in Nat
  BY LenProperties DEF InText
<1>2. PICK tail \in Tails : nxt_cmd = Text(sent, tail)
  BY DEF InText
<1>3. PICK r \in Texts : /\ nxt_cmd = FirstTuples(sent)[k] \o r
                         /\ IF k = Len(sent) THEN r = tail ELSE Len(r) >= 2 /\ r[1] = BAR
  BY <1>1, <1>2, RestOfText
<1>4. /\ sent[k] \in Tuples /\ u \in Texts /\ FirstTuples(sent)[k] = v
      /\ FirstTuples(sent)[k] \in Texts
  <2>1. k - 1 \in 0..Len(sent) /\ k \in 0..Len(sent)
    BY <1>1
  <2> QED
    BY <1>1, <2>1, FirstTuplesAre
<1>5. /\ Len(p) \in Nat /\ Len(q) \in Nat /\ t \in Texts
      /\ Len(t) = Len(p) + Len(q) + 2 /\ t[1] = BAR
      /\ \A j \in 1..Len(p) : t[j + 1] = p[j]
      /\ t[Len(p) + 2] = COMMA
      /\ \A j \in 1..Len(q) : t[Len(p) + 2 + j] = q[j]
  <2>1. sent[k] \in [pid : Seq(0..9), n_insns : Seq(0..9)]
    BY <1>4, TuplesTyped
  <2> QED
    BY <2>1, TupleTextIs
<1>6. i = Len(u) /\ i \in Nat
  BY <1>4, LenProperties DEF Start, Texts
<1>7. Len(r) \in Nat /\ (k = Len(sent) => r \in {<<>>, <<COMMA>>, <<BAR>>})
  BY <1>3, ParserAssumption, LenProperties DEF Texts
<1> HIDE DEF p, q, u, t, i
<1>8. /\ v \in Texts /\ Len(v) = i + Len(p) + Len(q) + 2
      /\ \A j \in 1..Len(t) : v[i + j] = t[j]
  <2>1. /\ v \in Texts /\ Len(v) = Len(u) + Len(t)
        /\ \A j \in 1..Len(u) + Len(t) : v[j] = IF j <= Len(u) THEN u[j] ELSE t[j - Len(u)]
    BY <1>4, <1>5, ConcatProperties DEF Texts
  <2> HIDE DEF v
  <2> QED
    BY <1>5, <1>6, <2>1, SMTT(30)
<1>9. After(k) = Len(v) /\ After(k) \in Nat
  <2>1. After(k) = i + Len(p) + Len(q) + 2
    BY DEF After, p, q, i
  <2> HIDE DEF v
  <2> QED
    BY <1>5, <1>6, <1>8, <2>1
<1>10. k < Len(sent) => After(k) = Start(k + 1)
  <2>1. k + 1 - 1 = k
    OBVIOUS
  <2> QED
    BY <1>4, <1>9, <2>1, SMTT(30) DEF Start
<1> HIDE DEF v
<1>11. /\ nxt_cmd \in Texts /\ Len(nxt_cmd) = Len(v) + Len(r)
       /\ \A j \in 1..Len(v) + Len(r) : nxt_cmd[j] = IF j <= Len(v) THEN v[j] ELSE r[j - Len(v)]
  <2>1. nxt_cmd = v \o r /\ v \in Seq(Chars) /\ r \in Seq(Chars)
    BY <1>3, <1>4, <1>8 DEF v, Texts
  <2> QED
    BY <2>1, ConcatProperties DEF Texts
<1>12. \A j \in 1..Len(t) : nxt_cmd[i + j] = t[j]
  BY <1>5, <1>6, <1>7, <1>8, <1>11
<1>13. nxt_cmd[i + 1] = BAR /\ nxt_cmd[i + Len(p) + 2] = COMMA
  <2>1. nxt_cmd[i + (Len(p) + 2)] = t[Len(p) + 2]
    BY <1>5, <1>12
  <2> QED
    BY <1>5, <1>6, <1>12, <2>1
<1>14. ASSUME NEW j \in 1..Len(p) PROVE nxt_cmd[i + 1 + j] = p[j]
  <2>1. nxt_cmd[i + (j + 1)] = t[j + 1]
    BY <1>5, <1>12
  <2> QED
    BY <1>5, <1>6, <2>1
<1>15. ASSUME NEW j \in 1..Len(q) PROVE nxt_cmd[i + Len(p) + 2 + j] = q[j]
  <2>1. nxt_cmd[i + (Len(p) + 2 + j)] = t[Len(p) + 2 + j]
    BY <1>5, <1>12
  <2> QED
    BY <1>5, <1>6, <2>1
<1>16. CASE k < Len(sent)
  <2>1. Len(r) >= 2 /\ r[1] = BAR
    BY <1>3, <1>16
  <2>2. After(k) + 2 <= Len(nxt_cmd) /\ nxt_cmd[After(k) + 1] = BAR
    BY <1>7, <1>9, <1>11, <2>1, SMTT(30)
  <2> QED
    BY <1>5, <1>6, <1>9, <1>10, <1>11, <1>13, <1>14, <1>15, <1>16, <2>2 DEF p, q, i
<1>17. CASE k = Len(sent)
  <2>1. /\ Len(nxt_cmd) <= After(k) + 1 /\ After(k) <= Len(nxt_cmd)
        /\ After(k) < Len(nxt_cmd) => nxt_cmd[After(k) + 1] \in {BAR, COMMA}
    <3>1. CASE r = <<>>
      BY <1>9, <1>11, <3>1
    <3>2. CASE r \in {<<COMMA>>, <<BAR>>}
      <4>1. Len(r) = 1 /\ r[1] \in {BAR, COMMA}
        BY <3>2
      <4>2. nxt_cmd[After(k) + 1] = r[1]
        BY <1>9, <1>11, <4>1
      <4> QED
        BY <1>9, <1>11, <4>1, <4>2
    <3> QED
      BY <1>7, <1>17, <3>1, <3>2
  <2> QED
    BY <1>1, <1>5, <1>6, <1>9, <1>11, <1>13, <1>14, <1>15, <1>17, <2>1 DEF p, q, i
<1> QED
  BY <1>1, <1>16, <1>17

\* The text of a pid is not empty: no digits are 0, which is no pid.
LEMMA ValueEmpty == Value(<<>>) = 0
<1> DEFINE Is(f) == f = [k \in 0..0 |-> IF k = 0 THEN 0
                                        ELSE (10 * f[k - 1] + <<>>[k]) % (2 * IntLimit)]
<1>1. Value(<<>>) = (CHOOSE f : Is(f))[0]
  BY DEF Value
<1>2. Is([k \in 0..0 |-> 0])
  OBVIOUS
<1>3. Is(CHOOSE f : Is(f))
  <2> HIDE DEF Is
  <2> QED
    BY <1>2
<1>4. ASSUME NEW f, Is(f) PROVE f[0] = 0
  BY <1>4
<1>5. (CHOOSE f : Is(f))[0] = 0
  <2> HIDE DEF Is
  <2> QED
    BY <1>3, <1>4
<1> QED
  BY <1>1, <1>5

---------------------------------------------------------------------------------
(* What the helpers find at the position where the loop stands. *)

\* Only the end of the text reads as NUL.
LEMMA CharIs ==
  ASSUME nxt_cmd \in Texts, NEW i \in Nat
  PROVE  /\ Len(nxt_cmd) \in Nat
         /\ i < Len(nxt_cmd) => Char(i) = nxt_cmd[i + 1] /\ Char(i) # NUL
         /\ i >= Len(nxt_cmd) => Char(i) = NUL
<1>1. Len(nxt_cmd) \in Nat /\ DOMAIN nxt_cmd = 1..Len(nxt_cmd)
      /\ \A j \in 1..Len(nxt_cmd) : nxt_cmd[j] \in Chars
  BY LenProperties DEF Texts
<1>2. CASE i < Len(nxt_cmd)
  <2>1. i + 1 \in 1..Len(nxt_cmd)
    BY <1>1, <1>2
  <2>2. nxt_cmd[i + 1] \in Chars
    BY <1>1, <2>1
  <2> QED
    BY <1>1, <1>2, <2>1, <2>2 DEF Char, Chars, STOP, NUL
<1>3. CASE i >= Len(nxt_cmd)
  <2>1. i + 1 \notin 1..Len(nxt_cmd)
    BY <1>1, <1>3
  <2> QED
    BY <1>1, <1>3, <2>1 DEF Char
<1> QED
  BY <1>1, <1>2, <1>3

\* Where digits end is found.
LEMMA DigitsEndIs ==
  ASSUME nxt_cmd \in Texts, NEW i \in Nat, NEW j \in i..Len(nxt_cmd),
         Char(j) \notin 0..9, \A k \in i..j - 1 : Char(k) \in 0..9
  PROVE  DigitsEnd(i) = j
<1> DEFINE Ends(x) == /\ x \in i..Len(nxt_cmd)
                      /\ Char(x) \notin 0..9 /\ \A k \in i..x - 1 : Char(k) \in 0..9
<1>1. Len(nxt_cmd) \in Nat /\ Ends(j)
  BY CharIs
<1>2. ASSUME NEW x, Ends(x) PROVE x = j
  <2>1. x \in Int /\ j \in Int /\ x >= i /\ j >= i
    BY <1>1, <1>2
  <2>2. ~(x < j)
    <3> SUFFICES ASSUME x < j PROVE FALSE
      OBVIOUS
    <3>1. x \in i..j - 1
      BY <2>1
    <3> QED
      BY <1>2, <3>1
  <2>3. ~(j < x)
    <3> SUFFICES ASSUME j < x PROVE FALSE
      OBVIOUS
    <3>1. j \in i..x - 1
      BY <2>1
    <3> QED
      BY <1>2, <3>1
  <2> QED
    BY <2>1, <2>2, <2>3
<1>3. DigitsEnd(i) = CHOOSE x : Ends(x)
  BY DEF DigitsEnd
<1> HIDE DEF Ends
<1>4. Ends(CHOOSE x : Ends(x))
  BY <1>1
<1> QED
  BY <1>2, <1>3, <1>4

\* The digits of a number in the text, which end where no digit follows.
LEMMA NumberAt ==
  ASSUME nxt_cmd \in Texts, NEW i \in Nat, NEW d \in Seq(0..9),
         i + Len(d) <= Len(nxt_cmd), \A j \in 1..Len(d) : nxt_cmd[i + j] = d[j],
         Char(i + Len(d)) \notin 0..9
  PROVE  /\ \A j \in i..i + Len(d) - 1 : Char(j) \in 0..9
         /\ \A j \in i..i + Len(d) : DigitsEnd(j) = i + Len(d)
         /\ str_to_i(i) = Value(d)
<1> DEFINE e == i + Len(d)
<1>1. /\ Len(d) \in Nat /\ Len(nxt_cmd) \in Nat /\ e \in Nat
      /\ \A j \in 1..Len(d) : d[j] \in 0..9
  BY LenProperties, CharIs
<1>2. ASSUME NEW j \in i..e - 1 PROVE Char(j) \in 0..9
  <2>1. j \in Nat /\ j < Len(nxt_cmd) /\ j - i + 1 \in 1..Len(d) /\ i + (j - i + 1) = j + 1
    BY <1>1
  <2>2. Char(j) = nxt_cmd[j + 1]
    BY <2>1, CharIs
  <2>3. nxt_cmd[i + (j - i + 1)] = d[j - i + 1] /\ d[j - i + 1] \in 0..9
    BY <1>1, <2>1
  <2> QED
    BY <2>1, <2>2, <2>3
<1>3. ASSUME NEW j \in i..e PROVE DigitsEnd(j) = e
  <2>1. j \in Nat /\ e \in j..Len(nxt_cmd) /\ Char(e) \notin 0..9
    BY <1>1
  <2>2. \A k \in j..e - 1 : Char(k) \in 0..9
    BY <1>1, <1>2
  <2> HIDE DEF e
  <2> QED
    BY <2>1, <2>2, DigitsEndIs
<1>4. SubSeq(nxt_cmd, i + 1, e) = d
  <2>1. \A j \in i + 1..e : nxt_cmd[j] \in 0..9
    <3> SUFFICES ASSUME NEW j \in i + 1..e PROVE nxt_cmd[j] \in 0..9
      OBVIOUS
    <3>1. j - i \in 1..Len(d) /\ i + (j - i) = j
      BY <1>1
    <3>2. nxt_cmd[i + (j - i)] = d[j - i] /\ d[j - i] \in 0..9
      BY <1>1, <3>1
    <3> QED
      BY <3>1, <3>2
  <2> DEFINE s == SubSeq(nxt_cmd, i + 1, e)
  <2>2. /\ s \in Seq(0..9)
        /\ Len(s) = IF i + 1 <= e THEN e - (i + 1) + 1 ELSE 0
        /\ \A j \in 1..e - (i + 1) + 1 : s[j] = nxt_cmd[i + 1 + j - 1]
    <3> HIDE DEF e
    <3> QED
      BY <1>1, <2>1, SubSeqProperties
  <2> HIDE DEF s
  <2>3. Len(s) = Len(d)
    BY <1>1, <2>2
  <2>4. ASSUME NEW j \in 1..Len(d) PROVE s[j] = d[j]
    <3>1. j \in 1..e - (i + 1) + 1 /\ i + 1 + j - 1 = i + j
      BY <1>1
    <3> QED
      BY <2>2, <3>1
  <2>5. s = d
    BY <2>2, <2>3, <2>4, SeqEqual
  <2> QED
    BY <2>5 DEF s
<1>5. str_to_i(i) = Value(d)
  <2>1. i \in i..e
    BY <1>1
  <2>2. DigitsEnd(i) = e
    BY <1>3, <2>1
  <2> QED
    BY <1>4, <2>2 DEF str_to_i
<1> QED
  BY <1>2, <1>3, <1>5


\* At the bar of a tuple, its values are returned, and the loop resumes at the next
\* tuple or, after the last one, at a digit.
LEMMA ReadsTuple ==
  ASSUME InText, NEW k \in 1..Len(sent)
  PROVE  LET t == get_next_command_tuple(Start(k))
         IN  /\ t.pid = Value(sent[k].pid) /\ t.n_insns = Value(sent[k].n_insns)
             /\ IF k < Len(sent) THEN t.resume_ptr = Start(k + 1)
                ELSE t.resume_ptr \in Nat /\ Char(t.resume_ptr) \in 0..9
<1> DEFINE i == Start(k)
           p == sent[k].pid
           q == sent[k].n_insns
           x == i + Len(p) + 2
           e == After(k)
<1>1. /\ i \in Nat /\ Len(p) \in Nat /\ Len(q) \in Nat /\ Len(nxt_cmd) \in Nat
      /\ nxt_cmd \in Texts /\ e <= Len(nxt_cmd)
      /\ nxt_cmd[i + 1] = BAR
      /\ \A j \in 1..Len(p) : nxt_cmd[i + 1 + j] = p[j]
      /\ nxt_cmd[i + Len(p) + 2] = COMMA
      /\ \A j \in 1..Len(q) : nxt_cmd[x + j] = q[j]
      /\ IF k < Len(sent) THEN /\ e = Start(k + 1) /\ e + 2 <= Len(nxt_cmd)
                               /\ nxt_cmd[e + 1] = BAR
         ELSE /\ Len(nxt_cmd) <= e + 1
              /\ e < Len(nxt_cmd) => nxt_cmd[e + 1] \in {BAR, COMMA}
  BY TupleInText
<1>2. e = i + Len(p) + Len(q) + 2
  BY DEF After
<1>3. /\ p \in Seq(0..9) /\ q \in Seq(0..9) /\ Len(p) >= 1 /\ Len(q) >= 1
  <2>1. sent[k] \in Tuples
    BY ElementOfSeq DEF InText
  <2>2. p \in Seq(0..9) /\ q \in Seq(0..9) /\ p # <<>> /\ q # <<>>
    BY <2>1, ValueEmpty, ParserAssumption DEF Tuples
  <2>3. Len(p) \in Nat \ {0} /\ Len(q) \in Nat \ {0}
    BY <2>2, EmptySeq
  <2> HIDE DEF p, q
  <2> QED
    BY <2>2, <2>3
<1> HIDE DEF p, q, i, e
<1>4. /\ i + 1 \in Nat /\ x \in Nat /\ e \in Nat /\ e + 1 \in Nat
      /\ x - 1 \in Nat /\ x - 2 \in Nat
      /\ i < Len(nxt_cmd) /\ x - 1 < Len(nxt_cmd)
      /\ i + 1 + Len(p) = x - 1 /\ i + 1 + Len(p) - 1 = x - 2 /\ x - 1 + 1 = x
      /\ i + Len(p) + 2 = x /\ x + Len(q) = e
      /\ i + 1 \in i + 1..x - 1 /\ x - 2 \in i + 1..x - 2
      /\ x \in x..e - 1 /\ x + 1 \in x..e
      /\ x - 1 - i + 1 = Len(p) + 2 /\ e - x + 1 = Len(q) + 1
  BY <1>1, <1>2, <1>3, SMTT(30)
<1>5. Char(i) = BAR /\ Char(x - 1) = COMMA
  <2>1. nxt_cmd[x - 1 + 1] = COMMA
    BY <1>1, <1>4
  <2> HIDE DEF x
  <2>2. Char(x - 1) = nxt_cmd[x - 1 + 1] /\ Char(i) = nxt_cmd[i + 1]
    BY <1>1, <1>4, CharIs
  <2> QED
    BY <1>1, <2>1, <2>2
<1>6. /\ Char(e) \notin 0..9
      /\ IF k < Len(sent) THEN NUL \notin {Char(e), Char(e + 1)} ELSE NUL \in {Char(e), Char(e + 1)}
  <2>1. CASE k < Len(sent)
    <3>1. e < Len(nxt_cmd) /\ e + 1 < Len(nxt_cmd) /\ nxt_cmd[e + 1] = BAR
      BY <1>1, <1>4, <2>1, SMTT(30)
    <3>2. Char(e) = BAR /\ Char(e) # NUL /\ Char(e + 1) # NUL
      BY <1>1, <1>4, <3>1, CharIs
    <3> QED
      BY <2>1, <3>2 DEF BAR
  <2>2. CASE ~(k < Len(sent))
    <3>1. e + 1 >= Len(nxt_cmd)
      BY <1>1, <1>4, <2>2
    <3>2. Char(e + 1) = NUL
      BY <1>1, <1>4, <3>1, CharIs
    <3>3. e < Len(nxt_cmd) \/ Char(e) = NUL
      BY <1>1, <1>4, CharIs
    <3>4. e < Len(nxt_cmd) => Char(e) \in {BAR, COMMA}
      BY <1>1, <1>4, <2>2, CharIs
    <3>5. BAR \notin 0..9 /\ COMMA \notin 0..9 /\ NUL \notin 0..9
      BY DEF BAR, COMMA, NUL
    <3> QED
      BY <2>2, <3>2, <3>3, <3>4, <3>5
  <2> QED
    BY <2>1, <2>2
<1> HIDE DEF x
<1>7. /\ \A j \in i + 1..x - 2 : Char(j) \in 0..9
      /\ DigitsEnd(i + 1) = x - 1
      /\ str_to_i(i + 1) = Value(p)
  <2>1. i + 1 + Len(p) <= Len(nxt_cmd) /\ Char(i + 1 + Len(p)) \notin 0..9
    <3>1. COMMA \notin 0..9
      BY DEF COMMA
    <3>2. Char(i + 1 + Len(p)) = COMMA
      BY <1>4, <1>5
    <3> QED
      BY <1>4, <3>1, <3>2
  <2>2. /\ \A j \in i + 1..i + 1 + Len(p) - 1 : Char(j) \in 0..9
        /\ \A j \in i + 1..i + 1 + Len(p) : DigitsEnd(j) = i + 1 + Len(p)
        /\ str_to_i(i + 1) = Value(p)
    BY <1>1, <1>3, <1>4, <2>1, NumberAt
  <2>3. DigitsEnd(i + 1) = i + 1 + Len(p)
    BY <1>4, <2>2
  <2> QED
    BY <1>4, <2>2, <2>3
<1>8. Char(x) \in 0..9 /\ DigitsEnd(x + 1) = e /\ str_to_i(x) = Value(q)
  <2>1. x + Len(q) <= Len(nxt_cmd) /\ Char(x + Len(q)) \notin 0..9
    BY <1>1, <1>4, <1>6
  <2>2. \A j \in 1..Len(q) : nxt_cmd[x + j] = q[j]
    BY <1>1
  <2>3. /\ \A j \in x..x + Len(q) - 1 : Char(j) \in 0..9
        /\ \A j \in x..x + Len(q) : DigitsEnd(j) = x + Len(q)
        /\ str_to_i(x) = Value(q)
    BY <1>1, <1>3, <1>4, <2>1, <2>2, NumberAt, ZenonT(40)
  <2>4. Char(x) \in 0..9 /\ DigitsEnd(x + 1) = x + Len(q)
    BY <1>4, <2>3, SMTT(30)
  <2> QED
    BY <1>4, <2>3, <2>4
<1>9. get_next_value(i) = Len(p) + 2
  <2>1. NUL \notin {Char(x - 1), Char(x)}
    BY <1>5, <1>8 DEF NUL, COMMA
  <2>2. get_next_value(i) = x - 1 - i + 1
    BY <1>4, <1>7, <2>1 DEF get_next_value
  <2> QED
    BY <1>4, <2>2
<1>10. i + get_next_value(i) = x /\ get_next_value(i) # -1
  BY <1>1, <1>4, <1>9
<1>11. get_next_value(x) = IF k < Len(sent) THEN Len(q) + 1 ELSE -1
  <2>1. get_next_value(x) = IF NUL \in {Char(e), Char(e + 1)} THEN -1 ELSE e - x + 1
    BY <1>8 DEF get_next_value
  <2> QED
    BY <1>4, <1>6, <2>1
<1>12. get_next_command_tuple(i)
         = [resume_ptr |-> Resume(i, x), pid |-> Value(p), n_insns |-> Value(q)]
  <2>1. Char(i) # STOP
    BY <1>5 DEF BAR, STOP
  <2> QED
    BY <1>5, <1>7, <1>8, <1>10, <2>1, Zenon DEF get_next_command_tuple
<1>13. IF k < Len(sent) THEN Resume(i, x) = Start(k + 1)
       ELSE Resume(i, x) \in Nat /\ Char(Resume(i, x)) \in 0..9
  <2>1. CASE k < Len(sent)
    <3>1. Resume(i, x) = x + (Len(q) + 1) - 1 /\ e = Start(k + 1)
      BY <1>1, <1>11, <2>1 DEF Resume
    <3> QED
      BY <1>1, <1>4, <2>1, <3>1
  <2>2. CASE ~(k < Len(sent))
    <3>1. Resume(i, x) = x - 2
      BY <1>4, <1>11, <2>2 DEF Resume
    <3> QED
      BY <1>4, <1>7, <2>2, <3>1
  <2> QED
    BY <2>1, <2>2
<1> QED
  BY <1>12, <1>13 DEF i, p, q

\* At a digit, or at STOP, there is no tuple.
LEMMA ReadsNone ==
  ASSUME NEW i \in Nat
  PROVE  /\ Char(i) \in 0..9 =>
              get_next_command_tuple(i) = [resume_ptr |-> -1, pid |-> 0, n_insns |-> 0]
         /\ nxt_cmd = <<STOP>> /\ i = 0 =>
              get_next_command_tuple(i) = [resume_ptr |-> -1, pid |-> -1, n_insns |-> 0]
<1>1. ASSUME Char(i) \in 0..9
      PROVE  get_next_command_tuple(i) = [resume_ptr |-> -1, pid |-> 0, n_insns |-> 0]
  <2>1. Char(i) # STOP /\ Char(i) # BAR
    BY <1>1 DEF STOP, BAR
  <2> QED
    BY <2>1 DEF get_next_command_tuple
<1>2. ASSUME nxt_cmd = <<STOP>>
      PROVE  get_next_command_tuple(0) = [resume_ptr |-> -1, pid |-> -1, n_insns |-> 0]
  <2>1. Char(0) = STOP /\ Char(0 + 1) = NUL
    BY <1>2 DEF Char
  <2> QED
    BY <2>1 DEF get_next_command_tuple
<1> QED
  BY <1>1, <1>2


---------------------------------------------------------------------------------
(* The invariant of the loop. *)

\* What a tuple asks for: advances that are not negative are those TimeKeeper may ask for.
LEMMA TupleAsks ==
  ASSUME NEW t \in Tuples
  PROVE  LET n == Value(t.n_insns)
         IN  /\ Value(t.pid) \in Nat \ {0} /\ n \in Nat
             /\ ToAdvance(n) \in Int
             /\ ToAdvance(n) >= 0 => ToAdvance(n) \in Advances
             /\ n < IntLimit => ToAdvance(n) = n \div Scale /\ ToAdvance(n) >= 0
<1> DEFINE n == Value(t.n_insns)
<1>1. IntLimit \in Nat \ {0} /\ Scale \in Nat \ {0}
  BY ParserAssumption
<1>2. /\ t.pid \in Seq(0..9) /\ t.n_insns \in Seq(0..9) /\ t.n_insns \in Numerals
      /\ Value(t.pid) # 0
  BY ParserAssumption DEF Tuples
<1>3. Value(t.pid) \in 0..2 * IntLimit - 1 /\ n \in 0..2 * IntLimit - 1
  BY <1>2, ValueTyped
<1>4. ToAdvance(n) >= 0 => ToAdvance(n) \in Advances
  BY <1>2, CommandAssumption
<1> HIDE DEF n
<1>5. \A m \in Nat : m \div Scale \in Nat
  BY <1>1
<1>6. /\ ToAdvance(n) \in Int
      /\ n < IntLimit => ToAdvance(n) = n \div Scale /\ ToAdvance(n) >= 0
  <2>1. CASE n < IntLimit
    BY <1>1, <1>3, <1>5, <2>1 DEF ToAdvance
  <2>2. CASE ~(n < IntLimit)
    <3>1. 2 * IntLimit - n \in Nat
      BY <1>1, <1>3
    <3> QED
      BY <1>5, <2>2, <3>1 DEF ToAdvance
  <2> QED
    BY <2>1, <2>2
<1> QED
  BY <1>1, <1>2, <1>3, <1>4, <1>6 DEF n

LEMMA InitParserInv == ParserInit => ParserInv
BY EmptySeq DEF ParserInit, ParserInv, TuplesInOrder, Understood

\* The steps before the loop, and the one after it.
LEMMA AroundParserInv ==
  ASSUME ParserInv, GetTuples \/ GetStop \/ GetNothing \/ Return
  PROVE  ParserInv'
<1>1. CASE GetTuples
  <2>1. /\ sent = <<>> /\ taken \in Seq(Nat \X Nat) /\ Len(taken) <= Len(sent)
        /\ tail_ptr' = 0 /\ taken' = taken /\ ppc' = "loop"
        /\ per_round_advance' = DefaultAdvance
    BY <1>1 DEF GetTuples, Ack, ParserInv, TuplesInOrder
  <2>2. taken = <<>>
    BY <2>1, EmptySeq
  <2>3. PICK n \in 1..MaxTuples, tail \in Tails :
          sent' \in [1..n -> Tuples] /\ nxt_cmd' = Text(sent', tail)
    BY <1>1 DEF GetTuples
  <2>4. sent' \in Seq(Tuples) /\ Len(sent') = n /\ n \in Nat \ {0}
    BY <2>3, ParserAssumption
  <2>5. sent' \in Seq(Tuples) \ {<<>>}
    BY <2>4
  <2>6. InText'
    BY <2>3, <2>5 DEF InText
  <2>7. Start(1)' = 0
    <3>1. FirstTuples(sent')[0] = <<>>
      BY <2>4, FirstTuplesAre
    <3> QED
      BY <3>1 DEF Start
  <2>8. AtTuple'
    BY <2>1, <2>2, <2>4, <2>7 DEF AtTuple
  <2>9. InLoop'
    BY <2>1, <2>2, <2>6, <2>8 DEF InLoop, LastAdvance
  <2> QED
    BY <2>1, <2>2, <2>4, <2>9, EmptySeq DEF ParserInv, TuplesInOrder, Understood
<1>2. CASE GetStop
  <2>1. /\ sent = <<>> /\ taken \in Seq(Nat \X Nat) /\ Len(taken) <= Len(sent)
        /\ tail_ptr' = 0 /\ taken' = taken /\ ppc' = "loop" /\ sent' = sent
        /\ per_round_advance' = DefaultAdvance /\ nxt_cmd' = <<STOP>>
    BY <1>2 DEF GetStop, Ack, ParserInv, TuplesInOrder
  <2>2. taken = <<>>
    BY <2>1, EmptySeq
  <2> QED
    BY <2>1, <2>2, EmptySeq DEF ParserInv, TuplesInOrder, Understood, InLoop, LastAdvance
<1>3. CASE GetNothing
  <2>1. /\ sent = <<>> /\ taken \in Seq(Nat \X Nat) /\ Len(taken) <= Len(sent)
        /\ taken' = taken /\ ppc' = "done" /\ sent' = sent
        /\ per_round_advance' = DefaultAdvance /\ nxt_cmd' = <<>>
    BY <1>3 DEF GetNothing, Ack, ParserInv, TuplesInOrder
  <2>2. taken = <<>>
    BY <2>1, EmptySeq
  <2>3. DefaultAdvance \in Advances /\ DefaultAdvance \in Nat /\ <<>> # <<STOP>>
    BY AdvancesAssumption
  <2>4. Understood'
    <3>1. Len(sent') = 0
      BY <2>1
    <3> QED
      BY <2>1, <2>3, <3>1 DEF Understood
  <2> QED
    BY <2>1, <2>2, <2>3, <2>4, EmptySeq DEF ParserInv, TuplesInOrder
<1>4. CASE Return
  BY <1>4, EmptySeq DEF Return, ParserInv, TuplesInOrder, Understood
<1> QED
  BY <1>1, <1>2, <1>3, <1>4

\* A pass that finds a tuple finds the first one not yet read.
LEMMA TakeParserInv ==
  ASSUME ParserInv, TakeTuple
  PROVE  ParserInv'
<1> DEFINE t == get_next_command_tuple(tail_ptr)
           k == Len(taken) + 1
           n == Value(sent[k].n_insns)
<1>1. InLoop /\ ppc = "loop" /\ taken \in Seq(Nat \X Nat) /\ TuplesInOrder
  BY DEF TakeTuple, ParserInv
<1>2. /\ t.pid \notin {-1, 0} /\ tail_ptr' = t.resume_ptr
      /\ per_round_advance' = ToAdvance(t.n_insns)
      /\ taken' = Append(taken, <<t.pid, t.n_insns>>)
      /\ UNCHANGED <<ppc, sent, nxt_cmd>>
  BY DEF TakeTuple
<1>3. InText /\ Len(taken) < Len(sent) /\ tail_ptr = Start(k)
  <2>1. ASSUME tail_ptr \in Nat, Char(tail_ptr) \in 0..9 PROVE FALSE
    BY <1>2, <2>1, ReadsNone
  <2>2. ASSUME nxt_cmd = <<STOP>>, tail_ptr = 0 PROVE FALSE
    BY <1>2, <2>2, ReadsNone
  <2> QED
    BY <1>1, <2>1, <2>2 DEF InLoop, AtTuple
<1>4. /\ Len(taken) \in Nat /\ Len(sent) \in Nat /\ k \in 1..Len(sent) /\ sent[k] \in Tuples
  <2>1. Len(taken) \in Nat /\ Len(sent) \in Nat
    BY <1>1, <1>3, LenProperties DEF InText
  <2>2. k \in 1..Len(sent)
    BY <1>3, <2>1
  <2> QED
    BY <1>3, <2>1, <2>2, ElementOfSeq DEF InText
<1>5. /\ t.pid = Value(sent[k].pid) /\ t.n_insns = n
      /\ IF k < Len(sent) THEN t.resume_ptr = Start(k + 1)
         ELSE t.resume_ptr \in Nat /\ Char(t.resume_ptr) \in 0..9
  <2> HIDE DEF k
  <2> QED
    BY <1>3, <1>4, ReadsTuple
<1>6. Value(sent[k].pid) \in Nat /\ n \in Nat
  BY <1>4, TupleAsks
<1> HIDE DEF t, n
<1>7. /\ taken' \in Seq(Nat \X Nat) /\ taken' # <<>> /\ Len(taken') = k
      /\ \A j \in 1..Len(taken) : taken'[j] = taken[j]
      /\ taken'[k] = <<Value(sent[k].pid), n>>
  BY <1>1, <1>2, <1>5, <1>6, AppendProperties, SMTT(30)
<1> HIDE DEF k
<1>8. TuplesInOrder'
  <2>1. ASSUME NEW j \in 1..k
        PROVE  taken'[j] = <<Value(sent[j].pid), Value(sent[j].n_insns)>>
    <3>1. CASE j = k
      BY <1>7, <3>1 DEF n
    <3>2. CASE j # k
      <4>1. j \in 1..Len(taken) /\ j \in DOMAIN taken
        BY <1>1, <1>4, <3>2, LenProperties DEF k
      <4> QED
        BY <1>1, <1>7, <4>1 DEF TuplesInOrder
    <3> QED
      BY <3>1, <3>2
  <2>2. DOMAIN taken' = 1..k /\ k <= Len(sent)
    BY <1>4, <1>7, LenProperties
  <2> QED
    BY <1>1, <1>2, <1>7, <2>1, <2>2 DEF TuplesInOrder
<1>9. InText'
  BY <1>2, <1>3 DEF InText
<1>10. AtTuple'
  <2>1. CASE k < Len(sent)
    <3>1. tail_ptr' = Len(FirstTuples(sent)[(k + 1) - 1])
      <4>1. tail_ptr' = Start(k + 1)
        BY <1>2, <1>5, <2>1
      <4> QED
        BY <4>1 DEF Start
    <3>2. Start(Len(taken) + 1)' = tail_ptr'
      BY <1>2, <1>7, <3>1 DEF Start
    <3>3. Len(taken') < Len(sent')
      BY <1>2, <1>7, <2>1
    <3> QED
      BY <3>2, <3>3 DEF AtTuple
  <2>2. CASE ~(k < Len(sent))
    <3>1. Len(taken') = Len(sent')
      BY <1>2, <1>4, <1>7, <2>2
    <3>2. tail_ptr' \in Nat /\ Char(tail_ptr)' \in 0..9
      BY <1>2, <1>5, <2>2 DEF Char
    <3> QED
      BY <1>7, <3>1, <3>2 DEF AtTuple
  <2> QED
    BY <2>1, <2>2
<1>11. InLoop'
  <2>1. Last(taken')[2] = n
    BY <1>7 DEF Last
  <2> QED
    BY <1>2, <1>5, <1>7, <1>9, <1>10, <2>1 DEF InLoop, LastAdvance
<1> QED
  BY <1>1, <1>2, <1>7, <1>8, <1>11 DEF ParserInv, Understood

\* The pass that finds none comes after the last tuple, or finds STOP.
LEMMA NoTupleParserInv ==
  ASSUME ParserInv, NoTuple
  PROVE  ParserInv'
<1> DEFINE t == get_next_command_tuple(tail_ptr)
           k == Len(sent)
           n == Value(sent[k].n_insns)
<1>1. InLoop /\ taken \in Seq(Nat \X Nat) /\ TuplesInOrder
  BY DEF NoTuple, ParserInv
<1>2. /\ tail_ptr = -1 \/ t.pid \in {-1, 0}
      /\ ppc' = "done"
      /\ per_round_advance' = IF t.pid = -1 THEN -1
                              ELSE IF per_round_advance < 0 THEN DefaultAdvance
                              ELSE per_round_advance
      /\ UNCHANGED <<sent, nxt_cmd, taken>>
  BY DEF NoTuple
<1>3. DefaultAdvance \in Advances /\ DefaultAdvance \in Nat /\ Advances \subseteq Nat
  BY AdvancesAssumption
<1>4. CASE nxt_cmd = <<STOP>> /\ sent = <<>> /\ tail_ptr = 0
  <2>1. t.pid = -1
    BY <1>4, ReadsNone
  <2>2. per_round_advance' = -1
    BY <1>2, <2>1
  <2>3. Len(sent) = 0 /\ taken = <<>>
    BY <1>1, <1>4, EmptySeq DEF TuplesInOrder
  <2>4. Understood'
    BY <1>2, <1>4, <2>2, <2>3 DEF Understood
  <2> QED
    BY <1>1, <1>2, <1>4, <2>2, <2>3, <2>4, EmptySeq DEF ParserInv, TuplesInOrder
<1>5. CASE InText /\ AtTuple
  <2>1. /\ Len(taken) \in Nat /\ k \in Nat \ {0} /\ Len(taken) <= k
        /\ sent \in Seq(Tuples) /\ sent # <<>>
    BY <1>1, <1>5, LenProperties, EmptySeq DEF InText, TuplesInOrder
  <2>2. ASSUME Len(taken) < Len(sent), tail_ptr = Start(Len(taken) + 1) PROVE FALSE
    <3>1. Len(taken) + 1 \in 1..Len(sent)
      BY <2>1, <2>2
    <3>2. tail_ptr \in Nat
      BY <1>5, <2>2, <3>1, TupleInText
    <3>3. t.pid = Value(sent[Len(taken) + 1].pid)
      BY <1>5, <2>2, <3>1, ReadsTuple
    <3>4. sent[Len(taken) + 1] \in Tuples
      BY <2>1, <3>1, ElementOfSeq
    <3>5. t.pid \in Nat \ {0}
      BY <3>3, <3>4, TupleAsks
    <3> QED
      BY <1>2, <3>2, <3>5
  <2>3. /\ taken # <<>> /\ Len(taken) = k /\ tail_ptr \in Nat /\ Char(tail_ptr) \in 0..9
    BY <1>5, <2>2 DEF AtTuple
  <2>4. t.pid = 0
    BY <2>3, ReadsNone
  <2>5. k \in 1..Len(sent) /\ sent[k] \in Tuples
    BY <2>1, ElementOfSeq
  <2>6. per_round_advance = ToAdvance(n)
    <3>1. k \in DOMAIN taken
      BY <1>1, <2>1, <2>3, LenProperties
    <3>2. taken[k] = <<Value(sent[k].pid), n>>
      BY <1>1, <3>1 DEF TuplesInOrder
    <3>3. Last(taken)[2] = n
      BY <2>3, <3>2 DEF Last
    <3>4. sent # <<>>
      BY <2>1
    <3> QED
      BY <1>1, <2>3, <3>3, <3>4 DEF InLoop, LastAdvance
  <2>7. /\ n \in Nat /\ per_round_advance \in Int
        /\ per_round_advance >= 0 => per_round_advance \in Advances
        /\ n < IntLimit => per_round_advance = n \div Scale /\ per_round_advance >= 0
    BY <2>5, <2>6, TupleAsks
  <2> HIDE DEF t
  <2>8. /\ per_round_advance' \in Advances
        /\ n < IntLimit => per_round_advance' = n \div Scale
    BY <1>2, <1>3, <2>4, <2>7
  <2>9. nxt_cmd # <<STOP>>
    <3>1. 1 \in 1..Len(sent) /\ FirstTuples(sent)[0] = <<>>
      <4>1. FirstTuples(sent)[0] = <<>>
        BY <2>1, FirstTuplesAre, Zenon
      <4> QED
        BY <2>1, <4>1
    <3>2. nxt_cmd[Start(1) + 1] = BAR
      BY <1>5, <3>1, TupleInText
    <3>3. Start(1) = 0
      BY <3>1 DEF Start
    <3>4. nxt_cmd[1] = BAR /\ BAR # STOP
      BY <3>2, <3>3 DEF BAR, STOP
    <3> QED
      BY <3>4
  <2>10. Understood'
    <3>1. per_round_advance' \in Nat
      BY <1>3, <2>8
    <3>2. {Len(sent)} \ {0} = {k}
      BY <2>1
    <3>3. \A m \in {Value(x.n_insns) : x \in {sent[j] : j \in {k}}} : m = n
      OBVIOUS
    <3> HIDE DEF n, k
    <3>4. \A m \in {Value(x.n_insns) : x \in {sent[j] : j \in {Len(sent)} \ {0}}} :
            m < IntLimit => per_round_advance' = m \div Scale
      BY <2>8, <3>2, <3>3
    <3>5. (\A m \in {Value(x.n_insns) : x \in {sent[j] : j \in {Len(sent)} \ {0}}} :
             m < IntLimit => per_round_advance = m \div Scale)'
      BY <1>2, <3>4
    <3> QED
      BY <1>2, <2>1, <2>9, <3>1, <3>5 DEF Understood
  <2> QED
    BY <1>1, <1>2, <2>3, <2>8, <2>10 DEF ParserInv, TuplesInOrder
<1> QED
  BY <1>1, <1>4, <1>5 DEF InLoop

\* Other steps leave the parser alone.
LEMMA OthersParserInv ==
  ASSUME ParserInv, UNCHANGED parserVars
  PROVE  ParserInv'
<1>1. UNCHANGED <<ppc, sent, nxt_cmd, tail_ptr, new_cmd_pid, per_round_advance, taken>>
  BY DEF parserVars
<1>2. InLoop' = InLoop
  BY <1>1 DEF InLoop, InText, AtTuple, Start, Char, LastAdvance
<1>3. TuplesInOrder' = TuplesInOrder /\ Understood' = Understood
  BY <1>1 DEF TuplesInOrder, Understood
<1> QED
  BY <1>1, <1>2, <1>3 DEF ParserInv

\* The invariant of the loop holds in every reachable state.
THEOREM ParserInvariant == CommandSpec => []ParserInv
<1>1. CommandInit => ParserInv
  BY InitParserInv DEF CommandInit
<1>2. ParserInv /\ [CommandNext]_<<vars, parserVars>> => ParserInv'
  BY AroundParserInv, TakeParserInv, NoTupleParserInv, OthersParserInv
     DEF CommandNext, MainCommand
<1> QED
  BY <1>1, <1>2, PTL DEF CommandSpec

\* The tuples of a command are read in their order, each once, and none is left when
\* the loop ends, however many there are and whatever the numbers, though the loop
\* resumes at positions computed from three helpers (get_next_command_tuple).
THEOREM TuplesRead == CommandSpec => []TuplesInOrder
<1>1. ParserInv => TuplesInOrder
  BY DEF ParserInv
<1> QED
  BY <1>1, ParserInvariant, PTL

\* What TimeKeeper asks for is what ack_and_get_next_command returns: -1 exactly on
\* STOP, and otherwise the time of the last tuple if it fits an int.
THEOREM CommandsUnderstood == CommandSpec => []Understood
<1>1. ParserInv => Understood
  BY DEF ParserInv
<1> QED
  BY <1>1, ParserInvariant, PTL

\* The protocol with the text of its commands implements VTProtocol, where the call
\* returns -1 or any advance: what is proved of VTProtocol holds with the parser.
THEOREM ImplementsProtocol == CommandSpec => VTSpec
<1>1. CommandInit => VTInit
  BY DEF CommandInit
<1>2. ParserInv /\ [CommandNext]_<<vars, parserVars>> => [VTNext]_vars
  <2> SUFFICES ASSUME ParserInv, CommandNext PROVE [VTNext]_vars
    BY DEF vars
  <2>1. CASE GetTuples \/ GetStop \/ GetNothing \/ TakeTuple \/ NoTuple
    BY <2>1 DEF GetTuples, GetStop, GetNothing, Ack, TakeTuple, NoTuple
  <2>2. CASE Return
    <3>1. per_round_advance \in Advances \cup {-1}
      BY <2>2 DEF Return, ParserInv
    <3> QED
      BY <2>2, <3>1 DEF Return, VTNext, MainStep
  <2>3. CASE MainRest \/ ThreadStep \/ Wakeup \/ Fail
    BY <2>3 DEF MainRest, VTNext, MainStep
  <2> QED
    BY <2>1, <2>2, <2>3 DEF CommandNext, MainCommand
<1> QED
  BY <1>1, <1>2, ParserInvariant, PTL DEF CommandSpec, VTSpec

\* So the three programs keep time, whatever is in the text of the commands: their mains
\* never grant to a sleeping worker, the clock is exact, and no call follows the stop.
THEOREM CommandsKeepTime ==
  CommandSpec => /\ [](TypeOK /\ TurnInv /\ OneMessage)
                 /\ [](GrantFindsReader /\ ClockAccounted /\ NoCallAfterStop)
                 /\ ClockRefined
BY ImplementsProtocol, TypeCorrect, TurnsAlternate, Framing, GrantsFindReaders, ClockExact,
   StopIsFinal, ImplementsClock, PTL

=================================================================================
