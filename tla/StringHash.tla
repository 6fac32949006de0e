--------------------------------- MODULE StringHash ---------------------------------
(***************************************************************************)
(* str_hash of hashmap.c, by which a cost is found under the name of its   *)
(* function.  The sums and shifts of the C int wrap at 32 bits, and >>     *)
(* keeps the sign.  A word is its two halves, as TLC's integers have no    *)
(* 32 bits of their own to spare.  A name is the sequence of its codes.    *)
(***************************************************************************)
EXTENDS Integers, SequencesExt

Half == 2 ^ 16
Int32(n) == [hi |-> n \div Half, lo |-> n % Half]

Plus(a, b) ==
  LET lo == a.lo + b.lo IN [hi |-> (a.hi + b.hi + lo \div Half) % Half, lo |-> lo % Half]

ShiftLeft(a, k) ==
  [hi |-> (a.hi * 2 ^ k + a.lo \div 2 ^ (16 - k)) % Half, lo |-> (a.lo * 2 ^ k) % Half]

Negative(a) == a.hi >= Half \div 2

ShiftRight(a, k) ==
  [hi |-> a.hi \div 2 ^ k + (IF Negative(a) THEN Half - 2 ^ (16 - k) ELSE 0),
   lo |-> a.lo \div 2 ^ k + (a.hi % 2 ^ k) * 2 ^ (16 - k)]

Xor(a, b) ==
  LET xor(m, n) == MapThenSumSet(LAMBDA i : ((m \div 2 ^ i + n \div 2 ^ i) % 2) * 2 ^ i, 0..15)
  IN [hi |-> xor(a.hi, b.hi), lo |-> xor(a.lo, b.lo)]

\* hash += (hash << k) and hash ^= (hash >> k)
Spread(a, k) == Plus(a, ShiftLeft(a, k))
Fold(a, k) == Xor(a, ShiftRight(a, k))

str_hash(s) ==
  LET hash == FoldLeft(LAMBDA h, c : Fold(Spread(Plus(h, Int32(c)), 10), 6), Int32(0), s)
  IN Spread(Fold(Spread(hash, 3), 11), 15)

\* abs, of a word other than -2^31.
abs(a) ==
  LET m == [hi |-> Half - 1 - a.hi, lo |-> Half - 1 - a.lo]
      n == IF Negative(a) THEN Plus(m, Int32(1)) ELSE a
  IN n.hi * Half + n.lo

=================================================================================
