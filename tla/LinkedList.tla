--------------------------------- MODULE LinkedList ---------------------------------
(***************************************************************************)
(* The doubly linked lists of linkedlist.c: several lists whose cells are  *)
(* taken from one heap.  A call is one action.  The fields of a freed cell *)
(* hold the value Freed, which no definition can follow, so that a use     *)
(* after free stops the model checker.                                     *)
(***************************************************************************)
EXTENDS Integers, Sequences, FiniteSets

CONSTANTS
  Lists,
  Cells,    \* the heap: malloc fails when all are in use
  NULL, Freed

SUCCESS == 1
OUT_OF_MEMORY_ERROR == -1
ELEM_NOT_FOUND == -2

ASSUME HeapAssumption == IsFiniteSet(Cells) /\ NULL \notin Cells /\ Freed \notin Cells

VARIABLES
  head, tail, size,   \* of each list
  next, prev, item,   \* of each cell
  used                \* the cells malloc has given out and free not taken back

llistVars == <<head, tail, size, next, prev, item, used>>

llist_init ==
  /\ head = [l \in Lists |-> NULL]
  /\ tail = [l \in Lists |-> NULL]
  /\ size = [l \in Lists |-> 0]
  /\ next = [c \in Cells |-> Freed]
  /\ prev = [c \in Cells |-> Freed]
  /\ item = [c \in Cells |-> Freed]
  /\ used = {}

---------------------------------------------------------------------------------

\* The i-th cell from the head, or NULL: what a loop over next comes to.
Walk(l) ==
  LET w[i \in 0..Cardinality(Cells)] ==
        IF i = 0 THEN head[l]
        ELSE LET c == w[i - 1] IN IF c = NULL THEN NULL ELSE next[c]
  IN w

At(l, i) == IF i \in DOMAIN Walk(l) THEN Walk(l)[i] ELSE NULL

\* The positions from the head to the last cell.
Positions(l) == {i \in DOMAIN Walk(l) : Walk(l)[i] # NULL}

\* Whether the list has one of the items that l->equals finds equal to the one sought.
Found(l, equal) == \E i \in Positions(l) : item[At(l, i)] \in equal

\* The first position of one.
First(l, equal) ==
  CHOOSE i \in Positions(l) :
    item[At(l, i)] \in equal /\ \A j \in 0..i - 1 : item[At(l, j)] \notin equal

---------------------------------------------------------------------------------

CanAppend == used # Cells

\* Faulty: the new cell does not point back.
AppendNoPrev(l, x) ==
  \E c \in Cells \ used :
    /\ used' = used \cup {c}
    /\ item' = [item EXCEPT ![c] = x]
    /\ size' = [size EXCEPT ![l] = @ + 1]
    /\ tail' = [tail EXCEPT ![l] = c]
    /\ prev' = [prev EXCEPT ![c] = NULL]
    /\ IF head[l] = NULL
       THEN head' = [head EXCEPT ![l] = c] /\ next' = [next EXCEPT ![c] = NULL]
       ELSE next' = [next EXCEPT ![tail[l]] = c, ![c] = NULL] /\ UNCHANGED head

llist_append(l, x) ==
  \E c \in Cells \ used :
    /\ used' = used \cup {c}
    /\ item' = [item EXCEPT ![c] = x]
    /\ size' = [size EXCEPT ![l] = @ + 1]
    /\ tail' = [tail EXCEPT ![l] = c]
    /\ IF head[l] = NULL
       THEN /\ head' = [head EXCEPT ![l] = c]
            /\ next' = [next EXCEPT ![c] = NULL]
            /\ prev' = [prev EXCEPT ![c] = NULL]
       ELSE /\ next' = [next EXCEPT ![tail[l]] = c, ![c] = NULL]
            /\ prev' = [prev EXCEPT ![c] = tail[l]]
            /\ UNCHANGED head

\* Faulty: tail stays at the last cell but one.
RequeueNoTail(l) ==
  IF size[l] \in {0, 1} THEN UNCHANGED llistVars
  ELSE LET h == head[l]  t == tail[l]  n == next[h] IN
       /\ head' = [head EXCEPT ![l] = n]
       /\ next' = [next EXCEPT ![t] = h, ![h] = NULL]
       /\ prev' = [prev EXCEPT ![n] = NULL, ![h] = t]
       /\ UNCHANGED <<tail, size, item, used>>

llist_requeue(l) ==
  IF size[l] \in {0, 1} THEN UNCHANGED llistVars
  ELSE LET h == head[l]  t == tail[l]  n == next[h] IN
       /\ head' = [head EXCEPT ![l] = n]
       /\ tail' = [tail EXCEPT ![l] = h]
       /\ next' = [next EXCEPT ![t] = h, ![h] = NULL]
       /\ prev' = [prev EXCEPT ![n] = NULL, ![h] = t]
       /\ UNCHANGED <<size, item, used>>

free(c) ==
  /\ used' = used \ {c}
  /\ item' = [item EXCEPT ![c] = Freed]

\* Taking out the head, of a list of one and of a longer list.
TakeHead(l) ==
  LET h == head[l]  n == next[h] IN
  /\ free(h)
  /\ size' = [size EXCEPT ![l] = @ - 1]
  /\ IF size[l] = 1
     THEN /\ head' = [head EXCEPT ![l] = NULL]
          /\ tail' = [tail EXCEPT ![l] = NULL]
          /\ next' = [next EXCEPT ![h] = Freed]
          /\ prev' = [prev EXCEPT ![h] = Freed]
     ELSE /\ head' = [head EXCEPT ![l] = n]
          /\ next' = [next EXCEPT ![h] = Freed]
          /\ prev' = [prev EXCEPT ![n] = NULL, ![h] = Freed]
          /\ UNCHANGED tail

TakeTail(l) ==
  LET t == tail[l]  p == prev[t] IN
  /\ free(t)
  /\ size' = [size EXCEPT ![l] = @ - 1]
  /\ tail' = [tail EXCEPT ![l] = p]
  /\ next' = [next EXCEPT ![p] = NULL, ![t] = Freed]
  /\ prev' = [prev EXCEPT ![t] = Freed]
  /\ UNCHANGED head

TakeInner(l, c) ==
  /\ free(c)
  /\ size' = [size EXCEPT ![l] = @ - 1]
  /\ next' = [next EXCEPT ![prev[c]] = next[c], ![c] = Freed]
  /\ prev' = [prev EXCEPT ![next[c]] = prev[c], ![c] = Freed]
  /\ UNCHANGED <<head, tail>>

llist_remove_at(l, i) ==
  LET c == At(l, i) IN
  \/ c = NULL /\ UNCHANGED llistVars
  \/ c # NULL /\ c = head[l] /\ TakeHead(l)
  \/ c # NULL /\ c # head[l] /\ c = tail[l] /\ TakeTail(l)
  \/ c \notin {NULL, head[l], tail[l]} /\ TakeInner(l, c)

\* Faulty: the cell of a list of one is not freed.
PopLeaks(l) ==
  IF size[l] # 1 THEN IF size[l] = 0 THEN UNCHANGED llistVars ELSE TakeHead(l)
  ELSE /\ size' = [size EXCEPT ![l] = 0]
       /\ head' = [head EXCEPT ![l] = NULL]
       /\ tail' = [tail EXCEPT ![l] = NULL]
       /\ UNCHANGED <<next, prev, item, used>>

llist_pop(l) == IF size[l] = 0 THEN UNCHANGED llistVars ELSE TakeHead(l)

\* The lists of ls are freed, cell by cell from the head.
Destroy(ls) ==
  LET gone == {At(l, i) : l \in ls, i \in 0..Cardinality(Cells)} \ {NULL} IN
  /\ used' = used \ gone
  /\ head' = [l \in Lists |-> IF l \in ls THEN NULL ELSE head[l]]
  /\ tail' = [l \in Lists |-> IF l \in ls THEN NULL ELSE tail[l]]
  /\ size' = [l \in Lists |-> IF l \in ls THEN 0 ELSE size[l]]
  /\ next' = [c \in Cells |-> IF c \in gone THEN Freed ELSE next[c]]
  /\ prev' = [c \in Cells |-> IF c \in gone THEN Freed ELSE prev[c]]
  /\ item' = [c \in Cells |-> IF c \in gone THEN Freed ELSE item[c]]

llist_destroy(l) == Destroy({l})

---------------------------------------------------------------------------------

\* Each list read backwards from its tail is the list read forwards from its
\* head, and size is its length (the cases of llist_remove_at, linkedlist.c:124,
\* and llist_requeue, linkedlist.c:99, keep both directions and the size apart).
WellLinked ==
  \A l \in Lists :
    /\ Cardinality(Positions(l)) = size[l]
    /\ size[l] = 0 => head[l] = NULL /\ tail[l] = NULL
    /\ size[l] > 0 =>
         /\ At(l, size[l] - 1) = tail[l] /\ next[tail[l]] = NULL
         /\ prev[head[l]] = NULL
         /\ \A i \in 1..size[l] - 1 : prev[At(l, i)] = At(l, i - 1)

\* Every cell in use is in exactly one place of one list: none is lost, shared,
\* or linked after it was freed.
HeapExact ==
  /\ used = UNION {{At(l, i) : i \in Positions(l)} : l \in Lists}
  /\ \A l1, l2 \in Lists : \A i \in Positions(l1), j \in Positions(l2) :
       At(l1, i) = At(l2, j) => l1 = l2 /\ i = j

---------------------------------------------------------------------------------
(***************************************************************************)
(* Why they hold: the fields of the cells and of the lists hold sequences  *)
(* of cells, one for each list, and no cell has two places in them.        *)
(***************************************************************************)
FieldsOK ==
  /\ head \in [Lists -> Cells \cup {NULL}]
  /\ tail \in [Lists -> Cells \cup {NULL}]
  /\ size \in [Lists -> Nat]
  /\ next \in [Cells -> Cells \cup {NULL, Freed}]
  /\ prev \in [Cells -> Cells \cup {NULL, Freed}]
  /\ used \subseteq Cells

\* The fields link the cells of each list in the order of s.
Linked(s) ==
  \A l \in Lists :
    /\ size[l] = Len(s[l])
    /\ head[l] = IF s[l] = <<>> THEN NULL ELSE s[l][1]
    /\ tail[l] = IF s[l] = <<>> THEN NULL ELSE s[l][Len(s[l])]
    /\ \A k \in DOMAIN s[l] :
         /\ next[s[l][k]] = IF k = Len(s[l]) THEN NULL ELSE s[l][k + 1]
         /\ prev[s[l][k]] = IF k = 1 THEN NULL ELSE s[l][k - 1]

\* Every cell in use has one place in s.
OnePlace(s) ==
  /\ \A l, m \in Lists : \A i \in DOMAIN s[l], j \in DOMAIN s[m] :
       s[l][i] = s[m][j] => l = m /\ i = j
  /\ \A c \in Cells : c \in used <=> \E l \in Lists : \E i \in DOMAIN s[l] : s[l][i] = c

Represents(s) == s \in [Lists -> Seq(Cells)] /\ Linked(s) /\ OnePlace(s)

\* The cells of each list as a loop over next comes to them.
Chains == [l \in Lists |-> [k \in 1..size[l] |-> At(l, k - 1)]]

\* The invariant that every call preserves.
LinkInv == FieldsOK /\ Represents(Chains)

=================================================================================
