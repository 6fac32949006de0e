---------------------------------- MODULE ItemList ----------------------------------
(***************************************************************************)
(* What the calls of a linked list promise: it is a sequence of items,     *)
(* and a call has the effect and the result its name says.  An append      *)
(* fails, changing nothing, when there is no room.                         *)
(***************************************************************************)
EXTENDS Integers, Sequences, SequencesExt

CONSTANTS NULL, SUCCESS, OUT_OF_MEMORY_ERROR, ELEM_NOT_FOUND

VARIABLES
  items,   \* the items, in order
  ret,     \* what the last call returned
  room     \* memory for one more item

Put(x) ==
  /\ items' = IF room THEN Append(items, x) ELSE items
  /\ ret' = IF room THEN SUCCESS ELSE OUT_OF_MEMORY_ERROR

\* Positions count from 0; all beyond the end are alike.
TakeAt(i) ==
  /\ ret' = IF i + 1 \in DOMAIN items THEN items[i + 1] ELSE NULL
  /\ items' = IF i + 1 \in DOMAIN items THEN RemoveAt(items, i + 1) ELSE items

Delete(x) ==
  /\ ret' = IF x \in ToSet(items) THEN SUCCESS ELSE ELEM_NOT_FOUND
  /\ items' = RemoveFirst(items, x)

Rotate ==
  /\ items' = IF items = <<>> THEN <<>> ELSE Append(Tail(items), Head(items))
  /\ UNCHANGED ret

Clear == items' = <<>> /\ UNCHANGED ret

Idle == UNCHANGED <<items, ret>>

=================================================================================
