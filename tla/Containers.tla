--------------------------------- MODULE Containers ---------------------------------
(***************************************************************************)
(* The containers of the router on one heap: the routing list, used        *)
(* through the calls of linkedlist.c, and func_times_us, a hash map        *)
(* (hashmap.c) whose buckets are lists of elements.  An element is kept in *)
(* the cell that holds it, under the hash of a function's name.            *)
(*                                                                         *)
(* Both are used by one thread at a time: main fills them before it starts *)
(* the worker and empties them after it has joined it.                     *)
(***************************************************************************)
EXTENDS LinkedList, StringHash

CONSTANTS
  HSize,    \* the number of buckets
  Names,    \* the names used, as sequences of codes
  Values,
  Entries   \* routing entries, each a block of its own

ASSUME NamesAssumption == HSize \in Nat \ {0} /\ Names \subseteq Seq(1..127)

\* Every value is the address of a variable.
ASSUME ValuesAssumption == NULL \notin Values

\* The keys of the names, the argument of every call: computed once.
Key == [name \in Names |-> abs(str_hash(name))]

\* No two of the names have the same key, and none but the empty one the key 0.
KeysApart(names) ==
  LET key == [name \in names |-> abs(str_hash(name))] IN
  \A m, n \in names : (key[m] = key[n] => m = n) /\ (key[n] = 0 => n = <<>>)

routing_list == <<"routing_list">>
Bucket(key) == <<"bucket", key % HSize>>
Buckets == {<<"bucket", n>> : n \in 0..HSize - 1}

ASSUME ListsAssumption == Lists = {routing_list} \cup Buckets

VARIABLE ret   \* what the last call that changed the routing list returned

allVars == <<llistVars, ret>>

Init == llist_init /\ ret = NULL

---------------------------------------------------------------------------------

\* The calls on the routing list.

llist_get(i) == LET c == At(routing_list, i) IN IF c = NULL THEN NULL ELSE item[c]

\* ELEM_NOT_FOUND is no position.
llist_get_pos(x) ==
  IF Found(routing_list, {x}) THEN First(routing_list, {x}) ELSE ELEM_NOT_FOUND

AppendEntry(x) ==
  /\ llist_get_pos(x) = ELEM_NOT_FOUND
  /\ \/ llist_append(routing_list, x) /\ ret' = SUCCESS
     \/ ~CanAppend /\ ret' = OUT_OF_MEMORY_ERROR /\ UNCHANGED llistVars

RemoveAtIndex(i) ==
  /\ llist_remove_at(routing_list, i)
  /\ ret' = llist_get(i)

\* llist_remove, and llist_remove_free, its copy.
llist_remove(x) ==
  /\ llist_remove_at(routing_list, llist_get_pos(x))
  /\ ret' = IF llist_get_pos(x) = ELEM_NOT_FOUND THEN ELEM_NOT_FOUND ELSE SUCCESS

PopEntry ==
  /\ llist_pop(routing_list)
  /\ ret' = IF size[routing_list] = 0 THEN NULL ELSE item[head[routing_list]]

RequeueEntry == llist_requeue(routing_list) /\ UNCHANGED ret

\* llist_destroy; cleanup pops an entry before, and leaves the list no different.
DestroyList == llist_destroy(routing_list) /\ UNCHANGED ret

---------------------------------------------------------------------------------

\* The calls on the hash map.

\* The elements under a key.
Elements(key) == {[key_val |-> key, value |-> value] : value \in Values}

HasKey(key) == Found(Bucket(key), Elements(key))
CellOf(key) == At(Bucket(key), First(Bucket(key), Elements(key)))

Overwrite(c, e) ==
  /\ item' = [item EXCEPT ![c] = e]
  /\ UNCHANGED <<head, tail, size, next, prev, used>>

\* Faulty: the element is appended though the key is there.
PutAgain(key, value) ==
  /\ llist_append(Bucket(key), [key_val |-> key, value |-> value])
  /\ UNCHANGED ret

\* The result of llist_append is not looked at.  The element's own memory, taken before
\* the key is looked for, is never short (there the code would end the process).
hmap_put_abs(key, value) ==
  LET e == [key_val |-> key, value |-> value] IN
  /\ \/ HasKey(key) /\ Overwrite(CellOf(key), e)
     \/ ~HasKey(key) /\ llist_append(Bucket(key), e)
     \/ ~HasKey(key) /\ ~CanAppend /\ UNCHANGED llistVars
  /\ UNCHANGED ret

hmap_get_abs(key) == IF HasKey(key) THEN item[CellOf(key)].value ELSE NULL

\* The element stays, under key 0.
hmap_remove_abs(key) ==
  /\ IF HasKey(key) THEN Overwrite(CellOf(key), [item[CellOf(key)] EXCEPT !.key_val = 0])
     ELSE UNCHANGED llistVars
  /\ UNCHANGED ret

\* hmap_destroy, and hmap_init for the next use.
hmap_destroy == Destroy(Buckets) /\ UNCHANGED ret

---------------------------------------------------------------------------------

ListCall ==
  \/ \E x \in Entries : AppendEntry(x) \/ llist_remove(x)
  \/ \E i \in -1..Cardinality(Cells) : RemoveAtIndex(i)
  \/ PopEntry
  \/ RequeueEntry
  \/ DestroyList

MapCall ==
  \/ \E name \in Names, value \in Values : hmap_put_abs(Key[name], value)
  \/ \E name \in Names : hmap_remove_abs(Key[name])
  \/ hmap_destroy

Next == ListCall \/ MapCall

Spec == Init /\ [][Next]_allVars

---------------------------------------------------------------------------------

\* The items of the routing list, as llist_get finds them.
Items == [i \in 1..size[routing_list] |-> llist_get(i - 1)]

List == INSTANCE ItemList WITH items <- Items, room <- CanAppend

Lookup == [name \in Names |-> hmap_get_abs(Key[name])]
Map == INSTANCE KeyMap WITH
         map <- [name \in {n \in Names \ {<<>>} : Lookup[n] # NULL} |-> Lookup[name]],
         room <- CanAppend

\* Each call on the routing list does what a list should, though the cells of the
\* map change around it, and no call on the map disturbs it (linkedlist.c).
ListKept ==
  [][/\ \A x \in Entries : /\ AppendEntry(x) => List!Put(x)
                           /\ llist_remove(x) => List!Delete(x)
     /\ \A i \in -1..Cardinality(Cells) : RemoveAtIndex(i) => List!TakeAt(i)
     /\ PopEntry => List!TakeAt(0)
     /\ RequeueEntry => List!Rotate
     /\ DestroyList => List!Clear
     /\ List!Idle \/ ListCall]_allVars

\* The map finds under each name but the empty one, whose key is 0, what was last put
\* there: no two names share a key, though they share buckets and removed elements
\* stay in them (init_func_times, utils.c:844, and hmap_remove_abs, hashmap.c:203).
MapKept ==
  [][/\ \A name \in Names :
          /\ \A value \in Values : hmap_put_abs(Key[name], value) => Map!Put(name, value)
          /\ hmap_remove_abs(Key[name]) => Map!Drop(name)
     /\ hmap_destroy => Map!Clear
     /\ Map!Idle \/ MapCall]_allVars

=================================================================================
