----------------------------------- MODULE KeyMap -----------------------------------
(***************************************************************************)
(* What the calls of a hash map promise of the names other than the empty  *)
(* one: it is a function from some of them to values.  A new name is       *)
(* dropped, and nothing said, when there is no room.  The key of the empty *)
(* name, 0, marks removed elements; a call with it leaves the others alone.*)
(***************************************************************************)
EXTENDS Functions

VARIABLES
  map,    \* what a lookup finds, for each such name that it finds
  room    \* memory for one more element

Put(k, v) ==
  map' = IF k # <<>> /\ (room \/ k \in DOMAIN map)
         THEN [n \in DOMAIN map \cup {k} |-> IF n = k THEN v ELSE map[n]]
         ELSE map

Drop(k) ==
  map' = Restrict(map, DOMAIN map \ {k})

Clear == map' = <<>>

Idle == UNCHANGED map

=================================================================================
