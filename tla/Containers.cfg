CONSTANTS
  Lists <- MCLists
  Cells = {c1, c2, c3, c4}
  NULL = NULL
  Freed = Freed
  HSize = 2
  Names <- MCNames
  Values = {v1, v2}
  Entries = {r1, r2, r3}
SPECIFICATION Spec
INVARIANTS WellLinked HeapExact
PROPERTIES ListKept MapKept
SYMMETRY MCSymmetry
