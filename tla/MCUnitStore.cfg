SPECIFICATION Spec
CONSTANTS
  u1 = u1
  u2 = u2
  u3 = u3
  u4 = u4
  File = File
  Quit = Quit
  Place1 = Place1
  Place2 = Place2
  Units = {u1, u2, u3, u4}
  NoUnit = NoUnit
  Attributes <- DistinctIds
  Texts = {A}
  NoTarget = NoTarget
  AddAfterLookup = FALSE
INVARIANTS IndexesAreExact
PROPERTIES LookupSpec RemoveRemoves
