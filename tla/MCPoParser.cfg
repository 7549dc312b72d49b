CONSTANTS
  A = A
  B = B
  W = W
  C = C
  K = K
  note = note
  null = null
  Null = null
  Garbled = garbled
  MaxLines = 3
  Rounds = 2
  Kde <- MCKde
  Wide <- MCWide
  Has <- MCHas
  Unmarked <- MCUnmarked
  Charsets <- MCCharsets
  Known <- MCKnown
  Files <- MCFiles
SPECIFICATION Spec
INVARIANTS WholeUnitsComeBack WhatIsWrittenIsReadBack
           WhatIsWrittenIsAccepted
PROPERTIES EveryUnitTakesALine
