CONSTANTS
  Inputs <- Texts
  Parsers <- PlaceableParsers
  Inserted <- TypedText
  MaxEdits = 3
SPECIFICATION Spec
INVARIANTS
  ParseFindsPlaceables
  EditsKeepOffsets
  DeleteRemovesTheRange
  InsertAddsTheText
  UndoRestores
\* The edits are bounded.
CHECK_DEADLOCK FALSE
