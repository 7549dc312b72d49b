SPECIFICATION Spec
CONSTANTS
  NoText = NoText
  NoContext = NoContext
  NoPrevious = NoPrevious
  Fuzzy = Fuzzy
  CFormat = CFormat
  OtherFlags = {CFormat}
  Blank = Blank
  ShortComments = {Blank}
  Open = Open
  Menu = Menu
  Tip = Tip
  A = A
  B = B
  C = C
  Spaces = Spaces
  Hint = Hint
  NoteUntranslated = NoteUntranslated
  NoteShort = NoteShort
  NoteDouble = NoteDouble
  NoteLong = NoteLong
  NoteFuzzy = NoteFuzzy
  NoteReview = NoteReview
  More = More
  Checkers <- MCCheckers
  Order <- MCOrder
  Fails <- MCFails
  Message <- MCMessage
  Marks <- MCMarks
  Correct <- MCCorrect
  SpaceTexts = {Spaces}
  Files <- MCFiles
  Options <- MCOptions
  Texts = {A, B}
  MaxEdits = 2
INVARIANTS SelectionOnlyHides FinishedIsVouched
PROPERTIES CorrectionsArrive RoundsSettle
