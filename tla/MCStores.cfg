CONSTANTS
  Files <- AllFiles
  Additions <- AllAdditions
  Texts = {"n"}
  MaxEdits = 3
  Dialects <- AllDialects
  Locales <- AllLocales
  NoLocale = "none"
  NewTexts <- AllTexts
  MaxEntries = 6
SPECIFICATION StoresSpec
INVARIANTS
  SavedIsRead
PROPERTIES
  ConflictsStayLocal
  RemovalTakesOneLeaf
  FormsComeBack
  UntouchedFormsStay
\* a file that cannot be read stays closed
CHECK_DEADLOCK FALSE
