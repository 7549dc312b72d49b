SPECIFICATION Spec
CONSTANTS
  List1 = List1
  List2 = List2
  Po1 = Po1
  Old2 = Old2
  New2 = New2
  Good = Good
  Better = Better
  Hollow = Hollow
  Bad = Bad
  Old = Old
  Made = Made
  MadeBetter = MadeBetter
  NoPath = NoPath
  Missing = Missing
  Incomplete = Incomplete
  NoResult = NoResult
  Raises = Raises
  Inputs <- MCInputs
  OutputOf <- MCOutputOf
  TemplateOf <- MCTemplateOf
  Edits <- MCEdits
  Convert <- MCConvert
INVARIANTS TypeOK InputsAreDelivered
PROPERTIES SourcesAreNotEmptied CommandsEnd
