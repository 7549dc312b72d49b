SPECIFICATION Spec
CONSTANTS
  NoText = NoText
  NoContext <- MCNoContext
  NoPrevious = NoPrevious
  Fuzzy = Fuzzy
  OtherFlags = {}
  ShortComments = {}
  Title = Title
  A = A
  B = B
  Context = Context
  Place1 = Place1
  Place2 = Place2
  Inputs <- MCInputs
INVARIANTS ResultIsUnique AgreedTranslationSurvives NothingIsLost
\* The method returns.
CHECK_DEADLOCK FALSE
