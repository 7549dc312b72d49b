CONSTANTS
  Characters = {"a", "b", "e", "i", "t", "u", "y", " ", "-"}
  Matchers <- MCMatchers
  Units <- MCUnits
  Texts <- MCTexts
  MaxUnits = 4
  Whole = 300
  Length = 4
  Halves = 150
SPECIFICATION Spec
INVARIANTS
  BestAreFound
  ComparerIsExact
  TermsAreApart
  TermsInOrderAreFound
\* a matcher stops when nothing is left to remember
CHECK_DEADLOCK FALSE
