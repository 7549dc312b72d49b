SPECIFICATION Spec
CONSTANTS
  NoText = NoText
  NoContext = NoContext
  NoPrevious = NoPrevious
  Fuzzy = Fuzzy
  OtherFlags = {CFormat}
  ShortComments = {}
  Source = File
  Context = NoContext
  Texts = {A, B}
  Lines <- MCLines
  OtherContexts = {menu}
  MaxFlags = 2
INVARIANTS TranslatedIsVouched ObsoleteStateIsObsolete ReloadKeepsStatus
