SPECIFICATION Spec
CONSTANTS
  NoText = NoText
  NoContext = NoContext
  NoPrevious = NoPrevious
  Fuzzy = Fuzzy
  OtherFlags = {}
  ShortComments = {}
  Open = Open
  Opens = Opens
  Quit = Quit
  Menu = Menu
  FromTM = FromTM
  Place1 = Place1
  Place2 = Place2
  Pots <- ContextPots
  Following <- MCFollowing
  Texts = {A, B}
  FuzzyMatching <- MCFuzzyMatching
  MergeOn <- MCMergeOn
  TM <- NoTM
  Similarity <- MCSimilarity
  MinSimilarity = 75
  ShortSources = {}
  ColonLocations = {}
PROPERTIES UnusedAreMadeObsolete
