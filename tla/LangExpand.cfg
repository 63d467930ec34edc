CONSTANTS
  Index = {0, 1, 2, 3}
  Texts = {"text"}
  MaxLangDepth = 2
  MaxLangExpansions = 4
  Tables <- SmallTables
  Calls <- SmallCalls
SPECIFICATION Spec
INVARIANTS
  TypeOK
  NoStringInsideItself
  MeansWhatItSays
  ResultStillMeansTheString
  OutputIsBounded
