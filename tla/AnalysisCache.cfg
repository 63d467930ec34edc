CONSTANTS
  c1 = c1
  c2 = c2
  c3 = c3
  Nobody = Nobody
  Empty = Empty
  MaxAnalyses = 2
  Callers <- MCCallers
SPECIFICATION Spec
INVARIANTS
  TypeOK
  AnalysedOnce
PROPERTIES
  ImplementsMemo
  EveryCallReturns
