SPECIFICATION ReadSpec
CONSTANT
  Files <- MCFiles
INVARIANTS
  StringsReadAsWritten
  PathsStayBelow
