SPECIFICATION Spec
CONSTANT
  Files <- MCFiles
INVARIANTS
  HeaderIsFound
  FileReadsAsWritten
  DamageStaysInItsTable
