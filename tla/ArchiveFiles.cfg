CONSTANTS
  Archives <- SmallArchives
  Budgets <- SmallBudgets
  OddOffsets <- SmallOffsets
SPECIFICATION Spec
INVARIANTS
  HeaderIsFound
  SoundArchivesOpen
  FilesAreIntact
  OnlyTheBudgetWithholds
  UninstallerIsRebuilt
