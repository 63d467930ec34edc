CONSTANTS
  MaxEntries = 5
  Paths <- AllPaths
  Names <- SmallNames
  Instructions <- SmallInstructions
SPECIFICATION Spec
INVARIANTS
  FollowsTheRun
  FilesGoWhereTheyAreWritten
