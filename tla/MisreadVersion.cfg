SPECIFICATION ReadSpec
CONSTANT
  Files <- LargeFiles
INVARIANT
  VersionIsOfTheStrings
