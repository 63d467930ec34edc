SPECIFICATION Spec
CONSTANTS
  Builds <- MultiStringBuilds
  Codes <- MultiStringCodes
  Strings <- MCStrings
INVARIANT MultiStringsAreStrings
