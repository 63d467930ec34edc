SPECIFICATION Spec
CONSTANTS
  Builds <- LegacyBuilds
  Codes <- LegacyCodes
  Strings <- MCStrings
INVARIANT FlowFollowsTheLayout
