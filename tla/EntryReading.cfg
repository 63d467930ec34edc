SPECIFICATION Spec
CONSTANTS
  Builds <- MCBuilds
  Codes <- MCCodes
  Strings <- MCStrings
INVARIANTS
  EntriesReadAsWritten
  BuildIsNotOverstated
  FlowFollowsTheLayout
  ViewsReadTheirSlots
