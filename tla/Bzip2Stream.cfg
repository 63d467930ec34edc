CONSTANTS
  Symbols = {0, 2}
  MaxBlock = 6
  MaxFirst = 5
  MaxSecond = 1
  MaxSize = 8
  BZ_G_SIZE = 4
  MTFA_SIZE = 258
  Written <- SmallWritten
  Streams <- SmallStreams
  Limits <- SmallLimits
SPECIFICATION StreamSpec
INVARIANTS
  TypeOK
  StreamReadsAsWritten
  NothingIsMissing
  ResultFitsTheLimit
  CapRefusesExcess
  DamageBehindTheLimitIsIgnored
PROPERTIES
  CallReturns
