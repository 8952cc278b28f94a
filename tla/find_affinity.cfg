CONSTANTS
  Durations <- SmallDurations
  Sizes <- SmallSizes
  Loads <- SmallLoads
  Names <- SmallNames
  OSEnv <- SmallEnv
  CPULists <- SmallLists
  NoNumber = NoNumber
  MaxOptions = 1
  Word = 64
  Kilo = 4
  MaxCPUs = 3
  ShortIds = 2
  MaxTotal = 2
SPECIFICATION Spec
INVARIANT TraceeIsPinned
