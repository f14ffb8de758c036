CONSTANTS
  Yamls <- MCYamls
  Files <- MCFiles
  Dsets <- MCDsets
  Written <- MCWritten
  Garbage = {1, 7}
  IoFreq <- MCIoFreq
  MaxInstances = 4
  Sentinel = 999
SPECIFICATION Spec
INVARIANT TypeOK
INVARIANT LinkedByMeaning
INVARIANT LinksMatchPorts
INVARIANT OnlyRealErrors
INVARIANT Balanced
INVARIANT EndsApart
INVARIANT ModesAgree
INVARIANT DefaultNumbers
INVARIANT FrequencyMeant
CHECK_DEADLOCK FALSE
