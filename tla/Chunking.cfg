SPECIFICATION ChunkingSpec
CONSTANTS
  Stream = {s, t}
  Byte = {0, 1}
  Width = 4
  BuzTable <- MCBuzTable
  Configs <- MCConfigs
  MaxOwn = 3
  MaxShared = 7
INVARIANTS
  Rolling
  SizesBounded
  ShiftResilient
\* A behaviour ends with its streams.
CHECK_DEADLOCK FALSE
