SPECIFICATION CodecSpec
CONSTANTS
  a = a
  b = b
  Content <- MCContent
  Digest <- MCDigest
  Sha <- MCSha
  Missing = Missing
  Proc = {p}
  Readers = {}
  Files = {f1}
  Seeds = {s1}
  Sources <- MCSources
  Null = Null
  NoSeed = NoSeed
  Empty = Empty
  Torn = Torn
  MaxCommands = 2
  MaxEdits = 0
  MaxDamages = 0
  MaxCrashes = 0
INVARIANTS
  PortableSelfContained
\* Every command allowed by the bounds has been run.
CHECK_DEADLOCK FALSE
