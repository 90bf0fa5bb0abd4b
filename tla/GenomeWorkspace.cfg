SPECIFICATION WorkspaceFairSpec
CONSTANTS
  a = a
  b = b
  huge = huge
  first = g
  Content <- MCContent
  Digest <- MCDigest
  Sha <- MCSha
  Missing = Missing
  Proc = {p}
  Readers = {r}
  Files = {f1}
  Seeds = {s1}
  Sources <- MCSources
  Null = Null
  NoSeed = NoSeed
  Empty = Empty
  Torn = Torn
  MaxCommands = 1
  MaxEdits = 0
  MaxDamages = 0
  MaxCrashes = 0
  Agent = {g, h}
  Paths = {f}
  Oversize <- MCOversize
  NoFile = NoFile
  MaxBackups = 2
  MaxMishaps = 1
CONSTRAINT MCInputs
INVARIANTS
  SeedsSurvive
  AllOrNothing
  RestoreCovers
  SnapshotRestorable
PROPERTIES
  RefusedForCause
  RowsLeaveByReplace
  EverythingEnds
\* Every command allowed by the bounds has been run.
CHECK_DEADLOCK FALSE
