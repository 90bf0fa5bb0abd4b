SPECIFICATION PublishFairSpec
CONSTANTS
  a = a
  b = b
  c1 = c1
  Content <- MCContent
  Digest <- MCDigest
  Sha <- MCSha
  Missing = Missing
  Dirs = {n}
  NoDir = NoDir
  Popular = {2}
  Client = {p}
  Workers = 2
  SeedPaths = {s}
  Tables <- MCOne
  Modes <- MCAllOrNone
  NoRoot = NoRoot
  NoSidecar = NoSidecar
  EmptySidecar = EmptySidecar
  TornSidecar = TornSidecar
  Retries = 2
  MaxPublishes = 1
  MaxMisfortunes = 1
INVARIANTS
  PinnedStays
  NothingStartsAfterCancel
  AllOrRaise
PROPERTIES
  PublicationKept
  PublishEnds
