SPECIFICATION PublishSpec
CONSTANTS
  a = a
  b = b
  c1 = c1
  Content <- MCContent
  Digest <- MCDigest
  Sha <- MCSha
  Missing = Missing
  Dirs = {n}
  NoDir = NoDir
  Popular = {2}
  Client = {p, q}
  Workers = 1
  SeedPaths = {s, t}
  Tables <- MCTwo
  Modes <- MCPin
  NoRoot = NoRoot
  NoSidecar = NoSidecar
  EmptySidecar = EmptySidecar
  TornSidecar = TornSidecar
  Retries = 1
  MaxPublishes = 2
  MaxMisfortunes = 0
INVARIANTS
  MfsTidy
PROPERTIES
  PublicationKept
