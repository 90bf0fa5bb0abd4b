SPECIFICATION CodecSpec
CONSTANTS
  a = a
  b = b
  Content <- MCContent
  Digest <- MCDigest
  Sha <- MCSha
  Missing = Missing
  Proc = {p, q}
  Readers = {r}
  Files = {f1}
  Seeds = {s1}
  Sources <- MCSources
  Null = Null
  NoSeed = NoSeed
  Empty = Empty
  Torn = Torn
  MaxCommands = 3
  MaxEdits = 1
  MaxDamages = 1
  MaxCrashes = 1
CONSTRAINT MCMisfortune
SYMMETRY MCProcs
INVARIANTS
  TornOnlyByWriters
  SeedsCovered
  PrefixGenuine
  StrictGate
  QuickGate
  RoundTrip
\* Every command allowed by the bounds has been run.
CHECK_DEADLOCK FALSE
