SPECIFICATION TransportSpec
SYMMETRY MCSymmetry
CONSTANTS
  plain = plain
  sealed = sealed
  big = big
  torn = torn
  p = p
  q = q
  Content <- MCContent
  Digest = {1, 2, 3, 4}
  Sha <- MCSha
  Missing = Missing
  Client = {p, q}
  Path = {f}
  NoFile = NoFile
  Popular = {1}
  NoCid = NoCid
  Torn = torn
  Seeds = {plain, sealed, big}
  Sealed = {sealed}
  Large = {big}
  Retries = 2
  PinRetries = 2
  MaxCommands = 2
  MaxKills = 1
  MaxUnpins = 1
INVARIANTS
  FetchedIs
  FetchExhausted
  PinsHeld
  HealthHonest
PROPERTIES
  OverwrittenByBytes
