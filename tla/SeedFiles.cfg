SPECIFICATION FilesSpec
CONSTANTS
  h = h
  m1 = m1
  m2 = m2
  m3 = m3
  x = x
  big = big
  p1 = p1
  p2 = p2
  Compression = {zlib}
  Oversize = {big}
  NoKey = NoKey
  Client = {c1, c2}
  WithCrypto = {c1}
  Path = {p1, p2}
  Hash = {h}
  Seeds <- MCSeeds
  Strange <- MCStrange
  Keys = {k1}
  Passphrases = {e1}
  NoSeed = NoSeed
  MaxCommands = 2
  MaxMishaps = 1
SYMMETRY MCSymmetry
INVARIANTS
  ReadBack
  SignedIsVouched
  VouchedWasWritten
  SealedStaysSealed
  CleanReadable
CHECK_DEADLOCK FALSE
