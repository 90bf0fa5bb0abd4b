SPECIFICATION HybridFairSpec
CONSTANTS
  a = a
  b = b
  Content <- MCContent
  Digest <- MCDigest
  Sha <- MCSha
  Missing = Missing
  Dirs = {}
  NoDir = NoDir
  Other = Other
  Popular = {2}
  Client = {p}
  Workers = 2
  Recipes <- MCRecipes
  Null = Null
  BatchSize = 3
  Retries = 2
  MaxFetches = 2
  MaxKills = 1
INVARIANTS
  GatewayAsked
  OfflineAfter
PROPERTIES
  DeliveryKept
  CacheGenuine
  FetchEnds
