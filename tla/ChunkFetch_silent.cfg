SPECIFICATION FetchSpec
CONSTANTS
  a = a
  b = b
  c1 = c1
  Content <- MCContent
  Digest <- MCDigest
  Sha <- MCSha
  Missing = Missing
  Dirs = {}
  NoDir = NoDir
  Popular = {}
  Client = {p}
  Workers = 2
  Recipes <- MCRecipes
  Null = Null
  BatchSize = 2
  Retries = 2
  MaxFetches = 1
  MaxKills = 0
INVARIANTS
  FallsBack
