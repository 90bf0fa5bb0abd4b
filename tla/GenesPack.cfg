SPECIFICATION GenesSpec
CONSTANTS
  a = a
  b = b
  Content <- MCContent
  Digest <- MCDigest
  Sha <- MCSha
  Missing = Missing
  SizeOf <- MCSizeOf
  Tables <- MCTables
  MaxImports = 2
  MaxExports = 2
  MaxMishaps = 2
INVARIANTS
  Transported
PROPERTIES
  ImportGenuine
\* Every command allowed by the bounds has been run.
CHECK_DEADLOCK FALSE
