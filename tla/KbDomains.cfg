SPECIFICATION SatSpec
CONSTANTS
  MaxInt = 12
  Sup = 200
  Kbs <- MCDomains
INVARIANTS
  CompleteTables
