SPECIFICATION SatSpec
CONSTANTS
  MaxInt = 12
  Sup = 200
  Kbs <- MCKbs
INVARIANTS
  NothingDangles
  AnswersInOrder
  AnswersAreTheModel
  CompleteTables
  AskedAsALastResort
  Saturated
PROPERTIES
  QueryEnds
