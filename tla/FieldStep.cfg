SPECIFICATION Spec
CONSTANTS
  WorldSize = 1
  Domains <- SmallDomains
  NumDivERound = 2
  NumDivBRound = 2
  MaxLength = 3
  MaxStep = 2
INVARIANTS
  FieldsInStep
  ErrorsInStep
  InterpolatorCurrent
