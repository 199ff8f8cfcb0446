CONSTANTS
  MaxOpens = 2
  MaxInputs = 2
  MaxPolls = 1
SPECIFICATION FairSpec
INVARIANTS
  TypeOK
  ClosedMeansUnavailable
  ChangeIsIndicated
  PowerOnSetUp
PROPERTY ReopensAfterClose
