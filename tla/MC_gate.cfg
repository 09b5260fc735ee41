\* Structure mode with buffering: a result the consistency gate passes still ends rejected.
CONSTANTS
  MaxTime = 5
  History = 2
  MaxPropagation = 2
  Estimates = {0, 1, 4}
  Tol = 2
  MinNumBaseframe = 2
  RatioNum = 1
  RatioDen = 1
  RansacIterations = 2
  NumCams = 2
  ActiveCams = {0}
  MaxPixelError = 1
  MinStructure = 0
  MaxMeanErrorDiff = 1
  NumObs = 3
  LocResults <- MCLocResults
  Use6Dof = FALSE
  Use6DofInactive = FALSE
  BufferLocalizations = TRUE
SPECIFICATION Spec
INVARIANTS
  GatePassedNotRejected
