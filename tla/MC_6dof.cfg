\* 6DoF mode with the buffering block enabled (the fusion loop of spec.md 4.4);
\* MaxPropagation < History, so retained samples can be too far apart to interpolate.
CONSTANTS
  MaxTime = 5
  History = 2
  MaxPropagation = 1
  Estimates = {0, 1, 4}
  Tol = 2
  MinNumBaseframe = 2
  RatioNum = 1
  RatioDen = 1
  RansacIterations = 2
  NumCams = 2
  ActiveCams = {0}
  MaxPixelError = 1
  MinStructure = 0
  MaxMeanErrorDiff = 1
  NumObs = 3
  LocResults <- MCLocResults
  Use6Dof = TRUE
  Use6DofInactive = FALSE
  BufferLocalizations = TRUE
SPECIFICATION Spec
INVARIANTS
  NoNotYetAvailableCheckFailure
PROPERTIES
  ImplementsAbstract
