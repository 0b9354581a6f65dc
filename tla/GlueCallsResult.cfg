SPECIFICATION Spec
CONSTANTS
  NULL = NULL
  Chain <- MCChain
  Names <- MCNames
  Values <- MCValues
  Arguments <- MCArguments
  Callbacks <- MCCallbacks
  Contents = {p, q}
  Answers <- MCAnswers
  SupportsAsync = TRUE
  Cells = {1, 2, 3, 4, 5}
  MaxGlues = 1
\* The bound on undefined releases is the only stop.
SYMMETRY Symmetric
INVARIANT CallbackResultArrives
CHECK_DEADLOCK FALSE
