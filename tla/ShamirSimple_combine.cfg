SPECIFICATION Spec
CONSTANTS
  Secrets = {83, 64}
  Coefficients = {1, 90}
  Undefined = undefined
INVARIANT Reconstructed
CHECK_DEADLOCK FALSE
