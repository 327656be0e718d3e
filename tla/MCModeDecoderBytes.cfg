\* Flag tokens carrying any bytes, invalid UTF-8 included.
CONSTANTS
    MaxTokens = 2
    Inputs <- AnyInputs
SPECIFICATION Spec
INVARIANTS NeverPanics
CHECK_DEADLOCK FALSE
