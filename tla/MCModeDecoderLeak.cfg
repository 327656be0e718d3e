\* A malformed sign returns early: is every goroutine still drained?
CONSTANTS
    MaxTokens = 2
    Inputs <- ValidInputs
SPECIFICATION Spec
PROPERTIES AllGoroutinesExit
CHECK_DEADLOCK FALSE
