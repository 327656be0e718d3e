\* The decoder over well-formed UTF-8 flag tokens.
CONSTANTS
    MaxTokens = 2
    Inputs <- ValidInputs
SPECIFICATION Spec
INVARIANTS TypeOK LeaksOnlyFailedToken
PROPERTIES ImplementsUserMode
\* The decoder returns and stops; a leaked goroutine stays blocked forever.
CHECK_DEADLOCK FALSE
