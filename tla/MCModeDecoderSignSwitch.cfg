\* One well-formed flag token: does a sign inside it switch the sign?
CONSTANTS
    MaxTokens = 1
    Inputs <- ValidInputs
SPECIFICATION Spec
INVARIANTS ChangesFollowSpec
CHECK_DEADLOCK FALSE
