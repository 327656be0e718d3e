\* Every verb with parameters that reach its rules.
CONSTANTS
    UpperOf <- MCUpperOf
    ChannelPrefixes <- MCChannelPrefixes
    Inputs <- GoodLines
SPECIFICATION Spec
INVARIANTS TypeOK ParsesAsSpecified
