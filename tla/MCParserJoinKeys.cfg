\* JOIN with more keys than channels.
CONSTANTS
    UpperOf <- MCUpperOf
    ChannelPrefixes <- MCChannelPrefixes
    Inputs <- ExtraKeyLines
SPECIFICATION Spec
INVARIANTS NeverPanics
