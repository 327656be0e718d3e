\* A line with no verb: empty, blank, a lone colon, a leading space.
CONSTANTS
    UpperOf <- MCUpperOf
    ChannelPrefixes <- MCChannelPrefixes
    Inputs <- BlankLines
SPECIFICATION Spec
INVARIANTS NeverPanics
