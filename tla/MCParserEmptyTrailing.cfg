\* A trailing parameter that is empty.
CONSTANTS
    UpperOf <- MCUpperOf
    ChannelPrefixes <- MCChannelPrefixes
    Inputs <- EmptyTrailLines
SPECIFICATION Spec
INVARIANTS ParsesAsSpecified
