\* Two connections, a reply channel of one slot, hooks of one or two
\* replies.
CONSTANTS
    Clients = {c1, c2}
    Cap = 1
    MaxReplies = 2
    MaxTotal = 3
SPECIFICATION Spec
INVARIANTS TypeOK
PROPERTIES RepliesFollowSink HooksReturn
\* A connection that has had MaxTotal replies takes no more commands: the
\* bound, not the code, ends the behaviour there.
CHECK_DEADLOCK FALSE
