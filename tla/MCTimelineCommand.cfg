CONSTANTS
    Chats = {a, b}
    None = None
    Slots = {s1, s2}
    MaxPosts = 2
    MaxNow = 0
    MaxMoves = 3
SPECIFICATION Spec
CHECK_DEADLOCK FALSE
INVARIANTS
    CommandNeverShown
