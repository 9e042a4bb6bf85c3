CONSTANTS
    Chats = {c1}
    Tasks = {h1, h2}
    TaskKinds = {"addweb"}
    MaxRefresh = 0
SPECIFICATION Spec
CHECK_DEADLOCK FALSE
INVARIANTS
    NoDuplicateRow
