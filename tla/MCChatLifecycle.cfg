CONSTANTS
    Chats = {c1}
    Tasks = {h1, h2, h3}
    TaskKinds = {"addweb", "delweb", "deleteChat", "createGroup", "openPrivate"}
    MaxRefresh = 2
SPECIFICATION FairSpec
CHECK_DEADLOCK FALSE
INVARIANTS
    TypeOK
    ListFollowsTheTable
PROPERTIES
    AddwebReachesTheTab
