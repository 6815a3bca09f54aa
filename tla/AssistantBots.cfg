SPECIFICATION ServerSpec
CONSTANTS
    MaxCalls = 2
    Users = {u1}
    Tools = {t1}
    Guarded = {t1}
    Clients = {}
    MaxTries = 2
    None = None
    j1 = j1
    j2 = j2
    j3 = j3
    Jobs = {j1, j2, j3}
    Chats = {h1}
    ChatOf <- OneChat
    BotUser = u1
    Workers = 2
    Threads = 1
INVARIANTS TypeOK AnsweredInContext
PROPERTIES ResultsAreKept EveryDeliveryEnds
CHECK_DEADLOCK FALSE
