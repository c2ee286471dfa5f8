SPECIFICATION Spec
CONSTANTS
    Users = {u1, u2}
    Tokens = {t1}
    Types = {urgent}
    URGENT_TYPES = {urgent}
    Hours <- NoonAndNight
    Edits <- PushOff
    InitialPreferences <- OneMuted
    Senders = {s1}
    Clients = {c1, c2}
    Workers = {w1}
    Attempts = 2
    Ops = {"register", "unregister", "markRead", "markAllRead"}
    RedisConfigured = TRUE
    MaxNotes = 1
    MaxDocs = 2
    MaxFaults = 1
INVARIANT TypeOK
INVARIANT PushedOnceEach
INVARIANT StatusIsTold
PROPERTY ReadIsKept
