SPECIFICATION Spec
CHECK_DEADLOCK FALSE
CONSTANTS
    Clients = {c1, c2}
    Users = {u1, u2}
    Ttl = 1
    JwtTtl = 1
    MaxTime = 2
    MaxRecords = 3
    MaxFaults = 1
INVARIANT TypeOK
INVARIANT SessionIsOnRecord
PROPERTY ExpiredIsPurged
