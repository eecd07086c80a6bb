CONSTANTS
    Key = {k1}
    Client = {c1, c2}
    DbTimer = DbTimer
    RedisTimer = RedisTimer
    DbType = "mongodb"
    Ops = {"sendUpdate", "logout"}
    RedisFaults = FALSE
    DbFaults = FALSE
    MaxVer = 2
SPECIFICATION Spec
INVARIANT
    SerialPerKey
