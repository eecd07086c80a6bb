CONSTANTS
    Key = {k1}
    Client = {c1}
    DbTimer = DbTimer
    RedisTimer = RedisTimer
    DbType = "mongodb"
    Ops = {"sendUpdate", "stop"}
    RedisFaults = FALSE
    DbFaults = FALSE
    MaxVer = 2
SPECIFICATION Spec
INVARIANT
    StopDrained
