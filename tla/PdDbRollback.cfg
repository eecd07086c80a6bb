CONSTANTS
    Key = {k1}
    Client = {c1, c2}
    DbTimer = DbTimer
    RedisTimer = RedisTimer
    DbType = "mongodb"
    Ops = {"sendUpdate", "update"}
    RedisFaults = FALSE
    DbFaults = FALSE
    MaxVer = 2
SPECIFICATION FairSpec
PROPERTY
    DbMonotone
