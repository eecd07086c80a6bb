CONSTANTS
    Key = {k1, k2}
    Client = {c1, c2}
    DbTimer = DbTimer
    RedisTimer = RedisTimer
    DbType = "mongodb"
    Ops = {"sendUpdate"}
    RedisFaults = FALSE
    DbFaults = FALSE
    MaxVer = 4
SPECIFICATION FairSpec
CHECK_DEADLOCK FALSE
INVARIANTS
    NoLostUpdate
PROPERTIES
    DbMonotone
    RedisMonotone
    DbConverges
