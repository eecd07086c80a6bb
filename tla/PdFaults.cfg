CONSTANTS
    Key = {k1}
    Client = {c1, c2}
    DbTimer = DbTimer
    RedisTimer = RedisTimer
    DbType = "mysql"
    Ops = {"query", "update", "sendUpdate", "delete", "sendDelete"}
    RedisFaults = TRUE
    DbFaults = TRUE
    MaxVer = 2
SPECIFICATION Spec
INVARIANTS
    TypeOK
    CacheCoherent
