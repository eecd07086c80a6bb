CONSTANTS
    Key = {k1}
    Client = {c1, c2}
    DbTimer = DbTimer
    RedisTimer = RedisTimer
    DbType = "mongodb"
    Ops = {"query", "update", "sendUpdate", "logout", "stop"}
    RedisFaults = TRUE
    DbFaults = TRUE
    MaxVer = 1
SPECIFICATION FairSpec
PROPERTIES
    RequestsReturn
