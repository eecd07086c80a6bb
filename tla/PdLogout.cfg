CONSTANTS
    Key = {k1}
    Client = {c1}
    DbTimer = DbTimer
    RedisTimer = RedisTimer
    DbType = "mongodb"
    Ops = {"sendUpdate", "logout"}
    RedisFaults = FALSE
    DbFaults = FALSE
    MaxVer = 2
SPECIFICATION FairSpec
PROPERTY
    LogoutLands
