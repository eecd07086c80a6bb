CONSTANTS
    Thread = {t1, t2, t3, t4}
    None = None
    MaxNested = 2
SPECIFICATION FairSpec
INVARIANTS
    TypeOK
    MutualExclusion
    WakeAssert
PROPERTIES
    ImplementsSerialQueue
    WaiterServed
