SPECIFICATION DriversFairSpec
CONSTANTS
    UnitSize = 2
    HeapUnits = 6
    Modulus = 32
    Requests = {0, 1, 3, 30}
    Keys = {1, 2}
    MaxEvents = 2
    LifeTime = 1
    StartTime = 1
    IntTime = 1
    Size = 4
    Bytes = {1, 2}
    NoByte = NoByte
    MaxLength = 3
    Writers = {w1, w2, w3}
    MAXBUFSIZE = 2
    NoWriter = NoWriter
    Posters = {p1}
    TryPosters = {p2, p3}
    Fetchers = {f1}
    TryFetchers = {f2}
    MBOX_QUEUE_COUNT = 2
    MaxPosts = 4
    Owners = {o1, o2, o3}
    Slots = {0, 1}
    Functions = {t1, t2}
    MaxThreads = 2
    NoSlot = NoSlot
    NoFunction = NoFunction
    Nobody = Nobody
    ETH_RXBUFNB = 2
    PBUF_POOL_SIZE = 3
    NoThread = NoThread
    SecondTicks = 3
    MaxSec = 3
    LastDay = 48000
INVARIANTS
    HeapInv
    SysEventInv
    WholeOrNothing
    UartInv
    NetPortInv
    DatetimeInv
PROPERTIES
    FailsOnlyWhenFull
    HeapCallsEnd
    RepeatsEnd
    IsAByteQueue
    BytesAreRead
    LostToAnother
    StoredArrive
    FramesGetThrough
