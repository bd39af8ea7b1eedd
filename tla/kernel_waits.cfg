SPECIFICATION FairSpec
CONSTANTS
    a = a  b = b  c = c  idle = idle
    e1 = e1  x = x
    Idle = idle
    Dummy = Dummy
    NoTask = NoTask
    NumPriorities = 3
    EventSize <- MCOneEach
    EventCount <- MCTwoEach
    Args = {x}
    NoArg = NoArg
    Garbage = {0}
    TimeModulus = 64
    Tasks = {a, b, c, idle}
    BasePriority <- MCThreeTasks
    Events = {e1}
    Mutexes = {m1}
    Timeouts = {1, 2}
    TickMs = 2
    MaxTime = 4
INVARIANTS
    StatusNamesTheQueue
    WaitersWaitForTheHolder
    KernelInv
    RunningTaskHeadsItsQueue
    NoWaiterMissesAnEvent
    TimeoutsInOrder
PROPERTIES
    HandedOverInOrder
    TimedWaitsEnd
    NeverResumedEarly
    ToldOfTheEvent
