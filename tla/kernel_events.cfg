SPECIFICATION PushSpec
CONSTANTS
    a = a  b = b  c = c  idle = idle
    e1 = e1  x = x
    Idle = idle
    Dummy = Dummy
    NoTask = NoTask
    NumPriorities = 3
    EventSize <- MCOneEach
    EventCount <- MCTwoEach
    Args = {x}
    NoArg = NoArg
    Garbage = {0}
    TimeModulus = 64
    Tasks = {a, b, c, idle}
    BasePriority <- MCThreeTasks
    Events = {e1}
    Mutexes = {}
    Timeouts = {1}
    TickMs = 3
    MaxTime = 3
INVARIANTS
    LinkedOnce
    IdlesOnlyWithoutWork
    TimeoutsAgree
PROPERTIES
    SchedulesByPriority
