SPECIFICATION ShellSpec
CONSTANTS
    a = a  b = b  c = c  idle = idle
    e1 = e1  x = x
    Idle = idle
    Dummy = Dummy
    NoTask = NoTask
    NumPriorities = 3
    EventSize <- MCOneEach
    EventCount <- MCTwoEach
    Args = {x}
    NoArg = NoArg
    Garbage = {0, 7}
    TimeModulus = 64
    Tasks = {a, b, idle}
    BasePriority <- MCTwoTasks
    Events = {e1}
    Mutexes = {m1}
    Timeouts = {1}
    TickMs = 3
    MaxTime = 3
    Letters = {1, 2}
    MAX_LINE_COLUMS = 3
    MAX_COM_HIS = 2
    MaxEntered = 1
    MAX_LOGBUF_SIZE = 6
    StampLength = 1
    MaxUnrecorded = 1
    MaxMeanwhile = 1
    u1 = u1  u2 = u2  u3 = u3
    Users = {u1, u2, u3}
    GSC_FS_MAX_FILE_NUM = 2
    GSC_FATFS_MAX_FILE_NUM = 2
    GSC_FATFS_MAX_DIR_NUM = 1
    NoUser = NoUser
SYMMETRY UserSymmetry
INVARIANTS
    OthersAreNotLost
    LineEditInv
    LogBufInv
    FileTableInv
