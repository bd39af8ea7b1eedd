SPECIFICATION SysEventSpec
CONSTANTS
    Keys = {1, 2}
    MaxEvents = 2
    LifeTime = 1
    StartTime = 1
    IntTime = 1
PROPERTIES
    PressesAreReportedOnce
