SPECIFICATION GsffsSpec
CONSTANTS
    FileNames = {a, b}
    Bits = {1}
    Handles = {h}
    BlockSize = 2
    FirstBlock = 1
    BlockCount = 2
    NoName = NoName
    Erased = Erased
    Garbled = Garbled
    Absent = Absent
    Unknown = Unknown
INVARIANTS
    SavedFilesAreIntact
