SPECIFICATION FilesFairSpec
CONSTANTS
    Capacity = 2
    Lengths = {1, 2, 3}
    Rounds = 2
    Nobody = Nobody
    FileNames = {a, b}
    Bits = {1}
    Handles = {h}
    BlockSize = 2
    FirstBlock = 1
    BlockCount = 2
    NoName = NoName
    Erased = Erased
    Garbled = Garbled
    Absent = Absent
    Unknown = Unknown
    MaxCommands = 3
    MaxSoundEvents = 2
    Width = 3
    Height = 3
    ByteBits = 2
    MaxSize = 3
    Rates = {1, 2}
INVARIANTS
    TransfersAreWhole
    PipeInv
    GsffsInv
    
    GraphicsInv
PROPERTIES
    CallsEnd
    SavedSectorsStay
