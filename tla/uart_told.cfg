SPECIFICATION UartFairSpec
CONSTANTS
    Writers = {w1, w2}
    MAXBUFSIZE = 2
    NoWriter = NoWriter
PROPERTIES
    StoredBytesAreRead
