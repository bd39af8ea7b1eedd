SPECIFICATION PlayerSpec
CONSTANTS
    Stations = {s1, s2}
    NoStation = NoStation
    MAX_IREVENT = 1
    MAX_IRS_EVENT = 2
    MAX_SOUNDEVENT = 1
    MaxFrames = 3
    CardContents <- MCCardContents
    INIT_ALBUM_MUSIC_NUM = 2
    MaxRadioCount = 2
    MaxFailures = 1
INVARIANTS
    SoundInv
