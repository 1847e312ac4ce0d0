SPECIFICATION FairSpec
CONSTANTS
    Chunk = 4
    Overlap = 1
    TailSeconds = 2
    MinTail = 2
    Retries = 2
    Unknown = Unknown
    User <- People
    Conv <- Chats
    Owner <- TheUser
    Dept = {d1}
    Date = {t1}
    Name = {f1}
    Recording <- Recordings
    Nothing = Nothing
    MaxSent = 3
    MaxFaults = 1
    MaxRestarts = 1
    MaxStarts = 2
INVARIANTS
    NothingDropped
    TranscriptIsItsOwn
PROPERTIES
    Promises
    LastWordComes
CHECK_DEADLOCK FALSE
