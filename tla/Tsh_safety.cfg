SPECIFICATION Spec
CONSTANTS
    PIDs <- TwoPids
    MAXJOBS = 2
    MaxJid = 3
    Keys <- BothKeys
INVARIANTS
    TypeOK
    EntryHasChild
    ChildHasEntry
    AtMostOneFG
    NoLostNotification
    KeysSpareBackground
PROPERTIES
    Transitions
