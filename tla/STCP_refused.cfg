SPECIFICATION Spec
CONSTANTS
    Active = active
    Passive = passive
    Window = 2
    MSS = 2
    SeqMod = 5
    WinMod = 8
    MaxWrite = 1
    Stray <- StrayFlags
INVARIANTS
    RefusalReported
CHECK_DEADLOCK FALSE
