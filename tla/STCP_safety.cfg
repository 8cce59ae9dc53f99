SPECIFICATION Spec
CONSTANTS
    Active = active
    Passive = passive
    Window = 2
    MSS = 2
    SeqMod = 5
    WinMod = 8
    MaxWrite = 3
    Stray <- StrayFlags
INVARIANTS
    TypeOK
    IInv
    StreamIntegrity
    FlowControl
    WindowAccounting
    EofAfterAllData
    GracefulEnd
    OneFin
    InSync
CHECK_DEADLOCK FALSE
