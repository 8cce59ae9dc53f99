SPECIFICATION Spec
CONSTANTS
    Active = active
    Passive = passive
    Window = 1
    MSS = 2
    SeqMod = 5
    WinMod = 8
    MaxWrite = 2
    Stray <- NoStray
PROPERTIES
    ImplementsByteStream
    EventualDelivery
    EventualReturn
