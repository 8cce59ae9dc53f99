SPECIFICATION Spec
CONSTANTS
    LISTSIZE = 6
    CHUNKSIZE = 64
    MAX_HEAP = 176
    NumIds = 4
    MaxOps = 6
    Sizes <- MCSizes
    BYTE = 8
    REGISTERS = {0, 1, 2, 3}
    LINK = 3
    MEM_TEXT_START = 32
    MEM_TEXT_SIZE = 32
    MEM_DATA_START = 8
    MEM_DATA_SIZE = 8
    MAX_INSTRUCTION_NUM = 8
    Programs <- MCProgs
    Memories <- MCMemories
    Sources <- MCSources
    num_set = 2
    num_way = 2
    block_size = 2
    Addresses <- MCAddresses
    MaxAccesses = 5
    HASHSIZE = 1
    LINE = 5
    NEWLINE = 10
    Inputs <- MCInputs
    Arguments <- MCArguments
    Arrays <- MCArrays
    SMALL = 4
    ROUNDS = 2
    Expressions <- MCExpressions
    Clients = {c1, c2}
    Scripts <- MCScripts
    HEADER_SIZE = 2
    CHUNK = 2
    MAX_SIZE = 3
INVARIANTS
    HeapSound
    DataIntact
    OnlyWhenFull
    LockStep
    HaltsTogether
    AssembledAsWritten
    PolicyKept
    WritesSaved
    TopWords
    PartsInOrder
    Agrees
    Echoed
CHECK_DEADLOCK FALSE
