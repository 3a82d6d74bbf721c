SPECIFICATION Spec
CONSTANTS
    Drivers = {"integration", "host", "owner", "arena"}
    Entities = 3
    Ticks = 2
    MaxWorkers = 3
    TickCapacity = 8
    RecordSize = 3
    RecordAlign = 2
    MaxPumps = 2
    CpuCounts = {2, 3, 6}
    MaxCpuChanges = 1
    MaxPending = 3
    MaxJournals = 3
    MaxMerges = 2
    Counts = {2}
    Sizes = {0, 1, 3, 15, 13}
    MaxEntities = 3
    MaxWorldWorkers = 3
    MaxUpdates = 3
    MinValue = 0
    MaxValue = 4
    MaxCapacity = 16
    BaseAlignment = 4
    SizeMax = 15
    MaxSnapshots = 8
INVARIANTS
    WorldAtTick
    SpansDisjoint
PROPERTIES
    HeadroomKept
    MergeAllOrNothing
    ProgramEnds
CHECK_DEADLOCK FALSE
