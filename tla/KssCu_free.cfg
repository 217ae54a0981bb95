SPECIFICATION Spec
CONSTANTS
    t1 = t1  t2 = t2
    Tasks = {t1, t2}
    NoTask = NoTask
    Cpus <- TwoCpus
    MaxId = 2
    UintMax = 7
    CU_HW_QUEUE_LIMIT = 2
    TypeAffinity <- CpuJobs
    Gain <- MCGain
    Boot <- NoUnits
    Additions = {}
    Slots = {1, 2}
    Work <- TwoThenOne
    Mortal = {}
    MaxCalls = 0
    Migrations = {"compute", "freeing"}
INVARIANTS SlotsAreHeld
CHECK_DEADLOCK FALSE
