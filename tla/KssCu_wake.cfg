\* The slots of a unit are lowered below its count, and raised again to less than
\* its count, while a fourth thread waits.
SPECIFICATION Spec
CONSTANTS
    t1 = t1  t2 = t2
    Tasks = {t1, t2, t3, t4}
    NoTask = NoTask
    Cpus <- OneCpu
    MaxId = 1
    UintMax = 7
    CU_HW_QUEUE_LIMIT = 2
    TypeAffinity <- GpuJobs
    Gain <- MCGain
    Boot <- ThreeSlots
    Additions = {}
    Slots = {1, 2}
    Work <- Once
    Mortal = {}
    MaxCalls = 2
    Migrations = {}
INVARIANT SleepersAreFound
CHECK_DEADLOCK FALSE
