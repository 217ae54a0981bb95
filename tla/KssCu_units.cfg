SPECIFICATION FairSpec
CONSTANTS
    t1 = t1  t2 = t2
    Tasks = {t1, t2}
    NoTask = NoTask
    Cpus <- TwoCpus
    MaxId = 3
    UintMax = 7
    CU_HW_QUEUE_LIMIT = 2
    TypeAffinity <- MCTypeAffinity
    Gain <- MCGain
    Boot <- OneGpu
    Additions <- SecondGpu
    Slots = {1, 2}
    Work <- TwoThenOne
    Mortal = {t2}
    MaxCalls = 2
    Migrations = {"compute", "freeing", "dead"}
INVARIANTS TypeOK OnlyStraySlotsAreLost SlotsAreUsed OnlyForgottenSleepersAreLost
PROPERTIES NewHoldersFit SleepEnds DeletionHappens
CHECK_DEADLOCK FALSE
