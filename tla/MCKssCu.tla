------------------------------ MODULE MCKssCu ------------------------------
EXTENDS KssCu, TLC
CONSTANTS t1, t2

\* a job for a GPU only, and a job for a CPU and a GPU
MCTypeAffinity ==
    [t \in Tasks |-> IF t = t1 THEN (0 :> 0 @@ 1 :> 3 @@ 2 :> 0)
                     ELSE (0 :> 1 @@ 1 :> 3 @@ 2 :> 0)]
CpuJobs == [t \in Tasks |-> (0 :> 3 @@ 1 :> 0 @@ 2 :> 0)]
GpuJobs == [t \in Tasks |-> (0 :> 0 @@ 1 :> 3 @@ 2 :> 0)]
MCGain == [t \in Tasks |-> 2]
OneCpu == {0}
TwoCpus == {0, 1}
OneGpu == <<[type |-> 1, slots |-> 1]>>
ThreeSlots == <<[type |-> 1, slots |-> 3]>>
NoUnits == <<>>
SecondGpu == {[type |-> 1, slots |-> 1]}
Once == [t \in Tasks |-> 1]
TwoThenOne == [t \in Tasks |-> IF t = t1 THEN 2 ELSE 1]
============================================================================
