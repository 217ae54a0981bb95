--------------------------- MODULE AcceleratorGrant ---------------------------
(***************************************************************************)
(* What the user-space scheduler promises about one accelerator: a job is  *)
(* given the accelerator, enters it once, leaves it, and only then is the  *)
(* accelerator given to the next job or left idle.  Nothing here says how  *)
(* the daemon's threads and the client libraries bring this about; module  *)
(* UssDispatch implements this specification.                              *)
(***************************************************************************)
CONSTANTS Handles,  \* the jobs
          Accels,   \* the accelerators (type, index)
          NoHandle  \* no job

VARIABLES holder,   \* holder[a]: the job that a is given to
          stage     \* stage[a]: what has become of the grant

vars == <<holder, stage>>

Stages == {"free", "granted", "inside", "left"}

TypeOK == /\ holder \in [Accels -> Handles \cup {NoHandle}]
          /\ stage \in [Accels -> Stages]

Init == /\ holder = [a \in Accels |-> NoHandle]
        /\ stage = [a \in Accels |-> "free"]

\* An accelerator nobody is inside of, and whose last grant is used up, is
\* given to job h.
Grant(a, h) ==
  /\ stage[a] \in {"free", "left"}
  /\ holder' = [holder EXCEPT ![a] = h]
  /\ stage' = [stage EXCEPT ![a] = "granted"]

\* The job the accelerator was given to starts to use it: once per grant.
Enter(a) ==
  /\ stage[a] = "granted"
  /\ stage' = [stage EXCEPT ![a] = "inside"]
  /\ UNCHANGED holder

Leave(a) ==
  /\ stage[a] = "inside"
  /\ stage' = [stage EXCEPT ![a] = "left"]
  /\ UNCHANGED holder

\* No job is waiting: the accelerator is idle after the last one left it.
Idle(a) ==
  /\ stage[a] = "left"
  /\ holder' = [holder EXCEPT ![a] = NoHandle]
  /\ stage' = [stage EXCEPT ![a] = "free"]

Next == \E a \in Accels : \/ \E h \in Handles : Grant(a, h)
                          \/ Enter(a)
                          \/ Leave(a)
                          \/ Idle(a)

Spec == Init /\ [][Next]_vars
===============================================================================
