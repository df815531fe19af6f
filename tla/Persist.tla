------------------------------ MODULE Persist ------------------------------
(***************************************************************************)
(* What the checkpoint service promises to a run: a process that restarts  *)
(* from a checkpoint finds the objects, their contents and the pointers    *)
(* between them as they were when that checkpoint was closed.              *)
(***************************************************************************)
CONSTANTS
  Name,    \* the names of the checkpoint files
  Fresh,   \* the objects of a run that starts from scratch
  Nothing  \* no process, or one that is restoring; no complete checkpoint

VARIABLES
  world,   \* the objects of the process and how they point to each other
  saved    \* saved[n]: the world that file n holds

Init == world = Nothing /\ saved = [n \in Name |-> Nothing]

Start == world = Nothing /\ world' = Fresh /\ UNCHANGED saved

Change == world # Nothing /\ world' # Nothing /\ UNCHANGED saved

Open(n) ==
  /\ world # Nothing
  /\ saved' = [saved EXCEPT ![n] = Nothing]
  /\ UNCHANGED world

Close(n) ==
  /\ world # Nothing
  /\ saved' = [saved EXCEPT ![n] = world]
  /\ UNCHANGED world

End == world' = Nothing /\ UNCHANGED saved

Restart(n) ==
  /\ world = Nothing /\ saved[n] # Nothing
  /\ world' = saved[n]
  /\ UNCHANGED saved

Next ==
  \/ Start \/ Change \/ End
  \/ \E n \in Name : Open(n) \/ Close(n) \/ Restart(n)

Spec == Init /\ [][Next]_<<world, saved>>
=============================================================================
