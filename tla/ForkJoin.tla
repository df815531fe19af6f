----------------------------- MODULE ForkJoin -----------------------------
(***************************************************************************)
(* What a pipeline dispatcher promises to EXEC_PIPELINES / WAIT_PIPELINES: *)
(* between dispatch and wait every job runs exactly once, in any order;    *)
(* wait returns only when all of them have run, and no job runs before the *)
(* dispatch or after the wait.  The serial dispatcher and the threaded one *)
(* are meant to be interchangeable because of this.                        *)
(***************************************************************************)
CONSTANT Job

VARIABLES
  busy,   \* dispatch was called and wait has not returned
  runs    \* runs[j]: how often job j ran since the dispatch

Init == busy = FALSE /\ runs = [j \in Job |-> 0]

Dispatch == ~busy /\ busy' = TRUE /\ runs' = [j \in Job |-> 0]

\* No step changes runs but this one and Dispatch: a second run of a job, or a
\* run while the dispatcher is not busy, is no step of ForkJoin.
Run(j) == busy /\ runs[j] = 0 /\ runs' = [runs EXCEPT ![j] = 1] /\ UNCHANGED busy

Wait == busy /\ (\A j \in Job : runs[j] = 1) /\ busy' = FALSE /\ UNCHANGED runs

Next == Dispatch \/ (\E j \in Job : Run(j)) \/ Wait

Spec == Init /\ [][Next]_<<busy, runs>>
=============================================================================
