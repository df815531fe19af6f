------------------------- MODULE ThreadDispatcher -------------------------
(***************************************************************************)
(* The threaded pipeline dispatcher: one host thread hands jobs to worker  *)
(* threads ("pipelines") and waits for them.                               *)
(*                                                                         *)
(* Each worker has a mutex, a condition variable, a state and a job.  It   *)
(* owns its mutex whenever it is not asleep on its condition variable, the *)
(* execution of a job included.  The host looks for a sleeping worker with *)
(* trylock, round robin from Id, and waits by spinning on Done.  All that  *)
(* the host does between a successful trylock and the unlock is one step:  *)
(* the worker can not run meanwhile, and no one else touches its fields.   *)
(***************************************************************************)
EXTENDS Integers, FiniteSets

CONSTANTS
  NPipeline,         \* --tpp
  DispatchToHost,    \* --dispatch_to_host
  NumDispatch,       \* bound: how often the program dispatches
  MaxSpurious        \* bound: spurious wakeups of condition variables in a run

ASSUME DispatcherAssumption ==
  /\ NPipeline \in Nat \ {0}
  /\ DispatchToHost \in 0 .. NPipeline
  /\ NumDispatch \in Nat
  /\ MaxSpurious \in Nat

NumWorker == NPipeline - DispatchToHost
Worker == 0 .. NumWorker - 1

\* The jobs of a dispatch, and the straggler that EXEC_PIPELINES runs itself.
PipelineJob == 0 .. NPipeline - 1
Straggler == NPipeline
Job == PipelineJob \cup {Straggler}

Host == "host"
Nobody == "nobody"

VARIABLES
  hpc,          \* where the host is
  hid,          \* the loop variable id of the host
  Id,           \* the worker to query first
  Busy,         \* dispatched and not waited for
  dispatches,   \* number of dispatches so far
  Done,         \* Done[j]: the completion flag of job j
  state,        \* Pipeline[w].state
  job,          \* Pipeline[w].job, with func, args and flag
  owner,        \* owner[w]: is the mutex of w locked, by the host or by w
  wpc,          \* where worker w is
  spurious,     \* number of spurious wakeups so far
  runs          \* runs[j]: how often job j ran in this dispatch

hostVars == <<hpc, hid, Id, Busy, dispatches>>
vars == <<hostVars, Done, state, job, owner, wpc, spurious, runs>>

HostPC == {"boot", "boot_spin", "ready", "dispatch", "search", "straggler", "wait",
           "halt", "join", "destroy", "halted"}
WorkerPC == {"none", "starting", "switch", "flag", "tired", "sleep", "blocked", "waking",
             "exited"}
State == {"ack", "sleep", "execute", "terminate"}

TypeOK ==
  /\ hpc \in HostPC
  /\ hid \in 0 .. NPipeline
  /\ Id = 0 \/ Id \in Worker
  /\ Busy \in BOOLEAN
  /\ dispatches \in 0 .. NumDispatch
  /\ Done \in [PipelineJob -> BOOLEAN]
  /\ state \in [Worker -> State]
  /\ job \in [Worker -> PipelineJob]
  /\ owner \in [Worker -> BOOLEAN]
  /\ wpc \in [Worker -> WorkerPC]
  /\ spurious \in 0 .. MaxSpurious
  /\ runs \in [Job -> 0 .. 2]

-----------------------------------------------------------------------------
\* Id advances round robin.
AfterNoWrap(id) == IF id + 1 > NumWorker THEN 0 ELSE id + 1
After(id) == IF id + 1 >= NumWorker THEN 0 ELSE id + 1

\* parallel_execute gives a job to a worker it holds the mutex of when ...
AvailableWhenAwake(w) == state[w] \in {"sleep", "execute"}
Available(w) == state[w] = "sleep"

\* pthread_cond_signal on w: a worker asleep wakes and competes for its mutex.
NoSignal(w) == wpc
Signal(w) == [wpc EXCEPT ![w] = IF @ = "blocked" THEN "waking" ELSE @]

\* Done[id] = 0 before the job is handed out.
DoneKept(j) == Done
DoneCleared(j) == [Done EXCEPT ![j] = FALSE]

\* pthread_join returns.
JoinedAtOnce(w) == TRUE
Joined(w) == wpc[w] = "exited"

\* The state a worker notes before it sleeps; execute falls through to this case.
AsleepUnlessExecuted(w) == IF state[w] = "execute" THEN state ELSE [state EXCEPT ![w] = "sleep"]
Asleep(w) == [state EXCEPT ![w] = "sleep"]

Ran(j) == runs' = [runs EXCEPT ![j] = @ + 1]
-----------------------------------------------------------------------------
Init ==
  /\ hpc = "boot"
  /\ hid = 0
  /\ Id = 0
  /\ Busy = FALSE
  /\ dispatches = 0
  /\ Done = [j \in PipelineJob |-> FALSE]
  /\ state = [w \in Worker |-> "ack"]
  /\ job = [w \in Worker |-> 0]
  /\ owner = [w \in Worker |-> FALSE]
  /\ wpc = [w \in Worker |-> "none"]
  /\ spurious = 0
  /\ runs = [j \in Job |-> 0]

\* thread_boot creates one worker after the other and spins on the state of
\* each, which it reads without the mutex, until the worker says it sleeps.
BootCreate ==
  /\ hpc = "boot"
  /\ IF hid < NumWorker
       THEN /\ state' = [state EXCEPT ![hid] = "ack"]
            /\ wpc' = [wpc EXCEPT ![hid] = "starting"]
            /\ hpc' = "boot_spin"
       ELSE /\ hpc' = "ready"
            /\ UNCHANGED <<state, wpc>>
  /\ UNCHANGED <<hid, Id, Busy, dispatches, Done, job, owner, spurious, runs>>

BootSpin ==
  /\ hpc = "boot_spin"
  /\ state[hid] = "sleep"
  /\ hid' = hid + 1
  /\ hpc' = "boot"
  /\ UNCHANGED <<Id, Busy, dispatches, Done, state, job, owner, wpc, spurious, runs>>

\* thread_dispatch.  runs starts again from zero.
Dispatch ==
  /\ hpc = "ready"
  /\ dispatches < NumDispatch
  /\ ~Busy
  /\ Busy' = TRUE
  /\ dispatches' = dispatches + 1
  /\ runs' = [j \in Job |-> 0]
  /\ hid' = 0
  /\ hpc' = "dispatch"
  /\ UNCHANGED <<Id, Done, state, job, owner, wpc, spurious>>

\* The next job goes to a worker; after these, one may run on the host.
DispatchJob ==
  /\ hpc = "dispatch"
  /\ \/ /\ hid < NumWorker
        /\ Done' = DoneCleared(hid)
        /\ hpc' = "search"
        /\ UNCHANGED runs
     \/ /\ hid >= NumWorker
        /\ IF DispatchToHost # 0
             THEN Done' = [Done EXCEPT ![hid] = TRUE] /\ Ran(hid)
             ELSE UNCHANGED <<Done, runs>>
        /\ hpc' = "straggler"
  /\ UNCHANGED <<hid, Id, Busy, dispatches, state, job, owner, wpc, spurious>>

\* One turn of the loop of parallel_execute: trylock worker Id, assign the job
\* and signal if it sleeps, unlock.
Search ==
  /\ hpc = "search"
  /\ LET w == Id
     IN  IF ~owner[w] /\ Available(w)
           THEN /\ state' = [state EXCEPT ![w] = "execute"]
                /\ job' = [job EXCEPT ![w] = hid]
                /\ wpc' = Signal(w)
                /\ hid' = hid + 1
                /\ hpc' = "dispatch"
           ELSE UNCHANGED <<state, job, wpc, hid, hpc>>
  /\ Id' = After(Id)
  /\ UNCHANGED <<Busy, dispatches, Done, owner, spurious, runs>>

\* EXEC_PIPELINES runs the straggler on the host; then comes WAIT_PIPELINES.
RunStraggler ==
  /\ hpc = "straggler"
  /\ Ran(Straggler)
  /\ hid' = 0
  /\ hpc' = "wait"
  /\ UNCHANGED <<Id, Busy, dispatches, Done, state, job, owner, wpc, spurious>>

\* thread_wait spins on Done.
Wait ==
  /\ hpc = "wait"
  /\ \/ /\ hid < NPipeline
        /\ Done[hid]
        /\ hid' = hid + 1
        /\ UNCHANGED <<hpc, Busy>>
     \/ /\ hid = NPipeline
        /\ Busy' = FALSE
        /\ hid' = 0
        /\ hpc' = "ready"
  /\ UNCHANGED <<Id, dispatches, Done, state, job, owner, wpc, spurious, runs>>

\* thread_halt: lock, say terminate, signal, unlock; then join, worker by worker.
Halt ==
  /\ hpc = "ready"
  /\ dispatches = NumDispatch
  /\ hid' = 0
  /\ hpc' = "halt"
  /\ UNCHANGED <<Id, Busy, dispatches, Done, state, job, owner, wpc, spurious, runs>>

Terminate ==
  /\ hpc = "halt"
  /\ \/ /\ hid \in Worker
        /\ ~owner[hid]
        /\ state' = [state EXCEPT ![hid] = "terminate"]
        /\ wpc' = Signal(hid)
        /\ hpc' = "join"
     \/ /\ hid \notin Worker
        /\ hpc' = "destroy"
        /\ UNCHANGED <<state, wpc>>
  /\ UNCHANGED <<hid, Id, Busy, dispatches, Done, job, owner, spurious, runs>>

Join ==
  /\ hpc = "join"
  /\ Joined(hid)
  /\ hid' = hid + 1
  /\ hpc' = "halt"
  /\ UNCHANGED <<Id, Busy, dispatches, Done, state, job, owner, wpc, spurious, runs>>

\* All mutexes and condition variables are destroyed.
Destroy ==
  /\ hpc = "destroy"
  /\ hpc' = "halted"
  /\ UNCHANGED <<hid, Id, Busy, dispatches, Done, state, job, owner, wpc, spurious, runs>>

HostStep ==
  \/ BootCreate \/ BootSpin
  \/ Dispatch \/ DispatchJob \/ Search \/ RunStraggler \/ Wait
  \/ Halt \/ Terminate \/ Join \/ Destroy

-----------------------------------------------------------------------------
\* pipeline_mgr: lock the mutex, at the start or on the way out of cond_wait.
Lock(w) ==
  /\ wpc[w] \in {"starting", "waking"}
  /\ ~owner[w]
  /\ owner' = [owner EXCEPT ![w] = TRUE]
  /\ wpc' = [wpc EXCEPT ![w] = "switch"]
  /\ UNCHANGED <<hostVars, Done, state, job, spurious, runs>>

\* The switch on the state: leave, execute the job, or go back to sleep.
Switch(w) ==
  /\ wpc[w] = "switch"
  /\ CASE state[w] = "terminate" ->
            /\ owner' = [owner EXCEPT ![w] = FALSE]
            /\ wpc' = [wpc EXCEPT ![w] = "exited"]
            /\ UNCHANGED <<state, runs>>
       [] state[w] = "execute" ->
            /\ Ran(job[w])
            /\ wpc' = [wpc EXCEPT ![w] = "flag"]
            /\ UNCHANGED <<state, owner>>
       [] OTHER ->
            /\ wpc' = [wpc EXCEPT ![w] = "tired"]
            /\ UNCHANGED <<state, owner, runs>>
  /\ UNCHANGED <<hostVars, Done, job, spurious>>

\* *flag = 1: from now on the host may see the job as complete, although the
\* worker still holds its mutex and is still in state execute.
SetFlag(w) ==
  /\ wpc[w] = "flag"
  /\ Done' = [Done EXCEPT ![job[w]] = TRUE]
  /\ wpc' = [wpc EXCEPT ![w] = "tired"]
  /\ UNCHANGED <<hostVars, state, job, owner, spurious, runs>>

\* The last case of the switch, into which execute falls through.
FallAsleep(w) ==
  /\ wpc[w] = "tired"
  /\ state' = Asleep(w)
  /\ wpc' = [wpc EXCEPT ![w] = "sleep"]
  /\ UNCHANGED <<hostVars, Done, job, owner, spurious, runs>>

\* pthread_cond_wait releases the mutex and sleeps, atomically.
CondWait(w) ==
  /\ wpc[w] = "sleep"
  /\ owner' = [owner EXCEPT ![w] = FALSE]
  /\ wpc' = [wpc EXCEPT ![w] = "blocked"]
  /\ UNCHANGED <<hostVars, Done, state, job, spurious, runs>>

WorkerStep(w) == Lock(w) \/ Switch(w) \/ SetFlag(w) \/ FallAsleep(w) \/ CondWait(w)

\* pthread_cond_wait may return without a signal.
SpuriousWakeup(w) ==
  /\ wpc[w] = "blocked"
  /\ spurious < MaxSpurious
  /\ spurious' = spurious + 1
  /\ wpc' = [wpc EXCEPT ![w] = "waking"]
  /\ UNCHANGED <<hostVars, Done, state, job, owner, runs>>

Finished == hpc = "halted" /\ UNCHANGED vars

Next ==
  \/ HostStep
  \/ \E w \in Worker : WorkerStep(w) \/ SpuriousWakeup(w)
  \/ Finished

Spec == Init /\ [][Next]_vars

\* Host and workers are threads the operating system schedules.  Nothing is
\* assumed of the mutexes but that a free one can be locked.
Fairness == WF_vars(HostStep) /\ \A w \in Worker : WF_vars(WorkerStep(w))

FairSpec == Spec /\ Fairness
-----------------------------------------------------------------------------
\* When the host is between two dispatches, every job of the last one has run
\* exactly once, and no worker is about to run one: the caller may free the
\* arguments and use the results.
JobsRunOnce ==
  hpc = "ready" /\ dispatches > 0 =>
    /\ \A j \in Job : runs[j] = 1
    /\ \A w \in Worker : state[w] = "execute" => wpc[w] = "tired"

\* A job given to a worker is not overwritten before it ran ("it is remotely
\* possible for parallel_execute to reacquire the lock on a thread signalled to
\* execute a pipeline before the thread wakes up").
AssignedJobKept ==
  [][\A w \in Worker :
       state[w] = "execute" /\ wpc[w] \in {"waking", "switch", "flag"} =>
         job'[w] = job[w]]_vars

\* No worker can touch a mutex or a condition variable that was destroyed.
DestroyedUnused ==
  hpc \in {"destroy", "halted"} => \A w \in Worker : wpc[w] = "exited" /\ ~owner[w]

\* The program ends: boot, every dispatch, every wait and halt return, no
\* signal is lost, whatever the interleaving and the spurious wakeups.
EverythingReturns == <>(hpc = "halted")

\* The dispatcher runs every job of a dispatch once, none of them before the
\* dispatch or after the wait, and waits for all of them.  runs counts what the
\* threads do, whichever dispatch a worker believes it works for.
JoinSpec == INSTANCE ForkJoin WITH busy <- Busy
ForkJoinSpec == JoinSpec!Spec
=============================================================================
