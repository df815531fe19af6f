---------------------- MODULE ThreadDispatcher_proofs ----------------------
(***************************************************************************)
(* The threaded dispatcher is right for any number of pipelines, of        *)
(* dispatches and of spurious wakeups, and implements ForkJoin             *)
(* (ThreadDispatcher).                                                     *)
(***************************************************************************)
EXTENDS ThreadDispatcher, TLAPS

(* A job was given to w and has not run; it has run but is not flagged.    *)
Pending(w) == state[w] = "execute" /\ wpc[w] \in {"waking", "switch"}
Active(w) == Pending(w) \/ wpc[w] = "flag"

(* The mutex of a worker and its state follow from where it is.            *)
WorkerOK ==
  \A w \in Worker :
    /\ owner[w] <=> wpc[w] \in {"switch", "flag", "tired", "sleep"}
    /\ state[w] = "execute" => wpc[w] \in {"waking", "switch", "flag", "tired"}
    /\ wpc[w] = "flag" => state[w] = "execute"
    /\ wpc[w] \in {"none", "starting"} => state[w] \in {"ack", "terminate"}
    /\ wpc[w] = "exited" => state[w] = "terminate"

(* How far the host is with booting, waiting and halting.                  *)
HostOK ==
  /\ Busy <=> hpc \in {"dispatch", "search", "straggler", "wait"}
  /\ hpc \in {"boot", "boot_spin"} => dispatches = 0
  /\ hpc = "boot" => hid \in 0 .. NumWorker /\ \A w \in Worker : w >= hid => wpc[w] = "none"
  /\ hpc = "boot_spin" => hid \in Worker /\ \A w \in Worker : w > hid => wpc[w] = "none"
  /\ hpc = "dispatch" => hid \in 0 .. NumWorker
  /\ hpc = "search" => hid \in Worker /\ ~Done[hid]
  /\ hpc = "wait" => \A j \in PipelineJob : j < hid => Done[j]
  /\ hpc \in {"halt", "join"} => hid \in 0 .. NumWorker /\ \A w \in Worker : w < hid => wpc[w] = "exited"
  /\ hpc = "join" => hid \in Worker
  /\ hpc \in {"destroy", "halted"} => \A w \in Worker : wpc[w] = "exited"

(* The jobs that were given away in this dispatch.                         *)
Given == {j \in PipelineJob :
            IF hpc \in {"dispatch", "search"} THEN j < hid ELSE j <= NumWorker}

(* A job is not given away, or it waits with one worker, or it has run,    *)
(* and only then it is flagged.  With several pipelines on the host, the   *)
(* jobs behind the first are never run nor flagged.                        *)
JobsOK ==
  /\ \A j \in Job : runs[j] \in {0, 1}
  /\ \A j \in PipelineJob : j > NumWorker => ~Done[j]
  /\ Busy =>
       /\ \A j \in PipelineJob \ Given : runs[j] = 0
       /\ \A j \in Given : Done[j] => runs[j] = 1
       /\ \A j \in Given : runs[j] = 1 \/ \E w \in Worker : Pending(w) /\ job[w] = j
       /\ \A w \in Worker : Active(w) => job[w] \in Given /\ ~Done[job[w]]
       /\ \A w \in Worker : Pending(w) => runs[job[w]] = 0
       /\ \A v, w \in Worker : Active(v) /\ Active(w) /\ job[v] = job[w] => v = w
       /\ runs[Straggler] = IF hpc = "wait" THEN 1 ELSE 0
  /\ ~Busy => \A w \in Worker : ~Active(w)
  /\ hpc = "ready" /\ dispatches > 0 => \A j \in Job : runs[j] = 1

IInv == TypeOK /\ WorkerOK /\ HostOK /\ JobsOK

(* Workers have pipeline numbers; the straggler is no pipeline.            *)
LEMMA Numbers ==
  /\ NPipeline \in Nat /\ NPipeline > 0
  /\ NumWorker \in Nat /\ NumWorker <= NPipeline
  /\ NumWorker \in PipelineJob <=> DispatchToHost # 0
  /\ Worker \subseteq PipelineJob /\ PipelineJob \subseteq Job
  /\ Straggler \in Job /\ Straggler \notin PipelineJob
  /\ Job = PipelineJob \cup {Straggler}
  BY DispatcherAssumption DEF NumWorker, Worker, PipelineJob, Job, Straggler

LEMMA InvariantInit == Init => IInv
  <1> SUFFICES ASSUME Init PROVE IInv OBVIOUS
  <1> USE Numbers
  <1>1. TypeOK
    <2>1. hpc \in HostPC /\ Busy \in BOOLEAN BY DEF Init, HostPC
    <2>2. hid \in 0 .. NPipeline /\ Id = 0
          /\ dispatches \in 0 .. NumDispatch /\ spurious \in 0 .. MaxSpurious
      BY DispatcherAssumption DEF Init
    <2>3. Done \in [PipelineJob -> BOOLEAN] /\ owner \in [Worker -> BOOLEAN] BY DEF Init
    <2>4. state \in [Worker -> State] /\ wpc \in [Worker -> WorkerPC]
      BY DEF Init, State, WorkerPC
    <2>5. job \in [Worker -> PipelineJob] /\ runs \in [Job -> 0 .. 2]
      BY DEF Init, PipelineJob
    <2> QED BY <2>1, <2>2, <2>3, <2>4, <2>5 DEF TypeOK
  <1>2. WorkerOK BY DEF Init, WorkerOK
  <1>3. HostOK BY DEF Init, HostOK, Worker
  <1>4. JobsOK BY DEF Init, JobsOK, Active, Pending
  <1> QED BY <1>1, <1>2, <1>3, <1>4 DEF IInv

(* The host alone moves: no worker, mutex, job or flag changes.            *)
LEMMA HostMoves ==
  ASSUME IInv, UNCHANGED <<Done, state, job, owner, wpc, spurious, runs>>
  PROVE  /\ WorkerOK'
         /\ \A w : Pending(w)' = Pending(w) /\ Active(w)' = Active(w)
  BY DEF IInv, WorkerOK, Pending, Active

LEMMA BootStep == IInv /\ (BootCreate \/ BootSpin) => IInv'
  <1> SUFFICES ASSUME IInv, BootCreate \/ BootSpin PROVE IInv' OBVIOUS
  <1> USE Numbers
  <1>1. CASE BootSpin
    <2>1. TypeOK' BY <1>1 DEF IInv, TypeOK, HostOK, BootSpin, HostPC, Worker
    <2>2. WorkerOK' /\ \A w : Active(w)' = Active(w)
      BY <1>1, HostMoves DEF BootSpin
    <2>3. HostOK' BY <1>1 DEF IInv, HostOK, BootSpin, Worker
    <2>4. JobsOK' BY <1>1, <2>2 DEF IInv, JobsOK, HostOK, BootSpin
    <2> QED BY <2>1, <2>2, <2>3, <2>4 DEF IInv
  <1>2. CASE BootCreate /\ hid >= NumWorker
    <2>1. /\ hpc = "boot" /\ hpc' = "ready"
          /\ UNCHANGED <<hid, Id, Busy, dispatches, Done, state, job, owner, wpc, spurious, runs>>
      BY <1>2 DEF BootCreate, IInv, TypeOK
    <2>2. TypeOK' BY <2>1 DEF IInv, TypeOK, HostPC
    <2>3. WorkerOK' /\ \A w : Active(w)' = Active(w) BY <2>1, HostMoves
    <2>4. HostOK' BY <2>1 DEF IInv, HostOK
    <2>5. JobsOK' BY <2>1, <2>3 DEF IInv, JobsOK, HostOK, TypeOK
    <2> QED BY <2>2, <2>3, <2>4, <2>5 DEF IInv
  <1>3. CASE BootCreate /\ hid < NumWorker
    <2>1. /\ hpc = "boot" /\ hpc' = "boot_spin" /\ hid \in Worker
          /\ state' = [state EXCEPT ![hid] = "ack"]
          /\ wpc' = [wpc EXCEPT ![hid] = "starting"]
          /\ UNCHANGED <<hid, Id, Busy, dispatches, Done, job, owner, spurious, runs>>
      BY <1>3 DEF BootCreate, IInv, HostOK, Worker
    <2>2. TypeOK' BY <2>1 DEF IInv, TypeOK, HostPC, State, WorkerPC
    <2>3. wpc[hid] = "none" BY <2>1 DEF IInv, HostOK, Worker
    <2>4. WorkerOK' BY <2>1, <2>3 DEF IInv, WorkerOK, TypeOK
    <2>5. HostOK' BY <2>1 DEF IInv, HostOK, TypeOK, Worker
    <2>6. \A w \in Worker : Active(w)' => Active(w)
      BY <2>1 DEF IInv, TypeOK, Active, Pending
    <2>7. JobsOK' BY <2>1, <2>6 DEF IInv, JobsOK, HostOK, TypeOK
    <2> QED BY <2>2, <2>4, <2>5, <2>7 DEF IInv
  <1> QED BY <1>1, <1>2, <1>3 DEF IInv, TypeOK, BootSpin, BootCreate

LEMMA DispatchStep == IInv /\ Dispatch => IInv'
  <1> SUFFICES ASSUME IInv, Dispatch PROVE IInv' OBVIOUS
  <1> USE Numbers
  <1>1. /\ hpc = "ready" /\ ~Busy /\ Busy' = TRUE /\ hpc' = "dispatch" /\ hid' = 0
        /\ dispatches < NumDispatch /\ dispatches' = dispatches + 1
        /\ runs' = [j \in Job |-> 0]
        /\ UNCHANGED <<Id, Done, state, job, owner, wpc, spurious>>
    BY DEF Dispatch
  <1>2. TypeOK' BY <1>1, DispatcherAssumption DEF IInv, TypeOK, HostPC
  <1>3. WorkerOK' /\ \A w : Active(w)' = Active(w) /\ Pending(w)' = Pending(w)
    BY <1>1 DEF IInv, WorkerOK, Active, Pending
  <1>4. HostOK' BY <1>1 DEF IInv, HostOK
  <1>5. Given' = {} BY <1>1 DEF Given, PipelineJob
  <1>6. JobsOK'
    <2>1. \A w \in Worker : ~Active(w) /\ ~Pending(w)
      BY <1>1 DEF IInv, JobsOK, Active
    <2> QED BY <1>1, <1>3, <1>5, <2>1 DEF IInv, JobsOK
  <1> QED BY <1>2, <1>3, <1>4, <1>6 DEF IInv

LEMMA DispatchJobStep == IInv /\ DispatchJob => IInv'
  <1> SUFFICES ASSUME IInv, DispatchJob PROVE IInv' OBVIOUS
  <1> USE Numbers
  <1>1. /\ hpc = "dispatch" /\ Busy /\ hid \in 0 .. NumWorker
        /\ UNCHANGED <<hid, Id, Busy, dispatches, state, job, owner, wpc, spurious>>
    BY DEF DispatchJob, IInv, HostOK
  <1>2. WorkerOK' /\ \A w : Active(w)' = Active(w) /\ Pending(w)' = Pending(w)
    BY <1>1 DEF IInv, WorkerOK, Active, Pending
  <1>3. CASE hid < NumWorker /\ Done' = [Done EXCEPT ![hid] = FALSE] /\ hpc' = "search" /\ UNCHANGED runs
    <2>1. hid \in Worker /\ hid \in PipelineJob BY <1>1, <1>3 DEF Worker
    <2>2. TypeOK' BY <1>1, <1>3 DEF IInv, TypeOK, HostPC
    <2>3. HostOK' BY <1>1, <1>3, <2>1 DEF IInv, HostOK, TypeOK
    <2>4. Given' = Given BY <1>1, <1>3 DEF Given
    <2>5. \A j \in PipelineJob : Done'[j] => Done[j] BY <1>3 DEF IInv, TypeOK
    <2>6. \A w \in Worker : job[w] \in PipelineJob BY DEF IInv, TypeOK
    <2>7. JobsOK' BY <1>1, <1>2, <1>3, <2>4, <2>5, <2>6 DEF IInv, JobsOK, Given
    <2> QED BY <1>2, <2>2, <2>3, <2>7 DEF IInv
  <1>4. CASE /\ hid = NumWorker /\ hpc' = "straggler"
             /\ IF DispatchToHost # 0
                  THEN Done' = [Done EXCEPT ![hid] = TRUE] /\ runs' = [runs EXCEPT ![hid] = @ + 1]
                  ELSE UNCHANGED <<Done, runs>>
    <2>1. Given' = {j \in PipelineJob : j <= NumWorker} /\ Given = {j \in PipelineJob : j < NumWorker}
      BY <1>1, <1>4 DEF Given
    <2>2. NumWorker \in PipelineJob => runs[NumWorker] = 0 /\ NumWorker \in Job
      BY <1>1, <2>1 DEF IInv, JobsOK
    <2>3. Given' = IF DispatchToHost # 0 THEN Given \cup {NumWorker} ELSE Given
      BY <2>1 DEF PipelineJob
    <2>4. TypeOK'
      <3>1. Done' \in [PipelineJob -> BOOLEAN] BY <1>4 DEF IInv, TypeOK
      <3>2. runs' \in [Job -> 0 .. 2]
        <4>1. CASE DispatchToHost = 0 BY <1>4, <4>1 DEF IInv, TypeOK
        <4>2. CASE DispatchToHost # 0
          <5>1. runs' = [runs EXCEPT ![hid] = 1] BY <1>4, <2>2, <4>2
          <5>2. runs \in [Job -> 0 .. 2] BY DEF IInv, TypeOK
          <5>3. 1 \in 0 .. 2 OBVIOUS
          <5> QED BY <5>1, <5>2, <5>3
        <4> QED BY <4>1, <4>2
      <3> QED BY <1>1, <1>4, <3>1, <3>2 DEF IInv, TypeOK, HostPC
    <2>5. HostOK' BY <1>1, <1>4 DEF IInv, HostOK
    <2>6. CASE DispatchToHost = 0
      <3>1. Given' = Given /\ UNCHANGED <<Done, runs>> BY <1>4, <2>3, <2>6
      <3>2. JobsOK' BY <1>1, <1>2, <1>4, <3>1 DEF IInv, JobsOK
      <3> QED BY <1>2, <2>4, <2>5, <3>2 DEF IInv
    <2>7. CASE DispatchToHost # 0
      <3>1. /\ Given' = Given \cup {NumWorker} /\ NumWorker \in PipelineJob /\ NumWorker \notin Given
            /\ Done' = [Done EXCEPT ![NumWorker] = TRUE]
            /\ runs' = [runs EXCEPT ![NumWorker] = 1]
        BY <1>4, <2>1, <2>2, <2>3, <2>7
      <3>2. /\ DOMAIN Done = PipelineJob /\ DOMAIN runs = Job
            /\ \A w \in Worker : job[w] \in PipelineJob
        BY DEF IInv, TypeOK
      <3>3. /\ Done'[NumWorker] /\ runs'[NumWorker] = 1
            /\ \A j \in PipelineJob : j # NumWorker => Done'[j] = Done[j]
            /\ \A j \in Job : j # NumWorker => runs'[j] = runs[j]
        BY <3>1, <3>2
      <3>4. \A w \in Worker : Active(w) => job[w] # NumWorker
        BY <1>1, <3>1 DEF IInv, JobsOK
      <3>5. JobsOK' BY <1>1, <1>2, <1>4, <3>1, <3>2, <3>3, <3>4 DEF IInv, JobsOK, Active
      <3> QED BY <1>2, <2>4, <2>5, <3>5 DEF IInv
    <2> QED BY <2>6, <2>7
  <1> QED BY <1>1, <1>3, <1>4 DEF DispatchJob, DoneCleared, Ran

LEMMA SearchStep == IInv /\ Search => IInv'
  <1> SUFFICES ASSUME IInv, Search PROVE IInv' OBVIOUS
  <1> USE Numbers
  <1>1. /\ hpc = "search" /\ Busy /\ hid \in Worker /\ ~Done[hid]
        /\ UNCHANGED <<Busy, dispatches, Done, owner, spurious, runs>>
        /\ Id' = After(Id)
    BY DEF Search, IInv, HostOK
  <1>2. Id \in Worker /\ Id' \in Worker
    BY <1>1 DEF IInv, TypeOK, Worker, After
  <1>3. CASE UNCHANGED <<state, job, wpc, hid, hpc>>
    <2>1. TypeOK' BY <1>1, <1>2, <1>3 DEF IInv, TypeOK
    <2>2. WorkerOK' /\ \A w : Active(w)' = Active(w) /\ Pending(w)' = Pending(w)
      BY <1>1, <1>3, HostMoves
    <2>3. HostOK' BY <1>1, <1>3 DEF IInv, HostOK
    <2>4. Given' = Given BY <1>1, <1>3 DEF Given
    <2>5. JobsOK' BY <1>1, <1>3, <2>2, <2>4 DEF IInv, JobsOK
    <2> QED BY <2>1, <2>2, <2>3, <2>5 DEF IInv
  <1>4. PICK u \in Worker : u = Id BY <1>2
  <1>5. CASE /\ ~owner[u] /\ state[u] = "sleep"
             /\ state' = [state EXCEPT ![u] = "execute"]
             /\ job' = [job EXCEPT ![u] = hid]
             /\ wpc' = Signal(u)
             /\ hid' = hid + 1 /\ hpc' = "dispatch"
    <2>1. /\ DOMAIN state = Worker /\ DOMAIN wpc = Worker /\ DOMAIN job = Worker
          /\ \A w \in Worker : job[w] \in PipelineJob /\ wpc[w] \in WorkerPC
      BY DEF IInv, TypeOK
    <2>2. wpc[u] \in {"blocked", "waking"}
      BY <1>2, <1>5, <2>1 DEF IInv, WorkerOK, WorkerPC
    <2>3. /\ wpc' = [wpc EXCEPT ![u] = "waking"] /\ wpc'[u] = "waking"
          /\ state'[u] = "execute" /\ job'[u] = hid
          /\ \A w \in Worker : w # u =>
               state'[w] = state[w] /\ wpc'[w] = wpc[w] /\ job'[w] = job[w]
      BY <1>2, <1>5, <2>1, <2>2 DEF Signal
    <2>4. TypeOK'
      <3>1. hid' \in 0 .. NPipeline /\ hid \in PipelineJob BY <1>1, <1>5 DEF Worker
      <3> QED BY <1>1, <1>2, <1>5, <2>3, <3>1 DEF IInv, TypeOK, HostPC, State, WorkerPC
    <2>5. WorkerOK' BY <1>1, <1>2, <1>5, <2>2, <2>3 DEF IInv, WorkerOK
    <2>6. HostOK' BY <1>1, <1>5 DEF IInv, HostOK, Worker
    <2>7. /\ Pending(u)' /\ Active(u)' /\ ~Active(u)
          /\ \A w \in Worker : w # u => Active(w)' = Active(w) /\ Pending(w)' = Pending(w)
      <3>1. Pending(u)' /\ Active(u)' BY <2>3 DEF Active, Pending
      <3>2. ~Active(u) BY <1>5, <2>2 DEF Active, Pending
      <3>3. ASSUME NEW w \in Worker, w # u
            PROVE  Active(w)' = Active(w) /\ Pending(w)' = Pending(w)
        BY <2>3, <3>3 DEF Active, Pending
      <3> QED BY <3>1, <3>2, <3>3
    <2>8. Given' = Given \cup {hid} /\ hid \notin Given /\ hid \in PipelineJob
      BY <1>1, <1>5 DEF Given, Worker, PipelineJob
    <2>9. runs[hid] = 0 BY <1>1, <2>8 DEF IInv, JobsOK
    <2>10. JobsOK'
      <3>1. \A w \in Worker : Active(w) => job[w] \in Given /\ job[w] # hid /\ ~Done[job[w]]
        BY <1>1, <2>8 DEF IInv, JobsOK
      <3>2. /\ \A j \in Job : runs'[j] \in {0, 1}
            /\ \A j \in PipelineJob : j > NumWorker => ~Done'[j]
            /\ \A j \in PipelineJob \ Given' : runs'[j] = 0
            /\ \A j \in Given' : Done'[j] => runs'[j] = 1
            /\ runs'[Straggler] = 0
        BY <1>1, <1>5, <2>8 DEF IInv, JobsOK
      <3>3. ASSUME NEW j \in Given'
            PROVE  runs'[j] = 1 \/ \E w \in Worker : Pending(w)' /\ job'[w] = j
        <4>1. CASE j = hid
          <5>1. u \in Worker /\ Pending(u)' /\ job'[u] = j BY <1>2, <2>3, <2>7, <4>1
          <5> QED BY <5>1
        <4>2. CASE j \in Given
          <5>1. CASE runs[j] = 1 BY <1>1, <5>1
          <5>2. CASE \E w \in Worker : Pending(w) /\ job[w] = j
            BY <2>3, <2>7, <5>2 DEF Active
          <5> QED BY <1>1, <4>2, <5>1, <5>2 DEF IInv, JobsOK
        <4> QED BY <2>8, <4>1, <4>2
      <3>4. ASSUME NEW w \in Worker, Active(w)'
            PROVE  job'[w] \in Given' /\ ~Done'[job'[w]]
        BY <1>1, <2>3, <2>7, <2>8, <3>1, <3>4
      <3>5. ASSUME NEW w \in Worker, Pending(w)' PROVE runs'[job'[w]] = 0
        <4>1. CASE w = u BY <1>1, <2>3, <2>9, <4>1
        <4>2. CASE w # u BY <1>1, <2>3, <2>7, <3>5, <4>2 DEF IInv, JobsOK
        <4> QED BY <4>1, <4>2
      <3>6. ASSUME NEW v \in Worker, NEW w \in Worker, Active(v)', Active(w)', job'[v] = job'[w]
            PROVE  v = w
        <4>1. CASE v # u /\ w # u BY <1>1, <2>3, <2>7, <3>6, <4>1 DEF IInv, JobsOK
        <4>2. CASE v = u \/ w = u BY <2>3, <2>7, <3>1, <3>6, <4>2
        <4> QED BY <4>1, <4>2
      <3> QED BY <1>1, <1>5, <3>2, <3>3, <3>4, <3>5, <3>6 DEF JobsOK
    <2> QED BY <2>4, <2>5, <2>6, <2>10 DEF IInv
  <1> QED BY <1>3, <1>4, <1>5 DEF Search, Available

LEMMA RunStragglerStep == IInv /\ RunStraggler => IInv'
  <1> SUFFICES ASSUME IInv, RunStraggler PROVE IInv' OBVIOUS
  <1> USE Numbers
  <1>1. /\ hpc = "straggler" /\ Busy /\ hpc' = "wait" /\ hid' = 0
        /\ runs' = [runs EXCEPT ![Straggler] = @ + 1]
        /\ UNCHANGED <<Id, Busy, dispatches, Done, state, job, owner, wpc, spurious>>
    BY DEF RunStraggler, Ran, IInv, HostOK
  <1>2. runs[Straggler] = 0 /\ DOMAIN runs = Job BY <1>1 DEF IInv, JobsOK, TypeOK
  <1>3. /\ runs'[Straggler] = 1 /\ runs' = [runs EXCEPT ![Straggler] = 1]
        /\ \A j \in Job : j # Straggler => runs'[j] = runs[j]
    BY <1>1, <1>2
  <1>4. TypeOK' BY <1>1, <1>3 DEF IInv, TypeOK, HostPC
  <1>5. WorkerOK' /\ \A w : Active(w)' = Active(w) /\ Pending(w)' = Pending(w)
    BY <1>1 DEF IInv, WorkerOK, Active, Pending
  <1>6. HostOK' BY <1>1 DEF IInv, HostOK, PipelineJob
  <1>7. Given' = Given /\ Given \subseteq PipelineJob BY <1>1 DEF Given
  <1>8. \A w \in Worker : job[w] \in PipelineJob BY DEF IInv, TypeOK
  <1>9. JobsOK' BY <1>1, <1>3, <1>5, <1>7, <1>8 DEF IInv, JobsOK
  <1> QED BY <1>4, <1>5, <1>6, <1>9 DEF IInv

(* The wait is over when every flag is set, and no flag is set early.      *)
LEMMA AllRan ==
  ASSUME IInv, hpc = "wait", hid = NPipeline
  PROVE  /\ \A j \in Job : runs[j] = 1
         /\ \A w \in Worker : ~Active(w)
         /\ \A j \in PipelineJob : Done[j]
  <1> USE Numbers
  <1>1. Busy /\ \A j \in PipelineJob : Done[j] BY DEF IInv, HostOK, PipelineJob
  <1>2. Given = PipelineJob
    <2>1. \A j \in PipelineJob : ~(j > NumWorker) BY <1>1 DEF IInv, JobsOK
    <2> QED BY <2>1 DEF Given, PipelineJob
  <1>3. runs[Straggler] = 1 /\ \A j \in PipelineJob : runs[j] = 1
    BY <1>1, <1>2 DEF IInv, JobsOK
  <1>4. \A w \in Worker : ~Active(w) BY <1>1, <1>2 DEF IInv, JobsOK
  <1> QED BY <1>1, <1>3, <1>4

LEMMA WaitStep == IInv /\ Wait => IInv'
  <1> SUFFICES ASSUME IInv, Wait PROVE IInv' OBVIOUS
  <1> USE Numbers
  <1>1. /\ hpc = "wait" /\ Busy
        /\ UNCHANGED <<Id, dispatches, Done, state, job, owner, wpc, spurious, runs>>
    BY DEF Wait, IInv, HostOK
  <1>2. WorkerOK' /\ \A w : Active(w)' = Active(w) /\ Pending(w)' = Pending(w)
    BY <1>1, HostMoves
  <1>3. CASE hid < NPipeline /\ Done[hid] /\ hid' = hid + 1 /\ UNCHANGED <<hpc, Busy>>
    <2>1. TypeOK' BY <1>1, <1>3 DEF IInv, TypeOK
    <2>2. HostOK' BY <1>1, <1>3 DEF IInv, HostOK, TypeOK, PipelineJob
    <2>3. Given' = Given BY <1>1, <1>3 DEF Given
    <2>4. JobsOK' BY <1>1, <1>2, <1>3, <2>3 DEF IInv, JobsOK
    <2> QED BY <1>2, <2>1, <2>2, <2>4 DEF IInv
  <1>4. CASE hid = NPipeline /\ Busy' = FALSE /\ hid' = 0 /\ hpc' = "ready"
    <2>1. Busy' \in BOOLEAN /\ hid' \in 0 .. NPipeline
      <3>1. Busy' \in BOOLEAN BY <1>4
      <3>2. hid' \in 0 .. NPipeline BY <1>4
      <3> QED BY <3>1, <3>2
    <2>4. TypeOK' BY <1>1, <1>4, <2>1 DEF IInv, TypeOK, HostPC
    <2>2. HostOK' BY <1>1, <1>4 DEF IInv, HostOK
    <2>3. JobsOK' BY <1>1, <1>2, <1>4, AllRan DEF IInv, JobsOK
    <2> QED BY <1>2, <2>2, <2>3, <2>4 DEF IInv
  <1> QED BY <1>3, <1>4 DEF Wait

LEMMA HaltStep == IInv /\ (Halt \/ Join \/ Destroy) => IInv'
  <1> SUFFICES ASSUME IInv, Halt \/ Join \/ Destroy PROVE IInv' OBVIOUS
  <1> USE Numbers
  <1>1. UNCHANGED <<Id, Busy, dispatches, Done, state, job, owner, wpc, spurious, runs>>
    BY DEF Halt, Join, Destroy
  <1>2. ~Busy /\ hpc' # "ready" BY DEF Halt, Join, Destroy, IInv, HostOK
  <1>3. WorkerOK' /\ \A w : Active(w)' = Active(w) BY <1>1, HostMoves
  <1>4. JobsOK' BY <1>1, <1>2, <1>3 DEF IInv, JobsOK
  <1>5. TypeOK' BY <1>1 DEF IInv, TypeOK, HostOK, Halt, Join, Destroy, HostPC, Worker
  <1>6. HostOK'
    <2>1. CASE Halt BY <1>1, <2>1 DEF IInv, HostOK, Halt, Worker
    <2>2. CASE Join BY <1>1, <2>2 DEF IInv, HostOK, Join, Joined, Worker
    <2>3. CASE Destroy BY <1>1, <2>3 DEF IInv, HostOK, Destroy
    <2> QED BY <2>1, <2>2, <2>3
  <1> QED BY <1>3, <1>4, <1>5, <1>6 DEF IInv

LEMMA TerminateStep == IInv /\ Terminate => IInv'
  <1> SUFFICES ASSUME IInv, Terminate PROVE IInv' OBVIOUS
  <1> USE Numbers
  <1>1. /\ hpc = "halt" /\ ~Busy /\ hid \in 0 .. NumWorker
        /\ \A w \in Worker : w < hid => wpc[w] = "exited"
        /\ UNCHANGED <<hid, Id, Busy, dispatches, Done, job, owner, spurious, runs>>
    BY DEF Terminate, IInv, HostOK
  <1>2. CASE hid \notin Worker /\ hpc' = "destroy" /\ UNCHANGED <<state, wpc>>
    <2>1. TypeOK' BY <1>1, <1>2 DEF IInv, TypeOK, HostPC
    <2>2. WorkerOK' /\ \A w : Active(w)' = Active(w) BY <1>1, <1>2, HostMoves
    <2>3. \A w \in Worker : w < hid BY <1>1, <1>2 DEF Worker
    <2>4. HostOK' BY <1>1, <1>2, <2>3 DEF IInv, HostOK
    <2>5. JobsOK' BY <1>1, <1>2, <2>2 DEF IInv, JobsOK
    <2> QED BY <2>1, <2>2, <2>4, <2>5 DEF IInv
  <1>3. CASE /\ hid \in Worker /\ ~owner[hid] /\ hpc' = "join"
             /\ state' = [state EXCEPT ![hid] = "terminate"] /\ wpc' = Signal(hid)
    <2>1. /\ DOMAIN state = Worker /\ DOMAIN wpc = Worker
          /\ \A w \in Worker : wpc[w] \in WorkerPC
      BY DEF IInv, TypeOK
    <2>2. /\ state'[hid] = "terminate"
          /\ wpc'[hid] = IF wpc[hid] = "blocked" THEN "waking" ELSE wpc[hid]
          /\ \A w \in Worker : w # hid => state'[w] = state[w] /\ wpc'[w] = wpc[w]
      BY <1>3, <2>1 DEF Signal
    <2>3. wpc[hid] # "flag" BY <1>3 DEF IInv, WorkerOK
    <2>4. TypeOK' BY <1>1, <1>3, <2>1 DEF IInv, TypeOK, HostPC, State, WorkerPC, Signal
    <2>5. WorkerOK' BY <1>1, <1>3, <2>2, <2>3 DEF IInv, WorkerOK
    <2>6. HostOK' BY <1>1, <1>3, <2>1, <2>2 DEF IInv, HostOK, Worker
    <2>7. \A w \in Worker : Active(w)' => Active(w)
      BY <1>3, <2>2, <2>3 DEF Active, Pending
    <2>8. JobsOK' BY <1>1, <1>3, <2>7 DEF IInv, JobsOK
    <2> QED BY <2>4, <2>5, <2>6, <2>8 DEF IInv
  <1> QED BY <1>2, <1>3 DEF Terminate

(* A worker moves, and the host where it is: none is created or leaves.    *)
LEMMA WorkerMoves ==
  ASSUME IInv, UNCHANGED hostVars, NEW u \in Worker,
         wpc[u] \notin {"none", "exited"},
         \A w \in Worker : w # u => wpc'[w] = wpc[w]
  PROVE  /\ hpc' = hpc /\ hid' = hid /\ Id' = Id /\ Busy' = Busy /\ dispatches' = dispatches
         /\ Given' = Given
         /\ (\A j \in PipelineJob : Done[j] => Done'[j]) /\ (\A j \in PipelineJob \ Given : Done'[j] = Done[j])
              => HostOK'
  <1>1. hpc' = hpc /\ hid' = hid /\ Id' = Id /\ Busy' = Busy /\ dispatches' = dispatches
    BY DEF hostVars
  <1>2. Given' = Given BY <1>1 DEF Given
  <1>3. ASSUME \A j \in PipelineJob : Done[j] => Done'[j],
               \A j \in PipelineJob \ Given : Done'[j] = Done[j]
        PROVE  HostOK'
    <2>1. \A w \in Worker : wpc[w] \in {"none", "exited"} => wpc'[w] = wpc[w] OBVIOUS
    <2>2. hpc = "search" => hid \in PipelineJob \ Given
      BY Numbers DEF IInv, HostOK, Given, Worker
    <2> QED BY <1>1, <1>3, <2>1, <2>2 DEF IInv, HostOK
  <1> QED BY <1>1, <1>2, <1>3

(* The steps that neither run nor flag a job.                              *)
LEMMA WorkerQuiet ==
  ASSUME IInv, UNCHANGED <<hostVars, Done, job, runs>>, NEW u \in Worker,
         wpc[u] \notin {"none", "exited"},
         \A w \in Worker : w # u => wpc'[w] = wpc[w] /\ state'[w] = state[w],
         Active(u)' <=> Active(u), Pending(u)' <=> Pending(u),
         TypeOK', WorkerOK'
  PROVE  IInv'
  <1>1. /\ hpc' = hpc /\ hid' = hid /\ Busy' = Busy /\ dispatches' = dispatches
        /\ Given' = Given /\ HostOK'
    BY WorkerMoves
  <1>2. ASSUME NEW w \in Worker PROVE (Active(w)' <=> Active(w)) /\ (Pending(w)' <=> Pending(w))
    BY DEF Active, Pending
  <1>3. JobsOK' BY <1>1, <1>2 DEF IInv, JobsOK
  <1> QED BY <1>1, <1>3 DEF IInv

LEMMA QuietStep ==
  ASSUME IInv, NEW u \in Worker,
         \/ Lock(u) \/ FallAsleep(u) \/ CondWait(u) \/ SpuriousWakeup(u)
         \/ Switch(u) /\ state[u] # "execute"
  PROVE  IInv'
  <1> USE Numbers
  <1>1. /\ DOMAIN state = Worker /\ DOMAIN wpc = Worker /\ DOMAIN owner = Worker
        /\ state[u] \in State /\ wpc[u] \in WorkerPC
    BY DEF IInv, TypeOK
  <1>2. /\ owner[u] <=> wpc[u] \in {"switch", "flag", "tired", "sleep"}
        /\ state[u] = "execute" => wpc[u] \in {"waking", "switch", "flag", "tired"}
        /\ wpc[u] = "flag" => state[u] = "execute"
        /\ wpc[u] \in {"none", "starting"} => state[u] \in {"ack", "terminate"}
        /\ wpc[u] = "exited" => state[u] = "terminate"
    BY DEF IInv, WorkerOK
  <1>3. CASE Lock(u)
    <2>1. TypeOK' BY <1>3 DEF IInv, TypeOK, Lock, hostVars, WorkerPC
    <2>2. WorkerOK' BY <1>1, <1>2, <1>3 DEF IInv, WorkerOK, Lock
    <2>3. (Active(u)' <=> Active(u)) /\ (Pending(u)' <=> Pending(u))
      BY <1>1, <1>2, <1>3 DEF Active, Pending, Lock
    <2> QED BY <1>1, <1>3, <2>1, <2>2, <2>3, WorkerQuiet DEF Lock
  <1>4. CASE FallAsleep(u)
    <2>1. TypeOK' BY <1>4 DEF IInv, TypeOK, FallAsleep, Asleep, hostVars, WorkerPC, State
    <2>2. WorkerOK' BY <1>1, <1>2, <1>4 DEF IInv, WorkerOK, FallAsleep, Asleep
    <2>3. (Active(u)' <=> Active(u)) /\ (Pending(u)' <=> Pending(u))
      BY <1>1, <1>2, <1>4 DEF Active, Pending, FallAsleep, Asleep
    <2> QED BY <1>1, <1>4, <2>1, <2>2, <2>3, WorkerQuiet DEF FallAsleep, Asleep
  <1>5. CASE CondWait(u)
    <2>1. TypeOK' BY <1>5 DEF IInv, TypeOK, CondWait, hostVars, WorkerPC
    <2>2. state[u] # "execute" BY <1>2, <1>5 DEF CondWait
    <2>3. WorkerOK' BY <1>1, <1>2, <1>5, <2>2 DEF IInv, WorkerOK, CondWait
    <2>4. (Active(u)' <=> Active(u)) /\ (Pending(u)' <=> Pending(u))
      BY <1>1, <1>5, <2>2 DEF Active, Pending, CondWait
    <2> QED BY <1>1, <1>5, <2>1, <2>3, <2>4, WorkerQuiet DEF CondWait
  <1>6. CASE SpuriousWakeup(u)
    <2>1. spurious' \in 0 .. MaxSpurious
      BY <1>6, DispatcherAssumption DEF IInv, TypeOK, SpuriousWakeup
    <2>2. TypeOK' BY <1>6, <2>1 DEF IInv, TypeOK, SpuriousWakeup, hostVars, WorkerPC
    <2>3. state[u] # "execute" BY <1>2, <1>6 DEF SpuriousWakeup
    <2>4. WorkerOK' BY <1>1, <1>2, <1>6, <2>3 DEF IInv, WorkerOK, SpuriousWakeup
    <2>5. (Active(u)' <=> Active(u)) /\ (Pending(u)' <=> Pending(u))
      BY <1>1, <1>6, <2>3 DEF Active, Pending, SpuriousWakeup
    <2> QED BY <1>1, <1>6, <2>2, <2>4, <2>5, WorkerQuiet DEF SpuriousWakeup
  <1>7. CASE Switch(u) /\ state[u] = "terminate"
    <2>1. /\ wpc[u] = "switch" /\ owner' = [owner EXCEPT ![u] = FALSE]
          /\ wpc' = [wpc EXCEPT ![u] = "exited"]
          /\ UNCHANGED <<hostVars, Done, state, job, spurious, runs>>
      BY <1>7 DEF Switch
    <2>2. TypeOK' BY <2>1 DEF IInv, TypeOK, hostVars, WorkerPC
    <2>3. WorkerOK' BY <1>1, <1>2, <1>7, <2>1 DEF IInv, WorkerOK
    <2>4. (Active(u)' <=> Active(u)) /\ (Pending(u)' <=> Pending(u))
      BY <1>1, <1>7, <2>1 DEF Active, Pending
    <2> QED BY <1>1, <2>1, <2>2, <2>3, <2>4, WorkerQuiet
  <1>8. CASE Switch(u) /\ state[u] \notin {"terminate", "execute"}
    <2>1. /\ wpc[u] = "switch" /\ wpc' = [wpc EXCEPT ![u] = "tired"]
          /\ UNCHANGED <<hostVars, Done, state, job, owner, spurious, runs>>
      BY <1>8 DEF Switch
    <2>2. TypeOK' BY <2>1 DEF IInv, TypeOK, hostVars, WorkerPC
    <2>3. WorkerOK' BY <1>1, <1>2, <1>8, <2>1 DEF IInv, WorkerOK
    <2>4. (Active(u)' <=> Active(u)) /\ (Pending(u)' <=> Pending(u))
      BY <1>1, <1>8, <2>1 DEF Active, Pending
    <2> QED BY <1>1, <2>1, <2>2, <2>3, <2>4, WorkerQuiet
  <1> QED BY <1>3, <1>4, <1>5, <1>6, <1>7, <1>8

(* The job that w was given runs.                                          *)
LEMMA ExecuteStep ==
  ASSUME IInv, NEW u \in Worker, Switch(u), state[u] = "execute"
  PROVE  /\ IInv'
         /\ Busy /\ job[u] \in PipelineJob /\ runs[job[u]] = 0
         /\ runs' = [runs EXCEPT ![job[u]] = 1]
  <1> USE Numbers
  <1>1. /\ DOMAIN wpc = Worker /\ DOMAIN runs = Job
        /\ \A w \in Worker : job[w] \in PipelineJob
    BY DEF IInv, TypeOK
  <1>2. /\ wpc[u] = "switch" /\ wpc' = [wpc EXCEPT ![u] = "flag"]
        /\ runs' = [runs EXCEPT ![job[u]] = @ + 1]
        /\ UNCHANGED <<hostVars, Done, state, job, owner, spurious>>
    BY DEF Switch, Ran
  <1>3. Pending(u) /\ Active(u) BY <1>2 DEF Pending, Active
  <1>4. Busy /\ runs[job[u]] = 0 /\ job[u] \in Given /\ ~Done[job[u]]
    BY <1>3 DEF IInv, JobsOK
  <1>5. runs' = [runs EXCEPT ![job[u]] = 1] BY <1>1, <1>2, <1>4
  <1>6. /\ hpc' = hpc /\ hid' = hid /\ Busy' = Busy /\ dispatches' = dispatches
        /\ Given' = Given /\ HostOK'
    BY <1>1, <1>2, WorkerMoves
  <1>7. TypeOK' BY <1>2, <1>5 DEF IInv, TypeOK, hostVars, WorkerPC
  <1>8. WorkerOK' BY <1>1, <1>2 DEF IInv, WorkerOK
  <1>9. \A w \in Worker : (Active(w)' <=> Active(w)) /\ (Pending(w)' <=> Pending(w) /\ w # u)
    BY <1>1, <1>2, <1>3 DEF Active, Pending
  <1>10. JobsOK'
    <2>1. \A j \in Job : runs'[j] = IF j = job[u] THEN 1 ELSE runs[j] BY <1>1, <1>5
    <2>2. Given \subseteq PipelineJob BY DEF Given
    <2>3. \A w \in Worker : w # u /\ Active(w) => job[w] # job[u]
      BY <1>3, <1>4 DEF IInv, JobsOK
    <2>4. \A w \in Worker : Pending(w) => Active(w) BY DEF Active
    <2>5. ASSUME NEW j \in Given
          PROVE  runs'[j] = 1 \/ \E w \in Worker : Pending(w)' /\ job'[w] = j
      <3>1. CASE j = job[u] BY <2>1, <2>2, <3>1
      <3>2. CASE j # job[u]
        <4>1. CASE runs[j] = 1 BY <2>1, <2>2, <4>1
        <4>2. ASSUME NEW w \in Worker, Pending(w), job[w] = j
              PROVE  Pending(w)' /\ job'[w] = j
          BY <1>2, <1>9, <3>2, <4>2
        <4> QED BY <1>4, <4>1, <4>2 DEF IInv, JobsOK
      <3> QED BY <3>1, <3>2
    <2>6. \A w \in Worker : Pending(w)' => runs'[job'[w]] = 0
      BY <1>1, <1>2, <1>4, <1>9, <2>1, <2>3, <2>4 DEF IInv, JobsOK
    <2>7. /\ \A j \in Job : runs'[j] \in {0, 1}
          /\ \A j \in PipelineJob \ Given : runs'[j] = 0
          /\ \A j \in Given : Done[j] => runs'[j] = 1
          /\ runs'[Straggler] = runs[Straggler]
      BY <1>1, <1>4, <2>1, <2>2 DEF IInv, JobsOK
    <2>8. \A w \in Worker : Active(w)' => job'[w] \in Given /\ ~Done'[job'[w]]
      BY <1>2, <1>4, <1>9 DEF IInv, JobsOK
    <2>9. \A v, w \in Worker : Active(v)' /\ Active(w)' /\ job'[v] = job'[w] => v = w
      BY <1>2, <1>4, <1>9 DEF IInv, JobsOK
    <2>10. hpc # "ready" /\ runs[Straggler] = IF hpc = "wait" THEN 1 ELSE 0
      BY <1>4 DEF IInv, JobsOK, HostOK
    <2> QED BY <1>2, <1>4, <1>6, <2>5, <2>6, <2>7, <2>8, <2>9, <2>10 DEF IInv, JobsOK
  <1> QED BY <1>1, <1>4, <1>5, <1>6, <1>7, <1>8, <1>10 DEF IInv

(* Its flag is set.                                                        *)
LEMMA SetFlagStep ==
  ASSUME IInv, NEW u \in Worker, SetFlag(u)
  PROVE  IInv'
  <1> USE Numbers
  <1>1. /\ DOMAIN wpc = Worker /\ DOMAIN Done = PipelineJob
        /\ \A w \in Worker : job[w] \in PipelineJob
    BY DEF IInv, TypeOK
  <1>2. /\ wpc[u] = "flag" /\ wpc' = [wpc EXCEPT ![u] = "tired"]
        /\ Done' = [Done EXCEPT ![job[u]] = TRUE]
        /\ UNCHANGED <<hostVars, state, job, owner, spurious, runs>>
    BY DEF SetFlag
  <1>3. Active(u) /\ ~Pending(u) BY <1>2 DEF Pending, Active
  <1>4. Busy /\ job[u] \in Given /\ ~Done[job[u]] BY <1>3 DEF IInv, JobsOK
  <1>5. runs[job[u]] = 1
    <2>1. \A w \in Worker : Pending(w) => Active(w) BY DEF Active
    <2>2. ~\E w \in Worker : Pending(w) /\ job[w] = job[u]
      BY <1>3, <1>4, <2>1 DEF IInv, JobsOK
    <2> QED BY <1>4, <2>2 DEF IInv, JobsOK
  <1>6. Done'[job[u]] /\ \A j \in PipelineJob : j # job[u] => Done'[j] = Done[j]
    BY <1>1, <1>2
  <1>7. /\ hpc' = hpc /\ hid' = hid /\ Busy' = Busy /\ dispatches' = dispatches
        /\ Given' = Given /\ HostOK'
    <2>1. \A j \in PipelineJob : Done[j] => Done'[j] BY <1>6
    <2>2. \A j \in PipelineJob \ Given : Done'[j] = Done[j] BY <1>4, <1>6
    <2> QED BY <1>1, <1>2, <2>1, <2>2, WorkerMoves
  <1>8. TypeOK' BY <1>2 DEF IInv, TypeOK, hostVars, WorkerPC
  <1>9. WorkerOK' BY <1>1, <1>2 DEF IInv, WorkerOK
  <1>10. /\ ~Active(u)' /\ ~Pending(u)'
         /\ \A w \in Worker : w # u =>
              (Active(w)' <=> Active(w)) /\ (Pending(w)' <=> Pending(w))
    <2>1. wpc'[u] = "tired" /\ \A w \in Worker : w # u => wpc'[w] = wpc[w] BY <1>1, <1>2
    <2>2. ~Active(u)' /\ ~Pending(u)' BY <1>2, <2>1 DEF Active, Pending
    <2>3. ASSUME NEW w \in Worker, w # u
          PROVE  (Active(w)' <=> Active(w)) /\ (Pending(w)' <=> Pending(w))
      BY <1>2, <2>1, <2>3 DEF Active, Pending
    <2> QED BY <2>2, <2>3
  <1>11. JobsOK'
    <2>1. \A w \in Worker : w # u /\ Active(w) => job[w] # job[u]
      BY <1>3, <1>4 DEF IInv, JobsOK
    <2>2. ASSUME NEW w \in Worker, Active(w)'
          PROVE  job'[w] \in Given /\ ~Done'[job'[w]]
      <3>1. w # u /\ Active(w) BY <1>10, <2>2
      <3>2. job[w] \in Given /\ ~Done[job[w]] /\ job[w] # job[u]
        BY <1>4, <2>1, <3>1 DEF IInv, JobsOK
      <3> QED BY <1>1, <1>2, <1>6, <3>2
    <2>3. job[u] \in PipelineJob /\ ~(job[u] > NumWorker)
      <3>1. hpc \in {"dispatch", "search"} => hid \in 0 .. NumWorker
        BY DEF IInv, HostOK, Worker
      <3> QED BY <1>1, <1>4, <3>1 DEF Given, PipelineJob
    <2>4. \A j \in PipelineJob : j > NumWorker => ~Done'[j]
      BY <1>6, <2>3 DEF IInv, JobsOK
    <2>5. \A j \in Given : Done'[j] => runs'[j] = 1
      BY <1>2, <1>4, <1>5, <1>6 DEF IInv, JobsOK, Given
    <2>6. hpc # "ready" BY <1>4 DEF IInv, HostOK
    <2>7. \A w \in Worker : Active(w)' => Active(w) /\ w # u BY <1>10
    <2>8. \A w \in Worker : Pending(w)' <=> Pending(w) BY <1>3, <1>10
    <2>9. \A w \in Worker : Pending(w)' => runs'[job'[w]] = 0
      BY <1>2, <1>4, <2>8 DEF IInv, JobsOK
    <2>10. \A v, w \in Worker : Active(v)' /\ Active(w)' /\ job'[v] = job'[w] => v = w
      BY <1>2, <1>4, <2>7 DEF IInv, JobsOK
    <2>11. \A j \in Given : runs'[j] = 1 \/ \E w \in Worker : Pending(w)' /\ job'[w] = j
      BY <1>2, <1>4, <2>8 DEF IInv, JobsOK
    <2>12. /\ \A j \in Job : runs'[j] \in {0, 1}
           /\ \A j \in PipelineJob \ Given : runs'[j] = 0
           /\ runs'[Straggler] = IF hpc = "wait" THEN 1 ELSE 0
      BY <1>2, <1>4 DEF IInv, JobsOK
    <2> QED BY <1>4, <1>7, <2>2, <2>4, <2>5, <2>6, <2>9, <2>10, <2>11, <2>12 DEF JobsOK
  <1> QED BY <1>7, <1>8, <1>9, <1>11 DEF IInv

LEMMA InvariantNext == IInv /\ [Next]_vars => IInv'
  <1> SUFFICES ASSUME IInv, [Next]_vars PROVE IInv' OBVIOUS
  <1>1. CASE HostStep
    BY <1>1, BootStep, DispatchStep, DispatchJobStep, SearchStep, RunStragglerStep,
       WaitStep, HaltStep, TerminateStep
    DEF HostStep
  <1>2. ASSUME NEW w \in Worker, WorkerStep(w) \/ SpuriousWakeup(w) PROVE IInv'
    <2>1. CASE Lock(w) \/ FallAsleep(w) \/ CondWait(w) \/ SpuriousWakeup(w)
      BY <2>1, QuietStep
    <2>2. CASE Switch(w)
      <3>1. CASE state[w] = "execute" BY <2>2, <3>1, ExecuteStep
      <3>2. CASE state[w] # "execute" BY <2>2, <3>2, QuietStep
      <3> QED BY <3>1, <3>2
    <2>3. CASE SetFlag(w) BY <2>3, SetFlagStep
    <2> QED BY <1>2, <2>1, <2>2, <2>3 DEF WorkerStep
  <1>3. CASE UNCHANGED vars
    <2>1. UNCHANGED <<hpc, hid, Id, Busy, dispatches, Done, state, job, owner, wpc, spurious, runs>>
      BY <1>3 DEF vars, hostVars
    <2>2. WorkerOK' /\ \A w : Active(w)' = Active(w) /\ Pending(w)' = Pending(w)
      BY <2>1, HostMoves
    <2>3. TypeOK' BY <2>1 DEF IInv, TypeOK
    <2>4. HostOK' BY <2>1 DEF IInv, HostOK
    <2>5. Given' = Given BY <2>1 DEF Given
    <2>6. JobsOK' BY <2>1, <2>2, <2>5 DEF IInv, JobsOK
    <2> QED BY <2>2, <2>3, <2>4, <2>6 DEF IInv
  <1> QED BY <1>1, <1>2, <1>3 DEF Next, Finished

(* What the host knows of its workers from the flags alone, while it waits *)
(* and after, for any number of pipelines, dispatches and wakeups.         *)
THEOREM DispatcherInvariant == Spec => []IInv
  BY InvariantInit, InvariantNext, PTL DEF Spec

-----------------------------------------------------------------------------
(* Every variable of the dispatcher keeps its type: the workers and jobs   *)
(* the host indexes exist, and no job runs more than twice.                *)
THEOREM TypeCorrect == Spec => []TypeOK
  <1>1. IInv => TypeOK BY DEF IInv
  <1> QED BY <1>1, DispatcherInvariant, PTL

(* thread_wait returns only when every job of the dispatch has run exactly *)
(* once, and no worker will run one again.                                 *)
THEOREM JobsAlwaysRunOnce == Spec => []JobsRunOnce
  <1>1. ASSUME IInv, hpc = "ready", dispatches > 0
        PROVE  /\ \A j \in Job : runs[j] = 1
               /\ \A w \in Worker : state[w] = "execute" => wpc[w] = "tired"
    <2>1. ~Busy BY <1>1 DEF IInv, HostOK
    <2>2. \A w \in Worker : ~Active(w) BY <1>1, <2>1 DEF IInv, JobsOK
    <2>3. \A w \in Worker : state[w] = "execute" => wpc[w] = "tired"
      BY <1>1, <2>2 DEF IInv, WorkerOK, Active, Pending
    <2> QED BY <1>1, <2>3 DEF IInv, JobsOK
  <1>2. IInv => JobsRunOnce BY <1>1 DEF JobsRunOnce
  <1> QED BY <1>2, DispatcherInvariant, PTL

(* Once the host has joined all workers it destroys mutexes that nobody    *)
(* holds or will lock.                                                     *)
THEOREM DestroyedNeverUsed == Spec => []DestroyedUnused
  <1>1. IInv => DestroyedUnused BY DEF IInv, HostOK, WorkerOK, DestroyedUnused
  <1> QED BY <1>1, DispatcherInvariant, PTL

(* The host gives a job to a worker that sleeps only, so a job that has    *)
(* been handed out and not flagged is never overwritten.                   *)
THEOREM AssignedJobAlwaysKept == Spec => AssignedJobKept
  <1>1. ASSUME IInv, Next, NEW w \in Worker, state[w] = "execute"
        PROVE  job'[w] = job[w]
    <2>1. CASE Search
      <3>1. DOMAIN job = Worker BY <1>1 DEF IInv, TypeOK
      <3>2. CASE UNCHANGED job BY <3>2
      <3>3. CASE state[Id] = "sleep" /\ job' = [job EXCEPT ![Id] = hid]
        BY <1>1, <3>1, <3>3
      <3> QED BY <2>1, <3>2, <3>3 DEF Search, Available
    <2>2. CASE HostStep /\ ~Search
      BY <2>2 DEF HostStep, BootCreate, BootSpin, Dispatch, DispatchJob, RunStraggler, Wait,
                  Halt, Terminate, Join, Destroy
    <2>3. CASE \E u \in Worker : WorkerStep(u) \/ SpuriousWakeup(u)
      BY <2>3 DEF WorkerStep, SpuriousWakeup, Lock, Switch, SetFlag, FallAsleep, CondWait
    <2>4. CASE Finished BY <2>4 DEF Finished, vars
    <2> QED BY <1>1, <2>1, <2>2, <2>3, <2>4 DEF Next
  <1>2. IInv /\ [Next]_vars =>
          [\A w \in Worker :
             state[w] = "execute" /\ wpc[w] \in {"waking", "switch", "flag"} =>
               job'[w] = job[w]]_vars
    BY <1>1
  <1> QED BY <1>2, DispatcherInvariant, PTL DEF Spec, AssignedJobKept

-----------------------------------------------------------------------------
(* A job that runs, on a worker or on the host, is Run of ForkJoin.        *)
LEMMA RunsJob ==
  ASSUME Busy, UNCHANGED Busy, NEW k \in Job, runs[k] = 0,
         runs' = [runs EXCEPT ![k] = 1]
  PROVE  JoinSpec!Run(k)
  BY DEF JoinSpec!Run

(* DispatchJob hands a job to the workers, or runs one on the host.        *)
LEMMA DispatchJobRuns ==
  ASSUME IInv, DispatchJob
  PROVE  JoinSpec!Next \/ UNCHANGED <<Busy, runs>>
  <1> USE Numbers
  <1>1. hpc = "dispatch" /\ Busy /\ hid \in 0 .. NumWorker /\ UNCHANGED Busy
    BY DEF DispatchJob, IInv, HostOK
  <1>2. CASE hid = NumWorker /\ DispatchToHost # 0 /\ runs' = [runs EXCEPT ![hid] = @ + 1]
    <2>1. NumWorker \in PipelineJob \ Given BY <1>1, <1>2 DEF Given
    <2>2. runs[NumWorker] = 0 /\ NumWorker \in Job
      BY <1>1, <2>1 DEF IInv, JobsOK
    <2>3. runs' = [runs EXCEPT ![NumWorker] = 1] BY <1>2, <2>2
    <2>4. JoinSpec!Run(NumWorker) BY <1>1, <2>2, <2>3, RunsJob
    <2> QED BY <2>2, <2>4 DEF JoinSpec!Next
  <1>3. CASE UNCHANGED runs BY <1>1, <1>3
  <1> QED BY <1>1, <1>2, <1>3 DEF DispatchJob, Ran

LEMMA StragglerRuns ==
  ASSUME IInv, RunStraggler
  PROVE  JoinSpec!Next
  <1> USE Numbers
  <1>1. /\ hpc = "straggler" /\ Busy /\ UNCHANGED Busy
        /\ runs' = [runs EXCEPT ![Straggler] = @ + 1]
    BY DEF RunStraggler, Ran, IInv, HostOK
  <1>2. runs[Straggler] = 0 BY <1>1 DEF IInv, JobsOK
  <1>3. runs' = [runs EXCEPT ![Straggler] = 1] BY <1>1, <1>2
  <1>4. JoinSpec!Run(Straggler) BY <1>1, <1>2, <1>3, RunsJob
  <1> QED BY <1>4 DEF JoinSpec!Next

(* The end of the wait is Wait of ForkJoin: all jobs have run.             *)
LEMMA WaitJoins ==
  ASSUME IInv, Wait
  PROVE  JoinSpec!Next \/ UNCHANGED <<Busy, runs>>
  <1>1. CASE UNCHANGED Busy BY <1>1 DEF Wait
  <1>2. CASE hid = NPipeline /\ Busy' = FALSE
    <2>1. hpc = "wait" /\ Busy BY DEF Wait, IInv, HostOK
    <2>2. \A j \in Job : runs[j] = 1 BY <1>2, <2>1, AllRan
    <2>3. UNCHANGED runs BY DEF Wait
    <2>4. JoinSpec!Wait BY <1>2, <2>1, <2>2, <2>3 DEF JoinSpec!Wait
    <2> QED BY <2>4 DEF JoinSpec!Next
  <1> QED BY <1>1, <1>2 DEF Wait

LEMMA DispatchForks ==
  ASSUME Dispatch
  PROVE  JoinSpec!Next
  BY DEF Dispatch, JoinSpec!Next, JoinSpec!Dispatch

(* The threaded dispatcher does what ForkJoin promises: between a dispatch *)
(* and the end of its wait every job runs exactly once, no job runs a      *)
(* second time, and none runs when no dispatch is under way.               *)
THEOREM ImplementsForkJoin == Spec => ForkJoinSpec
  <1>1. Init => JoinSpec!Init BY DEF Init, JoinSpec!Init
  <1>2. IInv /\ [Next]_vars => [JoinSpec!Next]_<<Busy, runs>>
    <2> SUFFICES ASSUME IInv, [Next]_vars
                 PROVE  JoinSpec!Next \/ UNCHANGED <<Busy, runs>>
      OBVIOUS
    <2>1. CASE HostStep
      <3>1. CASE BootCreate \/ BootSpin \/ Search \/ Halt \/ Terminate \/ Join \/ Destroy
        BY <3>1 DEF BootCreate, BootSpin, Search, Halt, Terminate, Join, Destroy
      <3> QED BY <2>1, <3>1, DispatchForks, DispatchJobRuns, StragglerRuns, WaitJoins
              DEF HostStep
    <2>2. ASSUME NEW w \in Worker, WorkerStep(w) \/ SpuriousWakeup(w)
          PROVE  JoinSpec!Next \/ UNCHANGED <<Busy, runs>>
      <3>1. UNCHANGED Busy
        BY <2>2 DEF WorkerStep, SpuriousWakeup, Lock, Switch, SetFlag, FallAsleep, CondWait,
                    hostVars
      <3>2. CASE Switch(w) /\ state[w] = "execute"
        <4>1. /\ Busy /\ job[w] \in Job /\ runs[job[w]] = 0
              /\ runs' = [runs EXCEPT ![job[w]] = 1]
          BY <3>2, ExecuteStep, Numbers
        <4>2. PICK k \in Job : k = job[w] BY <4>1
        <4>3. JoinSpec!Run(k) BY <3>1, <4>1, <4>2, RunsJob
        <4> QED BY <4>3 DEF JoinSpec!Next
      <3>3. CASE Switch(w) /\ state[w] # "execute" BY <3>1, <3>3 DEF Switch
      <3>4. CASE ~Switch(w)
        BY <2>2, <3>1, <3>4 DEF WorkerStep, SpuriousWakeup, Lock, SetFlag, FallAsleep, CondWait
      <3> QED BY <3>2, <3>3, <3>4
    <2>3. CASE UNCHANGED vars BY <2>3 DEF vars, hostVars
    <2> QED BY <2>1, <2>2, <2>3 DEF Next, Finished
  <1> QED BY <1>1, <1>2, DispatcherInvariant, PTL DEF Spec, ForkJoinSpec, JoinSpec!Spec
=============================================================================
