----------------------------- MODULE Compress -----------------------------
(***************************************************************************)
(* The particle list of one species on the device in a step.               *)
(*                                                                         *)
(* The kernel of advance_p lists the particles that leave: an iteration    *)
(* looks whether the mover list has room, then takes a place in it with an *)
(* atomic increment, and aborts the run if others took the last one in     *)
(* between.  It leaves nm movers; pm[0..nm-1] are the indices of the       *)
(* particles that leave, in the order the iterations took.                 *)
(*                                                                         *)
(* DefaultCompress::compress moves particles from the end of the list into *)
(* these gaps with three kernels.  The iterations of a kernel run in any   *)
(* order and at the same time; a kernel starts when the one before it has  *)
(* ended.  A gap inside the last nm slots spoils the plain one-to-one      *)
(* move: such sources and targets are matched in a clean-up pass, through  *)
(* two lists with one atomic counter each.  copy_inbound_to_device then    *)
(* appends the received particles.                                         *)
(*                                                                         *)
(* A particle is named by its index when advance_p ended, a received one   *)
(* by its index in k_pr_h.                                                 *)
(***************************************************************************)
EXTENDS Integers, FiniteSets, Functions

CONSTANTS
  MaxNp,    \* max_np, the size of k_p_d
  MaxNm,    \* max_nm, the size of the mover and clean-up arrays
  MaxStep   \* bound on the number of time steps

ASSUME SizeAssumption ==
  /\ MaxNp \in Nat
  /\ MaxNm \in Nat
  /\ MaxStep \in Nat

Slot == 0 .. MaxNp - 1
Iteration == 0 .. MaxNm - 1

Old(i) == <<"old", i>>
New(i) == <<"new", i>>
None == <<"none", 0>>
Name == {Old(i) : i \in Slot} \cup {New(i) : i \in Iteration} \cup {None}

VARIABLES
  phase,            \* the kernel that runs
  step,             \* completed time steps
  np, nm,           \* the number of particles and of movers
  pm,               \* pm[n]: particle_movers_i(n), the gaps
  leaving,          \* the particles that cross a boundary in this step
  moving,           \* moving[i]: how far the iteration of leaving particle i is
  particles,        \* particles[i]: which particle slot i of k_p_d holds
  num_to_copy,      \* the number of received particles in k_pr_h
  unsafe_index,     \* unsafe_index[k]: slot np-1-k is a gap
  clean_up_from,    \* slots whose particle has still to move
  clean_up_to,      \* gaps that have still to be filled
  from_count,       \* clean_up_from_count
  to_count,         \* clean_up_to_count
  at,               \* at[n]: how far iteration n of the kernel is
  reg,              \* reg[n]: the list position iteration n reserved
  held              \* held[n]: the particle iteration n has loaded

pushVars == <<leaving, moving>>
listVars == <<step, np, nm, pm, num_to_copy, pushVars>>
cleanVars == <<clean_up_from, clean_up_to, from_count, to_count>>
vars == <<phase, listVars, particles, unsafe_index, cleanVars, at, reg, held>>

Phase == {"advance", "push", "abort", "reset", "mark", "fill", "clean_up", "append"}
Crosses == <<"crosses", 0>>     \* move_p_kokkos has stopped the particle
HasRoom == <<"has room", 0>>    \* the iteration has seen k_nm < max_nm
Place(k) == <<"place", k>>      \* it has place k of the mover list
At == {"ready", "from", "to", "loaded", "done"}

TypeOK ==
  /\ phase \in Phase
  /\ step \in 0 .. MaxStep
  /\ np \in 0 .. MaxNp
  /\ nm \in 0 .. MaxNm
  /\ nm <= np
  /\ DOMAIN pm \subseteq 0 .. nm - 1 /\ Range(pm) \subseteq leaving
  /\ leaving \subseteq 0 .. np - 1 /\ DOMAIN moving \subseteq leaving
  /\ Range(moving) \subseteq {Crosses, HasRoom} \cup {Place(k) : k \in 0 .. nm - 1}
  /\ particles \in [Slot -> Name]
  /\ num_to_copy \in 0 .. MaxNm
  /\ unsafe_index \in [0 .. 2*MaxNm - 1 -> BOOLEAN]
  /\ clean_up_from \in [Iteration -> Nat]
  /\ clean_up_to \in [Iteration -> Nat]
  /\ from_count \in 0 .. MaxNm
  /\ to_count \in 0 .. MaxNm
  /\ at \in [Iteration -> At]
  /\ reg \in [Iteration -> Nat]
  /\ held \in [Iteration -> Name]

-----------------------------------------------------------------------------
Distinct(f) == \A i, j \in DOMAIN f : f[i] = f[j] => i = j
Gap == {pm[n] : n \in DOMAIN pm}

\* The last nm slots are given up; the kernels index the last 2*nm in reverse.
DangerZone == np - nm
CutOff == np - 2*nm
ReverseOffByOne(i) == np - i
Reverse(i) == np - 1 - i

\* Iteration n of the fill kernel: take the n-th particle from the end and put
\* it in the n-th gap from the end of the mover list.
PullFrom(n) == np - 1 - n
WriteToUnmapped(n) == nm - n - 1
WriteTo(n) == pm[nm - n - 1]
GapIsGivenUp(n) == WriteTo(n) >= DangerZone
SourceIsGap(n) == unsafe_index[n]

\* Whether the iteration that got number k from the increment ends the run.
AbortsNever(k) == FALSE
Aborts(k) == k >= MaxNm

\* The three things iteration n may do.
NeedsTargetAlways(n) == PullFrom(n) # WriteTo(n) /\ GapIsGivenUp(n)
NeedsTarget(n) == PullFrom(n) # WriteTo(n) /\ GapIsGivenUp(n) /\ ~SourceIsGap(n)
NeedsSource(n) == ~GapIsGivenUp(n) /\ SourceIsGap(n)
MovesDirectly(n) == ~GapIsGivenUp(n) /\ ~SourceIsGap(n)

\* np after np -= nm.
RemainingAll == np
Remaining == np - nm

\* What the reset before the kernels leaves in clean_up_to_count.
CountKept(count) == count
CountCleared(count) == 0
-----------------------------------------------------------------------------
Init ==
  /\ phase = "advance"
  /\ step = 0
  /\ np \in 0 .. MaxNp
  /\ nm = 0
  /\ pm = [n \in 0 .. -1 |-> 0]
  /\ leaving = {}
  /\ moving = [i \in {} |-> Crosses]
  /\ particles = [i \in Slot |-> None]
  /\ num_to_copy = 0
  /\ unsafe_index = [k \in 0 .. 2*MaxNm - 1 |-> FALSE]
  /\ clean_up_from = [n \in Iteration |-> 0]
  /\ clean_up_to = [n \in Iteration |-> 0]
  /\ from_count = 0
  /\ to_count = 0
  /\ at = [n \in Iteration |-> "done"]
  /\ reg = [n \in Iteration |-> 0]
  /\ held = [n \in Iteration |-> None]

\* A kernel of count iterations starts.
Launch(next, count) ==
  /\ phase' = next
  /\ at' = [n \in Iteration |-> IF n < count THEN "ready" ELSE "done"]
  /\ reg' = [n \in Iteration |-> 0]
  /\ held' = [n \in Iteration |-> None]
KernelEnded == \A n \in Iteration : at[n] = "done"

\* advance_p starts: k_nm is cleared, and some particles will leave; bound: at most
\* one more than there is room for.
AdvanceP ==
  /\ phase = "advance"
  /\ step < MaxStep
  /\ particles' = [i \in Slot |-> IF i < np THEN Old(i) ELSE None]
  /\ leaving' \in {s \in SUBSET (0 .. np - 1) : Cardinality(s) <= MaxNm + 1}
  /\ moving' = [i \in leaving' |-> Crosses]
  /\ nm' = 0
  /\ phase' = "push"
  /\ UNCHANGED <<step, np, pm, num_to_copy, unsafe_index, cleanVars, at, reg, held>>

\* The iteration of particle i looks for room; if there is none, it does nothing
\* more and the particle is not listed.
LookForRoom(i) ==
  /\ phase = "push"
  /\ moving[i] = Crosses
  /\ moving' = IF nm < MaxNm THEN [moving EXCEPT ![i] = HasRoom]
               ELSE Restrict(moving, DOMAIN moving \ {i})
  /\ UNCHANGED <<phase, step, np, nm, pm, num_to_copy, leaving, particles, unsafe_index,
                 cleanVars, at, reg, held>>

\* atomic_fetch_add.
TakePlace(i) ==
  /\ phase = "push"
  /\ moving[i] = HasRoom
  /\ IF Aborts(nm) THEN phase' = "abort" /\ UNCHANGED <<nm, moving>>
     ELSE nm' = nm + 1 /\ moving' = [moving EXCEPT ![i] = Place(nm)] /\ UNCHANGED phase
  /\ UNCHANGED <<step, np, pm, num_to_copy, leaving, particles, unsafe_index, cleanVars,
                 at, reg, held>>

StoreMover(i) ==
  /\ phase = "push"
  /\ \E k \in 0 .. nm - 1 :
       /\ moving[i] = Place(k)
       /\ pm' = [n \in DOMAIN pm \cup {k} |-> IF n = k THEN i ELSE pm[n]]
  /\ moving' = Restrict(moving, DOMAIN moving \ {i})
  /\ UNCHANGED <<phase, step, np, nm, num_to_copy, leaving, particles, unsafe_index,
                 cleanVars, at, reg, held>>

\* The kernel has ended; in the communication rounds particles are received.
PushEnds ==
  /\ phase = "push"
  /\ DOMAIN moving = {}
  /\ num_to_copy' \in {k \in 0 .. MaxNm : np - nm + k <= MaxNp}
  /\ phase' = "reset"
  /\ UNCHANGED <<step, np, nm, pm, pushVars, particles, unsafe_index, cleanVars, at, reg, held>>

\* The counters and as much of the arrays as this call uses are cleared.
Reset ==
  /\ phase = "reset"
  /\ from_count' = CountCleared(from_count)
  /\ to_count' = CountCleared(to_count)
  /\ clean_up_from' = [n \in Iteration |-> IF n < nm THEN 0 ELSE clean_up_from[n]]
  /\ clean_up_to' = [n \in Iteration |-> IF n < nm THEN 0 ELSE clean_up_to[n]]
  /\ unsafe_index' = [k \in 0 .. 2*MaxNm - 1 |-> k >= 2*nm /\ unsafe_index[k]]
  /\ Launch("mark", nm)
  /\ UNCHANGED <<listVars, particles>>

\* The first kernel marks the gaps among the last 2*nm slots.
Mark(n) ==
  /\ phase = "mark"
  /\ at[n] = "ready"
  /\ unsafe_index' = IF pm[n] >= CutOff
                       THEN [unsafe_index EXCEPT ![Reverse(pm[n])] = TRUE]
                       ELSE unsafe_index
  /\ at' = [at EXCEPT ![n] = "done"]
  /\ UNCHANGED <<phase, listVars, particles, cleanVars, reg, held>>

MarkEnds ==
  /\ phase = "mark"
  /\ KernelEnded
  /\ Launch("fill", nm)
  /\ UNCHANGED <<listVars, particles, unsafe_index, cleanVars>>

\* The second kernel.  An iteration reserves a place in a clean-up list with an
\* atomic increment and stores into it later, or loads a particle and stores it
\* later, or has nothing to do.
Fill(n) ==
  /\ phase = "fill"
  /\ at[n] = "ready"
  /\ \/ /\ NeedsTarget(n)
        /\ from_count' = from_count + 1
        /\ reg' = [reg EXCEPT ![n] = from_count]
        /\ at' = [at EXCEPT ![n] = "from"]
        /\ UNCHANGED <<to_count, held>>
     \/ /\ NeedsSource(n)
        /\ to_count' = to_count + 1
        /\ reg' = [reg EXCEPT ![n] = to_count]
        /\ at' = [at EXCEPT ![n] = "to"]
        /\ UNCHANGED <<from_count, held>>
     \/ /\ MovesDirectly(n)
        /\ held' = [held EXCEPT ![n] = particles[PullFrom(n)]]
        /\ at' = [at EXCEPT ![n] = "loaded"]
        /\ UNCHANGED <<from_count, to_count, reg>>
     \/ /\ ~NeedsTarget(n) /\ ~NeedsSource(n) /\ ~MovesDirectly(n)
        /\ at' = [at EXCEPT ![n] = "done"]
        /\ UNCHANGED <<from_count, to_count, reg, held>>
  /\ UNCHANGED <<phase, listVars, particles, unsafe_index, clean_up_from, clean_up_to>>

FillStores(n) ==
  /\ phase = "fill"
  /\ \/ /\ at[n] = "from"
        /\ clean_up_from' = [clean_up_from EXCEPT ![reg[n]] = PullFrom(n)]
        /\ UNCHANGED <<clean_up_to, particles>>
     \/ /\ at[n] = "to"
        /\ clean_up_to' = [clean_up_to EXCEPT ![reg[n]] = WriteTo(n)]
        /\ UNCHANGED <<clean_up_from, particles>>
     \/ /\ at[n] = "loaded"
        /\ particles' = [particles EXCEPT ![WriteTo(n)] = held[n]]
        /\ UNCHANGED <<clean_up_from, clean_up_to>>
  /\ at' = [at EXCEPT ![n] = "done"]
  /\ UNCHANGED <<phase, listVars, unsafe_index, from_count, to_count, reg, held>>

\* The size of the third kernel is the number of sources alone.
FillEnds ==
  /\ phase = "fill"
  /\ KernelEnded
  /\ Launch("clean_up", from_count)
  /\ UNCHANGED <<listVars, particles, unsafe_index, cleanVars>>

\* The third kernel matches the two clean-up lists.
CleanUp(n) ==
  /\ phase = "clean_up"
  /\ \/ /\ at[n] = "ready"
        /\ held' = [held EXCEPT ![n] = particles[clean_up_from[n]]]
        /\ at' = [at EXCEPT ![n] = "loaded"]
        /\ UNCHANGED particles
     \/ /\ at[n] = "loaded"
        /\ particles' = [particles EXCEPT ![clean_up_to[n]] = held[n]]
        /\ at' = [at EXCEPT ![n] = "done"]
        /\ UNCHANGED held
  /\ UNCHANGED <<phase, listVars, unsafe_index, cleanVars, reg>>

CleanUpEnds ==
  /\ phase = "clean_up"
  /\ KernelEnded
  /\ Launch("append", 0)
  /\ UNCHANGED <<listVars, particles, unsafe_index, cleanVars>>

\* np -= nm and copy_inbound_to_device; nm = 0.
Append ==
  /\ phase = "append"
  /\ particles' = [i \in Slot |->
                     IF i \in Remaining .. Remaining + num_to_copy - 1
                       THEN New(i - Remaining) ELSE particles[i]]
  /\ np' = Remaining + num_to_copy
  /\ num_to_copy' = 0
  /\ nm' = 0
  /\ pm' = [n \in 0 .. -1 |-> 0]
  /\ leaving' = {}
  /\ step' = step + 1
  /\ phase' = "advance"
  /\ UNCHANGED <<moving, unsafe_index, cleanVars, at, reg, held>>

\* The last step is over, or the run was aborted.
Stop == (phase = "abort" \/ (phase = "advance" /\ step = MaxStep)) /\ UNCHANGED vars

Next ==
  \/ AdvanceP
  \/ \E i \in DOMAIN moving : LookForRoom(i) \/ TakePlace(i) \/ StoreMover(i)
  \/ PushEnds
  \/ Reset
  \/ \E n \in Iteration : Mark(n) \/ Fill(n) \/ FillStores(n) \/ CleanUp(n)
  \/ MarkEnds
  \/ FillEnds
  \/ CleanUpEnds
  \/ Append
  \/ Stop

Spec == Init /\ [][Next]_vars
-----------------------------------------------------------------------------
\* When advance_p has ended, the mover list has no hole and no particle twice; it
\* has every particle that leaves, or it is full.
MoversListed ==
  phase = "reset" =>
    /\ DOMAIN pm = 0 .. nm - 1 /\ Distinct(pm) /\ nm <= MaxNm
    /\ Gap = leaving \/ nm = MaxNm

\* When the kernels have ended, the first np-nm slots hold every particle that
\* stays exactly once and no particle that leaves.
Compacted ==
  phase = "append" =>
    LET kept == 0 .. np - nm - 1
    IN  /\ {particles[i] : i \in kept} = {Old(i) : i \in (0 .. np - 1) \ Gap}
        /\ \A i, j \in kept : particles[i] = particles[j] => i = j

\* The clean-up kernel takes its size from the sources alone: there is a target
\* for each of them, and no target is left over.
CleanUpBalanced == phase = "clean_up" => from_count = to_count

\* Within a kernel, no iteration reads or writes a slot of k_p_d that another
\* one writes ("is this true, and a very subtle race condition?").
Active(n) == \/ phase = "fill" /\ n < nm /\ MovesDirectly(n)
             \/ phase = "clean_up" /\ n < from_count
Reads(n) == IF phase = "fill" THEN PullFrom(n) ELSE clean_up_from[n]
Writes(n) == IF phase = "fill" THEN WriteTo(n) ELSE clean_up_to[n]
RaceFree ==
  \A n, k \in Iteration :
    n # k /\ Active(n) /\ Active(k) => Writes(n) \notin {Reads(k), Writes(k)}

\* A particle that stays and is not in the last nm slots is never moved or
\* overwritten.
StayersUntouched ==
  [][phase # "advance" =>
       \A i \in 0 .. np - nm - 1 : i \notin Gap => particles'[i] = particles[i]]_vars
=============================================================================
