# TLA+ models of VPIC 2.0 (vpic-kokkos)

VPIC is an explicit particle-in-cell plasma code.  Space is cut into boxes, one
per MPI rank; each rank pushes its particles on a device (through Kokkos),
exchanges the ones that leave its box with its neighbours, sums the currents,
and advances the fields.  The numerics are floating-point stencils; what can go
wrong in ways a test hardly shows is the *protocol* around them: who owns a
particle, which buffer holds what, which message meets which receive, and in
which order parallel iterations and threads touch shared arrays.  That is what
is modelled here.  Paths below are relative to the repository root; its C++
sources are in `src/`.

## Inventory

| Component | State it keeps | Operations | What is hard, what must hold |
|---|---|---|---|
| Time step driver (`src/vpic/advance.cc`, `deck/main.cc`) | step counter, the species, field and injection lists | `advance()`: sort, push, inject, exchange rounds, compress, sum currents, field solve, cleaning, diagnostics | the order of the phases; `nm = 0` at the end forgets whatever is still on a guard list |
| Particle push (`src/species_advance/standard/advance_p.cc`, `move_p.cc`, `species_advance.h`) | particle arrays `k_p_d`, mover list `k_pm_d`, copies `k_pc_d`, counter `k_nm_d` | parallel push; `move_p` takes a particle across cells until it rests or stops at a face | concurrent append to a bounded list |
| Particle exchange (`src/boundary/boundary_p.cc`) | guard list `pm`, `nm`; copies `k_pc_h`; received particles `k_pr_h`, `num_to_copy`; host accumulator of absorbed charge | `boundary_p_kokkos`, called `num_comm_round` times | two messages per port and round, same tag; blocking waits; particles in one place only; charge added once |
| List compression (`src/particle_operations/compress.h`, `copy_inbound_to_device`) | `k_p_d`, `np`, clean-up lists and counters | three kernels, then the append | races between parallel iterations; stale static arrays |
| Host/device mirrors (`src/species_advance/species_advance.cc`, `src/field_advance/field_advance.cc`, `src/sf_interface/interpolator_array.cc`, `src/vpic/misc.cc`) | the host and the device copy of particles, fields, interpolators, movers; `last_copied` | `copy_to_host`, `copy_to_device`, `copy_outbound_to_host`, `k_reduce_jf`, `inject_particle` | a copy that is stale when it is used; an event that only one side has seen |
| Dumps (`src/vpic/dump.cc`) | - | `dump_fields`, `dump_particles` | copies that are skipped; interpolators of another time |
| Message ports (`src/util/mp/DMPPolicy.h`) | buffers, sizes and requests of the ports | size, begin and end of sends and receives, barriers, sums, turnstile | resizing while in flight, sizes agreed by both ends |
| Field communication (`src/field_advance/standard/remote.cc`, `src/grid/grid_comm.cc`) | ghost values, shared faces | ghost exchange per axis; synchronisation of jf, rho, tangential e, normal b | both owners of a face end with the same value; corners need the axes in order |
| Pipeline dispatchers (`src/util/pipelines/`) | per worker mutex, condition variable, state, job; `Done`, `Busy`, `Id` | boot, dispatch, wait, halt | lost signals, early wait, reuse of flags, spurious wakeups |
| Checkpoint and registry (`deck/main.cc`, `src/util/checkpt/`, `restore_kokkos` in `src/vpic/vpic.cc`) | list of registered objects, the file | register, unregister, checkpt, restore, reanimate | everything on the host before it is written; pointers translated in the right phase; all ranks together |
| Partition and topology (`src/grid/partition.cc`, `ops.cc`) | `bc`, `neighbor`, `range` | partition, set and join boundaries | neighbours must agree on each other |
| Sort (`src/particle_operations/sort.h`) | particle arrays | bin sort | a permutation |
| Emitters, collisions, custom boundaries (`src/emitter`, `src/collision`, `src/boundary/*`) | parameters | injection on emission, collision operators, reinjection | collisions abort and custom boundaries drop particles in this version |
| Parallel file I/O (`src/util/io/`) | pending buffers per compute rank | request loop between I/O ranks and compute ranks | request and data in order |
| Numerics, random numbers, vector types, profiling | - | pure computation | out of reach of these tools |

Interaction.  `advance()` is the only caller.  Within a rank, host and device
arrays are handed over by deep copies; kernels are ordered, the iterations of
one kernel are not.  Between ranks everything goes through the numbered ports of
an `mp_t`; boundary conditions and neighbour tables say who is behind a port.
The threaded dispatcher runs the loops that were not ported to Kokkos.

## Modules

| Module | Models | Runs |
|---|---|---|
| `ParticleMigration` | abstract: a particle belongs to one domain, crosses one face at a time, never returns from absorption | as a property of `exchange_pair` |
| `ParticleExchange` | the particle half of a step on all ranks | `exchange_pair`, `exchange_quad` |
| `MCParticleExchange` | decompositions: two ranks between walls, two by two | |
| `ParticleExchange_proofs` | theorems about the messages and the particles of the exchange; it implements `ParticleMigration` | |
| `Compress` | the mover list of the push, compression of the particle list and the append | `compress` |
| `Compress_proofs` | theorems about every property of `Compress` | |
| `HostDevice` | both copies of particles, fields and interpolators through steps, injections, dumps, checkpoints, crashes and restores | `host_device` and three expected violations |
| `HostDevice_proofs` | theorems about the copies | |
| `ForkJoin` | abstract: every job runs once, and between dispatch and wait only | as a property of `dispatcher` |
| `ThreadDispatcher` | the threaded dispatcher | `dispatcher` |
| `ThreadDispatcher_proofs` | theorems about the dispatcher; it implements `ForkJoin` | |
| `Partition` | who is whose neighbour, as operators | through `FieldSync` and `FieldStep` |
| `Partition_proofs` | lemmas: the neighbours agree | |
| `FieldSync` | the field half of a step on all ranks: partition, ghost exchanges, synchronisations, the moments of a hydro dump | `field_sync`, `rhob_pec` |
| `MCFieldSync` | input decks for two ranks | |
| `FieldSync_proofs` | theorems about the neighbours, ports, messages, ghosts and shared values of `FieldSync` | |
| `FieldStep` | the field half of a step on one domain: kernels, ghosts, cleanings, interpolators | `field_step` |
| `MCFieldStep` | small domains with every pair of walls | |
| `FieldStep_proofs` | theorems about every property of `FieldStep` | |
| `Persist` | abstract: a restart finds what the checkpoint saved | as a property of `checkpt` |
| `Checkpt` | registry, checkpoint, restore, reanimate, end of the run | `checkpt` |
| `Checkpt_proofs` | theorems about ids and pointers, refinement of `Persist` | |

How they fit together.  `ParticleExchange` and `Compress` meet in `FinishStep`,
which takes compression as one step (`Compressed`); `Compress` shows what the
kernels make of it.  `ParticleExchange` assumes a symmetric boundary table
(`DomainAssumption`), which `Partition` computes and `NeighboursMutual` states
(checked, and proved in `FieldSync_proofs`).
`FieldStep` takes the domain itself for its neighbour; `FieldSync` takes the
values as given and has the neighbours.  `HostDevice` and `Checkpt` share the
checkpoint: the first has the contents, the second the objects and pointers.

### ParticleExchange

State.  `pc[r]` says in which blocking loop of `boundary_p_kokkos` rank r is and
`todo[r]` which shared faces that loop has still to visit (in increasing order,
as the code does).  `parts` is `k_p_d[0..np-1]`; `holes` are the particles
`k_pm_i_d` points at, which compress removes; `movers` is the guard list `pm`
with `k_pc_h`; `recvd` is `k_pr_h[0..num_to_copy-1]`; `sbuf` and `rbuf` are the
injectors in the port buffers; `sreq` and `rreq` the MPI requests; `accum` is
`k_f_rhob_accum_h` and `rhob` the charge on the device.  `hops`, `epoch` and
`dropped` are history: the axes a particle has crossed in this step, the rounds
of the whole run, the particles dropped as "Unknown boundary interaction".

Actions.  `AdvanceP` is `advance_p` and `copy_outbound_to_host`.  `BeginRound`
is `boundary_p_kokkos` up to its first wait.  `EndCountRecv`, `EndCountSend`,
`EndPayloadRecv` and `EndPayloadSend` are one iteration each of the four
blocking loops, with what the code does before the next wait.  `FinishRound`
adds the absorbed charge, `FinishStep` is the end of the particle half of
`advance()`.  `Transfer` is the MPI library: a posted synchronous send meets the
posted receive of the neighbour.  There is at most one send and one receive in
flight per port, and MPI does not overtake between the same two ranks and tag,
so a pair of requests is all of the channel.

Abstractions.  Positions are reduced to the faces a particle stops at.  A
displacement is below one cell per axis (Courant condition of the field solver,
and particles are slower than light), so a particle stops at most once per axis
in a step: `MoveP` offers any face of an axis not used yet.  One species: the
species share ports, counts and buffers, and are told apart by `sp_id` only.
Local injectors (`ci`) are never filled in this version.

Properties.  `ParticleInOnePlace`: at every instant a particle is in one list,
buffer, or fate, and in no second one.  `AbsorbedChargeOnce`, `GuardListEmptied`
(a round per axis is enough), `SizesMatch` ("Sizes do not match" never stops the
run), `NeighboursInStep` (at most one round apart), `PortsQuiet`,
`SendBufferStable` (the code's own worry: "ASSUMES MP WON'T MUCK WITH REST OF
SEND BUFFER"), `EveryStepEnds`, and the refinement `MigrationSpec`.  Owner, for
the refinement: an injector belongs to the receiving rank from the moment it is
packed.

### Compress

A particle is named by its index when `advance_p` ended.  Each kernel iteration
is a small process: `at[n]` is how far it is; it reserves a place in a clean-up
list with the atomic increment and stores into it in a later step, or loads a
particle and stores it in a later step.  Kernels are separated, as Kokkos orders
kernels of one execution space.  `AdvanceP` chooses which particles leave, up to
one more than the mover list has room for; each of them is a process too
(`LookForRoom`, `TakePlace`, `StoreMover`: the check, the atomic increment that
aborts beyond the end, the stores).  `MoversListed`: when the push has ended
without an abort the list has no hole and no particle twice, and has every
particle that leaves unless it is full.  `Compacted`: the
first np - nm slots hold the particles that stay, each once.  `CleanUpBalanced`:
as many sources as targets, which the code relies on without checking.
`RaceFree`: no iteration touches a slot another one writes (the comment in the
code asks whether there is "a very subtle race condition"; there is none).
`StayersUntouched`: a particle outside the last nm slots that stays is not moved.

### HostDevice

State.  An array's content is the *set of events* that went into it (a push, an
injection, a solve, each with its step), so a deep copy is an assignment and an
event that one side has not seen is lost in the copy exactly as its data would
be.  `k_p_d`/`p`, `k_f_d`/`f` and `k_i_d`/`i` are the device and host copies of
particles, fields and interpolators (the interpolators hold the fields they were
loaded from); `k_jf_accum_h` the current that `move_p` accumulates on the host;
`pm`/`k_pm_d` and `k_pc_h` say whose movers are listed and whose particle the
host copies hold; `last_copied_p`, `last_copied_f` are the stamps; `file` is what
the last dump wrote and `disk` the checkpoint.  `all_p` and `all_f` are history:
what has happened, wherever it was stored.  The event `Stale` stands for what the
program takes for a particle although it is none, or one that is elsewhere: slots
that a raised `np` makes count, and what `k_pc_h` still holds of a former step.
The deck decides once which injections are ported to Kokkos (`kokkos`), whether
there are emitters (`emitting`) and whether host injection ages (`aging`).

Actions.  `Initialize`, then one action for each part of `advance()` between
which the user's code or a copy comes (`AdvanceP`, `ApplyEmitters`,
`ParticleInjection`, `Exchange`, `CurrentInjection`, `Solve`, `FieldInjection`,
`FinishStep`), each injection on the host between two copies or on the device as
`kokkos_*_injection` says, or not due.  In `diagnostics` the user dumps and
checkpoints in any order and number.  `CrashAndRestore` may come at any instant.

Two of the actions do what the code should not do.  `ApplyEmitters` puts the
particles into the host array only, but raises the `np` both sides share, so the
device gains stale slots (`child_langmuir.cc:134`).  `HostInjection` of a particle
that stops at a face while it is aged ("stopped") lists a mover (`misc.cc:96`) and
brings it to the device; `Exchange` then removes that particle (`Compressed`,
`advance.cc:169-184`), and for a mover `advance_p` copied no particle for
(`Uncopied`) it may absorb, send or drop what lies in `k_pc_h`
(`boundary_p.cc:211-274`); what a neighbour sends of this kind arrives here.

Properties.  `DeviceCurrent`: with a deck that neither emits nor ages, the device
has all particles and all that was done to the fields but the bound charge of
host side injection, and nothing else.  With the other decks it misses no more
than the emitted and the stopped particles, and has nothing besides but left-over
memory.
`DumpsCurrent` and `StampMeansCurrent`: skipping the copy when the stamp is this
step is right, which is what the comments on `last_copied` claim.  Three more
properties state what comments and the sample deck promise and the code does
not keep; see Findings.

### ThreadDispatcher

`hpc` is the host's place in boot, dispatch, wait and halt, `wpc[w]` the place of
worker w in `pipeline_mgr`.  What the host does between a successful trylock and
the unlock is one step, because the worker needs the same mutex for everything
it does.  The worker's execution of a job, its setting of the flag, its change
of state and its `cond_wait` are separate steps.  The job that the macro
`EXEC_PIPELINES` runs itself is the `Straggler`.  `runs` counts the executions of
every job since the dispatch; `ForkJoin` has the same counter and lets it change
only from zero to one, for a job of the dispatch under way, so a second or a late
execution violates `ForkJoinSpec` (a worker that wakes spuriously and still is in
state execute would do that: the mutant `AsleepUnlessExecuted`).

### Partition and FieldSync

`Partition` holds the index arithmetic of the three partition functions and of
`size_grid` and `join_grid`: rank to index and back, the wrap, who is behind a
face, which ends of the box are walls, and how `GLUE_FACE` finds the remote cell
from the remote number of voxels.

State of `FieldSync`.  `status`, `bc`, `neighbor` are the grid of each rank;
`at[r]` is the exchange, the group of ports and the call within it at which rank
r is; `k_f_d` the values of the current exchange; `sbuf`, `rbuf`, `sreq`, `rreq`
the buffers and requests of `mp_k`, and of `mp` during the last exchange.  A *value is the bag of the copies that went
into it*, so a sum is a sum of bags, an average halves one, and a contribution
lost or taken twice shows.  A *message is a function from slots*, as the kernels
of `begin_send_*` index the buffer; the receiver reads the slots its own loops
compute.

Actions.  `SizeGrid` and `JoinGrid` with the allgather between them; `Adjust`
(what `k_local_adjust_*` makes of the walls); `BeginExchange` (the `begin_recv`
and `begin_send` calls of a group of ports); `EndRecv` and `EndSend`, one call
each, blocking; `AllSum`; and `Transfer`, as in `ParticleExchange`.  Groups are
one axis for a synchronisation, all six ports for a ghost exchange.

Properties.  `NeighboursMutual`; `MessageFits` (announced size, allocated size,
a slot for each value); `MessagesPaired` (all exchanges use the same ports and
tags); `PortsQuiet` (the shared host buffers are free when a group begins);
`SharedValuesAgree` (every copy has every contribution once, on faces, edges and
corners, with the factor of the walls); `GhostsCurrent`; `EveryRankSynced`.

The last exchange is `synchronize_hydro_array`, which `dump_hydro` calls on the
host: fourteen moments per node, summed axis by axis over the ports of `mp`,
whose buffers grow on demand.  `mp` and `mp_k` have the same communicator and
tags, so its messages could meet those of the step; `MessagesPaired` says they do
not.

### FieldStep

State.  `k_field[c][p]` is the number of the last update of component c at voxel
p, or `Garbage` when an update was repeated or read something that was not up to
date; `when` counts the updates of each component; `buf` holds the packed planes;
`k_interp` the step of each interpolator; `todo` and `part` say how far the step
is.  Stencil and loop bounds are those of the Kokkos kernels, written once for an
axis X with the others in cyclic order, as the code's XYZ, YZX and ZXY variants.

Actions.  One per part of a routine between which the ghosts arrive:
`AdvanceB`; begin of ghosts, interior, end of ghosts, exterior for `advance_e`,
`compute_div_e_err` and `clean_div_b`; `CleanDivE`, `ComputeDivB`,
`LoadInterpolator`.  A step cleans div e, div b, both or neither.

Properties.  `FieldsInStep`, `ErrorsInStep`, `InterpolatorCurrent`: at the
end of each routine every value the domain has was updated exactly once from
current values, whatever the walls and however thin the domain; so the loops of a
routine cover its component without gap or overlap, and none reads a ghost early.

### Checkpt

State.  `registry` is the list of ids and objects, `next_id` the counter, `heap`
the objects at their addresses (class, a content, and the pointer members),
`file` the checkpoint files with ids in place of pointers, `phase` and `at` how
far the program, a write, a restore or a reanimation is.

Actions.  `StartUp`, `DefineSpecies`, `DefineCollision` and `RegisterMain` build
the registry, `Advance` changes contents; `BeginCheckpt`, `CheckptObject` (one
object each), `EndCheckpt`; `Crash` at any instant; `BeginRestore`,
`RestoreObject`, `EndRestore`, `ReanimateObject`, `EndReanimate`; at the end
`UnregisterMain`, `DeleteSimulation`, `DeleteSpecies`, `halt_services`.  A
pointer that cannot be translated ends in `"error"`, as ERROR does.

Abstractions.  Four classes stand for all: main's pointer (`RESTORE_PTR` to an
object of the heap), the simulation (`RESTORE_FPTR` and reanimate), species and
collision operators (lists that grow at the head, with `RESTORE_PTR(next)`, and a
pointer to another class).  A restart uses complete files only: a short read is
not noticed by the code (`checkpt_io.h`, "FIXME: add return values") and leaves
undefined contents.

Properties.  `IdsUnique`, `PointersCurrent`, `NothingFails`,
`OnlyCollisionsLeft`, and the refinement `PersistSpec`.

## Runs and bounds

| Run | Bounds | Why they are enough |
|---|---|---|
| `exchange_pair` | 2 ranks periodic in x, walls in y, 2 particles, 2 rounds, 2 steps | each rank is the other's neighbour on both sides, so tags are swapped; absorption and dropping in either round, before and after a migration; the second step reuses every buffer |
| `exchange_quad` | 4 ranks, 2 axes, 1 particle starting in rank 0, 2 rounds | the corner, which needs two rounds; a rank has two different neighbours and can be a round ahead of one and behind the other; four waits can close a circle |
| `compress` | np up to 6, room for 3 movers, up to 4 leave, 2 steps | 2 nm may exceed np; gaps and sources overlap in every way; two iterations compete for the last place; the second step meets stale arrays |
| `dispatcher` | 3 workers and the host, 4 jobs, 2 dispatches, 1 spurious wakeup | round robin over several workers, a fast worker may take two jobs, flags are reused; the default `--dispatch_to_host 1` |
| `host_device` | 2 steps, 1 crash | a stamp, a host copy and a checkpoint of the first step meet the second; the crash falls into every phase; emission, three injections on either side, dumps and checkpoints in every order; one call of `inject_particle` per step and species, with `update_rhob` at its default of 1 |
| `field_sync` | 2 ranks, six decks: a row along each axis, domains of one and two cells across, every kind of box, two decks that are refused | messages with parts of different extents, both ends of a face in one or two ranks, periodic axes of one domain, corners of three axes with different walls |
| `field_step` | 56 domains of 1, 2 or 3 cells (`MaxLength`) per axis, each axis periodic, metal, absorbing or mixed; 2 rounds of each cleaning; 2 steps | one cell has no interior, two the smallest, three a layer of it; the second step reads what the first has left in the ghosts |
| `checkpt` | 3 addresses, 2 files, 5 objects, 2 starts, 1 step | two list elements next to the simulation; an address may be reused by another class after a restart; the other file is older |
| `guard_list`, `host_events`, `first_checkpoint` | as `host_device`, 1 step | expected violations, see below |
| `rhob_pec` | as `field_sync` | expected violation, see below |

Deadlock is checked in all passing runs but `exchange_quad` and `dispatcher`,
where the temporal property subsumes it: a hang violates `EveryStepEnds` or
`EverythingReturns`.

Fairness.  `exchange_quad`: weak fairness of each rank (a process the operating
system schedules) and of each pair of matching requests (MPI's progress rule).
`dispatcher`: weak fairness of each thread; spurious wakeups are bounded and not
fair; nothing is assumed about the order in which threads get a mutex.
`field_sync`: weak fairness of the next-state relation only, that is, as long as
something can happen something does; the exchange has no step that can repeat.

### Findings

Each is a run with one property that states what a comment, or the sample deck,
promises; TLC finds the code's counterexample.

* `guard_list`: aged injection lists a mover after `advance_p` filled `k_pc_h`;
  `boundary_p_kokkos` then processes whatever `k_pc_h` holds in its place, while
  compress removes the injected particle from the device.
* `host_events`: `emit_child_langmuir` appends to the host list only, and no copy
  to the device follows; the bound charge of emission and injection goes into the
  host's `f`, which is never copied to the device after particle injection.
* `first_checkpoint`: a checkpoint made in the diagnostics of the initial
  condition does not hold main's pointer and cannot be restored.
* `rhob_pec`: at a metal wall `adjust_rhob` clears `rhof` where its host version,
  and the comment above both, clear `rhob`.

More divergences have no run of their own:

* `dump_particles` centers the momenta with the host interpolators, which only a
  checkpoint refreshes (`CenteredInTime` in `HostDevice` states the promise of the
  sample deck, and fails).
* A run with a collision operator ends with "halt called with some objects still
  registered": nothing calls `delete_collision_op_list`.  `OnlyCollisionsLeft`
  says that this is all that is left.
* `--dispatch_to_host 2` makes the first `thread_wait` spin for ever
  (`DispatchToHost = 2` in `Dispatcher.cfg` violates `EverythingReturns`): the
  option is documented as a boolean, but its integer value is subtracted from the
  number of threads.
* `k_local_adjust_norm_b` (`src/field_advance/standard/local.cc:1136`) switches on
  an index but its cases are the characters x, y, z: a symmetric wall always ends
  in ERROR.  The models take the walls the code can run with.
* Movers beyond `max_nm` are not listed, silently when no other iteration takes
  the last place in between, with an abort when one does; `MoversListed` says no
  more than the code does.
* `append_species` and `append_collision_op` must be called in the order of
  creation, as every deck does: a list in another order is written, and refused
  by `restore_ptr` after the run has crashed.
* `synchronize_hydro_array_kokkos`, which nothing calls ("liable to not be kept up
  to date"), indexes its buffers with cells per row where a plane of nodes has
  one more, and sends the size of the message where the receiver expects the
  cell size.  That index is the mutant `SlotOfCells` that breaks `MessageFits`.
* Both field copies loop to nv - 1 (`src/field_advance/field_advance.cc:105`); the
  voxel left out is a corner of the ghosts which no kernel reads.
* `restore_pbd` leaves the pointer to its species as it was in the process that
  wrote the checkpoint (`src/boundary/boundary.cc:91`).
* The message of `advance()` says that the synchronisation covers `rho_b`, which
  `synchronize_tang_e_norm_b_kokkos` does not touch; `k_synchronize_rho` does.
* `copy_to_host` in a dump brings the mover count of the last push back, although
  "the mover lists for the particles should empty" when `advance()` starts;
  `advance_p` resets the count, so nothing follows from it.

For a deck to which the host-side findings apply, `DeviceCurrent` leaves out by
kind what they lose ("emit", "stopped") and what they bring ("stale"), so that it
still says that nothing *else* is lost or comes in; for all other decks it leaves
out nothing of the particles.  The bound charge of host injection ("rhob") never
reaches the device with any deck.

## Proofs

`ParticleExchange_proofs`, for every number of ranks, axes, rounds, steps and
particles and every boundary table that satisfies `DomainAssumption` (behind a
shared face, the opposite face leads back) and `ParticleAssumption` (finitely
many particles):

* `TypeCorrect`.
* `ProtocolInvariant`: `IInv` is inductive.  The properties are not inductive by
  themselves: that a receive meets its own message depends on what the *other*
  rank is doing.  `RequestsOK` ties every request of a rank to its program
  counter.  `EdgesOK` ties the two ends of an edge together: over the whole run,
  twice the epoch plus the messages of this round is the same number on the
  sending and on the receiving side, and an arrived count is the number of
  injectors in the sender's buffer.  The equality of the two counts is what
  rules out that a count meets a payload or a message of a neighbouring round:
  their parities or their epochs differ.
* `SizesAlwaysMatch`, `PortsAlwaysQuiet`, `NeighboursAlwaysInStep`,
  `SendBufferAlwaysStable` follow from it.

The steps that deliver no message share one lemma (`NothingDelivered`);
`TransferMatches` is the argument for the step that does.

Of its particles, under the same assumptions:

* `ConservationInvariant`: `CInv` is inductive.  `OnlyAt` says that a particle is
  at a place of one kind, rank and face and at no other.  That alone is not
  inductive: `FinishStep` forgets the guard list.  So `Travelled` counts the axes
  a particle has crossed (`hops`): one on a guard list, or on its way, has crossed
  more axes than there were rounds, and there are only `Dim`.  A message keeps the
  count because the two ranks are in the same round: their epochs agree by
  `EdgesOK`, and the epoch tells the round (`ClockOK`).  A particle forgotten with
  a guard list is at the place "lost", which exists only if
  `NumCommRound < Dim`.
* `ParticleAlwaysInOnePlace` and `ImplementsMigration`, assuming
  `NumCommRound >= Dim`, as `GuardListAlwaysEmptied` does in its statement; with
  fewer rounds a particle that turns a corner may be lost.
  `ChargeAlwaysAbsorbedOnce` needs no such assumption.

`HostDevice_proofs`, for every number of steps and crashes (`BoundAssumption`:
both both are naturals):

* `MirrorInvariant`: `IInv` is inductive.  `DeviceCurrent` speaks of the device
  between steps only; within a step current is on its way through the host and a
  stopped particle on the device until compress takes it, so `ParticleArrays` and
  `FieldArrays` say for every phase where each event is, and `PlainArrays` that a
  deck without emission and aging never has a mover whose particle was not copied.  A restore is right because
  `DiskOK` says that a checkpoint is a state between steps, and `DumpsCurrent` is
  right because `StampsPast` rules out a stamp from the future.
* `DeviceAlwaysCurrent`, `DumpsAlwaysCurrent`, `StampAlwaysMeansCurrent` follow.

`Checkpt_proofs`, for every set of addresses and file names and all bounds
(`AddrAssumption`, `NameAssumption`, `BoundAssumption`):

* `IdsInvariant`: `IdInvariant` is inductive.  That the registry has no id twice
  is not inductive by itself: `restore_objects` builds the registry from a file.
  So the files must be in order too, and below the counter they carry; and while
  a file is written or read, `Half` says that the part that is done has the ids
  of the other side.
* `IdsAlwaysUnique` follows: over any number of crashes and restarts.
* `PointersInvariant`: `PointerInvariant` is inductive.  A restored pointer is
  right because the file was, and the file because the memory was when it was
  written; so one predicate, `Sound`, is kept of the memory (`Memory`, a list of
  nodes with addresses for ids) and of every complete file.  It says more than
  that pointers lead to registered objects of their class (`Backed`): what a
  restore function looks up at once was registered before (`RESTORE_PTR`), while
  the heads of the simulation's lists, which grow later, may lead to objects
  registered after it (`RESTORE_FPTR`).  `Chained` says that the species list
  runs through all species, the latest first; without it the destructor, which
  pops that list, could leave a species in the registry.  `Writing`, `Restoring`
  and `Reanimating` compare the half that is done with the other side, member by
  member (`Copied`); `Transfer` then carries `Sound` over when the copy is
  complete.  `Deleting` keeps what is left of it while the destructor runs.
* `PointersAlwaysCurrent`, `NothingEverFails`, `AlwaysOnlyCollisionsLeft` follow.
* `CheckptImplementsPersist`: every step is a step of `Persist` or changes
  neither the world nor what the files hold.  Two lists with the same ids whose
  objects agree, pointers as ids, are the same world (`SameWorld`); the invariant
  says that memory and file agree when a checkpoint is closed (`ClosedFile`) and
  when the last object is reanimated (`RestartedWorld`).

`Compress_proofs`, for every size of the particle list and of the mover array and
every number of steps (`SizeAssumption`: they are naturals).  All the properties
of `Compress` are proved:

* `MoversAlwaysListed`: `ListInvariant` is inductive.  `RunningOK` says that an
  iteration that has taken a place is alone there and has not stored,
  `NothingLost` that every place is stored or owned by such an iteration.  That
  there are at most as many movers as particles is the pigeonhole principle.
* `KernelAlways`: `KernelInvariant` is inductive.  `MarkOK`: the first kernel
  marks gaps only, and all of them among the slots the second looks at.
  `FillOK`: the atomic counters number the iterations that have started from 0
  up (`Numbered`), and an iteration that has ended has stored its entry at its
  number.  `CleanUpOK`: so each list names its members once (`Lists`), and a
  particle moved is the one of its source.
* `CleanUpAlwaysBalanced` needs an argument of its own (`Balance`): a gap in the
  last `nm` slots is the place of one iteration and the source of another, which
  is a bijection between the iterations with a place that is given up and those
  with a source that is a gap; without their common members they are the
  iterations that fill the two lists.
* `NeverRaces`, `AlwaysCompacted`, `StayersAlwaysUntouched` and `TypeCorrect`
  follow: sources lie in the last `nm` slots and are no gaps, targets lie before
  them and are.

`ThreadDispatcher_proofs`, for every number of pipelines, any `dispatch_to_host`
up to it, and any number of dispatches and of spurious wakeups
(`DispatcherAssumption`).  All the safety properties are proved:

* `DispatcherInvariant`: `IInv` is inductive.  `JobsRunOnce` alone is not: that
  the host may return when all flags are set depends on what a flag means while
  jobs are still under way.  `WorkerOK` derives the mutex and the state of a
  worker from its place in `pipeline_mgr`; in particular a worker with a job not
  done is awake or on its way.  `HostOK` says which workers exist, which have
  been joined, and which flags the wait has seen.  `JobsOK` says what became of a
  job: given away (`Given`) it waits with exactly one worker (`Pending`), or has
  run and is not flagged (`Active`), or is flagged and has run; not given away it
  has not run.
* `JobsAlwaysRunOnce`, `AssignedJobAlwaysKept`, `DestroyedNeverUsed`,
  `TypeCorrect`: when the wait has seen every flag, no worker is `Active`
  (`AllRan`); only a worker in state sleep is given a job, and then none it holds
  is pending.
* `ImplementsForkJoin`: every step is a step of `ForkJoin` or leaves `Busy` and all
  of `runs` alone.  A worker that executes has a job of the dispatch under way that
  has not run yet (`ExecuteStep`), and the wait ends with every counter at one
  (`AllRan`).

With a `dispatch_to_host` of two or more the theorems hold because the wait does
not return: the jobs behind the first one on the host are never run nor flagged
(see above).

`Partition_proofs` and `FieldSync_proofs`, for every number of ranks
(`WorldAssumption`), every decomposition and any mixture of walls
(`DeckAssumption`; boxes of every size):

* `NeighboursAlwaysMutual`.  `RANK_TO_INDEX` and `INDEX_TO_RANK` are inverse to
  each other (`IndexOfRank`, `RankOfIndex`, with the uniqueness of quotient and
  remainder, `Digit`), a step round the ring and back is no step (`Ring`), and the
  ends of the box are the same faces for both sides; so my neighbour's neighbour
  is me (`BCMutual`), and the cell `GLUE_FACE` finds is glued to mine
  (`GluedMutual`).  `GridOK` carries this through `SizeGrid` and `JoinGrid`, which
  the ranks run at their own pace.
* `PortInvariant`: `PortInv` is inductive.  That both sides of a match are in the
  same exchange does not follow from where one rank is.  `SendsOK` and `RecvsOK`
  derive the requests of a port from the rank's place in its schedule of calls;
  `EdgesOK` says that a channel has the same exchanges behind it at both ends,
  counting a message from its transfer on.  Two requests that match are the first
  ones not counted on either side, hence of one exchange (`Pairing`).  A channel
  is a port, not a rank: the argument holds when both neighbours are the same
  rank, or the rank itself.
* `MessagesAlwaysPaired` and `PortsAlwaysQuiet` follow.
* Slots.  A part of a message is a box of values, component by row by column,
  numbered in mixed radix; `NumberRange`, `NumberUnique` and `NumberFound` say that
  the numbers of a box are those from zero to its size, each taken once.
  `PartsFollow` puts the parts of a message one behind the other, for all seven
  exchanges, and `PlaneSlots` concludes that the loops that pack a plane and those
  that unpack one take every slot between the header and the size exactly once.
* `FieldInvariant`: `FieldInv` is inductive, `PortInv` together with `ContentsOK`.
  What a ghost holds depends on a message packed by another rank at another time, so
  `ContentsOK` follows the values on their way.  `SendHolds`: a message that has
  been packed and not yet ended has in its slots what `MessageOf` says: the
  sender's own values in a ghost exchange, what its copies had taken in along the
  axes before in a synchronization.
  `RecvHolds`: a receive that is full has those of the rank behind the port; the
  transfer can only bring these because of `Pairing`.  `GhostsHold`: a ghost whose
  receive has ended holds the neighbour's value from the plane that was packed
  (`Origin`), and nothing received later in the exchange undoes it, because the
  ghosts of two faces are apart (`GhostsApart`).  That all six ports of a ghost
  exchange are one group is needed (`GhostSchedule`): a rank packs every plane while
  all its values are still its own.
* `MessageAlwaysFits`: in a state where a message exists its size is the number of
  the values of its plane and the header (`MessageSize`), and at most the size the
  buffers of the port are allocated with.
* `GhostsAlwaysCurrent`: `OriginIsCopy` says that the plane the neighbour packed
  and the ghost it is unpacked to are one place of the box, across a periodic end
  too and where rank and neighbour are the same (`NextPlace`).
* `SharedValuesAlwaysAgree`.  A copy on an edge or a corner is exchanged along two
  or three axes, and what it has at any moment depends on which of its receives
  have ended.  `Reach(r, loc, A)` are the copies that can be met from a copy along
  the axes of `A` alone, and `Level(r, loc, A)` is the value of a copy that has
  taken in exactly these, each once.  `SharesHold` says that every copy is at the
  level of the axes it has received (`Met`).  One message takes it one axis
  further (`LevelMet`):
  * The sets of copies on the two sides of a face are apart and make up the next
    set (`ReachSplit`).  This rests on `EdgesApart`: the two planes of a domain are
    different nodes, also where one rank is on both sides of the face.  The ring
    of an axis may have any number of domains, but a plane has two copies and no
    more (`LineMeet`, `RoundMeet`).
  * Both sides have the same walls and share the same axes (`AcrossIs`, `AlikeIs`),
    so they have the same factor and the same number of copies, and the sum or the
    mean of the two is that of all (`FilledSum`, `FilledMean`).  The weight of a
    mean is halved once per axis, exactly as often as the number of copies doubles
    (`CountStep`, `CopyCount`).
  * What arrives is at the receiver's level and not beyond it, because every rank
    takes the axes in one order and ends the receives of an axis before it packs
    the next (`SyncSchedule`, `ReceivesFirst`, `MetBelow`): a message along an axis
    carries the axes below it (`Lower`) and nothing else.
  * A receive of the other side of the axis does not touch this copy, since a
    node lies in one of the two planes only.
  When the last receive has ended the level is that of all shared axes, and
  `LevelAll` finds the copies met to be all copies (`ReachAll`).

`FieldStep_proofs`, for domains of every size (`MaxLength` is any natural number),
any walls on faces that are not joined, and any number of steps and of cleaning
rounds (`DomainAssumption`, `RoundAssumption`, `BoundAssumption`).  All the
properties of `FieldStep` are proved:

* Geometry.  `AdvanceBCovers`, `AdvanceECovers`, `CleanDivECovers`, `DivECovers`,
  `DivBCovers` and `CleanDivBCovers` say that the loops of a routine, or of its
  interior and its exterior together, are disjoint and make up what the domain has
  of the component; for one cell along an axis too, where an interior loop is
  empty and an exterior one is not.  The lemmas on stencils (`AdvanceEReadsAre`
  and the like) say of every value an update reads that the domain has it or that
  it is one of the ghosts the routine asks for, and that the interior needs none
  of these.
* `FieldsInvariant`: `IInv` is inductive.  The three properties speak of the
  moments between routines.  In a routine of two parts `OwnedOK` says that
  exactly the interior is one update ahead, `BufferOK` that the packed planes are
  current although the interior has moved on meanwhile, and `GhostsOK` which ghosts
  have arrived: those of a wall at the beginning, those of a joined face when the
  exterior starts.  The ghosts of `norm_e` behind a wall are left out, because an
  absorbing wall of a thin domain extrapolates them from values that are not there;
  `DivEExteriorUpdates` shows that they are read only for nodes that
  `k_local_adjust_div_e` overwrites.  `NoGarbage` is kept for the ghosts of
  `tang_b`, which an absorbing wall relaxes and so reads before it writes them.
* `LocalGhostsAre` and `RemoteGhostsAre` take the six faces one after the other: a
  face fills its own ghosts, leaves what the domain has alone, and does not undo
  those of the faces before it.
* `FieldsAlwaysInStep`, `ErrorsAlwaysInStep`, `InterpolatorAlwaysCurrent` follow.

Type correctness of `ParticleExchange`, `HostDevice`, `Compress`,
`ThreadDispatcher` and `FieldStep` is proved (`TypeCorrect`, and as a part of
`MirrorInvariant` and `FieldsInvariant`).

Every safety invariant, every action property and the three refinements that a passing
run checks are stated by a theorem.  Only model-checked: liveness, which with its
fairness is out of the prover's reach, and the runs that expect a violation.

## What could follow

1. A composition of `FieldSync` and `FieldStep`: the kernels of one rank between
   the exchanges of all, with one global field as the abstract specification.
2. An abstract specification of an exchange of fields, one step for all ranks, as
   what `FieldSync` implements: with it the first item needs no ports.

## Not modelled

The kernels for decks with more than one material: the models take the vacuum
versions of `sfa.cc`.  `compute_div_e_err_kokkos` proper also fetches the ghosts of
the normal e through `mp` (`k_begin_remote_ghost_norm_e`) where the vacuum version
uses `mp_k`.

Floating-point values of fields, momenta and weights; device memory order (the
models are sequentially consistent, so that `thread_wait` sees a job's results
through a volatile flag without a barrier is not examined); file formats; the
vector back ends; profiling and random numbers.  The sort is a call to Kokkos'
`BinSort`.  The I/O relay between compute and I/O ranks belongs to the build with
`USE_MPRELAY` only, and the program at its other end is not in the repository.  The capacity of the particle list: received and emitted
particles are appended without a check against `max_np`, which only the deck's
limits keep safe.  The serial dispatcher is `ForkJoin` by construction.

The legacy host paths (`boundary_p`, the host versions of the field routines and
of their exchanges, `advance_p` with accumulators) are in the same files as their
Kokkos versions but not called by `advance()`, and more than half of the
repository's lines are sample decks and test decks, which use the program and
are no part of it; so the share of all lines that the models cover stays small.
