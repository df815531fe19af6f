----------------------------- MODULE HostDevice -----------------------------
(***************************************************************************)
(* The two copies, on the host and on the device, of the particles of a    *)
(* species, of the fields and of the interpolators, through time steps,    *)
(* host side injection, dumps, checkpoints, crashes and restores of one    *)
(* rank.                                                                   *)
(*                                                                         *)
(* The content of an array is the set of events that have gone into it: a  *)
(* push, an injection, a field solve.  A deep copy replaces one set by     *)
(* another, so an event that one side has not seen is lost.  all_p and     *)
(* all_f are history: every event that has happened.  "stale" stands for   *)
(* what the program takes for a particle although it is none, or one that  *)
(* is somewhere else already: left-over memory.  Arrays of particles are   *)
(* looked at up to np, which host and device have in common.               *)
(***************************************************************************)
EXTENDS Integers

CONSTANTS
  NumStep,    \* num_step
  MaxCrash    \* bound on the number of crashes

ASSUME BoundAssumption == NumStep \in Nat /\ MaxCrash \in Nat

VARIABLES
  phase,            \* the part of initialize() or advance() that is next
  step,             \* grid->step
  kokkos,           \* kokkos[x]: is the user injection of x ported to Kokkos
  emitting,         \* the deck defines emitters
  aging,            \* particles injected on the host are aged
  k_p_d, p,         \* the particles on the device and on the host
  k_f_d, f,         \* the fields on the device and on the host
  k_i_d, i,         \* the fields the interpolators were loaded from
  k_jf_accum_h,     \* current accumulated on the host
  k_pm_d, pm,       \* whose movers are listed, on the device and on the host
  k_pc_h,           \* whose particle the host copies for the movers hold
  last_copied_p,    \* species_t::last_copied
  last_copied_f,    \* field_array_t::last_copied
  registered,       \* main has registered its pointer to the simulation
  file,             \* the last dump of this user_diagnostics
  disk,             \* the checkpoint, once there is one
  crashes,          \* number of crashes so far
  all_p, all_f      \* history: the events of particles and of fields

partVars == <<k_p_d, p, k_pm_d, pm, k_pc_h, last_copied_p, all_p>>
fieldVars == <<k_f_d, f, k_jf_accum_h, last_copied_f, all_f>>
interpVars == <<k_i_d, i>>
deckVars == <<kokkos, emitting, aging>>
runVars == <<step, deckVars, registered, disk, crashes>>
vars == <<phase, partVars, fieldVars, interpVars, runVars, file>>

Phase == {"initialize", "push", "emit", "inject", "exchange", "current", "solve",
          "field", "finish", "diagnostics", "failed"}
Injection == {"particle", "current", "field"}
Owner == {"pushed", "emitted", "injected"}
Kind == {"start", "uncenter", "push", "emit", "inject", "stopped", "exchange", "move", "rhob",
         "current", "solve", "field", "clean", "stale"}
Event == Kind \X (0 .. NumStep)
Stale == <<"stale", 0>>

NoFile == [kind |-> "none", data |-> {}, centered |-> {}]
NoCheckpoint == [step |-> -1]
Checkpoint == [step: 0 .. NumStep, registered: BOOLEAN, p: SUBSET Event, f: SUBSET Event,
               i: SUBSET Event, pm: SUBSET Owner,
               last_p: -1 .. NumStep, last_f: -1 .. NumStep,
               all_p: SUBSET Event, all_f: SUBSET Event]

TypeOK ==
  /\ phase \in Phase
  /\ step \in 0 .. NumStep
  /\ kokkos \in [Injection -> BOOLEAN] /\ emitting \in BOOLEAN /\ aging \in BOOLEAN
  /\ k_p_d \subseteq Event /\ p \subseteq Event
  /\ k_f_d \subseteq Event /\ f \subseteq Event
  /\ k_i_d \subseteq Event /\ i \subseteq Event
  /\ k_jf_accum_h \subseteq Event
  /\ k_pm_d \subseteq Owner /\ pm \subseteq Owner /\ k_pc_h \subseteq Owner
  /\ last_copied_p \in -1 .. NumStep
  /\ last_copied_f \in -1 .. NumStep
  /\ registered \in BOOLEAN
  /\ file.kind \in {"none", "fields", "particles"}
  /\ file.data \subseteq Event /\ file.centered \subseteq Event
  /\ disk \in Checkpoint \cup {NoCheckpoint}
  /\ crashes \in 0 .. MaxCrash
  /\ all_p \subseteq Event /\ all_f \subseteq Event

-----------------------------------------------------------------------------
Now(kind) == <<kind, step>>

\* copy_to_host is skipped when the array was copied in this step already.
CopyIsDueLate(last) == step > last + 1
CopyIsDue(last) == step > last

\* What user_particle_injection and user_field_injection find on the host.
InjectedIntoOld(host, device) == host
InjectedInto(host, device) == device

\* The step copy_to_host notes in last_copied.
StampAhead == step + 1
Stamp == step

\* The interpolators are loaded from the fields.
LoadedBefore(fields, old) == old
Loaded(fields, old) == fields
-----------------------------------------------------------------------------
\* The state user_initialization leaves on the host.
Init ==
  /\ phase = "initialize"
  /\ step = 0
  /\ kokkos \in [Injection -> BOOLEAN]
  /\ emitting \in BOOLEAN
  /\ aging \in BOOLEAN /\ (kokkos["particle"] => ~aging)
  /\ p = {<<"start", 0>>} /\ k_p_d = {}
  /\ f = {<<"start", 0>>} /\ k_f_d = {}
  /\ i = {} /\ k_i_d = {}
  /\ k_jf_accum_h = {}
  /\ k_pm_d = {} /\ pm = {} /\ k_pc_h = {}
  /\ last_copied_p = -1 /\ last_copied_f = -1
  /\ registered = FALSE
  /\ file = NoFile
  /\ disk = NoCheckpoint
  /\ crashes = 0
  /\ all_p = {<<"start", 0>>} /\ all_f = {<<"start", 0>>}

\* initialize() from the copies to the device on: the interpolators are loaded
\* and the particles are uncentered on the device, then the user diagnoses the
\* initial condition.
Initialize ==
  /\ phase = "initialize"
  /\ k_p_d' = p \cup {Now("uncenter")}
  /\ all_p' = all_p \cup {Now("uncenter")}
  /\ k_pm_d' = pm
  /\ k_f_d' = f
  /\ k_i_d' = Loaded(f, i)
  /\ phase' = "diagnostics"
  /\ UNCHANGED <<p, pm, k_pc_h, last_copied_p, f, k_jf_accum_h, last_copied_f, all_f, i,
                 runVars, file>>

\* advance_p and copy_outbound_to_host: some particles may get a mover; their
\* movers and copies are brought to the host.
AdvanceP ==
  /\ phase = "push"
  /\ step < NumStep
  /\ k_p_d' = k_p_d \cup {Now("push")}
  /\ all_p' = all_p \cup {Now("push")}
  /\ k_pm_d' \in {{}, {"pushed"}}
  /\ pm' = k_pm_d'
  /\ k_pc_h' = k_pm_d'
  /\ phase' = "emit"
  /\ UNCHANGED <<p, last_copied_p, fieldVars, interpVars, runVars, file>>

\* apply_emitter_list, if there are emitters and the field is strong enough:
\* emit_child_langmuir appends particles to the host list and ages them, which
\* may list a mover.  It raises np, which the device shares: what lies behind the
\* particles there now counts as particles.
ApplyEmitters ==
  /\ phase = "emit"
  /\ phase' = "inject"
  /\ \/ UNCHANGED <<partVars, fieldVars>>
     \/ /\ emitting
        /\ p' = p \cup {Now("emit")}
        /\ k_p_d' = k_p_d \cup {Stale}
        /\ all_p' = all_p \cup {Now("emit")}
        /\ pm' \in {pm, pm \cup {"emitted"}}
        /\ f' = f \cup {Now("rhob")}
        /\ k_jf_accum_h' = k_jf_accum_h \cup {Now("emit")}
        /\ all_f' = all_f \cup {Now("rhob"), Now("emit")}
        /\ UNCHANGED <<k_pm_d, k_pc_h, last_copied_p, k_f_d, last_copied_f>>
  /\ UNCHANGED <<interpVars, runVars, file>>

\* inject_particle on the host between two copies: with an age it moves the
\* particle, and lists a mover for one that stops at a face; with update_rhob, the
\* default, it adds to the host's rhob.  What is injected in a step is of one kind.
HostInjection ==
  \E kind \in {"inject", "stopped"} :
    LET current == IF aging THEN {Now("inject")} ELSE {}
        charge == {Now("rhob")}
    IN  /\ kind = "stopped" => aging
        /\ p' = InjectedInto(p, k_p_d) \cup {Now(kind)}
        /\ last_copied_p' = Stamp
        /\ pm' = k_pm_d \cup IF kind = "stopped" THEN {"injected"} ELSE {}
        /\ k_p_d' = p'
        /\ k_pm_d' = pm'
        /\ f' = f \cup charge
        /\ k_jf_accum_h' = k_jf_accum_h \cup current
        /\ all_f' = all_f \cup charge \cup current
        /\ all_p' = all_p \cup {Now(kind)}
        /\ UNCHANGED <<k_pc_h, k_f_d, last_copied_f>>

\* user_particle_injection ported to Kokkos changes the device arrays.
DeviceInjection ==
  /\ k_p_d' = k_p_d \cup {Now("inject")}
  /\ all_p' = all_p \cup {Now("inject")}
  /\ UNCHANGED <<p, k_pm_d, pm, k_pc_h, last_copied_p, fieldVars>>

ParticleInjection ==
  /\ phase = "inject"
  /\ phase' = "exchange"
  /\ \/ UNCHANGED <<partVars, fieldVars>>
     \/ kokkos["particle"] /\ DeviceInjection
     \/ ~kokkos["particle"] /\ HostInjection
  /\ UNCHANGED <<interpVars, runVars, file>>

\* Movers whose particle advance_p did not copy to the host: boundary_p_kokkos
\* finds left-over memory in k_pc_h.
Uncopied == pm \ k_pc_h

\* compress removes the particles of the movers on the device, those of aged
\* injection too.
Compressed(particles) ==
  IF "injected" \in k_pm_d THEN particles \ {Now("stopped")} ELSE particles

\* The rounds of boundary_p_kokkos, compress, copy_inbound_to_device, nm = 0
\* and k_reduce_jf: the current of the moved particles goes through the host.
\* What boundary_p_kokkos finds for an uncopied mover it absorbs, which adds to
\* rhob, sends or drops; what a neighbour sends of this kind arrives here.
Exchange ==
  /\ phase = "exchange"
  /\ \E absorbed, arrived \in SUBSET {Stale} :
       /\ absorbed # {} => Uncopied # {}
       /\ arrived # {} => emitting \/ aging
       /\ k_p_d' = Compressed(k_p_d) \cup {Now("exchange")} \cup arrived
       /\ k_f_d' = k_f_d \cup k_jf_accum_h \cup {Now("move")} \cup absorbed
  /\ all_p' = all_p \cup {Now("exchange")}
  /\ all_f' = all_f \cup {Now("move")}
  /\ pm' = {}
  /\ k_pc_h' = {}
  /\ k_jf_accum_h' = {}
  /\ phase' = "current"
  /\ UNCHANGED <<p, k_pm_d, last_copied_p, f, last_copied_f, interpVars, runVars, file>>

\* user_current_injection and user_field_injection, on either side.
InjectField(x) ==
  \/ UNCHANGED fieldVars
  \/ /\ kokkos[x]
     /\ k_f_d' = k_f_d \cup {Now(x)}
     /\ all_f' = all_f \cup {Now(x)}
     /\ UNCHANGED <<f, k_jf_accum_h, last_copied_f>>
  \/ /\ ~kokkos[x]
     /\ f' = InjectedInto(f, k_f_d) \cup {Now(x)}
     /\ last_copied_f' = Stamp
     /\ k_f_d' = f'
     /\ all_f' = all_f \cup {Now(x)}
     /\ UNCHANGED k_jf_accum_h

CurrentInjection ==
  /\ phase = "current"
  /\ phase' = "solve"
  /\ InjectField("current")
  /\ UNCHANGED <<partVars, interpVars, runVars, file>>

\* advance_b and advance_e_kokkos.
Solve ==
  /\ phase = "solve"
  /\ phase' = "field"
  /\ k_f_d' = k_f_d \cup {Now("solve")}
  /\ all_f' = all_f \cup {Now("solve")}
  /\ UNCHANGED <<f, k_jf_accum_h, last_copied_f, partVars, interpVars, runVars, file>>

FieldInjection ==
  /\ phase = "field"
  /\ phase' = "finish"
  /\ InjectField("field")
  /\ UNCHANGED <<partVars, interpVars, runVars, file>>

\* advance_b, the divergence cleaning and synchronisation that are due, the
\* interpolators for the next step, step()++.
FinishStep ==
  /\ phase = "finish"
  /\ k_f_d' = k_f_d \cup {Now("clean")}
  /\ all_f' = all_f \cup {Now("clean")}
  /\ k_i_d' = Loaded(k_f_d', k_i_d)
  /\ step' = step + 1
  /\ phase' = "diagnostics"
  /\ UNCHANGED <<f, k_jf_accum_h, last_copied_f, partVars, i, deckVars, registered, disk,
                 crashes, file>>

\* copy_to_host of the species, if it is due.
FreshParticles ==
  IF CopyIsDue(last_copied_p)
    THEN p' = k_p_d /\ pm' = k_pm_d /\ last_copied_p' = Stamp
    ELSE UNCHANGED <<p, pm, last_copied_p>>

DumpFields ==
  /\ phase = "diagnostics"
  /\ IF CopyIsDue(last_copied_f)
       THEN f' = k_f_d /\ last_copied_f' = Stamp
       ELSE UNCHANGED <<f, last_copied_f>>
  /\ file' = [kind |-> "fields", data |-> f', centered |-> {}]
  /\ UNCHANGED <<phase, k_f_d, k_jf_accum_h, all_f, partVars, interpVars, runVars>>

\* dump_particles centers a copy of the host particles with the host
\* interpolators and writes it.
DumpParticles ==
  /\ phase = "diagnostics"
  /\ FreshParticles
  /\ file' = [kind |-> "particles", data |-> p', centered |-> i]
  /\ UNCHANGED <<phase, k_p_d, k_pm_d, k_pc_h, all_p, fieldVars, interpVars, runVars>>

\* checkpt(): bring everything to the host and write the registered objects.
Checkpt ==
  /\ phase = "diagnostics"
  /\ FreshParticles
  /\ f' = k_f_d
  /\ last_copied_f' = Stamp
  /\ i' = k_i_d
  /\ disk' = [step |-> step, registered |-> registered, p |-> p', f |-> f', i |-> i', pm |-> pm',
              last_p |-> last_copied_p', last_f |-> last_copied_f', all_p |-> all_p,
              all_f |-> all_f]
  /\ UNCHANGED <<phase, k_p_d, k_pm_d, k_pc_h, all_p, k_f_d, k_jf_accum_h, all_f, k_i_d, step,
                 deckVars, registered, crashes, file>>

\* user_diagnostics returns; after initialize() main registers its pointer.
EndDiagnostics ==
  /\ phase = "diagnostics"
  /\ phase' = "push"
  /\ registered' = TRUE
  /\ file' = NoFile
  /\ UNCHANGED <<partVars, fieldVars, interpVars, step, deckVars, disk, crashes>>

\* The process dies and is started again with --restore: the checkpointed host
\* arrays are copied to new device arrays.  Without its pointer to the
\* simulation, main has nothing to go on with.
CrashAndRestore ==
  /\ phase # "failed"
  /\ disk # NoCheckpoint
  /\ crashes < MaxCrash
  /\ crashes' = crashes + 1
  /\ phase' = IF disk.registered THEN "push" ELSE "failed"
  /\ step' = disk.step
  /\ registered' = disk.registered
  /\ p' = disk.p /\ k_p_d' = disk.p
  /\ pm' = disk.pm /\ k_pm_d' = disk.pm
  /\ f' = disk.f /\ k_f_d' = disk.f
  /\ i' = disk.i /\ k_i_d' = disk.i
  /\ last_copied_p' = disk.last_p /\ last_copied_f' = disk.last_f
  /\ k_pc_h' = {}
  /\ k_jf_accum_h' = {}
  /\ file' = NoFile
  /\ all_p' = disk.all_p /\ all_f' = disk.all_f
  /\ UNCHANGED <<deckVars, disk>>

Stop ==
  /\ \/ phase = "push" /\ step = NumStep
     \/ phase = "failed"
  /\ UNCHANGED vars

Next ==
  \/ Initialize
  \/ AdvanceP \/ ApplyEmitters \/ ParticleInjection \/ Exchange
  \/ CurrentInjection \/ Solve \/ FieldInjection \/ FinishStep
  \/ DumpFields \/ DumpParticles \/ Checkpt \/ EndDiagnostics
  \/ CrashAndRestore
  \/ Stop

Spec == Init /\ [][Next]_vars
-----------------------------------------------------------------------------
OfKind(kinds, events) == {e \in events : e[1] \in kinds}
Without(kinds, events) == {e \in events : e[1] \notin kinds}
BetweenSteps == phase \in {"push", "diagnostics"}

\* What the device, on which the simulation runs, has whenever a step begins or
\* is diagnosed, through host side injections, dumps, crashes and restores.  With
\* a deck that neither emits particles nor ages those it injects on the host: all
\* particles and nothing else, and all that was done to the fields but the bound
\* charge of host side injection.  With any deck the interpolators are those of the
\* fields, and of what is not left-over memory only the particles emitted or
\* stopped at a face as they were aged are missing; HostEventsReachDevice and
\* GuardListCopied say that they should not be.
DeviceCurrent ==
  BetweenSteps =>
    /\ ~emitting /\ ~aging => k_p_d = all_p /\ k_f_d = Without({"rhob"}, all_f)
    /\ Without({"stale"}, k_p_d) = Without({"emit", "stopped"}, all_p)
    /\ Without({"stale"}, k_f_d) = Without({"rhob"}, all_f)
    /\ k_i_d = k_f_d

\* A dump holds what the device holds at that time, although a dump may skip
\* copy_to_host and host injections copy in the middle of the step.
DumpsCurrent ==
  /\ file.kind = "fields" => file.data = k_f_d
  /\ file.kind = "particles" => file.data = k_p_d

\* "Checking last_copied==step() in these circumstances does mean the host is
\* up to date": in user_diagnostics, a host copy stamped with this step is the
\* device's.
StampMeansCurrent ==
  phase = "diagnostics" =>
    /\ last_copied_p = step => p = k_p_d
    /\ last_copied_f = step => f = k_f_d

\* Every mover on the guard list boundary_p_kokkos is about to process has its
\* particle in k_pc_h; injection is placed before it so that the particles it
\* puts on the guard list are processed (advance.cc).
GuardListCopied == phase = "exchange" => pm \subseteq k_pc_h

\* What emission and injection do on the host becomes part of the simulation:
\* "Particles are emitted" and "rhob is continuously incrementally accumulated
\* over time", so both reach the device by the end of the step.
HostEventsReachDevice ==
  BetweenSteps =>
    /\ OfKind({"emit"}, all_p) \subseteq k_p_d
    /\ OfKind({"rhob"}, all_f) \subseteq k_f_d

\* dump_particles centers particles with the interpolators of this step ("The
\* data written is known at the time t = time()").
CenteredInTime == file.kind = "particles" => file.centered = k_i_d

\* "The simulation can then be restarted from this point", whichever step the
\* checkpoint is of.
CheckpointRestores == phase # "failed"
=============================================================================
