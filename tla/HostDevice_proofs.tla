-------------------------- MODULE HostDevice_proofs --------------------------
(***************************************************************************)
(* Proofs about HostDevice: whatever is injected, dumped, checkpointed and *)
(* restored, the device is current between steps, dumps are current, and a *)
(* stamp of this step means a current host copy.                           *)
(***************************************************************************)
EXTENDS HostDevice, TLAPS

\* The kind of an event.
LEMMA KindOf == Stale[1] = "stale" /\ \A kind : Now(kind)[1] = kind
BY DEF Stale, Now

\* Adding an event commutes with leaving out other kinds.
LEMMA WithoutAdd ==
  ASSUME NEW kinds, NEW S, NEW e, e[1] \notin kinds
  PROVE  Without(kinds, S \cup {e}) = Without(kinds, S) \cup {e}
BY DEF Without

\* Events of the kinds left out come and go without a trace.
LEMMA WithoutDrop ==
  ASSUME NEW kinds, NEW S, NEW e, e[1] \in kinds
  PROVE  /\ Without(kinds, S \cup {e}) = Without(kinds, S)
         /\ Without(kinds, S \ {e}) = Without(kinds, S)
BY DEF Without

\* An event of another kind is not one of these kinds.
LEMMA OfKindAdd ==
  ASSUME NEW kinds, NEW S, NEW e, e[1] \notin kinds
  PROVE  OfKind(kinds, S \cup {e}) = OfKind(kinds, S)
BY DEF OfKind

-----------------------------------------------------------------------------
Plain == ~emitting /\ ~aging
Moving == phase \in {"emit", "inject", "exchange"}

\* What the device has of a particle event in every phase: a particle that stops
\* at a face as it is aged on the host is there until compress removes it.
ParticleArrays ==
  /\ phase # "initialize" =>
       Without({"stale", "stopped"}, k_p_d) = Without({"emit", "stopped"}, all_p)
  /\ OfKind({"stopped"}, k_p_d) \subseteq
       IF phase = "exchange" /\ "injected" \in k_pm_d THEN {Now("stopped")} ELSE {}

\* What the device has of a field event in every phase: current that a host
\* move_p accumulated is on its way from emission or injection to the end of the
\* exchange.
FieldArrays ==
  /\ phase # "initialize" =>
       Without({"stale"}, k_f_d \cup k_jf_accum_h) = Without({"rhob"}, all_f)
  /\ k_jf_accum_h # {} => phase \in {"inject", "exchange"}
  /\ BetweenSteps => k_i_d = k_f_d

\* With a deck that neither emits nor ages there is no left-over memory to see.
PlainArrays ==
  Plain /\ phase # "initialize" =>
    /\ Moving => pm \subseteq k_pc_h /\ k_pm_d \subseteq k_pc_h /\ k_pc_h \subseteq {"pushed"}
    /\ k_p_d = all_p
    /\ k_f_d = Without({"rhob"}, all_f)
    /\ k_jf_accum_h = {}

\* Before initialize() has copied them, the host arrays are what the user left.
Fresh ==
  phase = "initialize" =>
    /\ p = {<<"start", 0>>} /\ all_p = p /\ k_p_d = {}
    /\ f = {<<"start", 0>>} /\ all_f = f
    /\ k_jf_accum_h = {}
    /\ last_copied_p < step /\ last_copied_f < step

\* A checkpoint is a state between two steps.
DiskOK ==
  disk # NoCheckpoint =>
    /\ Without({"stale", "stopped"}, disk.p) = Without({"emit", "stopped"}, disk.all_p)
    /\ OfKind({"stopped"}, disk.p) = {}
    /\ Without({"stale"}, disk.f) = Without({"rhob"}, disk.all_f)
    /\ Plain => disk.p = disk.all_p /\ disk.f = Without({"rhob"}, disk.all_f)
    /\ disk.i = disk.f
    /\ disk.last_p <= disk.step /\ disk.last_f <= disk.step

\* No stamp is ahead of the step, and a file is looked at in user_diagnostics.
StampsPast ==
  /\ last_copied_p <= step /\ last_copied_f <= step
  /\ file.kind # "none" => phase = "diagnostics"

\* A step that has begun is not one too many.
StepBound == phase \notin {"initialize", "push", "diagnostics", "failed"} => step < NumStep

IInv ==
  /\ TypeOK /\ StepBound
  /\ ParticleArrays /\ FieldArrays /\ PlainArrays
  /\ Fresh /\ DiskOK /\ StampsPast
  /\ StampMeansCurrent /\ DumpsCurrent

\* The state of the initial copies satisfies the invariant.
LEMMA InitInvariant == Init => IInv
<1> SUFFICES ASSUME Init PROVE IInv
  OBVIOUS
<1> USE BoundAssumption
<1>1. <<"start", 0>> \in Event
  BY DEF Event, Kind
<1>2. 0 \in 0 .. NumStep /\ -1 \in -1 .. NumStep /\ 0 \in 0 .. MaxCrash
  OBVIOUS
<1>3. {<<"start", 0>>} \subseteq Event
  BY <1>1
<1>4. file.kind = "none" /\ file.data = {} /\ file.centered = {}
  BY DEF Init, NoFile
<1>5. TypeOK /\ StepBound
  BY <1>2, <1>3, <1>4 DEF Init, TypeOK, StepBound, Phase
<1>6. /\ ParticleArrays /\ FieldArrays /\ PlainArrays
      /\ Fresh /\ DiskOK /\ StampsPast
  BY DEF Init, ParticleArrays, FieldArrays, PlainArrays, Fresh, DiskOK, StampsPast, BetweenSteps,
         NoFile, OfKind
<1>7. StampMeansCurrent /\ DumpsCurrent
  BY DEF Init, StampMeansCurrent, DumpsCurrent, NoFile
<1> QED
  BY <1>5, <1>6, <1>7 DEF IInv

\* Every step keeps the types, and step stays within num_step.
LEMMA TypeStep == ASSUME IInv, [Next]_vars PROVE TypeOK' /\ StepBound'
<1> USE BoundAssumption DEF IInv
<1>1. /\ Stale \in Event
      /\ \A kind \in {"uncenter", "push", "emit", "inject", "stopped", "exchange", "move", "rhob",
                       "current", "solve", "field", "clean"} : Now(kind) \in Event
  BY DEF TypeOK, Event, Now, Stale, Kind
<1>2. Stamp \in -1 .. NumStep
  BY DEF TypeOK, Stamp
<1>3. CASE Initialize
  BY <1>1, <1>3 DEF Initialize, TypeOK, StepBound, Phase, Loaded, runVars, deckVars
<1>4. CASE AdvanceP
  BY <1>1, <1>4 DEF AdvanceP, TypeOK, StepBound, Phase, Owner, fieldVars, interpVars, runVars, deckVars
<1>5. CASE ApplyEmitters
  BY <1>1, <1>5 DEF ApplyEmitters, TypeOK, StepBound, Phase, Owner, partVars, fieldVars,
                    interpVars, runVars, deckVars
<1>6. CASE ParticleInjection
  <2>1. UNCHANGED interpVars /\ UNCHANGED runVars /\ UNCHANGED file
        /\ phase = "inject" /\ phase' = "exchange"
    BY <1>6 DEF ParticleInjection
  <2>2. CASE UNCHANGED <<partVars, fieldVars>>
    BY <2>1, <2>2 DEF TypeOK, StepBound, Phase, partVars, fieldVars, interpVars, runVars, deckVars
  <2>3. CASE DeviceInjection
    BY <1>1, <2>1, <2>3
    DEF DeviceInjection, TypeOK, StepBound, Phase, fieldVars, interpVars, runVars, deckVars
  <2>4. CASE HostInjection
    <3>1. PICK kind \in {"inject", "stopped"}, current \in {{}, {Now("inject")}} :
            /\ p' = k_p_d \cup {Now(kind)} /\ k_p_d' = p' /\ all_p' = all_p \cup {Now(kind)}
            /\ k_jf_accum_h' = k_jf_accum_h \cup current
            /\ f' = f \cup {Now("rhob")}
            /\ all_f' = all_f \cup {Now("rhob")} \cup current
      BY <2>4 DEF HostInjection, InjectedInto
    <3>2. /\ pm' \subseteq Owner /\ k_pm_d' \subseteq Owner
          /\ last_copied_p' = Stamp
          /\ UNCHANGED <<k_pc_h, k_f_d, last_copied_f>>
      BY <2>4 DEF HostInjection, TypeOK, Owner
    <3> QED
      BY <1>1, <1>2, <2>1, <3>1, <3>2
      DEF TypeOK, StepBound, Phase, interpVars, runVars, deckVars
  <2> QED
    BY <1>6, <2>2, <2>3, <2>4 DEF ParticleInjection
<1>7. CASE Exchange
  <2>1. PICK absorbed \in SUBSET {Stale}, arrived \in SUBSET {Stale} :
          /\ k_p_d' = Compressed(k_p_d) \cup {Now("exchange")} \cup arrived
          /\ k_f_d' = k_f_d \cup k_jf_accum_h \cup {Now("move")} \cup absorbed
    BY <1>7 DEF Exchange
  <2>2. Compressed(k_p_d) \subseteq k_p_d
    BY DEF Compressed
  <2>3. k_p_d' \subseteq Event /\ k_f_d' \subseteq Event
    BY <1>1, <2>1, <2>2 DEF TypeOK
  <2> QED
    BY <1>1, <1>7, <2>3 DEF Exchange, TypeOK, StepBound, Phase, interpVars, runVars, deckVars
<1>8. CASE CurrentInjection
  BY <1>1, <1>2, <1>8
  DEF CurrentInjection, InjectField, InjectedInto, TypeOK, StepBound, Phase, partVars,
      fieldVars, interpVars, runVars, deckVars
<1>9. CASE Solve
  BY <1>1, <1>9 DEF Solve, TypeOK, StepBound, Phase, partVars, interpVars, runVars, deckVars
<1>10. CASE FieldInjection
  BY <1>1, <1>2, <1>10
  DEF FieldInjection, InjectField, InjectedInto, TypeOK, StepBound, Phase, partVars,
      fieldVars, interpVars, runVars, deckVars
<1>11. CASE FinishStep
  BY <1>1, <1>11 DEF FinishStep, deckVars, TypeOK, StepBound, Phase, Loaded, partVars
<1>12. CASE DumpFields
  BY <1>2, <1>12 DEF DumpFields, TypeOK, StepBound, partVars, interpVars, runVars, deckVars
<1>13. CASE DumpParticles
  BY <1>2, <1>13 DEF DumpParticles, FreshParticles, TypeOK, StepBound, fieldVars, interpVars,
                     runVars, deckVars
<1>14. CASE Checkpt
  BY <1>2, <1>14 DEF Checkpt, deckVars, FreshParticles, Checkpoint, TypeOK, StepBound
<1>15. CASE EndDiagnostics
  BY <1>15 DEF EndDiagnostics, deckVars, TypeOK, StepBound, Phase, NoFile, partVars, fieldVars,
               interpVars
<1>16. CASE CrashAndRestore
  BY <1>16 DEF CrashAndRestore, deckVars, Checkpoint, TypeOK, StepBound, Phase, NoFile
<1>17. CASE UNCHANGED vars
  BY <1>17 DEF vars, partVars, fieldVars, interpVars, runVars, deckVars, TypeOK, StepBound
<1> QED
  BY <1>3, <1>4, <1>5, <1>6, <1>7, <1>8, <1>9, <1>10, <1>11, <1>12, <1>13, <1>14, <1>15,
     <1>16, <1>17 DEF Next, Stop

\* Stamps stay in the past and files in user_diagnostics.
LEMMA StampsStep == ASSUME IInv, [Next]_vars PROVE StampsPast'
<1> USE DEF IInv
<1>1. CASE Initialize
  BY <1>1 DEF Initialize, Loaded, StampsPast, Stamp, TypeOK, runVars
<1>2. CASE AdvanceP
  BY <1>2 DEF AdvanceP, StampsPast, fieldVars, interpVars, runVars
<1>3. CASE ApplyEmitters
  BY <1>3 DEF ApplyEmitters, StampsPast, partVars, fieldVars, interpVars, runVars
<1>4. CASE ParticleInjection
  BY <1>4 DEF ParticleInjection, HostInjection, DeviceInjection, InjectedInto, StampsPast, Stamp,
    TypeOK, partVars, fieldVars, interpVars, runVars
<1>5. CASE Exchange
  BY <1>5 DEF Exchange, StampsPast, interpVars, runVars
<1>6. CASE CurrentInjection
  BY <1>6 DEF CurrentInjection, InjectField, InjectedInto, StampsPast, Stamp, TypeOK, partVars,
    fieldVars, interpVars, runVars
<1>7. CASE Solve
  BY <1>7 DEF Solve, StampsPast, partVars, interpVars, runVars
<1>8. CASE FieldInjection
  BY <1>8 DEF FieldInjection, InjectField, InjectedInto, StampsPast, Stamp, TypeOK, partVars,
    fieldVars, interpVars, runVars
<1>9. CASE FinishStep
  BY <1>9 DEF FinishStep, Loaded, StampsPast, Stamp, TypeOK, partVars
<1>10. CASE DumpFields
  BY <1>10 DEF DumpFields, StampsPast, Stamp, TypeOK, partVars, interpVars, runVars
<1>11. CASE DumpParticles
  BY <1>11 DEF DumpParticles, FreshParticles, StampsPast, Stamp, TypeOK, fieldVars, interpVars,
    runVars
<1>12. CASE Checkpt
  BY <1>12 DEF Checkpt, FreshParticles, StampsPast, Stamp, TypeOK
<1>13. CASE EndDiagnostics
  BY <1>13 DEF EndDiagnostics, StampsPast, NoFile, partVars, fieldVars, interpVars
<1>14. CASE CrashAndRestore
  BY <1>14 DEF CrashAndRestore, StampsPast, DiskOK, NoFile
<1>15. CASE UNCHANGED vars
  BY <1>15 DEF vars, StampsPast, partVars, fieldVars, interpVars, runVars
<1> QED
  BY <1>1, <1>2, <1>3, <1>4, <1>5, <1>6, <1>7, <1>8, <1>9, <1>10, <1>11, <1>12, <1>13, <1>14,
     <1>15 DEF Next, Stop

\* A stamp of this step still means a current host copy.
LEMMA StampMeansStep == ASSUME IInv, [Next]_vars PROVE StampMeansCurrent'
<1> USE DEF IInv
<1>1. CASE Initialize
  BY <1>1 DEF Initialize, Loaded, StampMeansCurrent, Fresh, TypeOK, runVars
<1>2. CASE AdvanceP
  BY <1>2 DEF AdvanceP, StampMeansCurrent, fieldVars, interpVars, runVars
<1>3. CASE ApplyEmitters
  BY <1>3 DEF ApplyEmitters, StampMeansCurrent, partVars, fieldVars, interpVars, runVars
<1>4. CASE ParticleInjection
  BY <1>4 DEF ParticleInjection, HostInjection, DeviceInjection, InjectedInto, StampMeansCurrent,
    partVars, fieldVars, interpVars, runVars
<1>5. CASE Exchange
  BY <1>5 DEF Exchange, StampMeansCurrent, interpVars, runVars
<1>6. CASE CurrentInjection
  BY <1>6 DEF CurrentInjection, InjectField, InjectedInto, StampMeansCurrent, partVars, fieldVars,
    interpVars, runVars
<1>7. CASE Solve
  BY <1>7 DEF Solve, StampMeansCurrent, partVars, interpVars, runVars
<1>8. CASE FieldInjection
  BY <1>8 DEF FieldInjection, InjectField, InjectedInto, StampMeansCurrent, partVars, fieldVars,
    interpVars, runVars
<1>9. CASE FinishStep
  BY <1>9 DEF FinishStep, Loaded, StampMeansCurrent, StampsPast, TypeOK, partVars
<1>10. CASE DumpFields
  BY <1>10 DEF DumpFields, StampMeansCurrent, Stamp, partVars, interpVars, runVars
<1>11. CASE DumpParticles
  BY <1>11 DEF DumpParticles, FreshParticles, StampMeansCurrent, Stamp, fieldVars, interpVars,
    runVars
<1>12. CASE Checkpt
  BY <1>12 DEF Checkpt, FreshParticles, StampMeansCurrent, Stamp
<1>13. CASE EndDiagnostics
  BY <1>13 DEF EndDiagnostics, StampMeansCurrent, partVars, fieldVars, interpVars
<1>14. CASE CrashAndRestore
  BY <1>14 DEF CrashAndRestore, StampMeansCurrent
<1>15. CASE UNCHANGED vars
  BY <1>15 DEF vars, StampMeansCurrent, partVars, fieldVars, interpVars, runVars
<1> QED
  BY <1>1, <1>2, <1>3, <1>4, <1>5, <1>6, <1>7, <1>8, <1>9, <1>10, <1>11, <1>12, <1>13, <1>14,
     <1>15 DEF Next, Stop

\* A dump is of what the device has.
LEMMA DumpsStep == ASSUME IInv, [Next]_vars PROVE DumpsCurrent'
<1> USE DEF IInv
<1>1. CASE Initialize
  BY <1>1 DEF Initialize, Loaded, DumpsCurrent, StampsPast, runVars
<1>2. CASE AdvanceP
  BY <1>2 DEF AdvanceP, DumpsCurrent, StampsPast, fieldVars, interpVars, runVars
<1>3. CASE ApplyEmitters
  BY <1>3 DEF ApplyEmitters, DumpsCurrent, StampsPast, partVars, fieldVars, interpVars, runVars
<1>4. CASE ParticleInjection
  BY <1>4 DEF ParticleInjection, HostInjection, DeviceInjection, InjectedInto, DumpsCurrent,
    StampsPast, partVars, fieldVars, interpVars, runVars
<1>5. CASE Exchange
  BY <1>5 DEF Exchange, DumpsCurrent, StampsPast, interpVars, runVars
<1>6. CASE CurrentInjection
  BY <1>6 DEF CurrentInjection, InjectField, InjectedInto, DumpsCurrent, StampsPast, partVars,
    fieldVars, interpVars, runVars
<1>7. CASE Solve
  BY <1>7 DEF Solve, DumpsCurrent, StampsPast, partVars, interpVars, runVars
<1>8. CASE FieldInjection
  BY <1>8 DEF FieldInjection, InjectField, InjectedInto, DumpsCurrent, StampsPast, partVars,
    fieldVars, interpVars, runVars
<1>9. CASE FinishStep
  BY <1>9 DEF FinishStep, Loaded, DumpsCurrent, StampsPast, partVars
<1>10. CASE DumpFields
  BY <1>10 DEF DumpFields, DumpsCurrent, StampsPast, StampMeansCurrent, CopyIsDue, TypeOK,
    partVars, interpVars, runVars
<1>11. CASE DumpParticles
  BY <1>11 DEF DumpParticles, FreshParticles, DumpsCurrent, StampsPast, StampMeansCurrent,
    CopyIsDue, TypeOK, fieldVars, interpVars, runVars
<1>12. CASE Checkpt
  BY <1>12 DEF Checkpt, FreshParticles, DumpsCurrent
<1>13. CASE EndDiagnostics
  BY <1>13 DEF EndDiagnostics, DumpsCurrent, NoFile, partVars, fieldVars, interpVars
<1>14. CASE CrashAndRestore
  BY <1>14 DEF CrashAndRestore, DumpsCurrent, NoFile
<1>15. CASE UNCHANGED vars
  BY <1>15 DEF vars, DumpsCurrent, partVars, fieldVars, interpVars, runVars
<1> QED
  BY <1>1, <1>2, <1>3, <1>4, <1>5, <1>6, <1>7, <1>8, <1>9, <1>10, <1>11, <1>12, <1>13, <1>14,
     <1>15 DEF Next, Stop

\* Nothing leads back to the initial copies.
LEMMA FreshStep == ASSUME IInv, [Next]_vars PROVE Fresh'
<1> USE DEF IInv
<1>1. CASE Initialize
  BY <1>1 DEF Initialize, Loaded, Fresh, runVars
<1>2. CASE AdvanceP
  BY <1>2 DEF AdvanceP, Fresh, fieldVars, interpVars, runVars
<1>3. CASE ApplyEmitters
  BY <1>3 DEF ApplyEmitters, Fresh, partVars, fieldVars, interpVars, runVars
<1>4. CASE ParticleInjection
  BY <1>4 DEF ParticleInjection, HostInjection, DeviceInjection, InjectedInto, Fresh, partVars,
    fieldVars, interpVars, runVars
<1>5. CASE Exchange
  BY <1>5 DEF Exchange, Fresh, interpVars, runVars
<1>6. CASE CurrentInjection
  BY <1>6 DEF CurrentInjection, InjectField, InjectedInto, Fresh, partVars, fieldVars, interpVars,
    runVars
<1>7. CASE Solve
  BY <1>7 DEF Solve, Fresh, partVars, interpVars, runVars
<1>8. CASE FieldInjection
  BY <1>8 DEF FieldInjection, InjectField, InjectedInto, Fresh, partVars, fieldVars, interpVars,
    runVars
<1>9. CASE FinishStep
  BY <1>9 DEF FinishStep, Loaded, Fresh, partVars
<1>10. CASE DumpFields
  BY <1>10 DEF DumpFields, Fresh, partVars, interpVars, runVars
<1>11. CASE DumpParticles
  BY <1>11 DEF DumpParticles, FreshParticles, Fresh, fieldVars, interpVars, runVars
<1>12. CASE Checkpt
  BY <1>12 DEF Checkpt, FreshParticles, Fresh
<1>13. CASE EndDiagnostics
  BY <1>13 DEF EndDiagnostics, Fresh, partVars, fieldVars, interpVars
<1>14. CASE CrashAndRestore
  BY <1>14 DEF CrashAndRestore, Fresh
<1>15. CASE UNCHANGED vars
  BY <1>15 DEF vars, Fresh, partVars, fieldVars, interpVars, runVars
<1> QED
  BY <1>1, <1>2, <1>3, <1>4, <1>5, <1>6, <1>7, <1>8, <1>9, <1>10, <1>11, <1>12, <1>13, <1>14,
     <1>15 DEF Next, Stop

\* No step changes what the deck is.
LEMMA PlainKept == ASSUME [Next]_vars PROVE Plain' = Plain
<1>1. UNCHANGED deckVars
  BY DEF Next, Stop, vars, runVars, Initialize, AdvanceP, ApplyEmitters, ParticleInjection,
         Exchange, CurrentInjection, Solve, FieldInjection, FinishStep, DumpFields, DumpParticles,
         Checkpt, EndDiagnostics, CrashAndRestore
<1> QED
  BY <1>1 DEF Plain, deckVars

\* A checkpoint is taken of a state between two steps.
LEMMA DiskStep == ASSUME IInv, [Next]_vars PROVE DiskOK'
<1> USE PlainKept DEF IInv
<1>1. CASE Initialize
  BY <1>1 DEF Initialize, Loaded, DiskOK, runVars
<1>2. CASE AdvanceP
  BY <1>2 DEF AdvanceP, DiskOK, fieldVars, interpVars, runVars
<1>3. CASE ApplyEmitters
  BY <1>3 DEF ApplyEmitters, DiskOK, partVars, fieldVars, interpVars, runVars
<1>4. CASE ParticleInjection
  BY <1>4 DEF ParticleInjection, HostInjection, DeviceInjection, InjectedInto, DiskOK, partVars,
    fieldVars, interpVars, runVars
<1>5. CASE Exchange
  BY <1>5 DEF Exchange, DiskOK, interpVars, runVars
<1>6. CASE CurrentInjection
  BY <1>6 DEF CurrentInjection, InjectField, InjectedInto, DiskOK, partVars, fieldVars,
    interpVars, runVars
<1>7. CASE Solve
  BY <1>7 DEF Solve, DiskOK, partVars, interpVars, runVars
<1>8. CASE FieldInjection
  BY <1>8 DEF FieldInjection, InjectField, InjectedInto, DiskOK, partVars, fieldVars, interpVars,
    runVars
<1>9. CASE FinishStep
  BY <1>9 DEF FinishStep, Loaded, DiskOK, partVars
<1>10. CASE DumpFields
  BY <1>10 DEF DumpFields, DiskOK, partVars, interpVars, runVars
<1>11. CASE DumpParticles
  BY <1>11 DEF DumpParticles, FreshParticles, DiskOK, fieldVars, interpVars, runVars
<1>12. CASE Checkpt
  <2>1. /\ Without({"stale", "stopped"}, k_p_d) = Without({"emit", "stopped"}, all_p)
        /\ OfKind({"stopped"}, k_p_d) = {}
        /\ Without({"stale"}, k_f_d) = Without({"rhob"}, all_f)
        /\ Plain => k_p_d = all_p /\ k_f_d = Without({"rhob"}, all_f)
        /\ k_i_d = k_f_d
    <3>1. phase = "diagnostics"
      BY <1>12 DEF Checkpt
    <3>2. k_jf_accum_h = {}
      BY <3>1 DEF FieldArrays
    <3>3. k_f_d \cup k_jf_accum_h = k_f_d
      BY <3>2
    <3> QED
      BY <3>1, <3>3 DEF ParticleArrays, FieldArrays, PlainArrays, BetweenSteps
  <2>2. p' = k_p_d
    BY <1>12 DEF Checkpt, FreshParticles, StampsPast, StampMeansCurrent, CopyIsDue, TypeOK
  <2>3. last_copied_p' <= step /\ last_copied_f' <= step
    BY <1>12 DEF Checkpt, FreshParticles, StampsPast, Stamp, TypeOK
  <2>4. /\ disk'.p = p' /\ disk'.all_p = all_p
        /\ disk'.f = k_f_d /\ disk'.all_f = all_f
        /\ disk'.i = k_i_d
        /\ disk'.last_p = last_copied_p' /\ disk'.last_f = last_copied_f'
        /\ disk'.step = step
    BY <1>12 DEF Checkpt
  <2> QED
    BY <2>1, <2>2, <2>3, <2>4 DEF DiskOK
<1>13. CASE EndDiagnostics
  BY <1>13 DEF EndDiagnostics, DiskOK, partVars, fieldVars, interpVars
<1>14. CASE CrashAndRestore
  BY <1>14 DEF CrashAndRestore, DiskOK
<1>15. CASE UNCHANGED vars
  BY <1>15 DEF vars, DiskOK, partVars, fieldVars, interpVars, runVars
<1> QED
  BY <1>1, <1>2, <1>3, <1>4, <1>5, <1>6, <1>7, <1>8, <1>9, <1>10, <1>11, <1>12, <1>13, <1>14,
     <1>15 DEF Next, Stop

\* The particles on the device are what they were, and the new event.
LEMMA ParticlesStep == ASSUME IInv, [Next]_vars PROVE ParticleArrays'
<1> USE DEF IInv
<1> DEFINE Left == {"stale", "stopped"}
           Host == {"emit", "stopped"}
<1>1. ASSUME NEW kind, kind \notin Left \cup Host, NEW S
      PROVE  /\ Without(Left, S \cup {Now(kind)}) = Without(Left, S) \cup {Now(kind)}
             /\ Without(Host, S \cup {Now(kind)}) = Without(Host, S) \cup {Now(kind)}
             /\ OfKind({"stopped"}, S \cup {Now(kind)}) = OfKind({"stopped"}, S)
  <2>1. Now(kind)[1] \notin Left /\ Now(kind)[1] \notin Host /\ Now(kind)[1] \notin {"stopped"}
    BY <1>1, KindOf
  <2> HIDE DEF Left, Host
  <2>2. Without(Left, S \cup {Now(kind)}) = Without(Left, S) \cup {Now(kind)}
    BY <2>1, WithoutAdd
  <2>3. Without(Host, S \cup {Now(kind)}) = Without(Host, S) \cup {Now(kind)}
    BY <2>1, WithoutAdd
  <2> QED
    BY <2>1, <2>2, <2>3, OfKindAdd
<1>2. ASSUME NEW S
      PROVE  /\ Without(Left, S \cup {Stale}) = Without(Left, S)
             /\ OfKind({"stopped"}, S \cup {Stale}) = OfKind({"stopped"}, S)
  <2>1. Stale[1] \in Left /\ Stale[1] \notin {"stopped"}
    BY KindOf
  <2> HIDE DEF Left, Host
  <2> QED
    BY <2>1, WithoutDrop, OfKindAdd
<1>3. ASSUME NEW S
      PROVE  /\ Without(Left, S \cup {Now("stopped")}) = Without(Left, S)
             /\ Without(Left, S \ {Now("stopped")}) = Without(Left, S)
             /\ Without(Host, S \cup {Now("stopped")}) = Without(Host, S)
             /\ Without(Host, S \cup {Now("emit")}) = Without(Host, S)
  <2>1. Now("stopped")[1] \in Left /\ Now("stopped")[1] \in Host /\ Now("emit")[1] \in Host
    BY KindOf
  <2> HIDE DEF Left, Host
  <2> QED
    BY <2>1, WithoutDrop
<1>4. ASSUME NEW kind, kind \notin Left \cup Host, phase # "initialize",
             OfKind({"stopped"}, k_p_d) = {},
             k_p_d' = k_p_d \cup {Now(kind)}, all_p' = all_p \cup {Now(kind)}
      PROVE  ParticleArrays'
  <2>1. Without(Left, k_p_d') = Without(Left, k_p_d) \cup {Now(kind)}
    BY <1>1, <1>4
  <2>2. Without(Host, all_p') = Without(Host, all_p) \cup {Now(kind)}
    BY <1>1, <1>4
  <2>3. OfKind({"stopped"}, k_p_d') = {}
    BY <1>1, <1>4
  <2>4. Without(Left, k_p_d) = Without(Host, all_p)
    BY <1>4 DEF ParticleArrays
  <2> HIDE DEF Left, Host
  <2>5. Without(Left, k_p_d') = Without(Host, all_p')
    BY <2>1, <2>2, <2>4
  <2> USE DEF Left, Host
  <2> QED
    BY <2>3, <2>5 DEF ParticleArrays
<1>5. ASSUME k_p_d' = k_p_d, all_p' = all_p, phase # "initialize", phase # "exchange",
             phase' # "exchange"
      PROVE  ParticleArrays'
  BY <1>5 DEF ParticleArrays
<1>6. CASE Initialize
  <2>1. /\ k_p_d' = {<<"start", 0>>} \cup {Now("uncenter")}
        /\ all_p' = {<<"start", 0>>} \cup {Now("uncenter")}
        /\ phase' = "diagnostics"
    BY <1>6 DEF Initialize, Fresh
  <2>2. OfKind({"stopped"}, {<<"start", 0>>}) = {}
    BY DEF OfKind
  <2>3. Without(Left, {<<"start", 0>>}) = Without(Host, {<<"start", 0>>})
    BY DEF Without
  <2>4. /\ Without(Left, k_p_d') = Without(Host, all_p')
        /\ OfKind({"stopped"}, k_p_d') = {}
    <3>1. ASSUME NEW S, OfKind({"stopped"}, S) = {}, Without(Left, S) = Without(Host, S)
          PROVE  /\ Without(Left, S \cup {Now("uncenter")}) = Without(Host, S \cup {Now("uncenter")})
                 /\ OfKind({"stopped"}, S \cup {Now("uncenter")}) = {}
      BY <1>1, <3>1
    <3> HIDE DEF Left, Host
    <3> QED
      BY <2>1, <2>2, <2>3, <3>1
  <2> QED
    BY <2>1, <2>4 DEF ParticleArrays
<1>7. CASE AdvanceP
  <2>1. /\ phase = "push" /\ phase' = "emit"
        /\ k_p_d' = k_p_d \cup {Now("push")} /\ all_p' = all_p \cup {Now("push")}
    BY <1>7 DEF AdvanceP
  <2>2. OfKind({"stopped"}, k_p_d) = {}
    BY <2>1 DEF ParticleArrays
  <2> QED
    BY <1>4, <2>1, <2>2
<1>8. CASE ApplyEmitters
  <2>1. CASE UNCHANGED <<partVars, fieldVars>>
    BY <1>5, <1>8, <2>1 DEF ApplyEmitters, partVars
  <2>2. CASE k_p_d' = k_p_d \cup {Stale} /\ all_p' = all_p \cup {Now("emit")}
    BY <1>2, <1>3, <1>8, <2>2 DEF ApplyEmitters, ParticleArrays
  <2> QED
    BY <1>8, <2>1, <2>2 DEF ApplyEmitters
<1>9. CASE ParticleInjection
  <2>1. phase = "inject" /\ phase' = "exchange" /\ step' = step
    BY <1>9 DEF ParticleInjection, runVars
  <2>2. OfKind({"stopped"}, k_p_d) = {}
    BY <2>1 DEF ParticleArrays
  <2>3. CASE UNCHANGED <<partVars, fieldVars>>
    BY <2>1, <2>2, <2>3 DEF ParticleArrays, partVars
  <2>4. CASE DeviceInjection
    <3>1. /\ k_p_d' = k_p_d \cup {Now("inject")} /\ all_p' = all_p \cup {Now("inject")}
      BY <2>4 DEF DeviceInjection
    <3> QED
      BY <1>4, <2>1, <2>2, <3>1
  <2>5. CASE HostInjection
    <3>1. PICK kind \in {"inject", "stopped"} :
            /\ k_p_d' = k_p_d \cup {Now(kind)} /\ all_p' = all_p \cup {Now(kind)}
            /\ kind = "stopped" => "injected" \in k_pm_d'
      BY <2>5 DEF HostInjection, InjectedInto
    <3>2. CASE kind = "inject"
      BY <1>4, <2>1, <2>2, <3>1, <3>2
    <3>3. CASE kind = "stopped"
      <4>1. OfKind({"stopped"}, k_p_d') \subseteq {Now("stopped")}
        BY <2>2, <3>1, <3>3 DEF OfKind
      <4>2. Now("stopped")' = Now("stopped")
        BY <2>1 DEF Now
      <4> QED
        BY <1>3, <2>1, <3>1, <3>3, <4>1, <4>2 DEF ParticleArrays
    <3> QED
      BY <3>1, <3>2, <3>3
  <2> QED
    BY <1>9, <2>3, <2>4, <2>5 DEF ParticleInjection
<1>10. CASE Exchange
  <2>1. PICK arrived \in SUBSET {Stale} :
          k_p_d' = Compressed(k_p_d) \cup {Now("exchange")} \cup arrived
    BY <1>10 DEF Exchange
  <2>2. /\ phase = "exchange" /\ phase' = "current"
        /\ all_p' = all_p \cup {Now("exchange")}
    BY <1>10 DEF Exchange
  <2>3. OfKind({"stopped"}, Compressed(k_p_d)) = {}
    BY <2>2 DEF Compressed, ParticleArrays, OfKind
  <2>4. Without(Left, Compressed(k_p_d)) = Without(Left, k_p_d)
    BY <1>3 DEF Compressed
  <2>5. arrived = {} \/ arrived = {Stale}
    OBVIOUS
  <2>6. /\ Without(Left, k_p_d') = Without(Left, k_p_d) \cup {Now("exchange")}
        /\ OfKind({"stopped"}, k_p_d') = {}
    <3>1. CASE arrived = {}
      <4>1. k_p_d' = Compressed(k_p_d) \cup {Now("exchange")}
        BY <2>1, <3>1
      <4> QED
        BY <1>1, <2>3, <2>4, <4>1
    <3>2. CASE arrived = {Stale}
      <4>1. k_p_d' = (Compressed(k_p_d) \cup {Now("exchange")}) \cup {Stale}
        BY <2>1, <3>2
      <4>2. Without(Left, Compressed(k_p_d) \cup {Now("exchange")})
              = Without(Left, k_p_d) \cup {Now("exchange")}
        BY <1>1, <2>4
      <4>3. OfKind({"stopped"}, Compressed(k_p_d) \cup {Now("exchange")}) = {}
        BY <1>1, <2>3
      <4> QED
        BY <1>2, <4>1, <4>2, <4>3
    <3> QED
      BY <2>5, <3>1, <3>2
  <2>7. Without(Host, all_p') = Without(Host, all_p) \cup {Now("exchange")}
    BY <1>1, <2>2
  <2>8. Without(Left, k_p_d) = Without(Host, all_p)
    BY <2>2 DEF ParticleArrays
  <2>9. Without(Left, k_p_d') = Without(Host, all_p')
    BY <2>6, <2>7, <2>8
  <2> QED
    BY <2>6, <2>9 DEF ParticleArrays
<1>11. CASE CurrentInjection
  BY <1>5, <1>11 DEF CurrentInjection, partVars
<1>12. CASE Solve
  BY <1>5, <1>12 DEF Solve, partVars
<1>13. CASE FieldInjection
  BY <1>5, <1>13 DEF FieldInjection, partVars
<1>14. CASE FinishStep
  BY <1>5, <1>14 DEF FinishStep, partVars
<1>15. CASE DumpFields
  BY <1>5, <1>15 DEF DumpFields, partVars
<1>16. CASE DumpParticles
  BY <1>5, <1>16 DEF DumpParticles
<1>17. CASE Checkpt
  BY <1>5, <1>17 DEF Checkpt
<1>18. CASE EndDiagnostics
  BY <1>5, <1>18 DEF EndDiagnostics, partVars
<1>19. CASE CrashAndRestore
  BY <1>19 DEF CrashAndRestore, DiskOK, ParticleArrays
<1>20. CASE UNCHANGED vars
  BY <1>20 DEF vars, partVars, runVars, ParticleArrays, Now
<1> QED
  BY <1>6, <1>7, <1>8, <1>9, <1>10, <1>11, <1>12, <1>13, <1>14, <1>15, <1>16, <1>17, <1>18, <1>19,
     <1>20 DEF Next, Stop

\* The fields on the device, with the current on its way there, are what they
\* were, and the new event.
LEMMA FieldsStep == ASSUME IInv, [Next]_vars PROVE FieldArrays'
<1> USE DEF IInv
<1>1. ASSUME NEW kind, kind \notin {"stale", "rhob"}, NEW S
      PROVE  /\ Without({"stale"}, S \cup {Now(kind)}) = Without({"stale"}, S) \cup {Now(kind)}
             /\ Without({"rhob"}, S \cup {Now(kind)}) = Without({"rhob"}, S) \cup {Now(kind)}
  <2>1. Now(kind)[1] \notin {"stale"} /\ Now(kind)[1] \notin {"rhob"}
    BY <1>1, KindOf
  <2> QED
    BY <2>1 DEF Without
<1>2. ASSUME NEW S
      PROVE  /\ Without({"stale"}, S \cup {Stale}) = Without({"stale"}, S)
             /\ Without({"rhob"}, S \cup {Now("rhob")}) = Without({"rhob"}, S)
  <2>1. Stale[1] \in {"stale"} /\ Now("rhob")[1] \in {"rhob"}
    BY KindOf
  <2> QED
    BY <2>1, WithoutDrop
<1>3. ASSUME UNCHANGED fieldVars, phase \notin {"initialize", "inject", "exchange"},
             ~BetweenSteps' \/ (BetweenSteps /\ UNCHANGED interpVars)
      PROVE  FieldArrays'
  BY <1>3 DEF FieldArrays, fieldVars, interpVars
<1>4. CASE Initialize
  <2>1. /\ k_f_d' = {<<"start", 0>>} /\ all_f' = {<<"start", 0>>} /\ k_jf_accum_h' = {}
        /\ k_i_d' = k_f_d' /\ phase' = "diagnostics"
    BY <1>4 DEF Initialize, Loaded, Fresh
  <2>2. Without({"stale"}, {<<"start", 0>>}) = Without({"rhob"}, {<<"start", 0>>})
    BY DEF Without
  <2> QED
    BY <2>1, <2>2 DEF FieldArrays
<1>5. CASE AdvanceP
  BY <1>3, <1>5 DEF AdvanceP, BetweenSteps
<1>6. CASE ApplyEmitters
  <2>1. CASE UNCHANGED <<partVars, fieldVars>>
    BY <1>3, <1>6, <2>1 DEF ApplyEmitters, BetweenSteps
  <2>2. CASE /\ k_jf_accum_h' = k_jf_accum_h \cup {Now("emit")}
             /\ all_f' = all_f \cup {Now("rhob"), Now("emit")}
             /\ UNCHANGED k_f_d
    <3>1. all_f' = (all_f \cup {Now("rhob")}) \cup {Now("emit")}
      BY <2>2
    <3>2. k_f_d' \cup k_jf_accum_h' = (k_f_d \cup k_jf_accum_h) \cup {Now("emit")}
      BY <2>2
    <3>3. Without({"stale"}, k_f_d' \cup k_jf_accum_h')
            = Without({"stale"}, k_f_d \cup k_jf_accum_h) \cup {Now("emit")}
      BY <1>1, <3>2
    <3>4. Without({"rhob"}, all_f') = Without({"rhob"}, all_f) \cup {Now("emit")}
      <4>1. Without({"rhob"}, (all_f \cup {Now("rhob")}) \cup {Now("emit")})
              = Without({"rhob"}, all_f \cup {Now("rhob")}) \cup {Now("emit")}
        BY <1>1
      <4> QED
        BY <1>2, <3>1, <4>1
    <3> QED
      BY <1>6, <3>3, <3>4 DEF ApplyEmitters, FieldArrays, BetweenSteps
  <2> QED
    BY <1>6, <2>1, <2>2 DEF ApplyEmitters
<1>7. CASE ParticleInjection
  <2>1. CASE UNCHANGED fieldVars
    BY <1>7, <2>1 DEF ParticleInjection, FieldArrays, BetweenSteps, fieldVars
  <2>2. CASE HostInjection
    <3>1. PICK current \in {{}, {Now("inject")}} :
            /\ k_jf_accum_h' = k_jf_accum_h \cup current
            /\ all_f' = (all_f \cup {Now("rhob")}) \cup current
            /\ UNCHANGED k_f_d
      BY <2>2 DEF HostInjection
    <3>2. k_f_d' \cup k_jf_accum_h' = (k_f_d \cup k_jf_accum_h) \cup current
      BY <3>1
    <3>3. \A S : /\ Without({"stale"}, S \cup current) = Without({"stale"}, S) \cup current
                 /\ Without({"rhob"}, S \cup current) = Without({"rhob"}, S) \cup current
      <4>1. CASE current = {}
        BY <4>1
      <4>2. CASE current = {Now("inject")}
        BY <1>1, <4>2
      <4> QED
        BY <4>1, <4>2
    <3> QED
      <4>1. Without({"stale"}, k_f_d' \cup k_jf_accum_h')
              = Without({"stale"}, k_f_d \cup k_jf_accum_h) \cup current
        BY <3>2, <3>3
      <4>2. Without({"rhob"}, all_f') = Without({"rhob"}, all_f) \cup current
        BY <1>2, <3>1, <3>3
      <4> QED
        BY <1>7, <4>1, <4>2 DEF ParticleInjection, FieldArrays, BetweenSteps
  <2> QED
    BY <1>7, <2>1, <2>2 DEF ParticleInjection, DeviceInjection
<1>8. CASE Exchange
  <2>1. PICK absorbed \in SUBSET {Stale} :
          k_f_d' = k_f_d \cup k_jf_accum_h \cup {Now("move")} \cup absorbed
    BY <1>8 DEF Exchange
  <2>2. /\ phase = "exchange" /\ phase' = "current" /\ k_jf_accum_h' = {}
        /\ all_f' = all_f \cup {Now("move")}
    BY <1>8 DEF Exchange
  <2>3. Without({"stale"}, k_f_d')
          = Without({"stale"}, k_f_d \cup k_jf_accum_h) \cup {Now("move")}
    <3> DEFINE Summed == (k_f_d \cup k_jf_accum_h) \cup {Now("move")}
    <3>0. Without({"stale"}, Summed)
            = Without({"stale"}, k_f_d \cup k_jf_accum_h) \cup {Now("move")}
      BY <1>1
    <3>1. CASE absorbed = {}
      BY <2>1, <3>0, <3>1
    <3>2. CASE absorbed = {Stale}
      <4>1. k_f_d' = Summed \cup {Stale}
        BY <2>1, <3>2
      <4> HIDE DEF Summed
      <4> QED
        BY <1>2, <3>0, <4>1
    <3> QED
      BY <3>1, <3>2
  <2>4. k_f_d' \cup k_jf_accum_h' = k_f_d'
    BY <2>2
  <2> QED
    BY <1>1, <2>2, <2>3, <2>4 DEF FieldArrays, BetweenSteps
<1>9. ASSUME NEW kind, kind \notin {"stale", "rhob"}, UNCHANGED k_jf_accum_h,
             k_f_d' = k_f_d \cup {Now(kind)}, all_f' = all_f \cup {Now(kind)},
             phase \notin {"initialize", "inject", "exchange"},
             ~BetweenSteps' \/ k_i_d' = k_f_d'
      PROVE  FieldArrays'
  <2>1. k_f_d' \cup k_jf_accum_h' = (k_f_d \cup k_jf_accum_h) \cup {Now(kind)}
    BY <1>9
  <2>2. Without({"stale"}, k_f_d' \cup k_jf_accum_h')
          = Without({"stale"}, k_f_d \cup k_jf_accum_h) \cup {Now(kind)}
    BY <1>1, <1>9, <2>1
  <2>3. Without({"rhob"}, all_f') = Without({"rhob"}, all_f) \cup {Now(kind)}
    BY <1>1, <1>9
  <2> QED
    BY <1>9, <2>2, <2>3 DEF FieldArrays
<1>10. ASSUME NEW x \in {"current", "field"}, InjectField(x), ~BetweenSteps',
              phase \in {"current", "field"}
       PROVE  FieldArrays'
  <2>1. CASE UNCHANGED fieldVars
    BY <1>3, <1>10, <2>1
  <2>2. CASE k_f_d' = k_f_d \cup {Now(x)} /\ all_f' = all_f \cup {Now(x)} /\ UNCHANGED k_jf_accum_h
    BY <1>9, <1>10, <2>2
  <2> QED
    BY <1>10, <2>1, <2>2 DEF InjectField, InjectedInto
<1>11. CASE Solve
  BY <1>9, <1>11 DEF Solve, BetweenSteps
<1>12. CASE CurrentInjection \/ FieldInjection
  BY <1>10, <1>12 DEF CurrentInjection, FieldInjection, BetweenSteps
<1>13. CASE FinishStep
  BY <1>9, <1>13 DEF FinishStep, Loaded
<1>14. CASE DumpFields
  BY <1>14 DEF DumpFields, FieldArrays, BetweenSteps, interpVars
<1>15. CASE DumpParticles
  BY <1>3, <1>15 DEF DumpParticles, BetweenSteps
<1>16. CASE Checkpt
  BY <1>16 DEF Checkpt, FieldArrays, BetweenSteps
<1>17. CASE EndDiagnostics
  BY <1>3, <1>17 DEF EndDiagnostics, BetweenSteps
<1>18. CASE CrashAndRestore
  <2>1. k_f_d' \cup k_jf_accum_h' = disk.f
    BY <1>18 DEF CrashAndRestore
  <2> QED
    BY <1>18, <2>1 DEF CrashAndRestore, DiskOK, FieldArrays, BetweenSteps
<1>19. CASE UNCHANGED vars
  BY <1>19 DEF vars, fieldVars, interpVars, FieldArrays, BetweenSteps
<1> QED
  BY <1>4, <1>5, <1>6, <1>7, <1>8, <1>11, <1>12, <1>13, <1>14, <1>15, <1>16, <1>17, <1>18,
     <1>19 DEF Next, Stop

\* With a deck that neither emits nor ages nothing is left over, ever.
LEMMA PlainStep == ASSUME IInv, [Next]_vars PROVE PlainArrays'
<1> SUFFICES ASSUME Plain', phase' # "initialize"
             PROVE  /\ Moving' => /\ pm' \subseteq k_pc_h' /\ k_pm_d' \subseteq k_pc_h'
                                  /\ k_pc_h' \subseteq {"pushed"}
                    /\ k_p_d' = all_p'
                    /\ k_f_d' = Without({"rhob"}, all_f')
                    /\ k_jf_accum_h' = {}
  BY DEF PlainArrays
<1> USE DEF IInv
<1>2. Plain
  BY PlainKept
<1>3. ASSUME NEW kind, kind # "rhob", NEW S
      PROVE  Without({"rhob"}, S \cup {Now(kind)}) = Without({"rhob"}, S) \cup {Now(kind)}
  <2>1. Now(kind)[1] \notin {"rhob"}
    BY <1>3, KindOf
  <2> QED
    BY <2>1 DEF Without
<1>4. ASSUME NEW S PROVE Without({"rhob"}, S \cup {Now("rhob")}) = Without({"rhob"}, S)
  <2>1. Now("rhob")[1] \in {"rhob"}
    BY KindOf
  <2> QED
    BY <2>1, WithoutDrop
<1>5. CASE Initialize
  <2>1. Without({"rhob"}, {<<"start", 0>>}) = {<<"start", 0>>}
    BY DEF Without
  <2> QED
    BY <1>5, <2>1 DEF Initialize, Fresh, Moving
<1>6. CASE AdvanceP
  BY <1>2, <1>6 DEF AdvanceP, PlainArrays, fieldVars
<1>7. CASE ApplyEmitters
  <2>1. UNCHANGED <<partVars, fieldVars>> /\ phase = "emit"
    BY <1>2, <1>7 DEF ApplyEmitters, Plain
  <2> QED
    BY <1>2, <2>1 DEF PlainArrays, Moving, partVars, fieldVars
<1>8. CASE ParticleInjection
  <2>1. phase = "inject"
    BY <1>8 DEF ParticleInjection
  <2>2. CASE UNCHANGED <<partVars, fieldVars>>
    BY <1>2, <2>1, <2>2 DEF PlainArrays, Moving, partVars, fieldVars
  <2>3. CASE DeviceInjection
    BY <1>2, <2>1, <2>3 DEF DeviceInjection, PlainArrays, Moving, fieldVars
  <2>4. CASE HostInjection
    <3>1. /\ k_p_d' = k_p_d \cup {Now("inject")} /\ all_p' = all_p \cup {Now("inject")}
          /\ pm' = k_pm_d /\ k_pm_d' = k_pm_d /\ k_pc_h' = k_pc_h
          /\ k_f_d' = k_f_d /\ k_jf_accum_h' = k_jf_accum_h
          /\ all_f' = all_f \cup {Now("rhob")}
      BY <1>2, <2>4 DEF HostInjection, InjectedInto, Plain
    <3> QED
      BY <1>2, <1>4, <2>1, <3>1 DEF PlainArrays, Moving
  <2> QED
    BY <1>8, <2>2, <2>3, <2>4 DEF ParticleInjection
<1>9. CASE Exchange
  <2>1. PICK absorbed \in SUBSET {Stale}, arrived \in SUBSET {Stale} :
          /\ absorbed # {} => Uncopied # {}
          /\ arrived # {} => emitting \/ aging
          /\ k_p_d' = Compressed(k_p_d) \cup {Now("exchange")} \cup arrived
          /\ k_f_d' = k_f_d \cup k_jf_accum_h \cup {Now("move")} \cup absorbed
    BY <1>9 DEF Exchange
  <2>2. /\ all_p' = all_p \cup {Now("exchange")} /\ all_f' = all_f \cup {Now("move")}
        /\ phase = "exchange" /\ phase' = "current" /\ k_jf_accum_h' = {}
    BY <1>9 DEF Exchange
  <2>3. absorbed = {} /\ arrived = {}
    BY <1>2, <2>1, <2>2 DEF Uncopied, PlainArrays, Moving, Plain
  <2>4. Compressed(k_p_d) = k_p_d
    BY <1>2, <2>2 DEF Compressed, PlainArrays, Moving
  <2> QED
    BY <1>2, <1>3, <2>1, <2>2, <2>3, <2>4 DEF PlainArrays, Moving
<1>10. ASSUME NEW x \in {"current", "field"}, InjectField(x), phase # "initialize"
       PROVE  k_f_d' = Without({"rhob"}, all_f') /\ k_jf_accum_h' = {}
  <2>1. CASE UNCHANGED fieldVars
    BY <1>2, <1>10, <2>1 DEF PlainArrays, fieldVars
  <2>2. CASE k_f_d' = k_f_d \cup {Now(x)} /\ all_f' = all_f \cup {Now(x)} /\ UNCHANGED k_jf_accum_h
    BY <1>2, <1>3, <1>10, <2>2 DEF PlainArrays
  <2> QED
    BY <1>10, <2>1, <2>2 DEF InjectField, InjectedInto
<1>11. CASE CurrentInjection
  BY <1>2, <1>10, <1>11 DEF CurrentInjection, PlainArrays, Moving, partVars
<1>12. CASE Solve
  BY <1>2, <1>3, <1>12 DEF Solve, PlainArrays, Moving, partVars
<1>13. CASE FieldInjection
  BY <1>2, <1>10, <1>13 DEF FieldInjection, PlainArrays, Moving, partVars
<1>14. CASE FinishStep
  BY <1>2, <1>3, <1>14 DEF FinishStep, PlainArrays, Moving, partVars
<1>15. CASE DumpFields
  BY <1>2, <1>15 DEF DumpFields, PlainArrays, Moving, partVars
<1>16. CASE DumpParticles
  BY <1>2, <1>16 DEF DumpParticles, PlainArrays, Moving, fieldVars
<1>17. CASE Checkpt
  BY <1>2, <1>17 DEF Checkpt, PlainArrays, Moving
<1>18. CASE EndDiagnostics
  BY <1>2, <1>18 DEF EndDiagnostics, PlainArrays, Moving, partVars, fieldVars
<1>19. CASE CrashAndRestore
  BY <1>2, <1>19 DEF CrashAndRestore, DiskOK, Moving
<1>20. CASE UNCHANGED vars
  BY <1>2, <1>20 DEF vars, PlainArrays, Moving, partVars, fieldVars
<1> QED
  BY <1>5, <1>6, <1>7, <1>8, <1>9, <1>11, <1>12, <1>13, <1>14, <1>15, <1>16, <1>17, <1>18, <1>19,
     <1>20 DEF Next, Stop

-----------------------------------------------------------------------------
\* IInv is inductive.
THEOREM MirrorInvariant == Spec => []IInv
<1>1. Init => IInv
  BY InitInvariant
<1>2. IInv /\ [Next]_vars => IInv'
  BY TypeStep, ParticlesStep, FieldsStep, PlainStep, FreshStep, DiskStep, StampsStep, StampMeansStep, DumpsStep DEF IInv
<1> QED
  BY <1>1, <1>2, PTL DEF Spec

\* Whenever a step begins or is diagnosed, however dumps, injections, checkpoints
\* and restores were interleaved: with a deck that neither emits particles nor
\* ages those it injects the device has exactly the events it should have, and
\* with any deck every event but those the host alone saw or compress removed, and
\* nothing that did not happen but left-over memory (advance.cc, misc.cc, dump.cc,
\* boundary_p.cc, child_langmuir.cc, vpic.cc).
THEOREM DeviceAlwaysCurrent == Spec => []DeviceCurrent
<1>1. IInv => DeviceCurrent
  <2> SUFFICES ASSUME IInv, BetweenSteps PROVE DeviceCurrent
    BY DEF DeviceCurrent
  <2>1. OfKind({"stopped"}, k_p_d) = {}
    BY DEF IInv, ParticleArrays, BetweenSteps
  <2>2. Without({"stale"}, k_p_d) = Without({"stale", "stopped"}, k_p_d)
    BY <2>1 DEF OfKind, Without
  <2>3. k_jf_accum_h = {}
    BY DEF IInv, FieldArrays, BetweenSteps
  <2>4. k_f_d \cup k_jf_accum_h = k_f_d
    BY <2>3
  <2> QED
    BY <2>2, <2>4 DEF IInv, ParticleArrays, FieldArrays, PlainArrays, Plain, DeviceCurrent,
                      BetweenSteps
<1> QED
  BY <1>1, MirrorInvariant, PTL

\* Every dump holds what the device holds, although copy_to_host is skipped
\* when last_copied is this step (dump.cc, species_advance.cc).
THEOREM DumpsAlwaysCurrent == Spec => []DumpsCurrent
<1>1. IInv => DumpsCurrent
  BY DEF IInv
<1> QED
  BY <1>1, MirrorInvariant, PTL

\* In user_diagnostics a stamp of this step means that the host copy is the
\* device's (species_advance.h, field_advance.h on last_copied).
THEOREM StampAlwaysMeansCurrent == Spec => []StampMeansCurrent
<1>1. IInv => StampMeansCurrent
  BY DEF IInv
<1> QED
  BY <1>1, MirrorInvariant, PTL
=============================================================================
