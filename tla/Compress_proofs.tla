-------------------------- MODULE Compress_proofs --------------------------
(***************************************************************************)
(* The compression is right for every size of the particle and mover       *)
(* arrays, every set of leaving particles and every order of the           *)
(* iterations (Compress).                                                  *)
(***************************************************************************)
EXTENDS Compress, FiniteSetTheorems, TLAPS

(***************************************************************************)
(* The mover list while the iterations of advance_p fill it.               *)
(***************************************************************************)
SizeOK ==
  /\ np \in Nat /\ np <= MaxNp
  /\ nm \in Nat /\ nm <= MaxNm
  /\ leaving \subseteq 0 .. np - 1

(* What has been stored: particles that leave, none of them twice.         *)
StoredOK ==
  /\ DOMAIN pm \subseteq 0 .. nm - 1
  /\ Distinct(pm)
  /\ \A n \in DOMAIN pm : pm[n] \in leaving

(* An iteration that runs has not stored; its place is its own and empty.  *)
RunningOK ==
  /\ DOMAIN moving \subseteq leaving \ Gap
  /\ \A i \in DOMAIN moving :
       \/ moving[i] \in {Crosses, HasRoom}
       \/ \E k \in 0 .. nm - 1 : moving[i] = Place(k) /\ k \notin DOMAIN pm
  /\ \A i, j \in DOMAIN moving : \A k \in 0 .. nm - 1 :
       moving[i] = Place(k) /\ moving[j] = Place(k) => i = j

(* No place is lost, and only a full list loses a particle.                *)
NothingLost ==
  /\ \A k \in 0 .. nm - 1 : k \in DOMAIN pm \/ \E i \in DOMAIN moving : moving[i] = Place(k)
  /\ \A i \in leaving : i \in DOMAIN moving \/ i \in Gap \/ nm = MaxNm

Compressing == {"reset", "mark", "fill", "clean_up", "append"}
PhaseOK ==
  /\ phase \in {"advance", "push", "abort"} \cup Compressing
  /\ phase \in {"advance"} \cup Compressing => DOMAIN moving = {}
  /\ phase = "advance" => nm = 0 /\ leaving = {}
  /\ phase \in Compressing => num_to_copy \in Nat /\ np - nm + num_to_copy <= MaxNp

ListInvariant == SizeOK /\ StoredOK /\ RunningOK /\ NothingLost /\ PhaseOK

(* The states of an iteration are told apart.                              *)
LEMMA StatesDiffer ==
  /\ Crosses # HasRoom
  /\ \A k : Place(k) # Crosses /\ Place(k) # HasRoom
  /\ \A j, k : Place(j) = Place(k) => j = k
  BY DEF Crosses, HasRoom, Place

LEMMA ListInit == Init => ListInvariant
  <1> SUFFICES ASSUME Init PROVE ListInvariant OBVIOUS
  <1>1. DOMAIN pm = {} /\ DOMAIN moving = {} /\ leaving = {} /\ nm = 0 /\ phase = "advance"
    BY DEF Init
  <1>2. SizeOK BY <1>1, SizeAssumption DEF Init, SizeOK
  <1>3. StoredOK BY <1>1 DEF StoredOK, Distinct
  <1>4. RunningOK /\ NothingLost BY <1>1 DEF RunningOK, NothingLost
  <1>5. PhaseOK BY <1>1 DEF PhaseOK, Compressing
  <1> QED BY <1>2, <1>3, <1>4, <1>5 DEF ListInvariant

LEMMA ListAdvanceP == ListInvariant /\ AdvanceP => ListInvariant'
  <1> SUFFICES ASSUME ListInvariant, AdvanceP PROVE ListInvariant' OBVIOUS
  <1>1. /\ phase = "advance" /\ nm = 0 /\ DOMAIN pm = {}
        /\ nm' = 0 /\ pm' = pm /\ np' = np /\ phase' = "push"
        /\ leaving' \subseteq 0 .. np - 1
        /\ moving' = [i \in leaving' |-> Crosses]
    BY DEF ListInvariant, PhaseOK, StoredOK, AdvanceP
  <1>2. SizeOK' BY <1>1, SizeAssumption DEF ListInvariant, SizeOK
  <1>3. StoredOK' BY <1>1 DEF StoredOK, Distinct
  <1>4. RunningOK' /\ NothingLost' BY <1>1 DEF RunningOK, NothingLost, Gap
  <1>5. PhaseOK' BY <1>1 DEF PhaseOK, Compressing
  <1> QED BY <1>2, <1>3, <1>4, <1>5 DEF ListInvariant

LEMMA ListLookForRoom ==
  ASSUME ListInvariant, NEW i \in DOMAIN moving, LookForRoom(i)
  PROVE  ListInvariant'
  <1>1. /\ phase = "push" /\ moving[i] = Crosses
        /\ UNCHANGED <<phase, np, nm, pm, leaving>>
        /\ Gap' = Gap /\ SizeOK' /\ StoredOK' /\ PhaseOK'
    BY DEF ListInvariant, LookForRoom, SizeOK, StoredOK, PhaseOK, Gap, Distinct, Compressing
  <1>2. CASE nm < MaxNm /\ moving' = [moving EXCEPT ![i] = HasRoom]
    <2>1. RunningOK' BY <1>1, <1>2, StatesDiffer DEF ListInvariant, RunningOK
    <2>2. NothingLost'
      <3>1. \A k : moving[i] # Place(k) BY <1>1, StatesDiffer
      <3> QED BY <1>1, <1>2, <3>1 DEF ListInvariant, NothingLost
    <2> QED BY <1>1, <2>1, <2>2 DEF ListInvariant
  <1>3. CASE nm = MaxNm /\ moving' = Restrict(moving, DOMAIN moving \ {i})
    <2>1. /\ DOMAIN moving' = DOMAIN moving \ {i}
          /\ \A j \in DOMAIN moving' : moving'[j] = moving[j]
      BY <1>3 DEF Restrict
    <2>2. RunningOK' BY <1>1, <2>1 DEF ListInvariant, RunningOK
    <2>3. NothingLost'
      <3>1. \A k : moving[i] # Place(k) BY <1>1, StatesDiffer
      <3> QED BY <1>1, <1>3, <2>1, <3>1 DEF ListInvariant, NothingLost
    <2> QED BY <1>1, <2>2, <2>3 DEF ListInvariant
  <1> QED BY <1>2, <1>3, SizeAssumption DEF LookForRoom, ListInvariant, SizeOK

LEMMA ListTakePlace ==
  ASSUME ListInvariant, NEW i \in DOMAIN moving, TakePlace(i)
  PROVE  ListInvariant'
  <1>1. /\ phase = "push" /\ moving[i] = HasRoom
        /\ UNCHANGED <<np, pm, leaving>> /\ Gap' = Gap
    BY DEF TakePlace, Gap
  <1>2. CASE phase' = "abort" /\ UNCHANGED <<nm, moving>>
    <2>1. SizeOK' /\ StoredOK' /\ RunningOK' /\ NothingLost' /\ PhaseOK'
      BY <1>1, <1>2 DEF ListInvariant, SizeOK, StoredOK, RunningOK, NothingLost, PhaseOK,
                        Distinct, Compressing
    <2> QED BY <2>1 DEF ListInvariant
  <1>3. CASE /\ nm < MaxNm /\ nm' = nm + 1 /\ phase' = phase
             /\ moving' = [moving EXCEPT ![i] = Place(nm)]
    <2>1. nm \in Nat /\ nm \notin DOMAIN pm /\ \A k \in 0 .. nm - 1 : k # nm
      BY DEF ListInvariant, SizeOK, StoredOK
    <2>2. 0 .. nm' - 1 = (0 .. nm - 1) \cup {nm} BY <1>3, <2>1
    <2>3. SizeOK' BY <1>1, <1>3, SizeAssumption DEF ListInvariant, SizeOK
    <2>4. StoredOK' BY <1>1, <2>2 DEF ListInvariant, StoredOK, Distinct
    <2>5. PhaseOK' BY <1>1, <1>3 DEF PhaseOK, Compressing
    <2>6. /\ DOMAIN moving' = DOMAIN moving /\ moving'[i] = Place(nm)
          /\ \A j \in DOMAIN moving : j # i => moving'[j] = moving[j]
      BY <1>3
    <2>7. \A j \in DOMAIN moving : moving[j] # Place(nm)
      BY <2>1, StatesDiffer DEF ListInvariant, RunningOK
    <2>8. RunningOK'
      <3>1. DOMAIN moving' \subseteq leaving' \ Gap'
        BY <1>1, <2>6 DEF ListInvariant, RunningOK
      <3>2. ASSUME NEW j \in DOMAIN moving'
            PROVE  \/ moving'[j] \in {Crosses, HasRoom}
                   \/ \E k \in 0 .. nm' - 1 : moving'[j] = Place(k) /\ k \notin DOMAIN pm'
        BY <1>1, <2>1, <2>2, <2>6 DEF ListInvariant, RunningOK
      <3>3. ASSUME NEW j \in DOMAIN moving', NEW l \in DOMAIN moving', NEW k \in 0 .. nm' - 1,
                   moving'[j] = Place(k), moving'[l] = Place(k)
            PROVE  j = l
        BY <2>1, <2>2, <2>6, <2>7, <3>3, StatesDiffer DEF ListInvariant, RunningOK
      <3> QED BY <3>1, <3>2, <3>3 DEF RunningOK
    <2>9. NothingLost'
      <3>1. \A k : moving[i] # Place(k) BY <1>1, StatesDiffer
      <3>2. ASSUME NEW k \in 0 .. nm' - 1
            PROVE  k \in DOMAIN pm' \/ \E j \in DOMAIN moving' : moving'[j] = Place(k)
        BY <1>1, <2>2, <2>6, <3>1 DEF ListInvariant, NothingLost
      <3>3. nm # MaxNm BY <1>3, <2>1, SizeAssumption
      <3> QED BY <1>1, <2>6, <3>2, <3>3 DEF ListInvariant, NothingLost
    <2> QED BY <2>3, <2>4, <2>5, <2>8, <2>9 DEF ListInvariant
  <1> QED BY <1>2, <1>3, SizeAssumption DEF TakePlace, Aborts, ListInvariant, SizeOK

LEMMA ListStoreMover ==
  ASSUME ListInvariant, NEW i \in DOMAIN moving, StoreMover(i)
  PROVE  ListInvariant'
  <1>1. /\ phase = "push" /\ UNCHANGED <<phase, np, nm, leaving>>
        /\ DOMAIN moving' = DOMAIN moving \ {i}
        /\ \A j \in DOMAIN moving' : moving'[j] = moving[j]
    BY DEF StoreMover, Restrict
  <1>2. PICK k \in 0 .. nm - 1 :
          /\ moving[i] = Place(k)
          /\ pm' = [n \in DOMAIN pm \cup {k} |-> IF n = k THEN i ELSE pm[n]]
    BY DEF StoreMover
  <1>3. /\ i \in leaving /\ \A n \in DOMAIN pm : pm[n] # i
        /\ k \notin DOMAIN pm
        /\ \A j \in DOMAIN moving : moving[j] = Place(k) => j = i
    BY <1>2, StatesDiffer DEF ListInvariant, RunningOK, Gap
  <1>4. /\ DOMAIN pm' = DOMAIN pm \cup {k} /\ pm'[k] = i
        /\ \A n \in DOMAIN pm : pm'[n] = pm[n]
    BY <1>2, <1>3
  <1>5. Gap' = Gap \cup {i} BY <1>4 DEF Gap
  <1>6. SizeOK' /\ PhaseOK' BY <1>1 DEF ListInvariant, SizeOK, PhaseOK, Compressing
  <1>7. StoredOK' BY <1>1, <1>3, <1>4 DEF ListInvariant, StoredOK, Distinct
  <1>8. RunningOK'
    <2>1. DOMAIN moving' \subseteq leaving' \ Gap'
      BY <1>1, <1>5 DEF ListInvariant, RunningOK
    <2>2. ASSUME NEW j \in DOMAIN moving'
          PROVE  \/ moving'[j] \in {Crosses, HasRoom}
                 \/ \E l \in 0 .. nm' - 1 : moving'[j] = Place(l) /\ l \notin DOMAIN pm'
      BY <1>1, <1>3, <1>4 DEF ListInvariant, RunningOK
    <2> QED BY <1>1, <2>1, <2>2 DEF ListInvariant, RunningOK
  <1>9. NothingLost'
    <2>1. ASSUME NEW l \in 0 .. nm - 1
          PROVE  l \in DOMAIN pm' \/ \E j \in DOMAIN moving' : moving'[j] = Place(l)
      BY <1>1, <1>2, <1>4, StatesDiffer DEF ListInvariant, NothingLost
    <2> QED BY <1>1, <1>5, <2>1 DEF ListInvariant, NothingLost
  <1> QED BY <1>6, <1>7, <1>8, <1>9 DEF ListInvariant

(* The steps after the push leave the list alone.                          *)
LEMMA ListKept ==
  ASSUME ListInvariant, UNCHANGED <<np, nm, pm, pushVars>>, DOMAIN moving = {},
         phase' \in Compressing, num_to_copy' \in Nat, np - nm + num_to_copy' <= MaxNp
  PROVE  ListInvariant'
  <1>1. UNCHANGED <<np, nm, pm, leaving, moving>> BY DEF pushVars
  <1>2. SizeOK' /\ StoredOK' /\ RunningOK' /\ NothingLost'
    BY <1>1 DEF ListInvariant, SizeOK, StoredOK, RunningOK, NothingLost, Gap, Distinct
  <1>3. PhaseOK' BY <1>1 DEF PhaseOK, Compressing
  <1> QED BY <1>2, <1>3 DEF ListInvariant

(* The list names every place once.                                        *)
LEMMA ListFull ==
  ASSUME ListInvariant, DOMAIN moving = {}
  PROVE  /\ DOMAIN pm = 0 .. nm - 1
         /\ nm <= np
         /\ Distinct(pm)
         /\ \A n \in 0 .. nm - 1 : pm[n] \in 0 .. np - 1
         /\ Gap = leaving \/ nm = MaxNm
  <1>1. /\ DOMAIN pm = 0 .. nm - 1 /\ Distinct(pm)
        /\ \A n \in 0 .. nm - 1 : pm[n] \in 0 .. np - 1
    BY DEF ListInvariant, StoredOK, NothingLost, SizeOK
  <1>2. Gap = leaving \/ nm = MaxNm
    BY DEF ListInvariant, StoredOK, NothingLost, Gap
  <1>3. nm <= np
    <2> DEFINE f == [n \in 0 .. nm - 1 |-> pm[n]]
    <2>1. nm \in Nat /\ np \in Nat BY DEF ListInvariant, SizeOK
    <2>2. f \in Injection(0 .. nm - 1, 0 .. np - 1)
      BY <1>1 DEF Injection, IsInjective, Distinct
    <2>3. /\ IsFiniteSet(0 .. np - 1) /\ Cardinality(0 .. np - 1) = np
          /\ Cardinality(0 .. nm - 1) = nm
      <3>1. 0 \in Int /\ np - 1 \in Int /\ nm - 1 \in Int BY <2>1
      <3>2. IsFiniteSet(0 .. np - 1) /\ Cardinality(0 .. np - 1) = np
        BY <2>1, <3>1, FS_Interval
      <3>3. Cardinality(0 .. nm - 1) = nm BY <2>1, <3>1, FS_Interval
      <3> QED BY <3>2, <3>3
    <2> QED BY <2>2, <2>3, FS_Injection
  <1> QED BY <1>1, <1>2, <1>3

LEMMA ListAppend == ListInvariant /\ Append => ListInvariant'
  <1> SUFFICES ASSUME ListInvariant, Append PROVE ListInvariant' OBVIOUS
  <1>1. /\ phase = "append" /\ phase' = "advance" /\ nm' = 0 /\ leaving' = {}
        /\ np' = np - nm + num_to_copy /\ moving' = moving
        /\ DOMAIN pm' = {}
    BY DEF Append, Remaining
  <1>2. DOMAIN moving = {} /\ num_to_copy \in Nat /\ np' <= MaxNp
    BY <1>1 DEF ListInvariant, PhaseOK, Compressing
  <1>3. np' \in Nat BY <1>1, <1>2, ListFull DEF ListInvariant, SizeOK
  <1>4. SizeOK' BY <1>1, <1>2, <1>3, SizeAssumption DEF SizeOK
  <1>5. StoredOK' BY <1>1 DEF StoredOK, Distinct
  <1>6. RunningOK' /\ NothingLost' BY <1>1, <1>2 DEF RunningOK, NothingLost
  <1>7. PhaseOK' BY <1>1, <1>2 DEF PhaseOK, Compressing
  <1> QED BY <1>4, <1>5, <1>6, <1>7 DEF ListInvariant

LEMMA ListNext == ListInvariant /\ [Next]_vars => ListInvariant'
  <1> SUFFICES ASSUME ListInvariant, [Next]_vars PROVE ListInvariant' OBVIOUS
  <1>1. CASE AdvanceP BY <1>1, ListAdvanceP
  <1>2. ASSUME NEW i \in DOMAIN moving, LookForRoom(i) \/ TakePlace(i) \/ StoreMover(i)
        PROVE  ListInvariant'
    BY <1>2, ListLookForRoom, ListTakePlace, ListStoreMover
  <1>3. CASE PushEnds
    <2>1. np - nm + num_to_copy' <= MaxNp /\ num_to_copy' \in Nat
      BY <1>3, SizeAssumption DEF PushEnds
    <2> QED BY <1>3, <2>1, ListKept DEF PushEnds, pushVars, Compressing
  <1>4. ASSUME phase \in Compressing, phase' \in Compressing, UNCHANGED listVars
        PROVE  ListInvariant'
    <2>1. UNCHANGED <<np, nm, pm, pushVars, num_to_copy>> BY <1>4 DEF listVars
    <2>2. DOMAIN moving = {} /\ num_to_copy \in Nat /\ np - nm + num_to_copy <= MaxNp
      BY <1>4 DEF ListInvariant, PhaseOK
    <2> QED BY <1>4, <2>1, <2>2, ListKept
  <1>5. CASE Reset BY <1>4, <1>5 DEF Reset, Launch, Compressing
  <1>6. ASSUME NEW n \in Iteration, Mark(n) \/ Fill(n) \/ FillStores(n) \/ CleanUp(n)
        PROVE  ListInvariant'
    BY <1>4, <1>6 DEF Mark, Fill, FillStores, CleanUp, Compressing
  <1>7. CASE MarkEnds \/ FillEnds \/ CleanUpEnds
    BY <1>4, <1>7 DEF MarkEnds, FillEnds, CleanUpEnds, Launch, Compressing
  <1>8. CASE Append BY <1>8, ListAppend
  <1>9. CASE UNCHANGED vars
    <2>1. UNCHANGED <<phase, np, nm, pm, leaving, moving, num_to_copy>>
      BY <1>9 DEF vars, listVars, pushVars
    <2>2. SizeOK' /\ StoredOK' /\ RunningOK' /\ NothingLost' /\ PhaseOK'
      BY <2>1 DEF ListInvariant, SizeOK, StoredOK, RunningOK, NothingLost, PhaseOK,
                  Gap, Distinct, Compressing
    <2> QED BY <2>2 DEF ListInvariant
  <1> QED BY <1>1, <1>2, <1>3, <1>5, <1>6, <1>7, <1>8, <1>9 DEF Next, Stop

THEOREM ListAlways == Spec => []ListInvariant
  BY ListInit, ListNext, PTL DEF Spec

(* MoversListed: concurrent iterations that check for room and then take a *)
(* place leave a list without holes and repetitions, that only a full list *)
(* keeps a particle out of.                                                *)
THEOREM MoversAlwaysListed == Spec => []MoversListed
  <1>1. ListInvariant => MoversListed
    BY ListFull DEF MoversListed, ListInvariant, PhaseOK, SizeOK, Compressing
  <1> QED BY <1>1, ListAlways, PTL

(***************************************************************************)
(* The compaction.                                                         *)
(***************************************************************************)
ArrayOK ==
  /\ DOMAIN particles = Slot
  /\ unsafe_index \in [0 .. 2*MaxNm - 1 -> BOOLEAN]
  /\ DOMAIN clean_up_from = Iteration /\ DOMAIN clean_up_to = Iteration
  /\ DOMAIN at = Iteration /\ DOMAIN reg = Iteration /\ DOMAIN held = Iteration

(* No slot is written before the second kernel, and then only gaps are.    *)
StayOK ==
  /\ phase \in {"push", "reset", "mark"} => \A i \in 0 .. np - 1 : particles[i] = Old(i)
  /\ phase \in {"fill", "clean_up", "append"} =>
       \A i \in 0 .. np - 1 : i \notin Gap => particles[i] = Old(i)

(* The first kernel marks gaps and nothing else, and in the end all of them *)
(* among the slots that the second one looks at.                           *)
MarkOK ==
  /\ phase = "mark" =>
       /\ from_count = 0 /\ to_count = 0
       /\ \A n \in Iteration : at[n] \in {"ready", "done"} /\ (at[n] = "ready" => n < nm)
       /\ \A n \in 0 .. nm - 1 : at[n] = "done" /\ pm[n] >= CutOff => unsafe_index[Reverse(pm[n])]
       /\ \A k \in 0 .. 2*nm - 1 : unsafe_index[k] => PullFrom(k) \in Gap
  /\ phase \in {"fill", "clean_up", "append"} =>
       \A k \in 0 .. nm - 1 : unsafe_index[k] <=> PullFrom(k) \in Gap

(* The iterations of the second kernel, by what they do.                   *)
FromSet == {n \in 0 .. nm - 1 : NeedsTarget(n)}
ToSet == {n \in 0 .. nm - 1 : NeedsSource(n)}
DirectSet == {n \in 0 .. nm - 1 : MovesDirectly(n)}
Started(S) == {n \in S : at[n] # "ready"}

(* r numbers the members of S from 0 to count-1.                           *)
Numbered(S, count, r) ==
  /\ \A n \in S : r[n] \in 0 .. count - 1
  /\ \A m, n \in S : r[m] = r[n] => m = n
  /\ \A k \in 0 .. count - 1 : \E n \in S : r[n] = k

FillOK ==
  phase = "fill" =>
    /\ from_count \in Nat /\ Numbered(Started(FromSet), from_count, reg)
    /\ to_count \in Nat /\ Numbered(Started(ToSet), to_count, reg)
    /\ \A n \in Iteration :
         /\ at[n] \in At
         /\ n >= nm => at[n] = "done"
         /\ at[n] = "from" => n \in FromSet
         /\ at[n] = "to" => n \in ToSet
         /\ at[n] = "loaded" => n \in DirectSet /\ held[n] = Old(PullFrom(n))
    /\ \A n \in FromSet : at[n] = "done" => clean_up_from[reg[n]] = PullFrom(n)
    /\ \A n \in ToSet : at[n] = "done" => clean_up_to[reg[n]] = WriteTo(n)
    /\ \A n \in DirectSet : at[n] = "done" => particles[WriteTo(n)] = Old(PullFrom(n))

(* The first count entries of list are the members of S, once each.        *)
Lists(S, count, list) ==
  /\ \A k \in 0 .. count - 1 : list[k] \in S
  /\ \A j, k \in 0 .. count - 1 : list[j] = list[k] => j = k
  /\ \A s \in S : \E k \in 0 .. count - 1 : list[k] = s

Sources == {PullFrom(n) : n \in FromSet}
Targets == {WriteTo(n) : n \in ToSet}

CleanUpOK ==
  /\ phase \in {"clean_up", "append"} =>
       /\ from_count \in 0 .. nm /\ to_count = from_count
       /\ Lists(Sources, from_count, clean_up_from)
       /\ Lists(Targets, from_count, clean_up_to)
       /\ \A n \in DirectSet : particles[WriteTo(n)] = Old(PullFrom(n))
  /\ phase = "clean_up" =>
       \A n \in Iteration :
         /\ at[n] \in {"ready", "loaded", "done"}
         /\ n >= from_count => at[n] = "done"
         /\ at[n] = "loaded" => held[n] = Old(clean_up_from[n])
         /\ n < from_count /\ at[n] = "done" => particles[clean_up_to[n]] = Old(clean_up_from[n])
  /\ phase = "append" =>
       \A n \in 0 .. from_count - 1 : particles[clean_up_to[n]] = Old(clean_up_from[n])

KernelInvariant == ListInvariant /\ ArrayOK /\ StayOK /\ MarkOK /\ FillOK /\ CleanUpOK

(* An atomic increment gives the next number to one more iteration.        *)
LEMMA NumberNext ==
  ASSUME NEW S, NEW count \in Nat, NEW r, Numbered(S, count, r),
         NEW n, n \notin S, NEW s, s[n] = count, \A m \in S : s[m] = r[m]
  PROVE  Numbered(S \cup {n}, count + 1, s)
  <1>1. 0 .. (count + 1) - 1 = (0 .. count - 1) \cup {count} OBVIOUS
  <1>2. count \notin 0 .. count - 1 OBVIOUS
  <1> QED BY <1>1, <1>2 DEF Numbered

(* As many numbers are given as there are members.                         *)
LEMMA NumberedCount ==
  ASSUME NEW S, NEW count \in Nat, NEW r, Numbered(S, count, r),
         NEW k \in Nat, S \subseteq 0 .. k - 1
  PROVE  count = Cardinality(S) /\ count <= k
  <1> DEFINE f == [n \in S |-> r[n]]
  <1>1. 0 \in Int /\ k - 1 \in Int /\ count - 1 \in Int OBVIOUS
  <1>2. IsFiniteSet(0 .. k - 1) /\ Cardinality(0 .. k - 1) = k BY <1>1, FS_Interval
  <1>3. IsFiniteSet(S) /\ Cardinality(S) <= k BY <1>2, FS_Subset
  <1>4. f \in Bijection(S, 0 .. count - 1)
    BY DEF Numbered, Bijection, Injection, Surjection, IsInjective
  <1>5. Cardinality(0 .. count - 1) = Cardinality(S)
    BY <1>3, <1>4, FS_Bijection DEF ExistsBijection
  <1>6. Cardinality(0 .. count - 1) = count BY <1>1, FS_Interval
  <1> QED BY <1>3, <1>5, <1>6

(* The n-th gap from the end and the n-th particle from the end.           *)
LEMMA Geometry ==
  ASSUME ListInvariant, phase \in Compressing
  PROVE  /\ np \in Nat /\ np <= MaxNp /\ nm \in Nat /\ nm <= MaxNm /\ nm <= np
         /\ DOMAIN pm = 0 .. nm - 1
         /\ Gap = {WriteTo(n) : n \in 0 .. nm - 1}
         /\ \A n \in 0 .. nm - 1 : WriteTo(n) \in 0 .. np - 1 /\ PullFrom(n) \in np - nm .. np - 1
         /\ \A m, n \in 0 .. nm - 1 : WriteTo(m) = WriteTo(n) => m = n
         /\ 0 .. nm - 1 \subseteq Iteration /\ 0 .. np - 1 \subseteq Slot
  <1>1. DOMAIN moving = {} BY DEF ListInvariant, PhaseOK
  <1>2. /\ DOMAIN pm = 0 .. nm - 1 /\ nm <= np /\ Distinct(pm)
        /\ \A n \in 0 .. nm - 1 : pm[n] \in 0 .. np - 1
    BY <1>1, ListFull
  <1>3. np \in Nat /\ np <= MaxNp /\ nm \in Nat /\ nm <= MaxNm BY DEF ListInvariant, SizeOK
  <1>4. \A n \in 0 .. nm - 1 : nm - n - 1 \in 0 .. nm - 1 /\ nm - (nm - n - 1) - 1 = n BY <1>3
  <1>5. Gap = {WriteTo(n) : n \in 0 .. nm - 1}
    <2>1. ASSUME NEW g \in Gap PROVE \E n \in 0 .. nm - 1 : g = WriteTo(n)
      <3>1. PICK n \in 0 .. nm - 1 : g = pm[n] BY <1>2 DEF Gap
      <3>2. nm - n - 1 \in 0 .. nm - 1 /\ g = WriteTo(nm - n - 1) BY <1>4, <3>1 DEF WriteTo
      <3> QED BY <3>2
    <2>2. ASSUME NEW n \in 0 .. nm - 1 PROVE WriteTo(n) \in Gap
      BY <1>2, <1>4 DEF Gap, WriteTo
    <2> QED BY <2>1, <2>2
  <1>6. ASSUME NEW n \in 0 .. nm - 1
        PROVE  WriteTo(n) \in 0 .. np - 1 /\ PullFrom(n) \in np - nm .. np - 1
    BY <1>2, <1>3, <1>4 DEF WriteTo, PullFrom
  <1>7. ASSUME NEW m \in 0 .. nm - 1, NEW n \in 0 .. nm - 1, WriteTo(m) = WriteTo(n)
        PROVE  m = n
    <2>1. nm - m - 1 = nm - n - 1 BY <1>2, <1>4, <1>7 DEF WriteTo, Distinct
    <2> QED BY <1>3, <2>1
  <1>8. 0 .. nm - 1 \subseteq Iteration /\ 0 .. np - 1 \subseteq Slot
    BY <1>3, SizeAssumption DEF Iteration, Slot
  <1> QED BY <1>2, <1>3, <1>5, <1>6, <1>7, <1>8

(* What the three kinds of iterations have in hand.                        *)
LEMMA Kinds ==
  ASSUME ListInvariant, phase \in Compressing, ArrayOK,
         \A k \in 0 .. nm - 1 : unsafe_index[k] <=> PullFrom(k) \in Gap
  PROVE  \A n \in 0 .. nm - 1 :
           /\ n \in FromSet <=> WriteTo(n) >= np - nm /\ PullFrom(n) \notin Gap
           /\ n \in ToSet <=> WriteTo(n) < np - nm /\ PullFrom(n) \in Gap
           /\ n \in DirectSet <=> WriteTo(n) < np - nm /\ PullFrom(n) \notin Gap
  <1> SUFFICES ASSUME NEW n \in 0 .. nm - 1
               PROVE  /\ n \in FromSet <=> WriteTo(n) >= np - nm /\ PullFrom(n) \notin Gap
                      /\ n \in ToSet <=> WriteTo(n) < np - nm /\ PullFrom(n) \in Gap
                      /\ n \in DirectSet <=> WriteTo(n) < np - nm /\ PullFrom(n) \notin Gap
    OBVIOUS
  <1>1. WriteTo(n) \in Gap /\ WriteTo(n) \in Int /\ np \in Int /\ nm \in Int
    BY Geometry
  <1>2. GapIsGivenUp(n) <=> ~(WriteTo(n) < np - nm) BY <1>1 DEF GapIsGivenUp, DangerZone
  <1>3. SourceIsGap(n) <=> PullFrom(n) \in Gap BY DEF SourceIsGap
  <1>4. PullFrom(n) \notin Gap => PullFrom(n) # WriteTo(n) BY <1>1
  <1>5. WriteTo(n) >= np - nm <=> ~(WriteTo(n) < np - nm) BY <1>1
  <1> QED BY <1>2, <1>3, <1>4, <1>5
          DEF FromSet, ToSet, DirectSet, NeedsTarget, NeedsSource, MovesDirectly

(* There are as many gaps without a source as sources without a gap: a gap *)
(* in the last nm slots is the place of one iteration and the source of    *)
(* another.                                                                *)
LEMMA Balance ==
  ASSUME ListInvariant, phase \in Compressing, ArrayOK,
         \A k \in 0 .. nm - 1 : unsafe_index[k] <=> PullFrom(k) \in Gap
  PROVE  Cardinality(FromSet) = Cardinality(ToSet)
  <1> DEFINE A == {n \in 0 .. nm - 1 : WriteTo(n) >= np - nm}
             B == {n \in 0 .. nm - 1 : PullFrom(n) \in Gap}
             f == [n \in A |-> np - 1 - WriteTo(n)]
  <1>1. /\ np \in Nat /\ nm \in Nat /\ nm <= np
        /\ Gap = {WriteTo(n) : n \in 0 .. nm - 1}
        /\ \A n \in 0 .. nm - 1 : WriteTo(n) \in 0 .. np - 1
        /\ \A m, n \in 0 .. nm - 1 : WriteTo(m) = WriteTo(n) => m = n
    BY Geometry
  <1>2. IsFiniteSet(0 .. nm - 1)
    <2>1. 0 \in Int /\ nm - 1 \in Int BY <1>1
    <2> QED BY <2>1, FS_Interval
  <1>3. IsFiniteSet(A) /\ IsFiniteSet(B)
    <2>1. A \in SUBSET (0 .. nm - 1) /\ B \in SUBSET (0 .. nm - 1) OBVIOUS
    <2> HIDE DEF A, B
    <2> QED BY <1>2, <2>1, FS_Subset
  <1>4. \A n \in A : f[n] \in 0 .. nm - 1 /\ PullFrom(f[n]) = WriteTo(n)
    BY <1>1 DEF PullFrom
  <1>5. f \in Bijection(A, B)
    <2>1. ASSUME NEW n \in A PROVE f[n] \in B
      BY <1>1, <1>4
    <2>2. ASSUME NEW m \in A, NEW n \in A, f[m] = f[n] PROVE m = n
      BY <1>1, <1>4, <2>2
    <2>3. ASSUME NEW k \in B PROVE \E n \in A : f[n] = k
      <3>1. PICK n \in 0 .. nm - 1 : WriteTo(n) = PullFrom(k) BY <1>1
      <3>2. n \in A /\ f[n] = k BY <1>1, <3>1 DEF PullFrom
      <3> QED BY <3>2
    <2> HIDE DEF A, B
    <2> QED BY <2>1, <2>2, <2>3 DEF Bijection, Injection, Surjection, IsInjective
  <1>6. Cardinality(A) = Cardinality(B)
    <2> HIDE DEF A, B, f
    <2> QED BY <1>3, <1>5, FS_Bijection DEF ExistsBijection
  <1>7. FromSet = A \ B /\ ToSet = B \ A
    <2>1. \A n \in 0 .. nm - 1 : WriteTo(n) < np - nm <=> ~(WriteTo(n) >= np - nm) BY <1>1
    <2>2. FromSet \subseteq 0 .. nm - 1 /\ ToSet \subseteq 0 .. nm - 1 BY DEF FromSet, ToSet
    <2> QED BY <2>1, <2>2, Kinds
  <1>8. Cardinality(A \ B) = Cardinality(A) - Cardinality(A \cap B)
    <2> HIDE DEF A, B
    <2> QED BY <1>3, FS_Difference
  <1>9. Cardinality(B \ A) = Cardinality(B) - Cardinality(A \cap B)
    <2> HIDE DEF A, B
    <2>1. B \cap A = A \cap B OBVIOUS
    <2> QED BY <1>3, <2>1, FS_Difference
  <1> QED BY <1>6, <1>7, <1>8, <1>9

LEMMA KernelInit == Init => KernelInvariant
  <1> SUFFICES ASSUME Init PROVE KernelInvariant OBVIOUS
  <1>1. ListInvariant BY ListInit
  <1>2. phase = "advance" BY DEF Init
  <1>3. ArrayOK BY DEF Init, ArrayOK
  <1>4. StayOK /\ MarkOK /\ FillOK /\ CleanUpOK
    BY <1>2 DEF StayOK, MarkOK, FillOK, CleanUpOK
  <1> QED BY <1>1, <1>3, <1>4 DEF KernelInvariant

LEMMA KernelAdvanceP == KernelInvariant /\ AdvanceP => KernelInvariant'
  <1> SUFFICES ASSUME KernelInvariant, AdvanceP PROVE KernelInvariant' OBVIOUS
  <1>1. ListInvariant' BY ListAdvanceP DEF KernelInvariant
  <1>2. /\ phase' = "push" /\ np' = np
        /\ particles' = [i \in Slot |-> IF i < np THEN Old(i) ELSE None]
        /\ UNCHANGED <<unsafe_index, clean_up_from, clean_up_to, at, reg, held>>
    BY DEF AdvanceP, cleanVars
  <1>3. ArrayOK' BY <1>2 DEF KernelInvariant, ArrayOK
  <1>4. StayOK'
    <2>1. np \in Nat /\ np <= MaxNp BY DEF KernelInvariant, ListInvariant, SizeOK
    <2>2. 0 .. np - 1 \subseteq Slot BY <2>1, SizeAssumption DEF Slot
    <2>3. \A i \in 0 .. np - 1 : i < np BY <2>1
    <2> QED BY <1>2, <2>2, <2>3 DEF StayOK
  <1>5. MarkOK' /\ FillOK' /\ CleanUpOK' BY <1>2 DEF MarkOK, FillOK, CleanUpOK
  <1> QED BY <1>1, <1>3, <1>4, <1>5 DEF KernelInvariant

(* Nothing is compressed while the push kernel runs.                       *)
LEMMA KernelPush ==
  ASSUME KernelInvariant, ListInvariant',
         phase = "push", phase' \in {"push", "abort", "reset"},
         UNCHANGED <<np, particles, unsafe_index, cleanVars, at, reg, held>>
  PROVE  KernelInvariant'
  <1>1. ArrayOK' BY DEF KernelInvariant, ArrayOK, cleanVars
  <1>2. StayOK' BY DEF KernelInvariant, StayOK
  <1>3. MarkOK' /\ FillOK' /\ CleanUpOK' BY DEF MarkOK, FillOK, CleanUpOK
  <1> QED BY <1>1, <1>2, <1>3 DEF KernelInvariant

LEMMA KernelReset == KernelInvariant /\ Reset => KernelInvariant'
  <1> SUFFICES ASSUME KernelInvariant, Reset PROVE KernelInvariant' OBVIOUS
  <1>1. ListInvariant' BY ListNext DEF KernelInvariant, Next
  <1>2. /\ phase = "reset" /\ phase' = "mark" /\ UNCHANGED <<np, nm, pm, particles>>
        /\ from_count' = 0 /\ to_count' = 0
        /\ clean_up_from' = [n \in Iteration |-> IF n < nm THEN 0 ELSE clean_up_from[n]]
        /\ clean_up_to' = [n \in Iteration |-> IF n < nm THEN 0 ELSE clean_up_to[n]]
        /\ unsafe_index' = [k \in 0 .. 2*MaxNm - 1 |-> k >= 2*nm /\ unsafe_index[k]]
        /\ at' = [n \in Iteration |-> IF n < nm THEN "ready" ELSE "done"]
        /\ reg' = [n \in Iteration |-> 0] /\ held' = [n \in Iteration |-> None]
    BY DEF Reset, Launch, listVars, CountCleared
  <1>3. /\ np \in Nat /\ nm \in Nat /\ nm <= MaxNm /\ 0 .. nm - 1 \subseteq Iteration
    BY <1>2, Geometry DEF KernelInvariant, Compressing
  <1>4. ArrayOK'
    <2>1. \A k \in 0 .. 2*MaxNm - 1 : (k >= 2*nm /\ unsafe_index[k]) \in BOOLEAN OBVIOUS
    <2> QED BY <1>2, <2>1 DEF KernelInvariant, ArrayOK
  <1>5. StayOK' BY <1>2 DEF KernelInvariant, StayOK
  <1>6. MarkOK'
    <2>1. \A n \in Iteration : at'[n] \in {"ready", "done"} /\ (at'[n] = "ready" => n < nm')
      BY <1>2
    <2>2. \A n \in 0 .. nm - 1 : at'[n] = "ready" BY <1>2, <1>3
    <2>3. ASSUME NEW k \in 0 .. 2*nm - 1 PROVE ~unsafe_index'[k]
      <3>1. k \in 0 .. 2*MaxNm - 1 /\ ~(k >= 2*nm) BY <1>3, SizeAssumption
      <3> QED BY <1>2, <3>1
    <2> QED BY <1>2, <2>1, <2>2, <2>3 DEF MarkOK
  <1>7. FillOK' /\ CleanUpOK' BY <1>2 DEF FillOK, CleanUpOK
  <1> QED BY <1>1, <1>4, <1>5, <1>6, <1>7 DEF KernelInvariant

LEMMA KernelMark ==
  ASSUME KernelInvariant, NEW n \in Iteration, Mark(n)
  PROVE  KernelInvariant'
  <1>1. ListInvariant' BY ListNext DEF KernelInvariant, Next
  <1>2. /\ phase = "mark" /\ phase' = "mark" /\ at[n] = "ready"
        /\ UNCHANGED <<np, nm, pm, particles, clean_up_from, clean_up_to,
                       from_count, to_count, reg, held>>
        /\ at' = [at EXCEPT ![n] = "done"]
        /\ unsafe_index' = IF pm[n] >= CutOff
                             THEN [unsafe_index EXCEPT ![Reverse(pm[n])] = TRUE]
                             ELSE unsafe_index
    BY DEF Mark, listVars, cleanVars
  <1>3. /\ np \in Nat /\ nm \in Nat /\ nm <= MaxNm /\ 0 .. nm - 1 \subseteq Iteration
        /\ DOMAIN pm = 0 .. nm - 1
        /\ \A m \in 0 .. nm - 1 : pm[m] \in 0 .. np - 1
    BY <1>2, Geometry, ListFull DEF KernelInvariant, Compressing, ListInvariant, PhaseOK
  <1>4. Gap' = Gap BY <1>2 DEF Gap
  <1>5. ArrayOK' BY <1>2 DEF KernelInvariant, ArrayOK
  <1>6. StayOK' BY <1>2 DEF KernelInvariant, StayOK
  <1>7. MarkOK'
    <2>1. \A m \in Iteration : at'[m] \in {"ready", "done"} /\ (at'[m] = "ready" => m < nm')
      BY <1>2 DEF KernelInvariant, ArrayOK, MarkOK
    <2>2. \A k \in DOMAIN unsafe_index : unsafe_index[k] => unsafe_index'[k]
      BY <1>2
    <2>3. \A m \in 0 .. nm - 1 : pm[m] >= np - 2*nm => np - 1 - pm[m] \in 0 .. 2*nm - 1
      BY <1>3
    <2>4. 0 .. 2*nm - 1 \subseteq DOMAIN unsafe_index
      BY <1>3, SizeAssumption DEF KernelInvariant, ArrayOK
    <2>5. ASSUME NEW m \in 0 .. nm - 1, at'[m] = "done", (pm[m] >= CutOff)'
          PROVE  unsafe_index[Reverse(pm[m])]'
      <3>1. pm[m] >= CutOff /\ Reverse(pm[m]) \in DOMAIN unsafe_index
        BY <1>2, <2>3, <2>4, <2>5 DEF CutOff, Reverse
      <3>2. CASE m = n BY <1>2, <3>1, <3>2 DEF Reverse
      <3>3. CASE m # n
        <4>1. at[m] = "done" BY <1>2, <2>5, <3>3
        <4>2. unsafe_index[Reverse(pm[m])]
          BY <1>2, <3>1, <4>1 DEF KernelInvariant, MarkOK
        <4> QED BY <1>2, <2>2, <3>1, <4>2 DEF Reverse
      <3> QED BY <3>2, <3>3
    <2>6. ASSUME NEW k \in 0 .. 2*nm - 1, unsafe_index'[k] PROVE PullFrom(k)' \in Gap'
      <3>1. CASE unsafe_index[k]
        BY <1>2, <1>4, <3>1 DEF KernelInvariant, MarkOK, PullFrom
      <3>2. CASE ~unsafe_index[k]
        <4>1. pm[n] >= CutOff /\ k = Reverse(pm[n]) BY <1>2, <2>4, <2>6, <3>2
        <4>2. n \in 0 .. nm - 1
          BY <1>2, <1>3 DEF KernelInvariant, MarkOK, Iteration
        <4>3. PullFrom(k) = pm[n] BY <1>3, <4>1, <4>2 DEF Reverse, PullFrom
        <4> QED BY <1>2, <1>3, <1>4, <4>2, <4>3 DEF Gap, PullFrom
      <3> QED BY <3>1, <3>2
    <2>7. from_count' = 0 /\ to_count' = 0 BY <1>2 DEF KernelInvariant, MarkOK
    <2> QED BY <1>2, <2>1, <2>5, <2>6, <2>7 DEF MarkOK
  <1>8. FillOK' /\ CleanUpOK' BY <1>2 DEF FillOK, CleanUpOK
  <1> QED BY <1>1, <1>5, <1>6, <1>7, <1>8 DEF KernelInvariant

LEMMA KernelMarkEnds == KernelInvariant /\ MarkEnds => KernelInvariant'
  <1> SUFFICES ASSUME KernelInvariant, MarkEnds PROVE KernelInvariant' OBVIOUS
  <1>1. ListInvariant' BY ListNext DEF KernelInvariant, Next
  <1>2. /\ phase = "mark" /\ phase' = "fill" /\ \A n \in Iteration : at[n] = "done"
        /\ UNCHANGED <<np, nm, pm, particles, unsafe_index, clean_up_from, clean_up_to,
                       from_count, to_count>>
        /\ at' = [n \in Iteration |-> IF n < nm THEN "ready" ELSE "done"]
        /\ reg' = [n \in Iteration |-> 0] /\ held' = [n \in Iteration |-> None]
    BY DEF MarkEnds, Launch, listVars, cleanVars, KernelEnded
  <1>3. /\ np \in Nat /\ nm \in Nat /\ nm <= np /\ nm <= MaxNm
        /\ DOMAIN pm = 0 .. nm - 1 /\ 0 .. nm - 1 \subseteq Iteration
    BY <1>2, Geometry DEF KernelInvariant, Compressing
  <1>4. Gap' = Gap BY <1>2 DEF Gap
  <1>5. ArrayOK' BY <1>2 DEF KernelInvariant, ArrayOK
  <1>6. StayOK' BY <1>2, <1>4 DEF KernelInvariant, StayOK
  <1>7. MarkOK'
    <2>1. ASSUME NEW k \in 0 .. nm - 1 PROVE unsafe_index[k] <=> PullFrom(k) \in Gap
      <3>1. k \in 0 .. 2*nm - 1 BY <1>3
      <3>2. unsafe_index[k] => PullFrom(k) \in Gap
        BY <1>2, <3>1 DEF KernelInvariant, MarkOK
      <3>3. ASSUME PullFrom(k) \in Gap PROVE unsafe_index[k]
        <4>1. PICK m \in 0 .. nm - 1 : pm[m] = PullFrom(k) BY <1>3, <3>3 DEF Gap
        <4>2. pm[m] >= CutOff /\ Reverse(pm[m]) = k
          BY <1>3, <4>1 DEF CutOff, Reverse, PullFrom
        <4> QED BY <1>2, <1>3, <4>1, <4>2 DEF KernelInvariant, MarkOK
      <3> QED BY <3>2, <3>3
    <2> QED BY <1>2, <1>4, <2>1 DEF MarkOK, PullFrom
  <1>8. FillOK'
    <2>1. FromSet' \subseteq 0 .. nm - 1 /\ ToSet' \subseteq 0 .. nm - 1
          /\ DirectSet' \subseteq 0 .. nm - 1
      BY <1>2 DEF FromSet, ToSet, DirectSet
    <2>2. \A n \in 0 .. nm - 1 : at'[n] = "ready" BY <1>2, <1>3
    <2>3. Started(FromSet)' = {} /\ Started(ToSet)' = {} BY <2>1, <2>2 DEF Started
    <2>4. from_count' = 0 /\ to_count' = 0 BY <1>2 DEF KernelInvariant, MarkOK
    <2>5. Numbered({}, 0, reg') BY DEF Numbered
    <2>6. \A n \in Iteration : at'[n] \in {"ready", "done"} /\ (n >= nm => at'[n] = "done")
      BY <1>2, <1>3 DEF Iteration
    <2> QED BY <1>2, <2>1, <2>2, <2>3, <2>4, <2>5, <2>6 DEF FillOK, At
  <1>9. CleanUpOK' BY <1>2 DEF CleanUpOK
  <1> QED BY <1>1, <1>5, <1>6, <1>7, <1>8, <1>9 DEF KernelInvariant

(* While the list and the marks stand, the iterations keep their kinds.    *)
LEMMA KindsKept ==
  ASSUME UNCHANGED <<np, nm, pm, unsafe_index>>
  PROVE  /\ Gap' = Gap /\ FromSet' = FromSet /\ ToSet' = ToSet /\ DirectSet' = DirectSet
         /\ \A n : PullFrom(n)' = PullFrom(n) /\ WriteTo(n)' = WriteTo(n)
         /\ Sources' = Sources /\ Targets' = Targets
  <1>1. Gap' = Gap BY DEF Gap
  <1>2. \A n : PullFrom(n)' = PullFrom(n) /\ WriteTo(n)' = WriteTo(n)
    BY DEF PullFrom, WriteTo
  <1>3. FromSet' = FromSet
    BY <1>2 DEF FromSet, NeedsTarget, GapIsGivenUp, SourceIsGap, DangerZone
  <1>4. ToSet' = ToSet BY <1>2 DEF ToSet, NeedsSource, GapIsGivenUp, SourceIsGap, DangerZone
  <1>5. DirectSet' = DirectSet
    BY <1>2 DEF DirectSet, MovesDirectly, GapIsGivenUp, SourceIsGap, DangerZone
  <1>6. Sources' = Sources /\ Targets' = Targets BY <1>2, <1>3, <1>4 DEF Sources, Targets
  <1> QED BY <1>1, <1>2, <1>3, <1>4, <1>5, <1>6

(* What is known in the second and third kernels.                          *)
LEMMA Compaction ==
  ASSUME KernelInvariant, phase \in {"fill", "clean_up", "append"}
  PROVE  /\ np \in Nat /\ nm \in Nat /\ nm <= np /\ nm <= MaxNm /\ np <= MaxNp
         /\ 0 .. nm - 1 \subseteq Iteration /\ 0 .. np - 1 \subseteq Slot
         /\ FromSet \subseteq 0 .. nm - 1 /\ ToSet \subseteq 0 .. nm - 1
         /\ DirectSet \subseteq 0 .. nm - 1
         /\ FromSet \cap ToSet = {} /\ FromSet \cap DirectSet = {} /\ ToSet \cap DirectSet = {}
         /\ Gap = {WriteTo(n) : n \in 0 .. nm - 1}
         /\ \A n \in 0 .. nm - 1 : WriteTo(n) \in 0 .. np - 1 /\ PullFrom(n) \in np - nm .. np - 1
         /\ \A m, n \in 0 .. nm - 1 : WriteTo(m) = WriteTo(n) => m = n
         /\ \A n \in 0 .. nm - 1 :
              /\ n \in FromSet <=> WriteTo(n) >= np - nm /\ PullFrom(n) \notin Gap
              /\ n \in ToSet <=> WriteTo(n) < np - nm /\ PullFrom(n) \in Gap
              /\ n \in DirectSet <=> WriteTo(n) < np - nm /\ PullFrom(n) \notin Gap
         /\ \A i \in 0 .. np - 1 : i \notin Gap => particles[i] = Old(i)
         /\ Cardinality(FromSet) = Cardinality(ToSet)
  <1>1. phase \in Compressing BY DEF Compressing
  <1>2. \A k \in 0 .. nm - 1 : unsafe_index[k] <=> PullFrom(k) \in Gap
    BY DEF KernelInvariant, MarkOK
  <1>3. /\ np \in Nat /\ nm \in Nat /\ nm <= np /\ nm <= MaxNm /\ np <= MaxNp
        /\ 0 .. nm - 1 \subseteq Iteration /\ 0 .. np - 1 \subseteq Slot
        /\ Gap = {WriteTo(n) : n \in 0 .. nm - 1}
        /\ \A n \in 0 .. nm - 1 : WriteTo(n) \in 0 .. np - 1 /\ PullFrom(n) \in np - nm .. np - 1
        /\ \A m, n \in 0 .. nm - 1 : WriteTo(m) = WriteTo(n) => m = n
    BY <1>1, Geometry DEF KernelInvariant
  <1>4. \A n \in 0 .. nm - 1 :
           /\ n \in FromSet <=> WriteTo(n) >= np - nm /\ PullFrom(n) \notin Gap
           /\ n \in ToSet <=> WriteTo(n) < np - nm /\ PullFrom(n) \in Gap
           /\ n \in DirectSet <=> WriteTo(n) < np - nm /\ PullFrom(n) \notin Gap
    BY <1>1, <1>2, Kinds DEF KernelInvariant
  <1>5. /\ FromSet \subseteq 0 .. nm - 1 /\ ToSet \subseteq 0 .. nm - 1
        /\ DirectSet \subseteq 0 .. nm - 1
    BY DEF FromSet, ToSet, DirectSet
  <1>6. FromSet \cap ToSet = {} /\ FromSet \cap DirectSet = {} /\ ToSet \cap DirectSet = {}
    <2>1. \A n \in 0 .. nm - 1 : ~(WriteTo(n) >= np - nm /\ WriteTo(n) < np - nm) BY <1>3
    <2> QED BY <1>4, <1>5, <2>1
  <1>7. \A i \in 0 .. np - 1 : i \notin Gap => particles[i] = Old(i)
    BY DEF KernelInvariant, StayOK
  <1>8. Cardinality(FromSet) = Cardinality(ToSet)
    BY <1>1, <1>2, Balance DEF KernelInvariant
  <1> QED BY <1>3, <1>4, <1>5, <1>6, <1>7, <1>8

LEMMA KernelFill ==
  ASSUME KernelInvariant, NEW n \in Iteration, Fill(n)
  PROVE  KernelInvariant'
  <1>1. ListInvariant' BY ListNext DEF KernelInvariant, Next
  <1>2. /\ phase = "fill" /\ phase' = "fill" /\ at[n] = "ready"
        /\ UNCHANGED <<np, nm, pm, particles, unsafe_index, clean_up_from, clean_up_to>>
    BY DEF Fill, listVars
  <1>3. /\ DOMAIN at = Iteration /\ DOMAIN reg = Iteration /\ DOMAIN held = Iteration
    BY DEF KernelInvariant, ArrayOK
  <1>4. n \in 0 .. nm - 1
    <2>1. nm \in Nat /\ nm <= MaxNm BY <1>2, Compaction
    <2>2. ~(n >= nm) BY <1>2 DEF KernelInvariant, FillOK
    <2> QED BY <2>1, <2>2, SizeAssumption DEF Iteration
  <1>5. ArrayOK' BY <1>2, <1>3 DEF KernelInvariant, ArrayOK, Fill
  <1>6. StayOK' BY <1>2, KindsKept DEF KernelInvariant, StayOK
  <1>7. MarkOK' BY <1>2, KindsKept DEF KernelInvariant, MarkOK
  <1>8. CleanUpOK' BY <1>2 DEF CleanUpOK
  <1>9. FillOK'
    <2>1. /\ FromSet' = FromSet /\ ToSet' = ToSet /\ DirectSet' = DirectSet
          /\ \A m : PullFrom(m)' = PullFrom(m) /\ WriteTo(m)' = WriteTo(m)
      BY <1>2, KindsKept
    <2>2. FromSet \subseteq Iteration /\ ToSet \subseteq Iteration /\ DirectSet \subseteq Iteration
      BY <1>2, Compaction
    <2>3. FromSet \cap ToSet = {} /\ FromSet \cap DirectSet = {} /\ ToSet \cap DirectSet = {}
      BY <1>2, Compaction
    <2>4. /\ from_count \in Nat /\ Numbered(Started(FromSet), from_count, reg)
          /\ to_count \in Nat /\ Numbered(Started(ToSet), to_count, reg)
          /\ \A m \in Iteration :
               /\ at[m] \in At
               /\ m >= nm => at[m] = "done"
               /\ at[m] = "from" => m \in FromSet
               /\ at[m] = "to" => m \in ToSet
               /\ at[m] = "loaded" => m \in DirectSet /\ held[m] = Old(PullFrom(m))
          /\ \A m \in FromSet : at[m] = "done" => clean_up_from[reg[m]] = PullFrom(m)
          /\ \A m \in ToSet : at[m] = "done" => clean_up_to[reg[m]] = WriteTo(m)
          /\ \A m \in DirectSet : at[m] = "done" => particles[WriteTo(m)] = Old(PullFrom(m))
      BY <1>2 DEF KernelInvariant, FillOK
    <2>5. /\ n \in FromSet <=> NeedsTarget(n)
          /\ n \in ToSet <=> NeedsSource(n)
          /\ n \in DirectSet <=> MovesDirectly(n)
      BY <1>4 DEF FromSet, ToSet, DirectSet
    <2>6. CASE /\ n \in FromSet
               /\ from_count' = from_count + 1
               /\ reg' = [reg EXCEPT ![n] = from_count]
               /\ at' = [at EXCEPT ![n] = "from"]
               /\ UNCHANGED <<to_count, held>>
      <3>1. /\ Started(FromSet)' = Started(FromSet) \cup {n} /\ n \notin Started(FromSet)
            /\ Started(ToSet)' = Started(ToSet) /\ n \notin Started(ToSet)
        BY <1>2, <1>3, <2>1, <2>2, <2>3, <2>6 DEF Started
      <3>2. reg'[n] = from_count /\ \A m \in Iteration : m # n => reg'[m] = reg[m]
        BY <1>3, <2>6
      <3>3. Started(FromSet) \subseteq Iteration /\ Started(ToSet) \subseteq Iteration
        BY <2>2 DEF Started
      <3>4. Numbered(Started(FromSet)', from_count', reg')
        <4>1. \A m \in Started(FromSet) : reg'[m] = reg[m] BY <3>1, <3>2, <3>3
        <4>2. from_count \in Nat /\ Numbered(Started(FromSet), from_count, reg) /\ n \notin Started(FromSet)
          BY <2>4, <3>1
        <4>3. reg'[n] = from_count BY <3>2
        <4>4. Numbered(Started(FromSet) \cup {n}, from_count + 1, reg')
          BY <4>1, <4>2, <4>3, NumberNext
        <4> QED BY <2>6, <3>1, <4>4
      <3>5. Numbered(Started(ToSet)', to_count', reg')
        BY <2>4, <2>6, <3>1, <3>2, <3>3 DEF Numbered
      <3>6. \A m \in Iteration :
               /\ at'[m] \in At
               /\ m >= nm => at'[m] = "done"
               /\ at'[m] = "from" => m \in FromSet
               /\ at'[m] = "to" => m \in ToSet
               /\ at'[m] = "loaded" => m \in DirectSet /\ held'[m] = Old(PullFrom(m))
        BY <1>2, <1>3, <2>4, <2>6 DEF At
      <3>7. /\ \A m \in FromSet : at'[m] = "done" => clean_up_from'[reg'[m]] = PullFrom(m)
            /\ \A m \in ToSet : at'[m] = "done" => clean_up_to'[reg'[m]] = WriteTo(m)
            /\ \A m \in DirectSet : at'[m] = "done" => particles'[WriteTo(m)] = Old(PullFrom(m))
        BY <1>2, <1>3, <2>2, <2>4, <2>6
      <3> QED BY <1>2, <2>1, <2>4, <2>6, <3>4, <3>5, <3>6, <3>7 DEF FillOK
    <2>7. CASE /\ n \in ToSet
               /\ to_count' = to_count + 1
               /\ reg' = [reg EXCEPT ![n] = to_count]
               /\ at' = [at EXCEPT ![n] = "to"]
               /\ UNCHANGED <<from_count, held>>
      <3>1. /\ Started(ToSet)' = Started(ToSet) \cup {n} /\ n \notin Started(ToSet)
            /\ Started(FromSet)' = Started(FromSet) /\ n \notin Started(FromSet)
        BY <1>2, <1>3, <2>1, <2>2, <2>3, <2>7 DEF Started
      <3>2. reg'[n] = to_count /\ \A m \in Iteration : m # n => reg'[m] = reg[m]
        BY <1>3, <2>7
      <3>3. Started(FromSet) \subseteq Iteration /\ Started(ToSet) \subseteq Iteration
        BY <2>2 DEF Started
      <3>4. Numbered(Started(ToSet)', to_count', reg')
        <4>1. \A m \in Started(ToSet) : reg'[m] = reg[m] BY <3>1, <3>2, <3>3
        <4>2. to_count \in Nat /\ Numbered(Started(ToSet), to_count, reg) /\ n \notin Started(ToSet)
          BY <2>4, <3>1
        <4>3. reg'[n] = to_count BY <3>2
        <4>4. Numbered(Started(ToSet) \cup {n}, to_count + 1, reg')
          BY <4>1, <4>2, <4>3, NumberNext
        <4> QED BY <2>7, <3>1, <4>4
      <3>5. Numbered(Started(FromSet)', from_count', reg')
        BY <2>4, <2>7, <3>1, <3>2, <3>3 DEF Numbered
      <3>6. \A m \in Iteration :
               /\ at'[m] \in At
               /\ m >= nm => at'[m] = "done"
               /\ at'[m] = "from" => m \in FromSet
               /\ at'[m] = "to" => m \in ToSet
               /\ at'[m] = "loaded" => m \in DirectSet /\ held'[m] = Old(PullFrom(m))
        BY <1>2, <1>3, <2>4, <2>7 DEF At
      <3>7. /\ \A m \in FromSet : at'[m] = "done" => clean_up_from'[reg'[m]] = PullFrom(m)
            /\ \A m \in ToSet : at'[m] = "done" => clean_up_to'[reg'[m]] = WriteTo(m)
            /\ \A m \in DirectSet : at'[m] = "done" => particles'[WriteTo(m)] = Old(PullFrom(m))
        BY <1>2, <1>3, <2>2, <2>4, <2>7
      <3> QED BY <1>2, <2>1, <2>4, <2>7, <3>4, <3>5, <3>6, <3>7 DEF FillOK
    <2>8. CASE \/ /\ n \in DirectSet
                  /\ held' = [held EXCEPT ![n] = particles[PullFrom(n)]]
                  /\ at' = [at EXCEPT ![n] = "loaded"]
                  /\ UNCHANGED <<from_count, to_count, reg>>
               \/ /\ n \notin FromSet \cup ToSet \cup DirectSet
                  /\ at' = [at EXCEPT ![n] = "done"]
                  /\ UNCHANGED <<from_count, to_count, reg, held>>
      <3>1. Started(ToSet)' = Started(ToSet) /\ Started(FromSet)' = Started(FromSet)
        BY <1>2, <1>3, <2>1, <2>2, <2>3, <2>8 DEF Started
      <3>2. n \in DirectSet => particles[PullFrom(n)] = Old(PullFrom(n))
        <4>1. n \in DirectSet => PullFrom(n) \in 0 .. np - 1 /\ PullFrom(n) \notin Gap
          BY <1>2, <1>4, Compaction
        <4> QED BY <1>2, <4>1, Compaction
      <3>3. \A m \in Iteration :
               /\ at'[m] \in At
               /\ m >= nm => at'[m] = "done"
               /\ at'[m] = "from" => m \in FromSet
               /\ at'[m] = "to" => m \in ToSet
               /\ at'[m] = "loaded" => m \in DirectSet /\ held'[m] = Old(PullFrom(m))
        <4>1. ~(n >= nm) BY <1>2, <2>4
        <4> QED BY <1>2, <1>3, <2>4, <2>8, <3>2, <4>1 DEF At
      <3>4. /\ \A m \in FromSet : at'[m] = "done" => clean_up_from'[reg'[m]] = PullFrom(m)
            /\ \A m \in ToSet : at'[m] = "done" => clean_up_to'[reg'[m]] = WriteTo(m)
            /\ \A m \in DirectSet : at'[m] = "done" => particles'[WriteTo(m)] = Old(PullFrom(m))
        BY <1>2, <1>3, <2>2, <2>3, <2>4, <2>8
      <3> QED BY <1>2, <2>1, <2>4, <2>8, <3>1, <3>3, <3>4 DEF FillOK
    <2> QED BY <2>5, <2>6, <2>7, <2>8 DEF Fill
  <1> QED BY <1>1, <1>5, <1>6, <1>7, <1>8, <1>9 DEF KernelInvariant

LEMMA KernelFillStores ==
  ASSUME KernelInvariant, NEW n \in Iteration, FillStores(n)
  PROVE  KernelInvariant'
  <1>1. ListInvariant' BY ListNext DEF KernelInvariant, Next
  <1>2. /\ phase = "fill" /\ phase' = "fill" /\ at' = [at EXCEPT ![n] = "done"]
        /\ at[n] \in {"from", "to", "loaded"}
        /\ UNCHANGED <<np, nm, pm, unsafe_index, from_count, to_count, reg, held>>
    BY DEF FillStores, listVars
  <1>3. /\ DOMAIN at = Iteration /\ DOMAIN clean_up_from = Iteration
        /\ DOMAIN clean_up_to = Iteration /\ DOMAIN particles = Slot
    BY DEF KernelInvariant, ArrayOK
  <1>4. /\ nm \in Nat /\ nm <= MaxNm /\ 0 .. nm - 1 \subseteq Iteration
        /\ FromSet \subseteq 0 .. nm - 1 /\ ToSet \subseteq 0 .. nm - 1
        /\ DirectSet \subseteq 0 .. nm - 1
        /\ FromSet \cap ToSet = {} /\ FromSet \cap DirectSet = {} /\ ToSet \cap DirectSet = {}
    BY <1>2, Compaction
  <1>5. /\ FromSet' = FromSet /\ ToSet' = ToSet /\ DirectSet' = DirectSet /\ Gap' = Gap
        /\ \A m : PullFrom(m)' = PullFrom(m) /\ WriteTo(m)' = WriteTo(m)
    BY <1>2, KindsKept
  <1>6. /\ from_count \in Nat /\ Numbered(Started(FromSet), from_count, reg)
        /\ to_count \in Nat /\ Numbered(Started(ToSet), to_count, reg)
        /\ \A m \in Iteration :
             /\ at[m] \in At
             /\ m >= nm => at[m] = "done"
             /\ at[m] = "from" => m \in FromSet
             /\ at[m] = "to" => m \in ToSet
             /\ at[m] = "loaded" => m \in DirectSet /\ held[m] = Old(PullFrom(m))
        /\ \A m \in FromSet : at[m] = "done" => clean_up_from[reg[m]] = PullFrom(m)
        /\ \A m \in ToSet : at[m] = "done" => clean_up_to[reg[m]] = WriteTo(m)
        /\ \A m \in DirectSet : at[m] = "done" => particles[WriteTo(m)] = Old(PullFrom(m))
    BY <1>2 DEF KernelInvariant, FillOK
  <1>7. Started(FromSet)' = Started(FromSet) /\ Started(ToSet)' = Started(ToSet)
    BY <1>2, <1>3, <1>4, <1>5 DEF Started
  <1>8. ArrayOK'
    BY <1>2, <1>3 DEF KernelInvariant, ArrayOK, FillStores
  <1>9. MarkOK' BY <1>2, <1>5 DEF KernelInvariant, MarkOK
  <1>10. CleanUpOK' BY <1>2 DEF CleanUpOK
  <1>11. \A m \in Iteration :
           /\ at'[m] \in At
           /\ m >= nm => at'[m] = "done"
           /\ at'[m] = "from" => m \in FromSet
           /\ at'[m] = "to" => m \in ToSet
           /\ at'[m] = "loaded" => m \in DirectSet /\ held'[m] = Old(PullFrom(m))
    BY <1>2, <1>3, <1>6 DEF At
  <1>12. CASE /\ at[n] = "from" /\ UNCHANGED <<clean_up_to, particles>>
              /\ clean_up_from' = [clean_up_from EXCEPT ![reg[n]] = PullFrom(n)]
    <2>1. n \in FromSet /\ n \in Started(FromSet) BY <1>6, <1>12 DEF Started
    <2>2. reg[n] \in Iteration
      <3>1. Started(FromSet) \subseteq 0 .. nm - 1 BY <1>4 DEF Started
      <3>2. from_count <= nm BY <1>4, <1>6, <3>1, NumberedCount
      <3> QED BY <1>4, <1>6, <2>1, <3>2 DEF Numbered
    <2>3. \A m \in FromSet : m # n /\ at[m] = "done" => reg[m] # reg[n]
      BY <1>6, <2>1 DEF Numbered, Started
    <2>4. \A m \in FromSet : at'[m] = "done" => clean_up_from'[reg[m]] = PullFrom(m)
      BY <1>2, <1>3, <1>4, <1>6, <1>12, <2>2, <2>3
    <2>5. \A m \in ToSet \cup DirectSet : m # n BY <1>4, <2>1
    <2>6. /\ \A m \in ToSet : at'[m] = "done" => clean_up_to[reg[m]] = WriteTo(m)
          /\ \A m \in DirectSet : at'[m] = "done" => particles[WriteTo(m)] = Old(PullFrom(m))
      BY <1>2, <1>3, <1>6, <2>5
    <2>7. FillOK' BY <1>2, <1>5, <1>6, <1>7, <1>11, <1>12, <2>4, <2>6 DEF FillOK
    <2>8. StayOK' BY <1>2, <1>5, <1>12 DEF KernelInvariant, StayOK
    <2> QED BY <1>1, <1>8, <1>9, <1>10, <2>7, <2>8 DEF KernelInvariant
  <1>13. CASE /\ at[n] = "to" /\ UNCHANGED <<clean_up_from, particles>>
              /\ clean_up_to' = [clean_up_to EXCEPT ![reg[n]] = WriteTo(n)]
    <2>1. n \in ToSet /\ n \in Started(ToSet) BY <1>6, <1>13 DEF Started
    <2>2. reg[n] \in Iteration
      <3>1. Started(ToSet) \subseteq 0 .. nm - 1 BY <1>4 DEF Started
      <3>2. to_count <= nm BY <1>4, <1>6, <3>1, NumberedCount
      <3> QED BY <1>4, <1>6, <2>1, <3>2 DEF Numbered
    <2>3. \A m \in ToSet : m # n /\ at[m] = "done" => reg[m] # reg[n]
      BY <1>6, <2>1 DEF Numbered, Started
    <2>4. \A m \in ToSet : at'[m] = "done" => clean_up_to'[reg[m]] = WriteTo(m)
      BY <1>2, <1>3, <1>4, <1>6, <1>13, <2>2, <2>3
    <2>5. \A m \in FromSet \cup DirectSet : m # n BY <1>4, <2>1
    <2>6. /\ \A m \in FromSet : at'[m] = "done" => clean_up_from[reg[m]] = PullFrom(m)
          /\ \A m \in DirectSet : at'[m] = "done" => particles[WriteTo(m)] = Old(PullFrom(m))
      BY <1>2, <1>3, <1>6, <2>5
    <2>7. FillOK' BY <1>2, <1>5, <1>6, <1>7, <1>11, <1>13, <2>4, <2>6 DEF FillOK
    <2>8. StayOK' BY <1>2, <1>5, <1>13 DEF KernelInvariant, StayOK
    <2> QED BY <1>1, <1>8, <1>9, <1>10, <2>7, <2>8 DEF KernelInvariant
  <1>14. CASE /\ at[n] = "loaded" /\ UNCHANGED <<clean_up_from, clean_up_to>>
              /\ particles' = [particles EXCEPT ![WriteTo(n)] = held[n]]
    <2>1. n \in DirectSet /\ held[n] = Old(PullFrom(n)) BY <1>6, <1>14
    <2>2. WriteTo(n) \in Slot /\ WriteTo(n) \in Gap
          /\ \A m \in DirectSet : WriteTo(m) = WriteTo(n) => m = n
      BY <1>2, <1>4, <2>1, Compaction
    <2>3. \A m \in DirectSet : at'[m] = "done" => particles'[WriteTo(m)] = Old(PullFrom(m))
      BY <1>2, <1>3, <1>6, <1>14, <2>1, <2>2
    <2>4. \A m \in FromSet \cup ToSet : m # n BY <1>4, <2>1
    <2>5. /\ \A m \in FromSet : at'[m] = "done" => clean_up_from[reg[m]] = PullFrom(m)
          /\ \A m \in ToSet : at'[m] = "done" => clean_up_to[reg[m]] = WriteTo(m)
      BY <1>2, <1>3, <1>6, <2>4
    <2>6. FillOK' BY <1>2, <1>5, <1>6, <1>7, <1>11, <1>14, <2>3, <2>5 DEF FillOK
    <2>7. StayOK'
      <3>1. \A i \in 0 .. np - 1 : i \notin Gap => particles'[i] = particles[i]
        BY <1>14, <2>2
      <3> QED BY <1>2, <1>5, <3>1 DEF KernelInvariant, StayOK
    <2> QED BY <1>1, <1>8, <1>9, <1>10, <2>6, <2>7 DEF KernelInvariant
  <1> QED BY <1>12, <1>13, <1>14 DEF FillStores

LEMMA KernelFillEnds == KernelInvariant /\ FillEnds => KernelInvariant'
  <1> SUFFICES ASSUME KernelInvariant, FillEnds PROVE KernelInvariant' OBVIOUS
  <1>1. ListInvariant' BY ListNext DEF KernelInvariant, Next
  <1>2. /\ phase = "fill" /\ phase' = "clean_up" /\ \A n \in Iteration : at[n] = "done"
        /\ UNCHANGED <<np, nm, pm, particles, unsafe_index, clean_up_from, clean_up_to,
                       from_count, to_count>>
        /\ at' = [n \in Iteration |-> IF n < from_count THEN "ready" ELSE "done"]
        /\ reg' = [n \in Iteration |-> 0] /\ held' = [n \in Iteration |-> None]
    BY DEF FillEnds, Launch, listVars, cleanVars, KernelEnded
  <1>3. /\ np \in Nat /\ nm \in Nat /\ nm <= np /\ nm <= MaxNm
        /\ 0 .. nm - 1 \subseteq Iteration
        /\ FromSet \subseteq 0 .. nm - 1 /\ ToSet \subseteq 0 .. nm - 1
        /\ DirectSet \subseteq 0 .. nm - 1
        /\ \A m, n \in 0 .. nm - 1 : WriteTo(m) = WriteTo(n) => m = n
        /\ Cardinality(FromSet) = Cardinality(ToSet)
    BY <1>2, Compaction
  <1>4. /\ Gap' = Gap /\ Sources' = Sources /\ Targets' = Targets /\ DirectSet' = DirectSet
        /\ \A m : PullFrom(m)' = PullFrom(m) /\ WriteTo(m)' = WriteTo(m)
    BY <1>2, KindsKept
  <1>5. Started(FromSet) = FromSet /\ Started(ToSet) = ToSet BY <1>2, <1>3 DEF Started
  <1>6. /\ from_count \in Nat /\ Numbered(FromSet, from_count, reg)
        /\ to_count \in Nat /\ Numbered(ToSet, to_count, reg)
        /\ \A m \in FromSet : clean_up_from[reg[m]] = PullFrom(m)
        /\ \A m \in ToSet : clean_up_to[reg[m]] = WriteTo(m)
        /\ \A m \in DirectSet : particles[WriteTo(m)] = Old(PullFrom(m))
    BY <1>2, <1>3, <1>5 DEF KernelInvariant, FillOK
  <1>7. from_count = Cardinality(FromSet) /\ from_count <= nm BY <1>3, <1>6, NumberedCount
  <1>8. to_count = from_count
    <2>1. to_count = Cardinality(ToSet) BY <1>3, <1>6, NumberedCount
    <2> QED BY <1>3, <1>7, <2>1
  <1>9. Lists(Sources, from_count, clean_up_from)
    <2>1. \A m, n \in FromSet : PullFrom(m) = PullFrom(n) => m = n BY <1>3 DEF PullFrom
    <2>2. ASSUME NEW k \in 0 .. from_count - 1
          PROVE  \E n \in FromSet : reg[n] = k /\ clean_up_from[k] = PullFrom(n)
      BY <1>6, <2>2 DEF Numbered
    <2>3. ASSUME NEW n \in FromSet
          PROVE  reg[n] \in 0 .. from_count - 1 /\ clean_up_from[reg[n]] = PullFrom(n)
      BY <1>6, <2>3 DEF Numbered
    <2>4. \A k \in 0 .. from_count - 1 : clean_up_from[k] \in Sources BY <2>2 DEF Sources
    <2>5. \A j, k \in 0 .. from_count - 1 : clean_up_from[j] = clean_up_from[k] => j = k
      BY <2>1, <2>2
    <2>6. \A s \in Sources : \E k \in 0 .. from_count - 1 : clean_up_from[k] = s BY <2>3 DEF Sources
    <2> QED BY <2>4, <2>5, <2>6 DEF Lists
  <1>10. Lists(Targets, from_count, clean_up_to)
    <2>1. \A m, n \in ToSet : WriteTo(m) = WriteTo(n) => m = n BY <1>3
    <2>2. ASSUME NEW k \in 0 .. from_count - 1
          PROVE  \E n \in ToSet : reg[n] = k /\ clean_up_to[k] = WriteTo(n)
      BY <1>6, <1>8, <2>2 DEF Numbered
    <2>3. ASSUME NEW n \in ToSet
          PROVE  reg[n] \in 0 .. from_count - 1 /\ clean_up_to[reg[n]] = WriteTo(n)
      BY <1>6, <1>8, <2>3 DEF Numbered
    <2>4. \A k \in 0 .. from_count - 1 : clean_up_to[k] \in Targets BY <2>2 DEF Targets
    <2>5. \A j, k \in 0 .. from_count - 1 : clean_up_to[j] = clean_up_to[k] => j = k
      BY <2>1, <2>2
    <2>6. \A s \in Targets : \E k \in 0 .. from_count - 1 : clean_up_to[k] = s BY <2>3 DEF Targets
    <2> QED BY <2>4, <2>5, <2>6 DEF Lists
  <1>11. ArrayOK' BY <1>2 DEF KernelInvariant, ArrayOK
  <1>12. StayOK' BY <1>2, <1>4 DEF KernelInvariant, StayOK
  <1>13. MarkOK' BY <1>2, <1>4 DEF KernelInvariant, MarkOK
  <1>14. FillOK' BY <1>2 DEF FillOK
  <1>15. CleanUpOK'
    <2>1. /\ from_count' \in 0 .. nm' /\ to_count' = from_count'
          /\ Lists(Sources', from_count', clean_up_from')
          /\ Lists(Targets', from_count', clean_up_to')
      BY <1>2, <1>3, <1>4, <1>6, <1>7, <1>8, <1>9, <1>10
    <2>2. \A n \in DirectSet' : particles'[WriteTo(n)'] = Old(PullFrom(n)')
      BY <1>2, <1>4, <1>6
    <2>3. \A n \in Iteration :
            /\ at'[n] \in {"ready", "done"}
            /\ n >= from_count => at'[n] = "done"
            /\ n < from_count => at'[n] = "ready"
      BY <1>2, <1>6 DEF Iteration
    <2> QED BY <1>2, <1>4, <2>1, <2>2, <2>3 DEF CleanUpOK, Old
  <1> QED BY <1>1, <1>11, <1>12, <1>13, <1>14, <1>15 DEF KernelInvariant

(* The two lists of the third kernel: sources among the last nm slots, and *)
(* gaps before them that the second kernel has not filled.                 *)
LEMMA CleanUpLists ==
  ASSUME KernelInvariant, phase \in {"clean_up", "append"}
  PROVE  /\ from_count \in Nat /\ 0 .. from_count - 1 \subseteq Iteration
         /\ \A k \in 0 .. from_count - 1 :
              /\ clean_up_from[k] \in np - nm .. np - 1 /\ clean_up_from[k] \notin Gap
              /\ clean_up_to[k] \in 0 .. np - nm - 1 /\ clean_up_to[k] \in Gap
              /\ \A n \in DirectSet : WriteTo(n) # clean_up_to[k] /\ PullFrom(n) # clean_up_from[k]
         /\ \A j, k \in 0 .. from_count - 1 :
              clean_up_from[j] = clean_up_from[k] \/ clean_up_to[j] = clean_up_to[k] => j = k
  <1>1. /\ from_count \in 0 .. nm
        /\ Lists(Sources, from_count, clean_up_from) /\ Lists(Targets, from_count, clean_up_to)
    BY DEF KernelInvariant, CleanUpOK
  <1>2. /\ np \in Nat /\ nm \in Nat /\ 0 .. nm - 1 \subseteq Iteration
        /\ FromSet \subseteq 0 .. nm - 1 /\ ToSet \subseteq 0 .. nm - 1
        /\ DirectSet \subseteq 0 .. nm - 1
        /\ FromSet \cap DirectSet = {} /\ ToSet \cap DirectSet = {}
        /\ Gap = {WriteTo(n) : n \in 0 .. nm - 1}
        /\ \A n \in 0 .. nm - 1 : WriteTo(n) \in 0 .. np - 1 /\ PullFrom(n) \in np - nm .. np - 1
        /\ \A m, n \in 0 .. nm - 1 : WriteTo(m) = WriteTo(n) => m = n
        /\ \A n \in FromSet : PullFrom(n) \notin Gap
        /\ \A n \in ToSet : WriteTo(n) < np - nm
    BY Compaction
  <1>3. ASSUME NEW k \in 0 .. from_count - 1
        PROVE  /\ clean_up_from[k] \in np - nm .. np - 1 /\ clean_up_from[k] \notin Gap
               /\ \A n \in DirectSet : PullFrom(n) # clean_up_from[k]
    <2>1. PICK m \in FromSet : clean_up_from[k] = PullFrom(m) BY <1>1 DEF Lists, Sources
    <2>2. \A n \in DirectSet : PullFrom(n) # PullFrom(m) BY <1>2 DEF PullFrom
    <2> QED BY <1>2, <2>1, <2>2
  <1>4. ASSUME NEW k \in 0 .. from_count - 1
        PROVE  /\ clean_up_to[k] \in 0 .. np - nm - 1 /\ clean_up_to[k] \in Gap
               /\ \A n \in DirectSet : WriteTo(n) # clean_up_to[k]
    <2>1. PICK m \in ToSet : clean_up_to[k] = WriteTo(m) BY <1>1 DEF Lists, Targets
    <2> QED BY <1>2, <2>1
  <1>5. \A j, k \in 0 .. from_count - 1 :
           clean_up_from[j] = clean_up_from[k] \/ clean_up_to[j] = clean_up_to[k] => j = k
    BY <1>1 DEF Lists
  <1>6. from_count \in Nat /\ 0 .. from_count - 1 \subseteq Iteration BY <1>1, <1>2
  <1> QED BY <1>3, <1>4, <1>5, <1>6

LEMMA KernelCleanUp ==
  ASSUME KernelInvariant, NEW n \in Iteration, CleanUp(n)
  PROVE  KernelInvariant'
  <1>1. ListInvariant' BY ListNext DEF KernelInvariant, Next
  <1>2. /\ phase = "clean_up" /\ phase' = "clean_up" /\ at[n] \in {"ready", "loaded"}
        /\ UNCHANGED <<np, nm, pm, unsafe_index, clean_up_from, clean_up_to,
                       from_count, to_count, reg>>
    BY DEF CleanUp, listVars, cleanVars
  <1>3. DOMAIN at = Iteration /\ DOMAIN held = Iteration /\ DOMAIN particles = Slot
    BY DEF KernelInvariant, ArrayOK
  <1>4. /\ np \in Nat /\ nm \in Nat /\ nm <= np /\ 0 .. np - 1 \subseteq Slot
        /\ \A i \in 0 .. np - 1 : i \notin Gap => particles[i] = Old(i)
    BY <1>2, Compaction
  <1>5. /\ Gap' = Gap /\ Sources' = Sources /\ Targets' = Targets /\ DirectSet' = DirectSet
        /\ \A m : PullFrom(m)' = PullFrom(m) /\ WriteTo(m)' = WriteTo(m)
    BY <1>2, KindsKept
  <1>6. /\ from_count \in 0 .. nm /\ to_count = from_count
        /\ Lists(Sources, from_count, clean_up_from)
        /\ Lists(Targets, from_count, clean_up_to)
        /\ \A m \in DirectSet : particles[WriteTo(m)] = Old(PullFrom(m))
        /\ \A m \in Iteration :
             /\ at[m] \in {"ready", "loaded", "done"}
             /\ m >= from_count => at[m] = "done"
             /\ at[m] = "loaded" => held[m] = Old(clean_up_from[m])
             /\ m < from_count /\ at[m] = "done" => particles[clean_up_to[m]] = Old(clean_up_from[m])
    BY <1>2 DEF KernelInvariant, CleanUpOK
  <1>7. n \in 0 .. from_count - 1
    <2>1. ~(n >= from_count) BY <1>2, <1>6
    <2> QED BY <1>4, <1>6, <2>1, SizeAssumption DEF Iteration
  <1>8. ArrayOK' BY <1>2, <1>3 DEF KernelInvariant, ArrayOK, CleanUp
  <1>9. MarkOK' /\ FillOK' BY <1>2, <1>5 DEF KernelInvariant, MarkOK, FillOK
  <1>10. CASE /\ at[n] = "ready" /\ UNCHANGED particles
              /\ held' = [held EXCEPT ![n] = particles[clean_up_from[n]]]
              /\ at' = [at EXCEPT ![n] = "loaded"]
    <2>1. particles[clean_up_from[n]] = Old(clean_up_from[n])
      <3>1. clean_up_from[n] \in np - nm .. np - 1 /\ clean_up_from[n] \notin Gap
        BY <1>2, <1>7, CleanUpLists
      <3>2. clean_up_from[n] \in 0 .. np - 1 BY <1>4, <3>1
      <3> QED BY <1>4, <3>1, <3>2
    <2>2. \A m \in Iteration :
             /\ at'[m] \in {"ready", "loaded", "done"}
             /\ m >= from_count => at'[m] = "done"
             /\ at'[m] = "loaded" => held'[m] = Old(clean_up_from[m])
             /\ m < from_count /\ at'[m] = "done" => particles[clean_up_to[m]] = Old(clean_up_from[m])
      <3>1. ~(n >= from_count) BY <1>4, <1>6, <1>7
      <3> QED BY <1>3, <1>6, <1>10, <2>1, <3>1
    <2>3. CleanUpOK' BY <1>2, <1>5, <1>6, <1>10, <2>2 DEF CleanUpOK
    <2>4. StayOK' BY <1>2, <1>5, <1>10 DEF KernelInvariant, StayOK
    <2> QED BY <1>1, <1>8, <1>9, <2>3, <2>4 DEF KernelInvariant
  <1>11. CASE /\ at[n] = "loaded" /\ UNCHANGED held
              /\ particles' = [particles EXCEPT ![clean_up_to[n]] = held[n]]
              /\ at' = [at EXCEPT ![n] = "done"]
    <2>1. /\ clean_up_to[n] \in 0 .. np - nm - 1 /\ clean_up_to[n] \in Gap
          /\ \A m \in DirectSet : WriteTo(m) # clean_up_to[n]
          /\ \A m \in 0 .. from_count - 1 : clean_up_to[m] = clean_up_to[n] => m = n
      BY <1>2, <1>7, CleanUpLists
    <2>2. clean_up_to[n] \in Slot BY <1>4, <2>1
    <2>3. \A m \in DirectSet : particles'[WriteTo(m)] = Old(PullFrom(m))
      BY <1>6, <1>11, <2>1
    <2>4. \A m \in Iteration :
             /\ at'[m] \in {"ready", "loaded", "done"}
             /\ m >= from_count => at'[m] = "done"
             /\ at'[m] = "loaded" => held[m] = Old(clean_up_from[m])
      BY <1>3, <1>6, <1>11
    <2>5. ASSUME NEW m \in Iteration, m < from_count, at'[m] = "done"
          PROVE  particles'[clean_up_to[m]] = Old(clean_up_from[m])
      <3>1. CASE m = n BY <1>2, <1>3, <1>6, <1>11, <2>2, <3>1
      <3>2. CASE m # n
        <4>1. m \in 0 .. from_count - 1 BY <1>4, <1>6, <2>5, SizeAssumption DEF Iteration
        <4>2. at[m] = "done" BY <1>3, <1>11, <2>5, <3>2
        <4>3. clean_up_to[m] # clean_up_to[n] BY <2>1, <3>2, <4>1
        <4> QED BY <1>6, <1>11, <2>5, <4>2, <4>3
      <3> QED BY <3>1, <3>2
    <2>6. CleanUpOK' BY <1>2, <1>5, <1>6, <1>11, <2>3, <2>4, <2>5 DEF CleanUpOK
    <2>7. StayOK'
      <3>1. \A i \in 0 .. np - 1 : i \notin Gap => particles'[i] = particles[i]
        BY <1>11, <2>1
      <3> QED BY <1>2, <1>5, <3>1 DEF KernelInvariant, StayOK
    <2> QED BY <1>1, <1>8, <1>9, <2>6, <2>7 DEF KernelInvariant
  <1> QED BY <1>10, <1>11 DEF CleanUp

LEMMA KernelCleanUpEnds == KernelInvariant /\ CleanUpEnds => KernelInvariant'
  <1> SUFFICES ASSUME KernelInvariant, CleanUpEnds PROVE KernelInvariant' OBVIOUS
  <1>1. ListInvariant' BY ListNext DEF KernelInvariant, Next
  <1>2. /\ phase = "clean_up" /\ phase' = "append" /\ \A n \in Iteration : at[n] = "done"
        /\ UNCHANGED <<np, nm, pm, particles, unsafe_index, clean_up_from, clean_up_to,
                       from_count, to_count>>
        /\ at' = [n \in Iteration |-> IF n < 0 THEN "ready" ELSE "done"]
        /\ reg' = [n \in Iteration |-> 0] /\ held' = [n \in Iteration |-> None]
    BY DEF CleanUpEnds, Launch, listVars, cleanVars, KernelEnded
  <1>3. /\ Gap' = Gap /\ Sources' = Sources /\ Targets' = Targets /\ DirectSet' = DirectSet
        /\ \A m : PullFrom(m)' = PullFrom(m) /\ WriteTo(m)' = WriteTo(m)
    BY <1>2, KindsKept
  <1>4. ArrayOK' BY <1>2 DEF KernelInvariant, ArrayOK
  <1>5. StayOK' BY <1>2, <1>3 DEF KernelInvariant, StayOK
  <1>6. MarkOK' /\ FillOK' BY <1>2, <1>3 DEF KernelInvariant, MarkOK, FillOK
  <1>7. CleanUpOK'
    <2>1. from_count \in Nat /\ 0 .. from_count - 1 \subseteq Iteration
      BY <1>2, CleanUpLists
    <2>2. \A n \in 0 .. from_count - 1 : particles[clean_up_to[n]] = Old(clean_up_from[n])
      BY <1>2, <2>1 DEF KernelInvariant, CleanUpOK
    <2> QED BY <1>2, <1>3, <2>2 DEF KernelInvariant, CleanUpOK
  <1> QED BY <1>1, <1>4, <1>5, <1>6, <1>7 DEF KernelInvariant

LEMMA KernelAppend == KernelInvariant /\ Append => KernelInvariant'
  <1> SUFFICES ASSUME KernelInvariant, Append PROVE KernelInvariant' OBVIOUS
  <1>1. ListInvariant' BY ListAppend DEF KernelInvariant
  <1>2. /\ phase' = "advance" /\ DOMAIN particles' = Slot
        /\ UNCHANGED <<unsafe_index, clean_up_from, clean_up_to, at, reg, held>>
    BY DEF Append, cleanVars
  <1>3. ArrayOK' BY <1>2 DEF KernelInvariant, ArrayOK
  <1>4. StayOK' /\ MarkOK' /\ FillOK' /\ CleanUpOK'
    BY <1>2 DEF StayOK, MarkOK, FillOK, CleanUpOK
  <1> QED BY <1>1, <1>3, <1>4 DEF KernelInvariant

LEMMA KernelNext == KernelInvariant /\ [Next]_vars => KernelInvariant'
  <1> SUFFICES ASSUME KernelInvariant, [Next]_vars PROVE KernelInvariant' OBVIOUS
  <1>1. ListInvariant' BY ListNext DEF KernelInvariant
  <1>2. CASE AdvanceP BY <1>2, KernelAdvanceP
  <1>3. ASSUME NEW i \in DOMAIN moving, LookForRoom(i) \/ TakePlace(i) \/ StoreMover(i)
        PROVE  KernelInvariant'
    BY <1>1, <1>3, KernelPush DEF LookForRoom, TakePlace, StoreMover
  <1>4. CASE PushEnds BY <1>1, <1>4, KernelPush DEF PushEnds
  <1>5. CASE Reset BY <1>5, KernelReset
  <1>6. ASSUME NEW n \in Iteration, Mark(n) \/ Fill(n) \/ FillStores(n) \/ CleanUp(n)
        PROVE  KernelInvariant'
    BY <1>6, KernelMark, KernelFill, KernelFillStores, KernelCleanUp
  <1>7. CASE MarkEnds \/ FillEnds \/ CleanUpEnds
    BY <1>7, KernelMarkEnds, KernelFillEnds, KernelCleanUpEnds
  <1>8. CASE Append BY <1>8, KernelAppend
  <1>9. CASE UNCHANGED vars
    <2>1. UNCHANGED <<phase, np, nm, pm, particles, unsafe_index, clean_up_from, clean_up_to,
                     from_count, to_count, at, reg, held>>
      BY <1>9 DEF vars, listVars, cleanVars
    <2>2. /\ Gap' = Gap /\ Sources' = Sources /\ Targets' = Targets
          /\ FromSet' = FromSet /\ ToSet' = ToSet /\ DirectSet' = DirectSet
          /\ \A m : PullFrom(m)' = PullFrom(m) /\ WriteTo(m)' = WriteTo(m)
          /\ Started(FromSet)' = Started(FromSet) /\ Started(ToSet)' = Started(ToSet)
      BY <2>1, KindsKept DEF Started
    <2>3. ArrayOK' /\ StayOK' BY <2>1, <2>2 DEF KernelInvariant, ArrayOK, StayOK
    <2>4. MarkOK' BY <2>1, <2>2 DEF KernelInvariant, MarkOK, CutOff, Reverse
    <2>5. FillOK' BY <2>1, <2>2 DEF KernelInvariant, FillOK
    <2>6. CleanUpOK' BY <2>1, <2>2 DEF KernelInvariant, CleanUpOK
    <2> QED BY <1>1, <2>3, <2>4, <2>5, <2>6 DEF KernelInvariant
  <1> QED BY <1>2, <1>3, <1>4, <1>5, <1>6, <1>7, <1>8, <1>9 DEF Next, Stop

THEOREM KernelAlways == Spec => []KernelInvariant
  BY KernelInit, KernelNext, PTL DEF Spec

(* CleanUpBalanced: the third kernel may take its size from the sources    *)
(* alone, as compress does.                                                *)
THEOREM CleanUpAlwaysBalanced == Spec => []CleanUpBalanced
  <1>1. KernelInvariant => CleanUpBalanced
    BY DEF CleanUpBalanced, KernelInvariant, CleanUpOK
  <1> QED BY <1>1, KernelAlways, PTL

(* RaceFree: the answer to the question compress asks in a comment: the    *)
(* iterations of a kernel may run in any order and at the same time.       *)
THEOREM NeverRaces == Spec => []RaceFree
  <1>1. KernelInvariant => RaceFree
    <2> SUFFICES ASSUME KernelInvariant, NEW n \in Iteration, NEW k \in Iteration, n # k,
                        Active(n), Active(k)
                 PROVE  Writes(n) # Reads(k) /\ Writes(n) # Writes(k)
      BY DEF RaceFree
    <2>1. CASE phase = "fill"
      <3>1. /\ np \in Nat /\ nm \in Nat
            /\ \A m \in 0 .. nm - 1 : /\ WriteTo(m) \in 0 .. np - 1
                                      /\ PullFrom(m) \in np - nm .. np - 1
                                      /\ m \in DirectSet => WriteTo(m) < np - nm
            /\ \A l, m \in 0 .. nm - 1 : WriteTo(l) = WriteTo(m) => l = m
        BY <2>1, Compaction
      <3>2. n \in DirectSet /\ k \in DirectSet /\ n \in 0 .. nm - 1 /\ k \in 0 .. nm - 1
        BY <2>1, <3>1, SizeAssumption DEF Active, DirectSet, Iteration
      <3>3. WriteTo(n) # PullFrom(k) /\ WriteTo(n) # WriteTo(k) BY <3>1, <3>2
      <3> QED BY <2>1, <3>3 DEF Reads, Writes
    <2>2. CASE phase = "clean_up"
      <3>1. from_count \in Nat /\ np \in Nat /\ nm \in Nat BY <2>2, CleanUpLists, Compaction
      <3>2. n \in 0 .. from_count - 1 /\ k \in 0 .. from_count - 1
        BY <2>2, <3>1, SizeAssumption DEF Active, Iteration
      <3>3. /\ clean_up_to[n] \in 0 .. np - nm - 1
            /\ clean_up_from[k] \in np - nm .. np - 1
            /\ clean_up_to[n] # clean_up_to[k]
        BY <2>2, <3>2, CleanUpLists
      <3>4. clean_up_to[n] # clean_up_from[k] BY <3>1, <3>3
      <3> QED BY <2>2, <3>3, <3>4 DEF Reads, Writes
    <2> QED BY <2>1, <2>2 DEF Active
  <1> QED BY <1>1, KernelAlways, PTL

(* Where the particle of a kept slot comes from: the slot itself, or one   *)
(* of the last nm slots.                                                   *)
LEMMA KeptSlot ==
  ASSUME KernelInvariant, phase = "append", NEW i \in 0 .. np - nm - 1
  PROVE  \/ i \notin Gap /\ particles[i] = Old(i)
         \/ \E n \in DirectSet : i = WriteTo(n) /\ particles[i] = Old(PullFrom(n))
         \/ \E k \in 0 .. from_count - 1 :
              i = clean_up_to[k] /\ particles[i] = Old(clean_up_from[k])
  <1>1. np \in Nat /\ nm \in Nat /\ i \in 0 .. np - 1 BY Compaction
  <1>2. CASE i \notin Gap BY <1>1, <1>2, Compaction
  <1>3. CASE i \in Gap
    <2>1. PICK n \in 0 .. nm - 1 : i = WriteTo(n) BY <1>3, Compaction
    <2>2. WriteTo(n) < np - nm BY <1>1, <2>1
    <2>3. n \in DirectSet \/ n \in ToSet BY <2>2, Compaction
    <2>4. CASE n \in DirectSet BY <2>1, <2>4 DEF KernelInvariant, CleanUpOK
    <2>5. CASE n \in ToSet
      <3>1. PICK k \in 0 .. from_count - 1 : clean_up_to[k] = WriteTo(n)
        BY <2>5 DEF KernelInvariant, CleanUpOK, Lists, Targets
      <3> QED BY <2>1, <3>1 DEF KernelInvariant, CleanUpOK
    <2> QED BY <2>3, <2>4, <2>5
  <1> QED BY <1>2, <1>3

(* Where the particle of a slot that is no gap goes.                       *)
LEMMA KeptParticle ==
  ASSUME KernelInvariant, phase = "append", NEW j \in 0 .. np - 1, j \notin Gap
  PROVE  \E i \in 0 .. np - nm - 1 : particles[i] = Old(j)
  <1>1. np \in Nat /\ nm \in Nat /\ nm <= np BY Compaction
  <1>2. CASE j < np - nm
    <2>1. j \in 0 .. np - nm - 1 /\ particles[j] = Old(j) BY <1>1, <1>2, Compaction
    <2> QED BY <2>1
  <1>3. CASE ~(j < np - nm)
    <2> DEFINE n == np - 1 - j
    <2>1. n \in 0 .. nm - 1 /\ PullFrom(n) = j BY <1>1, <1>3 DEF PullFrom
    <2>2. WriteTo(n) \in 0 .. np - 1 BY <2>1, Compaction
    <2> HIDE DEF n
    <2>3. CASE WriteTo(n) < np - nm
      <3>1. n \in DirectSet BY <2>1, <2>3, Compaction
      <3>2. particles[WriteTo(n)] = Old(j) BY <2>1, <3>1 DEF KernelInvariant, CleanUpOK
      <3>3. WriteTo(n) \in 0 .. np - nm - 1 BY <1>1, <2>2, <2>3
      <3> QED BY <3>2, <3>3
    <2>4. CASE WriteTo(n) >= np - nm
      <3>1. n \in FromSet BY <2>1, <2>4, Compaction
      <3>2. PICK k \in 0 .. from_count - 1 : clean_up_from[k] = j
        BY <2>1, <3>1 DEF KernelInvariant, CleanUpOK, Lists, Sources
      <3>3. particles[clean_up_to[k]] = Old(j) BY <3>2 DEF KernelInvariant, CleanUpOK
      <3>4. clean_up_to[k] \in 0 .. np - nm - 1 BY CleanUpLists
      <3> QED BY <3>3, <3>4
    <2> QED BY <1>1, <2>2, <2>3, <2>4
  <1> QED BY <1>2, <1>3

LEMMA OldNames == \A i, j : Old(i) = Old(j) => i = j
  BY DEF Old

(* Compacted: for every list and every set of gaps, compress keeps each    *)
(* particle that stays exactly once in the slots that remain.              *)
THEOREM AlwaysCompacted == Spec => []Compacted
  <1>1. KernelInvariant => Compacted
    <2> SUFFICES ASSUME KernelInvariant, phase = "append"
                 PROVE  /\ {particles[i] : i \in 0 .. np - nm - 1}
                              = {Old(i) : i \in (0 .. np - 1) \ Gap}
                        /\ \A i, j \in 0 .. np - nm - 1 : particles[i] = particles[j] => i = j
      BY DEF Compacted
    <2>1. /\ np \in Nat /\ nm \in Nat /\ nm <= np
          /\ \A n \in DirectSet : PullFrom(n) \in np - nm .. np - 1 /\ PullFrom(n) \notin Gap
          /\ \A m, n \in DirectSet : PullFrom(m) = PullFrom(n) => m = n
      <3>1. np \in Nat /\ nm \in Nat /\ nm <= np /\ DirectSet \subseteq 0 .. nm - 1
            /\ \A n \in 0 .. nm - 1 : /\ PullFrom(n) \in np - nm .. np - 1
                                      /\ n \in DirectSet => PullFrom(n) \notin Gap
        BY Compaction
      <3> QED BY <3>1 DEF PullFrom
    <2>2. ASSUME NEW i \in 0 .. np - nm - 1
          PROVE  \E j \in (0 .. np - 1) \ Gap : particles[i] = Old(j)
      <3>1. CASE i \notin Gap /\ particles[i] = Old(i) BY <2>1, <3>1
      <3>2. CASE \E n \in DirectSet : i = WriteTo(n) /\ particles[i] = Old(PullFrom(n))
        BY <2>1, <3>2
      <3>3. CASE \E k \in 0 .. from_count - 1 :
                   i = clean_up_to[k] /\ particles[i] = Old(clean_up_from[k])
        BY <2>1, <3>3, CleanUpLists
      <3> QED BY <3>1, <3>2, <3>3, KeptSlot
    <2>3. \A j \in (0 .. np - 1) \ Gap : \E i \in 0 .. np - nm - 1 : particles[i] = Old(j)
      BY KeptParticle
    <2>4. ASSUME NEW i \in 0 .. np - nm - 1, NEW j \in 0 .. np - nm - 1,
                 particles[i] = particles[j]
          PROVE  i = j
      <3>1. \A k \in 0 .. from_count - 1 :
              /\ clean_up_from[k] \in np - nm .. np - 1
              /\ \A n \in DirectSet : PullFrom(n) # clean_up_from[k]
        BY CleanUpLists
      <3>2. \A k, l \in 0 .. from_count - 1 : clean_up_from[k] = clean_up_from[l] => k = l
        BY CleanUpLists
      <3>3. \A l \in 0 .. np - nm - 1 : l \notin np - nm .. np - 1 BY <2>1
      <3>4. CASE particles[i] = Old(i)
        <4>1. CASE particles[j] = Old(j) BY <2>4, <3>4, <4>1, OldNames
        <4>2. CASE \E n \in DirectSet : particles[j] = Old(PullFrom(n))
          BY <2>1, <2>4, <3>3, <3>4, <4>2, OldNames
        <4>3. CASE \E k \in 0 .. from_count - 1 : particles[j] = Old(clean_up_from[k])
          BY <2>4, <3>1, <3>3, <3>4, <4>3, OldNames
        <4> QED BY <4>1, <4>2, <4>3, KeptSlot
      <3>5. ASSUME NEW n \in DirectSet, i = WriteTo(n), particles[i] = Old(PullFrom(n))
            PROVE  i = j
        <4>1. CASE particles[j] = Old(j) BY <2>1, <2>4, <3>3, <3>5, <4>1, OldNames
        <4>2. CASE \E m \in DirectSet : j = WriteTo(m) /\ particles[j] = Old(PullFrom(m))
          BY <2>1, <2>4, <3>5, <4>2, OldNames
        <4>3. CASE \E k \in 0 .. from_count - 1 : particles[j] = Old(clean_up_from[k])
          BY <2>4, <3>1, <3>5, <4>3, OldNames
        <4> QED BY <4>1, <4>2, <4>3, KeptSlot
      <3>6. ASSUME NEW k \in 0 .. from_count - 1,
                   i = clean_up_to[k], particles[i] = Old(clean_up_from[k])
            PROVE  i = j
        <4>1. CASE particles[j] = Old(j) BY <2>4, <3>1, <3>3, <3>6, <4>1, OldNames
        <4>2. CASE \E n \in DirectSet : particles[j] = Old(PullFrom(n))
          BY <2>4, <3>1, <3>6, <4>2, OldNames
        <4>3. CASE \E l \in 0 .. from_count - 1 :
                     j = clean_up_to[l] /\ particles[j] = Old(clean_up_from[l])
          BY <2>4, <3>2, <3>6, <4>3, OldNames
        <4> QED BY <4>1, <4>2, <4>3, KeptSlot
      <3> QED BY <3>4, <3>5, <3>6, KeptSlot
    <2> QED BY <2>2, <2>3, <2>4
  <1> QED BY <1>1, KernelAlways, PTL

(* StayersUntouched: only gaps and the last nm slots are ever written.     *)
THEOREM StayersAlwaysUntouched == Spec => StayersUntouched
  <1>1. KernelInvariant /\ [Next]_vars =>
          [phase # "advance" =>
             \A i \in 0 .. np - nm - 1 : i \notin Gap => particles'[i] = particles[i]]_vars
    <2> SUFFICES ASSUME KernelInvariant, Next, phase # "advance",
                        NEW i \in 0 .. np - nm - 1, i \notin Gap
                 PROVE  particles'[i] = particles[i]
      OBVIOUS
    <2>1. CASE UNCHANGED particles BY <2>1
    <2>2. ASSUME NEW n \in Iteration, FillStores(n) PROVE particles'[i] = particles[i]
      <3>1. CASE at[n] = "loaded" /\ particles' = [particles EXCEPT ![WriteTo(n)] = held[n]]
        <4>1. phase = "fill" BY <2>2 DEF FillStores
        <4>2. n \in DirectSet BY <3>1, <4>1 DEF KernelInvariant, FillOK
        <4>3. WriteTo(n) \in Gap BY <4>1, <4>2, Compaction
        <4> QED BY <3>1, <4>3
      <3> QED BY <2>1, <2>2, <3>1 DEF FillStores
    <2>3. ASSUME NEW n \in Iteration, CleanUp(n) PROVE particles'[i] = particles[i]
      <3>1. CASE at[n] = "loaded" /\ particles' = [particles EXCEPT ![clean_up_to[n]] = held[n]]
        <4>1. phase = "clean_up" BY <2>3 DEF CleanUp
        <4>2. from_count \in Nat BY <4>1, CleanUpLists
        <4>3. ~(n >= from_count) BY <3>1, <4>1 DEF KernelInvariant, CleanUpOK
        <4>4. n \in 0 .. from_count - 1 BY <4>2, <4>3, SizeAssumption DEF Iteration
        <4>5. clean_up_to[n] \in Gap BY <4>1, <4>4, CleanUpLists
        <4> QED BY <3>1, <4>5
      <3> QED BY <2>1, <2>3, <3>1 DEF CleanUp
    <2>4. CASE Append
      <3>1. phase = "append" BY <2>4 DEF Append
      <3>2. np \in Nat /\ nm \in Nat /\ nm <= np /\ 0 .. np - 1 \subseteq Slot
        BY <3>1, Compaction
      <3>3. i \in Slot /\ ~(np - nm <= i) BY <3>2
      <3>4. num_to_copy \in Nat
        BY <3>1 DEF KernelInvariant, ListInvariant, PhaseOK, Compressing
      <3>5. i \notin Remaining .. Remaining + num_to_copy - 1 BY <3>2, <3>3, <3>4 DEF Remaining
      <3> QED BY <2>4, <3>3, <3>5 DEF Append
    <2>5. CASE AdvanceP BY <2>5 DEF AdvanceP
    <2>6. ASSUME NEW j \in DOMAIN moving, LookForRoom(j) \/ TakePlace(j) \/ StoreMover(j)
          PROVE  particles'[i] = particles[i]
      BY <2>6 DEF LookForRoom, TakePlace, StoreMover
    <2>7. ASSUME NEW n \in Iteration, Mark(n) \/ Fill(n) PROVE particles'[i] = particles[i]
      BY <2>7 DEF Mark, Fill
    <2>8. CASE PushEnds \/ Reset \/ MarkEnds \/ FillEnds \/ CleanUpEnds \/ Stop
      BY <2>8 DEF PushEnds, Reset, MarkEnds, FillEnds, CleanUpEnds, Stop, vars
    <2> QED BY <2>2, <2>3, <2>4, <2>5, <2>6, <2>7, <2>8 DEF Next
  <1> QED BY <1>1, KernelAlways, PTL DEF Spec, StayersUntouched

(***************************************************************************)
(* Types.                                                                  *)
(***************************************************************************)
(* There are no more movers than particles, even while some are not yet    *)
(* stored.                                                                 *)
LEMMA MoversBounded == ListInvariant => nm <= np
  <1> SUFFICES ASSUME ListInvariant PROVE nm <= np OBVIOUS
  <1> DEFINE mover(k) == IF k \in DOMAIN pm THEN pm[k]
                         ELSE CHOOSE i \in DOMAIN moving : moving[i] = Place(k)
             f == [k \in 0 .. nm - 1 |-> mover(k)]
  <1>1. nm \in Nat /\ np \in Nat /\ leaving \subseteq 0 .. np - 1
    BY DEF ListInvariant, SizeOK
  <1>2. ASSUME NEW k \in 0 .. nm - 1
        PROVE  \/ k \in DOMAIN pm /\ f[k] = pm[k] /\ f[k] \in Gap
               \/ k \notin DOMAIN pm /\ f[k] \in DOMAIN moving /\ moving[f[k]] = Place(k)
    <2>1. CASE k \in DOMAIN pm BY <2>1 DEF Gap
    <2>2. CASE k \notin DOMAIN pm
      <3>1. \E i \in DOMAIN moving : moving[i] = Place(k)
        BY <2>2 DEF ListInvariant, NothingLost
      <3> QED BY <2>2, <3>1
    <2> QED BY <2>1, <2>2
  <1>3. /\ Gap \subseteq leaving /\ DOMAIN moving \subseteq leaving \ Gap /\ Distinct(pm)
    BY DEF ListInvariant, StoredOK, RunningOK, Gap
  <1> HIDE DEF f
  <1>4. \A k \in 0 .. nm - 1 : f[k] \in 0 .. np - 1 BY <1>1, <1>2, <1>3
  <1>5. ASSUME NEW j \in 0 .. nm - 1, NEW k \in 0 .. nm - 1, f[j] = f[k] PROVE j = k
    <2>1. j \in DOMAIN pm <=> k \in DOMAIN pm BY <1>2, <1>3, <1>5
    <2>2. CASE j \in DOMAIN pm /\ k \in DOMAIN pm
      BY <1>2, <1>3, <1>5, <2>2 DEF Distinct
    <2>3. CASE j \notin DOMAIN pm /\ k \notin DOMAIN pm
      BY <1>2, <1>5, <2>3, StatesDiffer
    <2> QED BY <2>1, <2>2, <2>3
  <1>6. f \in Injection(0 .. nm - 1, 0 .. np - 1)
    <2>1. f = [k \in 0 .. nm - 1 |-> f[k]] BY DEF f
    <2>2. f \in [0 .. nm - 1 -> 0 .. np - 1] BY <1>4, <2>1
    <2>3. DOMAIN f = 0 .. nm - 1 BY <2>1
    <2> QED BY <1>5, <2>2, <2>3 DEF Injection, IsInjective
  <1>7. 0 \in Int /\ np - 1 \in Int /\ nm - 1 \in Int BY <1>1
  <1>8. IsFiniteSet(0 .. np - 1) /\ Cardinality(0 .. np - 1) = np BY <1>1, <1>7, FS_Interval
  <1>9. Cardinality(0 .. nm - 1) = nm BY <1>1, <1>7, FS_Interval
  <1> QED BY <1>6, <1>8, <1>9, FS_Injection

KernelType ==
  /\ step \in 0 .. MaxStep
  /\ phase # "advance" => step < MaxStep
  /\ num_to_copy \in 0 .. MaxNm
  /\ particles \in [Slot -> Name]
  /\ clean_up_from \in [Iteration -> Nat] /\ clean_up_to \in [Iteration -> Nat]
  /\ from_count \in 0 .. MaxNm /\ to_count \in 0 .. MaxNm
  /\ at \in [Iteration -> At] /\ reg \in [Iteration -> Nat] /\ held \in [Iteration -> Name]

(* The clean-up counters stay within the arrays.                           *)
LEMMA CountsBounded ==
  ASSUME KernelInvariant, KernelType, NEW n \in Iteration, Fill(n)
  PROVE  from_count' \in 0 .. MaxNm /\ to_count' \in 0 .. MaxNm
  <1>1. phase = "fill" /\ at[n] = "ready" BY DEF Fill
  <1>2. /\ nm \in Nat /\ nm <= MaxNm
        /\ FromSet \subseteq 0 .. nm - 1 /\ ToSet \subseteq 0 .. nm - 1
    BY <1>1, Compaction
  <1>3. /\ from_count \in Nat /\ Numbered(Started(FromSet), from_count, reg)
        /\ to_count \in Nat /\ Numbered(Started(ToSet), to_count, reg)
        /\ ~(n >= nm) /\ DOMAIN reg = Iteration
    BY <1>1 DEF KernelInvariant, FillOK, ArrayOK
  <1>4. n \in 0 .. nm - 1 BY <1>2, <1>3, SizeAssumption DEF Iteration
  <1>5. n \notin Started(FromSet) /\ n \notin Started(ToSet) BY <1>1 DEF Started
  <1>6. from_count + 1 <= nm \/ n \notin FromSet
    <2> DEFINE s == [reg EXCEPT ![n] = from_count]
    <2>1. s[n] = from_count /\ \A m \in Started(FromSet) : s[m] = reg[m] BY <1>3, <1>5
    <2> HIDE DEF s
    <2>2. Numbered(Started(FromSet) \cup {n}, from_count + 1, s)
      BY <1>3, <1>5, <2>1, NumberNext
    <2>3. Started(FromSet) \cup {n} \subseteq 0 .. nm - 1 BY <1>2, <1>4 DEF Started
    <2>4. from_count + 1 \in Nat BY <1>3
    <2> QED BY <1>2, <2>2, <2>3, <2>4, NumberedCount
  <1>7. to_count + 1 <= nm \/ n \notin ToSet
    <2> DEFINE s == [reg EXCEPT ![n] = to_count]
    <2>1. s[n] = to_count /\ \A m \in Started(ToSet) : s[m] = reg[m] BY <1>3, <1>5
    <2> HIDE DEF s
    <2>2. Numbered(Started(ToSet) \cup {n}, to_count + 1, s)
      BY <1>3, <1>5, <2>1, NumberNext
    <2>3. Started(ToSet) \cup {n} \subseteq 0 .. nm - 1 BY <1>2, <1>4 DEF Started
    <2>4. to_count + 1 \in Nat BY <1>3
    <2> QED BY <1>2, <2>2, <2>3, <2>4, NumberedCount
  <1>8. /\ from_count' = from_count \/ (n \in FromSet /\ from_count' = from_count + 1)
        /\ to_count' = to_count \/ (n \in ToSet /\ to_count' = to_count + 1)
    BY <1>4 DEF Fill, FromSet, ToSet
  <1> QED BY <1>2, <1>3, <1>6, <1>7, <1>8, SizeAssumption DEF KernelType

LEMMA TypeNext == KernelInvariant /\ KernelType /\ [Next]_vars => KernelType'
  <1> SUFFICES ASSUME KernelInvariant, KernelType, [Next]_vars PROVE KernelType' OBVIOUS
  <1>1. ASSUME UNCHANGED <<step, particles, cleanVars, at, reg, held>>,
               num_to_copy' \in 0 .. MaxNm, phase # "advance" \/ phase' = phase
        PROVE  KernelType'
    BY <1>1 DEF KernelType, cleanVars
  <1>2. CASE AdvanceP
    <2>1. \A i \in Slot : (IF i < np THEN Old(i) ELSE None) \in Name BY DEF Name
    <2>2. particles' \in [Slot -> Name] BY <1>2, <2>1 DEF AdvanceP
    <2> QED BY <1>2, <2>2 DEF AdvanceP, KernelType, cleanVars
  <1>3. ASSUME NEW i \in DOMAIN moving, LookForRoom(i) \/ TakePlace(i) \/ StoreMover(i)
        PROVE  KernelType'
    BY <1>1, <1>3 DEF LookForRoom, TakePlace, StoreMover, KernelType
  <1>4. CASE PushEnds BY <1>1, <1>4 DEF PushEnds
  <1>5. ASSUME NEW next, NEW count, Launch(next, count)
        PROVE  at' \in [Iteration -> At] /\ reg' \in [Iteration -> Nat]
               /\ held' \in [Iteration -> Name]
    <2>1. None \in Name BY DEF Name
    <2> QED BY <1>5, <2>1 DEF Launch, At
  <1>6. CASE Reset
    <2>1. at' \in [Iteration -> At] /\ reg' \in [Iteration -> Nat] /\ held' \in [Iteration -> Name]
      BY <1>5, <1>6 DEF Reset
    <2>2. clean_up_from' \in [Iteration -> Nat] /\ clean_up_to' \in [Iteration -> Nat]
      BY <1>6 DEF Reset, KernelType
    <2> QED BY <1>6, <2>1, <2>2, SizeAssumption DEF Reset, KernelType, listVars, CountCleared
  <1>7. CASE MarkEnds \/ FillEnds \/ CleanUpEnds
    <2>1. at' \in [Iteration -> At] /\ reg' \in [Iteration -> Nat] /\ held' \in [Iteration -> Name]
      BY <1>5, <1>7 DEF MarkEnds, FillEnds, CleanUpEnds
    <2> QED BY <1>7, <2>1 DEF MarkEnds, FillEnds, CleanUpEnds, KernelType, listVars, cleanVars
  <1>8. ASSUME NEW n \in Iteration, Mark(n) PROVE KernelType'
    BY <1>8 DEF Mark, KernelType, listVars, cleanVars, At
  <1>9. ASSUME NEW n \in Iteration, Fill(n) PROVE KernelType'
    <2>1. phase = "fill" BY <1>9 DEF Fill
    <2>2. n \in 0 .. nm - 1
      <3>1. nm \in Nat /\ ~(n >= nm)
        BY <1>9, <2>1, Compaction DEF KernelInvariant, FillOK, Fill
      <3> QED BY <3>1, SizeAssumption DEF Iteration
    <2>3. particles[PullFrom(n)] \in Name
      <3>1. /\ PullFrom(n) \in np - nm .. np - 1 /\ np \in Nat /\ nm \in Nat /\ nm <= np
            /\ 0 .. np - 1 \subseteq Slot
        BY <2>1, <2>2, Compaction
      <3>2. PullFrom(n) \in Slot BY <3>1
      <3> QED BY <3>2 DEF KernelType
    <2>4. at' \in [Iteration -> At] BY <1>9 DEF Fill, KernelType, At
    <2>5. reg' \in [Iteration -> Nat] BY <1>9 DEF Fill, KernelType
    <2>6. held' \in [Iteration -> Name] BY <1>9, <2>3 DEF Fill, KernelType
    <2>7. from_count' \in 0 .. MaxNm /\ to_count' \in 0 .. MaxNm BY <1>9, CountsBounded
    <2> QED BY <1>9, <2>4, <2>5, <2>6, <2>7 DEF Fill, KernelType, listVars
  <1>10. ASSUME NEW n \in Iteration, FillStores(n) PROVE KernelType'
    <2>1. phase = "fill" /\ at[n] \in {"from", "to", "loaded"} BY <1>10 DEF FillStores
    <2>2. n \in 0 .. nm - 1
      <3>1. nm \in Nat /\ ~(n >= nm) BY <2>1, Compaction DEF KernelInvariant, FillOK
      <3> QED BY <3>1, SizeAssumption DEF Iteration
    <2>3. PullFrom(n) \in Nat /\ WriteTo(n) \in Nat
      <3>1. /\ PullFrom(n) \in np - nm .. np - 1 /\ np \in Nat /\ nm \in Nat /\ nm <= np
            /\ WriteTo(n) \in 0 .. np - 1
        BY <2>1, <2>2, Compaction
      <3> QED BY <3>1
    <2>4. clean_up_from' \in [Iteration -> Nat] /\ clean_up_to' \in [Iteration -> Nat]
      BY <1>10, <2>3 DEF FillStores, KernelType
    <2>5. particles' \in [Slot -> Name] BY <1>10 DEF FillStores, KernelType
    <2>6. at' \in [Iteration -> At] BY <1>10 DEF FillStores, KernelType, At
    <2> QED BY <1>10, <2>4, <2>5, <2>6 DEF FillStores, KernelType, listVars
  <1>11. ASSUME NEW n \in Iteration, CleanUp(n) PROVE KernelType'
    <2>1. phase = "clean_up" /\ at[n] \in {"ready", "loaded"} BY <1>11 DEF CleanUp
    <2>2. n \in 0 .. from_count - 1
      <3>1. from_count \in Nat /\ ~(n >= from_count)
        BY <2>1, CleanUpLists DEF KernelInvariant, CleanUpOK
      <3> QED BY <3>1, SizeAssumption DEF Iteration
    <2>3. clean_up_from[n] \in Slot
      <3>1. /\ clean_up_from[n] \in np - nm .. np - 1 /\ np \in Nat /\ nm \in Nat /\ nm <= np
            /\ 0 .. np - 1 \subseteq Slot
        BY <2>1, <2>2, CleanUpLists, Compaction
      <3> QED BY <3>1
    <2>4. held' \in [Iteration -> Name] BY <1>11, <2>3 DEF CleanUp, KernelType
    <2>5. particles' \in [Slot -> Name] BY <1>11 DEF CleanUp, KernelType
    <2>6. at' \in [Iteration -> At] BY <1>11 DEF CleanUp, KernelType, At
    <2> QED BY <1>11, <2>4, <2>5, <2>6 DEF CleanUp, KernelType, listVars, cleanVars
  <1>12. CASE Append
    <2>1. np \in Nat /\ nm \in Nat BY DEF KernelInvariant, ListInvariant, SizeOK
    <2>2. \A i \in Remaining .. Remaining + num_to_copy - 1 : New(i - Remaining) \in Name
      <3>1. \A i \in Remaining .. Remaining + num_to_copy - 1 : i - Remaining \in Iteration
        BY <2>1, SizeAssumption DEF Remaining, KernelType, Iteration
      <3>2. \A k \in Iteration : New(k) \in Name BY DEF Name
      <3> QED BY <3>1, <3>2
    <2>3. particles' \in [Slot -> Name] BY <1>12, <2>2 DEF Append, KernelType
    <2>4. step' \in 0 .. MaxStep BY <1>12, SizeAssumption DEF Append, KernelType
    <2> QED BY <1>12, <2>3, <2>4, SizeAssumption DEF Append, KernelType, cleanVars
  <1>13. CASE UNCHANGED vars BY <1>1, <1>13 DEF vars, listVars, KernelType
  <1> QED BY <1>2, <1>3, <1>4, <1>6, <1>7, <1>8, <1>9, <1>10, <1>11, <1>12, <1>13
          DEF Next, Stop

(* TypeOK: in particular no kernel indexes an array beyond its size, and   *)
(* there are never more movers than particles.                             *)
THEOREM TypeCorrect == Spec => []TypeOK
  <1>1. Init => KernelType
    <2> SUFFICES ASSUME Init PROVE KernelType OBVIOUS
    <2>1. None \in Name BY DEF Name
    <2>2. particles \in [Slot -> Name] /\ held \in [Iteration -> Name] BY <2>1 DEF Init
    <2>3. at \in [Iteration -> At] BY DEF Init, At
    <2>4. reg \in [Iteration -> Nat] BY DEF Init
    <2>5. clean_up_from \in [Iteration -> Nat] /\ clean_up_to \in [Iteration -> Nat] BY DEF Init
    <2>6. step \in 0 .. MaxStep /\ num_to_copy \in 0 .. MaxNm
          /\ from_count \in 0 .. MaxNm /\ to_count \in 0 .. MaxNm /\ phase = "advance"
      BY SizeAssumption DEF Init
    <2> QED BY <2>2, <2>3, <2>4, <2>5, <2>6 DEF KernelType
  <1>2. KernelInvariant /\ KernelType => TypeOK
    <2> SUFFICES ASSUME KernelInvariant, KernelType PROVE TypeOK OBVIOUS
    <2>1. phase \in Phase
      BY DEF KernelInvariant, ListInvariant, PhaseOK, Compressing, Phase
    <2>2. np \in 0 .. MaxNp /\ nm \in 0 .. MaxNm /\ leaving \subseteq 0 .. np - 1
      BY SizeAssumption DEF KernelInvariant, ListInvariant, SizeOK
    <2>3. nm <= np BY MoversBounded DEF KernelInvariant
    <2>4. DOMAIN pm \subseteq 0 .. nm - 1 /\ Range(pm) \subseteq leaving
      BY DEF KernelInvariant, ListInvariant, StoredOK, Range
    <2>5. /\ DOMAIN moving \subseteq leaving
          /\ Range(moving) \subseteq {Crosses, HasRoom} \cup {Place(k) : k \in 0 .. nm - 1}
      BY DEF KernelInvariant, ListInvariant, RunningOK, Range
    <2>6. unsafe_index \in [0 .. 2*MaxNm - 1 -> BOOLEAN] BY DEF KernelInvariant, ArrayOK
    <2> QED BY <2>1, <2>2, <2>3, <2>4, <2>5, <2>6 DEF KernelType, TypeOK
  <1> QED BY <1>1, <1>2, KernelInit, KernelNext, TypeNext, PTL DEF Spec
=============================================================================
