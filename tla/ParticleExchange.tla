------------------------- MODULE ParticleExchange --------------------------
(***************************************************************************)
(* The particle half of a time step, on every rank at once.                *)
(*                                                                         *)
(* advance_p pushes the local particles and puts each particle that hits a *)
(* face it cannot handle on the guard list (the mover list).  Then         *)
(* boundary_p_kokkos runs num_comm_round times.  Each call empties the     *)
(* guard list: a particle is absorbed into rhob, dropped with a warning,   *)
(* or packed for the neighbour behind its face.  Neighbours exchange first *)
(* the number of packed particles and then the particles, over the same    *)
(* ports and with the same tags.  move_p takes each received particle      *)
(* further; it comes to rest or joins the guard list of the next round.    *)
(* When all rounds are done the particle list is compressed, which removes *)
(* the particles that advance_p put on the guard list, and the received    *)
(* ones are appended.                                                      *)
(*                                                                         *)
(* Positions and momenta are abstracted to the faces a particle hits.  The *)
(* Courant condition of the field solver bounds a step's displacement by   *)
(* one cell per axis, so a particle crosses at most one face per axis.     *)
(***************************************************************************)
EXTENDS Integers, FiniteSets

CONSTANTS
  WorldSize,     \* world_size, the number of ranks
  Dim,           \* the number of axes that are decomposed or bounded (3 in the code)
  Particle,      \* the computational particles of one species
  bc,            \* bc[r][f]: g->bc and g->neighbor behind face f of rank r
  NumCommRound,  \* num_comm_round
  NumStep        \* num_step

Rank == 0 .. WorldSize - 1

\* Faces are numbered as in f2b: the low faces of the axes, then the high ones.
Face == 0 .. 2*Dim - 1
Axis == 0 .. Dim - 1
AxisOfFace(f) == f
AxisOf(f) == IF f < Dim THEN f ELSE f - Dim
Opposite(f) == IF f < Dim THEN f + Dim ELSE f - Dim

Reflect == -1    \* reflect_particles
Absorb == -2     \* absorb_particles
Custom == -3     \* a particle_bc id; boundary_p_kokkos no longer handles these

\* Behind a face is another domain, the domain itself (periodic and not
\* decomposed) or a particle boundary condition.  Seen from the other side, a
\* shared face is the opposite face.
ASSUME DomainAssumption ==
  /\ WorldSize \in Nat \ {0}
  /\ Dim \in Nat \ {0}
  /\ NumCommRound \in Nat
  /\ NumStep \in Nat \ {0}   \* with num_step = 0 the program never stops
  /\ bc \in [Rank -> [Face -> Rank \cup {Reflect, Absorb, Custom}]]
  /\ \A r \in Rank : \A f \in Face :
       bc[r][f] \in Rank => bc[bc[r][f]][Opposite(f)] = r

ASSUME ParticleAssumption == IsFiniteSet(Particle)

\* shared[face] of boundary_p_kokkos: the face of another rank's domain.
SharedUpwards(r) == {f \in Face : bc[r][f] > r}
Shared(r) == {f \in Face : bc[r][f] \in Rank \ {r}}

VARIABLES
  pc,        \* pc[r]: where rank r is in the step
  todo,      \* todo[r]: the shared faces the current loop has still to visit
  step,      \* step[r]: completed time steps
  round,     \* round[r]: completed communication rounds of this step
  epoch,     \* epoch[r]: completed communication rounds of the whole run
  parts,     \* parts[r]: the device particle list k_p_d[0..np-1]
  holes,     \* holes[r]: the particles k_pm_i_d points at
  movers,    \* movers[r]: <<p, f>> pairs, the guard list pm[0..nm-1] with k_pc_h
  hops,      \* hops[p]: the axes p has crossed in this step
  recvd,     \* recvd[r]: k_pr_h[0..num_to_copy-1], received and at rest
  dropped,   \* particles dropped as "Unknown boundary interaction"
  absorbed,  \* absorbed[r]: the current call absorbed a particle
  accum,     \* accum[r][p]: times p is in k_f_rhob_accum_h
  rhob,      \* rhob[r][p]: times the charge of p was added to rhob on the device
  sbuf,      \* sbuf[r][f]: the injectors in the send buffer of port f2b[f]
  rbuf,      \* rbuf[r][f]: the injectors in the receive buffer of port f2b[f]
  n_recv,    \* n_recv[r][f]: the count received on port f2b[f]
  sreq,      \* sreq[r][f]: the send request of port f2b[f]
  rreq       \* rreq[r][f]: the receive request of port f2b[f]

portVars == <<sbuf, rbuf, n_recv, sreq, rreq>>
chargeVars == <<absorbed, accum, rhob>>
listVars == <<parts, holes, movers, hops, recvd, dropped>>
clockVars == <<step, round, epoch>>
vars == <<pc, todo, clockVars, listVars, chargeVars, portVars>>

\* A request is idle, posted for a count or for a payload, or complete: a send
\* was taken by the other side, a receive is full.  A receive whose message has
\* another size than the one posted makes mp_end_recv stop the program.
SendState == {"idle", "cnt", "cnt_taken", "pay", "pay_taken"}
RecvState == {"idle", "cnt", "cnt_full", "pay", "pay_full", "mismatch"}
PC == {"advance", "round", "cnt_recv", "cnt_send", "pay_recv", "pay_send", "update"}

TypeOK ==
  /\ pc \in [Rank -> PC]
  /\ todo \in [Rank -> SUBSET Face]
  /\ step \in [Rank -> Nat]
  /\ round \in [Rank -> Nat]
  /\ epoch \in [Rank -> Nat]
  /\ parts \in [Rank -> SUBSET Particle]
  /\ holes \in [Rank -> SUBSET Particle]
  /\ movers \in [Rank -> SUBSET (Particle \X Face)]
  /\ hops \in [Particle -> SUBSET Axis]
  /\ recvd \in [Rank -> SUBSET Particle]
  /\ dropped \in SUBSET Particle
  /\ absorbed \in [Rank -> BOOLEAN]
  /\ accum \in [Rank -> [Particle -> Nat]]
  /\ rhob \in [Rank -> [Particle -> Nat]]
  /\ sbuf \in [Rank -> [Face -> SUBSET Particle]]
  /\ rbuf \in [Rank -> [Face -> SUBSET Particle]]
  /\ n_recv \in [Rank -> [Face -> Nat]]
  /\ sreq \in [Rank -> [Face -> SendState]]
  /\ rreq \in [Rank -> [Face -> RecvState]]

-----------------------------------------------------------------------------
\* move_p: a particle in the domain of r that has crossed the axes in used
\* comes to rest, or stops at a face that is not internal and does not reflect.
Rest == -1
MoveP(r, used) ==
  {Rest} \cup {f \in Face : AxisOf(f) \notin used /\ bc[r][f] \notin {Reflect, r}}

\* What move_p does to a set S of particles in the domain of r.
Moves(r, S) == {out \in [S -> Face \cup {Rest}] :
                  \A p \in S : out[p] \in MoveP(r, hops[p])}
Stopped(S, out) == {p \in S : out[p] # Rest}
OnGuardList(S, out) == {<<p, out[p]>> : p \in Stopped(S, out)}
AxesCrossed(S, out, before) ==
  [p \in Particle |->
     IF p \in Stopped(S, out) THEN before[p] \cup {AxisOf(out[p])} ELSE before[p]]

\* The particles of the guard list of r that hit face f.
Hitting(r, f) == {p \in Particle : <<p, f>> \in movers[r]}
HittingBC(r, code) == UNION {Hitting(r, f) : f \in {g \in Face : bc[r][g] = code}}

\* The face a blocking loop over the shared faces waits for.
Current(r, f) == f \in todo[r] /\ \A g \in todo[r] : f <= g

\* The loops over the shared faces follow each other in this order.
NextStageUnwaited(stage) ==
  CASE stage = "cnt_recv" -> "cnt_send"
    [] stage = "cnt_send" -> "pay_recv"
    [] stage = "pay_recv" -> "update"
NextStageCrossed(stage) ==
  CASE stage = "cnt_recv" -> "pay_recv"
    [] stage = "pay_recv" -> "cnt_send"
    [] stage = "cnt_send" -> "pay_send"
    [] stage = "pay_send" -> "update"
NextStage(stage) ==
  CASE stage = "cnt_recv" -> "cnt_send"
    [] stage = "cnt_send" -> "pay_recv"
    [] stage = "pay_recv" -> "pay_send"
    [] stage = "pay_send" -> "update"

\* The loop rank r is in has visited face f.
Visit(r, f) ==
  LET rest == todo[r] \ {f}
  IN  IF rest # {} THEN /\ todo' = [todo EXCEPT ![r] = rest]
                        /\ UNCHANGED pc
                   ELSE /\ todo' = [todo EXCEPT ![r] = Shared(r)]
                        /\ pc' = [pc EXCEPT ![r] = NextStage(@)]
\* The loop over the communication rounds.
RoundsLeftButOne(r) == round[r] < NumCommRound - 1
RoundsLeft(r) == round[r] < NumCommRound

\* n_send[face], the number of injectors packed for a face.
n_send(r, f) == Cardinality(sbuf[r][f])

\* The host accumulator after it was added to rhob on the device.
AccumKept(r) == accum[r]
AccumZeroed(r) == [p \in Particle |-> 0]

\* What compress leaves of the particle list.
NotCompressed(r) == parts[r]
Compressed(r) == parts[r] \ holes[r]
-----------------------------------------------------------------------------
Init ==
  /\ pc = [r \in Rank |-> "advance"]
  /\ todo = [r \in Rank |-> {}]
  /\ step = [r \in Rank |-> 0]
  /\ round = [r \in Rank |-> 0]
  /\ epoch = [r \in Rank |-> 0]
  /\ \E home \in [Particle -> Rank] :
       parts = [r \in Rank |-> {p \in Particle : home[p] = r}]
  /\ holes = [r \in Rank |-> {}]
  /\ movers = [r \in Rank |-> {}]
  /\ hops = [p \in Particle |-> {}]
  /\ recvd = [r \in Rank |-> {}]
  /\ dropped = {}
  /\ absorbed = [r \in Rank |-> FALSE]
  /\ accum = [r \in Rank |-> [p \in Particle |-> 0]]
  /\ rhob = [r \in Rank |-> [p \in Particle |-> 0]]
  /\ sbuf = [r \in Rank |-> [f \in Face |-> {}]]
  /\ rbuf = [r \in Rank |-> [f \in Face |-> {}]]
  /\ n_recv = [r \in Rank |-> [f \in Face |-> 0]]
  /\ sreq = [r \in Rank |-> [f \in Face |-> "idle"]]
  /\ rreq = [r \in Rank |-> [f \in Face |-> "idle"]]

\* advance_p and copy_outbound_to_host: push every local particle; those that
\* stop at a face go on the guard list and stay in the list as holes.
AdvanceP(r) ==
  /\ pc[r] = "advance"
  /\ step[r] < NumStep
  /\ LET fresh == [p \in Particle |-> IF p \in parts[r] THEN {} ELSE hops[p]]
     IN  \E out \in {o \in [parts[r] -> Face \cup {Rest}] :
                       \A p \in parts[r] : o[p] \in MoveP(r, {})} :
           /\ movers' = [movers EXCEPT ![r] = OnGuardList(parts[r], out)]
           /\ holes' = [holes EXCEPT ![r] = Stopped(parts[r], out)]
           /\ hops' = AxesCrossed(parts[r], out, fresh)
  /\ round' = [round EXCEPT ![r] = 0]
  /\ pc' = [pc EXCEPT ![r] = "round"]
  /\ UNCHANGED <<todo, step, epoch, parts, recvd, dropped, chargeVars, portVars>>

\* boundary_p_kokkos up to its first wait: post the receives of the counts,
\* empty the guard list, and start sending the counts.
BeginRound(r) ==
  /\ pc[r] = "round"
  /\ RoundsLeft(r)
  /\ rreq' = [rreq EXCEPT ![r] = [f \in Face |->
                IF f \in Shared(r) THEN "cnt" ELSE @[f]]]
  /\ sbuf' = [sbuf EXCEPT ![r] = [f \in Face |->
                IF f \in Shared(r) THEN Hitting(r, f) ELSE @[f]]]
  /\ sreq' = [sreq EXCEPT ![r] = [f \in Face |->
                IF f \in Shared(r) THEN "cnt" ELSE @[f]]]
  /\ absorbed' = [absorbed EXCEPT ![r] = HittingBC(r, Absorb) # {}]
  /\ accum' = [accum EXCEPT ![r] = [p \in Particle |->
                 IF p \in HittingBC(r, Absorb) THEN @[p] + 1 ELSE @[p]]]
  /\ dropped' = dropped \cup HittingBC(r, Custom)
  /\ movers' = [movers EXCEPT ![r] = {}]
  /\ todo' = [todo EXCEPT ![r] = Shared(r)]
  /\ pc' = [pc EXCEPT ![r] = IF Shared(r) = {} THEN "update" ELSE "cnt_recv"]
  /\ UNCHANGED <<clockVars, parts, holes, hops, recvd, rhob, rbuf, n_recv>>

\* mp_end_recv of the count; post the receive of that many injectors.
EndCountRecv(r, f) ==
  /\ pc[r] = "cnt_recv"
  /\ Current(r, f)
  /\ rreq[r][f] = "cnt_full"
  /\ rreq' = [rreq EXCEPT ![r][f] = "pay"]
  /\ Visit(r, f)
  /\ UNCHANGED <<clockVars, listVars, chargeVars, sbuf, rbuf, n_recv, sreq>>

\* mp_end_send of the count; start sending the injectors.
EndCountSend(r, f) ==
  /\ pc[r] = "cnt_send"
  /\ Current(r, f)
  /\ sreq[r][f] = "cnt_taken"
  /\ sreq' = [sreq EXCEPT ![r][f] = "pay"]
  /\ Visit(r, f)
  /\ UNCHANGED <<clockVars, listVars, chargeVars, sbuf, rbuf, n_recv, rreq>>

\* mp_end_recv of the injectors; move_p each of them.
EndPayloadRecv(r, f) ==
  /\ pc[r] = "pay_recv"
  /\ Current(r, f)
  /\ rreq[r][f] = "pay_full"
  /\ rreq' = [rreq EXCEPT ![r][f] = "idle"]
  /\ \E out \in Moves(r, rbuf[r][f]) :
       /\ recvd' = [recvd EXCEPT ![r] = @ \cup (rbuf[r][f] \ Stopped(rbuf[r][f], out))]
       /\ movers' = [movers EXCEPT ![r] = @ \cup OnGuardList(rbuf[r][f], out)]
       /\ hops' = AxesCrossed(rbuf[r][f], out, hops)
  /\ Visit(r, f)
  /\ UNCHANGED <<clockVars, parts, holes, dropped, chargeVars, sbuf, rbuf, n_recv, sreq>>

\* mp_end_send of the injectors.
EndPayloadSend(r, f) ==
  /\ pc[r] = "pay_send"
  /\ Current(r, f)
  /\ sreq[r][f] = "pay_taken"
  /\ sreq' = [sreq EXCEPT ![r][f] = "idle"]
  /\ Visit(r, f)
  /\ UNCHANGED <<clockVars, listVars, chargeVars, sbuf, rbuf, n_recv, rreq>>

\* The end of boundary_p_kokkos: add the charge absorbed on the host to the
\* rhob of the device.
FinishRound(r) ==
  /\ pc[r] = "update"
  /\ IF absorbed[r]
       THEN /\ rhob' = [rhob EXCEPT ![r] = [p \in Particle |-> @[p] + accum[r][p]]]
            /\ accum' = [accum EXCEPT ![r] = AccumZeroed(r)]
       ELSE UNCHANGED <<rhob, accum>>
  /\ round' = [round EXCEPT ![r] = @ + 1]
  /\ epoch' = [epoch EXCEPT ![r] = @ + 1]
  /\ pc' = [pc EXCEPT ![r] = "round"]
  /\ UNCHANGED <<todo, step, listVars, absorbed, portVars>>

\* advance() after the rounds: compress the holes away, append the received
\* particles, reset nm.
FinishStep(r) ==
  /\ pc[r] = "round"
  /\ ~RoundsLeft(r)
  /\ parts' = [parts EXCEPT ![r] = Compressed(r) \cup recvd[r]]
  /\ holes' = [holes EXCEPT ![r] = {}]
  /\ recvd' = [recvd EXCEPT ![r] = {}]
  /\ movers' = [movers EXCEPT ![r] = {}]
  /\ step' = [step EXCEPT ![r] = @ + 1]
  /\ pc' = [pc EXCEPT ![r] = "advance"]
  /\ UNCHANGED <<todo, round, epoch, hops, dropped, chargeVars, portVars>>

\* The MPI library: a posted send on face f of r meets the posted receive of
\* the neighbour on the opposite face; they agree on source and tag.  The bytes
\* leave the send buffer now.
Transfer(r, f) ==
  LET q == bc[r][f]
      g == Opposite(f)
      kind == sreq[r][f]
      same_size == kind = rreq[q][g] /\ (kind = "pay" => n_recv[q][g] = n_send(r, f))
  IN  /\ f \in Shared(r)
      /\ kind \in {"cnt", "pay"}
      /\ rreq[q][g] \in {"cnt", "pay"}
      /\ sreq' = [sreq EXCEPT ![r][f] = IF kind = "cnt" THEN "cnt_taken" ELSE "pay_taken"]
      /\ rreq' = [rreq EXCEPT ![q][g] = IF ~same_size THEN "mismatch"
                                        ELSE IF kind = "cnt" THEN "cnt_full"
                                        ELSE "pay_full"]
      /\ n_recv' = [n_recv EXCEPT ![q][g] = IF kind = "cnt" THEN n_send(r, f) ELSE @]
      /\ rbuf' = [rbuf EXCEPT ![q][g] = IF kind = "pay" THEN sbuf[r][f] ELSE @]
      /\ UNCHANGED <<pc, todo, clockVars, listVars, chargeVars, sbuf>>

RankStep(r) ==
  \/ AdvanceP(r)
  \/ BeginRound(r)
  \/ \E f \in Face : \/ EndCountRecv(r, f)
                     \/ EndCountSend(r, f)
                     \/ EndPayloadRecv(r, f)
                     \/ EndPayloadSend(r, f)
  \/ FinishRound(r)
  \/ FinishStep(r)

\* advance() returns 0 once num_step steps are done and main leaves its loop.
AllDone == \A r \in Rank : pc[r] = "advance" /\ step[r] = NumStep
Stop == AllDone /\ UNCHANGED vars

Next ==
  \/ \E r \in Rank : RankStep(r) \/ \E f \in Face : Transfer(r, f)
  \/ Stop

Spec == Init /\ [][Next]_vars

\* Every rank is a process the operating system schedules, and MPI completes a
\* pair of matching requests.
Fairness == \A r \in Rank : /\ WF_vars(RankStep(r))
                            /\ \A f \in Face : WF_vars(Transfer(r, f))

FairSpec == Spec /\ Fairness
-----------------------------------------------------------------------------
(***************************************************************************)
(* Where a particle can be, as seen from the program as a whole.           *)
(***************************************************************************)
Place ==
  ({"list", "recvd", "absorbed"} \X Rank)
    \cup ({"guard", "outgoing", "landed"} \X Rank \X Face)
    \cup {<<"dropped">>}

\* The injectors of a send buffer count until the payload was taken; those of
\* a receive buffer from then until move_p has placed them.
IsAt(p, place) ==
  LET r == place[2]
      f == place[3]
  IN  CASE place[1] = "list"     -> p \in parts[r] \ holes[r]
        [] place[1] = "recvd"    -> p \in recvd[r]
        [] place[1] = "absorbed" -> accum[r][p] + rhob[r][p] # 0
        [] place[1] = "guard"    -> <<p, f>> \in movers[r]
        [] place[1] = "outgoing" -> /\ p \in sbuf[r][f]
                                    /\ sreq[r][f] \in {"cnt", "cnt_taken", "pay"}
        [] place[1] = "landed"   -> p \in rbuf[r][f] /\ rreq[r][f] = "pay_full"
        [] place[1] = "dropped"  -> p \in dropped

PlaceOf(p) == CHOOSE place \in Place : IsAt(p, place)

\* No particle is ever lost or duplicated: at every instant it is in the
\* particle list of one rank, on one guard list, in one message, absorbed by one
\* rank or dropped, and in no second place (the hand-over between pm, k_pc_h,
\* the send and receive buffers, k_pr_h and k_p_d in boundary_p_kokkos, compress
\* and copy_inbound_to_device).
ParticleInOnePlace ==
  \A p \in Particle : \E place \in Place :
    IsAt(p, place) /\ \A other \in Place \ {place} : ~IsAt(p, other)

\* The charge of an absorbed particle reaches rhob exactly once: it is never
\* added twice, and none is left in the host accumulator when boundary_p_kokkos
\* has returned.
AbsorbedChargeOnce ==
  \A r \in Rank : \A p \in Particle :
    /\ accum[r][p] + rhob[r][p] <= 1
    /\ pc[r] \in {"advance", "round"} => accum[r][p] = 0

\* num_comm_round rounds are enough when there is one for each axis: the guard
\* list that advance() forgets by setting nm = 0 is empty ("the guard lists are
\* empty" at the end of the particle half of a step).
GuardListEmptied ==
  NumCommRound >= Dim =>
    \A r \in Rank : pc[r] = "round" /\ ~RoundsLeft(r) => movers[r] = {}

\* The counts and the particles travel over the same ports with the same tags;
\* a receive still never meets a message of the other kind or of another size
\* (mp_end_recv: "Sizes do not match").
SizesMatch == \A r \in Rank : \A f \in Face : rreq[r][f] # "mismatch"

\* Neighbours are at most one round apart, so a message of one round can not be
\* taken for one of a later round although the tags do not tell rounds apart.
NeighboursInStep ==
  \A r \in Rank : \A f \in Shared(r) : epoch[r] - epoch[bc[r][f]] \in {-1, 0, 1}

\* boundary_p_kokkos returns with no request in flight, so the next call may
\* overwrite the buffers of every port.
PortsQuiet ==
  \A r \in Rank : pc[r] \in {"advance", "round"} =>
    \A f \in Face : sreq[r][f] = "idle" /\ rreq[r][f] = "idle"

\* The injectors stay in the send buffer untouched from the moment the count is
\* sent until the payload was taken ("ASSUMES MP WON'T MUCK WITH REST OF SEND
\* BUFFER").
SendBufferStable ==
  [][\A r \in Rank : \A f \in Face :
       sreq[r][f] \in {"cnt", "cnt_taken", "pay"} => sbuf'[r][f] = sbuf[r][f]]_vars

\* A step ends on every rank: no rank waits forever for a neighbour, whatever
\* the order in which ranks enter and leave the rounds.
EveryStepEnds == <>AllDone

\* The owner of a particle, for the abstract specification.
Owner(p) ==
  LET place == PlaceOf(p)
  IN  CASE place[1] = "absorbed" -> Absorb
        [] place[1] = "dropped"  -> Custom
        [] place[1] = "outgoing" -> bc[place[2]][place[3]]
        [] OTHER                 -> place[2]

Migration == INSTANCE ParticleMigration
  WITH Beyond <- bc, Fate <- {Absorb, Custom}, at <- [p \in Particle |-> Owner(p)]

\* The exchange implements ParticleMigration: between two domains a particle
\* moves only through the face it hit, to the domain behind it, and once.
MigrationSpec == Migration!Spec
=============================================================================
