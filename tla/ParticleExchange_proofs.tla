---------------------- MODULE ParticleExchange_proofs ----------------------
(***************************************************************************)
(* The two-message protocol of boundary_p_kokkos is correct, and it keeps  *)
(* every particle and its charge: for every decomposition, number of       *)
(* ranks, rounds and steps, and set of particles.                          *)
(***************************************************************************)
EXTENDS ParticleExchange, FiniteSetTheorems, TLAPS

(***************************************************************************)
(* The requests of a rank follow from its program counter.                 *)
(***************************************************************************)
Waiting == {"cnt_recv", "cnt_send", "pay_recv", "pay_send"}

LoopOK(r) == pc[r] \in Waiting => todo[r] \subseteq Shared(r) /\ todo[r] # {}

SendOK(r, f) ==
  IF f \notin Shared(r) THEN sreq[r][f] = "idle" ELSE
  CASE pc[r] = "cnt_recv"     -> sreq[r][f] \in {"cnt", "cnt_taken"}
    [] pc[r] = "cnt_send"     -> IF f \in todo[r] THEN sreq[r][f] \in {"cnt", "cnt_taken"}
                                 ELSE sreq[r][f] \in {"pay", "pay_taken"}
    [] pc[r] = "pay_recv"     -> sreq[r][f] \in {"pay", "pay_taken"}
    [] pc[r] = "pay_send"     -> IF f \in todo[r] THEN sreq[r][f] \in {"pay", "pay_taken"}
                                 ELSE sreq[r][f] = "idle"
    [] OTHER                  -> sreq[r][f] = "idle"

RecvOK(r, f) ==
  IF f \notin Shared(r) THEN rreq[r][f] = "idle" ELSE
  CASE pc[r] = "cnt_recv"     -> IF f \in todo[r] THEN rreq[r][f] \in {"cnt", "cnt_full"}
                                 ELSE rreq[r][f] \in {"pay", "pay_full"}
    [] pc[r] = "cnt_send"     -> rreq[r][f] \in {"pay", "pay_full"}
    [] pc[r] = "pay_recv"     -> IF f \in todo[r] THEN rreq[r][f] \in {"pay", "pay_full"}
                                 ELSE rreq[r][f] = "idle"
    [] OTHER                  -> rreq[r][f] = "idle"

RequestsOK == \A r \in Rank : LoopOK(r) /\ \A f \in Face : SendOK(r, f) /\ RecvOK(r, f)

(***************************************************************************)
(* Messages of this round that left port f of r, and that arrived there.   *)
(***************************************************************************)
Sent(r, f) ==
  IF sreq[r][f] \in {"cnt_taken", "pay"} THEN 1
  ELSE IF sreq[r][f] = "pay_taken" THEN 2
  ELSE IF sreq[r][f] = "idle" /\ pc[r] \in {"pay_send", "update"} THEN 2
  ELSE 0

Received(r, f) ==
  IF rreq[r][f] \in {"cnt_full", "pay"} THEN 1
  ELSE IF rreq[r][f] = "pay_full" THEN 2
  ELSE IF rreq[r][f] = "idle" /\ pc[r] \in {"pay_recv", "pay_send", "update"} THEN 2
  ELSE 0

(***************************************************************************)
(* Over the whole run, as many messages left port f of r as arrived at the *)
(* port behind it; and a count that arrived is the count of the injectors  *)
(* the payload will carry.                                                 *)
(***************************************************************************)
EdgeOK(r, f) ==
  LET q == bc[r][f]
      g == Opposite(f)
  IN  /\ 2*epoch[r] + Sent(r, f) = 2*epoch[q] + Received(q, g)
      /\ rreq[q][g] \in {"cnt_full", "pay"} => n_recv[q][g] = n_send(r, f)

EdgesOK == \A r \in Rank : \A f \in Shared(r) : EdgeOK(r, f)

IInv == TypeOK /\ RequestsOK /\ EdgesOK

-----------------------------------------------------------------------------
(***************************************************************************)
(* Facts about the decomposition.                                          *)
(***************************************************************************)
LEMMA OppositeFace ==
  ASSUME NEW f \in Face
  PROVE  Opposite(f) \in Face /\ Opposite(Opposite(f)) = f /\ AxisOf(f) \in Axis
BY DomainAssumption DEF Face, Opposite, AxisOf, Axis

\* A shared face seen from the neighbour is shared, and it leads back.
LEMMA SharedFace ==
  ASSUME NEW r \in Rank, NEW f \in Shared(r)
  PROVE  /\ f \in Face
         /\ bc[r][f] \in Rank \ {r}
         /\ Opposite(f) \in Shared(bc[r][f])
         /\ bc[bc[r][f]][Opposite(f)] = r
         /\ Opposite(Opposite(f)) = f
<1>1. f \in Face /\ bc[r][f] \in Rank \ {r}
  BY DEF Shared
<1>2. bc[bc[r][f]][Opposite(f)] = r
  BY <1>1, DomainAssumption
<1>. QED  BY <1>1, <1>2, OppositeFace DEF Shared

LEMMA CountType ==
  ASSUME TypeOK, NEW r \in Rank, NEW f \in Face
  PROVE  n_send(r, f) \in Nat
<1>1. sbuf[r][f] \in SUBSET Particle
  BY DEF TypeOK
<1>. QED  BY <1>1, ParticleAssumption, FS_Subset, FS_CardinalityType DEF n_send

(***************************************************************************)
(* Type correctness.                                                       *)
(***************************************************************************)
LEMMA InitType == Init => TypeOK
BY DEF Init, TypeOK, PC, SendState, RecvState

LEMMA VisitType ==
  ASSUME TypeOK, NEW r \in Rank, NEW f \in Face, pc[r] \in Waiting, Visit(r, f)
  PROVE  pc' \in [Rank -> PC] /\ todo' \in [Rank -> SUBSET Face]
<1>1. NextStage(pc[r]) \in PC
  BY DEF NextStage, Waiting, PC
<1>2. Shared(r) \in SUBSET Face
  BY DEF Shared
<1>3. CASE todo[r] \ {f} # {}
  <2>1. todo' = [todo EXCEPT ![r] = todo[r] \ {f}] /\ pc' = pc
    BY <1>3 DEF Visit
  <2>2. todo[r] \ {f} \in SUBSET Face
    BY DEF TypeOK
  <2>. QED  BY <2>1, <2>2 DEF TypeOK
<1>4. CASE todo[r] \ {f} = {}
  <2>1. /\ todo' = [todo EXCEPT ![r] = Shared(r)]
        /\ pc' = [pc EXCEPT ![r] = NextStage(pc[r])]
    BY <1>4 DEF Visit
  <2>. QED  BY <2>1, <1>1, <1>2 DEF TypeOK
<1>. QED  BY <1>3, <1>4

LEMMA MoveType ==
  ASSUME TypeOK, NEW S \in SUBSET Particle, NEW out \in [S -> Face \cup {Rest}],
         NEW before \in [Particle -> SUBSET Axis]
  PROVE  /\ Stopped(S, out) \in SUBSET Particle
         /\ OnGuardList(S, out) \in SUBSET (Particle \X Face)
         /\ AxesCrossed(S, out, before) \in [Particle -> SUBSET Axis]
<1>1. \A p \in Stopped(S, out) : p \in Particle /\ out[p] \in Face /\ AxisOf(out[p]) \in Axis
  BY OppositeFace DEF Stopped
<1>. QED  BY <1>1 DEF OnGuardList, AxesCrossed, Stopped

LEMMA StepType == TypeOK /\ [Next]_vars => TypeOK'
<1> SUFFICES ASSUME TypeOK, [Next]_vars PROVE TypeOK'
  OBVIOUS
<1>1. ASSUME NEW r \in Rank, AdvanceP(r) PROVE TypeOK'
  <2> DEFINE fresh == [p \in Particle |-> IF p \in parts[r] THEN {} ELSE hops[p]]
  <2>1. fresh \in [Particle -> SUBSET Axis] /\ parts[r] \in SUBSET Particle
    BY DEF TypeOK
  <2>2. PICK out \in [parts[r] -> Face \cup {Rest}] :
          /\ movers' = [movers EXCEPT ![r] = OnGuardList(parts[r], out)]
          /\ holes' = [holes EXCEPT ![r] = Stopped(parts[r], out)]
          /\ hops' = AxesCrossed(parts[r], out, fresh)
    BY <1>1 DEF AdvanceP
  <2>3. movers' \in [Rank -> SUBSET (Particle \X Face)]
        /\ holes' \in [Rank -> SUBSET Particle] /\ hops' \in [Particle -> SUBSET Axis]
    <3> HIDE DEF fresh
    <3>1. /\ Stopped(parts[r], out) \in SUBSET Particle
          /\ OnGuardList(parts[r], out) \in SUBSET (Particle \X Face)
          /\ AxesCrossed(parts[r], out, fresh) \in [Particle -> SUBSET Axis]
      BY <2>1, MoveType
    <3>. QED  BY <2>2, <3>1 DEF TypeOK
  <2>. QED  BY <1>1, <2>3 DEF AdvanceP, TypeOK, PC, chargeVars, portVars
<1>2. ASSUME NEW r \in Rank, BeginRound(r) PROVE TypeOK'
  <2>1. \A f \in Face : Hitting(r, f) \in SUBSET Particle
    BY DEF Hitting
  <2>2. \A code \in {Absorb, Custom} : HittingBC(r, code) \in SUBSET Particle
    BY <2>1 DEF HittingBC
  <2>3. Shared(r) \in SUBSET Face
    BY DEF Shared
  <2>4. /\ sbuf' \in [Rank -> [Face -> SUBSET Particle]]
        /\ rreq' \in [Rank -> [Face -> RecvState]]
        /\ sreq' \in [Rank -> [Face -> SendState]]
    BY <1>2, <2>1 DEF BeginRound, TypeOK, RecvState, SendState
  <2>5. accum' \in [Rank -> [Particle -> Nat]]
    BY <1>2 DEF BeginRound, TypeOK
  <2>6. dropped' \in SUBSET Particle
    BY <1>2, <2>2 DEF BeginRound, TypeOK
  <2>7. absorbed' \in [Rank -> BOOLEAN]
    BY <1>2 DEF BeginRound, TypeOK
  <2>8. pc' \in [Rank -> PC] /\ todo' \in [Rank -> SUBSET Face]
        /\ movers' \in [Rank -> SUBSET (Particle \X Face)]
    BY <1>2, <2>3 DEF BeginRound, TypeOK, PC
  <2>. QED  BY <1>2, <2>4, <2>5, <2>6, <2>7, <2>8 DEF BeginRound, TypeOK, clockVars
<1>3. ASSUME NEW r \in Rank, NEW f \in Face, EndCountRecv(r, f) PROVE TypeOK'
  BY <1>3, VisitType
     DEF EndCountRecv, TypeOK, Waiting, RecvState, clockVars, listVars, chargeVars
<1>4. ASSUME NEW r \in Rank, NEW f \in Face, EndCountSend(r, f) PROVE TypeOK'
  BY <1>4, VisitType
     DEF EndCountSend, TypeOK, Waiting, SendState, clockVars, listVars, chargeVars
<1>5. ASSUME NEW r \in Rank, NEW f \in Face, EndPayloadRecv(r, f) PROVE TypeOK'
  <2>1. rbuf[r][f] \in SUBSET Particle /\ hops \in [Particle -> SUBSET Axis]
    BY DEF TypeOK
  <2>2. PICK out \in [rbuf[r][f] -> Face \cup {Rest}] :
          /\ recvd' = [recvd EXCEPT ![r] = @ \cup (rbuf[r][f] \ Stopped(rbuf[r][f], out))]
          /\ movers' = [movers EXCEPT ![r] = @ \cup OnGuardList(rbuf[r][f], out)]
          /\ hops' = AxesCrossed(rbuf[r][f], out, hops)
    BY <1>5 DEF EndPayloadRecv, Moves
  <2>3. /\ Stopped(rbuf[r][f], out) \in SUBSET Particle
        /\ OnGuardList(rbuf[r][f], out) \in SUBSET (Particle \X Face)
        /\ AxesCrossed(rbuf[r][f], out, hops) \in [Particle -> SUBSET Axis]
    BY <2>1, MoveType
  <2>4. /\ recvd' \in [Rank -> SUBSET Particle]
        /\ movers' \in [Rank -> SUBSET (Particle \X Face)]
        /\ hops' \in [Particle -> SUBSET Axis]
    BY <2>1, <2>2, <2>3 DEF TypeOK
  <2>5. pc' \in [Rank -> PC] /\ todo' \in [Rank -> SUBSET Face]
    BY <1>5, VisitType DEF EndPayloadRecv, Waiting
  <2>. QED  BY <1>5, <2>4, <2>5 DEF EndPayloadRecv, TypeOK, RecvState, clockVars, chargeVars
<1>6. ASSUME NEW r \in Rank, NEW f \in Face, EndPayloadSend(r, f) PROVE TypeOK'
  BY <1>6, VisitType
     DEF EndPayloadSend, TypeOK, Waiting, SendState, clockVars, listVars, chargeVars
<1>7. ASSUME NEW r \in Rank, FinishRound(r) PROVE TypeOK'
  <2>1. rhob' \in [Rank -> [Particle -> Nat]] /\ accum' \in [Rank -> [Particle -> Nat]]
    <3>1. [p \in Particle |-> rhob[r][p] + accum[r][p]] \in [Particle -> Nat]
      BY DEF TypeOK
    <3>2. AccumZeroed(r) \in [Particle -> Nat]
      BY DEF AccumZeroed
    <3>. QED  BY <1>7, <3>1, <3>2 DEF FinishRound, TypeOK
  <2>2. round' \in [Rank -> Nat] /\ epoch' \in [Rank -> Nat] /\ pc' \in [Rank -> PC]
    BY <1>7 DEF FinishRound, TypeOK, PC
  <2>. QED  BY <1>7, <2>1, <2>2 DEF FinishRound, TypeOK, listVars, portVars
<1>8. ASSUME NEW r \in Rank, FinishStep(r) PROVE TypeOK'
  BY <1>8 DEF FinishStep, TypeOK, PC, Compressed, chargeVars, portVars
<1>9. ASSUME NEW r \in Rank, NEW f \in Face, Transfer(r, f) PROVE TypeOK'
  <2>1. f \in Shared(r) /\ bc[r][f] \in Rank /\ Opposite(f) \in Face
    BY <1>9, SharedFace, OppositeFace DEF Transfer
  <2>2. n_send(r, f) \in Nat /\ sbuf[r][f] \in SUBSET Particle
    BY CountType DEF TypeOK
  <2>3. n_recv' \in [Rank -> [Face -> Nat]] /\ rbuf' \in [Rank -> [Face -> SUBSET Particle]]
    BY <1>9, <2>1, <2>2 DEF Transfer, TypeOK
  <2>4. sreq' \in [Rank -> [Face -> SendState]] /\ rreq' \in [Rank -> [Face -> RecvState]]
    BY <1>9, <2>1 DEF Transfer, TypeOK, SendState, RecvState
  <2>. QED  BY <1>9, <2>3, <2>4 DEF Transfer, TypeOK, clockVars, listVars, chargeVars
<1>10. CASE UNCHANGED vars
  BY <1>10 DEF TypeOK, vars, clockVars, listVars, chargeVars, portVars
<1>. QED  BY <1>1, <1>2, <1>3, <1>4, <1>5, <1>6, <1>7, <1>8, <1>9, <1>10
          DEF Next, RankStep, Stop

\* Every variable keeps its type: the requests of a port are only ever idle,
\* posted or complete, whatever the decomposition.
THEOREM TypeCorrect == Spec => []TypeOK
BY InitType, StepType, PTL DEF Spec

-----------------------------------------------------------------------------
(***************************************************************************)
(* The invariant of the protocol.                                          *)
(***************************************************************************)
LEMMA InitInv == Init => IInv
<1> SUFFICES ASSUME Init PROVE IInv
  OBVIOUS
<1>1. RequestsOK
  BY DEF Init, RequestsOK, LoopOK, SendOK, RecvOK, Waiting
<1>2. EdgesOK
  BY SharedFace DEF Init, EdgesOK, EdgeOK, Sent, Received
<1>. QED  BY <1>1, <1>2, InitType DEF IInv

\* What visiting a face does to the loop of r.
LEMMA VisitLoop ==
  ASSUME TypeOK, NEW r \in Rank, NEW f \in Face, pc[r] \in Waiting,
         LoopOK(r), f \in todo[r], Visit(r, f)
  PROVE  /\ \A s \in Rank \ {r} : pc'[s] = pc[s] /\ todo'[s] = todo[s]
         /\ LoopOK(r)'
         /\ f \in Shared(r)
         /\ \/ /\ pc'[r] = pc[r]
               /\ todo'[r] = todo[r] \ {f}
            \/ /\ pc'[r] = NextStage(pc[r])
               /\ todo'[r] = Shared(r)
               /\ todo[r] = {f}
<1>1. f \in Shared(r) /\ todo[r] \subseteq Shared(r) /\ Shared(r) # {}
  BY DEF LoopOK
<1>2. CASE todo[r] \ {f} # {}
  <2>1. todo' = [todo EXCEPT ![r] = todo[r] \ {f}] /\ pc' = pc
    BY <1>2 DEF Visit
  <2>2. todo'[r] = todo[r] \ {f}
    BY <2>1 DEF TypeOK
  <2>. QED  BY <1>1, <1>2, <2>1, <2>2 DEF TypeOK, LoopOK
<1>3. CASE todo[r] \ {f} = {}
  <2>1. /\ todo' = [todo EXCEPT ![r] = Shared(r)]
        /\ pc' = [pc EXCEPT ![r] = NextStage(pc[r])]
    BY <1>3 DEF Visit
  <2>2. todo'[r] = Shared(r) /\ pc'[r] = NextStage(pc[r])
    BY <2>1 DEF TypeOK
  <2>3. todo[r] = {f}
    BY <1>3
  <2>. QED  BY <1>1, <2>1, <2>2, <2>3 DEF TypeOK, LoopOK
<1>. QED  BY <1>2, <1>3

\* A send that meets a receive meets one of its own kind and size: both ports
\* have seen the same number of messages.
LEMMA TransferMatches ==
  ASSUME IInv, NEW r \in Rank, NEW f \in Shared(r),
         sreq[r][f] \in {"cnt", "pay"},
         rreq[bc[r][f]][Opposite(f)] \in {"cnt", "pay"}
  PROVE  /\ sreq[r][f] = rreq[bc[r][f]][Opposite(f)]
         /\ sreq[r][f] = "pay" => n_recv[bc[r][f]][Opposite(f)] = n_send(r, f)
<1>1. EdgeOK(r, f)
  BY DEF IInv, EdgesOK
<1>2. epoch[r] \in Nat /\ epoch[bc[r][f]] \in Nat
  BY SharedFace DEF IInv, TypeOK
<1>. QED  BY <1>1, <1>2 DEF EdgeOK, Sent, Received

LEMMA RequestsStep == IInv /\ [Next]_vars => RequestsOK'
<1> SUFFICES ASSUME IInv, [Next]_vars PROVE RequestsOK'
  OBVIOUS
<1> USE DEF IInv
<1>1. ASSUME NEW r \in Rank, AdvanceP(r) PROVE RequestsOK'
  BY <1>1 DEF AdvanceP, TypeOK, RequestsOK, LoopOK, SendOK, RecvOK, Waiting, portVars
<1>2. ASSUME NEW r \in Rank, BeginRound(r) PROVE RequestsOK'
  <2> SUFFICES ASSUME NEW s \in Rank, NEW h \in Face
               PROVE  LoopOK(s)' /\ SendOK(s, h)' /\ RecvOK(s, h)'
    BY DomainAssumption DEF RequestsOK, Face
  <2>1. CASE s # r
    BY <1>2, <2>1 DEF BeginRound, TypeOK, RequestsOK, LoopOK, SendOK, RecvOK
  <2>2. CASE s = r
    <3>1. SendOK(r, h) /\ RecvOK(r, h) /\ pc[r] = "round"
      BY <1>2 DEF RequestsOK, BeginRound
    <3>2. /\ todo'[r] = Shared(r)
          /\ pc'[r] = IF Shared(r) = {} THEN "update" ELSE "cnt_recv"
          /\ sreq'[r][h] = IF h \in Shared(r) THEN "cnt" ELSE sreq[r][h]
          /\ rreq'[r][h] = IF h \in Shared(r) THEN "cnt" ELSE rreq[r][h]
      BY <1>2 DEF BeginRound, TypeOK
    <3>3. CASE h \in Shared(r)
      <4>1. pc'[r] = "cnt_recv" /\ sreq'[r][h] = "cnt" /\ rreq'[r][h] = "cnt"
        BY <3>2, <3>3
      <4>. QED  BY <2>2, <3>2, <3>3, <4>1 DEF LoopOK, SendOK, RecvOK, Waiting
    <3>4. CASE h \notin Shared(r)
      <4>1. sreq'[r][h] = "idle" /\ rreq'[r][h] = "idle"
        BY <3>1, <3>2, <3>4 DEF SendOK, RecvOK
      <4>2. SendOK(s, h)' /\ RecvOK(s, h)'
        BY <2>2, <3>4, <4>1 DEF SendOK, RecvOK
      <4>3. LoopOK(s)'
        BY <2>2, <3>2 DEF LoopOK, Waiting, Shared
      <4>. QED  BY <4>2, <4>3
    <3>. QED  BY <3>3, <3>4
  <2>. QED  BY <2>1, <2>2
<1>3. ASSUME NEW r \in Rank, NEW f \in Face, EndCountRecv(r, f) PROVE RequestsOK'
  <2>1. pc[r] = "cnt_recv" /\ f \in todo[r] /\ rreq[r][f] = "cnt_full" /\ LoopOK(r)
        /\ Visit(r, f) /\ sreq' = sreq /\ rreq' = [rreq EXCEPT ![r][f] = "pay"]
    BY <1>3 DEF EndCountRecv, Current, RequestsOK
  <2>2. /\ \A s \in Rank \ {r} : pc'[s] = pc[s] /\ todo'[s] = todo[s]
        /\ LoopOK(r)'
        /\ f \in Shared(r)
        /\ \/ pc'[r] = "cnt_recv" /\ todo'[r] = todo[r] \ {f}
           \/ pc'[r] = "cnt_send" /\ todo'[r] = Shared(r) /\ todo[r] = {f}
    BY <2>1, VisitLoop DEF Waiting, NextStage
  <2> SUFFICES ASSUME NEW s \in Rank, NEW h \in Face
               PROVE  LoopOK(s)' /\ SendOK(s, h)' /\ RecvOK(s, h)'
    BY DEF RequestsOK
  <2>3. CASE s # r
    BY <2>1, <2>2, <2>3 DEF TypeOK, RequestsOK, LoopOK, SendOK, RecvOK
  <2>4. CASE s = r
    <3>1. SendOK(r, h) /\ RecvOK(r, h)
      BY DEF RequestsOK
    <3>2. sreq'[r][h] = sreq[r][h] /\ rreq'[r][h] = IF h = f THEN "pay" ELSE rreq[r][h]
      BY <2>1 DEF TypeOK
    <3>3. SendOK(s, h)'
      <4>1. CASE pc'[r] = pc[r]
        BY <2>1, <2>2, <2>4, <3>1, <3>2, <4>1 DEF SendOK
      <4>2. CASE pc'[r] # pc[r]
        BY <2>1, <2>2, <2>4, <3>1, <3>2, <4>2 DEF SendOK
      <4>. QED  BY <4>1, <4>2
    <3>4. RecvOK(s, h)'
      <4>1. CASE pc'[r] = pc[r]
        BY <2>1, <2>2, <2>4, <3>1, <3>2, <4>1 DEF RecvOK
      <4>2. CASE pc'[r] # pc[r]
        BY <2>1, <2>2, <2>4, <3>1, <3>2, <4>2 DEF RecvOK
      <4>. QED  BY <4>1, <4>2
    <3>. QED  BY <2>2, <2>4, <3>3, <3>4 DEF LoopOK
  <2>. QED  BY <2>3, <2>4
<1>4. ASSUME NEW r \in Rank, NEW f \in Face, EndCountSend(r, f) PROVE RequestsOK'
  <2>1. pc[r] = "cnt_send" /\ f \in todo[r] /\ sreq[r][f] = "cnt_taken" /\ LoopOK(r)
        /\ Visit(r, f) /\ rreq' = rreq /\ sreq' = [sreq EXCEPT ![r][f] = "pay"]
    BY <1>4 DEF EndCountSend, Current, RequestsOK
  <2>2. /\ \A s \in Rank \ {r} : pc'[s] = pc[s] /\ todo'[s] = todo[s]
        /\ LoopOK(r)'
        /\ f \in Shared(r)
        /\ \/ pc'[r] = "cnt_send" /\ todo'[r] = todo[r] \ {f}
           \/ pc'[r] = "pay_recv" /\ todo'[r] = Shared(r) /\ todo[r] = {f}
    BY <2>1, VisitLoop DEF Waiting, NextStage
  <2> SUFFICES ASSUME NEW s \in Rank, NEW h \in Face
               PROVE  LoopOK(s)' /\ SendOK(s, h)' /\ RecvOK(s, h)'
    BY DEF RequestsOK
  <2>3. CASE s # r
    BY <2>1, <2>2, <2>3 DEF TypeOK, RequestsOK, LoopOK, SendOK, RecvOK
  <2>4. CASE s = r
    <3>1. SendOK(r, h) /\ RecvOK(r, h)
      BY DEF RequestsOK
    <3>2. rreq'[r][h] = rreq[r][h] /\ sreq'[r][h] = IF h = f THEN "pay" ELSE sreq[r][h]
      BY <2>1 DEF TypeOK
    <3>3. SendOK(s, h)'
      <4>1. CASE pc'[r] = pc[r]
        BY <2>1, <2>2, <2>4, <3>1, <3>2, <4>1 DEF SendOK
      <4>2. CASE pc'[r] # pc[r]
        BY <2>1, <2>2, <2>4, <3>1, <3>2, <4>2 DEF SendOK
      <4>. QED  BY <4>1, <4>2
    <3>4. RecvOK(s, h)'
      <4>1. CASE pc'[r] = pc[r]
        BY <2>1, <2>2, <2>4, <3>1, <3>2, <4>1 DEF RecvOK
      <4>2. CASE pc'[r] # pc[r]
        BY <2>1, <2>2, <2>4, <3>1, <3>2, <4>2 DEF RecvOK
      <4>. QED  BY <4>1, <4>2
    <3>. QED  BY <2>2, <2>4, <3>3, <3>4 DEF LoopOK
  <2>. QED  BY <2>3, <2>4
<1>5. ASSUME NEW r \in Rank, NEW f \in Face, EndPayloadRecv(r, f) PROVE RequestsOK'
  <2>1. pc[r] = "pay_recv" /\ f \in todo[r] /\ rreq[r][f] = "pay_full" /\ LoopOK(r)
        /\ Visit(r, f) /\ sreq' = sreq /\ rreq' = [rreq EXCEPT ![r][f] = "idle"]
    BY <1>5 DEF EndPayloadRecv, Current, RequestsOK
  <2>2. /\ \A s \in Rank \ {r} : pc'[s] = pc[s] /\ todo'[s] = todo[s]
        /\ LoopOK(r)'
        /\ f \in Shared(r)
        /\ \/ pc'[r] = "pay_recv" /\ todo'[r] = todo[r] \ {f}
           \/ pc'[r] = "pay_send" /\ todo'[r] = Shared(r) /\ todo[r] = {f}
    BY <2>1, VisitLoop DEF Waiting, NextStage
  <2> SUFFICES ASSUME NEW s \in Rank, NEW h \in Face
               PROVE  LoopOK(s)' /\ SendOK(s, h)' /\ RecvOK(s, h)'
    BY DEF RequestsOK
  <2>3. CASE s # r
    BY <2>1, <2>2, <2>3 DEF TypeOK, RequestsOK, LoopOK, SendOK, RecvOK
  <2>4. CASE s = r
    <3>1. SendOK(r, h) /\ RecvOK(r, h)
      BY DEF RequestsOK
    <3>2. sreq'[r][h] = sreq[r][h] /\ rreq'[r][h] = IF h = f THEN "idle" ELSE rreq[r][h]
      BY <2>1 DEF TypeOK
    <3>3. SendOK(s, h)'
      <4>1. CASE pc'[r] = pc[r]
        BY <2>1, <2>2, <2>4, <3>1, <3>2, <4>1 DEF SendOK
      <4>2. CASE pc'[r] # pc[r]
        BY <2>1, <2>2, <2>4, <3>1, <3>2, <4>2 DEF SendOK
      <4>. QED  BY <4>1, <4>2
    <3>4. RecvOK(s, h)'
      <4>1. CASE pc'[r] = pc[r]
        BY <2>1, <2>2, <2>4, <3>1, <3>2, <4>1 DEF RecvOK
      <4>2. CASE pc'[r] # pc[r]
        BY <2>1, <2>2, <2>4, <3>1, <3>2, <4>2 DEF RecvOK
      <4>. QED  BY <4>1, <4>2
    <3>. QED  BY <2>2, <2>4, <3>3, <3>4 DEF LoopOK
  <2>. QED  BY <2>3, <2>4
<1>6. ASSUME NEW r \in Rank, NEW f \in Face, EndPayloadSend(r, f) PROVE RequestsOK'
  <2>1. pc[r] = "pay_send" /\ f \in todo[r] /\ sreq[r][f] = "pay_taken" /\ LoopOK(r)
        /\ Visit(r, f) /\ rreq' = rreq /\ sreq' = [sreq EXCEPT ![r][f] = "idle"]
    BY <1>6 DEF EndPayloadSend, Current, RequestsOK
  <2>2. /\ \A s \in Rank \ {r} : pc'[s] = pc[s] /\ todo'[s] = todo[s]
        /\ LoopOK(r)'
        /\ f \in Shared(r)
        /\ \/ pc'[r] = "pay_send" /\ todo'[r] = todo[r] \ {f}
           \/ pc'[r] = "update" /\ todo'[r] = Shared(r) /\ todo[r] = {f}
    BY <2>1, VisitLoop DEF Waiting, NextStage
  <2> SUFFICES ASSUME NEW s \in Rank, NEW h \in Face
               PROVE  LoopOK(s)' /\ SendOK(s, h)' /\ RecvOK(s, h)'
    BY DEF RequestsOK
  <2>3. CASE s # r
    BY <2>1, <2>2, <2>3 DEF TypeOK, RequestsOK, LoopOK, SendOK, RecvOK
  <2>4. CASE s = r
    <3>1. SendOK(r, h) /\ RecvOK(r, h)
      BY DEF RequestsOK
    <3>2. rreq'[r][h] = rreq[r][h] /\ sreq'[r][h] = IF h = f THEN "idle" ELSE sreq[r][h]
      BY <2>1 DEF TypeOK
    <3>3. SendOK(s, h)'
      <4>1. CASE pc'[r] = pc[r]
        BY <2>1, <2>2, <2>4, <3>1, <3>2, <4>1 DEF SendOK
      <4>2. CASE pc'[r] # pc[r]
        BY <2>1, <2>2, <2>4, <3>1, <3>2, <4>2 DEF SendOK
      <4>. QED  BY <4>1, <4>2
    <3>4. RecvOK(s, h)'
      <4>1. CASE pc'[r] = pc[r]
        BY <2>1, <2>2, <2>4, <3>1, <3>2, <4>1 DEF RecvOK
      <4>2. CASE pc'[r] # pc[r]
        BY <2>1, <2>2, <2>4, <3>1, <3>2, <4>2 DEF RecvOK
      <4>. QED  BY <4>1, <4>2
    <3>. QED  BY <2>2, <2>4, <3>3, <3>4 DEF LoopOK
  <2>. QED  BY <2>3, <2>4
<1>7. ASSUME NEW r \in Rank, FinishRound(r) PROVE RequestsOK'
  BY <1>7 DEF FinishRound, TypeOK, RequestsOK, LoopOK, SendOK, RecvOK, Waiting, portVars
<1>8. ASSUME NEW r \in Rank, FinishStep(r) PROVE RequestsOK'
  BY <1>8 DEF FinishStep, TypeOK, RequestsOK, LoopOK, SendOK, RecvOK, Waiting, portVars
<1>9. ASSUME NEW r \in Rank, NEW f \in Face, Transfer(r, f) PROVE RequestsOK'
  <2> DEFINE q == bc[r][f]
             g == Opposite(f)
  <2>1. f \in Shared(r) /\ q \in Rank /\ q # r /\ g \in Face /\ g \in Shared(q)
    BY <1>9, SharedFace, OppositeFace DEF Transfer
  <2>2. sreq[r][f] \in {"cnt", "pay"} /\ rreq[q][g] \in {"cnt", "pay"}
    BY <1>9 DEF Transfer
  <2>3. sreq[r][f] = rreq[q][g] /\ (sreq[r][f] = "pay" => n_recv[q][g] = n_send(r, f))
    BY <2>1, <2>2, TransferMatches
  <2>4. /\ pc' = pc /\ todo' = todo
        /\ sreq' = [sreq EXCEPT ![r][f] = IF sreq[r][f] = "cnt" THEN "cnt_taken"
                                          ELSE "pay_taken"]
        /\ rreq' = [rreq EXCEPT ![q][g] = IF sreq[r][f] = "cnt" THEN "cnt_full"
                                          ELSE "pay_full"]
    BY <1>9, <2>3 DEF Transfer
  <2> HIDE DEF q, g
  <2> SUFFICES ASSUME NEW s \in Rank, NEW h \in Face
               PROVE  LoopOK(s)' /\ SendOK(s, h)' /\ RecvOK(s, h)'
    BY DEF RequestsOK
  <2>5. LoopOK(s) /\ SendOK(s, h) /\ RecvOK(s, h)
    BY DEF RequestsOK
  <2>6. LoopOK(s)'
    BY <2>4, <2>5 DEF LoopOK
  <2>7. SendOK(s, h)'
    <3>1. sreq'[s][h] = IF s = r /\ h = f
                          THEN IF sreq[r][f] = "cnt" THEN "cnt_taken" ELSE "pay_taken"
                          ELSE sreq[s][h]
      BY <2>1, <2>4 DEF TypeOK
    <3>. QED  BY <2>1, <2>2, <2>4, <2>5, <3>1 DEF SendOK
  <2>8. RecvOK(s, h)'
    <3>1. rreq'[s][h] = IF s = q /\ h = g
                          THEN IF rreq[q][g] = "cnt" THEN "cnt_full" ELSE "pay_full"
                          ELSE rreq[s][h]
      BY <2>1, <2>3, <2>4 DEF TypeOK
    <3>. QED  BY <2>1, <2>2, <2>4, <2>5, <3>1 DEF RecvOK
  <2>. QED  BY <2>6, <2>7, <2>8
<1>10. CASE UNCHANGED vars
  BY <1>10 DEF vars, portVars, RequestsOK, LoopOK, SendOK, RecvOK
<1>. QED  BY <1>1, <1>2, <1>3, <1>4, <1>5, <1>6, <1>7, <1>8, <1>9, <1>10
          DEF Next, RankStep, Stop

\* A step that delivers no message keeps both sides of every edge as they are:
\* the messages counted over the whole run, the counts that arrived, and the
\* injectors those counts were taken from.
NoDelivery ==
  \A s \in Rank : \A h \in Shared(s) :
    /\ 2*epoch'[s] + Sent(s, h)' = 2*epoch[s] + Sent(s, h)
    /\ 2*epoch'[s] + Received(s, h)' = 2*epoch[s] + Received(s, h)
    /\ rreq'[s][h] \in {"cnt_full", "pay"} =>
         rreq[s][h] \in {"cnt_full", "pay"} /\ n_recv'[s][h] = n_recv[s][h]
    /\ sbuf'[s][h] = sbuf[s][h] \/ Sent(s, h) = 0

LEMMA NothingDelivered ==
  ASSUME IInv, NoDelivery
  PROVE  EdgesOK'
<1> SUFFICES ASSUME NEW s \in Rank, NEW h \in Shared(s)
             PROVE  EdgeOK(s, h)'
  BY DEF EdgesOK
<1> DEFINE q == bc[s][h]
           g == Opposite(h)
<1>1. q \in Rank /\ g \in Shared(q)
  BY SharedFace
<1>2. EdgeOK(s, h)
  BY DEF IInv, EdgesOK
<1>3. epoch[s] \in Nat /\ epoch[q] \in Nat
  BY <1>1 DEF IInv, TypeOK
<1>4. 2*epoch'[s] + Sent(s, h)' = 2*epoch'[q] + Received(q, g)'
  BY <1>1, <1>2 DEF NoDelivery, EdgeOK
<1>5. ASSUME rreq'[q][g] \in {"cnt_full", "pay"} PROVE n_recv'[q][g] = n_send(s, h)'
  <2>1. rreq[q][g] \in {"cnt_full", "pay"} /\ n_recv'[q][g] = n_recv[q][g]
    BY <1>1, <1>5 DEF NoDelivery
  <2>2. n_recv[q][g] = n_send(s, h)
    BY <1>2, <2>1 DEF EdgeOK
  <2>3. Received(q, g) = 1
    BY <2>1 DEF Received
  <2>4. Sent(s, h) # 0
    BY <1>2, <1>3, <2>3 DEF EdgeOK
  <2>5. sbuf'[s][h] = sbuf[s][h]
    BY <2>4 DEF NoDelivery
  <2>. QED  BY <2>1, <2>2, <2>5 DEF n_send
<1>. QED  BY <1>4, <1>5 DEF EdgeOK

LEMMA EdgesStep == IInv /\ [Next]_vars => EdgesOK'
<1> SUFFICES ASSUME IInv, [Next]_vars PROVE EdgesOK'
  OBVIOUS
<1>0. TypeOK /\ RequestsOK /\ EdgesOK
  BY DEF IInv
<1>s. \A s \in Rank : \A h \in Shared(s) : h \in Face /\ SendOK(s, h) /\ RecvOK(s, h)
  BY <1>0, SharedFace DEF RequestsOK
<1>1. ASSUME NEW r \in Rank, AdvanceP(r) PROVE NoDelivery
  BY <1>0, <1>s, <1>1 DEF AdvanceP, TypeOK, NoDelivery, Sent, Received, portVars
<1>2. ASSUME NEW r \in Rank, BeginRound(r) PROVE NoDelivery
  <2> SUFFICES ASSUME NEW s \in Rank, NEW h \in Shared(s)
               PROVE  /\ 2*epoch'[s] + Sent(s, h)' = 2*epoch[s] + Sent(s, h)
                      /\ 2*epoch'[s] + Received(s, h)' = 2*epoch[s] + Received(s, h)
                      /\ rreq'[s][h] \in {"cnt_full", "pay"} =>
                           rreq[s][h] \in {"cnt_full", "pay"} /\ n_recv'[s][h] = n_recv[s][h]
                      /\ sbuf'[s][h] = sbuf[s][h] \/ Sent(s, h) = 0
    BY DEF NoDelivery
  <2>1. CASE s # r
    BY <1>0, <1>s, <1>2, <2>1 DEF BeginRound, TypeOK, Sent, Received, clockVars
  <2>2. CASE s = r
    <3>1. pc[r] = "round" /\ sreq[r][h] = "idle" /\ rreq[r][h] = "idle"
      BY <1>s, <1>2, <2>2 DEF BeginRound, SendOK, RecvOK
    <3>2. /\ pc'[r] = "cnt_recv" /\ sreq'[r][h] = "cnt" /\ rreq'[r][h] = "cnt"
          /\ epoch' = epoch /\ n_recv' = n_recv
      BY <1>0, <1>s, <1>2, <2>2 DEF BeginRound, TypeOK, clockVars
    <3>. QED  BY <2>2, <3>1, <3>2 DEF Sent, Received
  <2>. QED  BY <2>1, <2>2
<1>3. ASSUME NEW r \in Rank, NEW f \in Face, EndCountRecv(r, f) PROVE NoDelivery
  <2>1. /\ pc[r] = "cnt_recv" /\ f \in todo[r] /\ LoopOK(r) /\ Visit(r, f)
        /\ rreq[r][f] = "cnt_full" /\ rreq' = [rreq EXCEPT ![r][f] = "pay"]
        /\ sreq' = sreq /\ epoch' = epoch /\ n_recv' = n_recv /\ sbuf' = sbuf
    BY <1>0, <1>3 DEF EndCountRecv, Current, RequestsOK, clockVars
  <2>2. /\ \A s \in Rank \ {r} : pc'[s] = pc[s]
        /\ pc'[r] \in {"cnt_recv", "cnt_send"}
    BY <1>0, <2>1, VisitLoop DEF Waiting, NextStage
  <2>3. ASSUME NEW s \in Rank, NEW h \in Shared(s)
        PROVE  /\ Sent(s, h)' = Sent(s, h) /\ Received(s, h)' = Received(s, h)
               /\ rreq'[s][h] \in {"cnt_full", "pay"} => rreq[s][h] \in {"cnt_full", "pay"}
    <3>1. CASE s # r
      BY <1>0, <2>1, <2>2, <3>1 DEF TypeOK, Sent, Received
    <3>2. CASE s = r
      <4>1. /\ rreq'[r][h] = IF h = f THEN "pay" ELSE rreq[r][h]
            /\ sreq'[r][h] = sreq[r][h]
        BY <1>0, <1>s, <2>1, <3>2 DEF TypeOK
      <4>2. SendOK(r, h) /\ RecvOK(r, h)
        BY <1>s, <3>2
      <4>3. Sent(r, h)' = Sent(r, h)
        BY <2>1, <2>2, <3>2, <4>1, <4>2 DEF Sent, SendOK
      <4>4. Received(r, h)' = Received(r, h)
        BY <2>1, <2>2, <3>2, <4>1, <4>2 DEF Received, RecvOK
      <4>. QED  BY <2>1, <3>2, <4>1, <4>3, <4>4 DEF Sent, Received
    <3>. QED  BY <3>1, <3>2
  <2>. QED  BY <2>1, <2>3 DEF NoDelivery
<1>4. ASSUME NEW r \in Rank, NEW f \in Face, EndCountSend(r, f) PROVE NoDelivery
  <2>1. /\ pc[r] = "cnt_send" /\ f \in todo[r] /\ LoopOK(r) /\ Visit(r, f)
        /\ sreq[r][f] = "cnt_taken" /\ sreq' = [sreq EXCEPT ![r][f] = "pay"]
        /\ rreq' = rreq /\ epoch' = epoch /\ n_recv' = n_recv /\ sbuf' = sbuf
    BY <1>0, <1>4 DEF EndCountSend, Current, RequestsOK, clockVars
  <2>2. /\ \A s \in Rank \ {r} : pc'[s] = pc[s]
        /\ pc'[r] \in {"cnt_send", "pay_recv"}
    BY <1>0, <2>1, VisitLoop DEF Waiting, NextStage
  <2>3. ASSUME NEW s \in Rank, NEW h \in Shared(s)
        PROVE  /\ Sent(s, h)' = Sent(s, h) /\ Received(s, h)' = Received(s, h)
               /\ rreq'[s][h] \in {"cnt_full", "pay"} => rreq[s][h] \in {"cnt_full", "pay"}
    <3>1. CASE s # r
      BY <1>0, <2>1, <2>2, <3>1 DEF TypeOK, Sent, Received
    <3>2. CASE s = r
      <4>1. /\ sreq'[r][h] = IF h = f THEN "pay" ELSE sreq[r][h]
            /\ rreq'[r][h] = rreq[r][h]
        BY <1>0, <1>s, <2>1, <3>2 DEF TypeOK
      <4>2. SendOK(r, h) /\ RecvOK(r, h)
        BY <1>s, <3>2
      <4>3. Sent(r, h)' = Sent(r, h)
        BY <2>1, <2>2, <3>2, <4>1, <4>2 DEF Sent, SendOK
      <4>4. Received(r, h)' = Received(r, h)
        BY <2>1, <2>2, <3>2, <4>1, <4>2 DEF Received, RecvOK
      <4>. QED  BY <2>1, <3>2, <4>1, <4>3, <4>4 DEF Sent, Received
    <3>. QED  BY <3>1, <3>2
  <2>. QED  BY <2>1, <2>3 DEF NoDelivery
<1>5. ASSUME NEW r \in Rank, NEW f \in Face, EndPayloadRecv(r, f) PROVE NoDelivery
  <2>1. /\ pc[r] = "pay_recv" /\ f \in todo[r] /\ LoopOK(r) /\ Visit(r, f)
        /\ rreq[r][f] = "pay_full" /\ rreq' = [rreq EXCEPT ![r][f] = "idle"]
        /\ sreq' = sreq /\ epoch' = epoch /\ n_recv' = n_recv /\ sbuf' = sbuf
    BY <1>0, <1>5 DEF EndPayloadRecv, Current, RequestsOK, clockVars
  <2>2. /\ \A s \in Rank \ {r} : pc'[s] = pc[s]
        /\ pc'[r] \in {"pay_recv", "pay_send"}
    BY <1>0, <2>1, VisitLoop DEF Waiting, NextStage
  <2>3. ASSUME NEW s \in Rank, NEW h \in Shared(s)
        PROVE  /\ Sent(s, h)' = Sent(s, h) /\ Received(s, h)' = Received(s, h)
               /\ rreq'[s][h] \in {"cnt_full", "pay"} => rreq[s][h] \in {"cnt_full", "pay"}
    <3>1. CASE s # r
      BY <1>0, <2>1, <2>2, <3>1 DEF TypeOK, Sent, Received
    <3>2. CASE s = r
      <4>1. /\ rreq'[r][h] = IF h = f THEN "idle" ELSE rreq[r][h]
            /\ sreq'[r][h] = sreq[r][h]
        BY <1>0, <1>s, <2>1, <3>2 DEF TypeOK
      <4>2. SendOK(r, h) /\ RecvOK(r, h)
        BY <1>s, <3>2
      <4>3. Sent(r, h)' = Sent(r, h)
        BY <2>1, <2>2, <3>2, <4>1, <4>2 DEF Sent, SendOK
      <4>4. Received(r, h)' = Received(r, h)
        BY <2>1, <2>2, <3>2, <4>1, <4>2 DEF Received, RecvOK
      <4>. QED  BY <2>1, <3>2, <4>1, <4>3, <4>4 DEF Sent, Received
    <3>. QED  BY <3>1, <3>2
  <2>. QED  BY <2>1, <2>3 DEF NoDelivery
<1>6. ASSUME NEW r \in Rank, NEW f \in Face, EndPayloadSend(r, f) PROVE NoDelivery
  <2>1. /\ pc[r] = "pay_send" /\ f \in todo[r] /\ LoopOK(r) /\ Visit(r, f)
        /\ sreq[r][f] = "pay_taken" /\ sreq' = [sreq EXCEPT ![r][f] = "idle"]
        /\ rreq' = rreq /\ epoch' = epoch /\ n_recv' = n_recv /\ sbuf' = sbuf
    BY <1>0, <1>6 DEF EndPayloadSend, Current, RequestsOK, clockVars
  <2>2. /\ \A s \in Rank \ {r} : pc'[s] = pc[s]
        /\ pc'[r] \in {"pay_send", "update"}
    BY <1>0, <2>1, VisitLoop DEF Waiting, NextStage
  <2>3. ASSUME NEW s \in Rank, NEW h \in Shared(s)
        PROVE  /\ Sent(s, h)' = Sent(s, h) /\ Received(s, h)' = Received(s, h)
               /\ rreq'[s][h] \in {"cnt_full", "pay"} => rreq[s][h] \in {"cnt_full", "pay"}
    <3>1. CASE s # r
      BY <1>0, <2>1, <2>2, <3>1 DEF TypeOK, Sent, Received
    <3>2. CASE s = r
      <4>1. /\ sreq'[r][h] = IF h = f THEN "idle" ELSE sreq[r][h]
            /\ rreq'[r][h] = rreq[r][h]
        BY <1>0, <1>s, <2>1, <3>2 DEF TypeOK
      <4>2. SendOK(r, h) /\ RecvOK(r, h)
        BY <1>s, <3>2
      <4>3. Sent(r, h)' = Sent(r, h)
        BY <2>1, <2>2, <3>2, <4>1, <4>2 DEF Sent, SendOK
      <4>4. Received(r, h)' = Received(r, h)
        BY <2>1, <2>2, <3>2, <4>1, <4>2 DEF Received, RecvOK
      <4>. QED  BY <2>1, <3>2, <4>1, <4>3, <4>4 DEF Sent, Received
    <3>. QED  BY <3>1, <3>2
  <2>. QED  BY <2>1, <2>3 DEF NoDelivery
<1>7. ASSUME NEW r \in Rank, FinishRound(r) PROVE NoDelivery
  <2>1. /\ pc[r] = "update" /\ pc' = [pc EXCEPT ![r] = "round"]
        /\ epoch' = [epoch EXCEPT ![r] = epoch[r] + 1] /\ epoch[r] \in Nat
        /\ sreq' = sreq /\ rreq' = rreq /\ n_recv' = n_recv /\ sbuf' = sbuf
    BY <1>0, <1>7 DEF FinishRound, TypeOK, portVars
  <2>2. ASSUME NEW s \in Rank, NEW h \in Shared(s)
        PROVE  /\ 2*epoch'[s] + Sent(s, h)' = 2*epoch[s] + Sent(s, h)
               /\ 2*epoch'[s] + Received(s, h)' = 2*epoch[s] + Received(s, h)
    <3>1. CASE s # r
      BY <1>0, <2>1, <3>1 DEF TypeOK, Sent, Received
    <3>2. CASE s = r
      <4>1. sreq[r][h] = "idle" /\ rreq[r][h] = "idle"
        BY <1>s, <2>1, <3>2 DEF SendOK, RecvOK
      <4>2. pc'[r] = "round" /\ epoch'[r] = epoch[r] + 1
        BY <1>0, <2>1 DEF TypeOK
      <4>. QED  BY <2>1, <3>2, <4>1, <4>2 DEF Sent, Received
    <3>. QED  BY <3>1, <3>2
  <2>. QED  BY <2>1, <2>2 DEF NoDelivery
<1>8. ASSUME NEW r \in Rank, FinishStep(r) PROVE NoDelivery
  BY <1>0, <1>s, <1>8 DEF FinishStep, TypeOK, NoDelivery, Sent, Received, portVars
<1>9. ASSUME NEW r \in Rank, NEW f \in Face, Transfer(r, f) PROVE EdgesOK'
  <2> DEFINE q == bc[r][f]
             g == Opposite(f)
  <2>1. f \in Shared(r) /\ q \in Rank /\ q # r /\ g \in Shared(q) /\ g \in Face
        /\ bc[q][g] = r /\ Opposite(g) = f
    BY <1>9, SharedFace DEF Transfer
  <2>2. sreq[r][f] \in {"cnt", "pay"} /\ rreq[q][g] \in {"cnt", "pay"}
    BY <1>9 DEF Transfer
  <2>3. sreq[r][f] = rreq[q][g] /\ (sreq[r][f] = "pay" => n_recv[q][g] = n_send(r, f))
    BY <2>1, <2>2, TransferMatches
  <2>4. /\ pc' = pc /\ epoch' = epoch /\ sbuf' = sbuf
        /\ sreq' = [sreq EXCEPT ![r][f] = IF sreq[r][f] = "cnt" THEN "cnt_taken"
                                          ELSE "pay_taken"]
        /\ rreq' = [rreq EXCEPT ![q][g] = IF sreq[r][f] = "cnt" THEN "cnt_full"
                                          ELSE "pay_full"]
        /\ n_recv' = [n_recv EXCEPT ![q][g] = IF sreq[r][f] = "cnt" THEN n_send(r, f)
                                              ELSE n_recv[q][g]]
    BY <1>9, <2>3 DEF Transfer, clockVars
  <2> HIDE DEF q, g
  <2> SUFFICES ASSUME NEW s \in Rank, NEW h \in Shared(s)
               PROVE  EdgeOK(s, h)'
    BY DEF EdgesOK
  <2>5. EdgeOK(s, h) /\ bc[s][h] \in Rank /\ Opposite(h) \in Face /\ h \in Face
    BY <1>0, SharedFace DEF EdgesOK, Shared
  <2>6. epoch[s] \in Nat /\ epoch[bc[s][h]] \in Nat /\ epoch[q] \in Nat /\ epoch[r] \in Nat
    BY <1>0, <2>1, <2>5 DEF TypeOK
  <2>7. CASE s = r /\ h = f
    <3>1. bc[s][h] = q /\ Opposite(h) = g
      BY <2>7 DEF q, g
    <3>2. /\ sreq'[r][f] = IF sreq[r][f] = "cnt" THEN "cnt_taken" ELSE "pay_taken"
          /\ rreq'[q][g] = IF sreq[r][f] = "cnt" THEN "cnt_full" ELSE "pay_full"
          /\ n_recv'[q][g] = IF sreq[r][f] = "cnt" THEN n_send(r, f) ELSE n_recv[q][g]
      BY <1>0, <2>1, <2>4, <2>5, <2>7 DEF TypeOK
    <3>3. Sent(r, f)' = Sent(r, f) + 1 /\ Received(q, g)' = Received(q, g) + 1
      BY <2>2, <2>3, <3>2 DEF Sent, Received
    <3>4. Sent(r, f) \in Nat /\ Received(q, g) \in Nat
      BY DEF Sent, Received
    <3>5. 2*epoch'[r] + Sent(r, f)' = 2*epoch'[q] + Received(q, g)'
      <4>1. 2*epoch[r] + Sent(r, f) = 2*epoch[q] + Received(q, g)
        BY <2>5, <2>7, <3>1 DEF EdgeOK
      <4>. QED  BY <2>4, <2>6, <3>3, <3>4, <4>1
    <3>6. rreq'[q][g] \in {"cnt_full", "pay"} => n_recv'[q][g] = n_send(r, f)'
      BY <2>4, <3>2 DEF n_send
    <3>. QED  BY <2>7, <3>1, <3>5, <3>6 DEF EdgeOK
  <2>8. CASE ~(s = r /\ h = f)
    <3>1. ~(bc[s][h] = q /\ Opposite(h) = g)
      BY <2>1, <2>8, SharedFace DEF q, g
    <3>2. sreq'[s][h] = sreq[s][h]
      BY <1>0, <2>1, <2>4, <2>5, <2>8 DEF TypeOK
    <3>3. /\ rreq'[bc[s][h]][Opposite(h)] = rreq[bc[s][h]][Opposite(h)]
          /\ n_recv'[bc[s][h]][Opposite(h)] = n_recv[bc[s][h]][Opposite(h)]
      BY <1>0, <2>1, <2>4, <2>5, <3>1 DEF TypeOK
    <3>4. Sent(s, h)' = Sent(s, h) /\ Received(bc[s][h], Opposite(h))' = Received(bc[s][h], Opposite(h))
      BY <2>4, <3>2, <3>3 DEF Sent, Received
    <3>5. n_send(s, h)' = n_send(s, h)
      BY <2>4 DEF n_send
    <3>. QED  BY <2>4, <2>5, <3>3, <3>4, <3>5 DEF EdgeOK
  <2>. QED  BY <2>7, <2>8
<1>10. CASE UNCHANGED vars
  <2>1. pc' = pc /\ epoch' = epoch /\ UNCHANGED <<sbuf, n_recv, sreq, rreq>>
    BY <1>10 DEF vars, clockVars, portVars
  <2>2. \A s \in Rank : \A h \in Shared(s) :
          Sent(s, h)' = Sent(s, h) /\ Received(s, h)' = Received(s, h)
    BY <2>1 DEF Sent, Received
  <2>3. NoDelivery
    BY <2>1, <2>2 DEF NoDelivery
  <2>. QED  BY <2>3, NothingDelivered
<1>. QED  BY <1>1, <1>2, <1>3, <1>4, <1>5, <1>6, <1>7, <1>8, <1>9, <1>10, NothingDelivered
          DEF Next, RankStep, Stop

THEOREM ProtocolInvariant == Spec => []IInv
<1>1. IInv /\ [Next]_vars => IInv'
  BY StepType, RequestsStep, EdgesStep DEF IInv
<1>. QED  BY InitInv, <1>1, PTL DEF Spec

\* A receive never meets a message of another kind or size, whatever the
\* decomposition: the count sent first is the count of the injectors that
\* follow, and no message is taken for one of a later round.
THEOREM SizesAlwaysMatch == Spec => []SizesMatch
<1>1. IInv => SizesMatch
  BY DEF IInv, RequestsOK, RecvOK, SizesMatch
<1>. QED  BY ProtocolInvariant, <1>1, PTL

\* boundary_p_kokkos always returns with every port idle.
THEOREM PortsAlwaysQuiet == Spec => []PortsQuiet
<1>1. IInv => PortsQuiet
  BY DEF IInv, RequestsOK, SendOK, RecvOK, PortsQuiet
<1>. QED  BY ProtocolInvariant, <1>1, PTL

\* Neighbours are never more than one communication round apart, in runs of any
\* length on any number of ranks.
THEOREM NeighboursAlwaysInStep == Spec => []NeighboursInStep
<1>1. IInv => NeighboursInStep
  <2> SUFFICES ASSUME IInv, NEW r \in Rank, NEW f \in Shared(r)
               PROVE  epoch[r] - epoch[bc[r][f]] \in {-1, 0, 1}
    BY DEF NeighboursInStep
  <2>1. 2*epoch[r] + Sent(r, f) = 2*epoch[bc[r][f]] + Received(bc[r][f], Opposite(f))
    BY DEF IInv, EdgesOK, EdgeOK
  <2>2. epoch[r] \in Nat /\ epoch[bc[r][f]] \in Nat
    BY SharedFace DEF IInv, TypeOK
  <2>3. Sent(r, f) \in 0..2 /\ Received(bc[r][f], Opposite(f)) \in 0..2
    BY DEF Sent, Received
  <2>. QED  BY <2>1, <2>2, <2>3
<1>. QED  BY ProtocolInvariant, <1>1, PTL

\* No step changes a send buffer between its count and its payload.
THEOREM SendBufferAlwaysStable == Spec => SendBufferStable
<1> DEFINE Kept == \A r \in Rank : \A f \in Face :
                     sreq[r][f] \in {"cnt", "cnt_taken", "pay"} => sbuf'[r][f] = sbuf[r][f]
<1>1. ASSUME IInv, NEW r \in Rank, BeginRound(r) PROVE Kept
  <2>1. pc[r] = "round" /\ \A h \in Face : sreq[r][h] = "idle"
    BY <1>1 DEF IInv, RequestsOK, BeginRound, SendOK
  <2>2. \A s \in Rank \ {r} : sbuf'[s] = sbuf[s]
    BY <1>1 DEF IInv, TypeOK, BeginRound
  <2>. QED  BY <2>1, <2>2
<1>2. ASSUME [Next]_vars, \A r \in Rank : ~BeginRound(r) PROVE sbuf' = sbuf
  <2>1. ASSUME NEW r \in Rank, RankStep(r) PROVE sbuf' = sbuf
    BY <1>2, <2>1 DEF RankStep, AdvanceP, EndCountRecv, EndCountSend, EndPayloadRecv,
                      EndPayloadSend, FinishRound, FinishStep, portVars
  <2>2. ASSUME NEW r \in Rank, NEW f \in Face, Transfer(r, f) PROVE sbuf' = sbuf
    BY <2>2 DEF Transfer
  <2>. QED  BY <1>2, <2>1, <2>2 DEF Next, Stop, vars, portVars
<1>3. IInv /\ [Next]_vars => [Kept]_vars
  BY <1>1, <1>2
<1>4. Spec => [][Kept]_vars
  BY ProtocolInvariant, <1>3, PTL DEF Spec
<1>. QED  BY <1>4 DEF SendBufferStable
-----------------------------------------------------------------------------
(***************************************************************************)
(* No particle is lost or duplicated by the exchange, its charge arrives   *)
(* once, and one round per axis empties the guard lists.                   *)
(***************************************************************************)

(***************************************************************************)
(* The kinds of places a particle can be at.  A particle is lost when      *)
(* advance() forgets a guard list that is not empty.                       *)
(***************************************************************************)
Kind == {"list", "recvd", "absorbed", "guard", "outgoing", "landed", "dropped", "lost"}

InList(p, r) == p \in parts[r] \ holes[r]
InRecvd(p, r) == p \in recvd[r]
Charged(p, r) == accum[r][p] + rhob[r][p] # 0
OnGuard(p, r, f) == <<p, f>> \in movers[r]
IsOutgoing(p, r, f) == p \in sbuf[r][f] /\ sreq[r][f] \in {"cnt", "cnt_taken", "pay"}
HasLanded(p, r, f) == p \in rbuf[r][f] /\ rreq[r][f] = "pay_full"

(* p is at a place of kind k of rank r and face f, and at no other one.    *)
OnlyAt(p, k, r, f) ==
  /\ \A q \in Rank :
       /\ InList(p, q) <=> k = "list" /\ q = r
       /\ InRecvd(p, q) <=> k = "recvd" /\ q = r
       /\ Charged(p, q) <=> k = "absorbed" /\ q = r
  /\ \A q \in Rank, g \in Face :
       /\ OnGuard(p, q, g) <=> k = "guard" /\ q = r /\ g = f
       /\ IsOutgoing(p, q, g) <=> k = "outgoing" /\ q = r /\ g = f
       /\ HasLanded(p, q, g) <=> k = "landed" /\ q = r /\ g = f
  /\ p \in dropped <=> k = "dropped"

(* A particle that is still under way after some rounds has crossed more   *)
(* axes than there were rounds; only too few rounds lose one.              *)
Crossed(p) == Cardinality(hops[p])
Due(r) == round[r] + IF pc[r] = "round" THEN 1 ELSE 2
Travelled(p, k, r, f) ==
  /\ k = "absorbed" => accum[r][p] + rhob[r][p] = 1
  /\ k = "guard" =>
       /\ bc[r][f] \notin {Reflect, r}
       /\ Crossed(p) >= Due(r)
  /\ k \in {"outgoing", "landed"} => Crossed(p) >= round[r] + 1
  /\ k = "outgoing" => f \in Shared(r)
  /\ k = "lost" => NumCommRound < Dim

(* The rank that owns a particle, or the code of what ended it.            *)
OwnerOf(k, r, f) ==
  CASE k = "absorbed" -> Absorb
    [] k = "dropped"  -> Custom
    [] k = "outgoing" -> bc[r][f]
    [] OTHER          -> r

(* p is at one place, and o owns it there.                                 *)
Belongs(p, o) ==
  \E k \in Kind, r \in Rank, f \in Face :
    OnlyAt(p, k, r, f) /\ Travelled(p, k, r, f) /\ o = OwnerOf(k, r, f)

(* What a rank has left over between two steps, and between two rounds.    *)
ListsOK ==
  \A r \in Rank :
    /\ pc[r] = "advance" => holes[r] = {} /\ recvd[r] = {} /\ movers[r] = {}
    /\ pc[r] \in {"advance", "round"} \/ ~absorbed[r] => \A p \in Particle : accum[r][p] = 0

(* The epoch of a rank tells its round.                                    *)
ClockOK ==
  \A r \in Rank :
    /\ pc[r] # "advance" => epoch[r] = step[r]*NumCommRound + round[r] /\ round[r] <= NumCommRound
    /\ pc[r] = "advance" => epoch[r] = step[r]*NumCommRound
    /\ pc[r] \notin {"advance", "round"} => round[r] < NumCommRound

Conserved == \A p \in Particle : \E o : Belongs(p, o)

CInv == IInv /\ ListsOK /\ ClockOK /\ Conserved

-----------------------------------------------------------------------------
(* No list, buffer or charge changes for p.                                *)
Unmoved(p) ==
  /\ \A q \in Rank :
       (InList(p, q)' <=> InList(p, q)) /\ (InRecvd(p, q)' <=> InRecvd(p, q))
         /\ (Charged(p, q)' <=> Charged(p, q))
  /\ \A q \in Rank, g \in Face :
       (OnGuard(p, q, g)' <=> OnGuard(p, q, g)) /\ (IsOutgoing(p, q, g)' <=> IsOutgoing(p, q, g))
         /\ (HasLanded(p, q, g)' <=> HasLanded(p, q, g))
  /\ p \in dropped' <=> p \in dropped

LEMMA Stays ==
  ASSUME NEW p, NEW k, NEW r, NEW f, OnlyAt(p, k, r, f), Unmoved(p)
  PROVE  OnlyAt(p, k, r, f)'
BY DEF OnlyAt, Unmoved

LEMMA Domain ==
  /\ 0 \in Face /\ 0 \in Rank
  /\ \A r \in Rank, f \in Face : bc[r][f] \in Rank \cup {Reflect, Absorb, Custom}
  /\ Reflect \notin Rank /\ Absorb \notin Rank /\ Custom \notin Rank
  /\ Reflect # Absorb /\ Absorb # Custom /\ Rest \notin Face
BY DomainAssumption DEF Face, Rank, Reflect, Absorb, Custom, Rest

(* hops[p] holds axes, of which there are Dim.                             *)
LEMMA AxesCount ==
  ASSUME NEW S \in SUBSET Axis
  PROVE  /\ IsFiniteSet(S) /\ Cardinality(S) \in Nat /\ Cardinality(S) <= Dim
         /\ \A a \in Axis \ S : Cardinality(S \cup {a}) = Cardinality(S) + 1
         /\ \A a \in Axis : Cardinality({} \cup {a}) = 1
<1>1. IsFiniteSet(Axis) /\ Cardinality(Axis) = Dim
  BY DomainAssumption, FS_Interval DEF Axis
<1>2. IsFiniteSet(S) /\ Cardinality(S) <= Dim
  BY <1>1, FS_Subset
<1>3. Cardinality(S) \in Nat
  BY <1>2, FS_CardinalityType
<1>4. \A a \in Axis \ S : Cardinality(S \cup {a}) = Cardinality(S) + 1
  BY <1>2, FS_AddElement
<1>5. ASSUME NEW a \in Axis PROVE Cardinality({} \cup {a}) = 1
  <2>1. {} \cup {a} = {a}
    OBVIOUS
  <2>. QED  BY <2>1, FS_Singleton
<1>. QED  BY <1>2, <1>3, <1>4, <1>5

LEMMA InitBelongs ==
  ASSUME Init, NEW p \in Particle
  PROVE  \E o \in Rank : Belongs(p, o)
<1>1. PICK home \in [Particle -> Rank] : parts = [r \in Rank |-> {x \in Particle : home[x] = r}]
  BY DEF Init
<1>2. home[p] \in Rank /\ \A q \in Rank : InList(p, q) <=> q = home[p]
  BY <1>1 DEF Init, InList
<1>3. OnlyAt(p, "list", home[p], 0)
  BY <1>2 DEF Init, OnlyAt, InRecvd, Charged, OnGuard, IsOutgoing, HasLanded
<1>4. Travelled(p, "list", home[p], 0)
  BY DEF Travelled
<1>. QED  BY <1>2, <1>3, <1>4, Domain DEF Belongs, OwnerOf, Kind

LEMMA InitConserved == Init => CInv
<1> SUFFICES ASSUME Init PROVE CInv
  OBVIOUS
<1>1. ListsOK
  BY DEF Init, ListsOK
<1>2. ClockOK
  BY DomainAssumption DEF Init, ClockOK
<1>3. Conserved
  BY InitBelongs DEF Conserved
<1>. QED  BY InitInv, <1>1, <1>2, <1>3 DEF CInv

-----------------------------------------------------------------------------
(***************************************************************************)
(* One lemma for each kind of step: every particle stays at its place or   *)
(* moves to another one, and only BeginRound gives it to another owner.    *)
(***************************************************************************)

\* p stays where it is, and nothing it is measured against changes.
LEMMA Waits ==
  ASSUME NEW p, NEW k \in Kind, NEW r \in Rank, NEW f \in Face,
         OnlyAt(p, k, r, f), Travelled(p, k, r, f), Unmoved(p), hops'[p] = hops[p],
         k = "absorbed" => accum'[r][p] + rhob'[r][p] = accum[r][p] + rhob[r][p],
         k = "guard" => Due(r)' = Due(r),
         k \in {"outgoing", "landed"} => round'[r] = round[r]
  PROVE  Belongs(p, OwnerOf(k, r, f))'
<1>1. OnlyAt(p, k, r, f)'
  BY Stays
<1>2. Crossed(p)' = Crossed(p) /\ Shared(r)' = Shared(r)
  BY DEF Crossed, Shared
<1>3. Travelled(p, k, r, f)'
  BY <1>2 DEF Travelled
<1>. QED  BY <1>1, <1>3 DEF Belongs, OwnerOf

\* The guard list built from the particles of S.
LEMMA Listed ==
  ASSUME NEW S, NEW out \in [S -> Face \cup {Rest}], NEW p, NEW g \in Face
  PROVE  <<p, g>> \in OnGuardList(S, out) <=> p \in S /\ out[p] = g
BY Domain DEF OnGuardList, Stopped

\* A rank outside its rounds has no message of its own under way.
LEMMA Idle ==
  ASSUME IInv, NEW r \in Rank, pc[r] \in {"advance", "round", "update"},
         NEW p, NEW f \in Face
  PROVE  ~IsOutgoing(p, r, f) /\ ~HasLanded(p, r, f)
BY DEF IInv, RequestsOK, SendOK, RecvOK, IsOutgoing, HasLanded

LEMMA AdvanceConserves ==
  ASSUME CInv, NEW s \in Rank, AdvanceP(s), NEW p \in Particle,
         NEW o, Belongs(p, o)
  PROVE  Belongs(p, o)'
<1>1. PICK k \in Kind, r \in Rank, f \in Face :
        OnlyAt(p, k, r, f) /\ Travelled(p, k, r, f) /\ o = OwnerOf(k, r, f)
  BY DEF Belongs
<1>2. TypeOK /\ IInv /\ pc[s] = "advance" /\ holes[s] = {} /\ movers[s] = {}
  BY DEF CInv, IInv, ListsOK, AdvanceP
<1> DEFINE fresh == [x \in Particle |-> IF x \in parts[s] THEN {} ELSE hops[x]]
<1>3. PICK out \in [parts[s] -> Face \cup {Rest}] :
        /\ \A x \in parts[s] : out[x] \in MoveP(s, {})
        /\ movers' = [movers EXCEPT ![s] = OnGuardList(parts[s], out)]
        /\ holes' = [holes EXCEPT ![s] = Stopped(parts[s], out)]
        /\ hops' = AxesCrossed(parts[s], out, fresh)
  BY DEF AdvanceP
<1>4. /\ round' = [round EXCEPT ![s] = 0] /\ pc' = [pc EXCEPT ![s] = "round"]
      /\ UNCHANGED <<parts, recvd, dropped, accum, rhob, sbuf, rbuf, sreq, rreq>>
  BY DEF AdvanceP, chargeVars, portVars
<1>5. \A q \in Rank, g \in Face :
        OnGuard(p, q, g)' <=> IF q = s THEN p \in parts[s] /\ out[p] = g ELSE OnGuard(p, q, g)
  <2>1. movers'[s] = OnGuardList(parts[s], out) /\ \A q \in Rank \ {s} : movers'[q] = movers[q]
    BY <1>2, <1>3 DEF TypeOK
  <2>2. \A g \in Face : <<p, g>> \in OnGuardList(parts[s], out) <=> p \in parts[s] /\ out[p] = g
    BY Listed
  <2>. QED  BY <2>1, <2>2 DEF OnGuard
<1>6. \A q \in Rank :
        InList(p, q)' <=> InList(p, q) /\ (q = s => out[p] = Rest)
  BY <1>2, <1>3, <1>4 DEF InList, TypeOK, Stopped
<1>7. /\ \A q \in Rank : (InRecvd(p, q)' <=> InRecvd(p, q)) /\ (Charged(p, q)' <=> Charged(p, q))
      /\ \A q \in Rank, g \in Face :
           (IsOutgoing(p, q, g)' <=> IsOutgoing(p, q, g)) /\ (HasLanded(p, q, g)' <=> HasLanded(p, q, g))
      /\ p \in dropped' <=> p \in dropped
  BY <1>4 DEF InRecvd, Charged, IsOutgoing, HasLanded
<1>8. CASE p \in parts[s] /\ out[p] # Rest
  <2>1. InList(p, s) /\ out[p] \in Face
    BY <1>2, <1>8 DEF InList
  <2>2. k = "list" /\ r = s
    BY <1>1, <2>1 DEF OnlyAt
  <2>3. OnlyAt(p, "guard", s, out[p])'
    BY <1>1, <1>5, <1>6, <1>7, <1>8, <2>1, <2>2 DEF OnlyAt
  <2>4. hops'[p] = {} \cup {AxisOf(out[p])}
    BY <1>3, <1>8 DEF AxesCrossed, Stopped
  <2>5. Crossed(p)' = 1
    BY <2>1, <2>4, AxesCount, OppositeFace DEF Crossed
  <2>6. Due(s)' = 1
    BY <1>2, <1>4 DEF Due, TypeOK
  <2>7. bc[s][out[p]] \notin {Reflect, s}
    BY <1>3, <1>8, Domain DEF MoveP
  <2>8. Travelled(p, "guard", s, out[p])'
    BY <2>5, <2>6, <2>7 DEF Travelled
  <2>. QED  BY <1>1, <2>1, <2>2, <2>3, <2>8 DEF Belongs, OwnerOf, Kind
<1>9. CASE ~(p \in parts[s] /\ out[p] # Rest)
  <2>1. Unmoved(p)
    <3>1. \A q \in Rank : InList(p, q)' <=> InList(p, q)
      BY <1>6, <1>9 DEF InList
    <3>2. \A q \in Rank, g \in Face : OnGuard(p, q, g)' <=> OnGuard(p, q, g)
      BY <1>2, <1>5, <1>9, Domain DEF OnGuard
    <3>. QED  BY <1>7, <3>1, <3>2 DEF Unmoved
  <2>2. CASE p \in parts[s]
    <3>1. k = "list" /\ r = s
      BY <1>1, <1>2, <2>2 DEF OnlyAt, InList
    <3>2. OnlyAt(p, k, r, f)'
      BY <1>1, <2>1, Stays
    <3>3. Travelled(p, k, r, f)'
      BY <3>1 DEF Travelled
    <3>. QED  BY <1>1, <3>2, <3>3 DEF Belongs
  <2>3. CASE p \notin parts[s]
    <3>1. hops'[p] = hops[p]
      BY <1>3, <2>3 DEF AxesCrossed, Stopped
    <3>2. k = "guard" => r # s
      BY <1>1, <1>2 DEF OnlyAt, OnGuard
    <3>3. k \in {"outgoing", "landed"} => r # s
      BY <1>1, <1>2, Idle DEF OnlyAt
    <3>4. \A q \in Rank \ {s} : round'[q] = round[q] /\ pc'[q] = pc[q]
      BY <1>2, <1>4 DEF TypeOK
    <3>. QED  BY <1>1, <1>4, <2>1, <3>1, <3>2, <3>3, <3>4, Waits DEF Due
  <2>. QED  BY <2>2, <2>3
<1>. QED  BY <1>8, <1>9

LEMMA BeginConserves ==
  ASSUME CInv, NEW s \in Rank, BeginRound(s), NEW p \in Particle,
         NEW o, Belongs(p, o)
  PROVE  /\ \A e \in Face : OnGuard(p, s, e) =>
              /\ o = s /\ bc[s][e] \in (Rank \ {s}) \cup {Absorb, Custom}
              /\ Belongs(p, bc[s][e])'
         /\ (\A e \in Face : ~OnGuard(p, s, e)) => Belongs(p, o)'
<1>1. PICK k \in Kind, r \in Rank, f \in Face :
        OnlyAt(p, k, r, f) /\ Travelled(p, k, r, f) /\ o = OwnerOf(k, r, f)
  BY DEF Belongs
<1>2. TypeOK /\ IInv /\ pc[s] = "round" /\ (k \in {"outgoing", "landed"} => r # s)
  <2>1. TypeOK /\ IInv /\ pc[s] = "round"
    BY DEF CInv, IInv, BeginRound
  <2>. QED  BY <1>1, <2>1, Idle DEF OnlyAt
<1>3. /\ rreq'[s] = [g \in Face |-> IF g \in Shared(s) THEN "cnt" ELSE rreq[s][g]]
      /\ sbuf'[s] = [g \in Face |-> IF g \in Shared(s) THEN Hitting(s, g) ELSE sbuf[s][g]]
      /\ sreq'[s] = [g \in Face |-> IF g \in Shared(s) THEN "cnt" ELSE sreq[s][g]]
      /\ accum'[s] = [x \in Particle |-> IF x \in HittingBC(s, Absorb) THEN accum[s][x] + 1
                                         ELSE accum[s][x]]
      /\ movers'[s] = {} /\ pc'[s] # "round"
      /\ \A q \in Rank \ {s} : /\ rreq'[q] = rreq[q] /\ sbuf'[q] = sbuf[q] /\ sreq'[q] = sreq[q]
                               /\ accum'[q] = accum[q] /\ movers'[q] = movers[q] /\ pc'[q] = pc[q]
  BY <1>2 DEF BeginRound, TypeOK
<1>4. /\ dropped' = dropped \cup HittingBC(s, Custom)
      /\ UNCHANGED <<round, parts, holes, hops, recvd, rhob, rbuf>>
  BY DEF BeginRound, clockVars
<1>5. \A q \in Rank : (InList(p, q)' <=> InList(p, q)) /\ (InRecvd(p, q)' <=> InRecvd(p, q))
  BY <1>4 DEF InList, InRecvd
<1>6. \A q \in Rank, g \in Face : OnGuard(p, q, g)' <=> OnGuard(p, q, g) /\ q # s
  BY <1>3 DEF OnGuard
<1>7. \A q \in Rank, g \in Face : HasLanded(p, q, g)' <=> HasLanded(p, q, g)
  <2>1. \A g \in Face : ~HasLanded(p, s, g)
    BY <1>2, Idle
  <2>2. \A g \in Face : rreq'[s][g] = "cnt" \/ rreq'[s][g] = rreq[s][g]
    BY <1>3
  <2>. QED  BY <1>3, <1>4, <2>1, <2>2 DEF HasLanded
<1>8. \A q \in Rank, g \in Face :
        IsOutgoing(p, q, g)' <=> IF q = s THEN g \in Shared(s) /\ OnGuard(p, s, g)
                                 ELSE IsOutgoing(p, q, g)
  <2>1. \A g \in Face : ~IsOutgoing(p, s, g)
    BY <1>2, Idle
  <2>2. \A g \in Face : p \in Hitting(s, g) <=> OnGuard(p, s, g)
    BY DEF Hitting, OnGuard
  <2>. QED  BY <1>3, <2>1, <2>2 DEF IsOutgoing
<1>9. \A code \in {Absorb, Custom} :
        p \in HittingBC(s, code) <=> \E g \in Face : bc[s][g] = code /\ OnGuard(p, s, g)
  BY DEF HittingBC, Hitting, OnGuard
<1>10. CASE k = "guard" /\ r = s
  <2>1. /\ \A g \in Face : OnGuard(p, s, g) <=> g = f
        /\ bc[s][f] \notin {Reflect, s} /\ Crossed(p) >= round[s] + 1
    BY <1>1, <1>2, <1>10 DEF OnlyAt, Travelled, Due
  <2>2. Crossed(p)' = Crossed(p) /\ round'[s] = round[s]
    BY <1>4 DEF Crossed
  <2>3. bc[s][f] \in (Rank \ {s}) \cup {Absorb, Custom}
    BY <2>1, Domain
  <2>4. accum[s][p] + rhob[s][p] = 0 /\ accum[s][p] \in Nat /\ rhob[s][p] \in Nat
    BY <1>1, <1>2, <1>10 DEF OnlyAt, Charged, TypeOK
  <2>5. ASSUME bc[s][f] \in Rank \ {s} PROVE Belongs(p, bc[s][f])'
    <3>1. f \in Shared(s)
      BY <2>5 DEF Shared
    <3>2. p \notin HittingBC(s, Absorb) /\ p \notin HittingBC(s, Custom)
      BY <1>9, <2>1, <2>5, Domain
    <3>3. \A q \in Rank : Charged(p, q)' <=> Charged(p, q)
      BY <1>3, <1>4, <3>2 DEF Charged
    <3>4. p \in dropped' <=> p \in dropped
      BY <1>4, <3>2
    <3>5. OnlyAt(p, "outgoing", s, f)'
      BY <1>1, <1>5, <1>6, <1>7, <1>8, <1>10, <3>1, <3>3, <3>4 DEF OnlyAt
    <3>6. Travelled(p, "outgoing", s, f)'
      BY <2>1, <2>2, <3>1 DEF Travelled, Shared
    <3>. QED  BY <3>5, <3>6 DEF Belongs, OwnerOf, Kind
  <2>6. ASSUME bc[s][f] = Absorb PROVE Belongs(p, Absorb)'
    <3>1. f \notin Shared(s) /\ p \in HittingBC(s, Absorb) /\ p \notin HittingBC(s, Custom)
      BY <1>9, <2>1, <2>6, Domain DEF Shared
    <3>2. accum'[s][p] + rhob'[s][p] = 1
      BY <1>3, <1>4, <2>4, <3>1
    <3>3. \A q \in Rank \ {s} : Charged(p, q)' <=> Charged(p, q)
      BY <1>3, <1>4 DEF Charged
    <3>4. p \in dropped' <=> p \in dropped
      BY <1>4, <3>1
    <3>5. Charged(p, s)'
      BY <3>2 DEF Charged
    <3>6. OnlyAt(p, "absorbed", s, f)'
      BY <1>1, <1>5, <1>6, <1>7, <1>8, <1>10, <3>1, <3>3, <3>4, <3>5 DEF OnlyAt
    <3>7. Travelled(p, "absorbed", s, f)'
      BY <3>2 DEF Travelled
    <3>. QED  BY <3>6, <3>7 DEF Belongs, OwnerOf, Kind
  <2>7. ASSUME bc[s][f] = Custom PROVE Belongs(p, Custom)'
    <3>1. f \notin Shared(s) /\ p \notin HittingBC(s, Absorb) /\ p \in HittingBC(s, Custom)
      BY <1>9, <2>1, <2>7, Domain DEF Shared
    <3>2. \A q \in Rank : Charged(p, q)' <=> Charged(p, q)
      BY <1>3, <1>4, <3>1 DEF Charged
    <3>3. p \in dropped'
      BY <1>4, <3>1
    <3>4. OnlyAt(p, "dropped", s, f)'
      BY <1>1, <1>5, <1>6, <1>7, <1>8, <1>10, <3>1, <3>2, <3>3 DEF OnlyAt
    <3>5. Travelled(p, "dropped", s, f)'
      BY DEF Travelled
    <3>. QED  BY <3>4, <3>5 DEF Belongs, OwnerOf, Kind
  <2>8. Belongs(p, bc[s][f])'
    BY <2>3, <2>5, <2>6, <2>7
  <2>9. o = s
    BY <1>1, <1>10 DEF OwnerOf
  <2>. QED  BY <2>1, <2>3, <2>8, <2>9
<1>11. CASE ~(k = "guard" /\ r = s)
  <2>1. \A g \in Face : ~OnGuard(p, s, g)
    BY <1>1, <1>11 DEF OnlyAt
  <2>2. p \notin HittingBC(s, Absorb) /\ p \notin HittingBC(s, Custom)
    BY <1>9, <2>1
  <2>3. \A q \in Rank : accum'[q][p] + rhob'[q][p] = accum[q][p] + rhob[q][p]
    BY <1>3, <1>4, <2>2
  <2>4. \A g \in Face : ~IsOutgoing(p, s, g)
    BY <1>2, Idle
  <2>5. Unmoved(p)
    BY <1>4, <1>5, <1>6, <1>7, <1>8, <2>1, <2>2, <2>3, <2>4 DEF Unmoved, Charged
  <2>6. k = "guard" => Due(r)' = Due(r)
    BY <1>3, <1>4, <1>11 DEF Due
  <2>7. Belongs(p, o)'
    BY <1>1, <1>4, <2>3, <2>5, <2>6, Waits
  <2>. QED  BY <2>1, <2>7
<1>. QED  BY <1>10, <1>11

\* The steps of a loop over the shared faces stay between two rounds.
LEMMA VisitStays ==
  ASSUME TypeOK, NEW s \in Rank, NEW h \in Face, pc[s] \in Waiting, Visit(s, h),
         NEW r \in Rank, round' = round
  PROVE  Due(r)' = Due(r)
<1>1. NextStage(pc[s]) # "round" /\ pc[s] # "round"
  BY DEF NextStage, Waiting
<1>2. pc' = pc \/ pc' = [pc EXCEPT ![s] = NextStage(pc[s])]
  BY DEF Visit
<1>3. pc'[r] = "round" <=> pc[r] = "round"
  BY <1>1, <1>2 DEF TypeOK
<1>. QED  BY <1>3 DEF Due

\* The completion of a count or of a sent payload moves no particle.
LEMMA CompletionConserves ==
  ASSUME CInv, NEW s \in Rank, NEW h \in Face,
         EndCountRecv(s, h) \/ EndCountSend(s, h) \/ EndPayloadSend(s, h),
         NEW p \in Particle,
         NEW o, Belongs(p, o)
  PROVE  Belongs(p, o)'
<1>1. PICK k \in Kind, r \in Rank, f \in Face :
        OnlyAt(p, k, r, f) /\ Travelled(p, k, r, f) /\ o = OwnerOf(k, r, f)
  BY DEF Belongs
<1>2. TypeOK /\ pc[s] \in Waiting /\ Visit(s, h)
  BY DEF CInv, IInv, Waiting, EndCountRecv, EndCountSend, EndPayloadSend
<1>3. UNCHANGED <<round, parts, holes, movers, hops, recvd, dropped, accum, rhob, sbuf, rbuf>>
  BY DEF EndCountRecv, EndCountSend, EndPayloadSend, clockVars, listVars, chargeVars
<1>4. \A q \in Rank, g \in Face : IsOutgoing(p, q, g)' <=> IsOutgoing(p, q, g)
  <2>1. \/ sreq' = sreq
        \/ sreq[s][h] = "cnt_taken" /\ sreq' = [sreq EXCEPT ![s][h] = "pay"]
        \/ sreq[s][h] = "pay_taken" /\ sreq' = [sreq EXCEPT ![s][h] = "idle"]
    BY DEF EndCountRecv, EndCountSend, EndPayloadSend
  <2>2. /\ sreq \in [Rank -> [Face -> SendState]]
        /\ \A q \in Rank, g \in Face :
             sreq'[q][g] = sreq[q][g] \/ (sreq[q][g] = "cnt_taken" /\ sreq'[q][g] = "pay")
               \/ (sreq[q][g] = "pay_taken" /\ sreq'[q][g] = "idle")
    <3>1. sreq \in [Rank -> [Face -> SendState]]
      BY <1>2 DEF TypeOK
    <3>2. CASE sreq' = sreq
      BY <3>1, <3>2
    <3>3. CASE sreq[s][h] = "cnt_taken" /\ sreq' = [sreq EXCEPT ![s][h] = "pay"]
      BY <3>1, <3>3
    <3>4. CASE sreq[s][h] = "pay_taken" /\ sreq' = [sreq EXCEPT ![s][h] = "idle"]
      BY <3>1, <3>4
    <3>. QED  BY <2>1, <3>1, <3>2, <3>3, <3>4
  <2>. QED  BY <1>3, <2>2 DEF IsOutgoing
<1>5. \A q \in Rank, g \in Face : HasLanded(p, q, g)' <=> HasLanded(p, q, g)
  <2>1. \/ rreq' = rreq
        \/ rreq[s][h] = "cnt_full" /\ rreq' = [rreq EXCEPT ![s][h] = "pay"]
    BY DEF EndCountRecv, EndCountSend, EndPayloadSend
  <2>2. \A q \in Rank, g \in Face :
          rreq'[q][g] = rreq[q][g] \/ (rreq[q][g] = "cnt_full" /\ rreq'[q][g] = "pay")
    <3>1. rreq \in [Rank -> [Face -> RecvState]]
      BY <1>2 DEF TypeOK
    <3>. QED  BY <2>1, <3>1
  <2>. QED  BY <1>3, <2>2 DEF HasLanded
<1>6. Unmoved(p)
  BY <1>3, <1>4, <1>5 DEF Unmoved, InList, InRecvd, Charged, OnGuard
<1>. QED  BY <1>1, <1>2, <1>3, <1>6, VisitStays, Waits

LEMMA ReceiveConserves ==
  ASSUME CInv, NEW s \in Rank, NEW h \in Face, EndPayloadRecv(s, h), NEW p \in Particle,
         NEW o, Belongs(p, o)
  PROVE  Belongs(p, o)'
<1>1. PICK k \in Kind, r \in Rank, f \in Face :
        OnlyAt(p, k, r, f) /\ Travelled(p, k, r, f) /\ o = OwnerOf(k, r, f)
  BY DEF Belongs
<1>2. /\ TypeOK /\ pc[s] \in Waiting /\ Visit(s, h) /\ rreq[s][h] = "pay_full"
      /\ rbuf[s][h] \in SUBSET Particle /\ hops[p] \in SUBSET Axis
  BY DEF CInv, IInv, TypeOK, Waiting, EndPayloadRecv
<1>3. PICK out \in [rbuf[s][h] -> Face \cup {Rest}] :
        /\ \A x \in rbuf[s][h] : out[x] \in MoveP(s, hops[x])
        /\ recvd' = [recvd EXCEPT ![s] = @ \cup (rbuf[s][h] \ Stopped(rbuf[s][h], out))]
        /\ movers' = [movers EXCEPT ![s] = @ \cup OnGuardList(rbuf[s][h], out)]
        /\ hops' = AxesCrossed(rbuf[s][h], out, hops)
  BY DEF EndPayloadRecv, Moves
<1>4. /\ rreq' = [rreq EXCEPT ![s][h] = "idle"]
      /\ UNCHANGED <<round, parts, holes, dropped, accum, rhob, sbuf, rbuf, sreq>>
  BY DEF EndPayloadRecv, clockVars, chargeVars
<1>5. \A q \in Rank : InRecvd(p, q)' <=> InRecvd(p, q) \/ (q = s /\ p \in rbuf[s][h] /\ out[p] = Rest)
  BY <1>2, <1>3 DEF InRecvd, TypeOK, Stopped
<1>6. \A q \in Rank, g \in Face :
        OnGuard(p, q, g)' <=> OnGuard(p, q, g) \/ (q = s /\ p \in rbuf[s][h] /\ out[p] = g)
  <2>1. /\ movers'[s] = movers[s] \cup OnGuardList(rbuf[s][h], out)
        /\ \A q \in Rank \ {s} : movers'[q] = movers[q]
    BY <1>2, <1>3 DEF TypeOK
  <2>2. \A g \in Face : <<p, g>> \in OnGuardList(rbuf[s][h], out) <=> p \in rbuf[s][h] /\ out[p] = g
    BY Listed
  <2>. QED  BY <2>1, <2>2 DEF OnGuard
<1>7. \A q \in Rank, g \in Face : HasLanded(p, q, g)' <=> HasLanded(p, q, g) /\ ~(q = s /\ g = h)
  BY <1>2, <1>4 DEF HasLanded, TypeOK
<1>8. /\ \A q \in Rank : (InList(p, q)' <=> InList(p, q)) /\ (Charged(p, q)' <=> Charged(p, q))
      /\ \A q \in Rank, g \in Face : IsOutgoing(p, q, g)' <=> IsOutgoing(p, q, g)
      /\ p \in dropped' <=> p \in dropped
  BY <1>4 DEF InList, Charged, IsOutgoing
<1>9. CASE p \in rbuf[s][h]
  <2>1. k = "landed" /\ r = s /\ f = h
    BY <1>1, <1>2, <1>9 DEF OnlyAt, HasLanded
  <2>2. Crossed(p) >= round[s] + 1
    BY <1>1, <2>1 DEF Travelled
  <2>3. CASE out[p] = Rest
    <3>1. OnlyAt(p, "recvd", s, h)'
      BY <1>1, <1>5, <1>6, <1>7, <1>8, <1>9, <2>1, <2>3, Domain DEF OnlyAt
    <3>2. Travelled(p, "recvd", s, h)'
      BY DEF Travelled
    <3>. QED  BY <1>1, <2>1, <3>1, <3>2 DEF Belongs, OwnerOf, Kind
  <2>4. CASE out[p] # Rest
    <3>1. out[p] \in Face /\ AxisOf(out[p]) \notin hops[p] /\ bc[s][out[p]] \notin {Reflect, s}
      BY <1>3, <1>9, <2>4 DEF MoveP
    <3>2. OnlyAt(p, "guard", s, out[p])'
      BY <1>1, <1>5, <1>6, <1>7, <1>8, <1>9, <2>1, <2>4, <3>1 DEF OnlyAt
    <3>3. hops'[p] = hops[p] \cup {AxisOf(out[p])}
      BY <1>3, <1>9, <2>4 DEF AxesCrossed, Stopped
    <3>4. AxisOf(out[p]) \in Axis \ hops[p]
      BY <3>1, OppositeFace
    <3>5. Cardinality(hops[p] \cup {AxisOf(out[p])}) = Cardinality(hops[p]) + 1
          /\ Cardinality(hops[p]) \in Nat
      BY <1>2, <3>4, AxesCount
    <3>6. pc[s] # "round" /\ round[s] \in Nat
      BY <1>2 DEF Waiting, TypeOK
    <3>7. Crossed(p)' >= Due(s)
      BY <2>2, <3>3, <3>5, <3>6 DEF Crossed, Due
    <3>8. Due(s)' = Due(s)
      BY <1>2, <1>4, VisitStays
    <3>9. Travelled(p, "guard", s, out[p])'
      BY <3>1, <3>7, <3>8 DEF Travelled
    <3>. QED  BY <1>1, <2>1, <3>1, <3>2, <3>9 DEF Belongs, OwnerOf, Kind
  <2>. QED  BY <2>3, <2>4
<1>10. CASE p \notin rbuf[s][h]
  <2>1. hops'[p] = hops[p]
    BY <1>3, <1>10 DEF AxesCrossed, Stopped
  <2>2. Unmoved(p)
    BY <1>5, <1>6, <1>7, <1>8, <1>10 DEF Unmoved, HasLanded
  <2>. QED  BY <1>1, <1>2, <1>4, <2>1, <2>2, VisitStays, Waits
<1>. QED  BY <1>9, <1>10

\* The charge moves from the host to the device, and no particle moves.
LEMMA RoundConserves ==
  ASSUME CInv, NEW s \in Rank, FinishRound(s), NEW p \in Particle,
         NEW o, Belongs(p, o)
  PROVE  Belongs(p, o)'
<1>1. PICK k \in Kind, r \in Rank, f \in Face :
        OnlyAt(p, k, r, f) /\ Travelled(p, k, r, f) /\ o = OwnerOf(k, r, f)
  BY DEF Belongs
<1>2. TypeOK /\ IInv /\ pc[s] = "update"
  BY DEF CInv, IInv, FinishRound
<1>3. /\ round' = [round EXCEPT ![s] = @ + 1] /\ pc' = [pc EXCEPT ![s] = "round"]
      /\ UNCHANGED <<parts, holes, movers, hops, recvd, dropped, sbuf, rbuf, sreq, rreq>>
  BY DEF FinishRound, listVars, portVars
<1>4. \A q \in Rank : accum'[q][p] + rhob'[q][p] = accum[q][p] + rhob[q][p]
  <2>1. CASE absorbed[s]
    <3>1. \A q \in Rank \ {s} : accum'[q] = accum[q] /\ rhob'[q] = rhob[q]
      BY <1>2, <2>1 DEF FinishRound, TypeOK
    <3>2. accum'[s][p] = 0 /\ rhob'[s][p] = rhob[s][p] + accum[s][p]
      BY <1>2, <2>1 DEF FinishRound, TypeOK, AccumZeroed
    <3>3. accum[s][p] \in Nat /\ rhob[s][p] \in Nat
      BY <1>2 DEF TypeOK
    <3>. QED  BY <3>1, <3>2, <3>3
  <2>2. CASE ~absorbed[s]
    BY <2>2 DEF FinishRound
  <2>. QED  BY <2>1, <2>2
<1>5. Unmoved(p)
  BY <1>3, <1>4 DEF Unmoved, InList, InRecvd, Charged, OnGuard, IsOutgoing, HasLanded
<1>6. Due(r)' = Due(r)
  BY <1>2, <1>3 DEF Due, TypeOK
<1>7. k \in {"outgoing", "landed"} => r # s
  BY <1>1, <1>2, Idle DEF OnlyAt
<1>8. r # s => round'[r] = round[r]
  BY <1>2, <1>3 DEF TypeOK
<1>. QED  BY <1>1, <1>3, <1>4, <1>5, <1>6, <1>7, <1>8, Waits

LEMMA StepConserves ==
  ASSUME CInv, NEW s \in Rank, FinishStep(s), NEW p \in Particle,
         NEW o, Belongs(p, o)
  PROVE  Belongs(p, o)'
<1>1. PICK k \in Kind, r \in Rank, f \in Face :
        OnlyAt(p, k, r, f) /\ Travelled(p, k, r, f) /\ o = OwnerOf(k, r, f)
  BY DEF Belongs
<1>2. /\ TypeOK /\ IInv /\ pc[s] = "round" /\ round[s] >= NumCommRound
      /\ round[s] \in Nat /\ hops[p] \in SUBSET Axis
  <2>1. TypeOK /\ IInv /\ pc[s] = "round" /\ ~(round[s] < NumCommRound)
    BY DEF CInv, IInv, FinishStep, RoundsLeft
  <2>. QED  BY <2>1, DomainAssumption DEF TypeOK
<1>3. /\ parts'[s] = (parts[s] \ holes[s]) \cup recvd[s] /\ holes'[s] = {} /\ recvd'[s] = {}
      /\ movers'[s] = {}
      /\ \A q \in Rank \ {s} : /\ parts'[q] = parts[q] /\ holes'[q] = holes[q]
                               /\ recvd'[q] = recvd[q] /\ movers'[q] = movers[q] /\ pc'[q] = pc[q]
  BY <1>2 DEF FinishStep, Compressed, TypeOK
<1>4. UNCHANGED <<round, hops, dropped, accum, rhob, sbuf, rbuf, sreq, rreq>>
  BY DEF FinishStep, chargeVars, portVars
<1>5. \A q \in Rank :
        /\ InList(p, q)' <=> InList(p, q) \/ (q = s /\ InRecvd(p, q))
        /\ InRecvd(p, q)' <=> InRecvd(p, q) /\ q # s
  BY <1>3 DEF InList, InRecvd
<1>6. \A q \in Rank, g \in Face : OnGuard(p, q, g)' <=> OnGuard(p, q, g) /\ q # s
  BY <1>3 DEF OnGuard
<1>7. /\ \A q \in Rank : Charged(p, q)' <=> Charged(p, q)
      /\ \A q \in Rank, g \in Face :
           (IsOutgoing(p, q, g)' <=> IsOutgoing(p, q, g)) /\ (HasLanded(p, q, g)' <=> HasLanded(p, q, g))
      /\ p \in dropped' <=> p \in dropped
  BY <1>4 DEF Charged, IsOutgoing, HasLanded
<1>8. CASE k = "recvd" /\ r = s
  <2>1. OnlyAt(p, "list", s, f)'
    BY <1>1, <1>5, <1>6, <1>7, <1>8 DEF OnlyAt
  <2>2. Travelled(p, "list", s, f)'
    BY DEF Travelled
  <2>. QED  BY <1>1, <1>8, <2>1, <2>2 DEF Belongs, OwnerOf, Kind
<1>9. CASE k = "guard" /\ r = s
  <2>1. OnlyAt(p, "lost", s, f)'
    BY <1>1, <1>5, <1>6, <1>7, <1>9 DEF OnlyAt
  <2>2. Crossed(p) >= round[s] + 1
    BY <1>1, <1>2, <1>9 DEF Travelled, Due
  <2>3. Crossed(p) \in Nat /\ Crossed(p) <= Dim
    BY <1>2, AxesCount DEF Crossed
  <2>4. NumCommRound < Dim
    BY <1>2, <2>2, <2>3, DomainAssumption
  <2>5. Travelled(p, "lost", s, f)'
    BY <2>4 DEF Travelled
  <2>. QED  BY <1>1, <1>9, <2>1, <2>5 DEF Belongs, OwnerOf, Kind
<1>10. CASE ~(k = "recvd" /\ r = s) /\ ~(k = "guard" /\ r = s)
  <2>1. ~InRecvd(p, s) /\ \A g \in Face : ~OnGuard(p, s, g)
    BY <1>1, <1>10 DEF OnlyAt
  <2>2. Unmoved(p)
    BY <1>5, <1>6, <1>7, <2>1 DEF Unmoved
  <2>3. k = "guard" => Due(r)' = Due(r)
    BY <1>3, <1>4, <1>10 DEF Due
  <2>. QED  BY <1>1, <1>4, <2>2, <2>3, Waits
<1>. QED  BY <1>8, <1>9, <1>10

\* Two ranks between two rounds in the same epoch are in the same round.
LEMMA SameRound ==
  ASSUME NEW a \in Nat, NEW b \in Nat, NEW i \in Nat, NEW j \in Nat, NEW n \in Nat,
         a*n + i = b*n + j, i < n, j < n
  PROVE  i = j
<1>1. ASSUME NEW c \in Nat, NEW d \in Nat, c > d PROVE c*n >= d*n + n
  <2>1. PICK e \in Nat : c = d + 1 + e
    <3>1. c - d - 1 \in Nat /\ c = d + 1 + (c - d - 1)
      BY <1>1
    <3>. QED  BY <3>1
  <2>2. c*n = d*n + n + e*n /\ e*n \in Nat /\ d*n \in Nat
    BY <2>1
  <2>. QED  BY <2>2
<1>2. a*n \in Nat /\ b*n \in Nat
  OBVIOUS
<1>3. ~(a > b) /\ ~(b > a)
  BY <1>1, <1>2
<1>4. a = b
  BY <1>3
<1>. QED  BY <1>2, <1>4

\* The payload of a send lands in the receive buffer of the same round.
LEMMA TransferConserves ==
  ASSUME CInv, NEW s \in Rank, NEW h \in Face, Transfer(s, h), NEW p \in Particle,
         NEW o, Belongs(p, o)
  PROVE  Belongs(p, o)'
<1>1. PICK k \in Kind, r \in Rank, f \in Face :
        OnlyAt(p, k, r, f) /\ Travelled(p, k, r, f) /\ o = OwnerOf(k, r, f)
  BY DEF Belongs
<1>2. TypeOK /\ IInv /\ RequestsOK /\ ClockOK /\ h \in Shared(s)
  BY DEF CInv, IInv, Transfer
<1>3. PICK t \in Rank, g \in Face : t = bc[s][h] /\ g = Opposite(h) /\ t # s /\ g \in Shared(t)
  <2>1. bc[s][h] \in Rank /\ Opposite(h) \in Face /\ bc[s][h] # s /\ Opposite(h) \in Shared(bc[s][h])
    BY <1>2, SharedFace, OppositeFace
  <2>. QED  BY <2>1
<1>4. sreq[s][h] \in {"cnt", "pay"} /\ rreq[t][g] \in {"cnt", "pay"}
  BY <1>3 DEF Transfer
<1>5. sreq[s][h] = rreq[t][g] /\ (sreq[s][h] = "pay" => n_recv[t][g] = n_send(s, h))
  BY <1>2, <1>3, <1>4, TransferMatches
<1>6. /\ sreq' = [sreq EXCEPT ![s][h] = IF sreq[s][h] = "cnt" THEN "cnt_taken" ELSE "pay_taken"]
      /\ rreq' = [rreq EXCEPT ![t][g] = IF sreq[s][h] = "cnt" THEN "cnt_full" ELSE "pay_full"]
      /\ rbuf' = [rbuf EXCEPT ![t][g] = IF sreq[s][h] = "pay" THEN sbuf[s][h] ELSE rbuf[t][g]]
  BY <1>3, <1>5 DEF Transfer
<1>7. UNCHANGED <<pc, round, parts, holes, movers, hops, recvd, dropped, accum, rhob, sbuf>>
  BY DEF Transfer, clockVars, listVars, chargeVars
<1>8. /\ \A q \in Rank : (InList(p, q)' <=> InList(p, q)) /\ (InRecvd(p, q)' <=> InRecvd(p, q))
                        /\ (Charged(p, q)' <=> Charged(p, q))
      /\ \A q \in Rank, e \in Face : OnGuard(p, q, e)' <=> OnGuard(p, q, e)
      /\ p \in dropped' <=> p \in dropped
  BY <1>7 DEF InList, InRecvd, Charged, OnGuard
<1>9. \A q \in Rank, e \in Face :
        /\ sreq'[q][e] = IF q = s /\ e = h THEN IF sreq[s][h] = "cnt" THEN "cnt_taken" ELSE "pay_taken"
                         ELSE sreq[q][e]
        /\ rreq'[q][e] = IF q = t /\ e = g THEN IF sreq[s][h] = "cnt" THEN "cnt_full" ELSE "pay_full"
                         ELSE rreq[q][e]
        /\ rbuf'[q][e] = IF q = t /\ e = g /\ sreq[s][h] = "pay" THEN sbuf[s][h] ELSE rbuf[q][e]
  BY <1>2, <1>6 DEF TypeOK
<1>10. CASE sreq[s][h] = "pay" /\ p \in sbuf[s][h]
  <2>1. k = "outgoing" /\ r = s /\ f = h
    BY <1>1, <1>10 DEF OnlyAt, IsOutgoing
  <2>2. round[t] = round[s]
    <3>1. pc[s] \notin {"advance", "round"} /\ pc[t] \notin {"advance", "round"}
      BY <1>2, <1>4 DEF RequestsOK, SendOK, RecvOK
    <3>2. 2*epoch[s] + Sent(s, h) = 2*epoch[t] + Received(t, g)
      BY <1>2, <1>3 DEF IInv, EdgesOK, EdgeOK
    <3>3. Sent(s, h) = 1 /\ Received(t, g) = 1
      BY <1>5, <1>10 DEF Sent, Received
    <3>4. epoch[s] \in Nat /\ epoch[t] \in Nat
      BY <1>2 DEF TypeOK
    <3>5. epoch[s] = epoch[t]
      BY <3>2, <3>3, <3>4
    <3>6. /\ step[s]*NumCommRound + round[s] = step[t]*NumCommRound + round[t]
          /\ round[s] < NumCommRound /\ round[t] < NumCommRound
      BY <1>2, <3>1, <3>5 DEF ClockOK
    <3>7. step[s] \in Nat /\ step[t] \in Nat /\ round[s] \in Nat /\ round[t] \in Nat
      BY <1>2 DEF TypeOK
    <3>. QED  BY <3>6, <3>7, SameRound, DomainAssumption
  <2>3. Crossed(p) >= round[s] + 1
    BY <1>1, <2>1 DEF Travelled
  <2>4. \A q \in Rank, e \in Face : ~IsOutgoing(p, q, e)'
    BY <1>1, <1>7, <1>9, <1>10, <2>1 DEF OnlyAt, IsOutgoing
  <2>5. \A q \in Rank, e \in Face : HasLanded(p, q, e)' <=> q = t /\ e = g
    BY <1>1, <1>9, <1>10, <2>1 DEF OnlyAt, HasLanded
  <2>6. OnlyAt(p, "landed", t, g)'
    BY <1>1, <1>8, <2>1, <2>4, <2>5 DEF OnlyAt
  <2>7. Travelled(p, "landed", t, g)'
    BY <1>7, <2>2, <2>3 DEF Travelled, Crossed
  <2>. QED  BY <1>1, <1>3, <2>1, <2>6, <2>7 DEF Belongs, OwnerOf, Kind
<1>11. CASE ~(sreq[s][h] = "pay" /\ p \in sbuf[s][h])
  <2>1. \A q \in Rank, e \in Face : IsOutgoing(p, q, e)' <=> IsOutgoing(p, q, e)
    BY <1>4, <1>7, <1>9, <1>11 DEF IsOutgoing
  <2>2. \A q \in Rank, e \in Face : HasLanded(p, q, e)' <=> HasLanded(p, q, e)
    BY <1>4, <1>9, <1>11 DEF HasLanded
  <2>3. Unmoved(p)
    BY <1>8, <2>1, <2>2 DEF Unmoved
  <2>4. Due(r)' = Due(r)
    BY <1>7 DEF Due
  <2>. QED  BY <1>1, <1>7, <2>3, <2>4, Waits
<1>. QED  BY <1>10, <1>11

-----------------------------------------------------------------------------
LEMMA StutterConserves ==
  ASSUME CInv, UNCHANGED vars, NEW p \in Particle, NEW o, Belongs(p, o)
  PROVE  Belongs(p, o)'
<1>1. PICK k \in Kind, r \in Rank, f \in Face :
        OnlyAt(p, k, r, f) /\ Travelled(p, k, r, f) /\ o = OwnerOf(k, r, f)
  BY DEF Belongs
<1>2. /\ UNCHANGED <<pc, round, parts, holes, movers, hops, recvd, dropped, accum, rhob>>
      /\ UNCHANGED <<sbuf, rbuf, sreq, rreq>>
  BY DEF vars, clockVars, listVars, chargeVars, portVars
<1>3. Unmoved(p) /\ Due(r)' = Due(r)
  BY <1>2 DEF Unmoved, Due, InList, InRecvd, Charged, OnGuard, IsOutgoing, HasLanded
<1>. QED  BY <1>1, <1>2, <1>3, Waits

\* A particle changes its owner only when the guard list is emptied.
LEMMA OwnerKept ==
  ASSUME CInv, [Next]_vars, \A s \in Rank : ~BeginRound(s),
         NEW p \in Particle, NEW o, Belongs(p, o)
  PROVE  Belongs(p, o)'
BY AdvanceConserves, CompletionConserves, ReceiveConserves, RoundConserves, StepConserves,
   TransferConserves, StutterConserves
   DEF Next, RankStep, Stop

LEMMA ConservedStep == CInv /\ [Next]_vars => Conserved'
<1> SUFFICES ASSUME CInv, [Next]_vars, NEW p \in Particle PROVE \E o : Belongs(p, o)'
  BY DEF Conserved
<1>1. PICK o : Belongs(p, o)
  BY DEF CInv, Conserved
<1>2. ASSUME NEW s \in Rank, BeginRound(s) PROVE \E e : Belongs(p, e)'
  BY <1>1, <1>2, BeginConserves
<1>3. CASE \A s \in Rank : ~BeginRound(s)
  BY <1>1, <1>3, OwnerKept
<1>. QED  BY <1>2, <1>3

LEMMA ListsStep == CInv /\ [Next]_vars => ListsOK'
<1> SUFFICES ASSUME CInv, [Next]_vars PROVE ListsOK'
  OBVIOUS
<1>1. TypeOK /\ ListsOK
  BY DEF CInv, IInv
<1>2. ASSUME NEW s \in Rank, AdvanceP(s) PROVE ListsOK'
  BY <1>1, <1>2 DEF AdvanceP, TypeOK, ListsOK, chargeVars
<1>3. ASSUME NEW s \in Rank, BeginRound(s) PROVE ListsOK'
  <2>1. /\ pc'[s] \notin {"advance", "round"}
        /\ \A q \in Rank \ {s} : pc'[q] = pc[q] /\ movers'[q] = movers[q]
                                /\ accum'[q] = accum[q] /\ absorbed'[q] = absorbed[q]
        /\ UNCHANGED <<holes, recvd>>
    BY <1>1, <1>3 DEF BeginRound, TypeOK
  <2>2. ~absorbed'[s] => \A p \in Particle : accum'[s][p] = 0
    <3>1. absorbed'[s] <=> HittingBC(s, Absorb) # {}
      BY <1>1, <1>3, Zenon DEF BeginRound, TypeOK
    <3>2. \A p \in Particle : accum[s][p] = 0
      BY <1>1, <1>3 DEF BeginRound, ListsOK
    <3>3. \A p \in Particle : p \notin HittingBC(s, Absorb) => accum'[s][p] = accum[s][p]
      BY <1>1, <1>3 DEF BeginRound, TypeOK
    <3>. QED  BY <3>1, <3>2, <3>3
  <2>. QED  BY <1>1, <2>1, <2>2 DEF ListsOK
<1>4. ASSUME NEW s \in Rank, NEW h \in Face,
             EndCountRecv(s, h) \/ EndCountSend(s, h) \/ EndPayloadSend(s, h)
               \/ EndPayloadRecv(s, h)
      PROVE  ListsOK'
  <2>1. pc[s] \in Waiting /\ Visit(s, h) /\ UNCHANGED <<holes, accum, absorbed>>
    BY <1>4 DEF Waiting, EndCountRecv, EndCountSend, EndPayloadSend, EndPayloadRecv, listVars, chargeVars
  <2>2. \A q \in Rank \ {s} : recvd'[q] = recvd[q] /\ movers'[q] = movers[q]
    BY <1>1, <1>4 DEF EndCountRecv, EndCountSend, EndPayloadSend, EndPayloadRecv, listVars, TypeOK
  <2>3. pc[s] \notin {"advance", "round"} /\ NextStage(pc[s]) \notin {"advance", "round"}
    BY <2>1 DEF Waiting, NextStage
  <2>4. /\ pc'[s] \notin {"advance", "round"}
        /\ \A q \in Rank \ {s} : pc'[q] = pc[q]
    BY <1>1, <2>1, <2>3 DEF Visit, TypeOK
  <2>. QED  BY <1>1, <2>1, <2>2, <2>3, <2>4 DEF ListsOK
<1>5. ASSUME NEW s \in Rank, FinishRound(s) PROVE ListsOK'
  <2>1. /\ pc'[s] = "round" /\ pc[s] = "update" /\ UNCHANGED <<holes, recvd, movers, absorbed>>
        /\ \A q \in Rank \ {s} : pc'[q] = pc[q] /\ accum'[q] = accum[q]
    BY <1>1, <1>5 DEF FinishRound, TypeOK, listVars
  <2>2. \A p \in Particle : accum'[s][p] = 0
    BY <1>1, <1>5 DEF FinishRound, TypeOK, ListsOK, AccumZeroed
  <2>. QED  BY <1>1, <2>1, <2>2 DEF ListsOK
<1>6. ASSUME NEW s \in Rank, FinishStep(s) PROVE ListsOK'
  BY <1>1, <1>6 DEF FinishStep, TypeOK, ListsOK, chargeVars
<1>7. ASSUME NEW s \in Rank, NEW h \in Face, Transfer(s, h) PROVE ListsOK'
  BY <1>1, <1>7 DEF Transfer, ListsOK, listVars, chargeVars
<1>8. CASE UNCHANGED vars
  BY <1>1, <1>8 DEF vars, ListsOK, listVars, chargeVars
<1>. QED  BY <1>2, <1>3, <1>4, <1>5, <1>6, <1>7, <1>8 DEF Next, RankStep, Stop

LEMMA ClockStep == CInv /\ [Next]_vars => ClockOK'
<1> SUFFICES ASSUME CInv, [Next]_vars PROVE ClockOK'
  OBVIOUS
<1>1. TypeOK /\ ClockOK
  BY DEF CInv, IInv
<1>2. ASSUME NEW s \in Rank, AdvanceP(s) PROVE ClockOK'
  <2>1. /\ round'[s] = 0 /\ pc'[s] = "round" /\ pc[s] = "advance" /\ UNCHANGED <<step, epoch>>
        /\ \A q \in Rank \ {s} : pc'[q] = pc[q] /\ round'[q] = round[q]
    BY <1>1, <1>2 DEF AdvanceP, TypeOK
  <2>2. step[s]*NumCommRound \in Nat /\ 0 <= NumCommRound
    BY <1>1, DomainAssumption DEF TypeOK
  <2>3. epoch[s] = step[s]*NumCommRound + 0
    BY <1>1, <2>1, <2>2 DEF ClockOK
  <2>. QED  BY <1>1, <2>1, <2>2, <2>3 DEF ClockOK
<1>3. ASSUME NEW s \in Rank, BeginRound(s) PROVE ClockOK'
  <2>1. /\ pc[s] = "round" /\ round[s] < NumCommRound /\ pc'[s] \notin {"advance", "round"}
        /\ UNCHANGED <<step, round, epoch>>
        /\ \A q \in Rank \ {s} : pc'[q] = pc[q]
    BY <1>1, <1>3 DEF BeginRound, RoundsLeft, TypeOK, clockVars
  <2>. QED  BY <1>1, <2>1 DEF ClockOK
<1>4. ASSUME NEW s \in Rank, NEW h \in Face,
             EndCountRecv(s, h) \/ EndCountSend(s, h) \/ EndPayloadSend(s, h)
               \/ EndPayloadRecv(s, h)
      PROVE  ClockOK'
  <2>1. pc[s] \in Waiting /\ Visit(s, h) /\ UNCHANGED <<step, round, epoch>>
    BY <1>4 DEF Waiting, EndCountRecv, EndCountSend, EndPayloadSend, EndPayloadRecv, clockVars
  <2>2. pc[s] \notin {"advance", "round"} /\ NextStage(pc[s]) \notin {"advance", "round"}
    BY <2>1 DEF Waiting, NextStage
  <2>3. /\ pc'[s] \notin {"advance", "round"}
        /\ \A q \in Rank \ {s} : pc'[q] = pc[q]
    BY <1>1, <2>1, <2>2 DEF Visit, TypeOK
  <2>. QED  BY <1>1, <2>1, <2>2, <2>3 DEF ClockOK
<1>5. ASSUME NEW s \in Rank, FinishRound(s) PROVE ClockOK'
  <2>1. /\ pc'[s] = "round" /\ pc[s] = "update" /\ step' = step
        /\ round'[s] = round[s] + 1 /\ epoch'[s] = epoch[s] + 1
        /\ \A q \in Rank \ {s} : pc'[q] = pc[q] /\ round'[q] = round[q] /\ epoch'[q] = epoch[q]
    BY <1>1, <1>5 DEF FinishRound, TypeOK
  <2>2. /\ step[s]*NumCommRound \in Nat /\ round[s] \in Nat /\ NumCommRound \in Nat
        /\ epoch[s] = step[s]*NumCommRound + round[s] /\ round[s] < NumCommRound
    BY <1>1, <2>1, DomainAssumption DEF TypeOK, ClockOK
  <2>3. epoch'[s] = step'[s]*NumCommRound + round'[s] /\ round'[s] <= NumCommRound
    BY <2>1, <2>2
  <2>. QED  BY <1>1, <2>1, <2>3 DEF ClockOK
<1>6. ASSUME NEW s \in Rank, FinishStep(s) PROVE ClockOK'
  <2>1. /\ pc'[s] = "advance" /\ pc[s] = "round" /\ ~(round[s] < NumCommRound)
        /\ step'[s] = step[s] + 1 /\ UNCHANGED <<round, epoch>>
        /\ \A q \in Rank \ {s} : pc'[q] = pc[q] /\ step'[q] = step[q]
    BY <1>1, <1>6 DEF FinishStep, RoundsLeft, TypeOK
  <2>2. /\ step[s] \in Nat /\ round[s] \in Nat /\ NumCommRound \in Nat
        /\ epoch[s] = step[s]*NumCommRound + round[s] /\ round[s] <= NumCommRound
    BY <1>1, <2>1, DomainAssumption DEF TypeOK, ClockOK
  <2>3. epoch'[s] = step'[s]*NumCommRound
    BY <2>1, <2>2
  <2>. QED  BY <1>1, <2>1, <2>3 DEF ClockOK
<1>7. ASSUME NEW s \in Rank, NEW h \in Face, Transfer(s, h) PROVE ClockOK'
  BY <1>1, <1>7 DEF Transfer, ClockOK, clockVars
<1>8. CASE UNCHANGED vars
  BY <1>1, <1>8 DEF vars, ClockOK, clockVars
<1>. QED  BY <1>2, <1>3, <1>4, <1>5, <1>6, <1>7, <1>8 DEF Next, RankStep, Stop

THEOREM ConservationInvariant == Spec => []CInv
<1>1. CInv /\ [Next]_vars => CInv'
  <2>1. CInv /\ [Next]_vars => IInv'
    BY StepType, RequestsStep, EdgesStep DEF CInv, IInv
  <2>. QED  BY <2>1, ConservedStep, ListsStep, ClockStep DEF CInv
<1>. QED  BY InitConserved, <1>1, PTL DEF Spec

-----------------------------------------------------------------------------
\* The places of the specification are those of this module.
LEMMA PlaceKinds ==
  ASSUME NEW p
  PROVE  /\ \A q \in Rank : /\ IsAt(p, <<"list", q>>) <=> InList(p, q)
                            /\ IsAt(p, <<"recvd", q>>) <=> InRecvd(p, q)
                            /\ IsAt(p, <<"absorbed", q>>) <=> Charged(p, q)
         /\ \A q \in Rank, g \in Face : /\ IsAt(p, <<"guard", q, g>>) <=> OnGuard(p, q, g)
                                        /\ IsAt(p, <<"outgoing", q, g>>) <=> IsOutgoing(p, q, g)
                                        /\ IsAt(p, <<"landed", q, g>>) <=> HasLanded(p, q, g)
         /\ IsAt(p, <<"dropped">>) <=> p \in dropped
<1>1. ASSUME NEW q \in Rank
      PROVE  /\ IsAt(p, <<"list", q>>) <=> InList(p, q)
             /\ IsAt(p, <<"recvd", q>>) <=> InRecvd(p, q)
             /\ IsAt(p, <<"absorbed", q>>) <=> Charged(p, q)
  BY DEF IsAt, InList, InRecvd, Charged
<1>2. ASSUME NEW q \in Rank, NEW g \in Face
      PROVE  /\ IsAt(p, <<"guard", q, g>>) <=> OnGuard(p, q, g)
             /\ IsAt(p, <<"outgoing", q, g>>) <=> IsOutgoing(p, q, g)
             /\ IsAt(p, <<"landed", q, g>>) <=> HasLanded(p, q, g)
  BY DEF IsAt, OnGuard, IsOutgoing, HasLanded
<1>3. IsAt(p, <<"dropped">>) <=> p \in dropped
  BY DEF IsAt
<1>. QED  BY <1>1, <1>2, <1>3

LEMMA PlaceShapes ==
  ASSUME NEW place \in Place
  PROVE  \/ \E c \in {"list", "recvd", "absorbed"}, q \in Rank : place = <<c, q>>
         \/ \E c \in {"guard", "outgoing", "landed"}, q \in Rank, g \in Face : place = <<c, q, g>>
         \/ place = <<"dropped">>
BY DEF Place

LEMMA NoOtherPlace ==
  ASSUME NEW p, NEW k \in Kind, NEW r \in Rank, NEW f \in Face, OnlyAt(p, k, r, f),
         NEW other \in Place, IsAt(p, other)
  PROVE  \/ k \in {"list", "recvd", "absorbed"} /\ other = <<k, r>>
         \/ k \in {"guard", "outgoing", "landed"} /\ other = <<k, r, f>>
         \/ k = "dropped" /\ other = <<"dropped">>
<1>1. ASSUME NEW c \in {"list", "recvd", "absorbed"}, NEW q \in Rank, other = <<c, q>>
      PROVE  c = k /\ q = r
  <2>1. CASE c = "list"
    BY <1>1, <2>1, PlaceKinds DEF OnlyAt
  <2>2. CASE c = "recvd"
    BY <1>1, <2>2, PlaceKinds DEF OnlyAt
  <2>3. CASE c = "absorbed"
    BY <1>1, <2>3, PlaceKinds DEF OnlyAt
  <2>. QED  BY <2>1, <2>2, <2>3
<1>2. ASSUME NEW c \in {"guard", "outgoing", "landed"}, NEW q \in Rank, NEW g \in Face,
             other = <<c, q, g>>
      PROVE  c = k /\ q = r /\ g = f
  <2>1. CASE c = "guard"
    BY <1>2, <2>1, PlaceKinds DEF OnlyAt
  <2>2. CASE c = "outgoing"
    BY <1>2, <2>2, PlaceKinds DEF OnlyAt
  <2>3. CASE c = "landed"
    BY <1>2, <2>3, PlaceKinds DEF OnlyAt
  <2>. QED  BY <2>1, <2>2, <2>3
<1>3. other = <<"dropped">> => k = "dropped"
  BY PlaceKinds DEF OnlyAt
<1>. QED  BY <1>1, <1>2, <1>3, PlaceShapes

\* With one communication round for each axis, a particle is at every instant
\* in exactly one particle list, guard list, buffer or message, or absorbed by
\* one rank, or dropped, whatever the decomposition and the number of steps.
THEOREM ParticleAlwaysInOnePlace ==
  ASSUME NumCommRound >= Dim
  PROVE  Spec => []ParticleInOnePlace
<1>1. CInv => ParticleInOnePlace
  <2> SUFFICES ASSUME CInv, NEW p \in Particle
               PROVE  \E place \in Place :
                        IsAt(p, place) /\ \A other \in Place \ {place} : ~IsAt(p, other)
    BY DEF ParticleInOnePlace
  <2>1. PICK k \in Kind, r \in Rank, f \in Face : OnlyAt(p, k, r, f) /\ Travelled(p, k, r, f)
    BY DEF CInv, Conserved, Belongs
  <2>2. k # "lost"
    BY <2>1, DomainAssumption DEF Travelled
  <2>3. CASE k \in {"list", "recvd", "absorbed"}
    <3>1. <<k, r>> \in Place /\ IsAt(p, <<k, r>>)
      BY <2>1, <2>3, PlaceKinds DEF OnlyAt, Place
    <3>2. ASSUME NEW other \in Place \ {<<k, r>>} PROVE ~IsAt(p, other)
      BY <2>1, <2>3, <3>2, NoOtherPlace
    <3>. QED  BY <3>1, <3>2
  <2>4. CASE k \in {"guard", "outgoing", "landed"}
    <3>1. <<k, r, f>> \in Place /\ IsAt(p, <<k, r, f>>)
      BY <2>1, <2>4, PlaceKinds DEF OnlyAt, Place
    <3>2. ASSUME NEW other \in Place \ {<<k, r, f>>} PROVE ~IsAt(p, other)
      BY <2>1, <2>4, <3>2, NoOtherPlace
    <3>. QED  BY <3>1, <3>2
  <2>5. CASE k = "dropped"
    <3>1. <<"dropped">> \in Place /\ IsAt(p, <<"dropped">>)
      BY <2>1, <2>5, PlaceKinds DEF OnlyAt, Place
    <3>2. ASSUME NEW other \in Place \ {<<"dropped">>} PROVE ~IsAt(p, other)
      BY <2>1, <2>5, <3>2, NoOtherPlace
    <3>. QED  BY <3>1, <3>2
  <2>. QED  BY <2>2, <2>3, <2>4, <2>5 DEF Kind
<1>. QED  BY ConservationInvariant, <1>1, PTL

\* Whatever the number of rounds, the charge of an absorbed particle is added
\* to rhob once, and boundary_p_kokkos leaves none of it on the host.
THEOREM ChargeAlwaysAbsorbedOnce == Spec => []AbsorbedChargeOnce
<1>1. CInv => AbsorbedChargeOnce
  <2> SUFFICES ASSUME CInv, NEW r \in Rank, NEW p \in Particle
               PROVE  /\ accum[r][p] + rhob[r][p] <= 1
                      /\ pc[r] \in {"advance", "round"} => accum[r][p] = 0
    BY DEF AbsorbedChargeOnce
  <2>1. PICK k \in Kind, q \in Rank, f \in Face : OnlyAt(p, k, q, f) /\ Travelled(p, k, q, f)
    BY DEF CInv, Conserved, Belongs
  <2>2. accum[r][p] + rhob[r][p] <= 1
    <3>1. accum[r][p] + rhob[r][p] \in {0, 1}
      BY <2>1 DEF OnlyAt, Travelled, Charged
    <3>. QED  BY <3>1
  <2>. QED  BY <2>2 DEF CInv, ListsOK
<1>. QED  BY ConservationInvariant, <1>1, PTL

\* One communication round for each axis empties every guard list, because a
\* particle that is still on one has crossed more axes than there were rounds.
THEOREM GuardListAlwaysEmptied == Spec => []GuardListEmptied
<1>1. CInv => GuardListEmptied
  <2> SUFFICES ASSUME CInv, NumCommRound >= Dim, NEW r \in Rank, pc[r] = "round",
                      ~RoundsLeft(r), movers[r] # {}
               PROVE  FALSE
    BY DEF GuardListEmptied
  <2>1. TypeOK /\ round[r] \in Nat /\ round[r] >= NumCommRound
    BY DomainAssumption DEF CInv, IInv, TypeOK, RoundsLeft
  <2>2. PICK p \in Particle, f \in Face : <<p, f>> \in movers[r]
    <3>1. movers[r] \in SUBSET (Particle \X Face)
      BY <2>1 DEF TypeOK
    <3>2. PICK entry \in Particle \X Face : entry \in movers[r]
      BY <3>1
    <3>. QED  BY <3>2
  <2>3. PICK k \in Kind, q \in Rank, g \in Face : OnlyAt(p, k, q, g) /\ Travelled(p, k, q, g)
    BY DEF CInv, Conserved, Belongs
  <2>4. k = "guard" /\ q = r
    BY <2>2, <2>3 DEF OnlyAt, OnGuard
  <2>5. Crossed(p) >= round[r] + 1
    BY <2>3, <2>4 DEF Travelled, Due
  <2>6. Crossed(p) \in Nat /\ Crossed(p) <= Dim
    <3>1. hops[p] \in SUBSET Axis
      BY <2>1 DEF TypeOK
    <3>. QED  BY <3>1, AxesCount DEF Crossed
  <2>. QED  BY <2>1, <2>5, <2>6, DomainAssumption
<1>. QED  BY ConservationInvariant, <1>1, PTL

-----------------------------------------------------------------------------
(***************************************************************************)
(* The exchange implements ParticleMigration.                              *)
(***************************************************************************)
LEMMA OwnerIs ==
  ASSUME NumCommRound >= Dim
  PROVE  \A p \in Particle : \A o : Belongs(p, o) => Owner(p) = o
<1> SUFFICES ASSUME NEW p \in Particle, NEW o, Belongs(p, o) PROVE Owner(p) = o
  OBVIOUS
<1>1. PICK k \in Kind, r \in Rank, f \in Face :
        OnlyAt(p, k, r, f) /\ Travelled(p, k, r, f) /\ o = OwnerOf(k, r, f)
  BY DEF Belongs
<1>2. k # "lost"
  BY <1>1, DomainAssumption DEF Travelled
<1>3. PlaceOf(p) \in Place /\ IsAt(p, PlaceOf(p))
  <2>1. \E place \in Place : IsAt(p, place)
    <3>1. CASE k \in {"list", "recvd", "absorbed"}
      <4>1. <<k, r>> \in Place /\ IsAt(p, <<k, r>>)
        BY <1>1, <3>1, PlaceKinds DEF OnlyAt, Place
      <4>. QED  BY <4>1
    <3>2. CASE k \in {"guard", "outgoing", "landed"}
      <4>1. <<k, r, f>> \in Place /\ IsAt(p, <<k, r, f>>)
        BY <1>1, <3>2, PlaceKinds DEF OnlyAt, Place
      <4>. QED  BY <4>1
    <3>3. CASE k = "dropped"
      <4>1. <<"dropped">> \in Place /\ IsAt(p, <<"dropped">>)
        BY <1>1, <3>3, PlaceKinds DEF OnlyAt, Place
      <4>. QED  BY <4>1
    <3>. QED  BY <1>2, <3>1, <3>2, <3>3 DEF Kind
  <2>. QED  BY <2>1 DEF PlaceOf
<1>4. \/ k \in {"list", "recvd", "absorbed"} /\ PlaceOf(p) = <<k, r>>
      \/ k \in {"guard", "outgoing", "landed"} /\ PlaceOf(p) = <<k, r, f>>
      \/ k = "dropped" /\ PlaceOf(p) = <<"dropped">>
  BY <1>1, <1>3, NoOtherPlace
<1>. QED  BY <1>1, <1>4 DEF Owner, OwnerOf

\* With one communication round for each axis, a particle passes from domain to
\* domain only through the face it hit, to the domain or the fate behind it.
THEOREM ImplementsMigration ==
  ASSUME NumCommRound >= Dim
  PROVE  Spec => MigrationSpec
<1>1. \A p \in Particle : \A o : Belongs(p, o) => Owner(p) = o
  BY OwnerIs
<1>2. (\A p \in Particle : \A o : Belongs(p, o) => Owner(p) = o)'
  BY <1>1, PTL
<1>3. Init => Migration!Init
  <2> SUFFICES ASSUME Init, NEW p \in Particle PROVE Owner(p) \in Rank
    BY DEF Migration!Init
  <2>1. PICK o \in Rank : Belongs(p, o)
    BY InitBelongs
  <2>. QED  BY <1>1, <2>1
<1>4. CInv /\ [Next]_vars => [Migration!Next]_([p \in Particle |-> Owner(p)])
  <2> SUFFICES ASSUME CInv, [Next]_vars
               PROVE  [Migration!Next]_([p \in Particle |-> Owner(p)])
    OBVIOUS
  <2>1. CASE \A s \in Rank : ~BeginRound(s)
    <3>1. ASSUME NEW p \in Particle PROVE Owner(p)' = Owner(p)
      <4>1. PICK o : Belongs(p, o)
        BY DEF CInv, Conserved
      <4>2. Belongs(p, o)'
        BY <2>1, <4>1, OwnerKept
      <4>. QED  BY <1>1, <1>2, <4>1, <4>2
    <3>. QED  BY <3>1
  <2>2. ASSUME NEW s \in Rank, BeginRound(s) PROVE Migration!Next
    <3> DEFINE S == {p \in Particle : \E f \in Face : OnGuard(p, s, f)}
               hit == [p \in S |-> CHOOSE f \in Face : OnGuard(p, s, f)]
    <3>1. \A p \in S : hit[p] \in Face /\ OnGuard(p, s, hit[p])
      OBVIOUS
    <3>2. ASSUME NEW p \in S
          PROVE  /\ Owner(p) = s /\ Owner(p)' = bc[s][hit[p]]
                 /\ bc[s][hit[p]] \in (Rank \ {s}) \cup {Absorb, Custom}
      <4>1. PICK o : Belongs(p, o)
        BY DEF CInv, Conserved
      <4>2. PICK e \in Face : e = hit[p] /\ OnGuard(p, s, e)
        BY <3>1
      <4>3. o = s /\ bc[s][e] \in (Rank \ {s}) \cup {Absorb, Custom} /\ Belongs(p, bc[s][e])'
        BY <2>2, <4>1, <4>2, BeginConserves
      <4>. QED  BY <1>1, <1>2, <4>1, <4>2, <4>3
    <3>3. ASSUME NEW p \in Particle \ S PROVE Owner(p)' = Owner(p)
      <4>1. PICK o : Belongs(p, o)
        BY DEF CInv, Conserved
      <4>2. Belongs(p, o)'
        BY <2>2, <4>1, BeginConserves
      <4>. QED  BY <1>1, <1>2, <4>1, <4>2
    <3>4. /\ S \in SUBSET {p \in Particle : Owner(p) = s}
          /\ hit \in [S -> {f \in Face : bc[s][f] \in (Rank \ {s}) \cup {Absorb, Custom}}]
      BY <3>1, <3>2
    <3>5. [p \in Particle |-> Owner(p)]' =
            [p \in Particle |-> IF p \in S THEN bc[s][hit[p]] ELSE Owner(p)]
      BY <3>2, <3>3
    <3>6. DOMAIN hit = S /\ \A p \in S : p \in Particle
      OBVIOUS
    <3> HIDE DEF S, hit
    <3>7. \A p \in S : [x \in Particle |-> Owner(x)][p] = s
      BY <3>2, <3>6
    <3>8. Migration!Cross(s, hit)
      BY <3>5, <3>6, <3>7 DEF Migration!Cross
    <3>9. S \in SUBSET {p \in Particle : [x \in Particle |-> Owner(x)][p] = s}
      BY <3>6, <3>7
    <3>. QED  BY <3>4, <3>8, <3>9 DEF Migration!Next
  <2>. QED  BY <2>1, <2>2
<1>. QED  BY ConservationInvariant, <1>3, <1>4, PTL DEF Spec, MigrationSpec, Migration!Spec
=============================================================================
