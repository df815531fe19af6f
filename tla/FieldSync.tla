----------------------------- MODULE FieldSync ------------------------------
(***************************************************************************)
(* The field half of a time step between the ranks: every value exchange   *)
(* of advance() on the device fields, over the six ports of mp_k.          *)
(*                                                                         *)
(* Neighbouring domains store the values on their common face twice.  The  *)
(* synchronizations k_synchronize_jf, k_synchronize_rho and                *)
(* synchronize_tang_e_norm_b_kokkos make the copies agree, one axis after  *)
(* the other, by a sum or an average.  The ghost exchanges of tang_b,      *)
(* norm_e and div_b copy a neighbour's first inner plane into a ghost      *)
(* plane, over the six ports at once.  Each packs a plane into a buffer    *)
(* shared by all of them, value by value, at a slot both sides compute.    *)
(* After the step dump_hydro sums the moments of the particles the same    *)
(* way, through the ports of mp, which size their own buffers.             *)
(*                                                                         *)
(* A value is the bag of the copies that went into it.  All cells have the *)
(* same size, as a box that is partitioned evenly gives them.              *)
(***************************************************************************)
EXTENDS Partition, Sequences, FiniteSets, Bags, SequencesExt

CONSTANT Decks   \* the input decks looked at: gnx, gny, gnz, gpx, gpy, gpz and the box

ASSUME DeckAssumption == Decks \subseteq [gn : Count, gp : Count, box : [Axis -> Box]]

\* The exchanges of advance() with one round of each divergence cleaning, and of
\* a dump_hydro in user_diagnostics.
Program == <<"jf", "tang_b", "rho", "norm_e", "allsum", "allsum", "div_b", "tang_e", "allsum",
             "hydro">>
Exchange == {"jf", "tang_b", "rho", "norm_e", "div_b", "tang_e", "hydro"}
Ghost == {"tang_b", "norm_e", "div_b"}
Summed == {"jf", "rhof", "hydro"}
OnHost == {"hydro"}          \* over mp, the others over mp_k

VARIABLES
  deck,          \* the arguments of the partition call, and the walls put up after it
  status,        \* status[r]: how far rank r is with its grid
  bc, neighbor,  \* bc[r][d] and neighbor[r][c][d]: g->bc and g->neighbor
  at,            \* at[r]: the exchange, the group of ports and the call in it
  k_f_d,         \* k_f_d[r]: the values of the current exchange
  sbuf, rbuf,    \* sbuf[r][d], rbuf[r][d]: what is in mp_k's buffers of port d, or
                 \* NULL; mp keeps its buffers, whose contents are not used again
  sreq, rreq     \* sreq[r][d], rreq[r][d]: the requests of port d

gridVars == <<status, bc, neighbor>>
portVars == <<sbuf, rbuf, sreq, rreq>>
vars == <<deck, gridVars, at, k_f_d, portVars>>

NULL == [s \in {-1} |-> 0]   \* no message has a slot -1
Idle == [state |-> "idle", op |-> 0]
n == LocalCells(deck.gn, deck.gp)
-----------------------------------------------------------------------------
\* What is exchanged: a component is a name and, for a vector, its axis.
Y(axis) == (axis + 1) % 3
Z(axis) == (axis + 2) % 3

\* The parts of a message across axis X as begin_send packs them; the components
\* of a part are interleaved.
JfParts(X)    == << <<<<"jf", Y(X)>>>>, <<<<"jf", Z(X)>>>> >>
RhoParts      == << <<<<"rhof", 0>>, <<"rhob", 0>>>> >>
TangEParts(X) == << <<<<"cb", X>>>>, <<<<"e", Y(X)>>, <<"tca", Y(X)>>>>,
                    <<<<"e", Z(X)>>, <<"tca", Z(X)>>>> >>
TangBParts(X) == << <<<<"cb", Y(X)>>>>, <<<<"cb", Z(X)>>>> >>
NormEParts(X) == << <<<<"e", X>>>> >>
DivBParts     == << <<<<"div_b_err", 0>>>> >>
HydroParts    == << [i \in 1 .. 14 |-> <<"hydro", i>>] >>
Parts(op, X) ==
  CASE op = "jf"     -> JfParts(X)
    [] op = "rho"    -> RhoParts
    [] op = "tang_e" -> TangEParts(X)
    [] op = "tang_b" -> TangBParts(X)
    [] op = "norm_e" -> NormEParts(X)
    [] op = "div_b"  -> DivBParts
    [] op = "hydro"  -> HydroParts

\* The first slot of the others holds the cell size of the sender.
Header(op) == IF op = "tang_e" THEN 0 ELSE 1

\* The planes of values along axis a: edges and faces have one less along or
\* across their axis, nodes have one more than cells.
Extent(comp, a, len) ==
  LET across == comp[2] # a
  IN  CASE comp[1] \in {"jf", "e", "tca"} -> IF across THEN len[a] + 1 ELSE len[a]
        [] comp[1] = "cb"                 -> IF across THEN len[a] ELSE len[a] + 1
        [] comp[1] \in {"rhof", "rhob", "hydro"} -> len[a] + 1
        [] comp[1] = "div_b_err"          -> len[a]

PartSize(part, X, len) == Len(part) * Extent(part[1], Y(X), len) * Extent(part[1], Z(X), len)

\* Where part k begins.  There are up to three parts.
PartStart(op, X, len, k) ==
  LET size(j) == PartSize(Parts(op, X)[j], X, len)
  IN  Header(op) + (IF k > 1 THEN size(1) ELSE 0) + (IF k > 2 THEN size(2) ELSE 0)

\* The slot of a value in a message: the loops run over the lower of the two
\* axes of the plane first.
SlotFor(op, X, len, comp, pos, stride(_, _)) ==
  LET parts == Parts(op, X)
      k == CHOOSE j \in DOMAIN parts : comp \in Range(parts[j])
      i == CHOOSE j \in DOMAIN parts[k] : parts[k][j] = comp
      fast == IF Y(X) < Z(X) THEN Y(X) ELSE Z(X)
      slow == IF Y(X) < Z(X) THEN Z(X) ELSE Y(X)
  IN  PartStart(op, X, len, k)
      + Len(parts[k]) * ((pos[slow] - 1) * stride(comp, fast) + pos[fast] - 1) + i - 1
SlotOfCells(op, X, len, comp, pos) == SlotFor(op, X, len, comp, pos, LAMBDA c, a : len[a])
Slot(op, X, len, comp, pos) == SlotFor(op, X, len, comp, pos, LAMBDA c, a : Extent(c, a, len))

\* The size a message is sent and received with, and that of the buffers, in
\* floats.
Size(op, X, len) ==
  LET nY == len[Y(X)]
      nZ == len[Z(X)]
  IN  CASE op \in {"jf", "tang_b"} -> 1 + nY * (nZ + 1) + nZ * (nY + 1)
        [] op = "rho"    -> 1 + 2 * (nY + 1) * (nZ + 1)
        [] op = "norm_e" -> 1 + (nY + 1) * (nZ + 1)
        [] op = "div_b"  -> 1 + nY * nZ
        [] op = "tang_e" -> 2 * nY * (nZ + 1) + 2 * nZ * (nY + 1) + nY * nZ
        [] op = "hydro"  -> 1 + 14 * (nY + 1) * (nZ + 1)
Allocated(X, len) ==
  LET nY == len[Y(X)]
      nZ == len[Z(X)]
  IN  2 * nY * (nZ + 1) + 2 * nZ * (nY + 1) + nY * nZ
\* size_send_port makes the buffer of the port large enough.
Capacity(op, X, len) == IF op \in OnHost THEN Size(op, X, len) ELSE Allocated(X, len)

\* The values of an exchange that lie in plane p across axis X.
Plane(op, X, len, p) ==
  UNION {{<<comp, [a \in Axis |-> IF a = X THEN p ELSE IF a = Y(X) THEN y ELSE z]>> :
            y \in 1 .. Extent(comp, Y(X), len), z \in 1 .. Extent(comp, Z(X), len)} :
         comp \in UNION {Range(part) : part \in Range(Parts(op, X))}}

\* The plane packed for port d and the one a receive on port d is unpacked to.
SendPlaneOutermost(op, d, len) == IF IsLow(d) THEN 1 ELSE len[AxisOf(d)] + 1
SendPlane(op, d, len) ==
  IF IsLow(d) THEN 1 ELSE IF op \in Ghost THEN len[AxisOf(d)] ELSE len[AxisOf(d)] + 1
RecvPlane(op, d, len) ==
  IF ~IsLow(d) THEN len[AxisOf(d)] + 1 ELSE IF op \in Ghost THEN 0 ELSE 1

\* The exchanges, the ports and the domains of the decks looked at.
Lengths == {LocalCells(d.gn, d.gp) : d \in Decks} \cap Count
Messages == {<<op, d, len>> : op \in Exchange, d \in Face, len \in Lengths}

\* The values packed for port d and those a receive on port d unpacks, with their
\* slots.
Packed == [x \in Messages |->
  LET op == x[1]  X == AxisOf(x[2])  len == x[3]
  IN  [loc \in Plane(op, X, len, SendPlane(op, x[2], len)) |-> Slot(op, X, len, loc[1], loc[2])]]
Unpacked == [x \in Messages |->
  LET op == x[1]  X == AxisOf(x[2])  len == x[3]
  IN  [loc \in Plane(op, X, len, RecvPlane(op, x[2], len)) |-> Slot(op, X, len, loc[1], loc[2])]]

\* The values an exchange touches, and the message it packs into slots.
Places == [x \in {<<op, len>> : op \in Exchange, len \in Lengths} |->
  UNION {DOMAIN Packed[<<x[1], d, x[2]>>] \cup DOMAIN Unpacked[<<x[1], d, x[2]>>] : d \in Face}]
Layout == [x \in Messages |->
  [s \in Range(Packed[x]) |-> CHOOSE loc \in DOMAIN Packed[x] : Packed[x][loc] = s]]
-----------------------------------------------------------------------------
\* Values.  A copy that is averaged starts with a weight that can be halved once
\* per axis.
Stale == EmptyBag
Weight(comp) == IF comp[1] \in Summed THEN 1 ELSE 8
Own(r, loc) == [c \in {<<r, loc[2]>>} |-> Weight(loc[1])]
Times(k, value) == IF k = 0 THEN Stale ELSE [c \in DOMAIN value |-> k * value[c]]
Averaged(a, b) == LET sum == a (+) b IN [c \in DOMAIN sum |-> sum[c] \div 2]

\* local_adjust_jf, local_adjust_rhof, local_adjust_rhob, local_adjust_tang_e
\* and ADJUST_HYDRO: what a wall makes of a value in its plane.
\* k_local_adjust_rhob clears rhof, which is clear already, where
\* local_adjust_rhob clears rhob.
AdjustJf(wall) == IF wall = AntiSymmetric THEN 0 ELSE 2
AdjustRhof(wall) == IF wall = AntiSymmetric THEN 0 ELSE 2
AdjustRhob(wall) == 1
AdjustTangE(wall) == IF wall = AntiSymmetric THEN 0 ELSE 1
AdjustHydro(wall) == 2
WallFactor(comp, axis, wall) ==
  CASE comp[1] = "jf" /\ comp[2] # axis             -> AdjustJf(wall)
    [] comp[1] = "rhof"                             -> AdjustRhof(wall)
    [] comp[1] = "rhob"                             -> AdjustRhob(wall)
    [] comp[1] \in {"e", "tca"} /\ comp[2] # axis   -> AdjustTangE(wall)
    [] comp[1] = "hydro"                            -> AdjustHydro(wall)
    [] OTHER -> 1

Walls(r, loc) ==
  {d \in Face : /\ bc[r][d] \notin Rank
                /\ loc[2][AxisOf(d)] = IF IsLow(d) THEN 1 ELSE n[AxisOf(d)] + 1}
Factor(r, loc) ==
  LET makes(d) == IF d \in Walls(r, loc) THEN WallFactor(loc[1], AxisOf(d), bc[r][d]) ELSE 1
  IN  makes(0) * makes(1) * makes(2) * makes(3) * makes(4) * makes(5)

\* What end_recv makes of a value it unpacks.
JfMerged(mine, theirs) == mine (+) theirs
RhoMerged(comp, mine, theirs) ==
  IF comp[1] = "rhof" THEN mine (+) theirs ELSE Averaged(mine, theirs)
TangEMerged(mine, theirs) == Averaged(mine, theirs)
GhostMerged(mine, theirs) == theirs
HydroMerged(mine, theirs) == mine (+) theirs
Merged(op, comp, mine, theirs) ==
  CASE op = "jf"     -> JfMerged(mine, theirs)
    [] op = "rho"    -> RhoMerged(comp, mine, theirs)
    [] op = "tang_e" -> TangEMerged(mine, theirs)
    [] op = "hydro"  -> HydroMerged(mine, theirs)
    [] OTHER         -> GhostMerged(mine, theirs)
-----------------------------------------------------------------------------
Init ==
  /\ deck \in Decks
  /\ status = [r \in Rank |-> "start"]
  /\ bc = [r \in Rank |-> [d \in Face |-> AntiSymmetric]]
  /\ neighbor = [r \in Rank |-> <<>>]
  /\ at = [r \in Rank |-> [op |-> 1, group |-> 0, next |-> 0]]
  /\ k_f_d = [r \in Rank |-> <<>>]
  /\ sbuf = [r \in Rank |-> [d \in Face |-> NULL]]
  /\ rbuf = [r \in Rank |-> [d \in Face |-> NULL]]
  /\ sreq = [r \in Rank |-> [d \in Face |-> Idle]]
  /\ rreq = [r \in Rank |-> [d \in Face |-> Idle]]

\* partition_periodic_box as far as the allgather of size_grid: it refuses a bad
\* decomposition or closes the domain on all sides.
SizeGrid(r) ==
  /\ status[r] = "start"
  /\ IF BadDecomposition(deck.gp) \/ BadResolution(deck.gn, deck.gp)
       THEN /\ status' = [status EXCEPT ![r] = "error"]
            /\ UNCHANGED neighbor
       ELSE /\ status' = [status EXCEPT ![r] = "sized"]
            /\ neighbor' = [neighbor EXCEPT ![r] =
                 [c \in Cells(n) |-> [d \in Face |->
                   IF c \in Layer(n, d) THEN Reflect
                   ELSE <<r, [c EXCEPT ![AxisOf(d)] = @ + Direction(d)]>>]]]
  /\ UNCHANGED <<deck, bc, at, k_f_d, portVars>>

\* Once every rank has sized its grid: join_grid on the six faces, then set_fbc
\* and set_pbc at the ends of the box.
JoinGrid(r) ==
  /\ status[r] = "sized"
  /\ \A q \in Rank : status[q] # "start"
  /\ bc' = [bc EXCEPT ![r] = [d \in Face |-> BC(r, d, deck.box, deck.gn, deck.gp)]]
  /\ neighbor' = [neighbor EXCEPT ![r] =
       [c \in Cells(n) |-> [d \in Face |->
         IF c \notin Layer(n, d) THEN neighbor[r][c][d]
         ELSE IF bc'[r][d] \in Rank THEN <<bc'[r][d], Glued(n, d, Voxels(n), c)>>
         ELSE ParticleWall(deck.box[AxisOf(d)])]]]
  /\ status' = [status EXCEPT ![r] = "joined"]
  /\ UNCHANGED <<deck, at, k_f_d, portVars>>

Op(r) == Program[at[r].op]
Done(r) == at[r].op > Len(Program)
Working(r) == status[r] = "joined" /\ ~Done(r)

\* The directions of a group of calls.  A message that travels in direction d
\* leaves by port d and arrives by the opposite port.
GroupsAtOnce(op) == << <<0, 1, 2, 3, 4, 5>> >>
Groups(op) == IF op \in Ghost THEN << <<0, 1, 2, 3, 4, 5>> >>
              ELSE << <<0, 3>>, <<1, 4>>, <<2, 5>> >>
Group(r) == Groups(Op(r))[at[r].group]
Connected(r, d) == bc[r][d] \in Rank

\* mp_end_send waits until MPI has taken the message.
SendEndsAtOnce(request) == TRUE
SendEnds(request) == request.state = "taken"

\* The calls of a group in their order: all receives and sends are begun, then
\* the receives are ended, then the sends.
NextCallUnsent(r, calls) ==
  IF calls < Len(Group(r)) THEN [at[r] EXCEPT !.next = calls + 1]
  ELSE IF at[r].group < Len(Groups(Op(r)))
         THEN [at[r] EXCEPT !.group = @ + 1, !.next = 0]
  ELSE [op |-> at[r].op + 1, group |-> 0, next |-> 0]
NextCall(r, calls) ==
  IF calls < 2 * Len(Group(r)) THEN [at[r] EXCEPT !.next = calls + 1]
  ELSE IF at[r].group < Len(Groups(Op(r)))
         THEN [at[r] EXCEPT !.group = @ + 1, !.next = 0]
  ELSE [op |-> at[r].op + 1, group |-> 0, next |-> 0]

\* The kernels before an exchange have left each copy with a value of its own;
\* before a synchronization the local adjustment has seen to the walls.
Adjust(r) ==
  /\ Working(r) /\ Op(r) \in Exchange /\ at[r].group = 0
  /\ k_f_d' = [k_f_d EXCEPT ![r] = [loc \in Places[<<Op(r), n>>] |->
       IF Op(r) \in Ghost THEN Own(r, loc) ELSE Times(Factor(r, loc), Own(r, loc))]]
  /\ at' = [at EXCEPT ![r].group = 1]
  /\ UNCHANGED <<deck, gridVars, portVars>>

\* mp_begin_recv and mp_begin_send.
Posted(r) == [state |-> "posted", op |-> at[r].op]

\* What is packed for port d.
Message(r, d) ==
  LET layout == Layout[<<Op(r), d, n>>]
  IN  [s \in DOMAIN layout |-> k_f_d[r][layout[s]]]

\* begin_recv and begin_send of the group, with the packing.
BeginExchange(r) ==
  /\ Working(r) /\ at[r].group > 0 /\ at[r].next = 0
  /\ LET out == {d \in Range(Group(r)) : Connected(r, d)}
         in == {d \in Face : Opposite(d) \in Range(Group(r)) /\ Connected(r, d)}
     IN  /\ rbuf' = [rbuf EXCEPT ![r] = [d \in Face |-> IF d \in in THEN <<>> ELSE @[d]]]
         /\ rreq' = [rreq EXCEPT ![r] = [d \in Face |-> IF d \in in THEN Posted(r) ELSE @[d]]]
         /\ sbuf' = [sbuf EXCEPT ![r] = [d \in Face |-> IF d \in out THEN Message(r, d) ELSE @[d]]]
         /\ sreq' = [sreq EXCEPT ![r] = [d \in Face |-> IF d \in out THEN Posted(r) ELSE @[d]]]
  /\ at' = [at EXCEPT ![r].next = 1]
  /\ UNCHANGED <<deck, gridVars, k_f_d>>

\* What a receive on port d makes of the values.
Unpack(r, d) ==
  LET slot == Unpacked[<<Op(r), d, n>>]
  IN  [loc \in DOMAIN k_f_d[r] |->
        IF loc \in DOMAIN slot
          THEN Merged(Op(r), loc[1], k_f_d[r][loc], rbuf[r][d][slot[loc]])
          ELSE k_f_d[r][loc]]

\* end_recv: the port's receive buffer is unset and the planes are unpacked if
\* what end_recv_port_k returns, the port's send buffer, is set.  end_recv_port
\* returns the receive buffer.
EndRecv(r) ==
  /\ Working(r) /\ at[r].group > 0 /\ at[r].next \in 1 .. Len(Group(r))
  /\ LET d == Opposite(Group(r)[at[r].next])
     IN  IF ~Connected(r, d) THEN UNCHANGED <<k_f_d, portVars>>
         ELSE /\ rreq[r][d].state # "posted"
              /\ rreq' = [rreq EXCEPT ![r][d] = Idle]
              /\ rbuf' = [rbuf EXCEPT ![r][d] = NULL]
              /\ k_f_d' = IF sbuf[r][d] = NULL /\ Op(r) \notin OnHost THEN k_f_d
                      ELSE [k_f_d EXCEPT ![r] = Unpack(r, d)]
              /\ UNCHANGED <<sbuf, sreq>>
  /\ at' = [at EXCEPT ![r] = NextCall(r, at[r].next)]
  /\ UNCHANGED <<deck, gridVars>>

EndSend(r) ==
  /\ Working(r) /\ at[r].group > 0 /\ at[r].next > Len(Group(r))
  /\ LET d == Group(r)[at[r].next - Len(Group(r))]
     IN  IF ~Connected(r, d) THEN UNCHANGED portVars
         ELSE /\ SendEnds(sreq[r][d])
              /\ sreq' = [sreq EXCEPT ![r][d] = Idle]
              /\ sbuf' = [sbuf EXCEPT ![r][d] = NULL]
              /\ UNCHANGED <<rbuf, rreq>>
  /\ at' = [at EXCEPT ![r] = NextCall(r, at[r].next)]
  /\ UNCHANGED <<deck, gridVars, k_f_d>>

\* mp_allsum_d of the rms errors and of the synchronization error.
AllSum(r) ==
  /\ Working(r) /\ Op(r) = "allsum"
  /\ \A q \in Rank : status[q] = "joined" /\ at[q].op >= at[r].op
  /\ at' = [at EXCEPT ![r].op = @ + 1]
  /\ UNCHANGED <<deck, gridVars, k_f_d, portVars>>

\* MPI pairs a send with the receive that names its rank and, as tag, its port.
Matched(r, d) ==
  /\ Connected(r, d)
  /\ sreq[r][d].state = "posted"
  /\ rreq[bc[r][d]][Opposite(d)].state = "posted"
  /\ bc[bc[r][d]][Opposite(d)] = r

Transfer(r, d) ==
  /\ Matched(r, d)
  /\ rbuf' = [rbuf EXCEPT ![bc[r][d]][Opposite(d)] = sbuf[r][d]]
  /\ sreq' = [sreq EXCEPT ![r][d].state = "taken"]
  /\ rreq' = [rreq EXCEPT ![bc[r][d]][Opposite(d)].state = "full"]
  /\ UNCHANGED <<deck, gridVars, at, k_f_d, sbuf>>

\* The deck was refused, or the step is over.
Stop ==
  /\ \A r \in Rank : status[r] = "error" \/ Done(r)
  /\ UNCHANGED vars

Next ==
  \/ \E r \in Rank : \/ SizeGrid(r) \/ JoinGrid(r) \/ Adjust(r) \/ BeginExchange(r)
                     \/ EndRecv(r) \/ EndSend(r) \/ AllSum(r)
  \/ \E r \in Rank, d \in Face : Transfer(r, d)
  \/ Stop

Spec == Init /\ [][Next]_vars

\* No rank stops and MPI makes progress: as long as something can happen,
\* something does.
FairSpec == Spec /\ WF_vars(Next)
-----------------------------------------------------------------------------
\* The ranks agree on who is whose neighbour: behind a joined face is a rank that
\* has this one behind the opposite face, and its cell that meets a cell of mine
\* there is met by that cell.
NeighboursMutual ==
  \A r \in Rank, d \in Face :
    LET q == bc[r][d]
    IN  status[r] = "joined" /\ q \in Rank /\ status[q] = "joined" =>
          /\ bc[q][Opposite(d)] = r
          /\ \A c \in Layer(n, d) : \E b \in Layer(n, Opposite(d)) :
               neighbor[r][c][d] = <<q, b>> /\ neighbor[q][b][Opposite(d)] = <<r, c>>

\* Every message of begin_send has the size that is announced, fits the buffers
\* allocated for the largest one, and gives each value a slot of its own.
MessageFits ==
  \A r \in Rank, d \in Face :
    sbuf[r][d] # NULL =>
      LET size == Size(Op(r), AxisOf(d), n)
      IN  /\ DOMAIN sbuf[r][d] = Header(Op(r)) .. size - 1
          /\ Cardinality(DOMAIN Packed[<<Op(r), d, n>>]) = size - Header(Op(r))
          /\ size <= Capacity(Op(r), AxisOf(d), n)

\* A send and a receive MPI pairs belong to the same exchange, although every
\* exchange uses the same ports and tags.
MessagesPaired ==
  \A r \in Rank, d \in Face :
    Matched(r, d) => sreq[r][d].op = rreq[bc[r][d]][Opposite(d)].op

\* When a rank begins a group, no request of its ports is outstanding and no
\* buffer is set: the host buffers the exchanges share are not in use.
PortsQuiet ==
  \A r \in Rank : Working(r) /\ at[r].next = 0 =>
    \A d \in Face : sreq[r][d] = Idle /\ rreq[r][d] = Idle /\ sbuf[r][d] = NULL /\ rbuf[r][d] = NULL

\* The exchange whose result k_f_d[r] is.
Held(r) == LET past == {i \in 1 .. at[r].op - 1 : Program[i] \in Exchange}
           IN  IF at[r].group # 0 \/ past = {} THEN "none"
               ELSE Program[CHOOSE i \in past : \A j \in past : j <= i]

\* Where the copies of a value are.  The ends of a periodic axis are one place.
Alike(r, loc, a) ==
  LET place(i, p) == IF deck.box[a] = "periodic" \/ deck.gn[a] = 1 THEN (i * n[a] + p - 1) % deck.gn[a]
                     ELSE i * n[a] + p - 1
  IN  {alike \in (0 .. deck.gp[a] - 1) \X (1 .. Extent(loc[1], a, n)) :
         place(alike[1], alike[2]) = place(RankToIndex(r, deck.gp)[a], loc[2][a])}
Copies(r, loc) ==
  {LET copy == <<x, y, z>>
   IN  <<IndexToRank([a \in Axis |-> copy[a + 1][1]], deck.gp), [a \in Axis |-> copy[a + 1][2]]>> :
     x \in Alike(r, loc, 0), y \in Alike(r, loc, 1), z \in Alike(r, loc, 2)}

\* After a synchronization each copy of a shared value holds the contribution of
\* every copy exactly once: their sum, doubled at an absorbing wall and cleared
\* at a metal one, or their average.
SharedValuesAgree ==
  \A r \in Rank : Held(r) \in Exchange \ Ghost =>
    \A loc \in DOMAIN k_f_d[r] :
      LET copies == Copies(r, loc)
          share == IF loc[1][1] \in Summed THEN 1 ELSE Weight(loc[1]) \div Cardinality(copies)
      IN  k_f_d[r][loc] = Times(Factor(r, loc) * share, [c \in copies |-> 1])

\* After a ghost exchange each ghost behind a joined face holds the neighbour's
\* value at its place in the box.
GhostsCurrent ==
  \A r \in Rank : Held(r) \in Ghost =>
    \A d \in Face : Connected(r, d) =>
      \A loc \in DOMAIN Unpacked[<<Held(r), d, n>>] :
        \E c \in Copies(r, loc) : k_f_d[r][loc] = [x \in {c} |-> Weight(loc[1])]

\* local.cc says that a metal wall clears rhob (opposite sign image charges).
RhobZeroAtMetal ==
  \A r \in Rank : Held(r) = "rho" =>
    \A loc \in DOMAIN k_f_d[r] :
      loc[1][1] = "rhob" /\ (\E d \in Walls(r, loc) : bc[r][d] = AntiSymmetric)
        => k_f_d[r][loc] = Stale

\* Every rank gets through the exchanges of the step, unless the deck is refused.
EveryRankSynced == <>(\A r \in Rank : status[r] = "error" \/ Done(r))
=============================================================================
