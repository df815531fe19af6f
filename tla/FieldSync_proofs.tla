-------------------------- MODULE FieldSync_proofs --------------------------
(***************************************************************************)
(* The exchanges of fields, for every number of ranks and every            *)
(* decomposition of the box.  The neighbours agree, no two exchanges share *)
(* a port and no message of one is taken for one of another.  A message    *)
(* has a slot for each value of its plane and fits the buffers, a ghost    *)
(* that has been received is the neighbour's value, and the copies of a    *)
(* shared value agree after a synchronization.                             *)
(***************************************************************************)
EXTENDS FieldSync, Partition_proofs, FiniteSetTheorems, FunctionTheorems

-----------------------------------------------------------------------------
(***************************************************************************)
(* The grid.                                                               *)
(***************************************************************************)
Good == ~BadDecomposition(deck.gp) /\ ~BadResolution(deck.gn, deck.gp)

\* What BC makes of a face, and whether another rank is behind it.
Behind(r, d) == BC(r, d, deck.box, deck.gn, deck.gp)
Linked(r, d) == Behind(r, d) \in Rank

Sized(r) ==
  [c \in Cells(n) |-> [d \in Face |->
    IF c \in Layer(n, d) THEN Reflect ELSE <<r, [c EXCEPT ![AxisOf(d)] = @ + Direction(d)]>>]]
Joined(r) ==
  [c \in Cells(n) |-> [d \in Face |->
    IF c \notin Layer(n, d) THEN Sized(r)[c][d]
    ELSE IF Linked(r, d) THEN <<Behind(r, d), Glued(n, d, Voxels(n), c)>>
    ELSE ParticleWall(deck.box[AxisOf(d)])]]

GridOK ==
  /\ deck \in Decks
  /\ status \in [Rank -> {"start", "sized", "joined", "error"}]
  /\ bc \in [Rank -> [Face -> Int]]
  /\ DOMAIN neighbor = Rank
  /\ \A r \in Rank :
       /\ status[r] \in {"sized", "joined"} => Good
       /\ status[r] = "sized" => neighbor[r] = Sized(r)
       /\ status[r] = "joined" => /\ bc[r] = [d \in Face |-> Behind(r, d)]
                                  /\ neighbor[r] = Joined(r)
       /\ status[r] # "joined" => bc[r] = [d \in Face |-> AntiSymmetric]

LEMMA DeckType ==
  ASSUME deck \in Decks
  PROVE  deck.gp \in Count /\ deck.gn \in Count
BY DeckAssumption

LEMMA CellsType ==
  ASSUME deck \in Decks, Good
  PROVE  n \in Count
<1>1. deck.gp \in Count /\ deck.gn \in Count
  BY DeckType
<1>2. ASSUME NEW a \in Axis PROVE deck.gn[a] \div deck.gp[a] \in Nat \ {0}
  <2>1. deck.gn[a] \in Nat \ {0} /\ deck.gp[a] \in Nat \ {0} /\ deck.gn[a] % deck.gp[a] = 0
    BY <1>1 DEF Count, Good, BadResolution
  <2>2. PICK x \in Nat \ {0}, m \in Nat \ {0} : x = deck.gn[a] /\ m = deck.gp[a] /\ x % m = 0
    BY <2>1
  <2>3. x \div m \in Nat /\ x = m * (x \div m) + (x % m)
    BY Division
  <2>4. x \div m # 0
    BY <2>2, <2>3
  <2>. QED  BY <2>2, <2>3, <2>4
<1>. QED  BY <1>2 DEF n, LocalCells, Count

\* A wall is no rank.
LEMMA WallType ==
  /\ AntiSymmetric \notin Rank
  /\ \A kind : WallOfBox(kind) \in Int
  /\ Rank \subseteq Int
BY WorldAssumption DEF AntiSymmetric, WallOfBox, AbsorbFields, Rank

LEMMA BehindType ==
  ASSUME deck \in Decks, Good, NEW r \in Rank, NEW d \in Face
  PROVE  Behind(r, d) \in Int
BY DeckType, AdjacentIndex, WallType DEF Behind, BC, Good

LEMMA BehindMutual ==
  ASSUME deck \in Decks, Good, NEW r \in Rank, NEW d \in Face, Linked(r, d)
  PROVE  /\ Behind(r, d) \in Rank /\ Opposite(d) \in Face
         /\ Behind(Behind(r, d), Opposite(d)) = r
         /\ Linked(Behind(r, d), Opposite(d))
<1>1. deck.gp \in Count /\ deck.gn \in Count /\ Opposite(d) \in Face
  BY DeckType, Faces
<1>2. Behind(Behind(r, d), Opposite(d)) = r
  BY <1>1, BCMutual DEF Linked, Behind, Good
<1>. QED  BY <1>1, <1>2 DEF Linked

LEMMA InitGrid == Init => GridOK
<1> SUFFICES ASSUME Init PROVE GridOK
  OBVIOUS
<1>1. AntiSymmetric \in Int
  BY DEF AntiSymmetric
<1>2. /\ deck \in Decks /\ status = [r \in Rank |-> "start"] /\ DOMAIN neighbor = Rank
      /\ bc = [r \in Rank |-> [d \in Face |-> AntiSymmetric]]
  BY DEF Init
<1>. QED  BY <1>1, <1>2 DEF GridOK

\* The grid is a function of the deck.
LEMMA DeckFixed ==
  ASSUME deck' = deck
  PROVE  /\ (Good' <=> Good) /\ n' = n
         /\ \A r \in Rank : Sized(r)' = Sized(r) /\ Joined(r)' = Joined(r)
         /\ \A r \in Rank, d \in Face : Behind(r, d)' = Behind(r, d)
<1>1. Good' <=> Good
  BY DEF Good
<1>2. n' = n
  BY DEF n
<1>3. ASSUME NEW r \in Rank, NEW d \in Face
      PROVE  Behind(r, d)' = Behind(r, d) /\ (Linked(r, d)' <=> Linked(r, d))
  BY DEF Behind, Linked
<1>4. ASSUME NEW r \in Rank PROVE Sized(r)' = Sized(r)
  BY <1>2 DEF Sized
<1>5. ASSUME NEW r \in Rank PROVE Joined(r)' = Joined(r)
  BY <1>2, <1>3, <1>4 DEF Joined
<1>. QED  BY <1>1, <1>2, <1>3, <1>4, <1>5

LEMMA GridStep == GridOK /\ [Next]_vars => GridOK'
<1> SUFFICES ASSUME GridOK, [Next]_vars PROVE GridOK'
  OBVIOUS
<1>1. ASSUME NEW r \in Rank, SizeGrid(r) PROVE GridOK'
  <2>1. CASE BadDecomposition(deck.gp) \/ BadResolution(deck.gn, deck.gp)
    BY <1>1, <2>1, DeckFixed DEF SizeGrid, GridOK
  <2>2. CASE ~(BadDecomposition(deck.gp) \/ BadResolution(deck.gn, deck.gp))
    <3>1. /\ status' = [status EXCEPT ![r] = "sized"] /\ status[r] = "start"
          /\ neighbor' = [neighbor EXCEPT ![r] = Sized(r)] /\ deck' = deck /\ bc' = bc
      BY <1>1, <2>2 DEF SizeGrid, Sized
    <3>2. Good
      BY <2>2 DEF Good
    <3>. QED  BY <3>1, <3>2, DeckFixed DEF GridOK
  <2>. QED  BY <2>1, <2>2
<1>2. ASSUME NEW r \in Rank, JoinGrid(r) PROVE GridOK'
  <2>1. status[r] = "sized" /\ Good /\ neighbor[r] = Sized(r) /\ deck' = deck /\ deck \in Decks
    BY <1>2 DEF JoinGrid, GridOK
  <2>2. bc' = [bc EXCEPT ![r] = [d \in Face |-> Behind(r, d)]]
    BY <1>2 DEF JoinGrid, Behind
  <2>3. neighbor' = [neighbor EXCEPT ![r] = Joined(r)]
    <3>1. bc'[r] = [d \in Face |-> Behind(r, d)]
      BY <2>2 DEF GridOK
    <3>2. \A d \in Face : bc'[r][d] = Behind(r, d)
      BY <3>1
    <3>3. PICK cells :
            /\ neighbor' = [neighbor EXCEPT ![r] = cells]
            /\ cells = [c \in Cells(n) |-> [d \in Face |->
                         IF c \notin Layer(n, d) THEN neighbor[r][c][d]
                         ELSE IF bc'[r][d] \in Rank
                                THEN <<bc'[r][d], Glued(n, d, Voxels(n), c)>>
                         ELSE ParticleWall(deck.box[AxisOf(d)])]]
      BY <1>2 DEF JoinGrid
    <3>4. cells = Joined(r)
      BY <2>1, <3>2, <3>3 DEF Joined, Linked
    <3>. QED  BY <3>3, <3>4
  <2>4. [d \in Face |-> Behind(r, d)] \in [Face -> Int]
    BY <2>1, BehindType
  <2>5. status' = [status EXCEPT ![r] = "joined"]
    BY <1>2 DEF JoinGrid
  <2>. QED  BY <2>1, <2>2, <2>3, <2>4, <2>5, DeckFixed DEF GridOK
<1>3. CASE UNCHANGED <<deck, status, bc, neighbor>>
  BY <1>3, DeckFixed DEF GridOK
<1>4. ASSUME NEW r \in Rank,
             Adjust(r) \/ BeginExchange(r) \/ EndRecv(r) \/ EndSend(r) \/ AllSum(r)
      PROVE  UNCHANGED <<deck, status, bc, neighbor>>
  BY <1>4 DEF Adjust, BeginExchange, EndRecv, EndSend, AllSum, gridVars
<1>5. ASSUME NEW r \in Rank, NEW d \in Face, Transfer(r, d)
      PROVE  UNCHANGED <<deck, status, bc, neighbor>>
  BY <1>5 DEF Transfer, gridVars
<1>6. CASE UNCHANGED vars
  BY <1>3, <1>6 DEF vars, gridVars
<1>. QED  BY <1>1, <1>2, <1>3, <1>4, <1>5, <1>6 DEF Next, Stop

\* The ranks agree on who is whose neighbour and on the cells that meet, for
\* every number of ranks and every decomposition: also along an axis of one
\* domain or of two, where the neighbours on both sides are the same rank.
THEOREM NeighboursAlwaysMutual == Spec => []NeighboursMutual
<1>1. ASSUME GridOK, NEW r \in Rank, NEW d \in Face, bc[r][d] \in Rank,
             status[r] = "joined", status[bc[r][d]] = "joined"
      PROVE  /\ bc[bc[r][d]][Opposite(d)] = r
             /\ \A c \in Layer(n, d) : \E b \in Layer(n, Opposite(d)) :
                  /\ neighbor[r][c][d] = <<bc[r][d], b>>
                  /\ neighbor[bc[r][d]][b][Opposite(d)] = <<r, c>>
  <2>. PICK q \in Rank : q = bc[r][d] /\ status[q] = "joined"
    BY <1>1
  <2>1. /\ Good /\ deck \in Decks /\ n \in Count
        /\ Behind(r, d) = q /\ Linked(r, d)
    BY <1>1, CellsType DEF GridOK, Linked
  <2>2. PICK e \in Face : e = Opposite(d) /\ Behind(q, e) = r /\ Linked(q, e)
    BY <2>1, BehindMutual
  <2>3. bc[q][e] = r
    BY <1>1, <2>2 DEF GridOK
  <2>4. ASSUME NEW c \in Layer(n, d)
        PROVE  \E b \in Layer(n, e) :
                 neighbor[r][c][d] = <<q, b>> /\ neighbor[q][b][e] = <<r, c>>
    <3>1. PICK b \in Layer(n, e) : b = Glued(n, d, Voxels(n), c) /\ Glued(n, e, Voxels(n), b) = c
      BY <2>1, <2>2, GluedMutual
    <3>2. c \in Cells(n) /\ b \in Cells(n)
      BY DEF Layer
    <3>3. neighbor[r][c][d] = <<q, b>>
      <4>1. neighbor[r] = Joined(r)
        BY <1>1 DEF GridOK
      <4>. QED  BY <2>1, <3>1, <3>2, <4>1 DEF Joined
    <3>4. neighbor[q][b][e] = <<r, c>>
      <4>1. neighbor[q] = Joined(q)
        BY <1>1 DEF GridOK
      <4>. QED  BY <2>2, <3>1, <3>2, <4>1 DEF Joined
    <3>. QED  BY <3>3, <3>4
  <2>. QED  BY <2>2, <2>3, <2>4
<1>2. GridOK => NeighboursMutual
  BY <1>1 DEF NeighboursMutual
<1>. QED  BY InitGrid, GridStep, <1>2, PTL DEF Spec
-----------------------------------------------------------------------------
(***************************************************************************)
(* The schedule of calls: the message in direction d is begun at call 0 of *)
(* group GroupOf, received at call PlaceIn and its send ended Width later. *)
(***************************************************************************)
Uses == {o \in 1 .. Len(Program) : Program[o] \in Exchange}
Height(op) == IF op \in Ghost THEN 1 ELSE 3
Width(op) == IF op \in Ghost THEN 6 ELSE 2
GroupOf(op, d) == IF op \in Ghost THEN 1 ELSE AxisOf(d) + 1
PlaceIn(op, d) == IF op \in Ghost THEN d + 1 ELSE IF IsLow(d) THEN 1 ELSE 2

LEMMA ProgramIs ==
  /\ Len(Program) = 10
  /\ \A o \in 1 .. 10 : o \in Uses <=> Program[o] \in Exchange
  /\ \A o \in 1 .. 10 : o \notin Uses <=> Program[o] = "allsum"
  /\ Uses \subseteq 1 .. 10
BY DEF Program, Uses, Exchange

LEMMA Shape ==
  ASSUME NEW op
  PROVE  /\ Height(op) \in 1 .. 3 /\ Width(op) \in 2 .. 6
         /\ \A d \in Face : GroupOf(op, d) \in 1 .. Height(op) /\ PlaceIn(op, d) \in 1 .. Width(op)
BY Faces DEF Height, Width, GroupOf, PlaceIn, Face, AxisOf, IsLow

LEMMA Schedule ==
  ASSUME NEW op
  PROVE  /\ Len(Groups(op)) = Height(op)
         /\ \A g \in 1 .. Height(op) :
              /\ Len(Groups(op)[g]) = Width(op)
              /\ \A i \in 1 .. Width(op) :
                   /\ Groups(op)[g][i] \in Face
                   /\ GroupOf(op, Groups(op)[g][i]) = g /\ PlaceIn(op, Groups(op)[g][i]) = i
              /\ \A d \in Face : d \in Range(Groups(op)[g]) <=> GroupOf(op, d) = g
<1>1. CASE op \in Ghost
  <2>1. Groups(op) = << <<0, 1, 2, 3, 4, 5>> >>
    BY <1>1 DEF Groups
  <2>. QED  BY <1>1, <2>1 DEF Height, Width, GroupOf, PlaceIn, Face, Range
<1>2. CASE op \notin Ghost
  <2>1. Groups(op) = << <<0, 3>>, <<1, 4>>, <<2, 5>> >>
    BY <1>2 DEF Groups
  <2>2. /\ \A d \in Face : AxisOf(d) = IF d < 3 THEN d ELSE d - 3
        /\ Face = {0, 1, 2, 3, 4, 5}
    BY DEF Face, AxisOf
  <2>. QED  BY <1>2, <2>1, <2>2 DEF Height, Width, GroupOf, PlaceIn, IsLow, Range
<1>. QED  BY <1>1, <1>2

(***************************************************************************)
(* Where a rank is in its schedule.                                        *)
(***************************************************************************)
Place ==
  {x \in [op : 1 .. 11, group : 0 .. 3, next : 0 .. 12] :
     /\ x.group = 0 => x.next = 0
     /\ x.op \notin Uses => x.group = 0
     /\ x.op \in Uses => /\ x.group <= Height(Program[x.op])
                         /\ x.next <= 2 * Width(Program[x.op])}
Start == [op |-> 1, group |-> 0, next |-> 0]

\* The call a rank at x makes next for direction d: 0 for the begin, then those
\* of NextCall; the calls of exchange o it has made.
GroupAt(o, d) == GroupOf(Program[o], d)
RecvCall(o, d) == PlaceIn(Program[o], d)
SendCall(o, d) == Width(Program[o]) + PlaceIn(Program[o], d)
Past(x, o, d, call) ==
  \/ x.op > o
  \/ x.op = o /\ x.group > GroupAt(o, d)
  \/ x.op = o /\ x.group = GroupAt(o, d) /\ x.next > call
During(x, d, call) ==
  x.op \in Uses /\ x.group = GroupAt(x.op, d) /\ 1 <= x.next /\ x.next <= call

\* NextCall, as a function of the place.
After(x) ==
  IF x.next < 2 * Width(Program[x.op]) THEN [x EXCEPT !.next = x.next + 1]
  ELSE IF x.group < Height(Program[x.op]) THEN [x EXCEPT !.group = @ + 1, !.next = 0]
  ELSE [op |-> x.op + 1, group |-> 0, next |-> 0]

LEMMA CallRange ==
  ASSUME NEW o \in Uses, NEW d \in Face
  PROVE  /\ o \in 1 .. 10 /\ GroupAt(o, d) \in 1 .. 3
         /\ RecvCall(o, d) \in 1 .. 12 /\ SendCall(o, d) \in 1 .. 12
<1>1. o \in 1 .. 10
  BY ProgramIs
<1>2. PICK op : op = Program[o]
  OBVIOUS
<1>3. PICK h \in 1 .. 3, w \in 2 .. 6 : h = Height(op) /\ w = Width(op)
  BY Shape
<1>4. GroupOf(op, d) \in 1 .. h /\ PlaceIn(op, d) \in 1 .. w
  BY <1>3, Shape
<1>. QED  BY <1>1, <1>2, <1>3, <1>4 DEF GroupAt, RecvCall, SendCall

LEMMA StartPlace ==
  /\ Start \in Place
  /\ \A d \in Face, o \in Uses : /\ ~Past(Start, o, d, RecvCall(o, d))
                                 /\ ~Past(Start, o, d, SendCall(o, d))
  /\ \A d, call : ~During(Start, d, call)
<1>1. Height(Program[1]) \in 1 .. 3 /\ Width(Program[1]) \in 2 .. 6 /\ 1 \in Uses
  BY Shape, ProgramIs DEF Program, Exchange
<1>. QED  BY <1>1, CallRange DEF Start, Place, Past, During

\* The calls of a group leave the rank in a place of the schedule.
LEMMA Calling ==
  ASSUME NEW x \in Place, x.op \in Uses, x.group > 0, x.next > 0
  PROVE  /\ After(x) \in Place
         /\ \A d \in Face, o \in Uses :
              \A call \in {RecvCall(o, d), SendCall(o, d)} :
                Past(After(x), o, d, call) <=>
                  \/ Past(x, o, d, call)
                  \/ o = x.op /\ x.group = GroupAt(o, d) /\ x.next = call
         /\ \A d \in Face : \A call \in {RecvCall(x.op, d), SendCall(x.op, d)} :
              During(After(x), d, call) <=> During(x, d, call) /\ x.next # call
         /\ After(x).op # x.op => \A d, call : ~During(After(x), d, call)
<1> DEFINE W == Width(Program[x.op])
           H == Height(Program[x.op])
           y == After(x)
<1>1. /\ x = [op |-> x.op, group |-> x.group, next |-> x.next]
      /\ x.op \in 1 .. 10 /\ x.group \in 1 .. H /\ x.next \in 1 .. 2 * W
      /\ W \in 2 .. 6 /\ H \in 1 .. 3
  BY Shape, ProgramIs DEF Place
<1>2. \/ x.next < 2 * W /\ y = [op |-> x.op, group |-> x.group, next |-> x.next + 1]
      \/ x.next = 2 * W /\ x.group < H /\ y = [op |-> x.op, group |-> x.group + 1, next |-> 0]
      \/ x.next = 2 * W /\ x.group = H /\ y = [op |-> x.op + 1, group |-> 0, next |-> 0]
  <2>1. PICK o \in Nat, g \in Nat, k \in Nat : x = [op |-> o, group |-> g, next |-> k]
    BY <1>1
  <2>2. CASE x.next < 2 * W
    BY <1>1, <2>1, <2>2 DEF After
  <2>3. CASE x.next = 2 * W /\ x.group < H
    BY <1>1, <2>1, <2>3 DEF After
  <2>4. CASE x.next = 2 * W /\ x.group = H
    BY <1>1, <2>1, <2>4 DEF After
  <2>. QED  BY <1>1, <2>2, <2>3, <2>4
<1>3. ASSUME NEW d \in Face, NEW o \in Uses
      PROVE  /\ o \in 1 .. 10 /\ GroupAt(o, d) \in 1 .. 3
             /\ RecvCall(o, d) \in 1 .. 12 /\ SendCall(o, d) \in 1 .. 12
             /\ o = x.op => /\ GroupAt(o, d) \in 1 .. H
                            /\ RecvCall(o, d) \in 1 .. 2 * W /\ SendCall(o, d) \in 1 .. 2 * W
  BY Shape, ProgramIs DEF GroupAt, RecvCall, SendCall
<1> HIDE DEF W, H, y
<1>4. y \in Place
  <2>1. CASE y.op = x.op
    BY <1>1, <1>2, <2>1 DEF Place, W, H
  <2>2. CASE y.op # x.op
    <3>1. y = [op |-> x.op + 1, group |-> 0, next |-> 0]
      BY <1>2, <2>2
    <3>2. y.op \in Uses => Height(Program[y.op]) \in 1 .. 3 /\ Width(Program[y.op]) \in 2 .. 6
      BY Shape
    <3>. QED  BY <1>1, <3>1, <3>2 DEF Place
  <2>. QED  BY <2>1, <2>2
<1>5. ASSUME NEW d \in Face, NEW o \in Uses, NEW call \in {RecvCall(o, d), SendCall(o, d)}
      PROVE  Past(y, o, d, call) <=>
               \/ Past(x, o, d, call)
               \/ o = x.op /\ x.group = GroupAt(o, d) /\ x.next = call
  <2>1. PICK g \in 1 .. 3, c \in 1 .. 12 :
          /\ g = GroupAt(o, d) /\ c = call
          /\ o = x.op => g <= H /\ c <= 2 * W
    BY <1>3
  <2>. QED  BY <1>1, <1>2, <1>3, <2>1 DEF Past
<1>6. ASSUME NEW d \in Face, NEW call \in {RecvCall(x.op, d), SendCall(x.op, d)}
      PROVE  During(y, d, call) <=> During(x, d, call) /\ x.next # call
  <2>1. PICK g \in 1 .. H, c \in 1 .. 2 * W : g = GroupAt(x.op, d) /\ c = call
    BY <1>3
  <2>. QED  BY <1>1, <1>2, <2>1 DEF During
<1>7. y.op # x.op => \A d, call : ~During(y, d, call)
  BY <1>1, <1>2 DEF During
<1>. QED  BY <1>4, <1>5, <1>6, <1>7 DEF y

\* The other steps of a rank.
LEMMA Moving ==
  ASSUME NEW x \in Place, NEW y, x.next = 0,
         \/ x.op \in Uses /\ x.group = 0 /\ y = [x EXCEPT !.group = 1]
         \/ x.op \in Uses /\ x.group > 0 /\ y = [x EXCEPT !.next = 1]
         \/ x.op \in 1 .. 10 \ Uses /\ y = [x EXCEPT !.op = @ + 1]
  PROVE  /\ y \in Place
         /\ \A d \in Face, o \in Uses :
              \A call \in {RecvCall(o, d), SendCall(o, d)} :
                Past(y, o, d, call) <=> Past(x, o, d, call)
         /\ \A d \in Face : \A call \in {RecvCall(x.op, d), SendCall(x.op, d)} :
              During(y, d, call) <=> x.group > 0 /\ x.group = GroupAt(x.op, d)
         /\ y.op # x.op => \A d, call : ~During(y, d, call)
<1>1. PICK op \in 1 .. 11, group \in 0 .. 3 : x = [op |-> op, group |-> group, next |-> 0]
  BY DEF Place
<1>2. \/ op \in Uses /\ group = 0 /\ y = [op |-> op, group |-> 1, next |-> 0]
      \/ op \in Uses /\ group > 0 /\ y = [op |-> op, group |-> group, next |-> 1]
      \/ op \in 1 .. 10 \ Uses /\ group = 0 /\ y = [op |-> op + 1, group |-> 0, next |-> 0]
  BY <1>1 DEF Place
<1>3. y \in Place
  <2>1. ASSUME NEW o \in 1 .. 11
        PROVE  Height(Program[o]) \in 1 .. 3 /\ Width(Program[o]) \in 2 .. 6
    BY Shape
  <2>2. group <= Height(Program[op]) \/ op \notin Uses
    BY <1>1 DEF Place
  <2>. QED  BY <1>2, <2>1, <2>2 DEF Place
<1>4. ASSUME NEW d \in Face, NEW o \in Uses, NEW call \in {RecvCall(o, d), SendCall(o, d)}
      PROVE  Past(y, o, d, call) <=> Past(x, o, d, call)
  BY <1>1, <1>2, CallRange DEF Past
<1>5. ASSUME NEW d \in Face, NEW call \in {RecvCall(x.op, d), SendCall(x.op, d)}
      PROVE  During(y, d, call) <=> x.group > 0 /\ x.group = GroupAt(x.op, d)
  BY <1>1, <1>2, CallRange DEF During
<1>6. y.op # x.op => \A d, call : ~During(y, d, call)
  BY <1>1, <1>2 DEF During
<1>. QED  BY <1>3, <1>4, <1>5, <1>6

-----------------------------------------------------------------------------
(***************************************************************************)
(* The ports.  A request is outstanding from the begin of its group until  *)
(* the call that ends it, and MPI has taken as many messages from a port   *)
(* as it has given to the port across.                                     *)
(***************************************************************************)
Sending(r, d) == Linked(r, d) /\ During(at[r], d, SendCall(at[r].op, d))
Receiving(r, e) ==
  Linked(r, e) /\ During(at[r], Opposite(e), RecvCall(at[r].op, Opposite(e)))

PlaceOK ==
  /\ at \in [Rank -> Place]
  /\ \A r \in Rank : status[r] # "joined" => at[r] = Start

SendsOK ==
  /\ sreq \in [Rank -> [Face -> [state : {"idle", "posted", "taken"}, op : 0 .. 11]]]
  /\ DOMAIN sbuf = Rank /\ \A r \in Rank : sbuf[r] = [d \in Face |-> sbuf[r][d]]
  /\ \A r \in Rank, d \in Face :
       IF Sending(r, d) THEN sreq[r][d].state # "idle" /\ sreq[r][d].op = at[r].op
       ELSE sreq[r][d] = Idle /\ sbuf[r][d] = NULL

RecvsOK ==
  /\ rreq \in [Rank -> [Face -> [state : {"idle", "posted", "full"}, op : 0 .. 11]]]
  /\ DOMAIN rbuf = Rank /\ \A r \in Rank : rbuf[r] = [d \in Face |-> rbuf[r][d]]
  /\ \A r \in Rank, d \in Face :
       IF Receiving(r, d) THEN rreq[r][d].state # "idle" /\ rreq[r][d].op = at[r].op
       ELSE rreq[r][d] = Idle /\ rbuf[r][d] = NULL

Sent(r, d, o) == Past(at[r], o, d, SendCall(o, d)) \/ sreq[r][d] = [state |-> "taken", op |-> o]
Got(r, e, o) ==
  \/ Past(at[r], o, Opposite(e), RecvCall(o, Opposite(e)))
  \/ rreq[r][e] = [state |-> "full", op |-> o]

EdgesOK ==
  \A r \in Rank, d \in Face :
    Good /\ Linked(r, d) => \A o \in Uses : Sent(r, d, o) <=> Got(Behind(r, d), Opposite(d), o)

PortInv == GridOK /\ PlaceOK /\ SendsOK /\ RecvsOK /\ EdgesOK

LEMMA InitPorts == Init => PortInv
<1> SUFFICES ASSUME Init PROVE PortInv
  OBVIOUS
<1>1. GridOK
  BY InitGrid
<1>2. at = [r \in Rank |-> Start]
  BY DEF Init, Start
<1>3. PlaceOK
  BY <1>2, StartPlace DEF PlaceOK
<1>4. \A r \in Rank, d \in Face : ~Sending(r, d) /\ ~Receiving(r, d)
  BY <1>2, StartPlace DEF Sending, Receiving
<1>5. Idle \in [state : {"idle", "posted", "taken"}, op : 0 .. 11] /\ Idle.state = "idle"
  BY DEF Idle
<1>6. SendsOK
  <2>1. /\ sreq = [r \in Rank |-> [d \in Face |-> Idle]]
        /\ sbuf = [r \in Rank |-> [d \in Face |-> NULL]]
    BY DEF Init
  <2>. QED  BY <1>4, <1>5, <2>1 DEF SendsOK
<1>7. RecvsOK
  <2>1. /\ rreq = [r \in Rank |-> [d \in Face |-> Idle]]
        /\ rbuf = [r \in Rank |-> [d \in Face |-> NULL]]
    BY DEF Init
  <2>2. Idle \in [state : {"idle", "posted", "full"}, op : 0 .. 11]
    BY DEF Idle
  <2>. QED  BY <1>4, <2>1, <2>2 DEF RecvsOK
<1>8. ASSUME NEW r \in Rank, NEW d \in Face, NEW o \in Uses
      PROVE  ~Sent(r, d, o) /\ ~Got(r, d, o)
  <2>1. Opposite(d) \in Face /\ at[r] = Start
    BY <1>2, Faces
  <2>2. sreq[r][d] = Idle /\ rreq[r][d] = Idle
    BY DEF Init
  <2>3. Idle.state = "idle"
    BY DEF Idle
  <2>. QED  BY <2>1, <2>2, <2>3, StartPlace DEF Sent, Got
<1>9. EdgesOK
  <2> SUFFICES ASSUME NEW r \in Rank, NEW d \in Face, Good, Linked(r, d), NEW o \in Uses
               PROVE  Sent(r, d, o) <=> Got(Behind(r, d), Opposite(d), o)
    BY DEF EdgesOK
  <2>1. Behind(r, d) \in Rank /\ Opposite(d) \in Face
    BY Faces DEF Linked
  <2>. QED  BY <1>8, <2>1
<1>. QED  BY <1>1, <1>3, <1>6, <1>7, <1>9 DEF PortInv

-----------------------------------------------------------------------------
LEMMA CallsDiffer ==
  ASSUME NEW op, NEW d \in Face, NEW e \in Face,
         GroupOf(op, d) = GroupOf(op, e), PlaceIn(op, d) = PlaceIn(op, e)
  PROVE  d = e
<1>1. d \in {0, 1, 2, 3, 4, 5} /\ e \in {0, 1, 2, 3, 4, 5}
  BY DEF Face
<1>. QED  BY <1>1 DEF GroupOf, PlaceIn, AxisOf, IsLow

\* The calls a working rank makes are those of the schedule.
LEMMA Ready ==
  ASSUME GridOK, PlaceOK, NEW r \in Rank, Working(r)
  PROVE  /\ at[r] \in Place /\ at[r].op \in 1 .. 10
         /\ Op(r) \in Exchange <=> at[r].op \in Uses
         /\ Op(r) = "allsum" <=> at[r].op \notin Uses
         /\ Good /\ status[r] = "joined"
         /\ \A d \in Face : bc[r][d] = Behind(r, d) /\ (Connected(r, d) <=> Linked(r, d))
<1>1. at[r] \in Place /\ at[r].op \in 1 .. 10
  BY ProgramIs DEF PlaceOK, Place, Working, Done
<1>2. /\ Op(r) \in Exchange <=> at[r].op \in Uses
      /\ Op(r) = "allsum" <=> at[r].op \notin Uses
  BY <1>1, ProgramIs DEF Op
<1>3. Good /\ status[r] = "joined" /\ \A d \in Face : bc[r][d] = Behind(r, d)
  BY DEF GridOK, Working
<1>. QED  BY <1>1, <1>2, <1>3 DEF Connected, Linked

LEMMA ReadyGroup ==
  ASSUME GridOK, PlaceOK, NEW r \in Rank, Working(r), at[r].group > 0
  PROVE  /\ at[r].op \in Uses
         /\ Len(Group(r)) = Width(Program[at[r].op])
         /\ \A i \in 1 .. Len(Group(r)) :
              /\ Group(r)[i] \in Face
              /\ \A d \in Face : GroupAt(at[r].op, d) = at[r].group =>
                   /\ RecvCall(at[r].op, d) = i <=> d = Group(r)[i]
                   /\ SendCall(at[r].op, d) = Len(Group(r)) + i <=> d = Group(r)[i]
              /\ GroupAt(at[r].op, Group(r)[i]) = at[r].group
              /\ RecvCall(at[r].op, Group(r)[i]) = i
              /\ SendCall(at[r].op, Group(r)[i]) = Len(Group(r)) + i
         /\ \A d \in Face : d \in Range(Group(r)) <=> GroupAt(at[r].op, d) = at[r].group
         /\ at[r].next > 0 => NextCall(r, at[r].next) = After(at[r])
<1>1. at[r] \in Place /\ at[r].op \in 1 .. 10 /\ at[r].op \in Uses
  BY Ready DEF Place
<1>2. PICK op : op = Program[at[r].op] /\ op = Op(r)
  BY DEF Op
<1>3. PICK g \in 1 .. Height(op) : g = at[r].group
  <2>1. at[r].group \in 0 .. 3 /\ at[r].group <= Height(op) /\ Height(op) \in 1 .. 3
    BY <1>1, <1>2, Shape DEF Place
  <2>. QED  BY <2>1
<1>4. /\ Group(r) = Groups(op)[g] /\ Len(Groups(op)) = Height(op)
      /\ Len(Group(r)) = Width(op) /\ Width(op) \in Nat
  BY <1>2, <1>3, Schedule, Shape DEF Group
<1>5. ASSUME NEW i \in 1 .. Width(op)
      PROVE  /\ Group(r)[i] \in Face
             /\ GroupOf(op, Group(r)[i]) = g /\ PlaceIn(op, Group(r)[i]) = i
  BY <1>3, <1>4, Schedule
<1>6. ASSUME NEW i \in 1 .. Width(op), NEW d \in Face, GroupOf(op, d) = g
      PROVE  PlaceIn(op, d) = i <=> d = Group(r)[i]
  BY <1>5, <1>6, CallsDiffer
<1>7. \A d \in Face : d \in Range(Group(r)) <=> GroupOf(op, d) = g
  BY <1>3, <1>4, Schedule
<1>8. \A d \in Face : PlaceIn(op, d) \in Nat
  BY Shape
<1>9. at[r].next > 0 => NextCall(r, at[r].next) = After(at[r])
  BY <1>2, <1>4, <1>3 DEF NextCall, After
<1>. QED  BY <1>1, <1>2, <1>3, <1>4, <1>5, <1>6, <1>7, <1>8, <1>9 DEF GroupAt, RecvCall, SendCall

\* A step of one rank to place y that keeps its ports as that place wants them and
\* leaves on each channel what was sent and received.
PortsTyped ==
  /\ sreq \in [Rank -> [Face -> [state : {"idle", "posted", "taken"}, op : 0 .. 11]]]
  /\ rreq \in [Rank -> [Face -> [state : {"idle", "posted", "full"}, op : 0 .. 11]]]
  /\ DOMAIN sbuf = Rank /\ DOMAIN rbuf = Rank
  /\ \A q \in Rank : /\ sbuf[q] = [d \in Face |-> sbuf[q][d]]
                     /\ rbuf[q] = [d \in Face |-> rbuf[q][d]]
OthersKept(r) ==
  \A q \in Rank \ {r}, d \in Face :
    /\ sreq'[q][d] = sreq[q][d] /\ rreq'[q][d] = rreq[q][d]
    /\ sbuf'[q][d] = sbuf[q][d] /\ rbuf'[q][d] = rbuf[q][d]
SendsFit(r, d, y) ==
  IF Linked(r, d) /\ During(y, d, SendCall(y.op, d))
    THEN sreq'[r][d].state # "idle" /\ sreq'[r][d].op = y.op
    ELSE sreq'[r][d] = Idle /\ sbuf'[r][d] = NULL
RecvsFit(r, d, y) ==
  IF Linked(r, d) /\ During(y, Opposite(d), RecvCall(y.op, Opposite(d)))
    THEN rreq'[r][d].state # "idle" /\ rreq'[r][d].op = y.op
    ELSE rreq'[r][d] = Idle /\ rbuf'[r][d] = NULL
CountsKept(r, d, o, y) ==
  /\ Sent(r, d, o) <=> \/ Past(y, o, d, SendCall(o, d))
                       \/ sreq'[r][d] = [state |-> "taken", op |-> o]
  /\ Got(r, d, o) <=> \/ Past(y, o, Opposite(d), RecvCall(o, Opposite(d)))
                      \/ rreq'[r][d] = [state |-> "full", op |-> o]
PortStep(r, y) ==
  /\ deck' = deck /\ UNCHANGED gridVars /\ status[r] = "joined"
  /\ y \in Place /\ at' = [at EXCEPT ![r] = y]
  /\ PortsTyped' /\ OthersKept(r)
  /\ \A d \in Face : SendsFit(r, d, y) /\ RecvsFit(r, d, y)
  /\ \A d \in Face, o \in Uses : Linked(r, d) => CountsKept(r, d, o, y)

LEMMA RankStep ==
  ASSUME PortInv, NEW r \in Rank, NEW y, PortStep(r, y)
  PROVE  PlaceOK' /\ SendsOK' /\ RecvsOK' /\ EdgesOK'
<1>1. at'[r] = y /\ \A q \in Rank \ {r} : at'[q] = at[q]
  BY DEF PortInv, PlaceOK, PortStep
<1>2. PlaceOK'
  BY <1>1 DEF PortInv, PlaceOK, PortStep, gridVars
<1>3. ASSUME NEW q \in Rank, NEW d \in Face
      PROVE  (Linked(q, d)' <=> Linked(q, d)) /\ Behind(q, d)' = Behind(q, d)
  BY DeckFixed DEF Linked, PortStep
<1>4. ASSUME NEW q \in Rank, NEW d \in Face
      PROVE  /\ q # r => /\ Sending(q, d)' <=> Sending(q, d)
                         /\ Receiving(q, d)' <=> Receiving(q, d)
             /\ Sending(r, d)' <=> Linked(r, d) /\ During(y, d, SendCall(y.op, d))
             /\ Receiving(r, d)' <=>
                  Linked(r, d) /\ During(y, Opposite(d), RecvCall(y.op, Opposite(d)))
  BY <1>1, <1>3 DEF Sending, Receiving
<1>5. SendsOK'
  BY <1>1, <1>4 DEF PortInv, SendsOK, PortStep, PortsTyped, OthersKept, SendsFit
<1>6. RecvsOK'
  BY <1>1, <1>4 DEF PortInv, RecvsOK, PortStep, PortsTyped, OthersKept, RecvsFit
<1>7. ASSUME NEW q \in Rank, NEW d \in Face, NEW o \in Uses, Linked(q, d)
      PROVE  (Sent(q, d, o)' <=> Sent(q, d, o)) /\ (Got(q, d, o)' <=> Got(q, d, o))
  BY <1>1, <1>7 DEF Sent, Got, PortStep, OthersKept, CountsKept
<1>8. EdgesOK'
  <2> SUFFICES ASSUME NEW q \in Rank, NEW d \in Face, Good', Linked(q, d)', NEW o \in Uses
               PROVE  (Sent(q, d, o) <=> Got(Behind(q, d), Opposite(d), o))'
    BY DEF EdgesOK
  <2>1. Good /\ Linked(q, d) /\ Behind(q, d)' = Behind(q, d)
    BY <1>3, DeckFixed DEF PortStep
  <2>2. PICK p \in Rank, e \in Face : p = Behind(q, d) /\ e = Opposite(d) /\ Linked(p, e)
    BY <2>1, BehindMutual DEF PortInv, GridOK
  <2>3. Sent(q, d, o) <=> Got(p, e, o)
    BY <2>1, <2>2 DEF PortInv, EdgesOK
  <2>4. (Sent(q, d, o)' <=> Sent(q, d, o)) /\ (Got(p, e, o)' <=> Got(p, e, o))
    BY <1>7, <2>1, <2>2
  <2>5. Got(Behind(q, d), Opposite(d), o)' <=> Got(p, e, o)'
    BY <2>1, <2>2 DEF Got
  <2>. QED  BY <2>3, <2>4, <2>5
<1>. QED  BY <1>2, <1>5, <1>6, <1>8

\* Between two groups nothing is outstanding.
LEMMA Quiet ==
  ASSUME PortInv, NEW r \in Rank, at[r].next = 0, NEW d \in Face
  PROVE  /\ sreq[r][d] = Idle /\ sbuf[r][d] = NULL
         /\ rreq[r][d] = Idle /\ rbuf[r][d] = NULL
<1>1. ~Sending(r, d) /\ ~Receiving(r, d)
  BY DEF Sending, Receiving, During
<1>. QED  BY <1>1 DEF PortInv, SendsOK, RecvsOK

\* A step between two groups.
LEMMA MoveStep ==
  ASSUME PortInv, NEW r \in Rank, Working(r), at[r].next = 0, NEW y,
         \/ at[r].op \in Uses /\ at[r].group = 0 /\ y = [at[r] EXCEPT !.group = 1]
         \/ at[r].op \notin Uses /\ y = [at[r] EXCEPT !.op = @ + 1],
         at' = [at EXCEPT ![r] = y], UNCHANGED <<deck, gridVars, portVars>>
  PROVE  PlaceOK' /\ SendsOK' /\ RecvsOK' /\ EdgesOK'
<1>1. at[r] \in Place /\ at[r].op \in 1 .. 10 /\ status[r] = "joined"
  BY Ready DEF PortInv
<1>2. /\ y \in Place
      /\ \A d \in Face, o \in Uses :
           \A call \in {RecvCall(o, d), SendCall(o, d)} :
             Past(y, o, d, call) <=> Past(at[r], o, d, call)
  BY <1>1, Moving
<1>3. ASSUME NEW d \in Face
      PROVE  /\ ~During(y, d, SendCall(y.op, d))
             /\ ~During(y, Opposite(d), RecvCall(y.op, Opposite(d)))
  <2>1. y.next = 0
    BY <1>1 DEF Place
  <2>. QED  BY <2>1 DEF During
<1>4. ASSUME NEW d \in Face
      PROVE  /\ sreq[r][d] = Idle /\ sbuf[r][d] = NULL
             /\ rreq[r][d] = Idle /\ rbuf[r][d] = NULL /\ Opposite(d) \in Face
  BY Quiet, Faces
<1>5. UNCHANGED <<deck, gridVars, sreq, rreq, sbuf, rbuf>>
  BY DEF portVars
<1>6. ASSUME NEW d \in Face, NEW o \in Uses PROVE CountsKept(r, d, o, y)
  BY <1>2, <1>4, <1>5 DEF Sent, Got, CountsKept
<1>7. PortsTyped'
  BY <1>5 DEF PortInv, SendsOK, RecvsOK, PortsTyped
<1>8. OthersKept(r)
  BY <1>5 DEF OthersKept
<1>9. ASSUME NEW d \in Face PROVE SendsFit(r, d, y) /\ RecvsFit(r, d, y)
  BY <1>3, <1>4, <1>5 DEF SendsFit, RecvsFit
<1>10. PortStep(r, y)
  BY <1>1, <1>2, <1>5, <1>6, <1>7, <1>8, <1>9 DEF PortStep
<1>. QED  BY <1>10, RankStep

LEMMA BeginStep ==
  ASSUME PortInv, NEW r \in Rank, BeginExchange(r)
  PROVE  PlaceOK' /\ SendsOK' /\ RecvsOK' /\ EdgesOK'
<1>1. /\ Working(r) /\ at[r].group > 0 /\ at[r].next = 0
      /\ deck' = deck /\ UNCHANGED gridVars
  BY DEF BeginExchange
<1>2. /\ at[r] \in Place /\ at[r].op \in 1 .. 10 /\ at[r].op \in Uses /\ status[r] = "joined"
      /\ \A d \in Face : Connected(r, d) <=> Linked(r, d)
      /\ \A d \in Face : d \in Range(Group(r)) <=> GroupAt(at[r].op, d) = at[r].group
  BY <1>1, Ready, ReadyGroup DEF PortInv
<1>3. PICK y : y = [at[r] EXCEPT !.next = 1]
  OBVIOUS
<1>4. /\ y \in Place
      /\ \A d \in Face, o \in Uses :
           \A call \in {RecvCall(o, d), SendCall(o, d)} :
             Past(y, o, d, call) <=> Past(at[r], o, d, call)
      /\ \A d \in Face : \A call \in {RecvCall(at[r].op, d), SendCall(at[r].op, d)} :
           During(y, d, call) <=> at[r].group = GroupAt(at[r].op, d)
  BY <1>1, <1>2, <1>3, Moving
<1>5. y.op = at[r].op /\ at' = [at EXCEPT ![r] = y]
  BY <1>2, <1>3 DEF BeginExchange, Place, PortInv, PlaceOK
<1>6. ASSUME NEW d \in Face
      PROVE  /\ sreq[r][d] = Idle /\ sbuf[r][d] = NULL
             /\ rreq[r][d] = Idle /\ rbuf[r][d] = NULL /\ Opposite(d) \in Face
  BY <1>1, Quiet, Faces
<1>7. PICK S, R : /\ S = {d \in Face : d \in Range(Group(r)) /\ Connected(r, d)}
                  /\ R = {d \in Face : Opposite(d) \in Range(Group(r)) /\ Connected(r, d)}
  OBVIOUS
<1>8. ASSUME NEW d \in Face
      PROVE  /\ d \in S <=> Linked(r, d) /\ During(y, d, SendCall(y.op, d))
             /\ d \in R <=>
                  Linked(r, d) /\ During(y, Opposite(d), RecvCall(y.op, Opposite(d)))
  BY <1>2, <1>4, <1>5, <1>6, <1>7
<1>9. Posted(r) = [state |-> "posted", op |-> y.op] /\ y.op \in 0 .. 11
  BY <1>2, <1>5 DEF Posted
<1>10. /\ sreq' = [sreq EXCEPT ![r] = [d \in Face |-> IF d \in S THEN Posted(r) ELSE sreq[r][d]]]
       /\ rreq' = [rreq EXCEPT ![r] = [d \in Face |-> IF d \in R THEN Posted(r) ELSE rreq[r][d]]]
  BY <1>7 DEF BeginExchange
<1>11. /\ sbuf' = [sbuf EXCEPT ![r] =
                     [d \in Face |-> IF d \in S THEN Message(r, d) ELSE sbuf[r][d]]]
       /\ rbuf' = [rbuf EXCEPT ![r] = [d \in Face |-> IF d \in R THEN <<>> ELSE rbuf[r][d]]]
  BY <1>7 DEF BeginExchange
<1>12. PortsTyped'
  <2>1. /\ Posted(r) \in [state : {"idle", "posted", "taken"}, op : 0 .. 11]
        /\ Posted(r) \in [state : {"idle", "posted", "full"}, op : 0 .. 11]
    BY <1>9
  <2>2. /\ sreq' \in [Rank -> [Face -> [state : {"idle", "posted", "taken"}, op : 0 .. 11]]]
        /\ rreq' \in [Rank -> [Face -> [state : {"idle", "posted", "full"}, op : 0 .. 11]]]
    BY <1>10, <2>1 DEF PortInv, SendsOK, RecvsOK
  <2>3. /\ DOMAIN sbuf' = Rank /\ DOMAIN rbuf' = Rank
        /\ \A q \in Rank : /\ sbuf'[q] = [d \in Face |-> sbuf'[q][d]]
                           /\ rbuf'[q] = [d \in Face |-> rbuf'[q][d]]
    BY <1>11 DEF PortInv, SendsOK, RecvsOK
  <2>. QED  BY <2>2, <2>3 DEF PortsTyped
<1>13. OthersKept(r)
  BY <1>10, <1>11 DEF PortInv, SendsOK, RecvsOK, OthersKept
<1>14. ASSUME NEW d \in Face
       PROVE  /\ IF d \in S THEN sreq'[r][d] = Posted(r)
                 ELSE sreq'[r][d] = Idle /\ sbuf'[r][d] = NULL
              /\ IF d \in R THEN rreq'[r][d] = Posted(r)
                 ELSE rreq'[r][d] = Idle /\ rbuf'[r][d] = NULL
  BY <1>6, <1>10, <1>11 DEF PortInv, SendsOK, RecvsOK
<1>15. Posted(r).state = "posted" /\ Posted(r).op = y.op /\ Idle.state = "idle"
  BY <1>9 DEF Idle
<1>16. ASSUME NEW d \in Face PROVE SendsFit(r, d, y) /\ RecvsFit(r, d, y)
  BY <1>8, <1>14, <1>15 DEF SendsFit, RecvsFit
<1>17. ASSUME NEW d \in Face, NEW o \in Uses PROVE CountsKept(r, d, o, y)
  <2>1. \A k \in {"taken", "full"} : Posted(r) # [state |-> k, op |-> o] /\ Idle # [state |-> k, op |-> o]
    BY <1>15
  <2>. QED  BY <1>4, <1>6, <1>14, <2>1 DEF Sent, Got, CountsKept
<1>18. PortStep(r, y)
  BY <1>1, <1>2, <1>4, <1>5, <1>12, <1>13, <1>16, <1>17 DEF PortStep
<1>. QED  BY <1>18, RankStep

\* A call that ends a receive moves on the receive from direction f and no send.
LEMMA RecvCalls ==
  ASSUME GridOK, PlaceOK, NEW r \in Rank, Working(r), at[r].group > 0, at[r].next \in 1 .. Len(Group(r)),
         NEW f, f = Group(r)[at[r].next]
  PROVE  /\ f \in Face /\ After(at[r]) \in Place
         /\ NextCall(r, at[r].next) = After(at[r])
         /\ \A d \in Face :
              /\ During(After(at[r]), d, SendCall(After(at[r]).op, d)) <=>
                   During(at[r], d, SendCall(at[r].op, d))
              /\ During(After(at[r]), d, RecvCall(After(at[r]).op, d)) <=>
                   During(at[r], d, RecvCall(at[r].op, d)) /\ d # f
              /\ During(After(at[r]), d, SendCall(After(at[r]).op, d)) => After(at[r]).op = at[r].op
              /\ During(After(at[r]), d, RecvCall(After(at[r]).op, d)) => After(at[r]).op = at[r].op
         /\ \A d \in Face, o \in Uses :
              /\ Past(After(at[r]), o, d, SendCall(o, d)) <=>
                   Past(at[r], o, d, SendCall(o, d))
              /\ Past(After(at[r]), o, d, RecvCall(o, d)) <=>
                   Past(at[r], o, d, RecvCall(o, d)) \/ (o = at[r].op /\ d = f)
         /\ at[r].op \in Uses
         /\ During(at[r], f, RecvCall(at[r].op, f))
<1>1. PICK x \in Place : x = at[r] /\ x.op \in Uses /\ x.group > 0 /\ x.next > 0
  <2>1. at[r] \in Place /\ Width(Program[at[r].op]) \in Nat /\ Len(Group(r)) = Width(Program[at[r].op])
    BY ReadyGroup, Ready, Shape
  <2>2. at[r].op \in Uses /\ at[r].next \in 0 .. 12
    BY <2>1, ReadyGroup DEF Place
  <2>. QED  BY <2>1, <2>2
<1>2. PICK w \in 2 .. 6 : /\ w = Len(Group(r)) /\ w = Width(Program[x.op])
                          /\ x.next \in 1 .. 2 * w
  <2>1. PICK w : w = Width(Program[x.op])
    OBVIOUS
  <2>2. w \in 2 .. 6 /\ Len(Group(r)) = w
    BY <1>1, <2>1, ReadyGroup, Shape
  <2>3. x.next \in 0 .. 12 /\ x.next <= 2 * w
    BY <1>1, <2>1, ReadyGroup DEF Place
  <2>4. x.next \in 1 .. 2 * w
    BY <1>1, <2>2, <2>3
  <2>. QED  BY <2>1, <2>2, <2>4
<1>3. PICK i \in 1 .. w : i = x.next
  BY <1>1, <1>2
<1>4. /\ f \in Face /\ GroupAt(x.op, f) = x.group
      /\ RecvCall(x.op, f) = i /\ SendCall(x.op, f) = w + i
      /\ NextCall(r, at[r].next) = After(x)
  BY <1>1, <1>2, <1>3, ReadyGroup
<1>5. ASSUME NEW d \in Face
      PROVE  /\ RecvCall(x.op, d) \in 1 .. w /\ SendCall(x.op, d) = w + RecvCall(x.op, d)
             /\ GroupAt(x.op, d) = x.group /\ RecvCall(x.op, d) = i => d = f
  <2>1. GroupAt(x.op, d) = x.group /\ RecvCall(x.op, d) = i => d = f
    BY <1>1, <1>2, <1>3, ReadyGroup
  <2>. QED  BY <1>2, <2>1, Shape DEF RecvCall, SendCall
<1>6. ASSUME NEW d \in Face, NEW o \in Uses
      PROVE  /\ Past(After(x), o, d, SendCall(o, d)) <=>
                  Past(x, o, d, SendCall(o, d))
             /\ Past(After(x), o, d, RecvCall(o, d)) <=>
                  Past(x, o, d, RecvCall(o, d)) \/ (o = x.op /\ d = f)
  <2>1. ASSUME NEW call \in {RecvCall(o, d), SendCall(o, d)}
        PROVE  Past(After(x), o, d, call) <=>
                 Past(x, o, d, call) \/ (o = x.op /\ x.group = GroupAt(o, d) /\ x.next = call)
    BY <1>1, Calling
  <2>2. CASE o = x.op
    BY <1>3, <1>4, <1>5, <2>1, <2>2
  <2>3. CASE o # x.op
    BY <2>1, <2>3
  <2>. QED  BY <2>2, <2>3
<1>7. ASSUME NEW d \in Face
      PROVE  /\ During(After(x), d, SendCall(After(x).op, d)) <=>
                  During(x, d, SendCall(x.op, d))
             /\ During(After(x), d, RecvCall(After(x).op, d)) <=>
                  During(x, d, RecvCall(x.op, d)) /\ d # f
             /\ During(After(x), d, SendCall(After(x).op, d)) => After(x).op = x.op
             /\ During(After(x), d, RecvCall(After(x).op, d)) => After(x).op = x.op
  <2>1. ASSUME NEW call \in {RecvCall(x.op, d), SendCall(x.op, d)}
        PROVE  During(After(x), d, call) <=> During(x, d, call) /\ x.next # call
    BY <1>1, Calling
  <2>2. During(x, d, RecvCall(x.op, d)) => GroupAt(x.op, d) = x.group
    BY DEF During
  <2>3. During(x, d, SendCall(x.op, d)) => GroupAt(x.op, d) = x.group
    BY DEF During
  <2>4. /\ During(After(x), d, SendCall(x.op, d)) <=>
              During(x, d, SendCall(x.op, d))
        /\ During(After(x), d, RecvCall(x.op, d)) <=>
              During(x, d, RecvCall(x.op, d)) /\ d # f
    BY <1>3, <1>4, <1>5, <2>1, <2>2, <2>3
  <2>5. CASE After(x).op = x.op
    BY <2>4, <2>5
  <2>6. CASE After(x).op # x.op
    <3>1. \A e, call : ~During(After(x), e, call)
      BY <1>1, <2>6, Calling
    <3>. QED  BY <2>4, <3>1
  <2>. QED  BY <2>5, <2>6
<1>8. During(x, f, RecvCall(x.op, f))
  BY <1>1, <1>2, <1>3, <1>4 DEF During
<1>9. After(x) \in Place
  BY <1>1, Calling
<1>. QED  BY <1>1, <1>4, <1>6, <1>7, <1>8, <1>9

\* A call that ends a send moves on the send in direction f and no receive.
LEMMA SendCalls ==
  ASSUME GridOK, PlaceOK, NEW r \in Rank, Working(r), at[r].group > 0, at[r].next > Len(Group(r)),
         NEW f, f = Group(r)[at[r].next - Len(Group(r))]
  PROVE  /\ f \in Face /\ After(at[r]) \in Place
         /\ NextCall(r, at[r].next) = After(at[r])
         /\ \A d \in Face :
              /\ During(After(at[r]), d, SendCall(After(at[r]).op, d)) <=>
                   During(at[r], d, SendCall(at[r].op, d)) /\ d # f
              /\ During(After(at[r]), d, RecvCall(After(at[r]).op, d)) <=>
                   During(at[r], d, RecvCall(at[r].op, d))
              /\ During(After(at[r]), d, SendCall(After(at[r]).op, d)) => After(at[r]).op = at[r].op
              /\ During(After(at[r]), d, RecvCall(After(at[r]).op, d)) => After(at[r]).op = at[r].op
         /\ \A d \in Face, o \in Uses :
              /\ Past(After(at[r]), o, d, SendCall(o, d)) <=>
                   Past(at[r], o, d, SendCall(o, d)) \/ (o = at[r].op /\ d = f)
              /\ Past(After(at[r]), o, d, RecvCall(o, d)) <=>
                   Past(at[r], o, d, RecvCall(o, d))
         /\ at[r].op \in Uses
         /\ During(at[r], f, SendCall(at[r].op, f))
<1>1. PICK x \in Place : x = at[r] /\ x.op \in Uses /\ x.group > 0 /\ x.next > 0
  <2>1. at[r] \in Place /\ Width(Program[at[r].op]) \in Nat /\ Len(Group(r)) = Width(Program[at[r].op])
    BY ReadyGroup, Ready, Shape
  <2>2. at[r].op \in Uses /\ at[r].next \in 0 .. 12
    BY <2>1, ReadyGroup DEF Place
  <2>. QED  BY <2>1, <2>2
<1>2. PICK w \in 2 .. 6 : /\ w = Len(Group(r)) /\ w = Width(Program[x.op])
                          /\ x.next \in 1 .. 2 * w
  <2>1. PICK w : w = Width(Program[x.op])
    OBVIOUS
  <2>2. w \in 2 .. 6 /\ Len(Group(r)) = w
    BY <1>1, <2>1, ReadyGroup, Shape
  <2>3. x.next \in 0 .. 12 /\ x.next <= 2 * w
    BY <1>1, <2>1, ReadyGroup DEF Place
  <2>4. x.next \in 1 .. 2 * w
    BY <1>1, <2>2, <2>3
  <2>. QED  BY <2>1, <2>2, <2>4
<1>3. PICK i \in 1 .. w : i = x.next - w
  <2>1. x.next > w
    BY <1>1, <1>2
  <2>2. x.next - w \in 1 .. w
    BY <1>2, <2>1
  <2>. QED  BY <2>2, Zenon
<1>4. /\ f \in Face /\ GroupAt(x.op, f) = x.group
      /\ RecvCall(x.op, f) = i /\ SendCall(x.op, f) = w + i
      /\ NextCall(r, at[r].next) = After(x)
  <2>1. i \in 1 .. Len(Group(r)) /\ f = Group(r)[i] /\ at[r] = x
    BY <1>1, <1>2, <1>3
  <2>2. /\ f \in Face /\ GroupAt(x.op, f) = x.group
        /\ RecvCall(x.op, f) = i /\ SendCall(x.op, f) = Len(Group(r)) + i
    BY <1>1, <2>1, ReadyGroup
  <2>3. NextCall(r, at[r].next) = After(x)
    BY <1>1, ReadyGroup
  <2>. QED  BY <1>2, <2>2, <2>3
<1>5. ASSUME NEW d \in Face
      PROVE  /\ RecvCall(x.op, d) \in 1 .. w /\ SendCall(x.op, d) = w + RecvCall(x.op, d)
             /\ GroupAt(x.op, d) = x.group /\ RecvCall(x.op, d) = i => d = f
             /\ RecvCall(x.op, d) # x.next
             /\ (GroupAt(x.op, d) = x.group /\ SendCall(x.op, d) = x.next) <=> d = f
  <2>1. GroupAt(x.op, d) = x.group /\ RecvCall(x.op, d) = i => d = f
    BY <1>1, <1>2, <1>3, ReadyGroup
  <2>2. PICK c \in 1 .. w : c = RecvCall(x.op, d) /\ SendCall(x.op, d) = w + c
    BY <1>2, Shape DEF RecvCall, SendCall
  <2>3. x.next = w + i
    BY <1>1, <1>2, <1>3
  <2>. QED  BY <1>4, <2>1, <2>2, <2>3
<1>6. ASSUME NEW d \in Face, NEW o \in Uses
      PROVE  /\ Past(After(x), o, d, SendCall(o, d)) <=>
                  Past(x, o, d, SendCall(o, d)) \/ (o = x.op /\ d = f)
             /\ Past(After(x), o, d, RecvCall(o, d)) <=>
                  Past(x, o, d, RecvCall(o, d))
  <2>1. ASSUME NEW call \in {RecvCall(o, d), SendCall(o, d)}
        PROVE  Past(After(x), o, d, call) <=>
                 Past(x, o, d, call) \/ (o = x.op /\ x.group = GroupAt(o, d) /\ x.next = call)
    BY <1>1, Calling
  <2>2. CASE o = x.op
    BY <1>5, <2>1, <2>2
  <2>3. CASE o # x.op
    BY <2>1, <2>3
  <2>. QED  BY <2>2, <2>3
<1>7. ASSUME NEW d \in Face
      PROVE  /\ During(After(x), d, SendCall(After(x).op, d)) <=>
                  During(x, d, SendCall(x.op, d)) /\ d # f
             /\ During(After(x), d, RecvCall(After(x).op, d)) <=>
                  During(x, d, RecvCall(x.op, d))
             /\ During(After(x), d, SendCall(After(x).op, d)) => After(x).op = x.op
             /\ During(After(x), d, RecvCall(After(x).op, d)) => After(x).op = x.op
  <2>1. ASSUME NEW call \in {RecvCall(x.op, d), SendCall(x.op, d)}
        PROVE  During(After(x), d, call) <=> During(x, d, call) /\ x.next # call
    BY <1>1, Calling
  <2>2. During(x, d, RecvCall(x.op, d)) => GroupAt(x.op, d) = x.group
    BY DEF During
  <2>3. During(x, d, SendCall(x.op, d)) => GroupAt(x.op, d) = x.group
    BY DEF During
  <2>4. /\ During(After(x), d, SendCall(x.op, d)) <=>
              During(x, d, SendCall(x.op, d)) /\ d # f
        /\ During(After(x), d, RecvCall(x.op, d)) <=>
              During(x, d, RecvCall(x.op, d))
    BY <1>5, <2>1, <2>2, <2>3
  <2>5. CASE After(x).op = x.op
    BY <2>4, <2>5
  <2>6. CASE After(x).op # x.op
    <3>1. \A e, call : ~During(After(x), e, call)
      BY <1>1, <2>6, Calling
    <3>. QED  BY <2>4, <3>1
  <2>. QED  BY <2>5, <2>6
<1>8. During(x, f, SendCall(x.op, f))
  BY <1>1, <1>2, <1>3, <1>4 DEF During
<1>9. After(x) \in Place
  BY <1>1, Calling
<1>. QED  BY <1>1, <1>4, <1>6, <1>7, <1>8, <1>9

LEMMA RequestKept ==
  ASSUME NEW T, NEW req \in [Rank -> [Face -> T]], NEW r \in Rank, NEW e \in Face,
         NEW new, NEW value \in T, new = req \/ new = [req EXCEPT ![r][e] = value]
  PROVE  new \in [Rank -> [Face -> T]]
OBVIOUS

LEMMA BufferKept ==
  ASSUME NEW buf, DOMAIN buf = Rank, \A q \in Rank : buf[q] = [d \in Face |-> buf[q][d]],
         NEW r \in Rank, NEW e \in Face, NEW new, NEW message,
         new = buf \/ new = [buf EXCEPT ![r][e] = message]
  PROVE  DOMAIN new = Rank /\ \A q \in Rank : new[q] = [d \in Face |-> new[q][d]]
<1>1. CASE new = buf
  BY <1>1
<1>2. CASE new = [buf EXCEPT ![r][e] = message]
  <2>1. PICK row : row = [d \in Face |-> buf[r][d]] /\ row = buf[r]
    OBVIOUS
  <2>2. /\ DOMAIN new = Rank /\ new[r] = [row EXCEPT ![e] = message]
        /\ \A q \in Rank : q # r => new[q] = buf[q]
    BY <1>2, <2>1
  <2>3. new[r] = [d \in Face |-> new[r][d]]
    BY <2>1, <2>2
  <2>4. ASSUME NEW q \in Rank, q # r PROVE new[q] = [d \in Face |-> new[q][d]]
    BY <2>2, <2>4
  <2>. QED  BY <2>2, <2>3, <2>4
<1>. QED  BY <1>1, <1>2

LEMMA EndRecvStep ==
  ASSUME PortInv, NEW r \in Rank, EndRecv(r)
  PROVE  PlaceOK' /\ SendsOK' /\ RecvsOK' /\ EdgesOK'
<1>1. /\ Working(r) /\ at[r].group > 0 /\ at[r].next \in 1 .. Len(Group(r))
      /\ deck' = deck /\ UNCHANGED gridVars /\ GridOK /\ PlaceOK
  BY DEF EndRecv, PortInv
<1>2. PICK f, x, y : f = Group(r)[at[r].next] /\ x = at[r] /\ y = After(x)
  OBVIOUS
<1>3. /\ f \in Face /\ y \in Place /\ NextCall(r, at[r].next) = y
      /\ x.op \in Uses /\ During(x, f, RecvCall(x.op, f))
      /\ \A d \in Face :
           /\ During(y, d, SendCall(y.op, d)) <=> During(x, d, SendCall(x.op, d))
           /\ During(y, d, RecvCall(y.op, d)) <=> During(x, d, RecvCall(x.op, d)) /\ d # f
           /\ During(y, d, SendCall(y.op, d)) => y.op = x.op
           /\ During(y, d, RecvCall(y.op, d)) => y.op = x.op
      /\ \A d \in Face, o \in Uses :
           /\ Past(y, o, d, SendCall(o, d)) <=> Past(x, o, d, SendCall(o, d))
           /\ Past(y, o, d, RecvCall(o, d)) <=>
                Past(x, o, d, RecvCall(o, d)) \/ (o = x.op /\ d = f)
  BY <1>1, <1>2, RecvCalls
<1>4. PICK e \in Face : e = Opposite(f) /\ \A d \in Face : d = e <=> Opposite(d) = f
  BY <1>3, Faces
<1>5. status[r] = "joined" /\ (Connected(r, e) <=> Linked(r, e))
  BY <1>1, Ready
<1>6. /\ sreq' = sreq /\ sbuf' = sbuf
      /\ IF Linked(r, e)
           THEN /\ rreq[r][e].state # "posted"
                /\ rreq' = [rreq EXCEPT ![r][e] = Idle] /\ rbuf' = [rbuf EXCEPT ![r][e] = NULL]
           ELSE rreq' = rreq /\ rbuf' = rbuf
  BY <1>2, <1>4, <1>5 DEF EndRecv, portVars
<1>7. PortsTyped'
  <2>1. Idle \in [state : {"idle", "posted", "full"}, op : 0 .. 11]
    BY DEF Idle
  <2>2. /\ sreq' \in [Rank -> [Face -> [state : {"idle", "posted", "taken"}, op : 0 .. 11]]]
        /\ DOMAIN sbuf' = Rank /\ \A q \in Rank : sbuf'[q] = [d \in Face |-> sbuf'[q][d]]
    BY <1>6 DEF PortInv, SendsOK
  <2>3. rreq' \in [Rank -> [Face -> [state : {"idle", "posted", "full"}, op : 0 .. 11]]]
    <3>1. rreq \in [Rank -> [Face -> [state : {"idle", "posted", "full"}, op : 0 .. 11]]]
      BY DEF PortInv, RecvsOK
    <3>2. rreq' = rreq \/ rreq' = [rreq EXCEPT ![r][e] = Idle]
      BY <1>6
    <3>. QED  BY <2>1, <3>1, <3>2, RequestKept
  <2>4. DOMAIN rbuf' = Rank /\ \A q \in Rank : rbuf'[q] = [d \in Face |-> rbuf'[q][d]]
    <3>1. rbuf' = rbuf \/ rbuf' = [rbuf EXCEPT ![r][e] = NULL]
      BY <1>6
    <3>2. DOMAIN rbuf = Rank /\ \A q \in Rank : rbuf[q] = [d \in Face |-> rbuf[q][d]]
      BY DEF PortInv, RecvsOK
    <3>. QED  BY <3>1, <3>2, BufferKept
  <2>. QED  BY <2>2, <2>3, <2>4 DEF PortsTyped
<1>8. /\ \A q \in Rank, d \in Face : q # r \/ d # e =>
           rreq'[q][d] = rreq[q][d] /\ rbuf'[q][d] = rbuf[q][d]
      /\ Linked(r, e) => rreq'[r][e] = Idle /\ rbuf'[r][e] = NULL
  BY <1>6 DEF PortInv, RecvsOK
<1>9. OthersKept(r)
  BY <1>6, <1>8 DEF OthersKept
<1>10. /\ Linked(r, e) => rreq[r][e] = [state |-> "full", op |-> x.op]
       /\ ~Linked(r, e) => rreq[r][e] = Idle /\ rbuf[r][e] = NULL
  <2>1. Receiving(r, e) <=> Linked(r, e)
    BY <1>2, <1>3, <1>4 DEF Receiving
  <2>2. rreq[r][e] \in [state : {"idle", "posted", "full"}, op : 0 .. 11]
    BY DEF PortInv, RecvsOK
  <2>3. /\ Linked(r, e) => rreq[r][e].state # "idle" /\ rreq[r][e].op = x.op
        /\ ~Linked(r, e) => rreq[r][e] = Idle /\ rbuf[r][e] = NULL
    BY <1>2, <2>1 DEF PortInv, RecvsOK
  <2>4. Linked(r, e) => rreq[r][e].state # "posted"
    BY <1>6
  <2>. QED  BY <2>2, <2>3, <2>4
<1>11. ASSUME NEW d \in Face PROVE SendsFit(r, d, y) /\ RecvsFit(r, d, y)
  <2>1. /\ IF Linked(r, d) /\ During(x, d, SendCall(x.op, d))
             THEN sreq[r][d].state # "idle" /\ sreq[r][d].op = x.op
             ELSE sreq[r][d] = Idle /\ sbuf[r][d] = NULL
        /\ IF Linked(r, d) /\ During(x, Opposite(d), RecvCall(x.op, Opposite(d)))
             THEN rreq[r][d].state # "idle" /\ rreq[r][d].op = x.op
             ELSE rreq[r][d] = Idle /\ rbuf[r][d] = NULL
    BY <1>2 DEF PortInv, SendsOK, RecvsOK, Sending, Receiving
  <2>2. Opposite(d) \in Face
    BY Faces
  <2>3. SendsFit(r, d, y)
    BY <1>3, <1>6, <2>1 DEF SendsFit
  <2>4. CASE d = e
    <3>1. rreq'[r][e] = Idle /\ rbuf'[r][e] = NULL
      BY <1>6, <1>8, <1>10
    <3>. QED  BY <1>3, <1>4, <2>3, <2>4, <3>1 DEF RecvsFit
  <2>5. CASE d # e
    BY <1>3, <1>4, <1>8, <2>1, <2>2, <2>3, <2>5 DEF RecvsFit
  <2>. QED  BY <2>4, <2>5
<1>12. ASSUME NEW d \in Face, NEW o \in Uses, Linked(r, d) PROVE CountsKept(r, d, o, y)
  <2>1. Opposite(d) \in Face
    BY Faces
  <2>2. Sent(r, d, o) <=> \/ Past(y, o, d, SendCall(o, d))
                          \/ sreq'[r][d] = [state |-> "taken", op |-> o]
    BY <1>2, <1>3, <1>6 DEF Sent
  <2>3. CASE d = e
    <3>1. rreq'[r][e] = Idle /\ Idle # [state |-> "full", op |-> o]
      BY <1>8, <1>12, <2>3 DEF Idle
    <3>2. rreq[r][e] = [state |-> "full", op |-> o] <=> o = x.op
      BY <1>10, <1>12, <2>3
    <3>. QED  BY <1>2, <1>3, <1>4, <2>2, <2>3, <3>1, <3>2 DEF Got, CountsKept
  <2>4. CASE d # e
    BY <1>2, <1>3, <1>4, <1>8, <2>1, <2>2, <2>4 DEF Got, CountsKept
  <2>. QED  BY <2>3, <2>4
<1>13. PortStep(r, y)
  <2>1. at' = [at EXCEPT ![r] = y]
    BY <1>3 DEF EndRecv
  <2>. QED  BY <1>1, <1>3, <1>5, <1>7, <1>9, <1>11, <1>12, <2>1 DEF PortStep
<1>. QED  BY <1>13, RankStep

LEMMA EndSendStep ==
  ASSUME PortInv, NEW r \in Rank, EndSend(r)
  PROVE  PlaceOK' /\ SendsOK' /\ RecvsOK' /\ EdgesOK'
<1>1. /\ Working(r) /\ at[r].group > 0 /\ at[r].next > Len(Group(r))
      /\ deck' = deck /\ UNCHANGED gridVars /\ GridOK /\ PlaceOK
  BY DEF EndSend, PortInv
<1>2. PICK f, x, y : f = Group(r)[at[r].next - Len(Group(r))] /\ x = at[r] /\ y = After(x)
  OBVIOUS
<1>3. /\ f \in Face /\ y \in Place /\ NextCall(r, at[r].next) = y
      /\ x.op \in Uses /\ During(x, f, SendCall(x.op, f))
      /\ \A d \in Face :
           /\ During(y, d, SendCall(y.op, d)) <=> During(x, d, SendCall(x.op, d)) /\ d # f
           /\ During(y, d, RecvCall(y.op, d)) <=> During(x, d, RecvCall(x.op, d))
           /\ During(y, d, SendCall(y.op, d)) => y.op = x.op
           /\ During(y, d, RecvCall(y.op, d)) => y.op = x.op
      /\ \A d \in Face, o \in Uses :
           /\ Past(y, o, d, SendCall(o, d)) <=>
                Past(x, o, d, SendCall(o, d)) \/ (o = x.op /\ d = f)
           /\ Past(y, o, d, RecvCall(o, d)) <=> Past(x, o, d, RecvCall(o, d))
  BY <1>1, <1>2, SendCalls
<1>4. status[r] = "joined" /\ (Connected(r, f) <=> Linked(r, f))
  BY <1>1, <1>3, Ready
<1>5. /\ rreq' = rreq /\ rbuf' = rbuf
      /\ IF Linked(r, f)
           THEN /\ sreq[r][f].state = "taken"
                /\ sreq' = [sreq EXCEPT ![r][f] = Idle] /\ sbuf' = [sbuf EXCEPT ![r][f] = NULL]
           ELSE sreq' = sreq /\ sbuf' = sbuf
  BY <1>2, <1>4 DEF EndSend, SendEnds, portVars
<1>6. PortsTyped'
  <2>1. Idle \in [state : {"idle", "posted", "taken"}, op : 0 .. 11]
    BY DEF Idle
  <2>2. /\ rreq' \in [Rank -> [Face -> [state : {"idle", "posted", "full"}, op : 0 .. 11]]]
        /\ DOMAIN rbuf' = Rank /\ \A q \in Rank : rbuf'[q] = [d \in Face |-> rbuf'[q][d]]
    BY <1>5 DEF PortInv, RecvsOK
  <2>3. sreq' \in [Rank -> [Face -> [state : {"idle", "posted", "taken"}, op : 0 .. 11]]]
    <3>1. sreq \in [Rank -> [Face -> [state : {"idle", "posted", "taken"}, op : 0 .. 11]]]
      BY DEF PortInv, SendsOK
    <3>2. sreq' = sreq \/ sreq' = [sreq EXCEPT ![r][f] = Idle]
      BY <1>5
    <3>. QED  BY <1>3, <2>1, <3>1, <3>2, RequestKept
  <2>4. DOMAIN sbuf' = Rank /\ \A q \in Rank : sbuf'[q] = [d \in Face |-> sbuf'[q][d]]
    <3>1. sbuf' = sbuf \/ sbuf' = [sbuf EXCEPT ![r][f] = NULL]
      BY <1>5
    <3>2. DOMAIN sbuf = Rank /\ \A q \in Rank : sbuf[q] = [d \in Face |-> sbuf[q][d]]
      BY DEF PortInv, SendsOK
    <3>. QED  BY <1>3, <3>1, <3>2, BufferKept
  <2>. QED  BY <2>2, <2>3, <2>4 DEF PortsTyped
<1>7. /\ \A q \in Rank, d \in Face : q # r \/ d # f =>
           sreq'[q][d] = sreq[q][d] /\ sbuf'[q][d] = sbuf[q][d]
      /\ Linked(r, f) => sreq'[r][f] = Idle /\ sbuf'[r][f] = NULL
  BY <1>3, <1>5 DEF PortInv, SendsOK
<1>8. OthersKept(r)
  BY <1>5, <1>7 DEF OthersKept
<1>9. /\ Linked(r, f) => sreq[r][f] = [state |-> "taken", op |-> x.op]
      /\ ~Linked(r, f) => sreq[r][f] = Idle /\ sbuf[r][f] = NULL
  <2>1. Sending(r, f) <=> Linked(r, f)
    BY <1>2, <1>3 DEF Sending
  <2>2. sreq[r][f] \in [state : {"idle", "posted", "taken"}, op : 0 .. 11]
    BY <1>3 DEF PortInv, SendsOK
  <2>3. /\ Linked(r, f) => sreq[r][f].op = x.op
        /\ ~Linked(r, f) => sreq[r][f] = Idle /\ sbuf[r][f] = NULL
    BY <1>2, <1>3, <2>1 DEF PortInv, SendsOK
  <2>4. Linked(r, f) => sreq[r][f].state = "taken"
    BY <1>5
  <2>. QED  BY <2>2, <2>3, <2>4
<1>10. ASSUME NEW d \in Face PROVE SendsFit(r, d, y) /\ RecvsFit(r, d, y)
  <2>1. /\ IF Linked(r, d) /\ During(x, d, SendCall(x.op, d))
             THEN sreq[r][d].state # "idle" /\ sreq[r][d].op = x.op
             ELSE sreq[r][d] = Idle /\ sbuf[r][d] = NULL
        /\ IF Linked(r, d) /\ During(x, Opposite(d), RecvCall(x.op, Opposite(d)))
             THEN rreq[r][d].state # "idle" /\ rreq[r][d].op = x.op
             ELSE rreq[r][d] = Idle /\ rbuf[r][d] = NULL
    BY <1>2 DEF PortInv, SendsOK, RecvsOK, Sending, Receiving
  <2>2. Opposite(d) \in Face
    BY Faces
  <2>3. RecvsFit(r, d, y)
    BY <1>3, <1>5, <2>1, <2>2 DEF RecvsFit
  <2>4. CASE d = f
    <3>1. sreq'[r][f] = Idle /\ sbuf'[r][f] = NULL
      BY <1>5, <1>7, <1>9
    <3>. QED  BY <1>3, <2>3, <2>4, <3>1 DEF SendsFit
  <2>5. CASE d # f
    BY <1>3, <1>7, <2>1, <2>3, <2>5 DEF SendsFit
  <2>. QED  BY <2>4, <2>5
<1>11. ASSUME NEW d \in Face, NEW o \in Uses, Linked(r, d) PROVE CountsKept(r, d, o, y)
  <2>1. Opposite(d) \in Face
    BY Faces
  <2>2. Got(r, d, o) <=> \/ Past(y, o, Opposite(d), RecvCall(o, Opposite(d)))
                         \/ rreq'[r][d] = [state |-> "full", op |-> o]
    BY <1>2, <1>3, <1>5, <2>1 DEF Got
  <2>3. CASE d = f
    <3>1. sreq'[r][f] = Idle /\ Idle # [state |-> "taken", op |-> o]
      BY <1>7, <1>11, <2>3 DEF Idle
    <3>2. sreq[r][f] = [state |-> "taken", op |-> o] <=> o = x.op
      BY <1>9, <1>11, <2>3
    <3>. QED  BY <1>2, <1>3, <2>2, <2>3, <3>1, <3>2 DEF Sent, CountsKept
  <2>4. CASE d # f
    BY <1>2, <1>3, <1>7, <2>2, <2>4 DEF Sent, CountsKept
  <2>. QED  BY <2>3, <2>4
<1>12. PortStep(r, y)
  <2>1. at' = [at EXCEPT ![r] = y]
    BY <1>3 DEF EndSend
  <2>. QED  BY <1>1, <1>3, <1>4, <1>6, <1>8, <1>10, <1>11, <2>1 DEF PortStep
<1>. QED  BY <1>12, RankStep

\* A send and the receive it is paired with are those of one exchange: all before
\* it have gone over the channel on both sides.
LEMMA Pairing ==
  ASSUME PortInv, NEW r \in Rank, NEW d \in Face, Matched(r, d)
  PROVE  /\ Good /\ Linked(r, d) /\ bc[r][d] = Behind(r, d)
         /\ sreq[r][d] = [state |-> "posted", op |-> at[r].op]
         /\ rreq[Behind(r, d)][Opposite(d)] = [state |-> "posted", op |-> at[r].op]
         /\ at[Behind(r, d)].op = at[r].op /\ at[r].op \in Uses
<1>1. sreq[r][d].state = "posted" /\ Idle.state = "idle"
  BY DEF Matched, Idle
<1>2. Sending(r, d) /\ sreq[r][d].op = at[r].op
  BY <1>1 DEF PortInv, SendsOK
<1>3. /\ Linked(r, d) /\ at[r].op \in Uses /\ at[r].next > 0
      /\ During(at[r], d, SendCall(at[r].op, d))
  <2>1. at[r].next \in 0 .. 12
    BY DEF PortInv, PlaceOK, Place
  <2>. QED  BY <1>2, <2>1 DEF Sending, During
<1>4. status[r] = "joined" /\ Good /\ bc[r][d] = Behind(r, d)
  <2>1. status[r] = "joined"
    BY <1>3 DEF PortInv, PlaceOK, Start
  <2>. QED  BY <2>1 DEF PortInv, GridOK
<1>5. PICK q \in Rank, e \in Face : q = Behind(r, d) /\ e = Opposite(d) /\ Linked(q, e) /\ Opposite(e) = d
  BY <1>3, <1>4, BehindMutual, Faces DEF PortInv, GridOK
<1>6. rreq[q][e].state = "posted"
  BY <1>4, <1>5 DEF Matched
<1>7. Receiving(q, e) /\ rreq[q][e].op = at[q].op
  BY <1>1, <1>6 DEF PortInv, RecvsOK
<1>8. at[q].op \in Uses /\ During(at[q], d, RecvCall(at[q].op, d))
  BY <1>5, <1>7 DEF Receiving, During
<1>9. /\ sreq[r][d] = [state |-> "posted", op |-> at[r].op]
      /\ rreq[q][e] = [state |-> "posted", op |-> at[q].op]
  <2>1. /\ sreq[r][d] \in [state : {"idle", "posted", "taken"}, op : 0 .. 11]
        /\ rreq[q][e] \in [state : {"idle", "posted", "full"}, op : 0 .. 11]
    BY DEF PortInv, SendsOK, RecvsOK
  <2>. QED  BY <1>1, <1>2, <1>6, <1>7, <2>1
<1>10. ASSUME NEW o \in Uses
       PROVE  Past(at[r], o, d, SendCall(o, d)) <=> Past(at[q], o, d, RecvCall(o, d))
  <2>1. Sent(r, d, o) <=> Got(q, e, o)
    BY <1>3, <1>4, <1>5 DEF PortInv, EdgesOK
  <2>2. /\ sreq[r][d] # [state |-> "taken", op |-> o]
        /\ rreq[q][e] # [state |-> "full", op |-> o]
    BY <1>1, <1>6
  <2>. QED  BY <1>5, <2>1, <2>2 DEF Sent, Got
<1>11. at[q].op = at[r].op
  <2>1. /\ at[r].op \in 1 .. 10 /\ at[r].next \in 0 .. 12 /\ at[r].group \in 0 .. 3
        /\ at[q].op \in 1 .. 10 /\ at[q].next \in 0 .. 12 /\ at[q].group \in 0 .. 3
    BY <1>3, <1>8, ProgramIs DEF PortInv, PlaceOK, Place
  <2>2. CASE at[r].op < at[q].op
    <3>1. ~Past(at[r], at[r].op, d, SendCall(at[r].op, d))
      BY <1>3, <2>1, CallRange DEF Past, During
    <3>2. Past(at[q], at[r].op, d, RecvCall(at[r].op, d))
      BY <2>1, <2>2 DEF Past
    <3>. QED  BY <1>3, <1>10, <3>1, <3>2
  <2>3. CASE at[q].op < at[r].op
    <3>1. ~Past(at[q], at[q].op, d, RecvCall(at[q].op, d))
      BY <1>8, <2>1, CallRange DEF Past, During
    <3>2. Past(at[r], at[q].op, d, SendCall(at[q].op, d))
      BY <2>1, <2>3 DEF Past
    <3>. QED  BY <1>8, <1>10, <3>1, <3>2
  <2>. QED  BY <2>1, <2>2, <2>3
<1>. QED  BY <1>3, <1>4, <1>5, <1>9, <1>11

LEMMA TransferStep ==
  ASSUME PortInv, NEW r \in Rank, NEW d \in Face, Transfer(r, d)
  PROVE  PlaceOK' /\ SendsOK' /\ RecvsOK' /\ EdgesOK'
<1>1. /\ Matched(r, d) /\ deck' = deck /\ UNCHANGED gridVars /\ at' = at /\ sbuf' = sbuf
  BY DEF Transfer
<1>2. PICK q \in Rank, e \in Face :
        /\ q = Behind(r, d) /\ e = Opposite(d) /\ Opposite(e) = d
        /\ Linked(q, e) /\ Behind(q, e) = r
  <2>1. Good /\ Linked(r, d) /\ deck \in Decks
    BY <1>1, Pairing DEF PortInv, GridOK
  <2>. QED  BY <2>1, BehindMutual, Faces
<1>3. /\ Good /\ Linked(r, d) /\ bc[r][d] = q /\ at[q].op = at[r].op /\ at[r].op \in Uses
      /\ sreq[r][d] = [state |-> "posted", op |-> at[r].op]
      /\ rreq[q][e] = [state |-> "posted", op |-> at[r].op]
  BY <1>1, <1>2, Pairing
<1>4. /\ sreq' = [sreq EXCEPT ![r][d] = [state |-> "taken", op |-> at[r].op]]
      /\ rreq' = [rreq EXCEPT ![q][e] = [state |-> "full", op |-> at[r].op]]
      /\ rbuf' = [rbuf EXCEPT ![q][e] = sbuf[r][d]]
  <2>1. /\ rbuf' = [rbuf EXCEPT ![q][e] = sbuf[r][d]]
        /\ sreq' = [sreq EXCEPT ![r][d].state = "taken"]
        /\ rreq' = [rreq EXCEPT ![q][e].state = "full"]
    BY <1>2, <1>3 DEF Transfer
  <2>2. [sreq[r][d] EXCEPT !.state = "taken"] = [state |-> "taken", op |-> at[r].op]
    BY <1>3
  <2>3. [rreq[q][e] EXCEPT !.state = "full"] = [state |-> "full", op |-> at[r].op]
    BY <1>3
  <2>4. sreq' = [sreq EXCEPT ![r][d] = [sreq[r][d] EXCEPT !.state = "taken"]]
    BY <2>1
  <2>5. rreq' = [rreq EXCEPT ![q][e] = [rreq[q][e] EXCEPT !.state = "full"]]
    BY <2>1
  <2>. QED  BY <2>1, <2>2, <2>3, <2>4, <2>5
<1>5. /\ \A p \in Rank, c \in Face : p # r \/ c # d => sreq'[p][c] = sreq[p][c]
      /\ \A p \in Rank, c \in Face : p # q \/ c # e =>
           rreq'[p][c] = rreq[p][c] /\ rbuf'[p][c] = rbuf[p][c]
      /\ sreq'[r][d] = [state |-> "taken", op |-> at[r].op]
      /\ rreq'[q][e] = [state |-> "full", op |-> at[r].op]
  BY <1>4 DEF PortInv, SendsOK, RecvsOK
<1>6. ASSUME NEW p \in Rank, NEW c \in Face
      PROVE  /\ (Linked(p, c)' <=> Linked(p, c)) /\ Behind(p, c)' = Behind(p, c)
             /\ Sending(p, c)' <=> Sending(p, c)
             /\ Receiving(p, c)' <=> Receiving(p, c)
  BY <1>1, DeckFixed DEF Linked, Sending, Receiving
<1>7. PlaceOK'
  BY <1>1 DEF PortInv, PlaceOK, gridVars
<1>8. at[r].op \in 0 .. 11
  BY DEF PortInv, PlaceOK, Place
<1>9. SendsOK'
  <2>1. sreq' \in [Rank -> [Face -> [state : {"idle", "posted", "taken"}, op : 0 .. 11]]]
    <3>1. sreq \in [Rank -> [Face -> [state : {"idle", "posted", "taken"}, op : 0 .. 11]]]
      BY DEF PortInv, SendsOK
    <3>2. [state |-> "taken", op |-> at[r].op] \in [state : {"idle", "posted", "taken"}, op : 0 .. 11]
      BY <1>8
    <3>. QED  BY <1>4, <3>1, <3>2, RequestKept
  <2>2. Sending(r, d)
    BY <1>3 DEF PortInv, SendsOK, Idle
  <2>3. ASSUME NEW p \in Rank, NEW c \in Face
        PROVE  IF Sending(p, c) THEN sreq'[p][c].state # "idle" /\ sreq'[p][c].op = at[p].op
               ELSE sreq'[p][c] = Idle /\ sbuf[p][c] = NULL
    <3>1. CASE p = r /\ c = d
      BY <1>5, <2>2, <3>1
    <3>2. CASE ~(p = r /\ c = d)
      BY <1>5, <3>2 DEF PortInv, SendsOK
    <3>. QED  BY <3>1, <3>2
  <2>4. DOMAIN sbuf' = Rank /\ \A p \in Rank : sbuf'[p] = [c \in Face |-> sbuf'[p][c]]
    BY <1>1 DEF PortInv, SendsOK
  <2>. QED  BY <1>1, <1>6, <2>1, <2>3, <2>4 DEF SendsOK
<1>10. RecvsOK'
  <2>1. rreq' \in [Rank -> [Face -> [state : {"idle", "posted", "full"}, op : 0 .. 11]]]
    <3>1. rreq \in [Rank -> [Face -> [state : {"idle", "posted", "full"}, op : 0 .. 11]]]
      BY DEF PortInv, RecvsOK
    <3>2. [state |-> "full", op |-> at[r].op] \in [state : {"idle", "posted", "full"}, op : 0 .. 11]
      BY <1>8
    <3>. QED  BY <1>4, <3>1, <3>2, RequestKept
  <2>2. DOMAIN rbuf' = Rank /\ \A p \in Rank : rbuf'[p] = [c \in Face |-> rbuf'[p][c]]
    <3>1. DOMAIN rbuf = Rank /\ \A p \in Rank : rbuf[p] = [c \in Face |-> rbuf[p][c]]
      BY DEF PortInv, RecvsOK
    <3>. QED  BY <1>4, <3>1, BufferKept
  <2>3. Receiving(q, e)
    BY <1>3 DEF PortInv, RecvsOK, Idle
  <2>4. ASSUME NEW p \in Rank, NEW c \in Face
        PROVE  IF Receiving(p, c) THEN rreq'[p][c].state # "idle" /\ rreq'[p][c].op = at[p].op
               ELSE rreq'[p][c] = Idle /\ rbuf'[p][c] = NULL
    <3>1. CASE p = q /\ c = e
      BY <1>3, <1>5, <2>3, <3>1
    <3>2. CASE ~(p = q /\ c = e)
      BY <1>5, <3>2 DEF PortInv, RecvsOK
    <3>. QED  BY <3>1, <3>2
  <2>. QED  BY <1>1, <1>6, <2>1, <2>2, <2>4 DEF RecvsOK
<1>11. EdgesOK'
  <2> SUFFICES ASSUME NEW p \in Rank, NEW c \in Face, Good', Linked(p, c)', NEW o \in Uses
               PROVE  (Sent(p, c, o) <=> Got(Behind(p, c), Opposite(c), o))'
    BY DEF EdgesOK
  <2>1. Linked(p, c) /\ Behind(p, c)' = Behind(p, c)
    BY <1>6
  <2>2. PICK t \in Rank, f \in Face :
          t = Behind(p, c) /\ f = Opposite(c) /\ Opposite(f) = c /\ Behind(t, f) = p
    BY <1>3, <2>1, BehindMutual, Faces DEF PortInv, GridOK
  <2>3. Sent(p, c, o) <=> Got(t, f, o)
    BY <1>3, <2>1, <2>2 DEF PortInv, EdgesOK
  <2>4. Got(Behind(p, c), Opposite(c), o)' <=> Got(t, f, o)'
    BY <2>1, <2>2 DEF Got
  <2>5. CASE p = r /\ c = d
    <3>1. t = q /\ f = e
      BY <1>2, <2>2, <2>5
    <3>2. Sent(p, c, o)' <=> Past(at[r], o, d, SendCall(o, d)) \/ o = at[r].op
      BY <1>1, <1>5, <2>5 DEF Sent
    <3>3. Got(t, f, o)' <=> Past(at[q], o, d, RecvCall(o, d)) \/ o = at[r].op
      BY <1>1, <1>2, <1>5, <3>1 DEF Got
    <3>4. /\ Sent(p, c, o) <=> Past(at[r], o, d, SendCall(o, d))
          /\ Got(t, f, o) <=> Past(at[q], o, d, RecvCall(o, d))
      <4>1. /\ sreq[r][d] # [state |-> "taken", op |-> o]
            /\ rreq[q][e] # [state |-> "full", op |-> o]
        BY <1>3
      <4>. QED  BY <1>2, <2>5, <3>1, <4>1 DEF Sent, Got
    <3>. QED  BY <2>3, <2>4, <3>2, <3>3, <3>4
  <2>6. CASE ~(p = r /\ c = d)
    <3>1. ~(t = q /\ f = e)
      BY <1>2, <2>2, <2>6
    <3>2. Sent(p, c, o)' <=> Sent(p, c, o)
      BY <1>1, <1>5, <2>6 DEF Sent
    <3>3. Got(t, f, o)' <=> Got(t, f, o)
      BY <1>1, <1>5, <3>1 DEF Got
    <3>. QED  BY <2>3, <2>4, <3>2, <3>3
  <2>. QED  BY <2>5, <2>6
<1>. QED  BY <1>7, <1>9, <1>10, <1>11

LEMMA PortInvStep == PortInv /\ [Next]_vars => PortInv'
<1> SUFFICES ASSUME PortInv, [Next]_vars PROVE PlaceOK' /\ SendsOK' /\ RecvsOK' /\ EdgesOK'
  BY GridStep DEF PortInv
<1>1. ASSUME UNCHANGED <<deck, at, portVars>>,
             \A r \in Rank : status'[r] # "joined" => status[r] # "joined"
      PROVE  PlaceOK' /\ SendsOK' /\ RecvsOK' /\ EdgesOK'
  <2>1. UNCHANGED <<deck, at, sreq, rreq, sbuf, rbuf>>
    BY <1>1 DEF portVars
  <2>2. PlaceOK'
    BY <1>1, <2>1 DEF PortInv, PlaceOK
  <2>3. ASSUME NEW r \in Rank, NEW d \in Face
        PROVE  /\ (Linked(r, d)' <=> Linked(r, d)) /\ Behind(r, d)' = Behind(r, d)
               /\ (Sending(r, d)' <=> Sending(r, d)) /\ (Receiving(r, d)' <=> Receiving(r, d))
               /\ \A o \in Uses : (Sent(r, d, o)' <=> Sent(r, d, o)) /\ (Got(r, d, o)' <=> Got(r, d, o))
    BY <2>1, DeckFixed DEF Linked, Sending, Receiving, Sent, Got
  <2>4. SendsOK' /\ RecvsOK'
    BY <2>1, <2>3 DEF PortInv, SendsOK, RecvsOK
  <2>5. EdgesOK'
    <3> SUFFICES ASSUME NEW r \in Rank, NEW d \in Face, Good', Linked(r, d)', NEW o \in Uses
                 PROVE  (Sent(r, d, o) <=> Got(Behind(r, d), Opposite(d), o))'
      BY DEF EdgesOK
    <3>1. Good /\ Linked(r, d) /\ Behind(r, d)' = Behind(r, d)
      BY <2>1, <2>3, DeckFixed
    <3>2. PICK q \in Rank, e \in Face : q = Behind(r, d) /\ e = Opposite(d)
      BY <3>1, Faces DEF Linked
    <3>3. Got(Behind(r, d), Opposite(d), o)' <=> Got(q, e, o)'
      BY <3>1, <3>2 DEF Got
    <3>4. Sent(r, d, o) <=> Got(q, e, o)
      BY <3>1, <3>2 DEF PortInv, EdgesOK
    <3>. QED  BY <2>3, <3>3, <3>4
  <2>. QED  BY <2>2, <2>4, <2>5
<1>2. ASSUME NEW r \in Rank, SizeGrid(r) \/ JoinGrid(r)
      PROVE  PlaceOK' /\ SendsOK' /\ RecvsOK' /\ EdgesOK'
  <2>1. status[r] \in {"start", "sized"} /\ UNCHANGED <<deck, at, portVars>>
    BY <1>2 DEF SizeGrid, JoinGrid
  <2>2. \E to : status' = [status EXCEPT ![r] = to]
    BY <1>2 DEF SizeGrid, JoinGrid
  <2>3. \A q \in Rank : status'[q] # "joined" => status[q] # "joined"
    BY <2>1, <2>2 DEF PortInv, GridOK
  <2>. QED  BY <1>1, <2>1, <2>3
<1>3. ASSUME NEW r \in Rank, Adjust(r) PROVE PlaceOK' /\ SendsOK' /\ RecvsOK' /\ EdgesOK'
  <2>1. /\ Working(r) /\ Op(r) \in Exchange /\ at[r].group = 0
        /\ UNCHANGED <<deck, gridVars, portVars>>
    BY <1>3 DEF Adjust
  <2>2. at[r].op \in Uses /\ at[r] \in Place /\ at[r].next = 0
    BY <2>1, Ready DEF PortInv, Place
  <2>3. PICK y : y = [at[r] EXCEPT !.group = 1] /\ at' = [at EXCEPT ![r] = y]
    BY <1>3 DEF Adjust
  <2>. QED  BY <2>1, <2>2, <2>3, MoveStep
<1>4. ASSUME NEW r \in Rank, AllSum(r) PROVE PlaceOK' /\ SendsOK' /\ RecvsOK' /\ EdgesOK'
  <2>1. Working(r) /\ Op(r) = "allsum" /\ UNCHANGED <<deck, gridVars, portVars>>
    BY <1>4 DEF AllSum
  <2>2. at[r].op \notin Uses /\ at[r] \in Place /\ at[r].next = 0
    BY <2>1, Ready DEF PortInv, Place
  <2>3. PICK y : y = [at[r] EXCEPT !.op = @ + 1] /\ at' = [at EXCEPT ![r] = y]
    BY <1>4 DEF AllSum
  <2>. QED  BY <2>1, <2>2, <2>3, MoveStep
<1>5. CASE UNCHANGED vars
  <2>1. UNCHANGED <<deck, at, portVars, status>>
    BY <1>5 DEF vars, gridVars
  <2>. QED  BY <1>1, <2>1
<1>. QED  BY <1>2, <1>3, <1>4, <1>5, BeginStep, EndRecvStep, EndSendStep, TransferStep DEF Next, Stop

\* The grid, the place of each rank in the schedule of calls, the requests that
\* follow from it and the balance of every channel: an inductive invariant.
THEOREM PortInvariant == Spec => []PortInv
BY InitPorts, PortInvStep, PTL DEF Spec

\* For every number of ranks: a send and a receive MPI pairs are of one exchange.
THEOREM MessagesAlwaysPaired == Spec => []MessagesPaired
<1>1. PortInv => MessagesPaired
  <2> SUFFICES ASSUME PortInv, NEW r \in Rank, NEW d \in Face, Matched(r, d)
               PROVE  sreq[r][d].op = rreq[bc[r][d]][Opposite(d)].op
    BY DEF MessagesPaired
  <2>. QED  BY Pairing
<1>. QED  BY PortInvariant, <1>1, PTL

\* For every number of ranks: a rank that begins a group of an exchange finds its
\* requests idle and the buffers of its ports unset.
THEOREM PortsAlwaysQuiet == Spec => []PortsQuiet
<1>1. PortInv => PortsQuiet
  BY Quiet DEF PortsQuiet
<1>. QED  BY PortInvariant, <1>1, PTL
-----------------------------------------------------------------------------
(***************************************************************************)
(* The slots of a message.  A part is a box of values numbered in mixed    *)
(* radix, and the parts of a message follow each other.                    *)
(***************************************************************************)
Number(w, rows, i, f, s) == w * ((s - 1) * rows + f - 1) + i - 1

LEMMA ProductsAgree ==
  \A a, b, c \in Nat : a * b * c = a * (b * c) /\ a * c * b = a * (b * c)
OBVIOUS

LEMMA NumberRange ==
  ASSUME NEW w \in Nat \ {0}, NEW F \in Nat \ {0}, NEW S \in Nat \ {0},
         NEW i \in 1 .. w, NEW f \in 1 .. F, NEW s \in 1 .. S
  PROVE  Number(w, F, i, f, s) \in 0 .. w * (F * S) - 1
<1>1. (f - 1) + F * (s - 1) \in 0 .. F * S - 1
  <2>1. s - 1 \in 0 .. S - 1 /\ f - 1 \in 0 .. F - 1 /\ S \in Nat
    OBVIOUS
  <2>. QED  BY <2>1, ProductBound
<1>2. PICK row \in Nat, size \in Nat : /\ row = (f - 1) + F * (s - 1) /\ size = F * S
                                       /\ row \in 0 .. size - 1
  BY <1>1
<1>3. (i - 1) + w * row \in 0 .. w * size - 1
  <2>1. i - 1 \in 0 .. w - 1
    OBVIOUS
  <2>. QED  BY <1>2, <2>1, ProductBound
<1>4. Number(w, F, i, f, s) = (i - 1) + w * row
  <2>1. (s - 1) * F + f - 1 = row
    BY <1>2
  <2>2. Number(w, F, i, f, s) = w * row + i - 1
    BY <2>1 DEF Number
  <2>. QED  BY <2>2, <1>2
<1>. QED  BY <1>2, <1>3, <1>4

LEMMA NumberUnique ==
  ASSUME NEW w \in Nat \ {0}, NEW F \in Nat \ {0},
         NEW i \in 1 .. w, NEW f \in 1 .. F, NEW s \in Nat \ {0},
         NEW j \in 1 .. w, NEW g \in 1 .. F, NEW t \in Nat \ {0},
         Number(w, F, i, f, s) = Number(w, F, j, g, t)
  PROVE  i = j /\ f = g /\ s = t
<1>1. PICK row \in Nat, col \in Nat :
        row = (f - 1) + F * (s - 1) /\ col = (g - 1) + F * (t - 1)
  <2>1. F * (s - 1) \in Nat /\ F * (t - 1) \in Nat
    OBVIOUS
  <2>. QED  BY <2>1
<1>2. (i - 1) + w * row = (j - 1) + w * col
  <2>1. (s - 1) * F + f - 1 = row /\ (t - 1) * F + g - 1 = col
    BY <1>1
  <2>2. w * row + i - 1 = w * col + j - 1
    BY <2>1 DEF Number
  <2>. QED  BY <2>2
<1>3. row = col
  <2>1. ((i - 1) + w * row) \div w = row /\ ((j - 1) + w * col) \div w = col
    BY Digit
  <2>. QED  BY <1>2, <2>1
<1>4. s - 1 = t - 1
  <2>1. ((f - 1) + F * (s - 1)) \div F = s - 1 /\ ((g - 1) + F * (t - 1)) \div F = t - 1
    BY Digit
  <2>. QED  BY <1>1, <1>3, <2>1
<1>. QED  BY <1>1, <1>2, <1>3, <1>4

LEMMA NumberFound ==
  ASSUME NEW w \in Nat \ {0}, NEW F \in Nat \ {0}, NEW S \in Nat \ {0},
         NEW v \in 0 .. w * (F * S) - 1
  PROVE  \E i \in 1 .. w, f \in 1 .. F, s \in 1 .. S : v = Number(w, F, i, f, s)
<1>1. PICK row \in Nat, c \in 0 .. w - 1 : v = c + w * row
  <2>1. v \in Nat
    OBVIOUS
  <2>2. v \div w \in Nat /\ v % w \in 0 .. w - 1 /\ v = w * (v \div w) + (v % w)
    BY <2>1, Division
  <2>. QED  BY <2>2
<1>2. PICK size \in Nat : size = F * S
  OBVIOUS
<1>3. row < size
  BY <1>1, <1>2, QuotientBound
<1>4. PICK q \in Nat, e \in 0 .. F - 1 : row = e + F * q
  <2>1. row \div F \in Nat /\ row % F \in 0 .. F - 1 /\ row = F * (row \div F) + (row % F)
    BY Division
  <2>2. PICK q \in Nat, e \in 0 .. F - 1 : row = F * q + e
    BY <2>1
  <2>. QED  BY <2>2
<1>5. q < S
  BY <1>2, <1>3, <1>4, QuotientBound
<1>6. Number(w, F, c + 1, e + 1, q + 1) = v
  <2>1. (q + 1 - 1) * F + (e + 1) - 1 = row
    BY <1>4
  <2>2. Number(w, F, c + 1, e + 1, q + 1) = w * row + (c + 1) - 1
    BY <2>1 DEF Number
  <2>. QED  BY <1>1, <2>2
<1>7. c + 1 \in 1 .. w /\ e + 1 \in 1 .. F /\ q + 1 \in 1 .. S
  BY <1>1, <1>4, <1>5
<1>. QED  BY <1>6, <1>7

-----------------------------------------------------------------------------
\* The axes of a plane.
LEMMA PlaneAxes ==
  ASSUME NEW X \in Axis
  PROVE  /\ Y(X) \in Axis /\ Z(X) \in Axis
         /\ Y(X) # X /\ Z(X) # X /\ Y(X) # Z(X)
         /\ \A a \in Axis : a = X \/ a = Y(X) \/ a = Z(X)
<1>1. X \in {0, 1, 2}
  BY DEF Axis
<1>. QED  BY <1>1 DEF Y, Z, Axis

\* The components of a message are listed once.
LEMMA HydroShape ==
  ASSUME NEW X
  PROVE  /\ Len(Parts("hydro", X)) = 1 /\ DOMAIN Parts("hydro", X) = 1 .. 1
         /\ Len(Parts("hydro", X)[1]) = 14 /\ DOMAIN Parts("hydro", X)[1] = 1 .. 14
         /\ \A c \in 1 .. 14 : Parts("hydro", X)[1][c] = <<"hydro", c>>
<1>1. PICK part : part = [i \in 1 .. 14 |-> <<"hydro", i>>] /\ Parts("hydro", X) = << part >>
  BY DEF Parts, HydroParts
<1>2. Len(part) = 14
  <2>1. part \in Seq({"hydro"} \X (1 .. 14))
    BY <1>1
  <2>. QED  BY <1>1, <2>1
<1>3. Parts("hydro", X)[1] = part /\ Len(Parts("hydro", X)) = 1 /\ DOMAIN Parts("hydro", X) = 1 .. 1
  <2>1. \A m : Len(<< m >>) = 1 /\ DOMAIN << m >> = 1 .. 1 /\ << m >>[1] = m
    OBVIOUS
  <2>2. Parts("hydro", X) = << part >>
    BY <1>1
  <2>. QED  BY <2>1, <2>2
<1>. QED  BY <1>1, <1>2, <1>3

LEMMA PartsShape ==
  ASSUME NEW op \in Exchange, NEW X \in Axis
  PROVE  /\ Len(Parts(op, X)) \in 1 .. 3 /\ DOMAIN Parts(op, X) = 1 .. Len(Parts(op, X))
         /\ \A j \in 1 .. Len(Parts(op, X)) :
              /\ Len(Parts(op, X)[j]) \in 1 .. 14
              /\ DOMAIN Parts(op, X)[j] = 1 .. Len(Parts(op, X)[j])
<1>2. CASE op = "jf"
  BY <1>2 DEF Parts, JfParts
<1>3. CASE op = "rho"
  BY <1>3 DEF Parts, RhoParts
<1>4. CASE op = "tang_e"
  BY <1>4 DEF Parts, TangEParts
<1>5. CASE op = "tang_b"
  BY <1>5 DEF Parts, TangBParts
<1>6. CASE op = "norm_e"
  BY <1>6 DEF Parts, NormEParts
<1>7. CASE op = "div_b"
  BY <1>7 DEF Parts, DivBParts
<1>8. CASE op = "hydro"
  BY <1>8, HydroShape
<1>. QED  BY <1>2, <1>3, <1>4, <1>5, <1>6, <1>7, <1>8 DEF Exchange

LEMMA PartsDiffer ==
  ASSUME NEW op \in Exchange, NEW X \in Axis,
         NEW j \in 1 .. Len(Parts(op, X)), NEW i \in 1 .. Len(Parts(op, X)[j]),
         NEW k \in 1 .. Len(Parts(op, X)), NEW h \in 1 .. Len(Parts(op, X)[k]),
         Parts(op, X)[j][i] = Parts(op, X)[k][h]
  PROVE  j = k /\ i = h
<1>1. Y(X) # Z(X)
  BY PlaneAxes
<1>2. CASE op = "jf"
  BY <1>1, <1>2 DEF Parts, JfParts
<1>3. CASE op = "rho"
  BY <1>3 DEF Parts, RhoParts
<1>4. CASE op = "tang_e"
  BY <1>1, <1>4 DEF Parts, TangEParts
<1>5. CASE op = "tang_b"
  BY <1>1, <1>5 DEF Parts, TangBParts
<1>6. CASE op = "norm_e"
  BY <1>6 DEF Parts, NormEParts
<1>7. CASE op = "div_b"
  BY <1>7 DEF Parts, DivBParts
<1>8. CASE op = "hydro"
  <2>1. /\ Len(Parts(op, X)) = 1 /\ Len(Parts(op, X)[1]) = 14
        /\ \A c \in 1 .. 14 : Parts(op, X)[1][c] = <<"hydro", c>>
    BY <1>8, HydroShape
  <2>2. j = 1 /\ k = 1 /\ i \in 1 .. 14 /\ h \in 1 .. 14
    <3>1. j = 1 /\ k = 1
      BY <2>1
    <3>2. i \in 1 .. Len(Parts(op, X)[1]) /\ h \in 1 .. Len(Parts(op, X)[1])
      BY <3>1
    <3>. QED  BY <2>1, <3>1, <3>2
  <2>3. Parts(op, X)[j][i] = <<"hydro", i>> /\ Parts(op, X)[k][h] = <<"hydro", h>>
    BY <2>1, <2>2
  <2>. QED  BY <2>2, <2>3
<1>. QED  BY <1>2, <1>3, <1>4, <1>5, <1>6, <1>7, <1>8 DEF Exchange

\* The components of a part have the same places in a plane.
LEMMA PartExtent ==
  ASSUME NEW op \in Exchange, NEW X \in Axis, NEW len \in Count,
         NEW j \in 1 .. Len(Parts(op, X)), NEW i \in 1 .. Len(Parts(op, X)[j]),
         NEW a \in Axis
  PROVE  /\ Extent(Parts(op, X)[j][i], a, len) \in Nat \ {0}
         /\ Extent(Parts(op, X)[j][i], a, len) = Extent(Parts(op, X)[j][1], a, len)
<1>1. len[a] \in Nat \ {0}
  BY DEF Count
<1>2. CASE op = "jf"
  BY <1>1, <1>2 DEF Parts, JfParts, Extent
<1>3. CASE op = "rho"
  BY <1>1, <1>3 DEF Parts, RhoParts, Extent
<1>4. CASE op = "tang_e"
  BY <1>1, <1>4 DEF Parts, TangEParts, Extent
<1>5. CASE op = "tang_b"
  BY <1>1, <1>5 DEF Parts, TangBParts, Extent
<1>6. CASE op = "norm_e"
  BY <1>1, <1>6 DEF Parts, NormEParts, Extent
<1>7. CASE op = "div_b"
  BY <1>1, <1>7 DEF Parts, DivBParts, Extent
<1>8. CASE op = "hydro"
  <2>1. /\ Len(Parts(op, X)) = 1 /\ Len(Parts(op, X)[1]) = 14
        /\ \A c \in 1 .. 14 : Parts(op, X)[1][c] = <<"hydro", c>>
    BY <1>8, HydroShape
  <2>2. j = 1 /\ i \in 1 .. 14
    <3>1. j = 1
      BY <2>1
    <3>2. i \in 1 .. Len(Parts(op, X)[1])
      BY <3>1
    <3>. QED  BY <2>1, <3>1, <3>2
  <2>3. Parts(op, X)[j][i] = <<"hydro", i>> /\ Parts(op, X)[j][1] = <<"hydro", 1>>
    <3>1. 1 \in 1 .. 14
      OBVIOUS
    <3>. QED  BY <2>1, <2>2, <3>1
  <2>. QED  BY <1>1, <2>3 DEF Extent
<1>. QED  BY <1>2, <1>3, <1>4, <1>5, <1>6, <1>7, <1>8 DEF Exchange

-----------------------------------------------------------------------------
LEMMA PartSizes ==
  ASSUME NEW op \in Exchange, NEW X \in Axis, NEW len \in Count,
         NEW j \in 1 .. Len(Parts(op, X))
  PROVE  PartSize(Parts(op, X)[j], X, len) \in Nat \ {0}
<1>1. Len(Parts(op, X)[j]) \in 1 .. 14
  BY PartsShape
<1>2. 1 \in 1 .. Len(Parts(op, X)[j])
  <2>1. \A m \in 1 .. 14 : 1 \in 1 .. m
    OBVIOUS
  <2>. QED  BY <1>1, <2>1
<1>3. PICK m, u, v : /\ m = Len(Parts(op, X)[j]) /\ u = Extent(Parts(op, X)[j][1], Y(X), len)
                     /\ v = Extent(Parts(op, X)[j][1], Z(X), len)
  OBVIOUS
<1>4. m \in Nat \ {0} /\ u \in Nat \ {0} /\ v \in Nat \ {0}
  BY <1>1, <1>2, <1>3, PartExtent, PlaneAxes
<1>5. m * u * v \in Nat \ {0}
  <2>1. m * u \in Nat \ {0}
    BY <1>4
  <2>. QED  BY <1>4, <2>1
<1>. QED  BY <1>3, <1>5 DEF PartSize

\* The parts fill the message.
LEMMA PartsFill ==
  ASSUME NEW op \in Exchange, NEW X \in Axis, NEW len \in Count
  PROVE  Size(op, X, len) =
           LET L == Len(Parts(op, X)) IN PartStart(op, X, len, L) + PartSize(Parts(op, X)[L], X, len)
<1>1. PICK y \in Nat \ {0}, z \in Nat \ {0}, x \in Nat \ {0} :
        y = len[Y(X)] /\ z = len[Z(X)] /\ x = len[X]
  BY PlaneAxes DEF Count
<1>2. Y(X) # X /\ Z(X) # X /\ Y(X) # Z(X)
  BY PlaneAxes
<1>3. CASE op = "jf"
  <2>1. Len(Parts(op, X)) = 2 /\ Parts(op, X)[1] = <<<<"jf", Y(X)>>>> /\ Parts(op, X)[2] = <<<<"jf", Z(X)>>>>
    BY <1>3 DEF Parts, JfParts
  <2>2. PartSize(Parts(op, X)[1], X, len) = y * (z + 1) /\ PartSize(Parts(op, X)[2], X, len) = (y + 1) * z
    BY <1>1, <1>2, <2>1 DEF PartSize, Extent
  <2>3. Size(op, X, len) = 1 + y * (z + 1) + z * (y + 1)
    BY <1>1, <1>3 DEF Size
  <2>4. PartStart(op, X, len, 2) = 1 + y * (z + 1)
    BY <1>3, <2>2 DEF PartStart, Header
  <2>. QED  BY <2>1, <2>2, <2>3, <2>4
<1>4. CASE op = "rho"
  <2>1. Len(Parts(op, X)) = 1 /\ Parts(op, X)[1] = <<<<"rhof", 0>>, <<"rhob", 0>>>>
    BY <1>4 DEF Parts, RhoParts
  <2>2. PartSize(Parts(op, X)[1], X, len) = 2 * (y + 1) * (z + 1)
    BY <1>1, <2>1 DEF PartSize, Extent
  <2>. QED  BY <1>1, <1>4, <2>1, <2>2 DEF PartStart, Size, Header
<1>5. CASE op = "tang_e"
  <2>1. /\ Len(Parts(op, X)) = 3 /\ Parts(op, X)[1] = <<<<"cb", X>>>>
        /\ Parts(op, X)[2] = <<<<"e", Y(X)>>, <<"tca", Y(X)>>>>
        /\ Parts(op, X)[3] = <<<<"e", Z(X)>>, <<"tca", Z(X)>>>>
    BY <1>5 DEF Parts, TangEParts
  <2>2. PartSize(Parts(op, X)[1], X, len) = y * z
    BY <1>1, <1>2, <2>1 DEF PartSize, Extent
  <2>3. PartSize(Parts(op, X)[2], X, len) = 2 * y * (z + 1)
    BY <1>1, <1>2, <2>1 DEF PartSize, Extent
  <2>4. PartSize(Parts(op, X)[3], X, len) = 2 * (y + 1) * z
    BY <1>1, <1>2, <2>1 DEF PartSize, Extent
  <2>5. Size(op, X, len) = 2 * y * (z + 1) + 2 * z * (y + 1) + y * z
    BY <1>1, <1>5 DEF Size
  <2>6. PartStart(op, X, len, 3) = y * z + 2 * y * (z + 1)
    BY <1>5, <2>2, <2>3 DEF PartStart, Header
  <2>. QED  BY <2>1, <2>4, <2>5, <2>6
<1>6. CASE op = "tang_b"
  <2>1. Len(Parts(op, X)) = 2 /\ Parts(op, X)[1] = <<<<"cb", Y(X)>>>> /\ Parts(op, X)[2] = <<<<"cb", Z(X)>>>>
    BY <1>6 DEF Parts, TangBParts
  <2>2. PartSize(Parts(op, X)[1], X, len) = (y + 1) * z /\ PartSize(Parts(op, X)[2], X, len) = y * (z + 1)
    BY <1>1, <1>2, <2>1 DEF PartSize, Extent
  <2>3. Size(op, X, len) = 1 + y * (z + 1) + z * (y + 1)
    BY <1>1, <1>6 DEF Size
  <2>4. PartStart(op, X, len, 2) = 1 + (y + 1) * z
    BY <1>6, <2>2 DEF PartStart, Header
  <2>. QED  BY <2>1, <2>2, <2>3, <2>4
<1>7. CASE op = "norm_e"
  <2>1. Len(Parts(op, X)) = 1 /\ Parts(op, X)[1] = <<<<"e", X>>>>
    BY <1>7 DEF Parts, NormEParts
  <2>2. PartSize(Parts(op, X)[1], X, len) = (y + 1) * (z + 1)
    BY <1>1, <1>2, <2>1 DEF PartSize, Extent
  <2>. QED  BY <1>1, <1>7, <2>1, <2>2 DEF PartStart, Size, Header
<1>8. CASE op = "div_b"
  <2>1. Len(Parts(op, X)) = 1 /\ Parts(op, X)[1] = <<<<"div_b_err", 0>>>>
    BY <1>8 DEF Parts, DivBParts
  <2>2. PartSize(Parts(op, X)[1], X, len) = y * z
    BY <1>1, <2>1 DEF PartSize, Extent
  <2>. QED  BY <1>1, <1>8, <2>1, <2>2 DEF PartStart, Size, Header
<1>9. CASE op = "hydro"
  <2>1. Len(Parts(op, X)) = 1 /\ Len(Parts(op, X)[1]) = 14 /\ Parts(op, X)[1][1] = <<"hydro", 1>>
    BY <1>9, HydroShape
  <2>2. PartSize(Parts(op, X)[1], X, len) = 14 * (y + 1) * (z + 1)
    BY <1>1, <2>1 DEF PartSize, Extent
  <2>. QED  BY <1>1, <1>9, <2>1, <2>2 DEF PartStart, Size, Header
<1>. QED  BY <1>3, <1>4, <1>5, <1>6, <1>7, <1>8, <1>9 DEF Exchange

\* The parts follow each other.
LEMMA PartsFollow ==
  ASSUME NEW op \in Exchange, NEW X \in Axis, NEW len \in Count
  PROVE  /\ Header(op) \in {0, 1} /\ Size(op, X, len) \in Nat /\ Size(op, X, len) > Header(op)
         /\ \A j \in 1 .. Len(Parts(op, X)) :
              /\ PartStart(op, X, len, j) \in Nat /\ PartStart(op, X, len, j) >= Header(op)
              /\ PartStart(op, X, len, j) + PartSize(Parts(op, X)[j], X, len) <= Size(op, X, len)
              /\ \A k \in 1 .. Len(Parts(op, X)) : j < k =>
                   PartStart(op, X, len, j) + PartSize(Parts(op, X)[j], X, len) <= PartStart(op, X, len, k)
         /\ \A v \in Header(op) .. Size(op, X, len) - 1 : \E j \in 1 .. Len(Parts(op, X)) :
              v - PartStart(op, X, len, j) \in 0 .. PartSize(Parts(op, X)[j], X, len) - 1
<1>1. PICK L \in {1, 2, 3}, h \in {0, 1} : L = Len(Parts(op, X)) /\ h = Header(op)
  BY PartsShape DEF Header
<1>2. PICK start, size, total :
        /\ start = [j \in 1 .. L |-> PartStart(op, X, len, j)]
        /\ size = [j \in 1 .. L |-> PartSize(Parts(op, X)[j], X, len)]
        /\ total = Size(op, X, len)
  OBVIOUS
<1>3. \A j \in 1 .. L : size[j] \in Nat \ {0}
  BY <1>1, <1>2, PartSizes
<1>4. /\ start[1] = h /\ (L > 1 => start[2] = h + size[1]) /\ (L > 2 => start[3] = h + size[1] + size[2])
      /\ total = start[L] + size[L]
  <2>1. total = start[L] + size[L]
    BY <1>1, <1>2, PartsFill
  <2>2. ASSUME NEW j \in 1 .. L
        PROVE  start[j] = h + (IF j > 1 THEN size[1] ELSE 0) + (IF j > 2 THEN size[2] ELSE 0)
    BY <1>1, <1>2 DEF PartStart
  <2>3. 1 \in 1 .. L /\ (L > 1 => 2 \in 1 .. L) /\ (L > 2 => 3 \in 1 .. L)
    OBVIOUS
  <2>. QED  BY <1>3, <2>1, <2>2, <2>3
<1>5. /\ total \in Nat /\ total > h
      /\ \A j \in 1 .. L : /\ start[j] \in Nat /\ start[j] >= h /\ start[j] + size[j] <= total
                           /\ \A k \in 1 .. L : j < k => start[j] + size[j] <= start[k]
  BY <1>3, <1>4
<1>6. \A v \in h .. total - 1 : \E j \in 1 .. L : v - start[j] \in 0 .. size[j] - 1
  BY <1>3, <1>4
<1>. QED  BY <1>1, <1>2, <1>5, <1>6

-----------------------------------------------------------------------------
(***************************************************************************)
(* The slots of a plane are those of the message, each taken once.         *)
(***************************************************************************)
Fast(X) == IF Y(X) < Z(X) THEN Y(X) ELSE Z(X)
Slow(X) == IF Y(X) < Z(X) THEN Z(X) ELSE Y(X)
PlaneSpot(X, p, y, z) == [a \in Axis |-> IF a = X THEN p ELSE IF a = Y(X) THEN y ELSE z]

LEMMA InPlane ==
  ASSUME NEW op \in Exchange, NEW X \in Axis, NEW len \in Count, NEW p, NEW loc
  PROVE  loc \in Plane(op, X, len, p) <=>
           \E j \in 1 .. Len(Parts(op, X)) : \E i \in 1 .. Len(Parts(op, X)[j]) :
             \E y \in 1 .. Extent(Parts(op, X)[j][i], Y(X), len),
                z \in 1 .. Extent(Parts(op, X)[j][i], Z(X), len) :
               loc = <<Parts(op, X)[j][i], PlaneSpot(X, p, y, z)>>
<1>1. /\ DOMAIN Parts(op, X) = 1 .. Len(Parts(op, X))
      /\ \A j \in 1 .. Len(Parts(op, X)) : DOMAIN Parts(op, X)[j] = 1 .. Len(Parts(op, X)[j])
  BY PartsShape
<1>2. \A comp : comp \in UNION {Range(part) : part \in Range(Parts(op, X))} <=>
        \E j \in 1 .. Len(Parts(op, X)) : \E i \in 1 .. Len(Parts(op, X)[j]) : comp = Parts(op, X)[j][i]
  <2>1. PICK parts : parts = Parts(op, X)
    OBVIOUS
  <2>2. \A comp : comp \in UNION {Range(part) : part \in Range(parts)} <=>
          \E j \in DOMAIN parts : \E i \in DOMAIN parts[j] : comp = parts[j][i]
    BY DEF Range
  <2>3. /\ DOMAIN parts = 1 .. Len(Parts(op, X))
        /\ \A j \in 1 .. Len(Parts(op, X)) :
             parts[j] = Parts(op, X)[j] /\ DOMAIN parts[j] = 1 .. Len(Parts(op, X)[j])
    BY <1>1, <2>1
  <2>4. ASSUME NEW comp
        PROVE  comp \in UNION {Range(part) : part \in Range(parts)} <=>
                 \E j \in 1 .. Len(Parts(op, X)) : \E i \in 1 .. Len(Parts(op, X)[j]) :
                   comp = Parts(op, X)[j][i]
    <3>1. ASSUME NEW j \in 1 .. Len(Parts(op, X))
          PROVE  (\E i \in DOMAIN parts[j] : comp = parts[j][i]) <=>
                   \E i \in 1 .. Len(Parts(op, X)[j]) : comp = Parts(op, X)[j][i]
      BY <2>3
    <3>2. (\E j \in DOMAIN parts : \E i \in DOMAIN parts[j] : comp = parts[j][i]) <=>
            \E j \in 1 .. Len(Parts(op, X)) :
              \E i \in 1 .. Len(Parts(op, X)[j]) : comp = Parts(op, X)[j][i]
      BY <2>3, <3>1
    <3>. QED  BY <2>2, <3>2
  <2>. QED  BY <2>1, <2>4
<1>3. loc \in Plane(op, X, len, p) <=>
        \E comp \in UNION {Range(part) : part \in Range(Parts(op, X))} :
          \E y \in 1 .. Extent(comp, Y(X), len), z \in 1 .. Extent(comp, Z(X), len) :
            loc = <<comp, PlaneSpot(X, p, y, z)>>
  BY DEF Plane, PlaneSpot
<1> DEFINE At(comp) == \E y \in 1 .. Extent(comp, Y(X), len), z \in 1 .. Extent(comp, Z(X), len) :
                         loc = <<comp, PlaneSpot(X, p, y, z)>>
<1>4. loc \in Plane(op, X, len, p) <=>
        \E comp \in UNION {Range(part) : part \in Range(Parts(op, X))} : At(comp)
  BY <1>3
<1> HIDE DEF At
<1>5. loc \in Plane(op, X, len, p) <=>
        \E j \in 1 .. Len(Parts(op, X)) : \E i \in 1 .. Len(Parts(op, X)[j]) : At(Parts(op, X)[j][i])
  BY <1>2, <1>4
<1>. QED  BY <1>5 DEF At

\* The values of part j, in the order of their slots.
LEMMA SlotIs ==
  ASSUME NEW op \in Exchange, NEW X \in Axis, NEW len \in Count, NEW p,
         NEW j \in 1 .. Len(Parts(op, X)), NEW i \in 1 .. Len(Parts(op, X)[j]),
         NEW y \in Nat \ {0}, NEW z \in Nat \ {0}
  PROVE  Slot(op, X, len, Parts(op, X)[j][i], PlaneSpot(X, p, y, z)) =
           PartStart(op, X, len, j) +
           Number(Len(Parts(op, X)[j]), Extent(Parts(op, X)[j][1], Fast(X), len), i,
                  PlaneSpot(X, p, y, z)[Fast(X)], PlaneSpot(X, p, y, z)[Slow(X)])
<1>1. /\ DOMAIN Parts(op, X) = 1 .. Len(Parts(op, X))
      /\ \A k \in 1 .. Len(Parts(op, X)) : DOMAIN Parts(op, X)[k] = 1 .. Len(Parts(op, X)[k])
  BY PartsShape
<1>2. PICK comp : comp = Parts(op, X)[j][i]
  OBVIOUS
<1>3. \A k \in DOMAIN Parts(op, X) : comp \in Range(Parts(op, X)[k]) <=> k = j
  <2>1. ASSUME NEW k \in 1 .. Len(Parts(op, X)), comp \in Range(Parts(op, X)[k]) PROVE k = j
    <3>1. PICK h \in 1 .. Len(Parts(op, X)[k]) : comp = Parts(op, X)[k][h]
      BY <1>1, <2>1 DEF Range
    <3>. QED  BY <1>2, <3>1, PartsDiffer
  <2>2. comp \in Range(Parts(op, X)[j])
    BY <1>1, <1>2 DEF Range
  <2>. QED  BY <1>1, <2>1, <2>2
<1>4. (CHOOSE k \in DOMAIN Parts(op, X) : comp \in Range(Parts(op, X)[k])) = j
  BY <1>1, <1>3
<1>5. (CHOOSE h \in DOMAIN Parts(op, X)[j] : Parts(op, X)[j][h] = comp) = i
  <2>1. ASSUME NEW h \in 1 .. Len(Parts(op, X)[j]), Parts(op, X)[j][i] = Parts(op, X)[j][h]
        PROVE  i = h
    BY <2>1, PartsDiffer
  <2>2. \A h \in DOMAIN Parts(op, X)[j] : Parts(op, X)[j][h] = comp <=> h = i
    BY <1>1, <1>2, <2>1
  <2>. QED  BY <1>1, <2>2
<1>6. Extent(comp, Fast(X), len) = Extent(Parts(op, X)[j][1], Fast(X), len)
  <2>1. Fast(X) \in Axis
    BY PlaneAxes DEF Fast
  <2>. QED  BY <1>2, <2>1, PartExtent
<1>7. PICK pos, w, F : /\ pos = PlaneSpot(X, p, y, z) /\ w = Len(Parts(op, X)[j])
                       /\ F = Extent(comp, Fast(X), len)
  OBVIOUS
<1>8. Slot(op, X, len, comp, pos) =
        PartStart(op, X, len, j) + w * ((pos[Slow(X)] - 1) * F + pos[Fast(X)] - 1) + i - 1
  BY <1>4, <1>5, <1>7 DEF Slot, SlotFor, Fast, Slow
<1>9. PICK u \in Nat, f \in Nat, s \in Nat :
        u = PartStart(op, X, len, j) /\ f = pos[Fast(X)] /\ s = pos[Slow(X)]
  <2>1. PartStart(op, X, len, j) \in Nat
    BY PartsFollow
  <2>2. /\ Fast(X) \in Axis /\ Slow(X) \in Axis /\ Fast(X) # X /\ Slow(X) # X
    BY PlaneAxes DEF Fast, Slow
  <2>3. pos[Fast(X)] \in {y, z} /\ pos[Slow(X)] \in {y, z}
    BY <1>7, <2>2 DEF PlaneSpot
  <2>. QED  BY <2>1, <2>3
<1>10. w \in Nat /\ F \in Nat
  <2>1. Fast(X) \in Axis
    BY PlaneAxes DEF Fast
  <2>2. Extent(Parts(op, X)[j][i], Fast(X), len) \in Nat \ {0}
    BY <2>1, PartExtent
  <2>3. Len(Parts(op, X)[j]) \in 1 .. 14
    BY PartsShape
  <2>. QED  BY <1>2, <1>7, <2>2, <2>3
<1>11. u + w * ((s - 1) * F + f - 1) + i - 1 = u + Number(w, F, i, f, s)
  <2>1. PICK m \in Int : m = w * ((s - 1) * F + f - 1)
    BY <1>10
  <2>2. u + m + i - 1 = u + (m + i - 1)
    OBVIOUS
  <2>. QED  BY <2>1, <2>2 DEF Number
<1>. QED  BY <1>2, <1>6, <1>7, <1>8, <1>9, <1>11

\* Part j of a message as a box of numbers, and the value of plane p there.
Depth(op, X, j) == Len(Parts(op, X)[j])
Cols(op, X, len, j) == Extent(Parts(op, X)[j][1], Fast(X), len)
Rows(op, X, len, j) == Extent(Parts(op, X)[j][1], Slow(X), len)
ValueAt(op, X, p, j, i, f, s) ==
  <<Parts(op, X)[j][i], PlaneSpot(X, p, IF Y(X) < Z(X) THEN f ELSE s, IF Y(X) < Z(X) THEN s ELSE f)>>

LEMMA PartBox ==
  ASSUME NEW op \in Exchange, NEW X \in Axis, NEW len \in Count,
         NEW j \in 1 .. Len(Parts(op, X))
  PROVE  /\ Depth(op, X, j) \in Nat \ {0}
         /\ Cols(op, X, len, j) \in Nat \ {0} /\ Rows(op, X, len, j) \in Nat \ {0}
         /\ PartSize(Parts(op, X)[j], X, len) =
              Depth(op, X, j) * (Cols(op, X, len, j) * Rows(op, X, len, j))
         /\ \A i \in 1 .. Depth(op, X, j) :
              IF Y(X) < Z(X)
                THEN /\ Extent(Parts(op, X)[j][i], Y(X), len) = Cols(op, X, len, j)
                     /\ Extent(Parts(op, X)[j][i], Z(X), len) = Rows(op, X, len, j)
                ELSE /\ Extent(Parts(op, X)[j][i], Y(X), len) = Rows(op, X, len, j)
                     /\ Extent(Parts(op, X)[j][i], Z(X), len) = Cols(op, X, len, j)
<1>1. PICK w \in Nat \ {0} : w = Len(Parts(op, X)[j]) /\ w \in 1 .. 14
  <2>1. Len(Parts(op, X)[j]) \in 1 .. 14
    BY PartsShape
  <2>2. \A m \in 1 .. 14 : m \in Nat \ {0}
    OBVIOUS
  <2>3. Len(Parts(op, X)[j]) \in Nat \ {0}
    BY <2>1, <2>2
  <2>. QED  BY <2>1, <2>3
<1>2. PICK F, S : /\ F = Extent(Parts(op, X)[j][1], Fast(X), len)
                  /\ S = Extent(Parts(op, X)[j][1], Slow(X), len)
  OBVIOUS
<1>3. /\ Fast(X) \in Axis /\ Slow(X) \in Axis /\ Y(X) \in Axis /\ Z(X) \in Axis
      /\ IF Y(X) < Z(X) THEN Fast(X) = Y(X) /\ Slow(X) = Z(X) ELSE Fast(X) = Z(X) /\ Slow(X) = Y(X)
  BY PlaneAxes DEF Fast, Slow
<1>4. F \in Nat \ {0} /\ S \in Nat \ {0}
  <2>1. 1 \in 1 .. w
    BY <1>1
  <2>2. 1 \in 1 .. Len(Parts(op, X)[j])
    BY <1>1, <2>1
  <2>. QED  BY <1>2, <1>3, <2>2, PartExtent
<1>5. PartSize(Parts(op, X)[j], X, len) = w * (F * S)
  <2>1. CASE Y(X) < Z(X)
    <3>1. PartSize(Parts(op, X)[j], X, len) = w * F * S
      BY <1>1, <1>2, <1>3, <2>1 DEF PartSize
    <3>. QED  BY <1>4, <3>1, ProductsAgree
  <2>2. CASE ~(Y(X) < Z(X))
    <3>1. PartSize(Parts(op, X)[j], X, len) = w * S * F
      BY <1>1, <1>2, <1>3, <2>2 DEF PartSize
    <3>. QED  BY <1>4, <3>1, ProductsAgree
  <2>. QED  BY <2>1, <2>2
<1>6. ASSUME NEW i \in 1 .. w
      PROVE  IF Y(X) < Z(X)
               THEN /\ Extent(Parts(op, X)[j][i], Y(X), len) = F
                    /\ Extent(Parts(op, X)[j][i], Z(X), len) = S
               ELSE /\ Extent(Parts(op, X)[j][i], Y(X), len) = S
                    /\ Extent(Parts(op, X)[j][i], Z(X), len) = F
  <2>1. i \in 1 .. Len(Parts(op, X)[j])
    BY <1>1
  <2>2. ASSUME NEW k \in 1 .. Len(Parts(op, X)[j]), NEW a \in Axis
        PROVE  Extent(Parts(op, X)[j][k], a, len) = Extent(Parts(op, X)[j][1], a, len)
    <3>1. /\ Extent(Parts(op, X)[j][k], a, len) \in Nat \ {0}
          /\ Extent(Parts(op, X)[j][k], a, len) = Extent(Parts(op, X)[j][1], a, len)
      BY PartExtent, SMTT(30)
    <3>. QED  BY <3>1
  <2>. QED  BY <1>2, <1>3, <2>1, <2>2
<1>. QED  BY <1>1, <1>2, <1>4, <1>5, <1>6 DEF Depth, Cols, Rows

LEMMA ValueSlot ==
  ASSUME NEW op \in Exchange, NEW X \in Axis, NEW len \in Count, NEW p,
         NEW j \in 1 .. Len(Parts(op, X)), NEW i \in 1 .. Depth(op, X, j),
         NEW f \in 1 .. Cols(op, X, len, j), NEW s \in 1 .. Rows(op, X, len, j)
  PROVE  LET loc == ValueAt(op, X, p, j, i, f, s)
         IN  /\ loc \in Plane(op, X, len, p)
             /\ Slot(op, X, len, loc[1], loc[2]) =
                  PartStart(op, X, len, j) + Number(Depth(op, X, j), Cols(op, X, len, j), i, f, s)
<1>. PICK loc : loc = ValueAt(op, X, p, j, i, f, s)
  OBVIOUS
<1>1. PICK y, z : IF Y(X) < Z(X) THEN y = f /\ z = s ELSE y = s /\ z = f
  <2>1. CASE Y(X) < Z(X)
    BY <2>1
  <2>2. CASE ~(Y(X) < Z(X))
    BY <2>2
  <2>. QED  BY <2>1, <2>2
<1>2. loc = <<Parts(op, X)[j][i], PlaneSpot(X, p, y, z)>>
  BY <1>1 DEF ValueAt
<1>3. y \in Nat \ {0} /\ z \in Nat \ {0} /\ i \in 1 .. Len(Parts(op, X)[j])
  BY <1>1, PartBox DEF Depth
<1>4. /\ y \in 1 .. Extent(Parts(op, X)[j][i], Y(X), len)
      /\ z \in 1 .. Extent(Parts(op, X)[j][i], Z(X), len)
  BY <1>1, PartBox
<1>5. loc \in Plane(op, X, len, p)
  <2>1. \E j_ \in 1 .. Len(Parts(op, X)) : \E i_ \in 1 .. Len(Parts(op, X)[j_]) :
          \E y_ \in 1 .. Extent(Parts(op, X)[j_][i_], Y(X), len),
             z_ \in 1 .. Extent(Parts(op, X)[j_][i_], Z(X), len) :
            loc = <<Parts(op, X)[j_][i_], PlaneSpot(X, p, y_, z_)>>
    BY <1>2, <1>3, <1>4
  <2>. QED  BY <2>1, InPlane
<1>6. PlaneSpot(X, p, y, z)[Fast(X)] = f /\ PlaneSpot(X, p, y, z)[Slow(X)] = s
  BY <1>1, PlaneAxes DEF PlaneSpot, Fast, Slow
<1>7. Slot(op, X, len, loc[1], loc[2]) =
        PartStart(op, X, len, j) + Number(Depth(op, X, j), Cols(op, X, len, j), i, f, s)
  BY <1>2, <1>3, <1>6, SlotIs DEF Depth, Cols
<1>. QED  BY <1>5, <1>7

LEMMA PlaneValue ==
  ASSUME NEW op \in Exchange, NEW X \in Axis, NEW len \in Count, NEW p,
         NEW loc \in Plane(op, X, len, p)
  PROVE  \E j \in 1 .. Len(Parts(op, X)) : \E i \in 1 .. Depth(op, X, j) :
           \E f \in 1 .. Cols(op, X, len, j), s \in 1 .. Rows(op, X, len, j) :
             loc = ValueAt(op, X, p, j, i, f, s)
<1>1. PICK j \in 1 .. Len(Parts(op, X)) : \E i \in 1 .. Len(Parts(op, X)[j]) :
        \E y \in 1 .. Extent(Parts(op, X)[j][i], Y(X), len),
           z \in 1 .. Extent(Parts(op, X)[j][i], Z(X), len) :
          loc = <<Parts(op, X)[j][i], PlaneSpot(X, p, y, z)>>
  BY InPlane
<1>2. PICK i \in 1 .. Depth(op, X, j) :
        \E y \in 1 .. Extent(Parts(op, X)[j][i], Y(X), len),
           z \in 1 .. Extent(Parts(op, X)[j][i], Z(X), len) :
          loc = <<Parts(op, X)[j][i], PlaneSpot(X, p, y, z)>>
  BY <1>1 DEF Depth
<1>3. CASE Y(X) < Z(X)
  BY <1>2, <1>3, PartBox DEF ValueAt
<1>4. CASE ~(Y(X) < Z(X))
  BY <1>2, <1>4, PartBox DEF ValueAt
<1>. QED  BY <1>3, <1>4

\* No two values of a plane have the same slot, and every slot is filled.
LEMMA PlaneSlots ==
  ASSUME NEW op \in Exchange, NEW X \in Axis, NEW len \in Count, NEW p
  PROVE  /\ \A loc \in Plane(op, X, len, p) :
              Slot(op, X, len, loc[1], loc[2]) \in Header(op) .. Size(op, X, len) - 1
         /\ \A loc, other \in Plane(op, X, len, p) :
              Slot(op, X, len, loc[1], loc[2]) = Slot(op, X, len, other[1], other[2]) => loc = other
         /\ \A v \in Header(op) .. Size(op, X, len) - 1 : \E loc \in Plane(op, X, len, p) :
              Slot(op, X, len, loc[1], loc[2]) = v
<1>1. PICK L \in Nat, h \in Nat, total \in Nat :
        L = Len(Parts(op, X)) /\ h = Header(op) /\ total = Size(op, X, len)
  <2>1. Len(Parts(op, X)) \in 1 .. 3
    BY PartsShape
  <2>2. \A m \in 1 .. 3 : m \in Nat
    OBVIOUS
  <2>3. Header(op) \in {0, 1} /\ Size(op, X, len) \in Nat
    BY PartsFollow
  <2>. QED  BY <2>1, <2>2, <2>3
<1>2. PICK start, size, D, C, R :
        /\ start = [j \in 1 .. L |-> PartStart(op, X, len, j)]
        /\ size = [j \in 1 .. L |-> PartSize(Parts(op, X)[j], X, len)]
        /\ D = [j \in 1 .. L |-> Depth(op, X, j)]
        /\ C = [j \in 1 .. L |-> Cols(op, X, len, j)] /\ R = [j \in 1 .. L |-> Rows(op, X, len, j)]
  OBVIOUS
<1>3. /\ \A j \in 1 .. L : start[j] \in Nat /\ size[j] \in Nat \ {0}
      /\ \A j \in 1 .. L : start[j] >= h /\ start[j] + size[j] <= total
      /\ \A j, k \in 1 .. L : j < k => start[j] + size[j] <= start[k]
      /\ \A v \in h .. total - 1 : \E j \in 1 .. L : v - start[j] \in 0 .. size[j] - 1
  BY <1>1, <1>2, PartsFollow, PartSizes
<1>4. \A j \in 1 .. L : /\ D[j] \in Nat \ {0} /\ C[j] \in Nat \ {0} /\ R[j] \in Nat \ {0}
                        /\ size[j] = D[j] * (C[j] * R[j])
  <2>1. ASSUME NEW j \in 1 .. Len(Parts(op, X))
        PROVE  /\ Depth(op, X, j) \in Nat \ {0}
               /\ Cols(op, X, len, j) \in Nat \ {0} /\ Rows(op, X, len, j) \in Nat \ {0}
               /\ PartSize(Parts(op, X)[j], X, len) =
                    Depth(op, X, j) * (Cols(op, X, len, j) * Rows(op, X, len, j))
    BY PartBox
  <2>2. ASSUME NEW j \in 1 .. L
        PROVE  /\ D[j] = Depth(op, X, j) /\ C[j] = Cols(op, X, len, j)
               /\ R[j] = Rows(op, X, len, j) /\ size[j] = PartSize(Parts(op, X)[j], X, len)
    BY <1>2
  <2>. QED  BY <1>1, <2>1, <2>2
<1> DEFINE slot(loc) == Slot(op, X, len, loc[1], loc[2])
           at_(j, i, f, s) == ValueAt(op, X, p, j, i, f, s)
<1>5. ASSUME NEW j \in 1 .. L, NEW i \in 1 .. D[j], NEW f \in 1 .. C[j], NEW s \in 1 .. R[j]
      PROVE  /\ at_(j, i, f, s) \in Plane(op, X, len, p)
             /\ slot(at_(j, i, f, s)) = start[j] + Number(D[j], C[j], i, f, s)
  <2>1. /\ j \in 1 .. Len(Parts(op, X)) /\ i \in 1 .. Depth(op, X, j)
        /\ f \in 1 .. Cols(op, X, len, j) /\ s \in 1 .. Rows(op, X, len, j)
    BY <1>1, <1>2
  <2>2. PICK loc : loc = ValueAt(op, X, p, j, i, f, s)
    OBVIOUS
  <2>3. /\ loc \in Plane(op, X, len, p)
        /\ Slot(op, X, len, loc[1], loc[2]) =
             PartStart(op, X, len, j) + Number(Depth(op, X, j), Cols(op, X, len, j), i, f, s)
    BY <2>1, <2>2, ValueSlot
  <2>. QED  BY <1>2, <2>2, <2>3
<1>6. ASSUME NEW loc \in Plane(op, X, len, p)
      PROVE  \E j \in 1 .. L : \E i \in 1 .. D[j], f \in 1 .. C[j], s \in 1 .. R[j] :
               loc = at_(j, i, f, s)
  BY <1>1, <1>2, PlaneValue
<1> HIDE DEF slot, at_
<1>7. ASSUME NEW j \in 1 .. L, NEW i \in 1 .. D[j], NEW f \in 1 .. C[j], NEW s \in 1 .. R[j]
      PROVE  Number(D[j], C[j], i, f, s) \in 0 .. size[j] - 1
  BY <1>4, NumberRange
<1>8. ASSUME NEW loc \in Plane(op, X, len, p) PROVE slot(loc) \in h .. total - 1
  <2>. PICK j \in 1 .. L : \E i \in 1 .. D[j], f \in 1 .. C[j], s \in 1 .. R[j] : loc = at_(j, i, f, s)
    BY <1>6
  <2>1. PICK i \in 1 .. D[j], f \in 1 .. C[j], s \in 1 .. R[j] : loc = at_(j, i, f, s)
    OBVIOUS
  <2>2. slot(loc) = start[j] + Number(D[j], C[j], i, f, s)
    BY <1>5, <2>1
  <2>3. Number(D[j], C[j], i, f, s) \in 0 .. size[j] - 1
    BY <1>7
  <2>. QED  BY <1>3, <2>2, <2>3
<1>9. ASSUME NEW loc \in Plane(op, X, len, p), NEW other \in Plane(op, X, len, p),
             slot(loc) = slot(other)
      PROVE  loc = other
  <2>. PICK j \in 1 .. L : \E i \in 1 .. D[j], f \in 1 .. C[j], s \in 1 .. R[j] : loc = at_(j, i, f, s)
    BY <1>6
  <2>1. PICK i \in 1 .. D[j], f \in 1 .. C[j], s \in 1 .. R[j] : loc = at_(j, i, f, s)
    OBVIOUS
  <2>. PICK k \in 1 .. L : \E m \in 1 .. D[k], g \in 1 .. C[k], t \in 1 .. R[k] : other = at_(k, m, g, t)
    BY <1>6
  <2>2. PICK m \in 1 .. D[k], g \in 1 .. C[k], t \in 1 .. R[k] : other = at_(k, m, g, t)
    OBVIOUS
  <2>3. PICK u \in 0 .. size[j] - 1, v \in 0 .. size[k] - 1 :
          /\ u = Number(D[j], C[j], i, f, s) /\ v = Number(D[k], C[k], m, g, t)
          /\ start[j] + u = start[k] + v
    BY <1>5, <1>7, <1>9, <2>1, <2>2
  <2>4. j = k
    BY <1>3, <2>3
  <2>5. Number(D[j], C[j], i, f, s) = Number(D[j], C[j], m, g, t)
    BY <1>3, <2>3, <2>4
  <2>6. i = m /\ f = g /\ s = t
    <3>1. s \in Nat \ {0} /\ t \in Nat \ {0}
      BY <1>4, <2>1, <2>2
    <3>2. D[j] \in Nat \ {0} /\ C[j] \in Nat \ {0} /\ m \in 1 .. D[j] /\ g \in 1 .. C[j]
      BY <1>4, <2>4
    <3>3. PICK w \in Nat \ {0}, F \in Nat \ {0} : w = D[j] /\ F = C[j]
      BY <3>2
    <3>4. i \in 1 .. w /\ f \in 1 .. F /\ m \in 1 .. w /\ g \in 1 .. F
      BY <3>2, <3>3
    <3>5. Number(w, F, i, f, s) = Number(w, F, m, g, t)
      BY <2>5, <3>3
    <3>. QED  BY <3>1, <3>4, <3>5, NumberUnique
  <2>. QED  BY <2>1, <2>2, <2>4, <2>6
<1>10. ASSUME NEW v \in h .. total - 1
       PROVE  \E loc \in Plane(op, X, len, p) : slot(loc) = v
  <2>1. PICK j \in 1 .. L : v - start[j] \in 0 .. size[j] - 1
    BY <1>3
  <2>2. PICK i \in 1 .. D[j], f \in 1 .. C[j], s \in 1 .. R[j] :
          v - start[j] = Number(D[j], C[j], i, f, s)
    <3>1. PICK w \in Nat \ {0} : w = D[j]
      BY <1>4
    <3>2. PICK F \in Nat \ {0} : F = C[j]
      BY <1>4
    <3>3. PICK S \in Nat \ {0} : S = R[j]
      BY <1>4
    <3>4. PICK x \in 0 .. w * (F * S) - 1 : x = v - start[j]
      BY <1>4, <2>1, <3>1, <3>2, <3>3
    <3>5. \E i \in 1 .. w, f \in 1 .. F, s \in 1 .. S : x = Number(w, F, i, f, s)
      BY NumberFound, Zenon
    <3>. QED  BY <3>1, <3>2, <3>3, <3>4, <3>5
  <2>3. start[j] + Number(D[j], C[j], i, f, s) = v
    BY <1>3, <2>2
  <2>. QED  BY <1>5, <2>3
<1>. QED  BY <1>1, <1>8, <1>9, <1>10 DEF slot

-----------------------------------------------------------------------------
(***************************************************************************)
(* The tables of slots.                                                    *)
(***************************************************************************)
LEMMA LengthsType == Lengths \subseteq Count
BY DEF Lengths

LEMMA Tables ==
  ASSUME NEW op \in Exchange, NEW d \in Face, NEW len \in Lengths, NEW x, x = <<op, d, len>>
  PROVE  /\ DOMAIN Packed[x] = Plane(op, AxisOf(d), len, SendPlane(op, d, len))
         /\ DOMAIN Unpacked[x] = Plane(op, AxisOf(d), len, RecvPlane(op, d, len))
         /\ \A loc \in DOMAIN Packed[x] : Packed[x][loc] = Slot(op, AxisOf(d), len, loc[1], loc[2])
         /\ \A loc \in DOMAIN Unpacked[x] :
              Unpacked[x][loc] = Slot(op, AxisOf(d), len, loc[1], loc[2])
         /\ DOMAIN Layout[x] = Range(Packed[x])
         /\ \A s \in Range(Packed[x]) :
              Layout[x][s] \in DOMAIN Packed[x] /\ Packed[x][Layout[x][s]] = s
<1>1. x[1] = op /\ x[2] = d /\ x[3] = len /\ x \in Messages
  BY DEF Messages
<1>2. Packed[x] = [loc \in Plane(op, AxisOf(d), len, SendPlane(op, d, len)) |->
                     Slot(op, AxisOf(d), len, loc[1], loc[2])]
  BY <1>1 DEF Packed
<1>3. Unpacked[x] = [loc \in Plane(op, AxisOf(d), len, RecvPlane(op, d, len)) |->
                       Slot(op, AxisOf(d), len, loc[1], loc[2])]
  BY <1>1 DEF Unpacked
<1>4. Layout[x] = [s \in Range(Packed[x]) |-> CHOOSE loc \in DOMAIN Packed[x] : Packed[x][loc] = s]
  BY <1>1 DEF Layout
<1>5. /\ DOMAIN Packed[x] = Plane(op, AxisOf(d), len, SendPlane(op, d, len))
      /\ \A loc \in DOMAIN Packed[x] : Packed[x][loc] = Slot(op, AxisOf(d), len, loc[1], loc[2])
  BY <1>2
<1>6. /\ DOMAIN Unpacked[x] = Plane(op, AxisOf(d), len, RecvPlane(op, d, len))
      /\ \A loc \in DOMAIN Unpacked[x] : Unpacked[x][loc] = Slot(op, AxisOf(d), len, loc[1], loc[2])
  BY <1>3
<1>7. /\ DOMAIN Layout[x] = Range(Packed[x])
      /\ \A s \in Range(Packed[x]) :
           Layout[x][s] \in DOMAIN Packed[x] /\ Packed[x][Layout[x][s]] = s
  BY <1>4 DEF Range
<1>. QED  BY <1>5, <1>6, <1>7

LEMMA TableIs ==
  ASSUME NEW x \in Messages
  PROVE  Packed[x] = [loc \in DOMAIN Packed[x] |-> Packed[x][loc]]
BY DEF Packed

\* The message for a port has a slot for every value of its plane and no other.
LEMMA MessageSlots ==
  ASSUME NEW op \in Exchange, NEW d \in Face, NEW len \in Lengths,
         NEW x, x = <<op, d, len>>
  PROVE  /\ DOMAIN Layout[x] = Header(op) .. Size(op, AxisOf(d), len) - 1
         /\ \A loc \in DOMAIN Packed[x] :
              Packed[x][loc] \in DOMAIN Layout[x] /\ Layout[x][Packed[x][loc]] = loc
         /\ Cardinality(DOMAIN Packed[x]) = Size(op, AxisOf(d), len) - Header(op)
<1>0. PICK packed, layout, slots : /\ packed = Packed[x] /\ layout = Layout[x]
                                   /\ slots = Header(op) .. Size(op, AxisOf(d), len) - 1
  OBVIOUS
<1>1. AxisOf(d) \in Axis /\ len \in Count
  BY Faces, LengthsType
<1>2. PICK X, p : X \in Axis /\ X = AxisOf(d) /\ p = SendPlane(op, d, len)
  BY <1>1
<1>3. /\ DOMAIN packed = Plane(op, X, len, p) /\ DOMAIN layout = Range(packed)
      /\ \A loc \in DOMAIN packed : packed[loc] = Slot(op, X, len, loc[1], loc[2])
      /\ \A s \in Range(packed) : layout[s] \in DOMAIN packed /\ packed[layout[s]] = s
  <2>1. /\ DOMAIN Packed[x] = Plane(op, AxisOf(d), len, SendPlane(op, d, len))
        /\ \A loc \in DOMAIN Packed[x] : Packed[x][loc] = Slot(op, AxisOf(d), len, loc[1], loc[2])
        /\ DOMAIN Layout[x] = Range(Packed[x])
    BY Tables
  <2>2. \A s \in Range(Packed[x]) :
          Layout[x][s] \in DOMAIN Packed[x] /\ Packed[x][Layout[x][s]] = s
    BY Tables
  <2>. QED  BY <1>0, <1>2, <2>1, <2>2
<1>4. /\ \A loc \in Plane(op, X, len, p) : Slot(op, X, len, loc[1], loc[2]) \in slots
      /\ \A loc, other \in Plane(op, X, len, p) :
           Slot(op, X, len, loc[1], loc[2]) = Slot(op, X, len, other[1], other[2]) => loc = other
      /\ \A v \in slots : \E loc \in Plane(op, X, len, p) : Slot(op, X, len, loc[1], loc[2]) = v
  BY <1>0, <1>1, <1>2, PlaneSlots
<1>5. /\ DOMAIN packed = Plane(op, X, len, p)
      /\ \A loc \in DOMAIN packed : packed[loc] \in slots
      /\ \A loc, other \in DOMAIN packed : packed[loc] = packed[other] => loc = other
      /\ \A v \in slots : \E loc \in DOMAIN packed : packed[loc] = v
  BY <1>3, <1>4
<1>6. Range(packed) = slots
  BY <1>5 DEF Range
<1>7. \A loc \in DOMAIN packed : layout[packed[loc]] = loc
  <2>1. ASSUME NEW loc \in DOMAIN packed PROVE layout[packed[loc]] = loc
    <3>1. packed[loc] \in Range(packed)
      BY DEF Range
    <3>2. layout[packed[loc]] \in DOMAIN packed /\ packed[layout[packed[loc]]] = packed[loc]
      BY <1>3, <3>1
    <3>. QED  BY <1>5, <3>2
  <2>. QED  BY <2>1
<1>8. packed \in Bijection(DOMAIN packed, slots)
  <2>1. packed \in [DOMAIN packed -> slots]
    <3>1. packed = [loc \in DOMAIN packed |-> packed[loc]]
      <4>1. x \in Messages
        BY DEF Messages
      <4>. QED  BY <1>0, <4>1, TableIs
    <3>. QED  BY <1>5, <3>1
  <2>. QED  BY <1>5, <2>1 DEF Bijection, Injection, Surjection, IsInjective
<1>9. PICK h \in Int, top \in Int :
        /\ h = Header(op) /\ top = Size(op, AxisOf(d), len) - 1 /\ h <= top
        /\ Size(op, AxisOf(d), len) = top + 1
  <2>1. Header(op) \in {0, 1} /\ Size(op, AxisOf(d), len) \in Nat /\ Size(op, AxisOf(d), len) > Header(op)
    BY <1>1, PartsFollow
  <2>. QED  BY <2>1
<1>10. IsFiniteSet(slots) /\ Cardinality(slots) = top - h + 1
  BY <1>0, <1>9, FS_Interval
<1>11. Cardinality(DOMAIN packed) = top - h + 1
  <2>1. ExistsBijection(DOMAIN packed, slots)
    BY <1>8 DEF ExistsBijection
  <2>2. ExistsBijection(slots, DOMAIN packed)
    BY <2>1, Fun_ExistsBijSymmetric
  <2>. QED  BY <1>10, <2>2, FS_Bijection
<1>12. DOMAIN layout = slots
  BY <1>3, <1>6
<1>13. \A loc \in DOMAIN packed : packed[loc] \in DOMAIN layout /\ layout[packed[loc]] = loc
  BY <1>5, <1>7, <1>12
<1>14. Cardinality(DOMAIN packed) = Size(op, AxisOf(d), len) - Header(op)
  BY <1>9, <1>11
<1>. QED  BY <1>0, <1>12, <1>13, <1>14

\* It fits the buffers, to the last float for rho in a domain one cell across.
LEMMA MessageSize ==
  ASSUME NEW op \in Exchange, NEW X \in Axis, NEW len \in Count
  PROVE  Size(op, X, len) <= Capacity(op, X, len)
<1>1. PICK y \in Nat \ {0}, z \in Nat \ {0} : y = len[Y(X)] /\ z = len[Z(X)]
  BY PlaneAxes DEF Count
<1>2. PICK area \in Nat \ {0} : area = y * z
  OBVIOUS
<1>3. /\ y * (z + 1) = area + y /\ z * (y + 1) = area + z
      /\ (y + 1) * (z + 1) = area + y + z + 1
      /\ 2 * y * (z + 1) = 2 * area + 2 * y /\ 2 * z * (y + 1) = 2 * area + 2 * z
      /\ 2 * (y + 1) * (z + 1) = 2 * area + 2 * y + 2 * z + 2
  BY <1>2
<1>4. Allocated(X, len) = 5 * area + 2 * y + 2 * z
  BY <1>1, <1>2, <1>3 DEF Allocated
<1>5. CASE op \in {"jf", "tang_b"}
  <2>1. Size(op, X, len) = 1 + (area + y) + (area + z)
    BY <1>1, <1>3, <1>5 DEF Size
  <2>. QED  BY <1>4, <1>5, <2>1 DEF Capacity, OnHost
<1>6. CASE op = "rho"
  BY <1>1, <1>3, <1>4, <1>6 DEF Size, Capacity, OnHost
<1>7. CASE op = "norm_e"
  <2>1. Size(op, X, len) = 1 + (area + y + z + 1)
    BY <1>1, <1>3, <1>7 DEF Size
  <2>. QED  BY <1>4, <1>7, <2>1 DEF Capacity, OnHost
<1>8. CASE op = "div_b"
  <2>1. Size(op, X, len) = 1 + area
    BY <1>1, <1>2, <1>8 DEF Size
  <2>. QED  BY <1>4, <1>8, <2>1 DEF Capacity, OnHost
<1>9. CASE op = "tang_e"
  <2>1. Size(op, X, len) = Allocated(X, len) /\ Capacity(op, X, len) = Allocated(X, len)
    BY <1>9 DEF Size, Capacity, OnHost, Allocated
  <2>. QED  BY <1>4, <2>1
<1>10. CASE op = "hydro"
  BY PartsFollow, <1>10 DEF Capacity, OnHost
<1>. QED  BY <1>5, <1>6, <1>7, <1>8, <1>9, <1>10 DEF Exchange
-----------------------------------------------------------------------------
(***************************************************************************)
(* The copies of a shared value.  Places are counted along an axis; the    *)
(* last of a domain is the first of the next one, round a periodic box.    *)
(***************************************************************************)
\* The plane a neighbour sends lies in the box where my ghosts lie, round a
\* periodic box.
LEMMA NextPlace ==
  ASSUME NEW g \in Nat \ {0}, NEW m \in Nat \ {0}, NEW i \in 0 .. g - 1
  PROVE  /\ (i - 1) % g \in 0 .. g - 1 /\ (i + 1) % g \in 0 .. g - 1
         /\ (((i - 1) % g) * m + m - 1) % (g * m) = (i * m + 0 - 1) % (g * m)
         /\ (((i + 1) % g) * m + 1 - 1) % (g * m) = (i * m + (m + 1) - 1) % (g * m)
         /\ i # 0 => ((i - 1) % g) * m + m - 1 = i * m + 0 - 1
         /\ i # g - 1 => ((i + 1) % g) * m + 1 - 1 = i * m + (m + 1) - 1
<1>1. /\ (i + 1) % g = IF i = g - 1 THEN 0 ELSE i + 1
      /\ (i - 1) % g = IF i = 0 THEN g - 1 ELSE i - 1
  BY Ring
<1>2. PICK all \in Nat \ {0} : all = g * m
  OBVIOUS
<1>3. PICK im \in Nat : im = i * m
  OBVIOUS
<1>4. (i + 1) * m = im + m /\ (i - 1) * m = im - m /\ (g - 1) * m = all - m
  BY <1>2, <1>3
<1>5. /\ i # 0 => ((i - 1) % g) * m + m - 1 = i * m + 0 - 1
      /\ i # g - 1 => ((i + 1) % g) * m + 1 - 1 = i * m + (m + 1) - 1
  BY <1>1, <1>3, <1>4
<1>6. (((i - 1) % g) * m + m - 1) % all = (i * m + 0 - 1) % all
  <2>1. CASE i # 0
    BY <1>5, <2>1
  <2>2. CASE i = 0
    <3>1. ((i - 1) % g) * m + m - 1 = all - 1
      BY <1>1, <1>2, <1>4, <2>2
    <3>2. i * m + 0 - 1 = 0 - 1
      BY <2>2
    <3>3. (0 - 1) % all = all - 1 /\ (all - 1) % all = all - 1
      <4>1. all - 1 \in 0 .. all - 1 /\ 0 \in 0 .. all - 1
        BY <1>2
      <4>. QED  BY <1>2, <4>1, Ring
    <3>. QED  BY <3>1, <3>2, <3>3
  <2>. QED  BY <2>1, <2>2
<1>7. (((i + 1) % g) * m + 1 - 1) % all = (i * m + (m + 1) - 1) % all
  <2>1. CASE i # g - 1
    BY <1>5, <2>1
  <2>2. CASE i = g - 1
    <3>1. ((i + 1) % g) * m + 1 - 1 = 0
      BY <1>1, <2>2
    <3>2. i * m + (m + 1) - 1 = all
      BY <1>2, <1>4, <2>2
    <3>3. 0 % all = 0 /\ all % all = 0
      <4>1. all - 1 \in 0 .. all - 1 /\ 0 \in 0 .. all - 1 /\ (all - 1) + 1 = all
        BY <1>2
      <4>. QED  BY <1>2, <4>1, Ring
    <3>. QED  BY <3>1, <3>2, <3>3
  <2>. QED  BY <2>1, <2>2
<1>8. (i - 1) % g \in 0 .. g - 1 /\ (i + 1) % g \in 0 .. g - 1
  BY <1>1
<1>. QED  BY <1>2, <1>5, <1>6, <1>7, <1>8

LEMMA PlaneType ==
  ASSUME NEW op \in Exchange, NEW X \in Axis, NEW len \in Count, NEW p \in Int,
         NEW loc \in Plane(op, X, len, p)
  PROVE  loc = <<loc[1], loc[2]>> /\ loc[2] \in [Axis -> Int]
<1>1. PICK j \in 1 .. Len(Parts(op, X)) : \E i \in 1 .. Len(Parts(op, X)[j]) :
        \E y \in 1 .. Extent(Parts(op, X)[j][i], Y(X), len),
           z \in 1 .. Extent(Parts(op, X)[j][i], Z(X), len) :
          loc = <<Parts(op, X)[j][i], PlaneSpot(X, p, y, z)>>
  BY InPlane
<1>2. PICK i \in 1 .. Len(Parts(op, X)[j]) :
        \E y \in 1 .. Extent(Parts(op, X)[j][i], Y(X), len),
           z \in 1 .. Extent(Parts(op, X)[j][i], Z(X), len) :
          loc = <<Parts(op, X)[j][i], PlaneSpot(X, p, y, z)>>
  BY <1>1
<1>3. PICK y \in Int, z \in Int : loc = <<Parts(op, X)[j][i], PlaneSpot(X, p, y, z)>>
  BY <1>2
<1>4. PlaneSpot(X, p, y, z) \in [Axis -> Int]
  BY DEF PlaneSpot
<1>. QED  BY <1>3, <1>4

Index(r) == RankToIndex(r, deck.gp)

\* The digits of a number are determined.
LEMMA DigitsEqual ==
  ASSUME NEW m \in Nat \ {0}, NEW k \in Nat, NEW l \in Nat, NEW c \in 0 .. m - 1, NEW e \in 0 .. m - 1,
         c + m * k = e + m * l
  PROVE  k = l /\ c = e
<1>1. (c + m * k) \div m = k /\ (e + m * l) \div m = l
  BY Digit
<1>2. k = l
  BY <1>1
<1>3. PICK z \in Nat : z = m * k /\ z = m * l
  BY <1>2
<1>. QED  BY <1>2, <1>3

\* Place p of domain i, where the domains have m cells each.
Position(i, m, p) == i * m + p - 1
Round(all, i, m, p) == Position(i, m, p) % all

\* Two places of one value: the same one, or the last of a domain and the first
\* of the next.
RoundMet(g, m, i, p, j, v) ==
  \/ j = i /\ v = p
  \/ p = 1 /\ v = m + 1 /\ j = (i - 1) % g
  \/ p = m + 1 /\ v = 1 /\ j = (i + 1) % g
LineMet(m, i, p, j, v) ==
  \/ j = i /\ v = p
  \/ p = 1 /\ v = m + 1 /\ j = i - 1
  \/ p = m + 1 /\ v = 1 /\ j = i + 1

LEMMA RoundMeet ==
  ASSUME NEW g \in Nat \ {0}, NEW m \in Nat \ {0}, NEW all \in Nat \ {0}, all = g * m,
         NEW i \in 0 .. g - 1, NEW j \in 0 .. g - 1,
         NEW p \in 1 .. m + 1, NEW v \in 1 .. m + 1
  PROVE  Round(all, j, m, v) = Round(all, i, m, p) <=> RoundMet(g, m, i, p, j, v)
<1>1. all = m * g
  OBVIOUS
<1>2. ASSUME NEW k \in 0 .. g - 1, NEW c \in 0 .. m - 1 PROVE (c + m * k) % all = c + m * k
  <2>1. c + m * k \in 0 .. m * g - 1
    BY <1>2, ProductBound
  <2>. QED  BY <1>1, <2>1, Ring
<1>3. ASSUME NEW h \in 0 .. g - 1, NEW s \in 1 .. m + 1
      PROVE  \E k \in 0 .. g - 1, c \in 0 .. m - 1 :
               /\ Round(all, h, m, s) = c + m * k
               /\ c = IF s = m + 1 THEN 0 ELSE s - 1
               /\ k = IF s = m + 1 THEN (h + 1) % g ELSE h
  <2>1. CASE s = m + 1
    <3>1. /\ (h + 1) % g \in 0 .. g - 1
          /\ (((h + 1) % g) * m + 1 - 1) % all = (h * m + (m + 1) - 1) % all
      BY NextPlace, Zenon
    <3>2. PICK k \in 0 .. g - 1 : k = (h + 1) % g
      BY <3>1
    <3>3. k * m + 1 - 1 = 0 + m * k /\ 0 \in 0 .. m - 1
      OBVIOUS
    <3>4. (h * m + s - 1) % all = 0 + m * k
      BY <1>2, <2>1, <3>1, <3>2, <3>3
    <3>. QED  BY <2>1, <3>2, <3>3, <3>4 DEF Position, Round
  <2>2. CASE s # m + 1
    <3>1. s - 1 \in 0 .. m - 1 /\ h * m + s - 1 = (s - 1) + m * h
      BY <2>2
    <3>2. ((s - 1) + m * h) % all = (s - 1) + m * h
      BY <1>2, <3>1
    <3>. QED  BY <2>2, <3>1, <3>2 DEF Position, Round
  <2>. QED  BY <2>1, <2>2
<1>4. PICK k \in 0 .. g - 1, c \in 0 .. m - 1 :
        /\ Round(all, i, m, p) = c + m * k
        /\ c = IF p = m + 1 THEN 0 ELSE p - 1
        /\ k = IF p = m + 1 THEN (i + 1) % g ELSE i
  BY <1>3, Zenon
<1>5. PICK l \in 0 .. g - 1, e \in 0 .. m - 1 :
        /\ Round(all, j, m, v) = e + m * l
        /\ e = IF v = m + 1 THEN 0 ELSE v - 1
        /\ l = IF v = m + 1 THEN (j + 1) % g ELSE j
  BY <1>3, Zenon
<1>6. c + m * k = e + m * l <=> k = l /\ c = e
  BY DigitsEqual
<1>7. /\ (i + 1) % g = IF i = g - 1 THEN 0 ELSE i + 1
      /\ (i - 1) % g = IF i = 0 THEN g - 1 ELSE i - 1
      /\ (j + 1) % g = IF j = g - 1 THEN 0 ELSE j + 1
  BY Ring
<1>8. k = l /\ c = e <=>
        \/ j = i /\ v = p
        \/ p = 1 /\ v = m + 1 /\ j = (i - 1) % g
        \/ p = m + 1 /\ v = 1 /\ j = (i + 1) % g
  BY <1>4, <1>5, <1>7
<1>. QED  BY <1>4, <1>5, <1>6, <1>8 DEF RoundMet

\* The same between the walls of a box.
LEMMA LineMeet ==
  ASSUME NEW m \in Nat \ {0}, NEW i \in Nat, NEW j \in Nat,
         NEW p \in 1 .. m + 1, NEW v \in 1 .. m + 1
  PROVE  Position(j, m, v) = Position(i, m, p) <=> LineMet(m, i, p, j, v)
<1>1. PICK k \in Nat, c \in 0 .. m - 1 :
        /\ Position(i, m, p) = c + m * k
        /\ IF p = m + 1 THEN c = 0 /\ k = i + 1 ELSE c = p - 1 /\ k = i
  <2>1. i * m + m = 0 + m * (i + 1) /\ i + 1 \in Nat /\ 0 \in 0 .. m - 1
    OBVIOUS
  <2>2. p # m + 1 => i * m + p - 1 = (p - 1) + m * i /\ p - 1 \in 0 .. m - 1
    OBVIOUS
  <2>3. p = m + 1 => i * m + p - 1 = i * m + m
    OBVIOUS
  <2>. QED  BY <2>1, <2>2, <2>3 DEF Position
<1>2. PICK l \in Nat, e \in 0 .. m - 1 :
        /\ Position(j, m, v) = e + m * l
        /\ IF v = m + 1 THEN e = 0 /\ l = j + 1 ELSE e = v - 1 /\ l = j
  <2>1. j * m + m = 0 + m * (j + 1) /\ j + 1 \in Nat /\ 0 \in 0 .. m - 1
    OBVIOUS
  <2>2. v # m + 1 => j * m + v - 1 = (v - 1) + m * j /\ v - 1 \in 0 .. m - 1
    OBVIOUS
  <2>3. v = m + 1 => j * m + v - 1 = j * m + m
    OBVIOUS
  <2>. QED  BY <2>1, <2>2, <2>3 DEF Position
<1>3. c + m * k = e + m * l <=> k = l /\ c = e
  BY DigitsEqual
<1>4. k = l /\ c = e <=>
        \/ j = i /\ v = p
        \/ p = 1 /\ v = m + 1 /\ j = i - 1
        \/ p = m + 1 /\ v = 1 /\ j = i + 1
  BY <1>1, <1>2
<1>. QED  BY <1>1, <1>2, <1>3, <1>4 DEF LineMet

\* The plane at a face, the values in it that another rank has too, and the axes
\* along which a value is shared.
Edge(d) == IF IsLow(d) THEN 1 ELSE n[AxisOf(d)] + 1
Shares(r, loc, d) ==
  /\ Linked(r, d) /\ loc[2][AxisOf(d)] = Edge(d)
  /\ Extent(loc[1], AxisOf(d), n) = n[AxisOf(d)] + 1
Shared(r, loc) == {a \in Axis : \E d \in Face : AxisOf(d) = a /\ Shares(r, loc, d)}
IsPlace(loc) ==
  /\ loc = <<loc[1], loc[2]>> /\ loc[2] \in [Axis -> Int]
  /\ \A a \in Axis : /\ Extent(loc[1], a, n) \in {n[a], n[a] + 1}
                     /\ loc[2][a] \in 1 .. Extent(loc[1], a, n)

\* The domains and cells of an axis, as plain numbers.
LEMMA AxisNumbers ==
  ASSUME deck \in Decks, Good, NEW a \in Axis, NEW r \in Rank
  PROVE  /\ deck.gp[a] \in Nat \ {0} /\ n[a] \in Nat \ {0} /\ deck.gn[a] \in Nat \ {0}
         /\ deck.gn[a] = deck.gp[a] * n[a]
         /\ Index(r)[a] \in 0 .. deck.gp[a] - 1
<1>1. /\ deck.gp \in Count /\ deck.gn \in Count /\ n \in Count
      /\ ~BadDecomposition(deck.gp) /\ ~BadResolution(deck.gn, deck.gp)
  BY DeckType, CellsType DEF Good
<1>2. deck.gp[a] \in Nat \ {0} /\ deck.gn[a] \in Nat \ {0} /\ n[a] \in Nat \ {0}
  BY <1>1 DEF Count
<1>3. deck.gn[a] % deck.gp[a] = 0 /\ n[a] = deck.gn[a] \div deck.gp[a]
  BY <1>1 DEF BadResolution, n, LocalCells
<1>4. deck.gn[a] = deck.gp[a] * n[a]
  <2>1. PICK x \in Nat, w \in Nat \ {0} : x = deck.gn[a] /\ w = deck.gp[a]
    BY <1>2
  <2>2. x = w * (x \div w) + (x % w) /\ x \div w \in Nat
    BY <2>1, Division
  <2>. QED  BY <1>2, <1>3, <2>1, <2>2
<1>5. Index(r)[a] \in 0 .. deck.gp[a] - 1
  BY <1>1, IndexOfRank DEF Index, IsIndex
<1>. QED  BY <1>2, <1>4, <1>5

\* Behind a face is the next rank, unless it is the end of a box with walls that
\* has more than one cell along the axis.
LEMMA LinkedIs ==
  ASSUME deck \in Decks, Good, NEW r \in Rank, NEW d \in Face, NEW X, X = AxisOf(d)
  PROVE  /\ X \in Axis
         /\ Linked(r, d) <=> \/ deck.box[X] = "periodic" \/ deck.gn[X] = 1
                             \/ IF IsLow(d) THEN Index(r)[X] # 0 ELSE Index(r)[X] # deck.gp[X] - 1
         /\ Linked(r, d) => /\ Behind(r, d) \in Rank
                            /\ Index(Behind(r, d)) =
                                 [Index(r) EXCEPT ![X] = (@ + Direction(d)) % deck.gp[X]]
         /\ ~Linked(r, d) => Behind(r, d) = WallOfBox(deck.box[X])
<1>1. deck.gp \in Count /\ deck.gn \in Count /\ ~BadDecomposition(deck.gp) /\ X \in Axis
  BY DeckType, Faces DEF Good
<1>2. WallOfBox(deck.box[X]) \notin Rank
  BY WorldAssumption DEF WallOfBox, AntiSymmetric, AbsorbFields, Rank
<1>3. /\ Adjacent(r, d, deck.gp) \in Rank
      /\ Index(Adjacent(r, d, deck.gp)) =
           [Index(r) EXCEPT ![X] = (@ + Direction(d)) % deck.gp[X]]
  BY <1>1, AdjacentIndex DEF Index
<1>4. Behind(r, d) = IF deck.box[X] # "periodic" /\ AtEnd(r, d, deck.gn, deck.gp)
                       THEN WallOfBox(deck.box[X]) ELSE Adjacent(r, d, deck.gp)
  BY DEF Behind, BC
<1>5. deck.gn[X] > 1 <=> deck.gn[X] # 1
  <2>1. deck.gn[X] \in Nat \ {0}
    BY <1>1 DEF Count
  <2>. QED  BY <2>1
<1>6. AtEnd(r, d, deck.gn, deck.gp) <=>
        /\ IF IsLow(d) THEN Index(r)[X] = 0 ELSE Index(r)[X] = deck.gp[X] - 1
        /\ deck.gn[X] # 1
  BY <1>5 DEF AtEnd, Index
<1>. QED  BY <1>1, <1>2, <1>3, <1>4, <1>6 DEF Linked

\* The two faces across an axis.
LEMMA AxisFaces ==
  ASSUME NEW a \in Axis
  PROVE  \E low \in Face, high \in Face :
           /\ AxisOf(low) = a /\ AxisOf(high) = a /\ IsLow(low) /\ ~IsLow(high)
           /\ Opposite(low) = high /\ Opposite(high) = low
           /\ \A d \in Face : AxisOf(d) = a => d = low \/ d = high
<1>1. a \in Face /\ a + 3 \in Face
  BY DEF Axis, Face
<1>2. AxisOf(a) = a /\ AxisOf(a + 3) = a /\ IsLow(a) /\ ~IsLow(a + 3) /\ Opposite(a) = a + 3 /\ Opposite(a + 3) = a
  BY Axes DEF AxisOf, IsLow, Opposite
<1>3. ASSUME NEW d \in Face, AxisOf(d) = a PROVE d = a \/ d = a + 3
  <2>1. d \in {0, 1, 2, 3, 4, 5}
    BY DEF Face
  <2>. QED  BY <1>3, <2>1 DEF AxisOf
<1>. QED  BY <1>1, <1>2, <1>3

\* The copies of a value along an axis: itself, and across a face that shares it
\* the one on the edge there.
LEMMA AlikeIs ==
  ASSUME deck \in Decks, Good, NEW r \in Rank, NEW loc, IsPlace(loc), NEW a \in Axis,
         NEW here, here = <<Index(r)[a], loc[2][a]>>
  PROVE  /\ a \notin Shared(r, loc) => Alike(r, loc, a) = {here}
         /\ \A d \in Face : AxisOf(d) = a /\ Shares(r, loc, d) =>
              /\ Alike(r, loc, a) = {here, <<Index(Behind(r, d))[a], Edge(Opposite(d))>>}
              /\ here[2] # Edge(Opposite(d))
<1>1. PICK g \in Nat \ {0}, m \in Nat \ {0}, all \in Nat \ {0}, i \in Nat :
        i \in 0 .. g - 1 /\ g = deck.gp[a] /\ m = n[a] /\ all = deck.gn[a] /\ all = g * m /\ i = Index(r)[a]
  BY AxisNumbers
<1>2. PICK ext \in {m, m + 1}, p \in 1 .. m + 1 :
        ext = Extent(loc[1], a, n) /\ p = loc[2][a] /\ p <= ext
  BY <1>1 DEF IsPlace
<1>3. PICK low \in Face, high \in Face :
        /\ AxisOf(low) = a /\ AxisOf(high) = a /\ IsLow(low) /\ ~IsLow(high)
        /\ Opposite(low) = high /\ Opposite(high) = low
        /\ \A d \in Face : AxisOf(d) = a => d = low \/ d = high
  BY AxisFaces
<1>4. PICK round : round <=> deck.box[a] = "periodic" \/ all = 1
  OBVIOUS
<1>5. /\ Linked(r, low) <=> round \/ i # 0
      /\ Linked(r, high) <=> round \/ i # g - 1
      /\ Linked(r, low) => Index(Behind(r, low))[a] = (i - 1) % g
      /\ Linked(r, high) => Index(Behind(r, high))[a] = (i + 1) % g
  <2>1. /\ Linked(r, low) <=> round \/ i # 0
        /\ Linked(r, high) <=> round \/ i # g - 1
    <3>1. Linked(r, low) <=> round \/ i # 0
      BY <1>1, <1>3, <1>4, LinkedIs
    <3>2. Linked(r, high) <=> \/ deck.box[a] = "periodic" \/ deck.gn[a] = 1
                              \/ IF IsLow(high) THEN Index(r)[a] # 0
                                 ELSE Index(r)[a] # deck.gp[a] - 1
      BY <1>3, LinkedIs
    <3>. QED  BY <1>1, <1>3, <1>4, <3>1, <3>2
  <2>2. ASSUME NEW d \in Face, AxisOf(d) = a, Linked(r, d)
        PROVE  Index(Behind(r, d))[a] = (i + Direction(d)) % g
    <3>1. Index(Behind(r, d)) = [Index(r) EXCEPT ![a] = (@ + Direction(d)) % deck.gp[a]]
      BY <2>2, LinkedIs
    <3>2. a \in DOMAIN Index(r)
      BY DEF Index, RankToIndex
    <3>. QED  BY <1>1, <3>1, <3>2
  <2>3. Direction(low) = -1 /\ Direction(high) = 1
    BY <1>3 DEF Direction
  <2>. QED  BY <1>1, <1>3, <2>1, <2>2, <2>3
<1>6. Edge(low) = 1 /\ Edge(high) = m + 1
  BY <1>1, <1>3 DEF Edge
<1>7. /\ Shares(r, loc, low) <=> Linked(r, low) /\ p = 1 /\ ext = m + 1
      /\ Shares(r, loc, high) <=> Linked(r, high) /\ p = m + 1 /\ ext = m + 1
  BY <1>1, <1>2, <1>3, <1>6 DEF Shares
<1>8. ASSUME NEW j \in 0 .. g - 1, NEW v \in 1 .. ext
      PROVE  <<j, v>> \in Alike(r, loc, a) <=>
               \/ j = i /\ v = p
               \/ Shares(r, loc, low) /\ v = m + 1 /\ j = (i - 1) % g
               \/ Shares(r, loc, high) /\ v = 1 /\ j = (i + 1) % g
  <2>1. <<j, v>> \in Alike(r, loc, a) <=>
          IF round THEN Round(all, j, m, v) = Round(all, i, m, p)
                   ELSE Position(j, m, v) = Position(i, m, p)
    BY <1>1, <1>2, <1>4 DEF Alike, Index, Position, Round
  <2>2. p \in 1 .. m + 1 /\ v \in 1 .. m + 1 /\ i \in Nat /\ j \in Nat
    BY <1>2
  <2>3. /\ (i + 1) % g = IF i = g - 1 THEN 0 ELSE i + 1
        /\ (i - 1) % g = IF i = 0 THEN g - 1 ELSE i - 1
    BY <1>1, Ring
  <2>4. CASE round
    <3>1. Round(all, j, m, v) = Round(all, i, m, p) <=> RoundMet(g, m, i, p, j, v)
      BY <1>1, <2>2, RoundMeet
    <3>2. /\ p = 1 /\ v = m + 1 => ext = m + 1
          /\ p = m + 1 /\ v = 1 => ext = m + 1
      BY <1>2
    <3>. QED  BY <1>5, <1>7, <2>1, <2>4, <3>1, <3>2 DEF RoundMet
  <2>5. CASE ~round
    <3>1. Position(j, m, v) = Position(i, m, p) <=> LineMet(m, i, p, j, v)
      BY <2>2, LineMeet
    <3>2. /\ p = 1 /\ v = m + 1 => ext = m + 1
          /\ p = m + 1 /\ v = 1 => ext = m + 1
      BY <1>2
    <3>3. /\ j = i - 1 <=> i # 0 /\ j = (i - 1) % g
          /\ j = i + 1 <=> i # g - 1 /\ j = (i + 1) % g
      BY <2>3
    <3>. QED  BY <1>5, <1>7, <2>1, <2>5, <3>1, <3>2, <3>3 DEF LineMet
  <2>. QED  BY <2>4, <2>5
<1>9. here = <<i, p>> /\ here[2] = p
  BY <1>1, <1>2
<1>10. ASSUME NEW t
       PROVE  t \in Alike(r, loc, a) <=>
               \/ t = <<i, p>>
               \/ Shares(r, loc, low) /\ t = <<(i - 1) % g, m + 1>>
               \/ Shares(r, loc, high) /\ t = <<(i + 1) % g, 1>>
  <2>1. t \in Alike(r, loc, a) => \E j \in 0 .. g - 1, v \in 1 .. ext : t = <<j, v>>
    BY <1>1, <1>2 DEF Alike
  <2>2. (i - 1) % g \in 0 .. g - 1 /\ (i + 1) % g \in 0 .. g - 1
    <3>1. /\ (i + 1) % g = IF i = g - 1 THEN 0 ELSE i + 1
          /\ (i - 1) % g = IF i = 0 THEN g - 1 ELSE i - 1
      BY <1>1, Ring
    <3>2. i \in 0 .. g - 1
      BY <1>1
    <3>. QED  BY <3>1, <3>2
  <2>3. Shares(r, loc, low) \/ Shares(r, loc, high) => ext = m + 1
    BY <1>7
  <2>4. ASSUME t \in Alike(r, loc, a)
        PROVE  \/ t = <<i, p>>
               \/ Shares(r, loc, low) /\ t = <<(i - 1) % g, m + 1>>
               \/ Shares(r, loc, high) /\ t = <<(i + 1) % g, 1>>
    <3>1. PICK j \in 0 .. g - 1, v \in 1 .. ext : t = <<j, v>>
      BY <2>1, <2>4
    <3>. QED  BY <1>8, <2>4, <3>1
  <2>5. t = <<i, p>> => t \in Alike(r, loc, a)
    <3>1. i \in 0 .. g - 1 /\ p \in 1 .. ext
      BY <1>1, <1>2
    <3>. QED  BY <1>8, <3>1
  <2>6. Shares(r, loc, low) /\ t = <<(i - 1) % g, m + 1>> => t \in Alike(r, loc, a)
    <3>1. PICK j \in 0 .. g - 1 : j = (i - 1) % g
      BY <2>2
    <3>2. Shares(r, loc, low) => m + 1 \in 1 .. ext
      BY <2>3
    <3>. QED  BY <1>8, <3>1, <3>2
  <2>7. Shares(r, loc, high) /\ t = <<(i + 1) % g, 1>> => t \in Alike(r, loc, a)
    <3>1. PICK j \in 0 .. g - 1 : j = (i + 1) % g
      BY <2>2
    <3>2. 1 \in 1 .. ext
      BY <1>2
    <3>. QED  BY <1>8, <3>1, <3>2
  <2>. QED  BY <2>4, <2>5, <2>6, <2>7
<1>11. CASE a \notin Shared(r, loc)
  <2>1. ~Shares(r, loc, low) /\ ~Shares(r, loc, high) /\ \A d \in Face : AxisOf(d) = a => ~Shares(r, loc, d)
    BY <1>3, <1>11 DEF Shared
  <2>. QED  BY <1>9, <1>10, <2>1
<1>12. ASSUME NEW d \in Face, AxisOf(d) = a, Shares(r, loc, d)
       PROVE  /\ Alike(r, loc, a) = {here, <<Index(Behind(r, d))[a], Edge(Opposite(d))>>}
              /\ here[2] # Edge(Opposite(d)) /\ a \in Shared(r, loc)
  <2>1. a \in Shared(r, loc)
    BY <1>12 DEF Shared
  <2>2. CASE d = low
    <3>1. p = 1 /\ ~Shares(r, loc, high) /\ Shares(r, loc, low) /\ Linked(r, low)
      BY <1>7, <1>12, <2>2
    <3>2. Alike(r, loc, a) = {<<i, p>>, <<(i - 1) % g, m + 1>>}
      BY <1>10, <3>1
    <3>. QED  BY <1>3, <1>5, <1>6, <1>9, <2>1, <2>2, <3>1, <3>2
  <2>3. CASE d = high
    <3>1. p = m + 1 /\ ~Shares(r, loc, low) /\ Shares(r, loc, high) /\ Linked(r, high)
      BY <1>7, <1>12, <2>3
    <3>2. Alike(r, loc, a) = {<<i, p>>, <<(i + 1) % g, 1>>}
      BY <1>10, <3>1
    <3>. QED  BY <1>3, <1>5, <1>6, <1>9, <2>1, <2>3, <3>1, <3>2
  <2>. QED  BY <1>3, <1>12, <2>2, <2>3
<1>. QED  BY <1>11, <1>12

\* What the walls make of a value, the place across a face, and the copies whose
\* contribution has come in along the axes in A.
MakesAt(r, loc, d) ==
  IF ~Linked(r, d) /\ loc[2][AxisOf(d)] = Edge(d) THEN WallFactor(loc[1], AxisOf(d), Behind(r, d)) ELSE 1
FactorOf(r, loc) ==
  MakesAt(r, loc, 0) * MakesAt(r, loc, 1) * MakesAt(r, loc, 2)
  * MakesAt(r, loc, 3) * MakesAt(r, loc, 4) * MakesAt(r, loc, 5)
Across(d, loc) == <<loc[1], [loc[2] EXCEPT ![AxisOf(d)] = Edge(Opposite(d))]>>
Reach(r, loc, A) ==
  {c \in Rank \X [Axis -> Int] : \A a \in Axis :
     <<Index(c[1])[a], c[2][a]>> \in IF a \in A THEN Alike(r, loc, a)
                                     ELSE {<<Index(r)[a], loc[2][a]>>}}

\* The planes at the two faces of an axis differ, also in a domain of one cell.
LEMMA EdgesApart ==
  ASSUME deck \in Decks, Good, NEW d \in Face
  PROVE  /\ Edge(d) \in Int /\ Edge(Opposite(d)) \in Int /\ Edge(d) # Edge(Opposite(d))
         /\ Edge(d) \in 1 .. n[AxisOf(d)] + 1 /\ Edge(Opposite(d)) \in 1 .. n[AxisOf(d)] + 1
<1>1. n[AxisOf(d)] \in Nat \ {0}
  BY CellsType, Faces DEF Count
<1>2. AxisOf(Opposite(d)) = AxisOf(d) /\ (IsLow(Opposite(d)) <=> ~IsLow(d))
  BY Faces
<1>. QED  BY <1>1, <1>2 DEF Edge

\* The copy across a face: it is shared with this one and along the same axes.
LEMMA AcrossIs ==
  ASSUME deck \in Decks, Good, NEW r \in Rank, NEW d \in Face, NEW loc, IsPlace(loc), Shares(r, loc, d),
         NEW q, q = Behind(r, d), NEW there, there = Across(d, loc), NEW X, X = AxisOf(d)
  PROVE  /\ q \in Rank /\ X \in Axis /\ Opposite(d) \in Face
         /\ IsPlace(there) /\ there[1] = loc[1] /\ there[2][X] = Edge(Opposite(d))
         /\ \A a \in Axis \ {X} : there[2][a] = loc[2][a] /\ Index(q)[a] = Index(r)[a]
         /\ Shares(q, there, Opposite(d))
         /\ Shared(q, there) = Shared(r, loc)
         /\ \A a \in Axis \ {X} : Alike(q, there, a) = Alike(r, loc, a)
         /\ FactorOf(q, there) = FactorOf(r, loc)
<1>1. /\ X \in Axis /\ Opposite(d) \in Face /\ AxisOf(Opposite(d)) = X
      /\ Linked(r, d) /\ loc[2][X] = Edge(d) /\ Extent(loc[1], X, n) = n[X] + 1
  BY Faces DEF Shares
<1>2. q \in Rank /\ Linked(q, Opposite(d))
  BY <1>1, BehindMutual
<1>3. /\ there[1] = loc[1] /\ there[2] = [loc[2] EXCEPT ![X] = Edge(Opposite(d))]
      /\ there = <<there[1], there[2]>>
  BY DEF Across
<1>4. /\ there[2] \in [Axis -> Int] /\ there[2][X] = Edge(Opposite(d))
      /\ \A a \in Axis \ {X} : there[2][a] = loc[2][a]
  BY <1>1, <1>3, EdgesApart DEF IsPlace
<1>5. \A a \in Axis \ {X} : Index(q)[a] = Index(r)[a]
  <2>1. Index(q) = [Index(r) EXCEPT ![X] = (@ + Direction(d)) % deck.gp[X]]
    BY <1>1, LinkedIs
  <2>. QED  BY <2>1 DEF Index, RankToIndex
<1>6. IsPlace(there)
  <2>1. there[2][X] \in 1 .. Extent(loc[1], X, n)
    BY <1>1, <1>4, EdgesApart
  <2>. QED  BY <1>1, <1>3, <1>4, <2>1 DEF IsPlace
<1>7. Shares(q, there, Opposite(d))
  BY <1>1, <1>2, <1>3, <1>4 DEF Shares
<1>8. ASSUME NEW f \in Face, AxisOf(f) # X
      PROVE  /\ Linked(q, f) <=> Linked(r, f)
             /\ ~Linked(r, f) => Behind(q, f) = Behind(r, f)
             /\ there[2][AxisOf(f)] = loc[2][AxisOf(f)]
  <2>1. PICK a \in Axis \ {X} : a = AxisOf(f)
    BY <1>8, Faces
  <2>2. Index(q)[a] = Index(r)[a]
    BY <1>5
  <2>3. /\ Linked(q, f) <=> \/ deck.box[a] = "periodic" \/ deck.gn[a] = 1
                            \/ IF IsLow(f) THEN Index(q)[a] # 0 ELSE Index(q)[a] # deck.gp[a] - 1
        /\ ~Linked(q, f) => Behind(q, f) = WallOfBox(deck.box[a])
    BY <1>2, <2>1, LinkedIs
  <2>4. /\ Linked(r, f) <=> \/ deck.box[a] = "periodic" \/ deck.gn[a] = 1
                            \/ IF IsLow(f) THEN Index(r)[a] # 0 ELSE Index(r)[a] # deck.gp[a] - 1
        /\ ~Linked(r, f) => Behind(r, f) = WallOfBox(deck.box[a])
    BY <2>1, LinkedIs
  <2>5. there[2][a] = loc[2][a]
    BY <1>4
  <2>. QED  BY <2>1, <2>2, <2>3, <2>4, <2>5
<1>9. ASSUME NEW f \in Face, AxisOf(f) # X PROVE Shares(q, there, f) <=> Shares(r, loc, f)
  BY <1>3, <1>8, <1>9 DEF Shares
<1>10. Shared(q, there) = Shared(r, loc)
  <2>1. X \in Shared(q, there) /\ X \in Shared(r, loc)
    BY <1>1, <1>7 DEF Shared
  <2>2. ASSUME NEW a \in Axis, a # X PROVE a \in Shared(q, there) <=> a \in Shared(r, loc)
    BY <1>9, <2>2 DEF Shared
  <2>. QED  BY <2>1, <2>2 DEF Shared
<1>11. ASSUME NEW a \in Axis \ {X} PROVE Alike(q, there, a) = Alike(r, loc, a)
  BY <1>3, <1>4, <1>5 DEF Alike, Index
<1>12. ASSUME NEW f \in Face PROVE MakesAt(q, there, f) = MakesAt(r, loc, f)
  <2>1. CASE AxisOf(f) # X
    BY <1>3, <1>8, <2>1 DEF MakesAt
  <2>2. CASE AxisOf(f) = X
    <3>1. f = d \/ f = Opposite(d)
      <4>1. PICK low \in Face, high \in Face :
              /\ Opposite(low) = high /\ Opposite(high) = low
              /\ \A c \in Face : AxisOf(c) = X => c = low \/ c = high
        BY <1>1, AxisFaces
      <4>. QED  BY <2>2, <4>1
    <3>2. Opposite(Opposite(d)) = d
      BY Faces
    <3>3. MakesAt(r, loc, d) = 1 /\ MakesAt(q, there, Opposite(d)) = 1
      BY <1>1, <1>2 DEF MakesAt
    <3>4. MakesAt(r, loc, Opposite(d)) = 1 /\ MakesAt(q, there, d) = 1
      BY <1>1, <1>4, EdgesApart DEF MakesAt
    <3>. QED  BY <3>1, <3>3, <3>4
  <2>. QED  BY <2>1, <2>2
<1>13. FactorOf(q, there) = FactorOf(r, loc)
  BY <1>12 DEF FactorOf, Face
<1>. QED  BY <1>1, <1>2, <1>3, <1>4, <1>5, <1>6, <1>7, <1>10, <1>11, <1>13

\* Walls double, clear or keep.
LEMMA FactorType ==
  ASSUME deck \in Decks, Good, NEW r, NEW loc
  PROVE  FactorOf(r, loc) \in Nat
<1>1. ASSUME NEW d PROVE MakesAt(r, loc, d) \in Nat
  BY DEF MakesAt, WallFactor, AdjustJf, AdjustRhof, AdjustRhob, AdjustTangE, AdjustHydro
<1>2. \A x \in Nat, y \in Nat : x * y \in Nat
  OBVIOUS
<1>. QED  BY <1>1, <1>2 DEF FactorOf

\* A rank is known by where its domain is.
LEMMA IndexType ==
  ASSUME deck \in Decks, Good, NEW r \in Rank
  PROVE  /\ Index(r) = [a \in Axis |-> Index(r)[a]]
         /\ IndexToRank(Index(r), deck.gp) = r
BY DeckType, IndexOfRank DEF Index, Good, RankToIndex

LEMMA ReachNone ==
  ASSUME deck \in Decks, Good, NEW r \in Rank, NEW loc, IsPlace(loc)
  PROVE  Reach(r, loc, {}) = {<<r, loc[2]>>}
<1>1. ASSUME NEW c PROVE c \in Reach(r, loc, {}) <=> c = <<r, loc[2]>>
  <2>1. ASSUME c \in Reach(r, loc, {}) PROVE c = <<r, loc[2]>>
    <3>1. PICK q \in Rank, pos \in [Axis -> Int] :
            c = <<q, pos>> /\ \A a \in Axis : Index(q)[a] = Index(r)[a] /\ pos[a] = loc[2][a]
      BY <2>1 DEF Reach
    <3>2. Index(q) = Index(r)
      BY <3>1, IndexType
    <3>3. q = r
      BY <3>1, <3>2, IndexType
    <3>4. pos = loc[2]
      BY <3>1 DEF IsPlace
    <3>. QED  BY <3>1, <3>3, <3>4
  <2>2. <<r, loc[2]>> \in Reach(r, loc, {})
    BY DEF Reach, IsPlace
  <2>. QED  BY <2>1, <2>2
<1>. QED  BY <1>1

\* One more axis adds what the copies across the face have.
LEMMA ReachSplit ==
  ASSUME deck \in Decks, Good, NEW r \in Rank, NEW d \in Face, NEW loc, IsPlace(loc), Shares(r, loc, d),
         NEW q, q = Behind(r, d), NEW there, there = Across(d, loc), NEW X, X = AxisOf(d),
         NEW A, X \notin A
  PROVE  /\ Reach(r, loc, A \cup {X}) = Reach(r, loc, A) \cup Reach(q, there, A)
         /\ Reach(r, loc, A) \cap Reach(q, there, A) = {}
<1>1. /\ q \in Rank /\ X \in Axis /\ there[2][X] = Edge(Opposite(d))
      /\ \A a \in Axis \ {X} : there[2][a] = loc[2][a] /\ Index(q)[a] = Index(r)[a]
      /\ \A a \in Axis \ {X} : Alike(q, there, a) = Alike(r, loc, a)
  BY AcrossIs
<1>2. /\ Alike(r, loc, X) = {<<Index(r)[X], loc[2][X]>>, <<Index(q)[X], there[2][X]>>}
      /\ loc[2][X] # there[2][X]
  <2>1. PICK here : here = <<Index(r)[X], loc[2][X]>>
    OBVIOUS
  <2>. QED  BY <1>1, <2>1, AlikeIs
<1>3. PICK home, far : /\ home = <<Index(r)[X], loc[2][X]>> /\ far = <<Index(q)[X], there[2][X]>>
                       /\ home # far /\ Alike(r, loc, X) = {home, far}
  BY <1>2
<1>4. ASSUME NEW p \in Rank, NEW pos \in [Axis -> Int], NEW c, c = <<p, pos>>
      PROVE  /\ c \in Reach(r, loc, A \cup {X}) <=> c \in Reach(r, loc, A) \/ c \in Reach(q, there, A)
             /\ ~(c \in Reach(r, loc, A) /\ c \in Reach(q, there, A))
  <2>1. PICK others : others <=>
          \A a \in Axis \ {X} : <<Index(p)[a], pos[a]>> \in
            IF a \in A THEN Alike(r, loc, a) ELSE {<<Index(r)[a], loc[2][a]>>}
    OBVIOUS
  <2>2. PICK spot : spot = <<Index(p)[X], pos[X]>>
    OBVIOUS
  <2>3. c \in Reach(r, loc, A) <=> others /\ spot = home
    BY <1>1, <1>3, <1>4, <2>1, <2>2 DEF Reach
  <2>4. c \in Reach(r, loc, A \cup {X}) <=> others /\ (spot = home \/ spot = far)
    BY <1>1, <1>3, <1>4, <2>1, <2>2 DEF Reach
  <2>5. c \in Reach(q, there, A) <=> others /\ spot = far
    <3>1. others <=> \A a \in Axis \ {X} : <<Index(p)[a], pos[a]>> \in
            IF a \in A THEN Alike(q, there, a) ELSE {<<Index(q)[a], there[2][a]>>}
      BY <1>1, <2>1
    <3>. QED  BY <1>1, <1>3, <1>4, <2>2, <3>1 DEF Reach
  <2>. QED  BY <1>3, <2>3, <2>4, <2>5
<1>5. ASSUME NEW c, c \in Reach(r, loc, A \cup {X}) \/ c \in Reach(r, loc, A) \/ c \in Reach(q, there, A)
      PROVE  \E p \in Rank, pos \in [Axis -> Int] : c = <<p, pos>>
  BY <1>5 DEF Reach
<1>. QED  BY <1>4, <1>5

\* Axes not shared add nothing.
LEMMA ReachKept ==
  ASSUME deck \in Decks, Good, NEW r \in Rank, NEW loc, IsPlace(loc), NEW A, NEW B,
         A \cap Shared(r, loc) = B \cap Shared(r, loc)
  PROVE  Reach(r, loc, A) = Reach(r, loc, B)
<1>1. ASSUME NEW a \in Axis
      PROVE  (IF a \in A THEN Alike(r, loc, a) ELSE {<<Index(r)[a], loc[2][a]>>}) =
             (IF a \in B THEN Alike(r, loc, a) ELSE {<<Index(r)[a], loc[2][a]>>})
  <2>1. a \notin Shared(r, loc) => Alike(r, loc, a) = {<<Index(r)[a], loc[2][a]>>}
    <3>1. PICK here : here = <<Index(r)[a], loc[2][a]>>
      OBVIOUS
    <3>. QED  BY <3>1, AlikeIs
  <2>2. a \in Shared(r, loc) => (a \in A <=> a \in B)
    OBVIOUS
  <2>. QED  BY <2>1, <2>2
<1>2. ASSUME NEW c \in Rank \X [Axis -> Int]
      PROVE  c \in Reach(r, loc, A) <=> c \in Reach(r, loc, B)
  <2>1. \A a \in Axis :
          <<Index(c[1])[a], c[2][a]>> \in
             (IF a \in A THEN Alike(r, loc, a) ELSE {<<Index(r)[a], loc[2][a]>>})
          <=> <<Index(c[1])[a], c[2][a]>> \in
             (IF a \in B THEN Alike(r, loc, a) ELSE {<<Index(r)[a], loc[2][a]>>})
    BY <1>1, Zenon
  <2>. QED  BY <2>1, Zenon DEF Reach
<1>3. Reach(r, loc, A) \subseteq Rank \X [Axis -> Int] /\ Reach(r, loc, B) \subseteq Rank \X [Axis -> Int]
  BY DEF Reach
<1>. QED  BY <1>2, <1>3

\* All axes: the copies of the specification.
LEMMA ReachAll ==
  ASSUME deck \in Decks, Good, NEW r \in Rank, NEW loc, IsPlace(loc)
  PROVE  Reach(r, loc, Axis) = Copies(r, loc)
<1>1. deck.gp \in Count /\ ~BadDecomposition(deck.gp)
  BY DeckType DEF Good
<1>2. ASSUME NEW a \in Axis, NEW t \in Alike(r, loc, a)
      PROVE  t = <<t[1], t[2]>> /\ t[1] \in 0 .. deck.gp[a] - 1 /\ t[1] \in Int /\ t[2] \in Int
  <2>1. t \in (0 .. deck.gp[a] - 1) \X (1 .. Extent(loc[1], a, n))
    BY DEF Alike
  <2>2. deck.gp[a] \in Nat
    BY AxisNumbers
  <2>. QED  BY <2>1, <2>2
<1>3. ASSUME NEW c, c \in Copies(r, loc) PROVE c \in Reach(r, loc, Axis)
  <2>1. PICK x \in Alike(r, loc, 0), y \in Alike(r, loc, 1), z \in Alike(r, loc, 2) :
          c = <<IndexToRank([a \in Axis |-> <<x, y, z>>[a + 1][1]], deck.gp),
                [a \in Axis |-> <<x, y, z>>[a + 1][2]]>>
    BY <1>3 DEF Copies
  <2>2. PICK copy : copy = <<x, y, z>>
    OBVIOUS
  <2>3. PICK i, pos : i = [a \in Axis |-> copy[a + 1][1]] /\ pos = [a \in Axis |-> copy[a + 1][2]]
    OBVIOUS
  <2>4. ASSUME NEW a \in Axis
        PROVE  /\ <<i[a], pos[a]>> \in Alike(r, loc, a)
               /\ i[a] \in 0 .. deck.gp[a] - 1 /\ i[a] \in Int /\ pos[a] \in Int
    <3>1. copy[a + 1] \in Alike(r, loc, a)
      BY <2>2, Axes
    <3>2. i[a] = copy[a + 1][1] /\ pos[a] = copy[a + 1][2]
      BY <2>3
    <3>. QED  BY <1>2, <3>1, <3>2
  <2>5. IsIndex(i, deck.gp)
    BY <2>3, <2>4 DEF IsIndex
  <2>6. PICK q : q = IndexToRank(i, deck.gp) /\ q \in Rank /\ Index(q) = i
    BY <1>1, <2>5, RankOfIndex DEF Index
  <2>7. c = <<q, pos>> /\ pos \in [Axis -> Int]
    BY <2>1, <2>2, <2>3, <2>4, <2>6
  <2>. QED  BY <2>4, <2>6, <2>7 DEF Reach
<1>4. ASSUME NEW c, c \in Reach(r, loc, Axis) PROVE c \in Copies(r, loc)
  <2>1. PICK q \in Rank, pos \in [Axis -> Int] :
          c = <<q, pos>> /\ \A a \in Axis : <<Index(q)[a], pos[a]>> \in Alike(r, loc, a)
    BY <1>4 DEF Reach
  <2>2. PICK x, y, z : /\ x = <<Index(q)[0], pos[0]>> /\ y = <<Index(q)[1], pos[1]>>
                       /\ z = <<Index(q)[2], pos[2]>>
    OBVIOUS
  <2>3. x \in Alike(r, loc, 0) /\ y \in Alike(r, loc, 1) /\ z \in Alike(r, loc, 2)
    BY <2>1, <2>2, Axes
  <2>4. PICK copy : copy = <<x, y, z>>
    OBVIOUS
  <2>5. [a \in Axis |-> copy[a + 1][1]] = Index(q) /\ [a \in Axis |-> copy[a + 1][2]] = pos
    <3>1. \A a \in Axis : copy[a + 1] = <<Index(q)[a], pos[a]>>
      BY <2>2, <2>4, Axes
    <3>2. Index(q) = [a \in Axis |-> Index(q)[a]] /\ pos = [a \in Axis |-> pos[a]]
      BY IndexType
    <3>. QED  BY <3>1, <3>2
  <2>6. <<IndexToRank(Index(q), deck.gp), pos>> \in Copies(r, loc)
    BY <2>3, <2>4, <2>5 DEF Copies
  <2>. QED  BY <2>1, <2>6, IndexType
<1>. QED  BY <1>3, <1>4

-----------------------------------------------------------------------------
(***************************************************************************)
(* What a copy has taken in.  A value holds every copy that went into it   *)
(* the same number of times; sums keep that number, averages halve it and  *)
(* each shared axis doubles the copies.                                    *)
(***************************************************************************)
Filled(k, S) == IF k = 0 THEN EmptyBag ELSE [c \in S |-> k]

LEMMA TimesIs ==
  ASSUME NEW k \in Nat, NEW w \in Nat \ {0}, NEW S
  PROVE  Times(k, [c \in S |-> w]) = Filled(k * w, S)
<1>1. k # 0 => k * w # 0
  OBVIOUS
<1>2. k = 0 => k * w = 0
  OBVIOUS
<1>. QED  BY <1>1, <1>2 DEF Times, Stale, Filled

LEMMA EmptySum == EmptyBag (+) EmptyBag = EmptyBag
  BY DEF EmptyBag, SetToBag, (+)

LEMMA FilledSum ==
  ASSUME NEW k \in Nat, NEW S, NEW T, S \cap T = {}
  PROVE  Filled(k, S) (+) Filled(k, T) = Filled(k, S \cup T)
<1>1. CASE k = 0
  BY <1>1, EmptySum DEF Filled
<1>2. CASE k # 0
  <2>1. PICK s, t : s = Filled(k, S) /\ t = Filled(k, T)
    OBVIOUS
  <2>2. s = [c \in S |-> k] /\ t = [c \in T |-> k]
    BY <1>2, <2>1 DEF Filled
  <2>3. s (+) t = [c \in S \cup T |-> k]
    BY <2>2 DEF (+)
  <2>. QED  BY <1>2, <2>1, <2>3 DEF Filled
<1>. QED  BY <1>1, <1>2

LEMMA FilledMean ==
  ASSUME NEW k \in Nat, NEW S, NEW T, S \cap T = {}
  PROVE  Averaged(Filled(2 * k, S), Filled(2 * k, T)) = Filled(k, S \cup T)
<1>1. PICK s : s = Filled(2 * k, S) (+) Filled(2 * k, T) /\ s = Filled(2 * k, S \cup T)
  BY FilledSum
<1>2. Averaged(Filled(2 * k, S), Filled(2 * k, T)) = [c \in DOMAIN s |-> s[c] \div 2]
  BY <1>1 DEF Averaged
<1>3. (2 * k) \div 2 = k
  OBVIOUS
<1>4. CASE k = 0
  BY <1>1, <1>2, <1>4 DEF Filled, EmptyBag, SetToBag
<1>5. CASE k # 0
  <2>1. s = [c \in S \cup T |-> 2 * k]
    BY <1>1, <1>5 DEF Filled
  <2>. QED  BY <1>2, <1>3, <1>5, <2>1 DEF Filled
<1>. QED  BY <1>4, <1>5

\* The contributions along the axes in A, and how often each counts.
Half(A, a) == IF a \in A THEN 1 ELSE 2
Halves(A) == Half(A, 0) * Half(A, 1) * Half(A, 2)
ShareOf(comp, A) == IF comp[1] \in Summed THEN 1 ELSE Halves(A)
Level(r, loc, A) == Filled(FactorOf(r, loc) * ShareOf(loc[1], A), Reach(r, loc, A))
Counted(A) ==
  \A r \in Rank : \A loc : IsPlace(loc) /\ A \subseteq Shared(r, loc) =>
    IsFiniteSet(Reach(r, loc, A)) /\ Cardinality(Reach(r, loc, A)) * Halves(A) = 8

LEMMA HalvesType ==
  ASSUME NEW A
  PROVE  Halves(A) \in Nat \ {0}
BY DEF Halves, Half

LEMMA HalvesStep ==
  ASSUME NEW A, NEW X \in Axis, X \notin A
  PROVE  Halves(A) = 2 * Halves(A \cup {X})
BY Axes DEF Halves, Half

\* Every shared axis doubles the number of copies.
LEMMA CountStep ==
  ASSUME deck \in Decks, Good, NEW A, NEW X \in Axis, X \notin A, Counted(A)
  PROVE  Counted(A \cup {X})
<1> SUFFICES ASSUME NEW r \in Rank, NEW loc, IsPlace(loc), A \cup {X} \subseteq Shared(r, loc)
             PROVE  /\ IsFiniteSet(Reach(r, loc, A \cup {X}))
                    /\ Cardinality(Reach(r, loc, A \cup {X})) * Halves(A \cup {X}) = 8
  BY DEF Counted
<1>1. PICK d \in Face : AxisOf(d) = X /\ Shares(r, loc, d)
  BY DEF Shared
<1>2. PICK q, there : q = Behind(r, d) /\ there = Across(d, loc)
  OBVIOUS
<1>3. q \in Rank /\ IsPlace(there) /\ Shared(q, there) = Shared(r, loc)
  BY <1>1, <1>2, AcrossIs
<1>4. PICK S, T : S = Reach(r, loc, A) /\ T = Reach(q, there, A)
  OBVIOUS
<1>5. Reach(r, loc, A \cup {X}) = S \cup T /\ S \cap T = {}
  BY <1>1, <1>2, <1>4, ReachSplit
<1>6. /\ IsFiniteSet(S) /\ Cardinality(S) * Halves(A) = 8
      /\ IsFiniteSet(T) /\ Cardinality(T) * Halves(A) = 8
  BY <1>3, <1>4 DEF Counted
<1>7. IsFiniteSet(S \cup T) /\ Cardinality(S \cup T) = Cardinality(S) + Cardinality(T)
  <2>1. Cardinality(S \cap T) = 0
    BY <1>5, FS_EmptySet
  <2>2. Cardinality(S) \in Nat /\ Cardinality(T) \in Nat
    BY <1>6, FS_CardinalityType
  <2>. QED  BY <1>6, <2>1, <2>2, FS_Union
<1>8. PICK s \in Nat, t \in Nat, h \in Nat :
        s = Cardinality(S) /\ t = Cardinality(T) /\ h = Halves(A \cup {X}) /\ Halves(A) = 2 * h
  BY <1>6, FS_CardinalityType, HalvesType, HalvesStep
<1>9. s * (2 * h) = 8 /\ t * (2 * h) = 8
  BY <1>6, <1>8
<1>10. (s + t) * h = 8
  BY <1>9
<1>. QED  BY <1>5, <1>7, <1>8, <1>10

LEMMA CopyCount ==
  ASSUME deck \in Decks, Good, NEW r \in Rank, NEW loc, IsPlace(loc), NEW A, A = Shared(r, loc)
  PROVE  IsFiniteSet(Reach(r, loc, A)) /\ Cardinality(Reach(r, loc, A)) * Halves(A) = 8
<1>1. Counted({})
  <2>1. Halves({}) = 8
    BY DEF Halves, Half
  <2>2. ASSUME NEW q \in Rank, NEW l, IsPlace(l)
        PROVE  IsFiniteSet(Reach(q, l, {})) /\ Cardinality(Reach(q, l, {})) = 1
    <3>1. Reach(q, l, {}) = {<<q, l[2]>>}
      BY <2>2, ReachNone
    <3>. QED  BY <3>1, FS_Singleton
  <2>. QED  BY <2>1, <2>2 DEF Counted
<1>2. Counted(A \cap {0})
  <2>1. A \cap {0} = {} \/ A \cap {0} = {} \cup {0}
    OBVIOUS
  <2>. QED  BY <1>1, <2>1, CountStep, Axes
<1>3. Counted(A \cap {0, 1})
  <2>1. A \cap {0, 1} = A \cap {0} \/ A \cap {0, 1} = (A \cap {0}) \cup {1}
    OBVIOUS
  <2>2. 1 \notin A \cap {0}
    OBVIOUS
  <2>. QED  BY <1>2, <2>1, <2>2, CountStep, Axes
<1>4. Counted(A \cap {0, 1, 2})
  <2>1. A \cap {0, 1, 2} = A \cap {0, 1} \/ A \cap {0, 1, 2} = (A \cap {0, 1}) \cup {2}
    OBVIOUS
  <2>2. 2 \notin A \cap {0, 1}
    OBVIOUS
  <2>. QED  BY <1>3, <2>1, <2>2, CountStep, Axes
<1>5. A \cap {0, 1, 2} = A
  BY Axes DEF Shared
<1>. QED  BY <1>4, <1>5 DEF Counted

\* The components of a synchronization, by name.
Names(op) ==
  CASE op = "jf" -> {"jf"} [] op = "rho" -> {"rhof", "rhob"} [] op = "tang_e" -> {"cb", "e", "tca"}
    [] op = "hydro" -> {"hydro"}

LEMMA ShareType ==
  ASSUME NEW comp, NEW A
  PROVE  ShareOf(comp, A) \in Nat \ {0}
BY HalvesType DEF ShareOf

\* A copy starts with its own contribution and what the walls make of it,
LEMMA LevelNone ==
  ASSUME deck \in Decks, Good, NEW r \in Rank, NEW loc, IsPlace(loc)
  PROVE  Times(FactorOf(r, loc), Own(r, loc)) = Level(r, loc, {})
<1>1. PICK k \in Nat, w \in Nat \ {0} : k = FactorOf(r, loc) /\ w = Weight(loc[1])
  BY FactorType DEF Weight
<1>2. PICK S : S = {<<r, loc[2]>>} /\ S = Reach(r, loc, {})
  BY ReachNone
<1>3. ShareOf(loc[1], {}) = w
  BY <1>1 DEF ShareOf, Weight, Halves, Half
<1>4. Own(r, loc) = [c \in S |-> w]
  BY <1>1, <1>2 DEF Own
<1>5. Times(k, [c \in S |-> w]) = Filled(k * w, S)
  BY TimesIs
<1>. QED  BY <1>1, <1>2, <1>3, <1>4, <1>5 DEF Level

\* takes in those across a face,
LEMMA LevelMet ==
  ASSUME deck \in Decks, Good, NEW r \in Rank, NEW d \in Face, NEW loc, IsPlace(loc), Shares(r, loc, d),
         NEW q, q = Behind(r, d), NEW there, there = Across(d, loc), NEW X, X = AxisOf(d),
         NEW A, X \notin A, NEW op \in Exchange \ Ghost, loc[1][1] \in Names(op)
  PROVE  Merged(op, loc[1], Level(r, loc, A), Level(q, there, A)) = Level(r, loc, A \cup {X})
<1>1. /\ q \in Rank /\ X \in Axis /\ there[1] = loc[1] /\ FactorOf(q, there) = FactorOf(r, loc)
  BY AcrossIs
<1>2. PICK S, T : /\ S = Reach(r, loc, A) /\ T = Reach(q, there, A)
                  /\ Reach(r, loc, A \cup {X}) = S \cup T /\ S \cap T = {}
  BY ReachSplit
<1>3. PICK f \in Nat, h \in Nat : f = FactorOf(r, loc) /\ h = ShareOf(loc[1], A \cup {X})
  BY FactorType, ShareType
<1>4. op \in {"jf", "rho", "tang_e", "hydro"}
  BY DEF Exchange, Ghost
<1>5. f * h \in Nat
  BY <1>3
<1>6. CASE loc[1][1] \in Summed
  <2>1. ShareOf(loc[1], A) = h
    BY <1>3, <1>6 DEF ShareOf
  <2>2. Level(r, loc, A) = Filled(f * h, S) /\ Level(q, there, A) = Filled(f * h, T)
    BY <1>1, <1>2, <1>3, <2>1 DEF Level
  <2>3. Filled(f * h, S) (+) Filled(f * h, T) = Filled(f * h, S \cup T)
    BY <1>2, <1>5, FilledSum
  <2>4. Level(r, loc, A \cup {X}) = Filled(f * h, S \cup T)
    BY <1>2, <1>3 DEF Level
  <2>5. \A mine, theirs : Merged(op, loc[1], mine, theirs) = mine (+) theirs
    <3>1. op = "rho" => loc[1][1] = "rhof"
      BY <1>6 DEF Names, Summed
    <3>2. op # "tang_e"
      BY <1>6 DEF Names, Summed
    <3>. QED  BY <1>4, <3>1, <3>2 DEF Merged, JfMerged, RhoMerged, HydroMerged
  <2>. QED  BY <2>2, <2>3, <2>4, <2>5
<1>7. CASE loc[1][1] \notin Summed
  <2>1. ShareOf(loc[1], A) = 2 * h
    BY <1>1, <1>3, <1>7, HalvesStep DEF ShareOf
  <2>2. f * (2 * h) = 2 * (f * h)
    BY <1>3
  <2>3. Level(r, loc, A) = Filled(2 * (f * h), S) /\ Level(q, there, A) = Filled(2 * (f * h), T)
    BY <1>1, <1>2, <1>3, <2>1, <2>2 DEF Level
  <2>4. Averaged(Filled(2 * (f * h), S), Filled(2 * (f * h), T)) = Filled(f * h, S \cup T)
    BY <1>2, <1>5, FilledMean
  <2>5. Level(r, loc, A \cup {X}) = Filled(f * h, S \cup T)
    BY <1>2, <1>3 DEF Level
  <2>6. \A mine, theirs : Merged(op, loc[1], mine, theirs) = Averaged(mine, theirs)
    <3>1. op # "jf" /\ op # "hydro" /\ (op = "rho" => loc[1][1] # "rhof")
      BY <1>7 DEF Names, Summed
    <3>. QED  BY <1>4, <3>1 DEF Merged, RhoMerged, TangEMerged
  <2>. QED  BY <2>3, <2>4, <2>5, <2>6
<1>. QED  BY <1>6, <1>7

\* and has those of all copies in the end.
LEMMA LevelAll ==
  ASSUME deck \in Decks, Good, NEW r \in Rank, NEW loc, IsPlace(loc), NEW A, A = Shared(r, loc),
         NEW copies, copies = Copies(r, loc),
         NEW share, share = IF loc[1][1] \in Summed THEN 1 ELSE Weight(loc[1]) \div Cardinality(copies)
  PROVE  Level(r, loc, A) = Times(FactorOf(r, loc) * share, [c \in copies |-> 1])
<1>1. Reach(r, loc, A) = copies
  <2>1. A \cap Shared(r, loc) = Axis \cap Shared(r, loc)
    BY DEF Shared
  <2>. QED  BY <2>1, ReachKept, ReachAll
<1>2. share = ShareOf(loc[1], A)
  <2>1. CASE loc[1][1] \in Summed
    BY <2>1 DEF ShareOf
  <2>2. CASE loc[1][1] \notin Summed
    <3>1. IsFiniteSet(copies) /\ Cardinality(copies) * Halves(A) = 8
      BY <1>1, CopyCount
    <3>2. PICK k \in Nat : k = Cardinality(copies)
      BY <3>1, FS_CardinalityType
    <3>3. PICK h \in {1, 2, 4, 8} : h = Halves(A)
      BY DEF Halves, Half
    <3>4. k * h = 8
      BY <3>1, <3>2, <3>3
    <3>5. 8 \div k = h
      BY <3>4
    <3>. QED  BY <2>2, <3>2, <3>3, <3>5 DEF ShareOf, Weight
  <2>. QED  BY <2>1, <2>2
<1>3. PICK k \in Nat : k = FactorOf(r, loc) * share
  BY <1>2, FactorType, ShareType
<1>4. Times(k, [c \in copies |-> 1]) = Filled(k * 1, copies)
  BY TimesIs
<1>. QED  BY <1>1, <1>2, <1>3, <1>4 DEF Level

\* The factor of the specification, once the walls are known.
LEMMA FactorIs ==
  ASSUME NEW r \in Rank, bc[r] = [d \in Face |-> Behind(r, d)], NEW loc
  PROVE  Factor(r, loc) = FactorOf(r, loc)
<1>1. ASSUME NEW d \in Face
      PROVE  (IF d \in Walls(r, loc) THEN WallFactor(loc[1], AxisOf(d), bc[r][d]) ELSE 1) = MakesAt(r, loc, d)
  BY DEF Walls, MakesAt, Linked, Edge
<1>2. /\ 0 \in Face /\ 1 \in Face /\ 2 \in Face /\ 3 \in Face /\ 4 \in Face /\ 5 \in Face
  BY DEF Face
<1>. QED  BY <1>1, <1>2 DEF Factor, FactorOf

\* The components of a synchronization, and those of its message across axis X.
Comps(op) ==
  Names(op) \X (IF op \in {"jf", "tang_e"} THEN Axis ELSE IF op = "rho" THEN {0} ELSE 1 .. 14)

Carries(op, X, comp) ==
  \E j \in 1 .. Len(Parts(op, X)) : \E i \in 1 .. Len(Parts(op, X)[j]) : comp = Parts(op, X)[j][i]

\* A message across an axis has the components with a plane more than cells
\* along it.
LEMMA SyncParts ==
  ASSUME NEW op \in Exchange \ Ghost, NEW X \in Axis, NEW len \in Count, NEW comp
  PROVE  Carries(op, X, comp) <=> comp \in Comps(op) /\ Extent(comp, X, len) = len[X] + 1
<1>1. /\ Y(X) \in Axis /\ Z(X) \in Axis /\ Y(X) # X /\ Z(X) # X
      /\ \A a \in Axis : a = X \/ a = Y(X) \/ a = Z(X)
      /\ len[X] \in Nat \ {0}
  BY PlaneAxes DEF Count
<1>2. CASE op = "jf"
  <2>1. Carries(op, X, comp) <=> comp = <<"jf", Y(X)>> \/ comp = <<"jf", Z(X)>>
    BY <1>2 DEF Carries, Parts, JfParts
  <2>2. ASSUME comp \in Comps(op) PROVE \E a \in Axis : comp = <<"jf", a>>
    BY <1>2, <2>2 DEF Comps, Names
  <2>3. ASSUME NEW a \in Axis PROVE Extent(<<"jf", a>>, X, len) = len[X] + 1 <=> a # X
    BY <1>1 DEF Extent
  <2>4. \A a \in Axis : <<"jf", a>> \in Comps(op)
    BY <1>2 DEF Comps, Names
  <2>. QED  BY <1>1, <2>1, <2>2, <2>3, <2>4
<1>3. CASE op = "rho"
  <2>1. Carries(op, X, comp) <=> comp = <<"rhof", 0>> \/ comp = <<"rhob", 0>>
    BY <1>3 DEF Carries, Parts, RhoParts
  <2>2. comp \in Comps(op) <=> comp = <<"rhof", 0>> \/ comp = <<"rhob", 0>>
    BY <1>3 DEF Comps, Names
  <2>3. Extent(<<"rhof", 0>>, X, len) = len[X] + 1 /\ Extent(<<"rhob", 0>>, X, len) = len[X] + 1
    BY DEF Extent
  <2>. QED  BY <2>1, <2>2, <2>3
<1>4. CASE op = "tang_e"
  <2>1. Carries(op, X, comp) <=> \/ comp = <<"cb", X>> \/ comp = <<"e", Y(X)>> \/ comp = <<"tca", Y(X)>>
              \/ comp = <<"e", Z(X)>> \/ comp = <<"tca", Z(X)>>
    <3>1. PICK parts : parts = Parts(op, X)
      OBVIOUS
    <3>2. parts = << <<<<"cb", X>>>>, <<<<"e", Y(X)>>, <<"tca", Y(X)>>>>, <<<<"e", Z(X)>>, <<"tca", Z(X)>>>> >>
      BY <1>4, <3>1 DEF Parts, TangEParts
    <3>3. /\ Len(parts) = 3 /\ Len(parts[1]) = 1 /\ Len(parts[2]) = 2 /\ Len(parts[3]) = 2
          /\ parts[1][1] = <<"cb", X>> /\ parts[2][1] = <<"e", Y(X)>> /\ parts[2][2] = <<"tca", Y(X)>>
          /\ parts[3][1] = <<"e", Z(X)>> /\ parts[3][2] = <<"tca", Z(X)>>
      BY <3>2
    <3>4. /\ \A k : k \in 1 .. 1 <=> k = 1
          /\ \A k : k \in 1 .. 2 <=> k = 1 \/ k = 2
          /\ \A k : k \in 1 .. 3 <=> k = 1 \/ k = 2 \/ k = 3
      OBVIOUS
    <3>5. (\E j \in 1 .. Len(parts) : \E i \in 1 .. Len(parts[j]) : comp = parts[j][i])
            <=> \/ comp = <<"cb", X>> \/ comp = <<"e", Y(X)>> \/ comp = <<"tca", Y(X)>>
                \/ comp = <<"e", Z(X)>> \/ comp = <<"tca", Z(X)>>
      <4>1. PICK first, second, third : first = parts[1] /\ second = parts[2] /\ third = parts[3]
        OBVIOUS
      <4>2. (\E j \in 1 .. Len(parts) : \E i \in 1 .. Len(parts[j]) : comp = parts[j][i])
              <=> \/ \E i \in 1 .. Len(first) : comp = first[i]
                  \/ \E i \in 1 .. Len(second) : comp = second[i]
                  \/ \E i \in 1 .. Len(third) : comp = third[i]
        BY <3>3, <3>4, <4>1
      <4>3. (\E i \in 1 .. Len(first) : comp = first[i]) <=> comp = <<"cb", X>>
        BY <3>3, <3>4, <4>1
      <4>4. (\E i \in 1 .. Len(second) : comp = second[i]) <=> comp = <<"e", Y(X)>> \/ comp = <<"tca", Y(X)>>
        BY <3>3, <3>4, <4>1
      <4>5. (\E i \in 1 .. Len(third) : comp = third[i]) <=> comp = <<"e", Z(X)>> \/ comp = <<"tca", Z(X)>>
        BY <3>3, <3>4, <4>1
      <4>. QED  BY <4>2, <4>3, <4>4, <4>5
    <3>. QED  BY <3>1, <3>5 DEF Carries
  <2>2. ASSUME comp \in Comps(op)
        PROVE  \E a \in Axis : comp = <<"cb", a>> \/ comp = <<"e", a>> \/ comp = <<"tca", a>>
    BY <1>4, <2>2 DEF Comps, Names
  <2>3. ASSUME NEW a \in Axis
        PROVE  /\ Extent(<<"cb", a>>, X, len) = len[X] + 1 <=> a = X
               /\ Extent(<<"e", a>>, X, len) = len[X] + 1 <=> a # X
               /\ Extent(<<"tca", a>>, X, len) = len[X] + 1 <=> a # X
    BY <1>1 DEF Extent
  <2>4. \A a \in Axis : <<"cb", a>> \in Comps(op) /\ <<"e", a>> \in Comps(op) /\ <<"tca", a>> \in Comps(op)
    BY <1>4 DEF Comps, Names
  <2>. QED  BY <1>1, <2>1, <2>2, <2>3, <2>4
<1>5. CASE op = "hydro"
  <2>1. Carries(op, X, comp) <=> \E c \in 1 .. 14 : comp = <<"hydro", c>>
    <3>1. PICK parts : parts = Parts(op, X)
      OBVIOUS
    <3>2. Len(parts) = 1 /\ Len(parts[1]) = 14 /\ \A c \in 1 .. 14 : parts[1][c] = <<"hydro", c>>
      BY <1>5, <3>1, HydroShape
    <3>3. \A k : k \in 1 .. 1 <=> k = 1
      OBVIOUS
    <3>4. (\E j \in 1 .. Len(parts) : \E i \in 1 .. Len(parts[j]) : comp = parts[j][i])
            <=> \E c \in 1 .. 14 : comp = <<"hydro", c>>
      <4>1. PICK row : row = parts[1]
        OBVIOUS
      <4>2. (\E j \in 1 .. Len(parts) : \E i \in 1 .. Len(parts[j]) : comp = parts[j][i])
              <=> \E i \in 1 .. Len(row) : comp = row[i]
        BY <3>2, <3>3, <4>1
      <4>3. Len(row) = 14 /\ \A c \in 1 .. 14 : row[c] = <<"hydro", c>>
        BY <3>2, <4>1
      <4>. QED  BY <4>2, <4>3
    <3>. QED  BY <3>1, <3>4 DEF Carries
  <2>2. comp \in Comps(op) <=> \E c \in 1 .. 14 : comp = <<"hydro", c>>
    BY <1>5 DEF Comps, Names
  <2>3. ASSUME NEW c \in 1 .. 14 PROVE Extent(<<"hydro", c>>, X, len) = len[X] + 1
    BY DEF Extent
  <2>. QED  BY <2>1, <2>2, <2>3
<1>. QED  BY <1>2, <1>3, <1>4, <1>5 DEF Exchange, Ghost

\* What lies in a plane of a synchronization.
LEMMA SyncPlane ==
  ASSUME NEW op \in Exchange \ Ghost, NEW X \in Axis, NEW len \in Count, NEW p \in Int, NEW loc
  PROVE  loc \in Plane(op, X, len, p) <=>
           /\ loc = <<loc[1], loc[2]>> /\ loc[1] \in Comps(op)
           /\ Extent(loc[1], X, len) = len[X] + 1
           /\ loc[2] \in [Axis -> Int] /\ loc[2][X] = p
           /\ \A a \in Axis \ {X} : loc[2][a] \in 1 .. Extent(loc[1], a, len)
<1>1. /\ Y(X) \in Axis /\ Z(X) \in Axis /\ Y(X) # X /\ Z(X) # X /\ Y(X) # Z(X)
      /\ \A a \in Axis : a = X \/ a = Y(X) \/ a = Z(X)
  BY PlaneAxes
<1>2. ASSUME loc \in Plane(op, X, len, p)
      PROVE  /\ loc = <<loc[1], loc[2]>> /\ loc[1] \in Comps(op)
             /\ Extent(loc[1], X, len) = len[X] + 1
             /\ loc[2] \in [Axis -> Int] /\ loc[2][X] = p
             /\ \A a \in Axis \ {X} : loc[2][a] \in 1 .. Extent(loc[1], a, len)
  <2>1. PICK j \in 1 .. Len(Parts(op, X)) : \E i \in 1 .. Len(Parts(op, X)[j]) :
          \E y \in 1 .. Extent(Parts(op, X)[j][i], Y(X), len),
             z \in 1 .. Extent(Parts(op, X)[j][i], Z(X), len) :
            loc = <<Parts(op, X)[j][i], PlaneSpot(X, p, y, z)>>
    BY <1>2, InPlane
  <2>2. PICK i \in 1 .. Len(Parts(op, X)[j]) :
          \E y \in 1 .. Extent(Parts(op, X)[j][i], Y(X), len),
             z \in 1 .. Extent(Parts(op, X)[j][i], Z(X), len) :
            loc = <<Parts(op, X)[j][i], PlaneSpot(X, p, y, z)>>
    BY <2>1
  <2>3. PICK comp : comp = Parts(op, X)[j][i]
    OBVIOUS
  <2>4. PICK y \in 1 .. Extent(comp, Y(X), len), z \in 1 .. Extent(comp, Z(X), len) :
          loc = <<comp, PlaneSpot(X, p, y, z)>>
    BY <2>2, <2>3
  <2>5. comp \in Comps(op) /\ Extent(comp, X, len) = len[X] + 1
    <3>1. Carries(op, X, comp)
      BY <2>3 DEF Carries
    <3>. QED  BY <3>1, SyncParts
  <2>6. loc[1] = comp /\ loc[2] = [a \in Axis |-> IF a = X THEN p ELSE IF a = Y(X) THEN y ELSE z]
    BY <2>4 DEF PlaneSpot
  <2>. QED  BY <1>1, <2>4, <2>5, <2>6
<1>3. ASSUME loc = <<loc[1], loc[2]>>, loc[1] \in Comps(op), Extent(loc[1], X, len) = len[X] + 1,
             loc[2] \in [Axis -> Int], loc[2][X] = p,
             \A a \in Axis \ {X} : loc[2][a] \in 1 .. Extent(loc[1], a, len)
      PROVE  loc \in Plane(op, X, len, p)
  <2>1. PICK j \in 1 .. Len(Parts(op, X)) : \E i \in 1 .. Len(Parts(op, X)[j]) : loc[1] = Parts(op, X)[j][i]
    BY <1>3, SyncParts DEF Carries
  <2>2. PICK i \in 1 .. Len(Parts(op, X)[j]) : loc[1] = Parts(op, X)[j][i]
    BY <2>1
  <2>3. PICK y \in 1 .. Extent(loc[1], Y(X), len), z \in 1 .. Extent(loc[1], Z(X), len) :
          y = loc[2][Y(X)] /\ z = loc[2][Z(X)]
    BY <1>1, <1>3
  <2>4. loc[2] = PlaneSpot(X, p, y, z)
    BY <1>1, <1>3, <2>3 DEF PlaneSpot
  <2>5. loc = <<Parts(op, X)[j][i], PlaneSpot(X, p, y, z)>>
    BY <1>3, <2>2, <2>4
  <2>. QED  BY <2>2, <2>3, <2>5, InPlane
<1>. QED  BY <1>2, <1>3

\* Along every axis they have the planes of cells or one more.
LEMMA ExtentNear ==
  ASSUME NEW op \in Exchange \ Ghost, NEW comp \in Comps(op), NEW a, NEW len
  PROVE  Extent(comp, a, len) \in {len[a], len[a] + 1} /\ comp[1] \in Names(op)
<1>1. op \in {"jf", "rho", "tang_e", "hydro"}
  BY DEF Exchange, Ghost
<1>2. comp[1] \in Names(op)
  BY DEF Comps
<1>3. comp[1] \in {"jf", "rhof", "rhob", "cb", "e", "tca", "hydro"}
  BY <1>1, <1>2 DEF Names
<1>. QED  BY <1>2, <1>3 DEF Extent
-----------------------------------------------------------------------------
(***************************************************************************)
(* The contents of the messages.  Between the begin of its group and the   *)
(* call that ends it, a message has a slot for each value of its plane.    *)
(* In a ghost exchange the value there is the sender's own, and each ghost *)
(* that has been received is the value on the plane it was sent from.  In  *)
(* a synchronization it is what the sender has taken in along the lower    *)
(* axes, and a copy has taken in the copies across the faces it has        *)
(* received from.  The two have the same level because both ranks take the *)
(* axes in the same order and end the receives of one before they begin    *)
(* the next.                                                               *)
(***************************************************************************)
Origin(op, e, loc) == <<loc[1], [loc[2] EXCEPT ![AxisOf(e)] = SendPlane(op, Opposite(e), n)]>>

LEMMA LengthOfDeck ==
  ASSUME deck \in Decks, Good
  PROVE  n \in Lengths /\ n \in Count
<1>1. n \in Count
  BY CellsType
<1>. QED  BY <1>1 DEF n, Lengths

\* A synchronization packs and unpacks the plane at the face.
LEMMA SyncTables ==
  ASSUME deck \in Decks, Good, NEW op \in Exchange \ Ghost, NEW e \in Face, NEW x, x = <<op, e, n>>
  PROVE  /\ DOMAIN Packed[x] = Plane(op, AxisOf(e), n, Edge(e))
         /\ DOMAIN Unpacked[x] = Plane(op, AxisOf(e), n, Edge(e))
         /\ \A loc : Origin(op, e, loc) = Across(e, loc)
<1>1. n \in Lengths
  BY LengthOfDeck
<1>2. SendPlane(op, e, n) = Edge(e) /\ RecvPlane(op, e, n) = Edge(e)
  BY DEF SendPlane, RecvPlane, Edge
<1>3. SendPlane(op, Opposite(e), n) = Edge(Opposite(e))
  BY DEF SendPlane, Edge
<1>4. /\ DOMAIN Packed[x] = Plane(op, AxisOf(e), n, SendPlane(op, e, n))
      /\ DOMAIN Unpacked[x] = Plane(op, AxisOf(e), n, RecvPlane(op, e, n))
  BY <1>1, Tables
<1>5. \A loc : Origin(op, e, loc) = Across(e, loc)
  BY <1>3 DEF Origin, Across
<1>. QED  BY <1>2, <1>4, <1>5

\* The places of a synchronization lie in the domain.
LEMMA SyncPlaces ==
  ASSUME deck \in Decks, Good, NEW op \in Exchange \ Ghost, NEW loc \in Places[<<op, n>>]
  PROVE  IsPlace(loc) /\ loc[1] \in Comps(op) /\ loc[1][1] \in Names(op)
<1>1. n \in Lengths /\ n \in Count
  BY LengthOfDeck
<1>2. PICK d \in Face : loc \in DOMAIN Packed[<<op, d, n>>] \cup DOMAIN Unpacked[<<op, d, n>>]
  <2>1. PICK key : key = <<op, n>> /\ key[1] = op /\ key[2] = n
    OBVIOUS
  <2>2. key \in {<<o, len>> : o \in Exchange, len \in Lengths}
    BY <1>1, <2>1
  <2> DEFINE Touched(x) ==
        UNION {DOMAIN Packed[<<x[1], d, x[2]>>] \cup DOMAIN Unpacked[<<x[1], d, x[2]>>] : d \in Face}
  <2>3. loc \in Touched(key)
    <3>1. Places[key] = Touched(key)
      <4> HIDE DEF Touched
      <4>1. Places = [x \in {<<o, len>> : o \in Exchange, len \in Lengths} |-> Touched(x)]
        BY DEF Places, Touched
      <4>. QED  BY <2>2, <4>1
    <3>. QED  BY <2>1, <3>1
  <2>4. PICK d \in Face :
          loc \in DOMAIN Packed[<<key[1], d, key[2]>>] \cup DOMAIN Unpacked[<<key[1], d, key[2]>>]
    BY <2>3
  <2>. QED  BY <2>1, <2>4
<1>3. PICK X \in Axis, p \in Int : X = AxisOf(d) /\ p = Edge(d) /\ p \in 1 .. n[X] + 1
  BY EdgesApart, Faces
<1>4. loc \in Plane(op, X, n, p)
  <2>1. PICK x : x = <<op, d, n>>
    OBVIOUS
  <2>. QED  BY <1>2, <1>3, <2>1, SyncTables
<1>5. /\ loc = <<loc[1], loc[2]>> /\ loc[1] \in Comps(op) /\ Extent(loc[1], X, n) = n[X] + 1
      /\ loc[2] \in [Axis -> Int] /\ loc[2][X] = p
      /\ \A a \in Axis \ {X} : loc[2][a] \in 1 .. Extent(loc[1], a, n)
  BY <1>1, <1>4, SyncPlane
<1>6. ASSUME NEW a \in Axis
      PROVE  Extent(loc[1], a, n) \in {n[a], n[a] + 1} /\ loc[1][1] \in Names(op)
  BY <1>5, ExtentNear
<1>. QED  BY <1>3, <1>5, <1>6, Axes DEF IsPlace

\* The places of a synchronization that a receive of port e unpacks.
LEMMA SyncShares ==
  ASSUME deck \in Decks, Good, NEW op \in Exchange \ Ghost, NEW loc \in Places[<<op, n>>],
         NEW r, NEW e \in Face, Linked(r, e), NEW x, x = <<op, e, n>>
  PROVE  /\ loc \in DOMAIN Unpacked[x] <=> Shares(r, loc, e)
         /\ loc \in DOMAIN Packed[x] <=> Shares(r, loc, e)
<1>1. n \in Count /\ IsPlace(loc) /\ loc[1] \in Comps(op)
  BY LengthOfDeck, SyncPlaces
<1>2. PICK X \in Axis, p \in Int : X = AxisOf(e) /\ p = Edge(e)
  BY EdgesApart, Faces
<1>3. loc \in Plane(op, X, n, p) <=> Extent(loc[1], X, n) = n[X] + 1 /\ loc[2][X] = p
  BY <1>1, SyncPlane DEF IsPlace
<1>4. DOMAIN Unpacked[x] = Plane(op, X, n, p) /\ DOMAIN Packed[x] = Plane(op, X, n, p)
  BY <1>2, SyncTables
<1>. QED  BY <1>2, <1>3, <1>4 DEF Shares

\* A message packs and unpacks places of its exchange.
LEMMA TouchedPlaces ==
  ASSUME deck \in Decks, Good, NEW op \in Exchange, NEW e \in Face, NEW x, x = <<op, e, n>>
  PROVE  DOMAIN Packed[x] \subseteq Places[<<op, n>>] /\ DOMAIN Unpacked[x] \subseteq Places[<<op, n>>]
BY LengthOfDeck DEF Places

\* What lies in a plane of a ghost exchange: its components have as many planes
\* across it as the domain has cells.
LEMMA GhostPlane ==
  ASSUME NEW op \in Ghost, NEW X \in Axis, NEW len \in Count, NEW p, NEW loc \in Plane(op, X, len, p)
  PROVE  /\ op \in Exchange /\ Extent(loc[1], X, len) = len[X]
         /\ loc[2][X] = p
         /\ \A a \in Axis : a # X => loc[2][a] \in 1 .. Extent(loc[1], a, len)
<1>1. op \in Exchange
  BY DEF Ghost, Exchange
<1>2. PICK j \in 1 .. Len(Parts(op, X)) : \E i \in 1 .. Len(Parts(op, X)[j]) :
        \E y \in 1 .. Extent(Parts(op, X)[j][i], Y(X), len),
           z \in 1 .. Extent(Parts(op, X)[j][i], Z(X), len) :
          loc = <<Parts(op, X)[j][i], PlaneSpot(X, p, y, z)>>
  BY <1>1, InPlane
<1>3. PICK i \in 1 .. Len(Parts(op, X)[j]) :
        \E y \in 1 .. Extent(Parts(op, X)[j][i], Y(X), len),
           z \in 1 .. Extent(Parts(op, X)[j][i], Z(X), len) :
          loc = <<Parts(op, X)[j][i], PlaneSpot(X, p, y, z)>>
  BY <1>2
<1>4. PICK y \in 1 .. Extent(Parts(op, X)[j][i], Y(X), len),
           z \in 1 .. Extent(Parts(op, X)[j][i], Z(X), len) :
        loc = <<Parts(op, X)[j][i], PlaneSpot(X, p, y, z)>>
  BY <1>3
<1>5. loc[1] = Parts(op, X)[j][i] /\ loc[2] = PlaneSpot(X, p, y, z)
  BY <1>4
<1>6. Extent(loc[1], X, len) = len[X]
  <2>1. Y(X) # X /\ Z(X) # X
    BY PlaneAxes
  <2>2. CASE op = "tang_b"
    BY <1>5, <2>1, <2>2 DEF Parts, TangBParts, Extent
  <2>3. CASE op = "norm_e"
    BY <1>5, <2>3 DEF Parts, NormEParts, Extent
  <2>4. CASE op = "div_b"
    BY <1>5, <2>4 DEF Parts, DivBParts, Extent
  <2>. QED  BY <2>2, <2>3, <2>4 DEF Ghost
<1>7. \A a \in Axis : loc[2][a] = IF a = X THEN p ELSE IF a = Y(X) THEN y ELSE z
  BY <1>5 DEF PlaneSpot
<1>8. \A a \in Axis : a # X => loc[2][a] \in 1 .. Extent(loc[1], a, len)
  BY <1>4, <1>5, <1>7, PlaneAxes
<1>. QED  BY <1>1, <1>6, <1>7, <1>8

\* No ghost is received twice.
LEMMA GhostsApart ==
  ASSUME NEW op \in Ghost, NEW len \in Count, NEW d \in Face, NEW e \in Face,
         NEW loc \in Plane(op, AxisOf(d), len, RecvPlane(op, d, len)),
         loc \in Plane(op, AxisOf(e), len, RecvPlane(op, e, len))
  PROVE  d = e
<1>1. PICK X \in Axis, W \in Axis : X = AxisOf(d) /\ W = AxisOf(e)
  BY Faces
<1>2. len[X] \in Nat \ {0} /\ len[W] \in Nat \ {0}
  BY DEF Count
<1>3. /\ loc[2][X] = RecvPlane(op, d, len) /\ loc[2][W] = RecvPlane(op, e, len)
      /\ X # W => loc[2][X] \in 1 .. len[X]
  <2>1. /\ Extent(loc[1], X, len) = len[X] /\ loc[2][X] = RecvPlane(op, d, len)
    BY <1>1, GhostPlane
  <2>2. /\ loc[2][W] = RecvPlane(op, e, len)
        /\ \A a \in Axis : a # W => loc[2][a] \in 1 .. Extent(loc[1], a, len)
    BY <1>1, GhostPlane
  <2>. QED  BY <2>1, <2>2
<1>4. /\ RecvPlane(op, d, len) = IF IsLow(d) THEN 0 ELSE len[X] + 1
      /\ RecvPlane(op, e, len) = IF IsLow(e) THEN 0 ELSE len[W] + 1
  BY <1>1 DEF RecvPlane
<1>5. X = W
  BY <1>2, <1>3, <1>4
<1>6. IsLow(d) <=> IsLow(e)
  BY <1>2, <1>3, <1>4, <1>5
<1>7. d \in {0, 1, 2, 3, 4, 5} /\ e \in {0, 1, 2, 3, 4, 5}
  BY DEF Face
<1>. QED  BY <1>1, <1>5, <1>6, <1>7 DEF AxisOf, IsLow

\* A slot does not depend on the plane, so a receiver looks where the sender has
\* put the value.
LEMMA MessageMet ==
  ASSUME deck \in Decks, Good, NEW op \in Exchange, NEW e \in Face,
         NEW x, x = <<op, e, n>>, NEW w, w = <<op, Opposite(e), n>>,
         NEW loc \in DOMAIN Unpacked[x]
  PROVE  /\ Unpacked[x][loc] \in DOMAIN Layout[w]
         /\ Layout[w][Unpacked[x][loc]] = Origin(op, e, loc)
<1>1. /\ n \in Lengths /\ n \in Count /\ op \in Exchange
      /\ Opposite(e) \in Face /\ AxisOf(Opposite(e)) = AxisOf(e) /\ AxisOf(e) \in Axis
  BY LengthOfDeck, Faces
<1>2. PICK X, p, b : X \in Axis /\ X = AxisOf(e) /\ p = RecvPlane(op, e, n) /\ b = SendPlane(op, Opposite(e), n)
  BY <1>1
<1>3. /\ DOMAIN Unpacked[x] = Plane(op, X, n, p)
      /\ Unpacked[x][loc] = Slot(op, X, n, loc[1], loc[2])
  BY <1>1, <1>2, Tables
<1>4. DOMAIN Packed[w] = Plane(op, X, n, b)
  BY <1>1, <1>2, Tables
<1>5. PICK j \in 1 .. Len(Parts(op, X)) : \E i \in 1 .. Len(Parts(op, X)[j]) :
        \E y \in 1 .. Extent(Parts(op, X)[j][i], Y(X), n),
           z \in 1 .. Extent(Parts(op, X)[j][i], Z(X), n) :
          loc = <<Parts(op, X)[j][i], PlaneSpot(X, p, y, z)>>
  BY <1>1, <1>2, <1>3, InPlane
<1>6. PICK i \in 1 .. Len(Parts(op, X)[j]) :
        \E y \in 1 .. Extent(Parts(op, X)[j][i], Y(X), n),
           z \in 1 .. Extent(Parts(op, X)[j][i], Z(X), n) :
          loc = <<Parts(op, X)[j][i], PlaneSpot(X, p, y, z)>>
  BY <1>5
<1>7. PICK y \in 1 .. Extent(Parts(op, X)[j][i], Y(X), n),
           z \in 1 .. Extent(Parts(op, X)[j][i], Z(X), n) :
        loc = <<Parts(op, X)[j][i], PlaneSpot(X, p, y, z)>>
  BY <1>6
<1>8. PICK comp, there : comp = Parts(op, X)[j][i] /\ there = <<comp, PlaneSpot(X, b, y, z)>>
  OBVIOUS
<1>9. there = Origin(op, e, loc)
  <2>1. [PlaneSpot(X, p, y, z) EXCEPT ![X] = b] = PlaneSpot(X, b, y, z)
    BY PlaneAxes, <1>2, <1>1 DEF PlaneSpot
  <2>2. loc[1] = comp /\ loc[2] = PlaneSpot(X, p, y, z)
    BY <1>7, <1>8
  <2>. QED  BY <1>2, <1>8, <2>1, <2>2 DEF Origin
<1>10. there \in DOMAIN Packed[w]
  BY <1>1, <1>2, <1>4, <1>7, <1>8, InPlane
<1>11. Packed[w][there] = Unpacked[x][loc]
  <2>1. Packed[w][there] = Slot(op, X, n, there[1], there[2])
    BY <1>1, <1>2, <1>10, Tables
  <2>2. y \in Nat \ {0} /\ z \in Nat \ {0}
    <3>1. /\ Extent(Parts(op, X)[j][i], Y(X), n) \in Nat \ {0}
          /\ Extent(Parts(op, X)[j][i], Z(X), n) \in Nat \ {0}
      BY <1>1, <1>2, PlaneAxes, PartExtent
    <3>. QED  BY <3>1
  <2>3. /\ Slot(op, X, n, comp, PlaneSpot(X, p, y, z)) = PartStart(op, X, n, j) +
             Number(Len(Parts(op, X)[j]), Extent(Parts(op, X)[j][1], Fast(X), n), i,
                    PlaneSpot(X, p, y, z)[Fast(X)], PlaneSpot(X, p, y, z)[Slow(X)])
        /\ Slot(op, X, n, comp, PlaneSpot(X, b, y, z)) = PartStart(op, X, n, j) +
             Number(Len(Parts(op, X)[j]), Extent(Parts(op, X)[j][1], Fast(X), n), i,
                    PlaneSpot(X, b, y, z)[Fast(X)], PlaneSpot(X, b, y, z)[Slow(X)])
    BY <1>1, <1>2, <1>8, <2>2, SlotIs
  <2>4. /\ PlaneSpot(X, p, y, z)[Fast(X)] = PlaneSpot(X, b, y, z)[Fast(X)]
        /\ PlaneSpot(X, p, y, z)[Slow(X)] = PlaneSpot(X, b, y, z)[Slow(X)]
    BY <1>2, PlaneAxes DEF PlaneSpot, Fast, Slow
  <2>. QED  BY <1>3, <1>7, <1>8, <2>1, <2>3, <2>4
<1>12. Packed[w][there] \in DOMAIN Layout[w] /\ Layout[w][Packed[w][there]] = there
  BY <1>1, <1>10, MessageSlots
<1>. QED  BY <1>9, <1>11, <1>12

-----------------------------------------------------------------------------
\* What an exchange sends, and what has been received of exchange o; Latest: the
\* values at place x are those of exchange o.  A synchronization sends across an
\* axis what has come in along the lower ones.
Lower(A, X) == {a \in A : a < X}
Shipped(op, r, d, loc) ==
  IF op \in Ghost THEN Own(r, loc) ELSE Level(r, loc, Lower(Shared(r, loc), AxisOf(d)))
MessageOf(op, r, d) ==
  [s \in DOMAIN Layout[<<op, d, n>>] |-> Shipped(op, r, d, Layout[<<op, d, n>>][s])]
Received(x, o, e) == Past(x, o, Opposite(e), RecvCall(o, Opposite(e)))
Latest(x, o) ==
  \/ x.op = o /\ x.group > 0
  \/ x.op > o /\ \A i \in Uses : i > o => i > x.op \/ (i = x.op /\ x.group = 0)

\* The axes along which a copy has taken in the one across.
Met(r, o, x, loc) ==
  {a \in Axis : \E e \in Face : AxisOf(e) = a /\ Shares(r, loc, e) /\ Received(x, o, e)}

\* A send buffer, a receive buffer and the values of rank r at place x.
SendHolds(r, d, x, buf) ==
  Linked(r, d) /\ During(x, d, SendCall(x.op, d)) => buf = MessageOf(Program[x.op], r, d)
RecvHolds(r, e, x, req, buf) ==
  Linked(r, e) /\ During(x, Opposite(e), RecvCall(x.op, Opposite(e))) /\ req.state = "full"
  => buf = MessageOf(Program[x.op], Behind(r, e), Opposite(e))
GhostsHold(r, o, x, values) ==
  /\ x.group = 1 /\ x.next = 0 => \A loc \in Places[<<Program[o], n>>] : values[loc] = Own(r, loc)
  /\ \A e \in Face : Linked(r, e) /\ Received(x, o, e) =>
       \A loc \in DOMAIN Unpacked[<<Program[o], e, n>>] :
         values[loc] = Own(Behind(r, e), Origin(Program[o], e, loc))
SharesHold(r, o, x, values) ==
  \A loc \in Places[<<Program[o], n>>] : values[loc] = Level(r, loc, Met(r, o, x, loc))
ValuesHold(r, o, x, values) ==
  Latest(x, o) =>
    /\ DOMAIN values = Places[<<Program[o], n>>]
    /\ IF Program[o] \in Ghost THEN GhostsHold(r, o, x, values) ELSE SharesHold(r, o, x, values)
ContentsOK ==
  /\ DOMAIN k_f_d = Rank
  /\ \A r \in Rank, d \in Face : /\ SendHolds(r, d, at[r], sbuf[r][d])
                                 /\ RecvHolds(r, d, at[r], rreq[r][d], rbuf[r][d])
  /\ \A r \in Rank, o \in Uses : ValuesHold(r, o, at[r], k_f_d[r])
FieldInv == PortInv /\ ContentsOK

\* What a copy has is a function of the deck.
LEMMA LevelFixed ==
  ASSUME deck' = deck, NEW r \in Rank, NEW loc, NEW A
  PROVE  /\ Level(r, loc, A)' = Level(r, loc, A) /\ Shared(r, loc)' = Shared(r, loc)
         /\ \A d \in Face : Shares(r, loc, d)' <=> Shares(r, loc, d)
<1>1. /\ n' = n
      /\ \A q \in Rank, d \in Face : Behind(q, d)' = Behind(q, d) /\ (Linked(q, d)' <=> Linked(q, d))
  BY DeckFixed DEF Linked
<1>2. \A d : Edge(d)' = Edge(d)
  BY <1>1 DEF Edge
<1>3. \A d \in Face : Shares(r, loc, d)' <=> Shares(r, loc, d)
  BY <1>1, <1>2 DEF Shares
<1>4. \A q : Index(q)' = Index(q)
  BY DEF Index
<1>5. \A a : Alike(r, loc, a)' = Alike(r, loc, a)
  BY <1>1 DEF Alike
<1>6. Reach(r, loc, A)' = Reach(r, loc, A)
  BY <1>4, <1>5 DEF Reach
<1>7. \A d \in Face : MakesAt(r, loc, d)' = MakesAt(r, loc, d)
  BY <1>1, <1>2 DEF MakesAt
<1>8. FactorOf(r, loc)' = FactorOf(r, loc)
  BY <1>7 DEF FactorOf, Face
<1>9. Level(r, loc, A)' = Level(r, loc, A)
  BY <1>6, <1>8 DEF Level
<1>10. Shared(r, loc)' = Shared(r, loc)
  BY <1>3 DEF Shared
<1>. QED  BY <1>3, <1>9, <1>10

LEMMA ContentsFrom ==
  ASSUME deck' = deck, DOMAIN k_f_d' = Rank,
         \A r \in Rank, d \in Face : /\ SendHolds(r, d, at'[r], sbuf'[r][d])
                                     /\ RecvHolds(r, d, at'[r], rreq'[r][d], rbuf'[r][d]),
         \A r \in Rank, o \in Uses : ValuesHold(r, o, at'[r], k_f_d'[r])
  PROVE  ContentsOK'
<1>1. /\ n' = n
      /\ \A r \in Rank, d \in Face : Behind(r, d)' = Behind(r, d) /\ (Linked(r, d)' <=> Linked(r, d))
  BY DeckFixed DEF Linked
<1>2. ASSUME NEW q \in Rank, NEW op, NEW c PROVE MessageOf(op, q, c)' = MessageOf(op, q, c)
  <2>1. \A loc : Shipped(op, q, c, loc)' = Shipped(op, q, c, loc)
    BY LevelFixed DEF Shipped
  <2>. QED  BY <1>1, <2>1 DEF MessageOf
<1>3. ASSUME NEW r \in Rank, NEW d \in Face
      PROVE  /\ SendHolds(r, d, at[r], sbuf[r][d])'
             /\ RecvHolds(r, d, at[r], rreq[r][d], rbuf[r][d])'
  <2>1. SendHolds(r, d, at'[r], sbuf'[r][d])
    OBVIOUS
  <2>2. RecvHolds(r, d, at'[r], rreq'[r][d], rbuf'[r][d])
    OBVIOUS
  <2>3. SendHolds(r, d, at[r], sbuf[r][d])'
    BY <1>1, <1>2, <2>1 DEF SendHolds
  <2>4. Linked(r, d) => Behind(r, d) \in Rank
    BY DEF Linked
  <2>5. RecvHolds(r, d, at[r], rreq[r][d], rbuf[r][d])'
    BY <1>1, <1>2, <2>2, <2>4 DEF RecvHolds
  <2>. QED  BY <2>3, <2>5
<1>4. ASSUME NEW r \in Rank, NEW o \in Uses PROVE ValuesHold(r, o, at[r], k_f_d[r])'
  <2>1. ValuesHold(r, o, at'[r], k_f_d'[r])
    OBVIOUS
  <2>2. \A op, e, loc : Origin(op, e, loc)' = Origin(op, e, loc)
    BY <1>1 DEF Origin
  <2>3. \A loc : (Met(r, o, at[r], loc))' = Met(r, o, at'[r], loc)
    BY LevelFixed DEF Met
  <2>4. \A loc : (Level(r, loc, Met(r, o, at[r], loc)))' = Level(r, loc, Met(r, o, at'[r], loc))
    BY <2>3, LevelFixed
  <2>5. GhostsHold(r, o, at'[r], k_f_d'[r]) => GhostsHold(r, o, at[r], k_f_d[r])'
    BY <1>1, <2>2 DEF GhostsHold
  <2>6. SharesHold(r, o, at'[r], k_f_d'[r]) => SharesHold(r, o, at[r], k_f_d[r])'
    BY <1>1, <2>4 DEF SharesHold
  <2>. QED  BY <1>1, <2>1, <2>5, <2>6 DEF ValuesHold
<1>. QED  BY <1>3, <1>4 DEF ContentsOK

\* A step of rank r to place y.
LEMMA ContentsStep ==
  ASSUME FieldInv, NEW r \in Rank, NEW y, deck' = deck, at' = [at EXCEPT ![r] = y], OthersKept(r),
         DOMAIN k_f_d' = Rank, \A q \in Rank \ {r} : k_f_d'[q] = k_f_d[q],
         \A d \in Face : /\ SendHolds(r, d, y, sbuf'[r][d])
                         /\ RecvHolds(r, d, y, rreq'[r][d], rbuf'[r][d]),
         \A o \in Uses : ValuesHold(r, o, y, k_f_d'[r])
  PROVE  ContentsOK'
<1>1. at'[r] = y /\ \A q \in Rank \ {r} : at'[q] = at[q]
  BY DEF FieldInv, PortInv, PlaceOK
<1>2. ASSUME NEW q \in Rank, NEW d \in Face
      PROVE  /\ SendHolds(q, d, at'[q], sbuf'[q][d])
             /\ RecvHolds(q, d, at'[q], rreq'[q][d], rbuf'[q][d])
  <2>1. CASE q = r
    BY <1>1, <2>1
  <2>2. CASE q # r
    BY <1>1, <2>2 DEF FieldInv, ContentsOK, OthersKept
  <2>. QED  BY <2>1, <2>2
<1>3. ASSUME NEW q \in Rank, NEW o \in Uses PROVE ValuesHold(q, o, at'[q], k_f_d'[q])
  <2>1. CASE q = r
    BY <1>1, <2>1
  <2>2. CASE q # r
    BY <1>1, <2>2 DEF FieldInv, ContentsOK
  <2>. QED  BY <2>1, <2>2
<1>. QED  BY <1>2, <1>3, ContentsFrom

LEMMA GhostSchedule ==
  ASSUME NEW o \in Uses, Program[o] \in Ghost, NEW d \in Face
  PROVE  /\ GroupAt(o, d) = 1 /\ Height(Program[o]) = 1 /\ Width(Program[o]) = 6
         /\ RecvCall(o, d) \in 1 .. 6 /\ SendCall(o, d) \in 7 .. 12
BY DEF GroupAt, GroupOf, Height, Width, RecvCall, SendCall, PlaceIn, Face

\* A synchronization takes the axes in their order, a ghost exchange all at once.
LEMMA SyncSchedule ==
  ASSUME NEW o \in Uses, Program[o] \notin Ghost, NEW d \in Face
  PROVE  /\ GroupAt(o, d) = AxisOf(d) + 1 /\ Height(Program[o]) = 3 /\ Width(Program[o]) = 2
         /\ RecvCall(o, d) \in 1 .. 2 /\ SendCall(o, d) \in 3 .. 4
BY DEF GroupAt, GroupOf, Height, Width, RecvCall, SendCall, PlaceIn, Face

\* When a receive ends, what was sent from the same port is still there.
LEMMA ReceivesFirst ==
  ASSUME NEW x \in Place, x.op \in Uses, NEW f \in Face, During(x, f, RecvCall(x.op, f))
  PROVE  During(x, Opposite(f), SendCall(x.op, Opposite(f)))
<1>1. Opposite(f) \in Face /\ AxisOf(Opposite(f)) = AxisOf(f)
  BY Faces
<1>2. x.next \in 0 .. 12
  BY DEF Place
<1>3. CASE Program[x.op] \in Ghost
  <2>1. /\ GroupAt(x.op, f) = GroupAt(x.op, Opposite(f)) /\ RecvCall(x.op, f) \in 1 .. 6
        /\ SendCall(x.op, Opposite(f)) \in 7 .. 12
    BY <1>1, <1>3, GhostSchedule
  <2>. QED  BY <1>2, <2>1 DEF During
<1>4. CASE Program[x.op] \notin Ghost
  <2>1. /\ GroupAt(x.op, f) = GroupAt(x.op, Opposite(f)) /\ RecvCall(x.op, f) \in 1 .. 2
        /\ SendCall(x.op, Opposite(f)) \in 3 .. 4
    BY <1>1, <1>4, SyncSchedule
  <2>. QED  BY <1>2, <2>1 DEF During
<1>. QED  BY <1>3, <1>4

\* Before the receives of a group, what has come in came along the lower axes.
LEMMA MetBelow ==
  ASSUME NEW x \in Place, x.op \in Uses, Program[x.op] \notin Ghost, NEW d \in Face, NEW X, X = AxisOf(d),
         x.group = GroupAt(x.op, d), NEW r, NEW loc,
         \A e \in Face : AxisOf(e) = X /\ Shares(r, loc, e) => ~Received(x, x.op, e)
  PROVE  Met(r, x.op, x, loc) = Lower(Shared(r, loc), X)
<1>1. ASSUME NEW e \in Face, AxisOf(e) # X
      PROVE  Received(x, x.op, e) <=> AxisOf(e) < X
  <2>1. Opposite(e) \in Face /\ AxisOf(Opposite(e)) = AxisOf(e)
    BY Faces
  <2>2. GroupAt(x.op, Opposite(e)) = AxisOf(e) + 1 /\ x.group = X + 1
    BY <2>1, SyncSchedule
  <2>3. AxisOf(e) \in Nat /\ X \in Nat
    BY Faces DEF Axis
  <2>4. x.op \in 1 .. 10
    BY ProgramIs
  <2>. QED  BY <1>1, <2>2, <2>3, <2>4 DEF Received, Past
<1>2. X \in Axis
  BY Faces
<1>3. ASSUME NEW a \in Axis
      PROVE  a \in Met(r, x.op, x, loc) <=> a \in Shared(r, loc) /\ a < X
  <2>1. CASE a = X
    BY <1>2, <2>1 DEF Met, Axis
  <2>2. CASE a # X
    BY <1>1, <2>2 DEF Met, Shared
  <2>. QED  BY <2>1, <2>2
<1>. QED  BY <1>3 DEF Met, Shared, Lower

\* During an exchange the values are its own, and no step but the adjustment
\* makes them those of another.
LEMMA LatestIs ==
  ASSUME NEW x \in Place, x.op \in Uses, x.group > 0, NEW o \in Uses, Latest(x, o)
  PROVE  o = x.op
<1>1. x.op \in 1 .. 11 /\ o \in 1 .. 10 /\ x.group \in 0 .. 3
  BY ProgramIs DEF Place
<1>. QED  BY <1>1 DEF Latest

LEMMA LatestAfter ==
  ASSUME NEW x \in Place, x.op \in Uses, x.group > 0, x.next > 0, NEW o \in Uses, Latest(After(x), o)
  PROVE  /\ o = x.op /\ Latest(x, o) /\ ~(After(x).group = 1 /\ After(x).next = 0)
<1>1. PICK op \in 1 .. 10, group \in 1 .. 3, next \in 1 .. 12 :
        x = [op |-> op, group |-> group, next |-> next]
  BY ProgramIs DEF Place
<1>2. /\ o \in 1 .. 10
      /\ \/ After(x) = [op |-> op, group |-> group, next |-> next + 1]
         \/ After(x) = [op |-> op, group |-> group + 1, next |-> 0]
         \/ After(x) = [op |-> op + 1, group |-> 0, next |-> 0]
  BY <1>1, ProgramIs DEF After
<1>3. o = op
  <2>1. CASE After(x).op = op
    BY <1>1, <1>2, <2>1 DEF Latest
  <2>2. CASE After(x) = [op |-> op + 1, group |-> 0, next |-> 0]
    BY <1>1, <1>2, <2>2 DEF Latest
  <2>. QED  BY <1>2, <2>1, <2>2
<1>. QED  BY <1>1, <1>2, <1>3 DEF Latest

\* Values that stay as they are still hold after a step without a receive.
LEMMA ValuesKept ==
  ASSUME NEW r, NEW o \in Uses, NEW x, NEW y, NEW values, ValuesHold(r, o, x, values), Latest(x, o),
         ~(y.group = 1 /\ y.next = 0), \A e \in Face : Received(y, o, e) <=> Received(x, o, e)
  PROVE  ValuesHold(r, o, y, values)
<1>1. \A loc : Met(r, o, y, loc) = Met(r, o, x, loc)
  BY DEF Met
<1>2. GhostsHold(r, o, x, values) => GhostsHold(r, o, y, values)
  BY DEF GhostsHold
<1>3. SharesHold(r, o, x, values) => SharesHold(r, o, y, values)
  BY <1>1 DEF SharesHold
<1>. QED  BY <1>2, <1>3 DEF ValuesHold

LEMMA AdjustContents ==
  ASSUME FieldInv, NEW r \in Rank, Adjust(r)
  PROVE  ContentsOK'
<1>1. /\ Working(r) /\ Op(r) \in Exchange /\ at[r].group = 0 /\ deck' = deck
      /\ UNCHANGED <<sbuf, rbuf, sreq, rreq>> /\ GridOK /\ PlaceOK
  BY DEF Adjust, portVars, FieldInv, PortInv
<1>2. at[r] \in Place /\ at[r].op \in Uses /\ at[r].op \in 1 .. 10 /\ at[r].next = 0
  BY <1>1, Ready DEF Place
<1>3. PICK y : /\ y = [op |-> at[r].op, group |-> 1, next |-> 0] /\ at' = [at EXCEPT ![r] = y]
  <2>1. [at[r] EXCEPT !.group = 1] = [op |-> at[r].op, group |-> 1, next |-> 0]
    BY <1>2 DEF Place
  <2>2. at' = [at EXCEPT ![r].group = 1]
    BY DEF Adjust
  <2>. QED  BY <2>1, <2>2
<1>4. PICK places : places = Places[<<Op(r), n>>]
  OBVIOUS
<1>5. PICK values : /\ k_f_d' = [k_f_d EXCEPT ![r] = values] /\ DOMAIN values = places
                    /\ \A loc \in places : values[loc] =
                         IF Op(r) \in Ghost THEN Own(r, loc) ELSE Times(Factor(r, loc), Own(r, loc))
  <2>1. k_f_d' = [k_f_d EXCEPT ![r] = [loc \in places |->
                    IF Op(r) \in Ghost THEN Own(r, loc) ELSE Times(Factor(r, loc), Own(r, loc))]]
    BY <1>4 DEF Adjust
  <2>2. PICK values : values = [loc \in places |->
          IF Op(r) \in Ghost THEN Own(r, loc) ELSE Times(Factor(r, loc), Own(r, loc))]
    OBVIOUS
  <2>3. k_f_d' = [k_f_d EXCEPT ![r] = values]
    BY <2>1, <2>2
  <2>4. /\ DOMAIN values = places
        /\ \A loc \in places : values[loc] =
             IF Op(r) \in Ghost THEN Own(r, loc) ELSE Times(Factor(r, loc), Own(r, loc))
    BY <2>2
  <2>. QED  BY <2>3, <2>4
<1>6. /\ k_f_d'[r] = values /\ DOMAIN k_f_d' = Rank /\ \A q \in Rank \ {r} : k_f_d'[q] = k_f_d[q]
  BY <1>5 DEF FieldInv, ContentsOK
<1>7. OthersKept(r)
  BY <1>1 DEF OthersKept
<1>8. ASSUME NEW d \in Face
      PROVE  SendHolds(r, d, y, sbuf'[r][d]) /\ RecvHolds(r, d, y, rreq'[r][d], rbuf'[r][d])
  <2>1. \A c, call : ~During(y, c, call)
    BY <1>3 DEF During
  <2>. QED  BY <2>1 DEF SendHolds, RecvHolds
<1>9. ASSUME NEW o \in Uses PROVE ValuesHold(r, o, y, k_f_d'[r])
  <2> SUFFICES ASSUME Latest(y, o)
               PROVE  ValuesHold(r, o, y, k_f_d'[r])
    BY DEF ValuesHold
  <2>1. o = y.op
    <3>1. y \in Place
      BY <1>2, <1>3, Moving, Shape DEF Place
    <3>. QED  BY <1>2, <1>3, <3>1, LatestIs
  <2>2. Program[o] = Op(r) /\ Op(r) \in Exchange
    BY <1>1, <1>3, <2>1 DEF Op
  <2>3. ASSUME NEW e \in Face PROVE ~Received(y, o, e)
    <3>1. Opposite(e) \in Face
      BY Faces
    <3>2. GroupAt(o, Opposite(e)) \in 1 .. 3 /\ RecvCall(o, Opposite(e)) \in 1 .. 12 /\ o \in 1 .. 10
      BY <3>1, CallRange
    <3>. QED  BY <1>2, <1>3, <2>1, <3>2 DEF Received, Past
  <2>4. CASE Op(r) \in Ghost
    BY <1>4, <1>5, <1>6, <2>2, <2>3, <2>4 DEF ValuesHold, GhostsHold
  <2>5. CASE Op(r) \notin Ghost
    <3>1. deck \in Decks /\ Good /\ bc[r] = [d \in Face |-> Behind(r, d)]
      BY <1>1, Ready DEF GridOK
    <3>2. ASSUME NEW loc \in places PROVE values[loc] = Level(r, loc, Met(r, o, y, loc))
      <4>1. IsPlace(loc)
        BY <1>4, <2>2, <2>5, <3>1, SyncPlaces
      <4>2. Met(r, o, y, loc) = {}
        BY <2>3 DEF Met
      <4>3. values[loc] = Times(FactorOf(r, loc), Own(r, loc))
        BY <1>5, <2>5, <3>1, FactorIs
      <4>. QED  BY <3>1, <4>1, <4>2, <4>3, LevelNone
    <3>. QED  BY <1>4, <1>5, <1>6, <2>2, <2>5, <3>2 DEF ValuesHold, SharesHold
  <2>. QED  BY <2>4, <2>5
<1>. QED  BY <1>1, <1>3, <1>6, <1>7, <1>8, <1>9, ContentsStep

LEMMA BeginContents ==
  ASSUME FieldInv, NEW r \in Rank, BeginExchange(r)
  PROVE  ContentsOK'
<1>1. /\ Working(r) /\ at[r].group > 0 /\ at[r].next = 0 /\ PortInv
      /\ deck' = deck /\ k_f_d' = k_f_d /\ GridOK /\ PlaceOK
  BY DEF BeginExchange, FieldInv, PortInv
<1>2. /\ at[r] \in Place /\ at[r].op \in 1 .. 10 /\ at[r].op \in Uses /\ Good /\ deck \in Decks
      /\ Op(r) = Program[at[r].op] /\ Op(r) \in Exchange
      /\ \A d \in Face : Connected(r, d) <=> Linked(r, d)
      /\ \A d \in Face : d \in Range(Group(r)) <=> GroupAt(at[r].op, d) = at[r].group
  BY <1>1, Ready, ReadyGroup DEF Op, GridOK
<1>3. PICK y : /\ y = [at[r] EXCEPT !.next = 1]
               /\ y = [op |-> at[r].op, group |-> at[r].group, next |-> 1]
               /\ at' = [at EXCEPT ![r] = y]
  <2>1. [at[r] EXCEPT !.next = 1] = [op |-> at[r].op, group |-> at[r].group, next |-> 1]
    BY <1>2 DEF Place
  <2>2. at' = [at EXCEPT ![r].next = 1]
    BY DEF BeginExchange
  <2>. QED  BY <2>1, <2>2
<1>4. /\ \A d \in Face, o \in Uses :
           \A call \in {RecvCall(o, d), SendCall(o, d)} :
             Past(y, o, d, call) <=> Past(at[r], o, d, call)
      /\ \A d \in Face : \A call \in {RecvCall(at[r].op, d), SendCall(at[r].op, d)} :
           During(y, d, call) <=> at[r].group = GroupAt(at[r].op, d)
  BY <1>1, <1>2, <1>3, Moving
<1>5. PICK S, R : /\ S = {d \in Face : d \in Range(Group(r)) /\ Connected(r, d)}
                  /\ R = {d \in Face : Opposite(d) \in Range(Group(r)) /\ Connected(r, d)}
  OBVIOUS
<1>6. ASSUME NEW d \in Face
      PROVE  /\ d \in S <=> Linked(r, d) /\ During(y, d, SendCall(y.op, d))
             /\ d \in R <=>
                  Linked(r, d) /\ During(y, Opposite(d), RecvCall(y.op, Opposite(d)))
  BY <1>2, <1>3, <1>4, <1>5, Faces
<1>7. /\ rreq' = [rreq EXCEPT ![r] = [d \in Face |-> IF d \in R THEN Posted(r) ELSE rreq[r][d]]]
      /\ sbuf' = [sbuf EXCEPT ![r] =
                    [d \in Face |-> IF d \in S THEN Message(r, d) ELSE sbuf[r][d]]]
      /\ rbuf' = [rbuf EXCEPT ![r] = [d \in Face |-> IF d \in R THEN <<>> ELSE rbuf[r][d]]]
      /\ sreq' = [sreq EXCEPT ![r] = [d \in Face |-> IF d \in S THEN Posted(r) ELSE sreq[r][d]]]
  BY <1>5 DEF BeginExchange
<1>8. OthersKept(r)
  BY <1>1, <1>7 DEF PortInv, SendsOK, RecvsOK, OthersKept
<1>9. ASSUME NEW d \in Face, d \in S PROVE sbuf'[r][d] = MessageOf(Op(r), r, d)
  <2>1. PICK w, layout : w = <<Op(r), d, n>> /\ layout = Layout[w]
    OBVIOUS
  <2>2. sbuf'[r][d] = [s \in DOMAIN layout |-> k_f_d[r][layout[s]]]
    <3>1. sbuf'[r][d] = Message(r, d)
      BY <1>1, <1>7, <1>9 DEF PortInv, SendsOK
    <3>. QED  BY <2>1, <3>1 DEF Message
  <2>3. /\ Program[at[r].op] = Op(r) /\ GroupAt(at[r].op, d) = at[r].group
        /\ Latest(at[r], at[r].op) /\ ValuesHold(r, at[r].op, at[r], k_f_d[r])
    BY <1>1, <1>2, <1>5, <1>9 DEF FieldInv, ContentsOK, Latest
  <2>4. ASSUME NEW s \in DOMAIN layout PROVE k_f_d[r][layout[s]] = Shipped(Op(r), r, d, layout[s])
    <3>1. PICK loc : loc = layout[s]
      OBVIOUS
    <3>2. loc \in DOMAIN Packed[w]
      BY <1>2, <2>1, <3>1, LengthOfDeck, Tables
    <3>3. loc \in Places[<<Op(r), n>>]
      BY <1>2, <2>1, <3>2, TouchedPlaces
    <3>4. CASE Op(r) \in Ghost
      <4>1. at[r].group = 1
        BY <1>2, <2>3, <3>4, GhostSchedule
      <4>. QED  BY <1>1, <2>3, <3>1, <3>3, <3>4, <4>1 DEF ValuesHold, GhostsHold, Shipped
    <3>5. CASE Op(r) \notin Ghost
      <4>1. k_f_d[r][loc] = Level(r, loc, Met(r, at[r].op, at[r], loc))
        BY <2>3, <3>3, <3>5 DEF ValuesHold, SharesHold
      <4>2. PICK X : X = AxisOf(d)
        OBVIOUS
      <4>3. ASSUME NEW e \in Face, AxisOf(e) = X PROVE ~Received(at[r], at[r].op, e)
        <5>1. Opposite(e) \in Face /\ AxisOf(Opposite(e)) = X
          BY <4>3, Faces
        <5>2. /\ GroupAt(at[r].op, Opposite(e)) = GroupAt(at[r].op, d)
              /\ RecvCall(at[r].op, Opposite(e)) \in 1 .. 2
          BY <1>2, <2>3, <3>5, <4>2, <5>1, SyncSchedule
        <5>3. at[r].group \in Nat /\ at[r].op \in Nat
          BY <1>2 DEF Place
        <5>. QED  BY <1>1, <2>3, <5>2, <5>3 DEF Received, Past
      <4>4. Met(r, at[r].op, at[r], loc) = Lower(Shared(r, loc), X)
        <5>1. PICK x \in Place : x = at[r]
          BY <1>2
        <5>2. /\ x.op \in Uses /\ Program[x.op] \notin Ghost /\ x.group = GroupAt(x.op, d)
              /\ \A e \in Face : AxisOf(e) = X /\ Shares(r, loc, e) => ~Received(x, x.op, e)
          BY <1>2, <2>3, <3>5, <4>3, <5>1
        <5>3. Met(r, x.op, x, loc) = Lower(Shared(r, loc), X)
          BY <4>2, <5>2, MetBelow
        <5>. QED  BY <5>1, <5>3
      <4>. QED  BY <3>1, <3>5, <4>1, <4>2, <4>4 DEF Shipped
    <3>. QED  BY <3>4, <3>5
  <2>. QED  BY <2>1, <2>2, <2>4 DEF MessageOf
<1>10. ASSUME NEW d \in Face
       PROVE  SendHolds(r, d, y, sbuf'[r][d]) /\ RecvHolds(r, d, y, rreq'[r][d], rbuf'[r][d])
  <2>1. SendHolds(r, d, y, sbuf'[r][d])
    BY <1>2, <1>3, <1>6, <1>9 DEF SendHolds
  <2>2. d \in R => rreq'[r][d].state = "posted"
    BY <1>1, <1>7 DEF PortInv, RecvsOK, Posted
  <2>3. RecvHolds(r, d, y, rreq'[r][d], rbuf'[r][d])
    BY <1>6, <2>2 DEF RecvHolds
  <2>. QED  BY <2>1, <2>3
<1>11. ASSUME NEW o \in Uses PROVE ValuesHold(r, o, y, k_f_d'[r])
  <2> SUFFICES ASSUME Latest(y, o)
               PROVE  ValuesHold(r, o, y, k_f_d'[r])
    BY DEF ValuesHold
  <2>1. Latest(at[r], o)
    BY <1>1, <1>3 DEF Latest
  <2>2. \A e \in Face : Received(y, o, e) <=> Received(at[r], o, e)
    BY <1>4, Faces DEF Received
  <2>3. ValuesHold(r, o, at[r], k_f_d[r])
    BY DEF FieldInv, ContentsOK
  <2>. QED  BY <1>1, <1>3, <2>1, <2>2, <2>3, ValuesKept
<1>12. DOMAIN k_f_d' = Rank /\ \A q \in Rank \ {r} : k_f_d'[q] = k_f_d[q]
  BY <1>1 DEF FieldInv, ContentsOK
<1>. QED  BY <1>1, <1>3, <1>8, <1>10, <1>11, <1>12, ContentsStep

\* What a receive makes of the values.
LEMMA ReceivedValues ==
  ASSUME FieldInv, NEW r \in Rank, NEW f \in Face, NEW e \in Face, e = Opposite(f),
         at[r].op \in Uses, Linked(r, e), Good,
         During(at[r], f, RecvCall(at[r].op, f)), rreq[r][e].state # "posted"
  PROVE  /\ sbuf[r][e] # NULL /\ DOMAIN Unpack(r, e) = DOMAIN k_f_d[r]
         /\ \A loc \in DOMAIN k_f_d[r] :
              IF loc \in DOMAIN Unpacked[<<Op(r), e, n>>]
                THEN Unpack(r, e)[loc] =
                       Merged(Op(r), loc[1], k_f_d[r][loc],
                              Shipped(Op(r), Behind(r, e), f, Origin(Op(r), e, loc)))
                ELSE Unpack(r, e)[loc] = k_f_d[r][loc]
<1>. PICK values : values = Unpack(r, e)
  OBVIOUS
<1>1. /\ PortInv /\ GridOK /\ deck \in Decks /\ Op(r) = Program[at[r].op] /\ Op(r) \in Exchange
      /\ Opposite(e) = f /\ at[r] \in Place
  BY Faces, ProgramIs DEF FieldInv, PortInv, GridOK, PlaceOK, Op
<1>2. PICK x, w : x = <<Op(r), e, n>> /\ w = <<Op(r), f, n>>
  OBVIOUS
<1>3. n \in Lengths /\ n \in Count
  BY <1>1, LengthOfDeck
<1>4. During(at[r], e, SendCall(at[r].op, e))
  BY <1>1, ReceivesFirst
<1>5. sbuf[r][e] # NULL
  <2>1. sbuf[r][e] = MessageOf(Op(r), r, e)
    BY <1>1, <1>4 DEF FieldInv, ContentsOK, SendHolds
  <2>2. DOMAIN sbuf[r][e] = DOMAIN Layout[x]
    BY <1>2, <2>1 DEF MessageOf
  <2>3. DOMAIN Layout[x] = Header(Op(r)) .. Size(Op(r), AxisOf(e), n) - 1
    BY <1>1, <1>2, <1>3, MessageSlots
  <2>4. Header(Op(r)) \in {0, 1} /\ Size(Op(r), AxisOf(e), n) \in Nat
    BY <1>1, <1>3, Faces, PartsFollow
  <2>5. -1 \notin DOMAIN Layout[x]
    BY <2>3, <2>4
  <2>6. DOMAIN NULL = {-1}
    BY DEF NULL
  <2>. QED  BY <2>2, <2>5, <2>6
<1>6. rreq[r][e].state = "full"
  <2>1. Receiving(r, e)
    BY <1>1 DEF Receiving
  <2>2. rreq[r][e] \in [state : {"idle", "posted", "full"}, op : 0 .. 11]
    BY <1>1 DEF PortInv, RecvsOK
  <2>3. rreq[r][e].state # "idle"
    BY <1>1, <2>1 DEF PortInv, RecvsOK
  <2>. QED  BY <2>2, <2>3
<1>7. rbuf[r][e] = MessageOf(Op(r), Behind(r, e), f)
  BY <1>1, <1>6 DEF FieldInv, ContentsOK, RecvHolds
<1>8. ASSUME NEW loc \in DOMAIN Unpacked[x]
      PROVE  rbuf[r][e][Unpacked[x][loc]] = Shipped(Op(r), Behind(r, e), f, Origin(Op(r), e, loc))
  <2>1. /\ Unpacked[x][loc] \in DOMAIN Layout[w]
        /\ Layout[w][Unpacked[x][loc]] = Origin(Op(r), e, loc)
    BY <1>1, <1>2, MessageMet
  <2>. QED  BY <1>2, <1>7, <2>1 DEF MessageOf
<1>9. values = [loc \in DOMAIN k_f_d[r] |->
                  IF loc \in DOMAIN Unpacked[x]
                    THEN Merged(Op(r), loc[1], k_f_d[r][loc], rbuf[r][e][Unpacked[x][loc]])
                    ELSE k_f_d[r][loc]]
  BY <1>2 DEF Unpack
<1>. QED  BY <1>2, <1>5, <1>8, <1>9

\* A copy of a shared value takes in what the one across the face has.
LEMMA ReceivedShares ==
  ASSUME FieldInv, NEW r \in Rank, NEW f \in Face, NEW e \in Face, e = Opposite(f),
         at[r].op \in Uses, Linked(r, e), Good,
         During(at[r], f, RecvCall(at[r].op, f)), rreq[r][e].state # "posted",
         NEW op, op = Op(r), op \notin Ghost, NEW x, x = at[r], NEW loc \in Places[<<op, n>>],
         NEW A, A = Met(r, x.op, x, loc), k_f_d[r][loc] = Level(r, loc, A), loc \in DOMAIN k_f_d[r]
  PROVE  Unpack(r, e)[loc] =
           IF Shares(r, loc, e) THEN Level(r, loc, A \cup {AxisOf(e)}) ELSE Level(r, loc, A)
<1>1. /\ PortInv /\ GridOK /\ deck \in Decks /\ op = Program[x.op] /\ op \in Exchange \ Ghost
      /\ Opposite(e) = f /\ x \in Place /\ AxisOf(f) = AxisOf(e)
  BY Faces, ProgramIs DEF FieldInv, PortInv, GridOK, PlaceOK, Op
<1>2. PICK t : t = <<op, e, n>>
  OBVIOUS
<1>3. loc \in DOMAIN Unpacked[t] <=> Shares(r, loc, e)
  BY <1>1, <1>2, SyncShares
<1>4. IF Shares(r, loc, e)
        THEN Unpack(r, e)[loc] =
               Merged(op, loc[1], Level(r, loc, A), Shipped(op, Behind(r, e), f, Origin(op, e, loc)))
        ELSE Unpack(r, e)[loc] = Level(r, loc, A)
  BY <1>2, <1>3, ReceivedValues
<1>5. ASSUME Shares(r, loc, e)
      PROVE  Merged(op, loc[1], Level(r, loc, A), Shipped(op, Behind(r, e), f, Origin(op, e, loc)))
               = Level(r, loc, A \cup {AxisOf(e)})
  <2>1. PICK q, there, X : q = Behind(r, e) /\ there = Across(e, loc) /\ X = AxisOf(e)
    OBVIOUS
  <2>2. IsPlace(loc) /\ loc[1][1] \in Names(op)
    BY <1>1, SyncPlaces
  <2>3. Shared(q, there) = Shared(r, loc)
    BY <1>1, <1>5, <2>1, <2>2, AcrossIs
  <2>4. Origin(op, e, loc) = there
    BY <1>1, <1>2, <2>1, SyncTables
  <2>5. A = Lower(Shared(r, loc), X)
    <3>1. ASSUME NEW c \in Face, AxisOf(c) = X, Shares(r, loc, c) PROVE ~Received(x, x.op, c)
      <4>1. c = e \/ c = f
        <5>1. PICK low \in Face, high \in Face :
                /\ Opposite(low) = high /\ Opposite(high) = low
                /\ \A b \in Face : AxisOf(b) = X => b = low \/ b = high
          BY <2>1, Faces, AxisFaces
        <5>. QED  BY <1>1, <2>1, <3>1, <5>1
      <4>2. c # f
        <5>1. Edge(e) # Edge(f)
          BY <1>1, EdgesApart
        <5>. QED  BY <1>1, <1>5, <2>1, <3>1, <5>1 DEF Shares
      <4>3. /\ RecvCall(x.op, f) \in 1 .. 12 /\ GroupAt(x.op, f) \in 1 .. 3
            /\ x.op \in 1 .. 10 /\ x.next \in 0 .. 12
        BY <1>1, CallRange DEF Place
      <4>4. ~Past(x, x.op, f, RecvCall(x.op, f))
        BY <4>3 DEF During, Past
      <4>. QED  BY <1>1, <4>1, <4>2, <4>4 DEF Received
    <3>2. x.op \in Uses /\ Program[x.op] \notin Ghost /\ x.group = GroupAt(x.op, f) /\ X = AxisOf(f)
      BY <1>1, <2>1 DEF During
    <3>3. \A c \in Face : AxisOf(c) = X /\ Shares(r, loc, c) => ~Received(x, x.op, c)
      BY <3>1
    <3>4. Met(r, x.op, x, loc) = Lower(Shared(r, loc), X)
      BY <1>1, <3>2, <3>3, MetBelow
    <3>. QED  BY <3>4
  <2>6. Shipped(op, q, f, there) = Level(q, there, A)
    BY <1>1, <2>1, <2>3, <2>5 DEF Shipped
  <2>7. X \notin A
    <3>1. X \in Nat
      BY <2>1, Faces DEF Axis
    <3>. QED  BY <2>5, <3>1 DEF Lower
  <2>8. Merged(op, loc[1], Level(r, loc, A), Level(q, there, A)) = Level(r, loc, A \cup {X})
    BY <1>1, <1>5, <2>1, <2>2, <2>7, LevelMet
  <2>. QED  BY <2>1, <2>4, <2>6, <2>8
<1>. QED  BY <1>4, <1>5

LEMMA EndRecvContents ==
  ASSUME FieldInv, NEW r \in Rank, EndRecv(r)
  PROVE  ContentsOK'
<1>1. /\ Working(r) /\ at[r].group > 0 /\ at[r].next \in 1 .. Len(Group(r))
      /\ deck' = deck /\ GridOK /\ PlaceOK /\ PortInv
  BY DEF EndRecv, FieldInv, PortInv
<1>2. PICK f, x, y : f = Group(r)[at[r].next] /\ x = at[r] /\ y = After(x)
  OBVIOUS
<1>3. /\ f \in Face /\ y \in Place /\ NextCall(r, at[r].next) = y
      /\ x.op \in Uses /\ During(x, f, RecvCall(x.op, f))
      /\ \A d \in Face :
           /\ During(y, d, SendCall(y.op, d)) <=> During(x, d, SendCall(x.op, d))
           /\ During(y, d, RecvCall(y.op, d)) <=> During(x, d, RecvCall(x.op, d)) /\ d # f
           /\ During(y, d, SendCall(y.op, d)) => y.op = x.op
           /\ During(y, d, RecvCall(y.op, d)) => y.op = x.op
      /\ \A d \in Face, o \in Uses :
           Past(y, o, d, RecvCall(o, d)) <=> Past(x, o, d, RecvCall(o, d)) \/ (o = x.op /\ d = f)
  BY <1>1, <1>2, RecvCalls
<1>4. PICK e \in Face : e = Opposite(f) /\ \A d \in Face : d = e <=> Opposite(d) = f
  BY <1>3, Faces
<1>5. /\ Connected(r, e) <=> Linked(r, e)
      /\ Good /\ x \in Place /\ x.next > 0 /\ at' = [at EXCEPT ![r] = y]
      /\ Op(r) = Program[x.op]
  <2>1. Good /\ x \in Place /\ (Connected(r, e) <=> Linked(r, e))
    BY <1>1, <1>2, Ready
  <2>2. x.next \in 0 .. 12
    BY <2>1 DEF Place
  <2>3. x.next > 0
    BY <1>2, <1>3, <2>2 DEF During
  <2>. QED  BY <1>2, <1>3, <2>1, <2>3 DEF EndRecv, Op
<1>6. /\ sreq' = sreq /\ sbuf' = sbuf
      /\ IF Linked(r, e)
           THEN /\ rreq[r][e].state # "posted"
                /\ rreq' = [rreq EXCEPT ![r][e] = Idle] /\ rbuf' = [rbuf EXCEPT ![r][e] = NULL]
                /\ k_f_d' = IF sbuf[r][e] = NULL /\ Op(r) \notin OnHost THEN k_f_d
                            ELSE [k_f_d EXCEPT ![r] = Unpack(r, e)]
           ELSE rreq' = rreq /\ rbuf' = rbuf /\ k_f_d' = k_f_d
  BY <1>2, <1>4, <1>5 DEF EndRecv, portVars
<1>7. \A q \in Rank, d \in Face : q # r \/ d # e =>
        rreq'[q][d] = rreq[q][d] /\ rbuf'[q][d] = rbuf[q][d]
  BY <1>1, <1>6 DEF PortInv, RecvsOK
<1>8. OthersKept(r)
  BY <1>6, <1>7 DEF OthersKept
<1>9. DOMAIN k_f_d' = Rank /\ \A q \in Rank \ {r} : k_f_d'[q] = k_f_d[q]
  BY <1>6 DEF FieldInv, ContentsOK
<1>10. ASSUME NEW d \in Face
       PROVE  SendHolds(r, d, y, sbuf'[r][d]) /\ RecvHolds(r, d, y, rreq'[r][d], rbuf'[r][d])
  <2>1. /\ SendHolds(r, d, x, sbuf[r][d]) /\ RecvHolds(r, d, x, rreq[r][d], rbuf[r][d])
        /\ Opposite(d) \in Face
    BY <1>2, Faces DEF FieldInv, ContentsOK
  <2>2. SendHolds(r, d, y, sbuf'[r][d])
    BY <1>3, <1>6, <2>1 DEF SendHolds
  <2>3. ASSUME During(y, Opposite(d), RecvCall(y.op, Opposite(d)))
        PROVE  RecvHolds(r, d, y, rreq'[r][d], rbuf'[r][d])
    <3>1. /\ During(x, Opposite(d), RecvCall(x.op, Opposite(d))) /\ y.op = x.op
          /\ rreq'[r][d] = rreq[r][d] /\ rbuf'[r][d] = rbuf[r][d]
      BY <1>3, <1>4, <1>7, <2>1, <2>3
    <3>. QED  BY <2>1, <3>1 DEF RecvHolds
  <2>4. RecvHolds(r, d, y, rreq'[r][d], rbuf'[r][d])
    BY <2>3 DEF RecvHolds
  <2>. QED  BY <2>2, <2>4
<1>11. ASSUME NEW o \in Uses PROVE ValuesHold(r, o, y, k_f_d'[r])
  <2> SUFFICES ASSUME Latest(y, o)
               PROVE  ValuesHold(r, o, y, k_f_d'[r])
    BY DEF ValuesHold
  <2>1. /\ o = x.op /\ Latest(x, o) /\ ~(y.group = 1 /\ y.next = 0)
        /\ Program[o] = Op(r) /\ Op(r) \in Exchange
    BY <1>1, <1>2, <1>3, <1>5, LatestAfter, ProgramIs
  <2>2. ASSUME NEW d \in Face PROVE Received(y, o, d) <=> Received(x, o, d) \/ d = e
    BY <1>3, <1>4, <2>1, Faces DEF Received
  <2>3. /\ DOMAIN k_f_d[r] = Places[<<Program[o], n>>]
        /\ Op(r) \in Ghost => GhostsHold(r, o, x, k_f_d[r])
        /\ Op(r) \notin Ghost => SharesHold(r, o, x, k_f_d[r])
    <3>1. ValuesHold(r, o, x, k_f_d[r])
      BY <1>2 DEF FieldInv, ContentsOK
    <3>. QED  BY <2>1, <3>1 DEF ValuesHold
  <2>4. PICK values : values = Unpack(r, e)
    OBVIOUS
  <2>5. ASSUME Linked(r, e)
        PROVE  /\ at[r].op \in Uses /\ During(at[r], f, RecvCall(at[r].op, f))
               /\ rreq[r][e].state # "posted"
               /\ f \in Face /\ e = Opposite(f) /\ Good /\ deck \in Decks
    BY <1>1, <1>2, <1>3, <1>4, <1>5, <1>6, <2>5 DEF GridOK
  <2>6. ASSUME Linked(r, e)
        PROVE  /\ DOMAIN values = DOMAIN k_f_d[r] /\ k_f_d'[r] = values
               /\ \A loc \in DOMAIN k_f_d[r] :
                    IF loc \in DOMAIN Unpacked[<<Op(r), e, n>>]
                      THEN values[loc] = Merged(Op(r), loc[1], k_f_d[r][loc],
                                                Shipped(Op(r), Behind(r, e), f, Origin(Op(r), e, loc)))
                      ELSE values[loc] = k_f_d[r][loc]
    <3>1. /\ sbuf[r][e] # NULL /\ DOMAIN values = DOMAIN k_f_d[r]
          /\ \A loc \in DOMAIN k_f_d[r] :
               IF loc \in DOMAIN Unpacked[<<Op(r), e, n>>]
                 THEN values[loc] = Merged(Op(r), loc[1], k_f_d[r][loc],
                                           Shipped(Op(r), Behind(r, e), f, Origin(Op(r), e, loc)))
                 ELSE values[loc] = k_f_d[r][loc]
      BY <2>4, <2>5, <2>6, ReceivedValues
    <3>2. k_f_d'[r] = values
      BY <1>6, <2>4, <2>6, <3>1 DEF FieldInv, ContentsOK
    <3>. QED  BY <3>1, <3>2
  <2>7. CASE Op(r) \in Ghost
    <3>1. CASE ~Linked(r, e)
      BY <1>6, <2>1, <2>2, <2>3, <2>7, <3>1 DEF ValuesHold, GhostsHold
    <3>2. CASE Linked(r, e)
      <4>1. ASSUME NEW d \in Face, Linked(r, d), Received(y, o, d),
                   NEW loc \in DOMAIN Unpacked[<<Program[o], d, n>>]
            PROVE  values[loc] = Own(Behind(r, d), Origin(Program[o], d, loc))
        <5>1. loc \in DOMAIN k_f_d[r]
          BY <2>1, <2>3, <2>5, <3>2, TouchedPlaces
        <5>2. CASE d = e
          BY <2>1, <2>6, <2>7, <3>2, <4>1, <5>1, <5>2 DEF Merged, GhostMerged, Ghost, Shipped
        <5>3. CASE d # e
          <6>1. n \in Lengths /\ n \in Count
            BY <2>5, <3>2, LengthOfDeck
          <6>2. PICK u, v : u = <<Program[o], d, n>> /\ v = <<Program[o], e, n>>
            OBVIOUS
          <6>3. /\ DOMAIN Unpacked[u] = Plane(Program[o], AxisOf(d), n, RecvPlane(Program[o], d, n))
                /\ DOMAIN Unpacked[v] = Plane(Program[o], AxisOf(e), n, RecvPlane(Program[o], e, n))
            BY <2>1, <6>1, <6>2, Tables
          <6>4. loc \notin DOMAIN Unpacked[<<Program[o], e, n>>]
            BY <2>1, <2>7, <4>1, <5>3, <6>1, <6>2, <6>3, GhostsApart
          <6>. QED  BY <2>1, <2>2, <2>3, <2>6, <2>7, <3>2, <4>1, <5>1, <5>3, <6>4 DEF GhostsHold
        <5>. QED  BY <5>2, <5>3
      <4>. QED  BY <2>1, <2>3, <2>6, <2>7, <3>2, <4>1 DEF ValuesHold, GhostsHold
    <3>. QED  BY <3>1, <3>2
  <2>8. CASE Op(r) \notin Ghost
    <3>1. ASSUME NEW loc \in Places[<<Op(r), n>>]
          PROVE  k_f_d'[r][loc] = Level(r, loc, Met(r, o, y, loc))
      <4>1. PICK A : A = Met(r, o, x, loc) /\ k_f_d[r][loc] = Level(r, loc, A) /\ loc \in DOMAIN k_f_d[r]
        BY <2>1, <2>3, <2>8 DEF SharesHold
      <4>2. ASSUME Linked(r, e)
            PROVE  k_f_d'[r][loc] = IF Shares(r, loc, e) THEN Level(r, loc, A \cup {AxisOf(e)})
                                    ELSE Level(r, loc, A)
        <5>1. PICK op : op = Op(r) /\ op \notin Ghost /\ loc \in Places[<<op, n>>]
          BY <2>8
        <5>2. values[loc] = IF Shares(r, loc, e) THEN Level(r, loc, A \cup {AxisOf(e)})
                            ELSE Level(r, loc, A)
          BY <1>2, <2>1, <2>4, <2>5, <4>1, <4>2, <5>1, ReceivedShares
        <5>. QED  BY <2>6, <4>2, <5>2
      <4>3. Met(r, o, y, loc) = IF Shares(r, loc, e) THEN A \cup {AxisOf(e)} ELSE A
        <5>1. CASE Shares(r, loc, e)
          BY <2>2, <4>1, <5>1, Faces DEF Met
        <5>2. CASE ~Shares(r, loc, e)
          BY <2>2, <4>1, <5>2 DEF Met
        <5>. QED  BY <5>1, <5>2
      <4>4. CASE ~Linked(r, e)
        <5>1. ~Shares(r, loc, e)
          BY <4>4 DEF Shares
        <5>. QED  BY <1>6, <4>1, <4>3, <4>4, <5>1
      <4>. QED  BY <4>2, <4>3, <4>4
    <3>2. DOMAIN k_f_d'[r] = Places[<<Op(r), n>>]
      BY <1>6, <2>1, <2>3, <2>6
    <3>. QED  BY <2>1, <2>8, <3>1, <3>2 DEF ValuesHold, SharesHold
  <2>. QED  BY <2>7, <2>8
<1>. QED  BY <1>1, <1>5, <1>8, <1>9, <1>10, <1>11, ContentsStep

LEMMA EndSendContents ==
  ASSUME FieldInv, NEW r \in Rank, EndSend(r)
  PROVE  ContentsOK'
<1>1. /\ Working(r) /\ at[r].group > 0 /\ at[r].next > Len(Group(r))
      /\ deck' = deck /\ k_f_d' = k_f_d /\ GridOK /\ PlaceOK /\ PortInv
  BY DEF EndSend, FieldInv, PortInv
<1>2. PICK f, x, y : f = Group(r)[at[r].next - Len(Group(r))] /\ x = at[r] /\ y = After(x)
  OBVIOUS
<1>3. /\ f \in Face /\ y \in Place /\ NextCall(r, at[r].next) = y
      /\ x.op \in Uses /\ During(x, f, SendCall(x.op, f))
      /\ \A d \in Face :
           /\ During(y, d, SendCall(y.op, d)) <=> During(x, d, SendCall(x.op, d)) /\ d # f
           /\ During(y, d, RecvCall(y.op, d)) <=> During(x, d, RecvCall(x.op, d))
           /\ During(y, d, SendCall(y.op, d)) => y.op = x.op
           /\ During(y, d, RecvCall(y.op, d)) => y.op = x.op
      /\ \A d \in Face, o \in Uses :
           Past(y, o, d, RecvCall(o, d)) <=> Past(x, o, d, RecvCall(o, d))
  BY <1>1, <1>2, SendCalls
<1>4. x \in Place /\ x.next > 0 /\ at' = [at EXCEPT ![r] = y]
  <2>1. x \in Place /\ x.next \in 0 .. 12
    BY <1>1, <1>2, Ready DEF Place
  <2>2. x.next > 0
    BY <1>2, <1>3, <2>1 DEF During
  <2>. QED  BY <1>3, <2>1, <2>2 DEF EndSend
<1>5. /\ rreq' = rreq /\ rbuf' = rbuf
      /\ \/ sreq' = sreq /\ sbuf' = sbuf
         \/ sreq' = [sreq EXCEPT ![r][f] = Idle] /\ sbuf' = [sbuf EXCEPT ![r][f] = NULL]
  BY <1>2 DEF EndSend, portVars
<1>6. \A q \in Rank, d \in Face : q # r \/ d # f =>
        sreq'[q][d] = sreq[q][d] /\ sbuf'[q][d] = sbuf[q][d]
  BY <1>1, <1>3, <1>5 DEF PortInv, SendsOK
<1>7. OthersKept(r)
  BY <1>5, <1>6 DEF OthersKept
<1>8. ASSUME NEW d \in Face
      PROVE  SendHolds(r, d, y, sbuf'[r][d]) /\ RecvHolds(r, d, y, rreq'[r][d], rbuf'[r][d])
  <2>1. /\ SendHolds(r, d, x, sbuf[r][d]) /\ RecvHolds(r, d, x, rreq[r][d], rbuf[r][d])
        /\ Opposite(d) \in Face
    BY <1>2, Faces DEF FieldInv, ContentsOK
  <2>2. SendHolds(r, d, y, sbuf'[r][d])
    BY <1>3, <1>6, <2>1 DEF SendHolds
  <2>3. RecvHolds(r, d, y, rreq'[r][d], rbuf'[r][d])
    BY <1>3, <1>5, <2>1 DEF RecvHolds
  <2>. QED  BY <2>2, <2>3
<1>9. ASSUME NEW o \in Uses PROVE ValuesHold(r, o, y, k_f_d'[r])
  <2> SUFFICES ASSUME Latest(y, o)
               PROVE  ValuesHold(r, o, y, k_f_d'[r])
    BY DEF ValuesHold
  <2>1. Latest(x, o) /\ ~(y.group = 1 /\ y.next = 0)
    BY <1>1, <1>2, <1>3, <1>4, LatestAfter
  <2>2. \A d \in Face : Received(y, o, d) <=> Received(x, o, d)
    BY <1>3, Faces DEF Received
  <2>3. ValuesHold(r, o, x, k_f_d[r])
    BY <1>2 DEF FieldInv, ContentsOK
  <2>. QED  BY <1>1, <2>1, <2>2, <2>3, ValuesKept
<1>10. DOMAIN k_f_d' = Rank /\ \A q \in Rank \ {r} : k_f_d'[q] = k_f_d[q]
  BY <1>1 DEF FieldInv, ContentsOK
<1>. QED  BY <1>1, <1>4, <1>7, <1>8, <1>9, <1>10, ContentsStep

LEMMA AllSumContents ==
  ASSUME FieldInv, NEW r \in Rank, AllSum(r)
  PROVE  ContentsOK'
<1>1. /\ Working(r) /\ Op(r) = "allsum" /\ GridOK /\ PlaceOK
      /\ UNCHANGED <<deck, k_f_d, sbuf, rbuf, sreq, rreq>>
  BY DEF AllSum, portVars, FieldInv, PortInv
<1>2. /\ at[r] \in Place /\ at[r].op \notin Uses /\ at[r].op \in 1 .. 10
      /\ at[r].next = 0 /\ at[r].group = 0
  BY <1>1, Ready DEF Place
<1>3. PICK y : /\ y = [at[r] EXCEPT !.op = @ + 1] /\ at' = [at EXCEPT ![r] = y]
               /\ y = [op |-> at[r].op + 1, group |-> 0, next |-> 0]
  <2>1. [at[r] EXCEPT !.op = @ + 1] = [op |-> at[r].op + 1, group |-> 0, next |-> 0]
    BY <1>2 DEF Place
  <2>2. at' = [at EXCEPT ![r] = [at[r] EXCEPT !.op = @ + 1]]
    BY DEF AllSum
  <2>. QED  BY <2>1, <2>2
<1>4. \A d \in Face, o \in Uses : \A call \in {RecvCall(o, d), SendCall(o, d)} :
        Past(y, o, d, call) <=> Past(at[r], o, d, call)
  BY <1>2, <1>3, Moving
<1>5. ASSUME NEW d \in Face
      PROVE  SendHolds(r, d, y, sbuf'[r][d]) /\ RecvHolds(r, d, y, rreq'[r][d], rbuf'[r][d])
  <2>1. \A c, call : ~During(y, c, call)
    BY <1>3 DEF During
  <2>. QED  BY <2>1 DEF SendHolds, RecvHolds
<1>6. ASSUME NEW o \in Uses PROVE ValuesHold(r, o, y, k_f_d'[r])
  <2> SUFFICES ASSUME Latest(y, o)
               PROVE  ValuesHold(r, o, y, k_f_d'[r])
    BY DEF ValuesHold
  <2>1. Latest(at[r], o)
    <3>1. Uses \subseteq 1 .. 10
      BY ProgramIs
    <3>. QED  BY <1>2, <1>3, <3>1 DEF Latest
  <2>2. \A e \in Face : Received(y, o, e) <=> Received(at[r], o, e)
    BY <1>4, Faces DEF Received
  <2>3. ValuesHold(r, o, at[r], k_f_d[r])
    BY DEF FieldInv, ContentsOK
  <2>. QED  BY <1>1, <1>3, <2>1, <2>2, <2>3, ValuesKept
<1>7. /\ DOMAIN k_f_d' = Rank /\ \A q \in Rank \ {r} : k_f_d'[q] = k_f_d[q]
      /\ OthersKept(r)
  BY <1>1 DEF FieldInv, ContentsOK, OthersKept
<1>. QED  BY <1>1, <1>3, <1>5, <1>6, <1>7, ContentsStep

\* MPI hands over what was packed.
LEMMA TransferContents ==
  ASSUME FieldInv, NEW r \in Rank, NEW d \in Face, Transfer(r, d)
  PROVE  ContentsOK'
<1>1. /\ Matched(r, d) /\ UNCHANGED <<deck, at, k_f_d, sbuf>> /\ PortInv /\ GridOK
  BY DEF Transfer, FieldInv, PortInv
<1>2. PICK q \in Rank, e \in Face :
        /\ q = Behind(r, d) /\ e = Opposite(d) /\ Opposite(e) = d /\ Behind(q, e) = r
        /\ bc[r][d] = q /\ at[q].op = at[r].op /\ at[r].op \in Uses
        /\ Linked(r, d) /\ sreq[r][d].state = "posted"
  <2>1. Good /\ Linked(r, d) /\ deck \in Decks
    BY <1>1, Pairing DEF GridOK
  <2>2. sreq[r][d].state = "posted" /\ bc[r][d] = Behind(r, d)
    BY <1>1, Pairing DEF Matched
  <2>3. at[Behind(r, d)].op = at[r].op /\ at[r].op \in Uses
    BY <1>1, Pairing
  <2>. QED  BY <2>1, <2>2, <2>3, BehindMutual, Faces
<1>3. /\ rbuf' = [rbuf EXCEPT ![q][e] = sbuf[r][d]]
      /\ \E new : rreq' = [rreq EXCEPT ![q][e] = new]
  <2>1. rreq' = [rreq EXCEPT ![q][e].state = "full"]
    BY <1>2 DEF Transfer
  <2>2. rreq' = [rreq EXCEPT ![q][e] = [rreq[q][e] EXCEPT !.state = "full"]]
    BY <2>1
  <2>. QED  BY <1>2, <2>2 DEF Transfer
<1>4. /\ \A p \in Rank, c \in Face : p # q \/ c # e =>
           rreq'[p][c] = rreq[p][c] /\ rbuf'[p][c] = rbuf[p][c]
      /\ rbuf'[q][e] = sbuf[r][d]
  BY <1>1, <1>3 DEF PortInv, RecvsOK
<1>5. During(at[r], d, SendCall(at[r].op, d))
  <2>1. Sending(r, d)
    BY <1>1, <1>2 DEF PortInv, SendsOK, Idle
  <2>. QED  BY <2>1 DEF Sending
<1>6. ASSUME NEW p \in Rank, NEW c \in Face
      PROVE  /\ SendHolds(p, c, at'[p], sbuf'[p][c])
             /\ RecvHolds(p, c, at'[p], rreq'[p][c], rbuf'[p][c])
  <2>1. /\ SendHolds(p, c, at[p], sbuf[p][c]) /\ RecvHolds(p, c, at[p], rreq[p][c], rbuf[p][c])
        /\ SendHolds(r, d, at[r], sbuf[r][d])
    BY DEF FieldInv, ContentsOK
  <2>2. CASE p = q /\ c = e
    <3>1. sbuf[r][d] = MessageOf(Program[at[r].op], r, d)
      BY <1>2, <1>5, <2>1 DEF SendHolds
    <3>2. RecvHolds(p, c, at[p], rreq'[p][c], rbuf'[p][c])
      BY <1>2, <1>4, <2>2, <3>1 DEF RecvHolds
    <3>. QED  BY <1>1, <2>1, <3>2
  <2>3. CASE ~(p = q /\ c = e)
    BY <1>1, <1>4, <2>1, <2>3
  <2>. QED  BY <2>2, <2>3
<1>7. /\ DOMAIN k_f_d' = Rank
      /\ \A p \in Rank, o \in Uses : ValuesHold(p, o, at'[p], k_f_d'[p])
  BY <1>1 DEF FieldInv, ContentsOK
<1>. QED  BY <1>1, <1>6, <1>7, ContentsFrom

LEMMA InitContents == Init => ContentsOK
<1> SUFFICES ASSUME Init PROVE ContentsOK
  OBVIOUS
<1>1. /\ at = [r \in Rank |-> Start] /\ DOMAIN k_f_d = Rank
  BY DEF Init, Start
<1>2. \A d, call : ~During(Start, d, call)
  BY DEF Start, During
<1>3. \A o \in Uses : ~Latest(Start, o)
  <2>1. Uses \subseteq 1 .. 10
    BY ProgramIs
  <2>. QED  BY <2>1 DEF Start, Latest
<1>. QED  BY <1>1, <1>2, <1>3 DEF ContentsOK, SendHolds, RecvHolds, ValuesHold

LEMMA FieldInvStep == FieldInv /\ [Next]_vars => FieldInv'
<1> SUFFICES ASSUME FieldInv, [Next]_vars PROVE ContentsOK'
  BY PortInvStep DEF FieldInv
<1>1. ASSUME UNCHANGED <<deck, at, k_f_d, portVars>> PROVE ContentsOK'
  <2>1. UNCHANGED <<deck, at, k_f_d, sbuf, rbuf, rreq>>
    BY <1>1 DEF portVars
  <2>2. /\ DOMAIN k_f_d' = Rank
        /\ \A r \in Rank, d \in Face : /\ SendHolds(r, d, at'[r], sbuf'[r][d])
                                       /\ RecvHolds(r, d, at'[r], rreq'[r][d], rbuf'[r][d])
        /\ \A r \in Rank, o \in Uses : ValuesHold(r, o, at'[r], k_f_d'[r])
    BY <2>1 DEF FieldInv, ContentsOK
  <2>. QED  BY <2>1, <2>2, ContentsFrom
<1>2. ASSUME NEW r \in Rank, SizeGrid(r) \/ JoinGrid(r) PROVE ContentsOK'
  <2>1. UNCHANGED <<deck, at, k_f_d, portVars>>
    BY <1>2 DEF SizeGrid, JoinGrid
  <2>. QED  BY <1>1, <2>1
<1>3. CASE UNCHANGED vars
  BY <1>1, <1>3 DEF vars
<1>. QED  BY <1>2, <1>3, AdjustContents, BeginContents, EndRecvContents, EndSendContents,
             AllSumContents, TransferContents DEF Next, Stop

\* The ports, and what is in the buffers and in the values: an inductive
\* invariant.
THEOREM FieldInvariant == Spec => []FieldInv
<1>1. Init => FieldInv
  BY InitPorts, InitContents DEF FieldInv
<1>. QED  BY <1>1, FieldInvStep, PTL DEF Spec

\* For every decomposition of every box: each message of begin_send has the size
\* that is announced, gives each value of its plane a slot of its own, and fits
\* the buffers allocated for the largest message of its axis.
THEOREM MessageAlwaysFits == Spec => []MessageFits
<1>1. FieldInv => MessageFits
  <2> SUFFICES ASSUME FieldInv, NEW r \in Rank, NEW d \in Face, sbuf[r][d] # NULL
               PROVE  /\ DOMAIN sbuf[r][d] = Header(Op(r)) .. Size(Op(r), AxisOf(d), n) - 1
                      /\ Cardinality(DOMAIN Packed[<<Op(r), d, n>>]) =
                           Size(Op(r), AxisOf(d), n) - Header(Op(r))
                      /\ Size(Op(r), AxisOf(d), n) <= Capacity(Op(r), AxisOf(d), n)
    BY DEF MessageFits
  <2>1. Sending(r, d)
    BY DEF FieldInv, PortInv, SendsOK
  <2>2. Linked(r, d) /\ During(at[r], d, SendCall(at[r].op, d)) /\ at[r].op \in Uses
    BY <2>1 DEF Sending, During
  <2>3. Op(r) = Program[at[r].op] /\ Op(r) \in Exchange
    BY <2>2, ProgramIs DEF Op, Uses
  <2>4. Good /\ deck \in Decks
    <3>1. at[r].next \in 0 .. 12 /\ at[r].next >= 1
      BY <2>2 DEF FieldInv, PortInv, PlaceOK, Place, During
    <3>2. status[r] = "joined"
      BY <3>1 DEF FieldInv, PortInv, PlaceOK, Start
    <3>. QED  BY <3>2 DEF FieldInv, PortInv, GridOK
  <2>5. n \in Lengths /\ n \in Count /\ AxisOf(d) \in Axis
    BY <2>4, LengthOfDeck, Faces
  <2>6. PICK x : x = <<Op(r), d, n>>
    OBVIOUS
  <2>7. DOMAIN sbuf[r][d] = DOMAIN Layout[x]
    <3>1. sbuf[r][d] = MessageOf(Op(r), r, d)
      BY <2>2, <2>3 DEF FieldInv, ContentsOK, SendHolds
    <3>. QED  BY <2>6, <3>1 DEF MessageOf
  <2>. QED  BY <2>3, <2>5, <2>6, <2>7, MessageSlots, MessageSize
<1>. QED  BY <1>1, FieldInvariant, PTL
-----------------------------------------------------------------------------
(***************************************************************************)
(* Where a ghost comes from.                                               *)
(***************************************************************************)
\* The neighbour's plane holds the value that lies where the ghost does.
LEMMA OriginIsCopy ==
  ASSUME deck \in Decks, Good, NEW op \in Ghost, NEW r \in Rank, NEW d \in Face, Linked(r, d),
         NEW loc \in Plane(op, AxisOf(d), n, RecvPlane(op, d, n))
  PROVE  <<Behind(r, d), Origin(op, d, loc)[2]>> \in Copies(r, loc)
<1>1. PICK X, i, j, q, home, gp, gn :
        /\ X = AxisOf(d) /\ gp = deck.gp /\ gn = deck.gn /\ q = Behind(r, d)
        /\ i = RankToIndex(r, gp) /\ j = RankToIndex(q, gp) /\ home = Origin(op, d, loc)[2]
  OBVIOUS
<1>2. /\ gp \in Count /\ gn \in Count /\ n \in Count /\ X \in Axis /\ q \in Rank
      /\ ~BadDecomposition(gp) /\ op \in Exchange /\ Opposite(d) \in Face
      /\ AxisOf(Opposite(d)) = X /\ (IsLow(Opposite(d)) <=> ~IsLow(d))
  BY <1>1, DeckType, CellsType, Faces DEF Linked, Good, Ghost, Exchange
<1>3. /\ q = Adjacent(r, d, gp)
      /\ deck.box[X] = "periodic" \/ ~AtEnd(r, d, gn, gp)
  <2>1. WallOfBox(deck.box[X]) \notin Rank
    BY WorldAssumption DEF WallOfBox, AntiSymmetric, AbsorbFields, Rank
  <2>2. BC(r, d, deck.box, gn, gp) = q /\ q \in Rank
    BY <1>1, <1>2 DEF Behind
  <2>. QED  BY <1>1, <2>1, <2>2 DEF BC
<1>4. /\ IsIndex(i, gp) /\ IsIndex(j, gp) /\ IndexToRank(j, gp) = q
      /\ j = [i EXCEPT ![X] = (@ + Direction(d)) % gp[X]]
  BY <1>1, <1>2, <1>3, IndexOfRank, AdjacentIndex
<1>5. RecvPlane(op, d, n) \in Int /\ SendPlane(op, Opposite(d), n) \in Int
  BY <1>1, <1>2 DEF RecvPlane, SendPlane, Count
<1>6. /\ loc[2] \in [Axis -> Int] /\ loc[2][X] = RecvPlane(op, d, n)
      /\ Extent(loc[1], X, n) = n[X]
      /\ \A a \in Axis : a # X => loc[2][a] \in 1 .. Extent(loc[1], a, n)
  BY <1>1, <1>2, <1>5, GhostPlane, PlaneType
<1>7. home = [loc[2] EXCEPT ![X] = SendPlane(op, Opposite(d), n)] /\ home \in [Axis -> Int]
  BY <1>1, <1>5, <1>6 DEF Origin
<1>8. PICK g, m, all, k :
        /\ g \in Nat \ {0} /\ m \in Nat \ {0} /\ all \in Nat \ {0} /\ k \in 0 .. g - 1
        /\ g = gp[X] /\ m = n[X] /\ all = gn[X] /\ k = i[X] /\ all = g * m
  <2>1. gp[X] \in Nat \ {0} /\ gn[X] \in Nat \ {0} /\ n[X] \in Nat \ {0} /\ i[X] \in 0 .. gp[X] - 1
    BY <1>2, <1>4 DEF Count, IsIndex
  <2>2. gn[X] % gp[X] = 0 /\ n[X] = gn[X] \div gp[X]
    BY <1>1, <1>2 DEF Good, BadResolution, n, LocalCells
  <2>3. gn[X] = gp[X] * n[X]
    <3>1. PICK x \in Nat, w \in Nat \ {0} : x = gn[X] /\ w = gp[X]
      BY <2>1
    <3>2. x = w * (x \div w) + (x % w) /\ x \div w \in Nat
      BY <3>1, Division
    <3>. QED  BY <2>1, <2>2, <3>1, <3>2
  <2>. QED  BY <2>1, <2>3
<1>9. ASSUME NEW a \in Axis PROVE <<j[a], home[a]>> \in Alike(r, loc, a)
  <2>1. CASE a # X
    <3>1. j[a] = i[a] /\ home[a] = loc[2][a] /\ i[a] \in 0 .. gp[a] - 1
      BY <1>4, <1>6, <1>7, <2>1 DEF IsIndex
    <3>2. <<j[a], home[a]>> \in (0 .. gp[a] - 1) \X (1 .. Extent(loc[1], a, n))
      BY <1>6, <2>1, <3>1
    <3>. QED  BY <1>1, <3>1, <3>2 DEF Alike
  <2>2. CASE a = X
    <3>1. /\ j[X] = (k + Direction(d)) % g
          /\ home[X] = IF IsLow(d) THEN m ELSE 1
          /\ loc[2][X] = IF IsLow(d) THEN 0 ELSE m + 1
      <4>1. j[X] = (k + Direction(d)) % g
        BY <1>2, <1>4, <1>8 DEF IsIndex
      <4>2. home[X] = SendPlane(op, Opposite(d), n)
        BY <1>2, <1>6, <1>7
      <4>. QED  BY <1>2, <1>6, <1>8, <1>1, <4>1, <4>2 DEF SendPlane, RecvPlane
    <3>2. /\ (k - 1) % g \in 0 .. g - 1 /\ (k + 1) % g \in 0 .. g - 1
          /\ (((k - 1) % g) * m + m - 1) % all = (k * m + 0 - 1) % all
          /\ (((k + 1) % g) * m + 1 - 1) % all = (k * m + (m + 1) - 1) % all
          /\ k # 0 => ((k - 1) % g) * m + m - 1 = k * m + 0 - 1
          /\ k # g - 1 => ((k + 1) % g) * m + 1 - 1 = k * m + (m + 1) - 1
      <4>1. g \in Nat \ {0} /\ m \in Nat \ {0} /\ k \in 0 .. g - 1
        BY <1>8
      <4>2. all = g * m
        BY <1>8
      <4>. QED  BY <4>1, <4>2, NextPlace
    <3>3. deck.box[X] = "periodic" \/ all = 1 \/ (IF IsLow(d) THEN k # 0 ELSE k # g - 1)
      BY <1>1, <1>3, <1>8 DEF AtEnd
    <3>4. <<j[X], home[X]>> \in (0 .. gp[X] - 1) \X (1 .. Extent(loc[1], X, n))
      <4>1. j[X] \in 0 .. gp[X] - 1
        BY <1>2, <1>4 DEF IsIndex
      <4>2. home[X] \in 1 .. n[X]
        <5>1. home[X] \in 1 .. m
          BY <1>8, <3>1
        <5>. QED  BY <1>8, <5>1
      <4>. QED  BY <1>6, <4>1, <4>2
    <3>5. PICK u, v, b, c : u = j[X] /\ v = home[X] /\ b = k /\ c = loc[2][X]
      OBVIOUS
    <3>6. IF deck.box[X] = "periodic" \/ all = 1
            THEN (u * m + v - 1) % all = (b * m + c - 1) % all
            ELSE u * m + v - 1 = b * m + c - 1
      <4>1. CASE IsLow(d)
        <5>1. u = (k - 1) % g /\ v = m /\ c = 0
          BY <3>1, <3>5, <4>1 DEF Direction
        <5>. QED  BY <3>2, <3>3, <3>5, <4>1, <5>1
      <4>2. CASE ~IsLow(d)
        <5>1. u = (k + 1) % g /\ v = 1 /\ c = m + 1
          BY <3>1, <3>5, <4>2 DEF Direction
        <5>. QED  BY <3>2, <3>3, <3>5, <4>2, <5>1
      <4>. QED  BY <4>1, <4>2
    <3>. QED  BY <1>1, <1>8, <2>2, <3>4, <3>5, <3>6 DEF Alike
  <2>. QED  BY <2>1, <2>2
<1>10. PICK x, y, z : /\ x = <<j[0], home[0]>> /\ y = <<j[1], home[1]>> /\ z = <<j[2], home[2]>>
  OBVIOUS
<1>11. x \in Alike(r, loc, 0) /\ y \in Alike(r, loc, 1) /\ z \in Alike(r, loc, 2)
  BY <1>9, <1>10, Axes
<1>12. PICK copy : copy = <<x, y, z>>
  OBVIOUS
<1>13. /\ [a \in Axis |-> copy[a + 1][1]] = j /\ [a \in Axis |-> copy[a + 1][2]] = home
  <2>1. \A a \in Axis : copy[a + 1] = <<j[a], home[a]>>
    BY <1>10, <1>12, Axes
  <2>2. j = [a \in Axis |-> j[a]] /\ home = [a \in Axis |-> home[a]]
    BY <1>4, <1>7 DEF IsIndex
  <2>. QED  BY <2>1, <2>2
<1>14. <<IndexToRank(j, gp), home>> \in Copies(r, loc)
  BY <1>1, <1>11, <1>12, <1>13 DEF Copies
<1>. QED  BY <1>1, <1>4, <1>14

\* Between two exchanges the values are those of the one that ended last.
LEMMA HeldIsLatest ==
  ASSUME PlaceOK, NEW r \in Rank, Held(r) \in Exchange
  PROVE  \E o \in Uses : /\ Program[o] = Held(r) /\ at[r].op > o /\ at[r].group = 0
                         /\ Latest(at[r], o)
<1>1. PICK p \in 1 .. 11 : p = at[r].op
  BY DEF PlaceOK, Place
<1>2. PICK past : past = {i \in 1 .. p - 1 : Program[i] \in Exchange}
  OBVIOUS
<1>3. /\ at[r].group = 0 /\ past # {}
      /\ Held(r) = Program[CHOOSE i \in past : \A j \in past : j <= i]
  <2>1. Held(r) # "none"
    BY DEF Exchange
  <2>. QED  BY <1>1, <1>2, <2>1 DEF Held
<1>4. \E i \in past : \A j \in past : j <= i
  <2>1. \A i \in past : i \in {1, 2, 3, 4, 5, 6, 7, 8, 9, 10}
    BY <1>2
  <2>. QED  BY <1>3, <2>1
<1>5. PICK o \in past : Held(r) = Program[o] /\ \A j \in past : j <= o
  BY <1>3, <1>4
<1>6. o \in Uses /\ o \in 1 .. 10 /\ p > o
  BY <1>1, <1>2, <1>5, ProgramIs
<1>7. Latest(at[r], o)
  <2>1. ASSUME NEW i \in Uses, i > o PROVE i > p \/ i = p
    <3>1. i \in 1 .. 10 /\ Program[i] \in Exchange
      BY ProgramIs
    <3>. QED  BY <1>1, <1>2, <1>5, <1>6, <2>1, <3>1
  <2>. QED  BY <1>1, <1>3, <1>6, <2>1 DEF Latest
<1>. QED  BY <1>1, <1>3, <1>5, <1>6, <1>7

\* For every decomposition of every box: after a ghost exchange each ghost behind a
\* joined face holds the neighbour's value at its place in the box, also where the
\* neighbours on both sides are the same rank or the rank itself.
THEOREM GhostsAlwaysCurrent == Spec => []GhostsCurrent
<1>1. FieldInv => GhostsCurrent
  <2> SUFFICES ASSUME FieldInv, NEW r \in Rank, Held(r) \in Ghost, NEW d \in Face, Connected(r, d),
                      NEW loc \in DOMAIN Unpacked[<<Held(r), d, n>>]
               PROVE  \E c \in Copies(r, loc) : k_f_d[r][loc] = [x \in {c} |-> Weight(loc[1])]
    BY DEF GhostsCurrent
  <2>1. PICK o \in Uses : /\ Program[o] = Held(r) /\ at[r].op > o /\ at[r].group = 0
                          /\ Latest(at[r], o)
    <3>1. Held(r) \in Exchange
      BY DEF Ghost, Exchange
    <3>. QED  BY <3>1, HeldIsLatest DEF FieldInv, PortInv
  <2>2. /\ Good /\ deck \in Decks /\ Linked(r, d)
    <3>1. at[r].op # 1
      BY <2>1, ProgramIs
    <3>2. status[r] = "joined"
      BY <3>1 DEF FieldInv, PortInv, PlaceOK, Start
    <3>3. Good /\ deck \in Decks /\ bc[r][d] = Behind(r, d)
      BY <3>2 DEF FieldInv, PortInv, GridOK
    <3>. QED  BY <3>3 DEF Connected, Linked
  <2>3. PICK op \in Ghost : op = Held(r)
    OBVIOUS
  <2>4. Received(at[r], o, d)
    BY <2>1 DEF Received, Past
  <2>5. k_f_d[r][loc] = Own(Behind(r, d), Origin(op, d, loc))
    <3>1. ValuesHold(r, o, at[r], k_f_d[r]) /\ Program[o] = op
      BY <2>1, <2>3 DEF FieldInv, ContentsOK
    <3>. QED  BY <2>1, <2>2, <2>3, <2>4, <3>1 DEF ValuesHold, GhostsHold
  <2>6. loc \in Plane(op, AxisOf(d), n, RecvPlane(op, d, n))
    <3>1. n \in Lengths /\ op \in Exchange
      BY <2>2, LengthOfDeck DEF Ghost, Exchange
    <3>2. PICK x : x = <<op, d, n>>
      OBVIOUS
    <3>. QED  BY <2>3, <3>1, <3>2, Tables
  <2>7. PICK c : c = <<Behind(r, d), Origin(op, d, loc)[2]>>
    OBVIOUS
  <2>8. c \in Copies(r, loc)
    BY <2>2, <2>6, <2>7, OriginIsCopy
  <2>9. k_f_d[r][loc] = [x \in {c} |-> Weight(loc[1])]
    <3>1. Origin(op, d, loc)[1] = loc[1]
      BY DEF Origin
    <3>. QED  BY <2>5, <2>7, <3>1 DEF Own
  <2>. QED  BY <2>8, <2>9
<1>. QED  BY <1>1, FieldInvariant, PTL

\* For every decomposition of every box: after a synchronization each copy of a
\* shared value holds the contribution of every copy exactly once, also on the
\* edges and corners where up to eight copies meet, and where a rank meets itself
\* or the same rank on both sides.
THEOREM SharedValuesAlwaysAgree == Spec => []SharedValuesAgree
<1>1. FieldInv => SharedValuesAgree
  <2> SUFFICES ASSUME FieldInv, NEW r \in Rank, NEW op, op = Held(r), op \in Exchange \ Ghost,
                      NEW loc \in DOMAIN k_f_d[r], NEW copies, copies = Copies(r, loc), NEW share,
                      share = IF loc[1][1] \in Summed THEN 1 ELSE Weight(loc[1]) \div Cardinality(copies)
               PROVE  k_f_d[r][loc] = Times(Factor(r, loc) * share, [c \in copies |-> 1])
    BY DEF SharedValuesAgree
  <2>1. PICK o \in Uses : /\ Program[o] = op /\ at[r].op > o /\ at[r].group = 0
                          /\ Latest(at[r], o)
    BY HeldIsLatest DEF FieldInv, PortInv
  <2>2. Good /\ deck \in Decks /\ bc[r] = [d \in Face |-> Behind(r, d)]
    <3>1. at[r].op # 1
      BY <2>1, ProgramIs
    <3>2. status[r] = "joined"
      BY <3>1 DEF FieldInv, PortInv, PlaceOK, Start
    <3>. QED  BY <3>2 DEF FieldInv, PortInv, GridOK
  <2>3. loc \in Places[<<op, n>>] /\ k_f_d[r][loc] = Level(r, loc, Met(r, o, at[r], loc))
    <3>1. ValuesHold(r, o, at[r], k_f_d[r])
      BY DEF FieldInv, ContentsOK
    <3>. QED  BY <2>1, <3>1 DEF ValuesHold, SharesHold
  <2>4. Met(r, o, at[r], loc) = Shared(r, loc)
    <3>1. \A e : Received(at[r], o, e)
      BY <2>1 DEF Received, Past
    <3>. QED  BY <3>1 DEF Met, Shared
  <2>5. IsPlace(loc)
    BY <2>2, <2>3, SyncPlaces
  <2>6. PICK A : A = Shared(r, loc)
    OBVIOUS
  <2>7. Level(r, loc, A) = Times(FactorOf(r, loc) * share, [c \in copies |-> 1])
    BY <2>2, <2>5, <2>6, LevelAll
  <2>8. Factor(r, loc) = FactorOf(r, loc)
    BY <2>2, FactorIs
  <2>. QED  BY <2>3, <2>4, <2>6, <2>7, <2>8
<1>. QED  BY <1>1, FieldInvariant, PTL
=============================================================================
