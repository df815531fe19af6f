-------------------------- MODULE Partition_proofs --------------------------
(***************************************************************************)
(* The neighbours the ranks compute alone agree, for every number of       *)
(* domains along each axis.                                                *)
(***************************************************************************)
EXTENDS Partition, TLAPS

-----------------------------------------------------------------------------
(***************************************************************************)
(* Integer division.                                                       *)
(***************************************************************************)
LEMMA Division ==
  ASSUME NEW x \in Nat, NEW m \in Nat \ {0}
  PROVE  /\ x \div m \in Nat /\ x % m \in 0 .. m - 1
         /\ x = m * (x \div m) + (x % m)
OBVIOUS

\* Quotient and remainder are unique.
LEMMA Digit ==
  ASSUME NEW m \in Nat \ {0}, NEW q \in Nat, NEW c \in 0 .. m - 1
  PROVE  (c + m * q) \div m = q
<1> DEFINE x == c + m * q
           k == x \div m
           e == x % m
<1>1. m * q \in Nat /\ x \in Nat
  OBVIOUS
<1>2. k \in Nat /\ e \in 0 .. m - 1 /\ x = m * k + e
  BY <1>1, Division
<1>3. m * k + e = c + m * q
  BY <1>2
<1>4. k \in Nat /\ e \in 0 .. m - 1
  BY <1>2
<1> HIDE DEF x, k, e
<1>5. ASSUME NEW a \in Nat, NEW b \in Nat, a > b PROVE m * a >= m * b + m
  <2>1. PICK i \in Nat : a = b + 1 + i
    <3>1. a - b - 1 \in Nat /\ a = b + 1 + (a - b - 1)
      BY <1>5
    <3>. QED  BY <3>1
  <2>2. m * a = m * b + m + m * i /\ m * i \in Nat /\ m * b \in Nat
    BY <2>1
  <2>. QED  BY <2>2
<1>6. m * k \in Nat /\ m * q \in Nat
  BY <1>4
<1>7. ~(k > q) /\ ~(q > k)
  BY <1>3, <1>4, <1>5, <1>6
<1>8. k = q
  BY <1>4, <1>7
<1>. QED  BY <1>8 DEF x, k

\* One step round a ring, and back.
LEMMA Ring ==
  ASSUME NEW m \in Nat \ {0}, NEW p \in 0 .. m - 1
  PROVE  /\ p % m = p
         /\ (p + 1) % m = IF p = m - 1 THEN 0 ELSE p + 1
         /\ (p - 1) % m = IF p = 0 THEN m - 1 ELSE p - 1
<1>1. p % m = p
  OBVIOUS
<1>2. (p + 1) % m = IF p = m - 1 THEN 0 ELSE p + 1
  OBVIOUS
<1>3. (p - 1) % m = IF p = 0 THEN m - 1 ELSE p - 1
  OBVIOUS
<1>. QED  BY <1>1, <1>2, <1>3

\* A product grows with its factors.
LEMMA ProductBound ==
  ASSUME NEW m \in Nat \ {0}, NEW k \in Nat, NEW i \in 0 .. k - 1, NEW c \in 0 .. m - 1
  PROVE  c + m * i \in 0 .. m * k - 1
<1>1. PICK j \in Nat : k = i + 1 + j
  <2>1. k - i - 1 \in Nat /\ k = i + 1 + (k - i - 1)
    OBVIOUS
  <2>. QED  BY <2>1
<1>2. m * k = m * i + m + m * j /\ m * i \in Nat /\ m * j \in Nat
  BY <1>1
<1>. QED  BY <1>2

LEMMA QuotientBound ==
  ASSUME NEW m \in Nat \ {0}, NEW k \in Nat, NEW q \in Nat, NEW c \in 0 .. m - 1,
         c + m * q < m * k
  PROVE  q < k
<1> SUFFICES ASSUME q >= k PROVE FALSE
  OBVIOUS
<1>1. PICK j \in Nat : q = k + j
  <2>1. q - k \in Nat /\ q = k + (q - k)
    OBVIOUS
  <2>. QED  BY <2>1
<1>2. m * q = m * k + m * j /\ m * k \in Nat /\ m * j \in Nat
  BY <1>1
<1>. QED  BY <1>2

-----------------------------------------------------------------------------
(***************************************************************************)
(* Ranks and indices.                                                      *)
(***************************************************************************)
IsIndex(i, np) == i \in [Axis -> Int] /\ \A a \in Axis : i[a] \in 0 .. np[a] - 1

LEMMA Axes == Axis = {0, 1, 2}
BY DEF Axis

LEMMA DomainCounts ==
  ASSUME NEW np \in Count
  PROVE  np[0] \in Nat \ {0} /\ np[1] \in Nat \ {0} /\ np[2] \in Nat \ {0}
BY Axes DEF Count

LEMMA IndexOfRank ==
  ASSUME NEW np \in Count, ~BadDecomposition(np), NEW r \in Rank
  PROVE  IsIndex(RankToIndex(r, np), np) /\ IndexToRank(RankToIndex(r, np), np) = r
<1> DEFINE row == r \div np[0]
           i0 == r % np[0]
           i1 == row % np[1]
           i2 == row \div np[1]
<1>1. np[0] \in Nat \ {0} /\ np[1] \in Nat \ {0} /\ np[2] \in Nat \ {0}
  BY DomainCounts
<1>2. r \in Nat /\ r < np[0] * np[1] * np[2]
  BY WorldAssumption DEF Rank, BadDecomposition
<1>3. row \in Nat /\ i0 \in 0 .. np[0] - 1 /\ r = np[0] * row + i0
  BY <1>1, <1>2, Division
<1>4. i2 \in Nat /\ i1 \in 0 .. np[1] - 1 /\ row = np[1] * i2 + i1
  BY <1>1, <1>3, Division
<1>5. RankToIndex(r, np) = [a \in Axis |-> IF a = 0 THEN r - row * np[0]
                                           ELSE IF a = 1 THEN row - i2 * np[1] ELSE i2]
  BY DEF RankToIndex
<1> HIDE DEF row, i0, i1, i2
<1>6. r - row * np[0] = i0 /\ row - i2 * np[1] = i1
  BY <1>1, <1>2, <1>3, <1>4
<1>7. np[1] * np[2] \in Nat /\ np[0] * np[1] * np[2] = np[0] * (np[1] * np[2])
  BY <1>1
<1>8. row < np[1] * np[2]
  <2>1. i0 + np[0] * row < np[0] * (np[1] * np[2])
    BY <1>1, <1>2, <1>3, <1>7
  <2>. QED  BY <1>1, <1>3, <1>7, <2>1, QuotientBound
<1>9. i2 < np[2]
  <2>1. i1 + np[1] * i2 < np[1] * np[2]
    BY <1>1, <1>4, <1>8
  <2>. QED  BY <1>1, <1>4, <2>1, QuotientBound
<1>10. RankToIndex(r, np) = [a \in Axis |-> IF a = 0 THEN i0 ELSE IF a = 1 THEN i1 ELSE i2]
  BY <1>5, <1>6
<1>11. IsIndex(RankToIndex(r, np), np)
  BY <1>1, <1>3, <1>4, <1>9, <1>10, Axes DEF IsIndex
<1>12. Wrapped(RankToIndex(r, np), np) = RankToIndex(r, np)
  <2>1. \A a \in Axis : RankToIndex(r, np)[a] % np[a] = RankToIndex(r, np)[a]
    BY <1>1, <1>11, Ring, Axes DEF IsIndex
  <2>. QED  BY <1>10, <2>1 DEF Wrapped
<1>13. IndexToRank(RankToIndex(r, np), np) = i0 + np[0] * (i1 + np[1] * i2)
  BY <1>10, <1>12, Axes DEF IndexToRank
<1>. QED  BY <1>1, <1>3, <1>4, <1>11, <1>13

LEMMA RankOfIndex ==
  ASSUME NEW np \in Count, ~BadDecomposition(np), NEW i, IsIndex(i, np)
  PROVE  IndexToRank(i, np) \in Rank /\ RankToIndex(IndexToRank(i, np), np) = i
<1> DEFINE row == i[1] + np[1] * i[2]
           x == i[0] + np[0] * row
<1>1. np[0] \in Nat \ {0} /\ np[1] \in Nat \ {0} /\ np[2] \in Nat \ {0}
  BY DomainCounts
<1>2. /\ i[0] \in 0 .. np[0] - 1 /\ i[1] \in 0 .. np[1] - 1 /\ i[2] \in 0 .. np[2] - 1
      /\ i = [a \in Axis |-> i[a]]
  BY Axes DEF IsIndex
<1>3. Wrapped(i, np) = i
  <2>1. \A a \in Axis : i[a] % np[a] = i[a]
    BY <1>1, <1>2, Ring, Axes
  <2>. QED  BY <1>2, <2>1 DEF Wrapped
<1>4. IndexToRank(i, np) = x
  BY <1>3 DEF IndexToRank
<1>5. row \in 0 .. np[1] * np[2] - 1 /\ np[1] * np[2] \in Nat
  BY <1>1, <1>2, ProductBound
<1>6. x \in 0 .. np[0] * (np[1] * np[2]) - 1
  <2> HIDE DEF row
  <2>. QED  BY <1>1, <1>2, <1>5, ProductBound
<1>7. np[0] * (np[1] * np[2]) = WorldSize
  <2>1. np[0] * np[1] * np[2] = WorldSize
    BY DEF BadDecomposition
  <2>. QED  BY <1>1, <2>1
<1>8. x \div np[0] = row
  <2> HIDE DEF row
  <2>1. row \in Nat
    BY <1>5
  <2>. QED  BY <1>1, <1>2, <2>1, Digit
<1>9. row \div np[1] = i[2]
  BY <1>1, <1>2, Digit
<1>10. x - row * np[0] = i[0] /\ row - i[2] * np[1] = i[1]
  <2>1. row - i[2] * np[1] = i[1]
    BY <1>1, <1>2
  <2>2. x - row * np[0] = i[0]
    <3>1. row \in Nat
      BY <1>5
    <3> HIDE DEF row
    <3>. QED  BY <1>1, <1>2, <3>1
  <2>. QED  BY <2>1, <2>2
<1> HIDE DEF x, row
<1>11. RankToIndex(x, np) = [a \in Axis |-> i[a]]
  BY <1>8, <1>9, <1>10, Axes DEF RankToIndex
<1>. QED  BY <1>2, <1>4, <1>6, <1>7, <1>11 DEF Rank

\* What lies behind face f of rank r: the next index along its axis, round the
\* ring.
LEMMA AdjacentIndex ==
  ASSUME NEW np \in Count, ~BadDecomposition(np), NEW r \in Rank, NEW f \in Face
  PROVE  /\ Adjacent(r, f, np) \in Rank
         /\ RankToIndex(Adjacent(r, f, np), np) =
              [RankToIndex(r, np) EXCEPT ![AxisOf(f)] = (@ + Direction(f)) % np[AxisOf(f)]]
<1> DEFINE i == RankToIndex(r, np)
           j == [i EXCEPT ![AxisOf(f)] = (@ + Direction(f)) % np[AxisOf(f)]]
<1>1. IsIndex(i, np)
  BY IndexOfRank
<1>2. AxisOf(f) \in Axis /\ Direction(f) \in {-1, 1} /\ \A a \in Axis : np[a] \in Nat \ {0}
  BY Axes, DomainCounts DEF AxisOf, Direction, Face
<1> HIDE DEF i
<1>3. IsIndex(j, np)
  <2>1. i[AxisOf(f)] \in 0 .. np[AxisOf(f)] - 1 /\ np[AxisOf(f)] \in Nat \ {0}
    BY <1>1, <1>2 DEF IsIndex
  <2>2. (i[AxisOf(f)] + Direction(f)) % np[AxisOf(f)] \in 0 .. np[AxisOf(f)] - 1
    BY <1>2, <2>1
  <2>. QED  BY <1>1, <1>2, <2>2 DEF IsIndex
<1>4. Wrapped(Stepped(i, f), np) = j
  <2>1. \A a \in Axis : i[a] % np[a] = i[a]
    BY <1>1, <1>2, Ring DEF IsIndex
  <2>. QED  BY <1>1, <1>2, <2>1 DEF Wrapped, Stepped, IsIndex
<1>5. Wrapped(j, np) = j
  <2>1. \A a \in Axis : j[a] % np[a] = j[a]
    <3> HIDE DEF j
    <3>. QED  BY <1>2, <1>3, Ring DEF IsIndex
  <2>. QED  BY <1>3, <2>1 DEF Wrapped, IsIndex
<1>6. Adjacent(r, f, np) = IndexToRank(j, np)
  BY <1>4, <1>5 DEF Adjacent, IndexToRank, i
<1>. QED  BY <1>3, <1>6, RankOfIndex DEF i

-----------------------------------------------------------------------------
(***************************************************************************)
(* The neighbours agree.                                                   *)
(***************************************************************************)
LEMMA Faces ==
  ASSUME NEW f \in Face
  PROVE  /\ Opposite(f) \in Face /\ Opposite(Opposite(f)) = f
         /\ AxisOf(f) \in Axis /\ AxisOf(Opposite(f)) = AxisOf(f)
         /\ IsLow(Opposite(f)) <=> ~IsLow(f)
<1>1. f \in {0, 1, 2, 3, 4, 5}
  BY DEF Face
<1>. QED  BY <1>1 DEF Face, Opposite, AxisOf, Axis, IsLow

\* My neighbour behind a face has me behind the opposite face.
LEMMA AdjacentMutual ==
  ASSUME NEW np \in Count, ~BadDecomposition(np), NEW r \in Rank, NEW f \in Face
  PROVE  Adjacent(Adjacent(r, f, np), Opposite(f), np) = r
<1>1. PICK q \in Rank : q = Adjacent(r, f, np)
  BY AdjacentIndex
<1>2. PICK g \in Face : g = Opposite(f) /\ AxisOf(g) = AxisOf(f) /\ (IsLow(g) <=> ~IsLow(f))
  BY Faces
<1>3. PICK back \in Rank : back = Adjacent(q, g, np)
  BY AdjacentIndex
<1> DEFINE a == AxisOf(f)
           i == RankToIndex(r, np)
           j == RankToIndex(q, np)
           k == RankToIndex(back, np)
<1>4. IsIndex(i, np) /\ IndexToRank(i, np) = r /\ IndexToRank(k, np) = back /\ IsIndex(k, np)
  BY IndexOfRank
<1>5. j = [i EXCEPT ![a] = (@ + Direction(f)) % np[a]]
  BY <1>1, AdjacentIndex
<1>6. k = [j EXCEPT ![a] = (@ + Direction(g)) % np[a]]
  BY <1>2, <1>3, AdjacentIndex
<1>7. a \in Axis /\ np[a] \in Nat \ {0} /\ i[a] \in 0 .. np[a] - 1 /\ i \in [Axis -> Int]
  BY <1>4, Faces, DomainCounts, Axes DEF IsIndex, Count
<1>8. Direction(f) \in {-1, 1} /\ Direction(g) = -Direction(f)
  BY <1>2 DEF Direction
<1> HIDE DEF i, j, k, a
<1>9. (((i[a] + Direction(f)) % np[a]) + Direction(g)) % np[a] = i[a]
  <2>1. CASE Direction(f) = 1
    <3>1. (i[a] + 1) % np[a] = IF i[a] = np[a] - 1 THEN 0 ELSE i[a] + 1
      BY <1>7, Ring
    <3>2. CASE i[a] = np[a] - 1
      <4>1. (0 - 1) % np[a] = np[a] - 1
        BY <1>7, Ring
      <4>. QED  BY <1>7, <1>8, <2>1, <3>1, <3>2, <4>1
    <3>3. CASE i[a] # np[a] - 1
      BY <1>7, <1>8, <2>1, <3>1, <3>3, Ring
    <3>. QED  BY <3>2, <3>3
  <2>2. CASE Direction(f) = -1
    <3>1. (i[a] - 1) % np[a] = IF i[a] = 0 THEN np[a] - 1 ELSE i[a] - 1
      BY <1>7, Ring
    <3>2. CASE i[a] = 0
      <4>1. (np[a] - 1 + 1) % np[a] = 0
        BY <1>7
      <4>. QED  BY <1>7, <1>8, <2>2, <3>1, <3>2, <4>1
    <3>3. CASE i[a] # 0
      <4>1. (i[a] - 1 + 1) % np[a] = i[a]
        BY <1>7
      <4>. QED  BY <1>7, <1>8, <2>2, <3>1, <3>3, <4>1
    <3>. QED  BY <3>2, <3>3
  <2>. QED  BY <1>8, <2>1, <2>2
<1>10. j[a] = (i[a] + Direction(f)) % np[a]
  BY <1>5, <1>7
<1>11. k = i
  BY <1>5, <1>6, <1>7, <1>9, <1>10
<1>12. back = r
  BY <1>4, <1>11
<1>. QED  BY <1>1, <1>2, <1>3, <1>12

\* So do the boundary conditions: a wall is a wall for both sides.
LEMMA BCMutual ==
  ASSUME NEW np \in Count, ~BadDecomposition(np), NEW nc \in Count, NEW kinds,
         NEW r \in Rank, NEW f \in Face, BC(r, f, kinds, nc, np) \in Rank
  PROVE  BC(BC(r, f, kinds, nc, np), Opposite(f), kinds, nc, np) = r
<1> DEFINE a == AxisOf(f)
<1>1. PICK q \in Rank : q = Adjacent(r, f, np)
  BY AdjacentIndex
<1>2. PICK g \in Face : g = Opposite(f) /\ AxisOf(g) = a /\ (IsLow(g) <=> ~IsLow(f)) /\ a \in Axis
  BY Faces
<1>3. Adjacent(q, g, np) = r
  BY <1>1, <1>2, AdjacentMutual
<1>4. \A kind : WallOfBox(kind) \notin Rank
  BY WorldAssumption DEF WallOfBox, AntiSymmetric, AbsorbFields, Rank
<1>5. ~(kinds[a] # "periodic" /\ AtEnd(r, f, nc, np)) /\ BC(r, f, kinds, nc, np) = q
  BY <1>1, <1>4 DEF BC
<1>6. ~(kinds[a] # "periodic" /\ AtEnd(q, g, nc, np))
  <2> SUFFICES ASSUME kinds[a] # "periodic", AtEnd(q, g, nc, np) PROVE FALSE
    OBVIOUS
  <2>1. nc[a] > 1 /\ ~AtEnd(r, f, nc, np)
    BY <1>2, <1>5 DEF AtEnd
  <2>2. /\ RankToIndex(q, np) = [RankToIndex(r, np) EXCEPT ![a] = (@ + Direction(f)) % np[a]]
        /\ IsIndex(RankToIndex(r, np), np) /\ np[a] \in Nat \ {0}
    BY <1>1, <1>2, AdjacentIndex, IndexOfRank, DomainCounts, Axes
  <2>3. PICK p \in 0 .. np[a] - 1 : p = RankToIndex(r, np)[a]
    BY <1>2, <2>2 DEF IsIndex
  <2>4. RankToIndex(q, np)[a] = (p + Direction(f)) % np[a]
    BY <1>2, <2>2, <2>3 DEF IsIndex
  <2>5. IF IsLow(f) THEN p # 0 ELSE p # np[a] - 1
    BY <2>1, <2>3 DEF AtEnd
  <2>6. IF IsLow(g) THEN RankToIndex(q, np)[a] = 0 ELSE RankToIndex(q, np)[a] = np[a] - 1
    BY <1>2 DEF AtEnd
  <2>7. CASE IsLow(f)
    <3>1. (p - 1) % np[a] = p - 1
      BY <2>2, <2>5, <2>7, Ring
    <3>2. (p - 1) % np[a] = np[a] - 1
      BY <1>2, <2>3, <2>4, <2>6, <2>7 DEF Direction
    <3>. QED  BY <2>2, <3>1, <3>2
  <2>8. CASE ~IsLow(f)
    <3>1. (p + 1) % np[a] = p + 1
      BY <2>2, <2>5, <2>8, Ring
    <3>2. (p + 1) % np[a] = 0
      BY <1>2, <2>4, <2>6, <2>8 DEF Direction
    <3>. QED  BY <2>2, <3>1, <3>2
  <2>. QED  BY <2>7, <2>8
<1>7. BC(q, g, kinds, nc, np) = r
  BY <1>2, <1>3, <1>6 DEF BC
<1>. QED  BY <1>2, <1>5, <1>7

-----------------------------------------------------------------------------
(***************************************************************************)
(* Cells that meet.                                                        *)
(***************************************************************************)
LEMMA CellsAre ==
  ASSUME NEW len \in Count
  PROVE  \A c : c \in Cells(len) <=> c \in [Axis -> Nat] /\ \A a \in Axis : c[a] \in 1 .. len[a]
<1>1. ASSUME NEW c \in Cells(len)
      PROVE  c \in [Axis -> Nat] /\ \A a \in Axis : c[a] \in 1 .. len[a]
  <2>1. PICK t \in (1 .. len[0]) \X (1 .. len[1]) \X (1 .. len[2]) : c = [a \in Axis |-> t[a + 1]]
    BY <1>1 DEF Cells
  <2>2. t[1] \in 1 .. len[0] /\ t[2] \in 1 .. len[1] /\ t[3] \in 1 .. len[2]
    BY <2>1
  <2>. QED  BY <2>1, <2>2, Axes
<1>2. ASSUME NEW c \in [Axis -> Nat], \A a \in Axis : c[a] \in 1 .. len[a]
      PROVE  c \in Cells(len)
  <2> DEFINE t == <<c[0], c[1], c[2]>>
  <2>1. t \in (1 .. len[0]) \X (1 .. len[1]) \X (1 .. len[2])
    BY <1>2, Axes
  <2>2. c = [a \in Axis |-> t[a + 1]]
    BY <1>2, Axes
  <2>. QED  BY <2>1, <2>2 DEF Cells
<1>. QED  BY <1>1, <1>2

\* GLUE_FACE recovers the length of the remote domain from its number of voxels.
LEMMA RemoteLengthIs ==
  ASSUME NEW len \in Count, NEW f \in Face
  PROVE  RemoteLength(len, f, Voxels(len)) = len[AxisOf(f)]
<1>1. PICK x \in Nat \ {0}, y \in Nat \ {0}, z \in Nat \ {0} :
        x = len[0] + 2 /\ y = len[1] + 2 /\ z = len[2] + 2
  BY DomainCounts
<1>2. ASSUME NEW m \in Nat \ {0}, NEW q \in Nat PROVE (m * q) \div m = q
  <2>1. (0 + m * q) \div m = q
    BY <1>2, Digit
  <2>. QED  BY <2>1
<1>3. ASSUME NEW i \in Nat \ {0}, NEW j \in Nat \ {0} PROVE i * j \in Nat \ {0}
  BY <1>3
<1>4. /\ (x * y * z) \div (y * z) = x /\ (x * y * z) \div (z * x) = y
      /\ (x * y * z) \div (x * y) = z
  <2>1. /\ y * z \in Nat \ {0} /\ z * x \in Nat \ {0} /\ x * y \in Nat \ {0}
    BY <1>3
  <2>2. x * y * z = (y * z) * x /\ x * y * z = (z * x) * y /\ x * y * z = (x * y) * z
    OBVIOUS
  <2>3. ((y * z) * x) \div (y * z) = x
    BY <1>2, <2>1
  <2>4. ((z * x) * y) \div (z * x) = y
    BY <1>2, <2>1
  <2>5. ((x * y) * z) \div (x * y) = z
    BY <1>2, <2>1
  <2>. QED  BY <2>2, <2>3, <2>4, <2>5
<1>5. AxisOf(f) \in {0, 1, 2} /\ len[0] \in Nat /\ len[1] \in Nat /\ len[2] \in Nat
  BY Faces, Axes, DomainCounts
<1>6. CASE AxisOf(f) = 0
  BY <1>1, <1>4, <1>5, <1>6 DEF RemoteLength, Voxels
<1>7. CASE AxisOf(f) = 1
  BY <1>1, <1>4, <1>5, <1>7 DEF RemoteLength, Voxels
<1>8. CASE AxisOf(f) = 2
  BY <1>1, <1>4, <1>5, <1>8 DEF RemoteLength, Voxels
<1>. QED  BY <1>5, <1>6, <1>7, <1>8

\* The cell that meets a cell of mine is met by it.
LEMMA GluedMutual ==
  ASSUME NEW len \in Count, NEW f \in Face, NEW c \in Layer(len, f)
  PROVE  /\ Glued(len, f, Voxels(len), c) \in Layer(len, Opposite(f))
         /\ Glued(len, Opposite(f), Voxels(len), Glued(len, f, Voxels(len), c)) = c
<1> DEFINE a == AxisOf(f)
           e == [c EXCEPT ![a] = IF IsLow(f) THEN len[a] ELSE 1]
<1>1. /\ a \in Axis /\ Opposite(f) \in Face /\ AxisOf(Opposite(f)) = a
      /\ IsLow(Opposite(f)) <=> ~IsLow(f)
  BY Faces
<1>2. c \in [Axis -> Nat] /\ (\A b \in Axis : c[b] \in 1 .. len[b])
      /\ c[a] = IF IsLow(f) THEN 1 ELSE len[a]
  BY CellsAre DEF Layer
<1>3. len[a] \in Nat \ {0}
  BY <1>1 DEF Count
<1>4. Glued(len, f, Voxels(len), c) = e
  BY <1>1, RemoteLengthIs DEF Glued
<1>5. Glued(len, Opposite(f), Voxels(len), e) = [e EXCEPT ![a] = IF IsLow(f) THEN 1 ELSE len[a]]
  BY <1>1, RemoteLengthIs DEF Glued
<1>6. e \in Layer(len, Opposite(f))
  <2>1. e \in [Axis -> Nat] /\ \A b \in Axis : e[b] \in 1 .. len[b]
    BY <1>1, <1>2, <1>3
  <2>2. e[a] = IF IsLow(f) THEN len[a] ELSE 1
    BY <1>1, <1>2
  <2>. QED  BY <1>1, <2>1, <2>2, CellsAre DEF Layer
<1>7. [e EXCEPT ![a] = IF IsLow(f) THEN 1 ELSE len[a]] = c
  BY <1>1, <1>2
<1>. QED  BY <1>4, <1>5, <1>6, <1>7
=============================================================================
