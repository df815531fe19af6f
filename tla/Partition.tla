----------------------------- MODULE Partition ------------------------------
(***************************************************************************)
(* How the ranks divide the simulation box: partition_periodic_box,        *)
(* partition_absorbing_box and partition_metal_box, with size_grid,        *)
(* join_grid, set_fbc and set_pbc under them.                              *)
(*                                                                         *)
(* Every rank computes its neighbours alone, from its own rank and the     *)
(* arguments of the input deck.  What the ports of the field exchange and  *)
(* the particle exchange rest on is that they agree: my neighbour behind a *)
(* face has me behind the opposite face, with the same cells.              *)
(***************************************************************************)
EXTENDS Integers

CONSTANT WorldSize    \* world_size, the number of ranks

ASSUME WorldAssumption == WorldSize \in Nat \ {0}

Rank == 0 .. WorldSize - 1

\* Axes are x, y, z.  Faces are -x, -y, -z, +x, +y, +z, as the tag of GLUE_FACE.
Axis == 0 .. 2
Face == 0 .. 5
AxisOf(f) == f % 3
IsLow(f) == f < 3
Opposite(f) == (f + 3) % 6
Direction(f) == IF IsLow(f) THEN -1 ELSE 1

Count == [Axis -> Nat \ {0}]
Box == {"periodic", "absorbing", "metal"}

\* Field boundary conditions, as in grid.h, and what stands for a particle one.
AntiSymmetric == -1
AbsorbFields == -4
Reflect == <<"reflect">>
WallOfBox(kind) == IF kind = "metal" THEN AntiSymmetric ELSE AbsorbFields
ParticleWall(kind) == IF kind = "metal" THEN Reflect ELSE <<"pbc">>
-----------------------------------------------------------------------------
\* np[a] is the number of domains (gpx, gpy, gpz) along axis a, nc[a] the number
\* of cells (gnx, gny, gnz) and len[a] the number of cells of a domain.
BadDecomposition(np) == np[0] * np[1] * np[2] # WorldSize
BadResolution(nc, np) == \E a \in Axis : nc[a] % np[a] # 0

LocalCells(nc, np) == [a \in Axis |-> nc[a] \div np[a]]

\* RANK_TO_INDEX: rank = ix + gpx*( iy + gpy*iz )
RankToIndex(rank, np) ==
  LET row == rank \div np[0]
  IN  [a \in Axis |-> IF a = 0 THEN rank - row * np[0]
                      ELSE IF a = 1 THEN row - (row \div np[1]) * np[1]
                      ELSE row \div np[1]]

\* INDEX_TO_RANK wraps the index round periodically first.
Wrapped(index, np) == [a \in Axis |-> index[a] % np[a]]
IndexToRank(index, np) ==
  LET i == Wrapped(index, np)
  IN  i[0] + np[0] * (i[1] + np[1] * i[2])

Stepped(index, f) == [index EXCEPT ![AxisOf(f)] = @ + Direction(f)]

\* The rank partition_periodic_box joins to face f.
Adjacent(rank, f, np) == IndexToRank(Stepped(RankToIndex(rank, np), f), np)

\* The faces partition_absorbing_box and partition_metal_box override: the ends
\* of the box, except along an axis of one cell.
AtEndOffByOne(rank, f, nc, np) ==
  LET p == RankToIndex(rank, np)[AxisOf(f)]
  IN  (IF IsLow(f) THEN p = 0 ELSE p = np[AxisOf(f)]) /\ nc[AxisOf(f)] > 1
AtEnd(rank, f, nc, np) ==
  LET p == RankToIndex(rank, np)[AxisOf(f)]
  IN  (IF IsLow(f) THEN p = 0 ELSE p = np[AxisOf(f)] - 1) /\ nc[AxisOf(f)] > 1

\* g->bc[f] when the rank has partitioned the box, which is of one kind along
\* every axis unless the deck puts up walls of its own (set_domain_field_bc and
\* set_domain_particle_bc at the ends of the box).
BC(rank, f, kinds, nc, np) ==
  LET kind == kinds[AxisOf(f)]
  IN  IF kind # "periodic" /\ AtEnd(rank, f, nc, np) THEN WallOfBox(kind)
      ELSE Adjacent(rank, f, np)
-----------------------------------------------------------------------------
\* The cells of a domain are counted from one along each axis.
Cells(len) ==
  {[a \in Axis |-> c[a + 1]] : c \in (1 .. len[0]) \X (1 .. len[1]) \X (1 .. len[2])}
Layer(len, f) == {c \in Cells(len) : c[AxisOf(f)] = IF IsLow(f) THEN 1 ELSE len[AxisOf(f)]}

\* GLUE_FACE: the length of the remote domain from its number of voxels, which
\* is all size_grid shared, and the cell that meets cell c there.
Voxels(len) == (len[0] + 2) * (len[1] + 2) * (len[2] + 2)
RemoteLength(len, f, rnc) ==
  LET b == (AxisOf(f) + 1) % 3
      c == (AxisOf(f) + 2) % 3
  IN  rnc \div ((len[b] + 2) * (len[c] + 2)) - 2
GluedSameSide(len, f, rnc, cell) ==
  [cell EXCEPT ![AxisOf(f)] = IF IsLow(f) THEN 1 ELSE RemoteLength(len, f, rnc)]
Glued(len, f, rnc, cell) ==
  [cell EXCEPT ![AxisOf(f)] = IF IsLow(f) THEN RemoteLength(len, f, rnc) ELSE 1]
=============================================================================
