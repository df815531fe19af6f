-------------------------- MODULE FieldStep_proofs --------------------------
(***************************************************************************)
(* The kernels of a step update every value of the fields exactly once,    *)
(* from current values: for a domain of any size, with any walls, and any  *)
(* number of cleaning rounds and of steps.                                 *)
(***************************************************************************)
EXTENDS FieldStep, Partition_proofs, FiniteSetTheorems, SequenceTheorems

Name == {"e", "cb", "div_e_err", "div_b_err"}
Call == {"advance_b", "advance_e", "compute_div_e_err", "clean_div_e",
         "compute_div_b_err", "clean_div_b", "load_interpolator"}
Fields == [Component -> [Voxel -> Int]]

(***************************************************************************)
(* The inductive invariant.                                                *)
(***************************************************************************)
Visited(loops) == UNION {loops[i] : i \in DOMAIN loops}

\* What the interior kernels of a routine with ghosts update.
Inner(c) ==
  CASE c[1] = "e"  -> Visited(InteriorLoops(c[2]))
    [] c[1] = "cb" -> Visited(CleanDivBInteriorLoops(c[2]))
    [] c = DivE    -> Visited(DivEInteriorLoops)
    [] OTHER       -> {}

\* The routine that updates a component in two parts, and is between them.
InTwoParts(name) ==
  CASE name = "e"  -> "advance_e"
    [] name = "cb" -> "clean_div_b"
    [] name = "div_e_err" -> "compute_div_e_err"
    [] OTHER -> ""
Between(name) ==
  todo # <<>> /\ Head(todo) = InTwoParts(name) /\ part \in {"ghosts", "exterior"}

OwnedOK ==
  \A c \in Component : \A p \in Owned(c) :
    k_field[c][p] = IF Between(c[1]) /\ p \in Inner(c) THEN when[c[1]] + 1 ELSE when[c[1]]

Ghosts(op, d) == GhostPlaces(op, d, GhostPlane(d))
Packed(op, d) == GhostPlaces(op, d, InnerPlane(d))
GhostsOf(call) ==
  CASE call = "advance_e" -> "tang_b"
    [] call = "compute_div_e_err" -> "norm_e"
    [] OTHER -> "div_b"
GhostOp == GhostsOf(Head(todo))

\* Filled(d): the ghosts behind face d have been filled.  What a wall puts into
\* those of norm_e may be Garbage, and is not used.
Filled(d) ==
  IF Wall(d) THEN part # "start" /\ GhostOp # "norm_e" ELSE part = "exterior"
GhostsOK ==
  \A d \in Face : Filled(d) => \A v \in Ghosts(GhostOp, d) : Current(k_field, v)
\* The packed planes hold what the domains behind the faces lack.
BufferHas(b, op) ==
  \A d \in Face : ~Wall(d) => \A v \in Packed(op, d) : b[d][v] = when[v[1][1]]
BufferOK == part \in {"interior", "ghosts"} => BufferHas(buf, GhostOp)

\* An absorbing wall relaxes the ghosts of tang_b, so they are never Garbage.
Clean(f) == \A d \in Face : \A v \in Ghosts("tang_b", d) : f[v[1]][v[2]] # Garbage
NoGarbage == Clean(k_field)

TodoOK ==
  /\ todo \in Seq(Call)
  /\ todo # <<>> => todo[Len(todo)] = "load_interpolator"
  /\ part \in {"start", "interior", "ghosts", "exterior"}
  /\ part # "start" => /\ todo # <<>>
                       /\ Head(todo) \in {"advance_e", "compute_div_e_err", "clean_div_b"}
TypeOK ==
  /\ domain \in Domains
  /\ k_field \in Fields
  /\ when \in [Name -> Nat]
  /\ DOMAIN k_interp = Box3(0, 1 .. n[0], 1 .. n[1], 1 .. n[2])
  /\ step \in Nat

IInv ==
  /\ TypeOK /\ TodoOK
  /\ OwnedOK /\ GhostsOK /\ BufferOK /\ NoGarbage
  /\ InterpolatorCurrent

-----------------------------------------------------------------------------
(***************************************************************************)
(* The mesh.                                                               *)
(***************************************************************************)
LEMMA ThreeAxes ==
  ASSUME NEW X \in Axis
  PROVE  /\ Y(X) \in Axis /\ Z(X) \in Axis
         /\ X # Y(X) /\ X # Z(X) /\ Y(X) # Z(X)
         /\ \A a \in Axis : a = X \/ a = Y(X) \/ a = Z(X)
         /\ Y(Y(X)) = Z(X) /\ Z(Y(X)) = X /\ Y(Z(X)) = X /\ Z(Z(X)) = Y(X)
<1>1. X = 0 \/ X = 1 \/ X = 2
  BY Axes
<1>. QED  BY <1>1, Axes DEF Y, Z

LEMMA FaceOf ==
  ASSUME NEW X \in Axis
  PROVE  /\ X \in Face /\ AxisOf(X) = X /\ IsLow(X) /\ Opposite(X) = X + 3
         /\ X + 3 \in Face /\ AxisOf(X + 3) = X /\ ~IsLow(X + 3) /\ Opposite(X + 3) = X
<1>1. X = 0 \/ X = 1 \/ X = 2
  BY Axes
<1>. QED  BY <1>1 DEF Face, AxisOf, IsLow, Opposite

LEMMA TheDomain ==
  ASSUME domain \in Domains
  PROVE  /\ MaxLength \in Nat
         /\ n \in [Axis -> 1 .. MaxLength]
         /\ \A d \in Face : domain.bc[d] \in Rank \cup {AntiSymmetric, AbsorbFields}
         /\ \A d \in Face : Wall(Opposite(d)) <=> Wall(d)
<1>1. domain \in [n : [Axis -> 1 .. MaxLength], bc : [Face -> Rank \cup {AntiSymmetric, AbsorbFields}]]
  BY DomainAssumption
<1>2. \A f \in Face : domain.bc[f] \in Rank <=> domain.bc[Opposite(f)] \in Rank
  BY DomainAssumption
<1>. QED  BY <1>1, <1>2, BoundAssumption DEF n, Wall

LEMMA Voxels3 ==
  ASSUME domain \in Domains
  PROVE  \A p : p \in Voxel <=> p \in [Axis -> Int] /\ \A a \in Axis : p[a] \in 0 .. n[a] + 1
<1>1. MaxLength \in Nat /\ \A a \in Axis : n[a] \in 1 .. MaxLength
  BY TheDomain
<1>. QED  BY <1>1 DEF Voxel

LEMMA InBox ==
  ASSUME domain \in Domains, NEW X \in Axis, NEW xs, NEW ys, NEW zs, NEW p
  PROVE  p \in Box3(X, xs, ys, zs) <=> p \in Voxel /\ p[X] \in xs /\ p[Y(X)] \in ys /\ p[Z(X)] \in zs
BY DEF Box3

LEMMA Shifted ==
  ASSUME domain \in Domains, NEW p \in Voxel, NEW a \in Axis, NEW k \in Int, p[a] + k \in 0 .. n[a] + 1
  PROVE  /\ Shift(p, a, k) \in Voxel /\ Shift(p, a, k)[a] = p[a] + k
         /\ \A b \in Axis \ {a} : Shift(p, a, k)[b] = p[b]
BY Voxels3 DEF Shift

LEMMA InPlane ==
  ASSUME domain \in Domains, NEW p \in Voxel, NEW d \in Face, NEW k, k \in 0 .. n[AxisOf(d)] + 1
  PROVE  /\ In(d, p, k) \in Voxel /\ In(d, p, k)[AxisOf(d)] = k
         /\ \A b \in Axis \ {AxisOf(d)} : In(d, p, k)[b] = p[b]
         /\ \A j : In(d, In(d, p, k), j) = In(d, p, j)
         /\ p[AxisOf(d)] = k => In(d, p, k) = p
<1>1. AxisOf(d) \in Axis
  BY Faces
<1>2. p \in [Axis -> Int] /\ \A a \in Axis : p[a] \in 0 .. n[a] + 1
  BY Voxels3
<1>3. In(d, p, k) \in [Axis -> Int] /\ In(d, p, k)[AxisOf(d)] = k
      /\ \A b \in Axis \ {AxisOf(d)} : In(d, p, k)[b] = p[b]
  BY <1>1, <1>2 DEF In
<1>4. In(d, p, k) \in Voxel
  <2>1. \A b \in Axis : In(d, p, k)[b] \in 0 .. n[b] + 1
    BY <1>2, <1>3
  <2>. QED  BY <1>3, <2>1, Voxels3
<1>5. \A j : In(d, In(d, p, k), j) = In(d, p, j)
  BY <1>1, <1>2 DEF In
<1>6. p[AxisOf(d)] = k => In(d, p, k) = p
  BY <1>1, <1>2 DEF In
<1>. QED  BY <1>3, <1>4, <1>5, <1>6

(***************************************************************************)
(* The values the domain has.                                              *)
(***************************************************************************)
LEMMA OwnedIs ==
  ASSUME domain \in Domains, NEW X \in Axis, NEW p
  PROVE  /\ p \in Owned(<<"e", X>>) <=>
              p \in Voxel /\ p[X] \in 1 .. n[X] /\ p[Y(X)] \in 1 .. n[Y(X)] + 1 /\ p[Z(X)] \in 1 .. n[Z(X)] + 1
         /\ p \in Owned(<<"cb", X>>) <=>
              p \in Voxel /\ p[X] \in 1 .. n[X] + 1 /\ p[Y(X)] \in 1 .. n[Y(X)] /\ p[Z(X)] \in 1 .. n[Z(X)]
         /\ p \in Owned(DivE) <=> p \in Voxel /\ \A a \in Axis : p[a] \in 1 .. n[a] + 1
         /\ p \in Owned(DivB) <=> p \in Voxel /\ \A a \in Axis : p[a] \in 1 .. n[a]
<1>1. /\ Y(X) \in Axis /\ Z(X) \in Axis
      /\ X # Y(X) /\ X # Z(X) /\ Y(X) # Z(X)
      /\ \A a \in Axis : a = X \/ a = Y(X) \/ a = Z(X)
  BY ThreeAxes
<1>2. p \in Owned(<<"e", X>>) <=>
        p \in Voxel /\ \A a \in Axis : p[a] \in 1 .. (IF a # X THEN n[a] + 1 ELSE n[a])
  BY DEF Owned
<1>3. p \in Owned(<<"cb", X>>) <=>
        p \in Voxel /\ \A a \in Axis : p[a] \in 1 .. (IF a = X THEN n[a] + 1 ELSE n[a])
  BY DEF Owned
<1>4. p \in Owned(DivE) <=> p \in Voxel /\ \A a \in Axis : p[a] \in 1 .. n[a] + 1
  BY DEF Owned, DivE
<1>5. p \in Owned(DivB) <=> p \in Voxel /\ \A a \in Axis : p[a] \in 1 .. n[a]
  BY DEF Owned, DivB
<1>6. p \in Owned(<<"e", X>>) <=>
        p \in Voxel /\ p[X] \in 1 .. n[X] /\ p[Y(X)] \in 1 .. n[Y(X)] + 1 /\ p[Z(X)] \in 1 .. n[Z(X)] + 1
  BY <1>1, <1>2
<1>7. p \in Owned(<<"cb", X>>) <=>
        p \in Voxel /\ p[X] \in 1 .. n[X] + 1 /\ p[Y(X)] \in 1 .. n[Y(X)] /\ p[Z(X)] \in 1 .. n[Z(X)]
  BY <1>1, <1>3
<1>. QED  BY <1>4, <1>5, <1>6, <1>7

(***************************************************************************)
(* The loops of each routine cover its component, and no voxel twice.      *)
(***************************************************************************)
Disjoint(loops) ==
  /\ IsFiniteSet(DOMAIN loops)
  /\ \A i, j \in DOMAIN loops : i # j => \A p \in loops[i] : p \notin loops[j]

LEMMA Sizes ==
  ASSUME domain \in Domains, NEW X \in Axis
  PROVE  n[X] \in Nat \ {0} /\ n[Y(X)] \in Nat \ {0} /\ n[Z(X)] \in Nat \ {0}
<1>1. n[X] \in 1 .. MaxLength /\ n[Y(X)] \in 1 .. MaxLength /\ n[Z(X)] \in 1 .. MaxLength
  BY TheDomain, ThreeAxes
<1>2. MaxLength \in Nat
  BY TheDomain
<1>. QED  BY <1>1, <1>2

\* advance_b: the faces left over are those at n + 1.
LEMMA AdvanceBCovers ==
  ASSUME domain \in Domains, NEW X \in Axis
  PROVE  Disjoint(AdvanceBLoops(X)) /\ Visited(AdvanceBLoops(X)) = Owned(<<"cb", X>>)
<1> DEFINE L == AdvanceBLoops(X)
<1>1. n[X] \in Nat \ {0} /\ n[Y(X)] \in Nat \ {0} /\ n[Z(X)] \in Nat \ {0}
  BY Sizes
<1>2. DOMAIN L = 1 .. 2
  BY DEF AdvanceBLoops
<1>3. ASSUME NEW p
      PROVE  /\ p \in L[1] <=> p \in Voxel /\ p[X] \in 1 .. n[X] /\ p[Y(X)] \in 1 .. n[Y(X)] /\ p[Z(X)] \in 1 .. n[Z(X)]
             /\ p \in L[2] <=> p \in Voxel /\ p[X] \in {n[X] + 1} /\ p[Y(X)] \in 1 .. n[Y(X)] /\ p[Z(X)] \in 1 .. n[Z(X)]
  BY DEF AdvanceBLoops, Box3
<1> HIDE DEF L
<1>4. Disjoint(L)
  <2>1. IsFiniteSet(DOMAIN L)
    BY <1>2, FS_Interval, 1 \in Int, 2 \in Int, 4 \in Int
  <2>2. ASSUME NEW p PROVE ~(p \in L[1] /\ p \in L[2])
    BY <1>1, <1>3
  <2>. QED  BY <1>2, <2>1, <2>2 DEF Disjoint
<1>5. ASSUME NEW p PROVE p \in Visited(L) <=> p \in L[1] \/ p \in L[2]
  BY <1>2 DEF Visited
<1>6. ASSUME NEW p PROVE p \in Visited(L) <=> p \in Owned(<<"cb", X>>)
  <2>1. p \in Owned(<<"cb", X>>) <=>
          p \in Voxel /\ p[X] \in 1 .. n[X] + 1 /\ p[Y(X)] \in 1 .. n[Y(X)] /\ p[Z(X)] \in 1 .. n[Z(X)]
    BY OwnedIs
  <2>2. p[X] \in 1 .. n[X] + 1 <=> p[X] \in 1 .. n[X] \/ p[X] \in {n[X] + 1}
    BY <1>1
  <2>. QED  BY <1>3, <1>5, <2>1, <2>2
<1>. QED  BY <1>4, <1>6 DEF L

\* advance_e: the interior kernels, and the exterior ones round them.
LEMMA AdvanceECovers ==
  ASSUME domain \in Domains, NEW X \in Axis
  PROVE  /\ Disjoint(InteriorLoops(X)) /\ Disjoint(ExteriorLoops(X))
         /\ \A p : p \in Owned(<<"e", X>>) <=>
                     p \in Visited(InteriorLoops(X)) \/ p \in Visited(ExteriorLoops(X))
         /\ \A p : ~(p \in Visited(InteriorLoops(X)) /\ p \in Visited(ExteriorLoops(X)))
         /\ \A p \in Visited(InteriorLoops(X)) : p[Y(X)] \in 2 .. n[Y(X)] /\ p[Z(X)] \in 2 .. n[Z(X)]
<1> DEFINE I == InteriorLoops(X)
           E == ExteriorLoops(X)
<1>1. n[X] \in Nat \ {0} /\ n[Y(X)] \in Nat \ {0} /\ n[Z(X)] \in Nat \ {0}
  BY Sizes
<1>2. DOMAIN I = 1 .. 2 /\ DOMAIN E = 1 .. 4
  BY DEF InteriorLoops, ExteriorLoops
<1>3. ASSUME NEW p
      PROVE  /\ p \in I[1] <=> p \in Voxel /\ p[X] \in 2 .. n[X] /\ p[Y(X)] \in 2 .. n[Y(X)] /\ p[Z(X)] \in 2 .. n[Z(X)]
             /\ p \in I[2] <=> p \in Voxel /\ p[X] \in {1} /\ p[Y(X)] \in 2 .. n[Y(X)] /\ p[Z(X)] \in 2 .. n[Z(X)]
             /\ p \in E[1] <=> p \in Voxel /\ p[X] \in 1 .. n[X] /\ p[Y(X)] \in 1 .. n[Y(X)] + 1 /\ p[Z(X)] \in {1}
             /\ p \in E[2] <=> p \in Voxel /\ p[X] \in 1 .. n[X] /\ p[Y(X)] \in 1 .. n[Y(X)] + 1 /\ p[Z(X)] \in {n[Z(X)] + 1}
             /\ p \in E[3] <=> p \in Voxel /\ p[X] \in 1 .. n[X] /\ p[Y(X)] \in {1} /\ p[Z(X)] \in 2 .. n[Z(X)]
             /\ p \in E[4] <=> p \in Voxel /\ p[X] \in 1 .. n[X] /\ p[Y(X)] \in {n[Y(X)] + 1} /\ p[Z(X)] \in 2 .. n[Z(X)]
  BY InBox DEF InteriorLoops, ExteriorLoops
<1> HIDE DEF I, E
<1>4. Disjoint(I) /\ Disjoint(E)
  <2>1. IsFiniteSet(DOMAIN I) /\ IsFiniteSet(DOMAIN E)
    BY <1>2, FS_Interval, 1 \in Int, 2 \in Int, 4 \in Int
  <2>2. ASSUME NEW p PROVE ~(p \in I[1] /\ p \in I[2])
    BY <1>1, <1>3
  <2>3. ASSUME NEW p
        PROVE  /\ ~(p \in E[1] /\ p \in E[2]) /\ ~(p \in E[1] /\ p \in E[3]) /\ ~(p \in E[1] /\ p \in E[4])
               /\ ~(p \in E[2] /\ p \in E[3]) /\ ~(p \in E[2] /\ p \in E[4]) /\ ~(p \in E[3] /\ p \in E[4])
    BY <1>1, <1>3
  <2>4. \A i, j \in 1 .. 4 : i # j => \A p \in E[i] : p \notin E[j]
    <3>1. \A i \in 1 .. 4 : i = 1 \/ i = 2 \/ i = 3 \/ i = 4
      OBVIOUS
    <3>. QED  BY <2>3, <3>1
  <2>. QED  BY <1>2, <2>1, <2>2, <2>4 DEF Disjoint
<1>5. ASSUME NEW p
      PROVE  /\ p \in Visited(I) <=> p \in I[1] \/ p \in I[2]
             /\ p \in Visited(E) <=> p \in E[1] \/ p \in E[2] \/ p \in E[3] \/ p \in E[4]
  BY <1>2 DEF Visited
<1>6. ASSUME NEW p PROVE p \in Owned(<<"e", X>>) <=> p \in Visited(I) \/ p \in Visited(E)
  <2>1. p \in Owned(<<"e", X>>) <=>
          p \in Voxel /\ p[X] \in 1 .. n[X] /\ p[Y(X)] \in 1 .. n[Y(X)] + 1 /\ p[Z(X)] \in 1 .. n[Z(X)] + 1
    BY OwnedIs
  <2>2. p[X] \in 1 .. n[X] <=> p[X] \in 2 .. n[X] \/ p[X] \in {1}
    BY <1>1
  <2>3. p[Y(X)] \in 1 .. n[Y(X)] + 1 <=> p[Y(X)] \in 2 .. n[Y(X)] \/ p[Y(X)] \in {1} \/ p[Y(X)] \in {n[Y(X)] + 1}
    BY <1>1
  <2>4. p[Z(X)] \in 1 .. n[Z(X)] + 1 <=> p[Z(X)] \in 2 .. n[Z(X)] \/ p[Z(X)] \in {1} \/ p[Z(X)] \in {n[Z(X)] + 1}
    BY <1>1
  <2>. QED  BY <1>3, <1>5, <2>1, <2>2, <2>3, <2>4
<1>7. ASSUME NEW p PROVE ~(p \in Visited(I) /\ p \in Visited(E))
  BY <1>1, <1>3, <1>5
<1>8. \A p \in Visited(I) : p[Y(X)] \in 2 .. n[Y(X)] /\ p[Z(X)] \in 2 .. n[Z(X)]
  BY <1>1, <1>3, <1>5
<1>. QED  BY <1>4, <1>6, <1>7, <1>8 DEF I, E

\* clean_div_e: the box, and the two planes left over.
LEMMA CleanDivECovers ==
  ASSUME domain \in Domains, NEW X \in Axis
  PROVE  Disjoint(CleanDivELoops(X)) /\ Visited(CleanDivELoops(X)) = Owned(<<"e", X>>)
<1> DEFINE L == CleanDivELoops(X)
<1>1. n[X] \in Nat \ {0} /\ n[Y(X)] \in Nat \ {0} /\ n[Z(X)] \in Nat \ {0}
  BY Sizes
<1>2. DOMAIN L = 1 .. 3
  BY DEF CleanDivELoops
<1>3. ASSUME NEW p
      PROVE  /\ p \in L[1] <=> p \in Voxel /\ p[X] \in 1 .. n[X] /\ p[Y(X)] \in 1 .. n[Y(X)] /\ p[Z(X)] \in 1 .. n[Z(X)]
             /\ p \in L[2] <=> p \in Voxel /\ p[X] \in 1 .. n[X] /\ p[Y(X)] \in 1 .. n[Y(X)] + 1 /\ p[Z(X)] \in {n[Z(X)] + 1}
             /\ p \in L[3] <=> p \in Voxel /\ p[X] \in 1 .. n[X] /\ p[Y(X)] \in {n[Y(X)] + 1} /\ p[Z(X)] \in 1 .. n[Z(X)]
  BY DEF CleanDivELoops, Box3
<1> HIDE DEF L
<1>4. Disjoint(L)
  <2>1. IsFiniteSet(DOMAIN L)
    BY <1>2, FS_Interval, 1 \in Int, 3 \in Int
  <2>2. ASSUME NEW p
        PROVE  ~(p \in L[1] /\ p \in L[2]) /\ ~(p \in L[1] /\ p \in L[3]) /\ ~(p \in L[2] /\ p \in L[3])
    BY <1>1, <1>3
  <2>3. \A i, j \in 1 .. 3 : i # j => \A p \in L[i] : p \notin L[j]
    <3>1. \A i \in 1 .. 3 : i = 1 \/ i = 2 \/ i = 3
      OBVIOUS
    <3>. QED  BY <2>2, <3>1
  <2>. QED  BY <1>2, <2>1, <2>3 DEF Disjoint
<1>5. ASSUME NEW p PROVE p \in Visited(L) <=> p \in L[1] \/ p \in L[2] \/ p \in L[3]
  BY <1>2 DEF Visited
<1>6. ASSUME NEW p PROVE p \in Visited(L) <=> p \in Owned(<<"e", X>>)
  <2>1. p \in Owned(<<"e", X>>) <=>
          p \in Voxel /\ p[X] \in 1 .. n[X] /\ p[Y(X)] \in 1 .. n[Y(X)] + 1 /\ p[Z(X)] \in 1 .. n[Z(X)] + 1
    BY OwnedIs
  <2>2. p[Y(X)] \in 1 .. n[Y(X)] + 1 <=> p[Y(X)] \in 1 .. n[Y(X)] \/ p[Y(X)] \in {n[Y(X)] + 1}
    BY <1>1
  <2>3. p[Z(X)] \in 1 .. n[Z(X)] + 1 <=> p[Z(X)] \in 1 .. n[Z(X)] \/ p[Z(X)] \in {n[Z(X)] + 1}
    BY <1>1
  <2>. QED  BY <1>3, <1>5, <2>1, <2>2, <2>3
<1>. QED  BY <1>4, <1>6 DEF L

\* clean_div_b: the interior kernels, and the two outer planes.
LEMMA CleanDivBCovers ==
  ASSUME domain \in Domains, NEW X \in Axis
  PROVE  /\ Disjoint(CleanDivBInteriorLoops(X)) /\ Disjoint(CleanDivBExteriorLoops(X))
         /\ \A p : p \in Owned(<<"cb", X>>) <=>
                     \/ p \in Visited(CleanDivBInteriorLoops(X))
                     \/ p \in Visited(CleanDivBExteriorLoops(X))
         /\ \A p : ~(p \in Visited(CleanDivBInteriorLoops(X)) /\ p \in Visited(CleanDivBExteriorLoops(X)))
         /\ \A p \in Visited(CleanDivBInteriorLoops(X)) : p[X] \in 2 .. n[X]
<1> DEFINE I == CleanDivBInteriorLoops(X)
           E == CleanDivBExteriorLoops(X)
<1>1. n[X] \in Nat \ {0} /\ n[Y(X)] \in Nat \ {0} /\ n[Z(X)] \in Nat \ {0}
  BY Sizes
<1>2. DOMAIN I = 1 .. 3 /\ DOMAIN E = 1 .. 1
  BY DEF CleanDivBInteriorLoops, CleanDivBExteriorLoops
<1>3. ASSUME NEW p
      PROVE  /\ p \in I[1] <=> p \in Voxel /\ p[X] \in 2 .. n[X] /\ p[Y(X)] \in 2 .. n[Y(X)] /\ p[Z(X)] \in 2 .. n[Z(X)]
             /\ p \in I[2] <=> p \in Voxel /\ p[X] \in 2 .. n[X] /\ p[Y(X)] \in 1 .. n[Y(X)] /\ p[Z(X)] \in {1}
             /\ p \in I[3] <=> p \in Voxel /\ p[X] \in 2 .. n[X] /\ p[Y(X)] \in {1} /\ p[Z(X)] \in 2 .. n[Z(X)]
             /\ p \in E[1] <=> p \in Voxel /\ p[X] \in {1, n[X] + 1} /\ p[Y(X)] \in 1 .. n[Y(X)] /\ p[Z(X)] \in 1 .. n[Z(X)]
  BY DEF CleanDivBInteriorLoops, CleanDivBExteriorLoops, Box3
<1> HIDE DEF I, E
<1>4. Disjoint(I) /\ Disjoint(E)
  <2>1. IsFiniteSet(DOMAIN I) /\ IsFiniteSet(DOMAIN E)
    BY <1>2, FS_Interval, 1 \in Int, 3 \in Int
  <2>2. ASSUME NEW p
        PROVE  ~(p \in I[1] /\ p \in I[2]) /\ ~(p \in I[1] /\ p \in I[3]) /\ ~(p \in I[2] /\ p \in I[3])
    BY <1>1, <1>3
  <2>3. \A i, j \in 1 .. 3 : i # j => \A p \in I[i] : p \notin I[j]
    <3>1. \A i \in 1 .. 3 : i = 1 \/ i = 2 \/ i = 3
      OBVIOUS
    <3>. QED  BY <2>2, <3>1
  <2>. QED  BY <1>2, <2>1, <2>3 DEF Disjoint
<1>5. ASSUME NEW p
      PROVE  /\ p \in Visited(I) <=> p \in I[1] \/ p \in I[2] \/ p \in I[3]
             /\ p \in Visited(E) <=> p \in E[1]
  BY <1>2 DEF Visited
<1>6. ASSUME NEW p PROVE p \in Owned(<<"cb", X>>) <=> p \in Visited(I) \/ p \in Visited(E)
  <2>1. p \in Owned(<<"cb", X>>) <=>
          p \in Voxel /\ p[X] \in 1 .. n[X] + 1 /\ p[Y(X)] \in 1 .. n[Y(X)] /\ p[Z(X)] \in 1 .. n[Z(X)]
    BY OwnedIs
  <2>2. p[X] \in 1 .. n[X] + 1 <=> p[X] \in 2 .. n[X] \/ p[X] \in {1, n[X] + 1}
    BY <1>1
  <2>3. p[Y(X)] \in 1 .. n[Y(X)] <=> p[Y(X)] \in 2 .. n[Y(X)] \/ p[Y(X)] \in {1}
    BY <1>1
  <2>4. p[Z(X)] \in 1 .. n[Z(X)] <=> p[Z(X)] \in 2 .. n[Z(X)] \/ p[Z(X)] \in {1}
    BY <1>1
  <2>. QED  BY <1>3, <1>5, <2>1, <2>2, <2>3, <2>4
<1>7. ASSUME NEW p PROVE ~(p \in Visited(I) /\ p \in Visited(E))
  BY <1>1, <1>3, <1>5
<1>8. \A p \in Visited(I) : p[X] \in 2 .. n[X]
  BY <1>1, <1>3, <1>5
<1>. QED  BY <1>4, <1>6, <1>7, <1>8 DEF I, E

LEMMA FirstAxis == 0 \in Axis /\ Y(0) = 1 /\ Z(0) = 2 /\ \A a \in Axis : a = 0 \/ a = 1 \/ a = 2
BY Axes DEF Y, Z

\* compute_div_e_err: the inner nodes, and the six faces with their edges.
LEMMA DivECovers ==
  ASSUME domain \in Domains
  PROVE  /\ Disjoint(DivEInteriorLoops) /\ Disjoint(DivEExteriorLoops)
         /\ \A p : p \in Owned(DivE) <=> p \in Visited(DivEInteriorLoops) \/ p \in Visited(DivEExteriorLoops)
         /\ \A p : ~(p \in Visited(DivEInteriorLoops) /\ p \in Visited(DivEExteriorLoops))
         /\ \A p \in Visited(DivEInteriorLoops) : \A a \in Axis : p[a] \in 2 .. n[a]
<1> DEFINE I == DivEInteriorLoops
           E == DivEExteriorLoops
<1>1. n[0] \in Nat \ {0} /\ n[1] \in Nat \ {0} /\ n[2] \in Nat \ {0}
  BY Sizes, FirstAxis
<1>2. DOMAIN I = 1 .. 1 /\ DOMAIN E = 1 .. 5
  BY DEF DivEInteriorLoops, DivEExteriorLoops
<1>3. ASSUME NEW p
      PROVE  /\ p \in I[1] <=> p \in Voxel /\ p[0] \in 2 .. n[0] /\ p[1] \in 2 .. n[1] /\ p[2] \in 2 .. n[2]
             /\ p \in E[1] <=> p \in Voxel /\ p[0] \in 1 .. n[0] + 1 /\ p[1] \in 1 .. n[1] + 1 /\ p[2] \in {1}
             /\ p \in E[2] <=> p \in Voxel /\ p[0] \in 1 .. n[0] + 1 /\ p[1] \in 1 .. n[1] + 1 /\ p[2] \in {n[2] + 1}
             /\ p \in E[3] <=> p \in Voxel /\ p[0] \in 1 .. n[0] + 1 /\ p[1] \in {1} /\ p[2] \in 2 .. n[2]
             /\ p \in E[4] <=> p \in Voxel /\ p[0] \in 1 .. n[0] + 1 /\ p[1] \in {n[1] + 1} /\ p[2] \in 2 .. n[2]
             /\ p \in E[5] <=> p \in Voxel /\ p[0] \in {1, n[0] + 1} /\ p[1] \in 2 .. n[1] /\ p[2] \in 2 .. n[2]
  BY FirstAxis DEF DivEInteriorLoops, DivEExteriorLoops, Box3
<1> HIDE DEF I, E
<1>4. Disjoint(I) /\ Disjoint(E)
  <2>1. IsFiniteSet(DOMAIN I) /\ IsFiniteSet(DOMAIN E)
    BY <1>2, FS_Interval, 1 \in Int, 5 \in Int
  <2>2. ASSUME NEW p
        PROVE  /\ ~(p \in E[1] /\ p \in E[2]) /\ ~(p \in E[1] /\ p \in E[3]) /\ ~(p \in E[1] /\ p \in E[4])
               /\ ~(p \in E[2] /\ p \in E[3]) /\ ~(p \in E[2] /\ p \in E[4]) /\ ~(p \in E[3] /\ p \in E[4])
               /\ ~(p \in E[1] /\ p \in E[5]) /\ ~(p \in E[2] /\ p \in E[5])
               /\ ~(p \in E[3] /\ p \in E[5]) /\ ~(p \in E[4] /\ p \in E[5])
    BY <1>1, <1>3
  <2>3. \A i, j \in 1 .. 5 : i # j => \A p \in E[i] : p \notin E[j]
    <3>1. \A i \in 1 .. 5 : i = 1 \/ i = 2 \/ i = 3 \/ i = 4 \/ i = 5
      OBVIOUS
    <3>. QED  BY <2>2, <3>1
  <2>. QED  BY <1>2, <2>1, <2>3 DEF Disjoint
<1>5. ASSUME NEW p
      PROVE  /\ p \in Visited(I) <=> p \in I[1]
             /\ p \in Visited(E) <=> p \in E[1] \/ p \in E[2] \/ p \in E[3] \/ p \in E[4] \/ p \in E[5]
  BY <1>2 DEF Visited
<1>6. ASSUME NEW p PROVE p \in Owned(DivE) <=> p \in Visited(I) \/ p \in Visited(E)
  <2>1. p \in Owned(DivE) <=>
          p \in Voxel /\ p[0] \in 1 .. n[0] + 1 /\ p[1] \in 1 .. n[1] + 1 /\ p[2] \in 1 .. n[2] + 1
    BY OwnedIs, FirstAxis, Axes
  <2>2. p[0] \in 1 .. n[0] + 1 <=> p[0] \in 2 .. n[0] \/ p[0] \in {1, n[0] + 1}
    BY <1>1
  <2>3. p[1] \in 1 .. n[1] + 1 <=> p[1] \in 2 .. n[1] \/ p[1] \in {1} \/ p[1] \in {n[1] + 1}
    BY <1>1
  <2>4. p[2] \in 1 .. n[2] + 1 <=> p[2] \in 2 .. n[2] \/ p[2] \in {1} \/ p[2] \in {n[2] + 1}
    BY <1>1
  <2>. QED  BY <1>3, <1>5, <2>1, <2>2, <2>3, <2>4
<1>7. ASSUME NEW p PROVE ~(p \in Visited(I) /\ p \in Visited(E))
  BY <1>1, <1>3, <1>5
<1>8. \A p \in Visited(I) : \A a \in Axis : p[a] \in 2 .. n[a]
  BY <1>3, <1>5, FirstAxis
<1>. QED  BY <1>4, <1>6, <1>7, <1>8 DEF I, E

LEMMA DivBCovers ==
  ASSUME domain \in Domains
  PROVE  Disjoint(DivBLoops) /\ Visited(DivBLoops) = Owned(DivB)
<1> DEFINE L == DivBLoops
<1>1. DOMAIN L = 1 .. 1
  BY DEF DivBLoops
<1>2. ASSUME NEW p
      PROVE  p \in L[1] <=> p \in Voxel /\ p[0] \in 1 .. n[0] /\ p[1] \in 1 .. n[1] /\ p[2] \in 1 .. n[2]
  BY FirstAxis DEF DivBLoops, Box3
<1> HIDE DEF L
<1>3. Disjoint(L)
  <2>1. IsFiniteSet(DOMAIN L)
    BY <1>1, FS_Interval, 1 \in Int
  <2>2. \A i, j \in 1 .. 1 : i = j
    OBVIOUS
  <2>. QED  BY <1>1, <2>1, <2>2 DEF Disjoint
<1>4. ASSUME NEW p PROVE p \in Visited(L) <=> p \in Owned(DivB)
  <2>1. p \in Visited(L) <=> p \in L[1]
    BY <1>1 DEF Visited
  <2>2. p \in Owned(DivB) <=> p \in Voxel /\ p[0] \in 1 .. n[0] /\ p[1] \in 1 .. n[1] /\ p[2] \in 1 .. n[2]
    BY OwnedIs, FirstAxis, Axes
  <2>. QED  BY <1>2, <2>1, <2>2
<1>. QED  BY <1>3, <1>4 DEF L

-----------------------------------------------------------------------------
(***************************************************************************)
(* An update.                                                              *)
(***************************************************************************)
LEMMA Components ==
  /\ \A a \in Axis : <<"e", a>> \in Component /\ <<"cb", a>> \in Component
  /\ DivE \in Component /\ DivB \in Component
  /\ \A c \in Component :
       /\ c[1] \in Name
       /\ \/ \E a \in Axis : c = <<"e", a>>
          \/ \E a \in Axis : c = <<"cb", a>>
          \/ c = DivE
          \/ c = DivB
BY DEF Component, Name, DivE, DivB

LEMMA VectorComponents ==
  ASSUME NEW a \in Axis
  PROVE  /\ <<"e", a>> \in Component /\ <<"e", a>>[1] = "e" /\ <<"e", a>>[2] = a
         /\ <<"cb", a>> \in Component /\ <<"cb", a>>[1] = "cb" /\ <<"cb", a>>[2] = a
BY DEF Component

\* Loops that do not overlap visit a voxel once, or not at all.
LEMMA VisitedOnce ==
  ASSUME NEW loops, Disjoint(loops), NEW p
  PROVE  LET visits == Cardinality({i \in DOMAIN loops : p \in loops[i]})
         IN  visits = IF p \in Visited(loops) THEN 1 ELSE 0
<1> DEFINE S == {i \in DOMAIN loops : p \in loops[i]}
<1>1. CASE p \in Visited(loops)
  <2>1. PICK i \in DOMAIN loops : p \in loops[i]
    BY <1>1 DEF Visited
  <2>2. S = {i}
    BY <2>1 DEF Disjoint
  <2>3. Cardinality({i}) = 1
    BY FS_Singleton
  <2>. QED  BY <1>1, <2>2, <2>3
<1>2. CASE p \notin Visited(loops)
  <2>1. S = {}
    BY <1>2 DEF Visited
  <2>. QED  BY <1>2, <2>1, FS_EmptySet
<1>. QED  BY <1>1, <1>2

\* g is f with the voxels S of component c updated.
UpdatedTo(f, g, c, S, reads, inPlace) ==
  /\ g \in Fields
  /\ \A d \in Component : d # c => g[d] = f[d]
  /\ \A p \in Voxel : g[c][p] =
       IF p \notin S THEN f[c][p]
       ELSE IF (\A v \in reads[p] : Current(f, v)) /\ (inPlace => Current(f, <<c, p>>))
         THEN when[c[1]] + 1
       ELSE Garbage

LEMMA UpdatedIs ==
  ASSUME NEW f \in Fields, when \in [Name -> Nat], NEW c \in Component,
         NEW loops, Disjoint(loops), NEW reads, NEW inPlace
  PROVE  UpdatedTo(f, Updated(f, c, loops, reads, inPlace), c, Visited(loops), reads, inPlace)
<1> DEFINE g == Updated(f, c, loops, reads, inPlace)
           visits(p) == Cardinality({i \in DOMAIN loops : p \in loops[i]})
           new(p) == IF visits(p) = 0 THEN f[c][p]
                     ELSE IF /\ \A v \in reads[p] : Current(f, v)
                             /\ inPlace => visits(p) = 1 /\ Current(f, <<c, p>>)
                       THEN when[c[1]] + 1
                     ELSE Garbage
<1>1. g = [f EXCEPT ![c] = [p \in Voxel |-> new(p)]]
  BY DEF Updated
<1>2. ASSUME NEW p PROVE visits(p) = IF p \in Visited(loops) THEN 1 ELSE 0
  BY VisitedOnce
<1> HIDE DEF visits
<1>3. ASSUME NEW p \in Voxel
      PROVE  /\ new(p) = IF p \notin Visited(loops) THEN f[c][p]
                         ELSE IF (\A v \in reads[p] : Current(f, v)) /\ (inPlace => Current(f, <<c, p>>))
                           THEN when[c[1]] + 1
                         ELSE Garbage
  BY <1>2
<1>4. ASSUME NEW p \in Voxel PROVE new(p) \in Int
  <2>1. f[c][p] \in Int
    BY DEF Fields
  <2>2. when[c[1]] + 1 \in Int
    BY Components
  <2>. QED  BY <2>1, <2>2 DEF Garbage
<1> HIDE DEF new, g
<1>5. g \in Fields
  BY <1>1, <1>4 DEF Fields
<1>6. \A d \in Component : d # c => g[d] = f[d]
  BY <1>1 DEF Fields
<1>7. \A p \in Voxel : g[c][p] = new(p)
  BY <1>1 DEF Fields
<1>8. UpdatedTo(f, g, c, Visited(loops), reads, inPlace)
  BY <1>3, <1>5, <1>6, <1>7 DEF UpdatedTo
<1>. QED  BY <1>8 DEF g

(***************************************************************************)
(* The update of a vector, with its loops and reads as functions.  No      *)
(* component of it is updated from another one.                            *)
(***************************************************************************)
OneComponent(h, name, L, R, a) == Updated(h, <<name, a>>, L[a], R[a], TRUE)
ThreeComponents(f, name, L, R) ==
  OneComponent(OneComponent(OneComponent(f, name, L, R, 0), name, L, R, 1), name, L, R, 2)

\* The loops may run: they do not overlap, what they update has had the update
\* before, and what they read is current and of another vector or scalar.
Ready(f, name, L, R) ==
  \A a \in Axis :
    /\ Disjoint(L[a])
    /\ \A p \in Visited(L[a]) : p \in Voxel /\ Current(f, <<<<name, a>>, p>>)
    /\ \A p \in Visited(L[a]) : \A v \in R[a][p] : v[1] \in Component /\ v[1][1] # name /\ Current(f, v)

\* g is f with the voxels S[a] of the components of name updated.
Swept(f, g, name, S) ==
  /\ g \in Fields
  /\ \A c \in Component : c[1] # name => g[c] = f[c]
  /\ \A a \in Axis : \A p \in Voxel :
       g[<<name, a>>][p] = IF p \in S[a] THEN when[name] + 1 ELSE f[<<name, a>>][p]

LEMMA OneComponentIs ==
  ASSUME NEW f \in Fields, NEW h \in Fields, when \in [Name -> Nat], NEW name \in {"e", "cb"}, NEW L, NEW R,
         NEW a \in Axis, Ready(f, name, L, R),
         \A c \in Component : c[1] # name \/ c = <<name, a>> => h[c] = f[c]
  PROVE  LET g == OneComponent(h, name, L, R, a)
         IN  /\ g \in Fields
             /\ \A d \in Component : d # <<name, a>> => g[d] = h[d]
             /\ \A p \in Voxel : g[<<name, a>>][p] =
                  IF p \in Visited(L[a]) THEN when[name] + 1 ELSE f[<<name, a>>][p]
<1> DEFINE c == <<name, a>>
           g == OneComponent(h, name, L, R, a)
<1>1. c \in Component /\ c[1] = name
  BY Components
<1>2. /\ Disjoint(L[a])
      /\ \A p \in Visited(L[a]) : p \in Voxel /\ Current(f, <<c, p>>)
      /\ \A p \in Visited(L[a]) : \A v \in R[a][p] : v[1] \in Component /\ v[1][1] # name /\ Current(f, v)
  BY DEF Ready
<1>3. h[c] = f[c]
  BY <1>1
<1>4. \A p \in Visited(L[a]) : Current(h, <<c, p>>)
  BY <1>2, <1>3 DEF Current
<1>5. \A p \in Visited(L[a]) : \A v \in R[a][p] : Current(h, v)
  BY <1>2 DEF Current
<1> HIDE DEF c
<1>6. /\ g \in Fields
      /\ \A d \in Component : d # c => g[d] = h[d]
      /\ \A p \in Voxel : g[c][p] =
           IF p \notin Visited(L[a]) THEN h[c][p]
           ELSE IF (\A v \in R[a][p] : Current(h, v)) /\ (TRUE => Current(h, <<c, p>>))
             THEN when[c[1]] + 1
           ELSE Garbage
  <2>1. g = Updated(h, c, L[a], R[a], TRUE)
    BY DEF OneComponent, c
  <2> HIDE DEF g
  <2>2. UpdatedTo(h, g, c, Visited(L[a]), R[a], TRUE)
    BY <1>1, <1>2, <2>1, UpdatedIs
  <2>. QED  BY <2>2 DEF UpdatedTo
<1>7. \A p \in Voxel : g[c][p] = IF p \in Visited(L[a]) THEN when[name] + 1 ELSE f[c][p]
  BY <1>1, <1>3, <1>4, <1>5, <1>6
<1>. QED  BY <1>6, <1>7 DEF c

LEMMA ThreeComponentsAre ==
  ASSUME NEW f \in Fields, when \in [Name -> Nat], NEW name \in {"e", "cb"}, NEW L, NEW R,
         Ready(f, name, L, R)
  PROVE  Swept(f, ThreeComponents(f, name, L, R), name, [a \in Axis |-> Visited(L[a])])
<1> DEFINE g0 == OneComponent(f, name, L, R, 0)
           g1 == OneComponent(g0, name, L, R, 1)
           g2 == OneComponent(g1, name, L, R, 2)
           New(a, p) == IF p \in Visited(L[a]) THEN when[name] + 1 ELSE f[<<name, a>>][p]
<1>1. 0 \in Axis /\ 1 \in Axis /\ 2 \in Axis /\ \A a \in Axis : a = 0 \/ a = 1 \/ a = 2
  BY Axes
<1>2. \A a \in Axis : <<name, a>> \in Component
  BY Components
<1>3. /\ g0 \in Fields
      /\ \A d \in Component : d # <<name, 0>> => g0[d] = f[d]
      /\ \A p \in Voxel : g0[<<name, 0>>][p] = New(0, p)
  BY <1>1, OneComponentIs
<1>4. /\ g1 \in Fields
      /\ \A d \in Component : d # <<name, 1>> => g1[d] = g0[d]
      /\ \A p \in Voxel : g1[<<name, 1>>][p] = New(1, p)
  <2>1. \A c \in Component : c[1] # name \/ c = <<name, 1>> => g0[c] = f[c]
    BY <1>3
  <2> HIDE DEF g0
  <2>. QED  BY <1>1, <1>3, <2>1, OneComponentIs
<1>5. /\ g2 \in Fields
      /\ \A d \in Component : d # <<name, 2>> => g2[d] = g1[d]
      /\ \A p \in Voxel : g2[<<name, 2>>][p] = New(2, p)
  <2>1. \A c \in Component : c[1] # name \/ c = <<name, 2>> => g1[c] = f[c]
    <3> HIDE DEF g0, g1
    <3>. QED  BY <1>3, <1>4
  <2> HIDE DEF g1
  <2>. QED  BY <1>1, <1>4, <2>1, OneComponentIs
<1> HIDE DEF g0, g1, g2, New
<1>6. \A c \in Component : c[1] # name => g2[c] = f[c]
  BY <1>3, <1>4, <1>5
<1>7. \A a \in Axis : \A p \in Voxel : g2[<<name, a>>][p] = New(a, p)
  <2>1. g2[<<name, 0>>] = g0[<<name, 0>>] /\ g2[<<name, 1>>] = g1[<<name, 1>>]
    BY <1>1, <1>2, <1>4, <1>5
  <2>. QED  BY <1>1, <1>3, <1>4, <1>5, <2>1
<1>8. g2 = ThreeComponents(f, name, L, R)
  BY DEF g0, g1, g2, ThreeComponents
<1>9. Swept(f, g2, name, [a \in Axis |-> Visited(L[a])])
  BY <1>5, <1>6, <1>7 DEF Swept, New
<1>. QED  BY <1>8, <1>9

-----------------------------------------------------------------------------
(***************************************************************************)
(* What the kernels read: values the domain has, or ghosts.                *)
(***************************************************************************)
LEMMA GhostPlacesAre ==
  ASSUME NEW op, NEW d, NEW plane, NEW c, NEW q
  PROVE  <<c, q>> \in GhostPlaces(op, d, plane) <=>
           /\ c \in GhostComponents(op, AxisOf(d)) /\ q \in Voxel
           /\ q[AxisOf(d)] = plane /\ In(d, q, 1) \in Owned(c)
BY DEF GhostPlaces

\* The face behind which a voxel at the end of axis b is.
FaceBeyond(b, q) == IF q[b] = 0 THEN b ELSE b + 3

LEMMA GhostBeyond ==
  ASSUME domain \in Domains, NEW b \in Axis, NEW q \in Voxel, q[b] \in {0, n[b] + 1},
         NEW op, NEW c \in GhostComponents(op, b), [q EXCEPT ![b] = 1] \in Owned(c)
  PROVE  /\ FaceBeyond(b, q) \in Face /\ AxisOf(FaceBeyond(b, q)) = b
         /\ <<c, q>> \in Ghosts(op, FaceBeyond(b, q))
<1> DEFINE d == FaceBeyond(b, q)
<1>1. n[b] \in Nat \ {0}
  BY Sizes
<1>3. d \in Face /\ AxisOf(d) = b /\ (IsLow(d) <=> q[b] = 0)
  BY FaceOf DEF FaceBeyond
<1> HIDE DEF d
<1>4. GhostPlane(d) = q[b]
  BY <1>1, <1>3 DEF GhostPlane
<1>5. In(d, q, 1) \in Owned(c)
  BY <1>3 DEF In
<1>. QED  BY <1>3, <1>4, <1>5, GhostPlacesAre DEF Ghosts, d

LEMMA AdvanceBReadsOwned ==
  ASSUME domain \in Domains, NEW X \in Axis, NEW p \in Owned(<<"cb", X>>), NEW v \in AdvanceBReads(X, p)
  PROVE  v[1] \in Component /\ v[1][1] = "e" /\ v[2] \in Owned(v[1])
<1>1. /\ Y(X) \in Axis /\ Z(X) \in Axis /\ X # Y(X) /\ X # Z(X) /\ Y(X) # Z(X)
      /\ Y(Y(X)) = Z(X) /\ Z(Y(X)) = X /\ Y(Z(X)) = X /\ Z(Z(X)) = Y(X)
  BY ThreeAxes
<1>2. n[X] \in Nat /\ n[Y(X)] \in Nat /\ n[Z(X)] \in Nat
  BY Sizes
<1>3. p \in Voxel /\ p[X] \in 1 .. n[X] + 1 /\ p[Y(X)] \in 1 .. n[Y(X)] /\ p[Z(X)] \in 1 .. n[Z(X)]
  BY OwnedIs
<1>4. PICK c, q : v = <<c, q>> /\ \/ c = <<"e", Z(X)>> /\ (q = p \/ q = Shift(p, Y(X), 1))
                                  \/ c = <<"e", Y(X)>> /\ (q = p \/ q = Shift(p, Z(X), 1))
  BY DEF AdvanceBReads
<1>5. ASSUME c = <<"e", Z(X)>> PROVE q \in Owned(c)
  <2>1. q \in Owned(c) <=>
          q \in Voxel /\ q[Z(X)] \in 1 .. n[Z(X)] /\ q[X] \in 1 .. n[X] + 1 /\ q[Y(X)] \in 1 .. n[Y(X)] + 1
    BY <1>1, <1>5, OwnedIs
  <2>2. CASE q = p
    BY <1>2, <1>3, <2>1, <2>2
  <2>3. CASE q = Shift(p, Y(X), 1)
    <3>1. q \in Voxel /\ q[Y(X)] = p[Y(X)] + 1 /\ q[X] = p[X] /\ q[Z(X)] = p[Z(X)]
      BY <1>1, <1>2, <1>3, <2>3, Shifted
    <3>. QED  BY <1>2, <1>3, <2>1, <3>1
  <2>. QED  BY <1>1, <1>4, <1>5, <2>2, <2>3
<1>6. ASSUME c = <<"e", Y(X)>> PROVE q \in Owned(c)
  <2>1. q \in Owned(c) <=>
          q \in Voxel /\ q[Y(X)] \in 1 .. n[Y(X)] /\ q[Z(X)] \in 1 .. n[Z(X)] + 1 /\ q[X] \in 1 .. n[X] + 1
    BY <1>1, <1>6, OwnedIs
  <2>2. CASE q = p
    BY <1>2, <1>3, <2>1, <2>2
  <2>3. CASE q = Shift(p, Z(X), 1)
    <3>1. q \in Voxel /\ q[Z(X)] = p[Z(X)] + 1 /\ q[X] = p[X] /\ q[Y(X)] = p[Y(X)]
      BY <1>1, <1>2, <1>3, <2>3, Shifted
    <3>. QED  BY <1>2, <1>3, <2>1, <3>1
  <2>. QED  BY <1>1, <1>4, <1>6, <2>2, <2>3
<1>7. c \in Component /\ c[1] = "e"
  <2>1. c = <<"e", Z(X)>> \/ c = <<"e", Y(X)>>
    BY <1>4
  <2>. QED  BY <1>1, <2>1, VectorComponents
<1>8. q \in Owned(c)
  BY <1>4, <1>5, <1>6
<1>9. v[1] = c /\ v[2] = q
  BY <1>4
<1>. QED  BY <1>7, <1>8, <1>9

\* A value of tang_b next to the domain, not at one of its edges, is a ghost.
LEMMA TangGhost ==
  ASSUME domain \in Domains, NEW X \in Axis, NEW b \in Axis, b # X, NEW q \in Voxel,
         q[b] \in {0, n[b] + 1}, q[X] \in 1 .. n[X] + 1,
         \A a \in Axis : a # X /\ a # b => q[a] \in 1 .. n[a]
  PROVE  <<<<"cb", X>>, q>> \in Ghosts("tang_b", FaceBeyond(b, q))
<1>1. X = Y(b) \/ X = Z(b)
  BY ThreeAxes
<1>2. <<"cb", X>> \in GhostComponents("tang_b", b)
  BY <1>1 DEF GhostComponents
<1> DEFINE r == [q EXCEPT ![b] = 1]
<1>3. q \in [Axis -> Int] /\ \A a \in Axis : q[a] \in 0 .. n[a] + 1
  BY Voxels3
<1>4. r[b] = 1 /\ \A a \in Axis : a # b => r[a] = q[a]
  BY <1>3
<1>5. n[b] \in Nat \ {0} /\ n[X] \in Nat \ {0}
  BY Sizes
<1>6. r \in Voxel
  <2>1. r \in [Axis -> Int]
    BY <1>3
  <2>2. \A a \in Axis : r[a] \in 0 .. n[a] + 1
    BY <1>3, <1>4, <1>5
  <2> HIDE DEF r
  <2>. QED  BY <2>1, <2>2, Voxels3
<1> HIDE DEF r
<1>7. r \in Owned(<<"cb", X>>)
  <2>1. Y(X) \in Axis /\ Z(X) \in Axis /\ X # Y(X) /\ X # Z(X) /\ Y(X) # Z(X)
    BY ThreeAxes
  <2>2. r[X] \in 1 .. n[X] + 1
    BY <1>4
  <2>3. ASSUME NEW a \in Axis, a # X PROVE r[a] \in 1 .. n[a]
    <3>1. CASE a = b
      BY <1>4, <1>5, <3>1
    <3>2. CASE a # b
      BY <1>4, <2>3, <3>2
    <3>. QED  BY <3>1, <3>2
  <2>4. r[Y(X)] \in 1 .. n[Y(X)] /\ r[Z(X)] \in 1 .. n[Z(X)]
    BY <2>1, <2>3
  <2>. QED  BY <1>6, <2>2, <2>4, OwnedIs
<1>. QED  BY <1>2, <1>7, GhostBeyond DEF r

\* advance_e: the interior kernels read no ghosts, the exterior ones those of tang_b.
LEMMA AdvanceEReadsAre ==
  ASSUME domain \in Domains, NEW X \in Axis, NEW p \in Owned(<<"e", X>>), NEW v \in AdvanceEReads(X, p)
  PROVE  /\ v[1] \in Component /\ v[1][1] = "cb"
         /\ v[2] \in Owned(v[1]) \/ \E d \in Face : v \in Ghosts("tang_b", d)
         /\ p[Y(X)] \in 2 .. n[Y(X)] /\ p[Z(X)] \in 2 .. n[Z(X)] => v[2] \in Owned(v[1])
<1>1. /\ Y(X) \in Axis /\ Z(X) \in Axis /\ X # Y(X) /\ X # Z(X) /\ Y(X) # Z(X)
      /\ Y(Y(X)) = Z(X) /\ Z(Y(X)) = X /\ Y(Z(X)) = X /\ Z(Z(X)) = Y(X)
      /\ \A a \in Axis : a = X \/ a = Y(X) \/ a = Z(X)
  BY ThreeAxes
<1>2. n[X] \in Nat /\ n[Y(X)] \in Nat /\ n[Z(X)] \in Nat
  BY Sizes
<1>3. p \in Voxel /\ p[X] \in 1 .. n[X] /\ p[Y(X)] \in 1 .. n[Y(X)] + 1 /\ p[Z(X)] \in 1 .. n[Z(X)] + 1
  BY OwnedIs
<1>4. PICK c, q : v = <<c, q>> /\ \/ c = <<"cb", Z(X)>> /\ (q = p \/ q = Shift(p, Y(X), -1))
                                  \/ c = <<"cb", Y(X)>> /\ (q = p \/ q = Shift(p, Z(X), -1))
  BY DEF AdvanceEReads
<1> DEFINE Reached == \/ q \in Owned(c)
                      \/ \E d \in Face : <<c, q>> \in Ghosts("tang_b", d)
<1>5. ASSUME c = <<"cb", Z(X)>>
      PROVE  Reached /\ (p[Y(X)] \in 2 .. n[Y(X)] => q \in Owned(c))
  <2>1. q \in Owned(c) <=>
          q \in Voxel /\ q[Z(X)] \in 1 .. n[Z(X)] + 1 /\ q[X] \in 1 .. n[X] /\ q[Y(X)] \in 1 .. n[Y(X)]
    BY <1>1, <1>5, OwnedIs
  <2>2. /\ q \in Voxel /\ q[X] = p[X] /\ q[Z(X)] = p[Z(X)]
        /\ q[Y(X)] = p[Y(X)] \/ q[Y(X)] = p[Y(X)] - 1
    <3>1. CASE q = p
      BY <1>3, <3>1
    <3>2. CASE q = Shift(p, Y(X), -1)
      BY <1>1, <1>2, <1>3, <3>2, Shifted
    <3>. QED  BY <1>1, <1>4, <1>5, <3>1, <3>2
  <2>3. p[Y(X)] \in 2 .. n[Y(X)] => q \in Owned(c)
    BY <1>2, <1>3, <2>1, <2>2
  <2>4. CASE q[Y(X)] \in 1 .. n[Y(X)]
    BY <1>2, <1>3, <2>1, <2>2, <2>3, <2>4
  <2>5. CASE q[Y(X)] \notin 1 .. n[Y(X)]
    <3>1. q[Y(X)] \in {0, n[Y(X)] + 1}
      BY <1>2, <1>3, <2>2, <2>5
    <3>2. q[Z(X)] \in 1 .. n[Z(X)] + 1 /\ q[X] \in 1 .. n[X]
      BY <1>3, <2>2
    <3>3. <<c, q>> \in Ghosts("tang_b", FaceBeyond(Y(X), q))
      BY <1>1, <1>5, <2>2, <3>1, <3>2, TangGhost
    <3>4. FaceBeyond(Y(X), q) \in Face
      BY <1>1, FaceOf DEF FaceBeyond
    <3>. QED  BY <2>3, <3>3, <3>4
  <2>. QED  BY <2>4, <2>5
<1>6. ASSUME c = <<"cb", Y(X)>>
      PROVE  Reached /\ (p[Z(X)] \in 2 .. n[Z(X)] => q \in Owned(c))
  <2>1. q \in Owned(c) <=>
          q \in Voxel /\ q[Y(X)] \in 1 .. n[Y(X)] + 1 /\ q[Z(X)] \in 1 .. n[Z(X)] /\ q[X] \in 1 .. n[X]
    BY <1>1, <1>6, OwnedIs
  <2>2. /\ q \in Voxel /\ q[X] = p[X] /\ q[Y(X)] = p[Y(X)]
        /\ q[Z(X)] = p[Z(X)] \/ q[Z(X)] = p[Z(X)] - 1
    <3>1. CASE q = p
      BY <1>3, <3>1
    <3>2. CASE q = Shift(p, Z(X), -1)
      BY <1>1, <1>2, <1>3, <3>2, Shifted
    <3>. QED  BY <1>1, <1>4, <1>6, <3>1, <3>2
  <2>3. p[Z(X)] \in 2 .. n[Z(X)] => q \in Owned(c)
    BY <1>2, <1>3, <2>1, <2>2
  <2>4. CASE q[Z(X)] \in 1 .. n[Z(X)]
    BY <1>2, <1>3, <2>1, <2>2, <2>3, <2>4
  <2>5. CASE q[Z(X)] \notin 1 .. n[Z(X)]
    <3>1. q[Z(X)] \in {0, n[Z(X)] + 1}
      BY <1>2, <1>3, <2>2, <2>5
    <3>2. q[Y(X)] \in 1 .. n[Y(X)] + 1 /\ q[X] \in 1 .. n[X]
      BY <1>3, <2>2
    <3>3. <<c, q>> \in Ghosts("tang_b", FaceBeyond(Z(X), q))
      BY <1>1, <1>6, <2>2, <3>1, <3>2, TangGhost
    <3>4. FaceBeyond(Z(X), q) \in Face
      BY <1>1, FaceOf DEF FaceBeyond
    <3>. QED  BY <2>3, <3>3, <3>4
  <2>. QED  BY <2>4, <2>5
<1>7. c = <<"cb", Z(X)>> \/ c = <<"cb", Y(X)>>
  BY <1>4
<1>8. c \in Component /\ c[1] = "cb"
  BY <1>1, <1>7, VectorComponents
<1>9. v = <<c, q>> /\ v[1] = c /\ v[2] = q
  BY <1>4
<1>10. Reached /\ (p[Y(X)] \in 2 .. n[Y(X)] /\ p[Z(X)] \in 2 .. n[Z(X)] => q \in Owned(c))
  BY <1>5, <1>6, <1>7
<1>. QED  BY <1>8, <1>9, <1>10

\* compute_div_e_err: the inner nodes read no ghosts, a node on a face of the
\* domain reads those of norm_e behind that face.
LEMMA DivEReadsAre ==
  ASSUME domain \in Domains, NEW p \in Owned(DivE), NEW v \in DivEReads[p]
  PROVE  /\ v[1] \in Component /\ v[1][1] = "e"
         /\ \/ v[2] \in Owned(v[1])
            \/ \E d \in Face : v \in Ghosts("norm_e", d) /\ p[AxisOf(d)] = FacePlane(d)
         /\ (\A a \in Axis : p[a] \in 2 .. n[a]) => v[2] \in Owned(v[1])
<1>1. p \in Voxel /\ \A a \in Axis : p[a] \in 1 .. n[a] + 1
  BY OwnedIs, FirstAxis
<1>2. v \in UNION {{<<"e", a>>} \X {p, Shift(p, a, -1)} : a \in Axis}
  BY <1>1 DEF DivEReads
<1>3. PICK a \in Axis : v \in {<<"e", a>>} \X {p, Shift(p, a, -1)}
  BY <1>2
<1>4. PICK q : v = <<<<"e", a>>, q>> /\ (q = p \/ q = Shift(p, a, -1))
  BY <1>3
<1> DEFINE c == <<"e", a>>
<1>5. c \in Component /\ c[1] = "e"
  BY VectorComponents
<1>6. n[a] \in Nat \ {0} /\ \A b \in Axis : n[b] \in Nat \ {0}
  BY Sizes
<1>7. /\ q[a] = p[a] \/ q[a] = p[a] - 1
      /\ \A b \in Axis : b # a => q[b] = p[b]
      /\ q[a] = n[a] + 1 => p[a] = n[a] + 1
      /\ q[a] = 0 => p[a] = 1
      /\ q \in Voxel
  <2>1. CASE q = p
    BY <1>1, <1>6, <2>1
  <2>2. CASE q = Shift(p, a, -1)
    <3>1. p[a] \in 1 .. n[a] + 1
      BY <1>1
    <3>2. p[a] + (-1) \in 0 .. n[a] + 1
      BY <1>6, <3>1
    <3>3. q \in Voxel /\ q[a] = p[a] + (-1) /\ \A b \in Axis \ {a} : q[b] = p[b]
      BY <1>1, <2>2, <3>2, Shifted
    <3>. QED  BY <1>6, <3>1, <3>3
  <2>. QED  BY <1>4, <2>1, <2>2
<1>8. q \in Owned(c) <=> q[a] \in 1 .. n[a]
  <2>1. q \in Owned(c) <=>
          q \in Voxel /\ q[a] \in 1 .. n[a] /\ q[Y(a)] \in 1 .. n[Y(a)] + 1 /\ q[Z(a)] \in 1 .. n[Z(a)] + 1
    BY OwnedIs
  <2>2. q[Y(a)] \in 1 .. n[Y(a)] + 1 /\ q[Z(a)] \in 1 .. n[Z(a)] + 1
    BY <1>1, <1>7, ThreeAxes
  <2>. QED  BY <1>7, <2>1, <2>2
<1>9. ASSUME q[a] \notin 1 .. n[a]
      PROVE  \E d \in Face : <<c, q>> \in Ghosts("norm_e", d) /\ p[AxisOf(d)] = FacePlane(d)
  <2> DEFINE d == FaceBeyond(a, q)
             r == [q EXCEPT ![a] = 1]
  <2>1. q[a] \in {0, n[a] + 1}
    BY <1>1, <1>6, <1>7, <1>9
  <2>2. q \in [Axis -> Int] /\ \A b \in Axis : q[b] \in 0 .. n[b] + 1
    BY <1>7, Voxels3
  <2>3. r \in [Axis -> Int] /\ r[a] = 1 /\ \A b \in Axis : b # a => r[b] = p[b]
    BY <1>7, <2>2
  <2> HIDE DEF r
  <2>4. \A b \in Axis : r[b] \in 1 .. n[b] + 1 /\ r[b] \in 0 .. n[b] + 1
    <3>1. 1 \in 1 .. n[a] + 1 /\ 1 \in 0 .. n[a] + 1
      BY <1>6
    <3>2. \A b \in Axis : p[b] \in 1 .. n[b] + 1 /\ p[b] \in 0 .. n[b] + 1
      BY <1>1, <1>6
    <3>. QED  BY <2>3, <3>1, <3>2
  <2>5. r \in Voxel
    BY <2>3, <2>4, Voxels3
  <2>6. r[a] \in 1 .. n[a]
    BY <1>6, <2>3
  <2>7. r \in Owned(c)
    BY <2>4, <2>5, <2>6, OwnedIs, ThreeAxes
  <2>8. c \in GhostComponents("norm_e", a)
    BY DEF GhostComponents
  <2>9. d \in Face /\ AxisOf(d) = a /\ <<c, q>> \in Ghosts("norm_e", d)
    BY <1>7, <2>1, <2>7, <2>8, GhostBeyond DEF r
  <2>10. p[AxisOf(d)] = FacePlane(d)
    <3>1. IsLow(d) <=> q[a] = 0
      BY FaceOf DEF FaceBeyond
    <3>2. CASE q[a] = 0
      BY <1>7, <2>9, <3>1, <3>2 DEF FacePlane
    <3>3. CASE q[a] = n[a] + 1
      BY <1>6, <1>7, <2>9, <3>1, <3>3 DEF FacePlane
    <3>. QED  BY <2>1, <3>2, <3>3
  <2>. QED  BY <2>9, <2>10
<1>10. (\A b \in Axis : p[b] \in 2 .. n[b]) => q[a] \in 1 .. n[a]
  BY <1>6, <1>7
<1>11. v = <<c, q>> /\ v[1] = c /\ v[2] = q
  BY <1>4
<1>. QED  BY <1>5, <1>8, <1>9, <1>10, <1>11

LEMMA CleanDivEReadsOwned ==
  ASSUME domain \in Domains, NEW X \in Axis, NEW p \in Owned(<<"e", X>>), NEW v \in CleanDivEReads(X, p)
  PROVE  v[1] = DivE /\ v[2] \in Owned(DivE)
<1>1. /\ Y(X) \in Axis /\ Z(X) \in Axis /\ X # Y(X) /\ X # Z(X)
      /\ \A a \in Axis : a = X \/ a = Y(X) \/ a = Z(X)
  BY ThreeAxes
<1>2. n[X] \in Nat
  BY Sizes
<1>3. p \in Voxel /\ p[X] \in 1 .. n[X] /\ p[Y(X)] \in 1 .. n[Y(X)] + 1 /\ p[Z(X)] \in 1 .. n[Z(X)] + 1
  BY OwnedIs
<1>4. PICK q : v = <<DivE, q>> /\ (q = p \/ q = Shift(p, X, 1))
  BY DEF CleanDivEReads
<1>5. /\ q \in Voxel /\ q[X] \in 1 .. n[X] + 1 /\ q[Y(X)] = p[Y(X)] /\ q[Z(X)] = p[Z(X)]
  <2>1. CASE q = p
    BY <1>2, <1>3, <2>1
  <2>2. CASE q = Shift(p, X, 1)
    <3>1. q \in Voxel /\ q[X] = p[X] + 1 /\ q[Y(X)] = p[Y(X)] /\ q[Z(X)] = p[Z(X)]
      BY <1>1, <1>2, <1>3, <2>2, Shifted
    <3>. QED  BY <1>2, <1>3, <3>1
  <2>. QED  BY <1>4, <2>1, <2>2
<1>6. \A a \in Axis : q[a] \in 1 .. n[a] + 1
  BY <1>1, <1>3, <1>5
<1>7. q \in Owned(DivE)
  BY <1>5, <1>6, OwnedIs
<1>. QED  BY <1>4, <1>7

LEMMA DivBReadsOwned ==
  ASSUME domain \in Domains, NEW p \in Owned(DivB), NEW v \in DivBReads[p]
  PROVE  v[1] \in Component /\ v[1][1] = "cb" /\ v[2] \in Owned(v[1])
<1>1. p \in Voxel /\ \A a \in Axis : p[a] \in 1 .. n[a]
  BY OwnedIs, FirstAxis
<1>2. v \in UNION {{<<"cb", a>>} \X {p, Shift(p, a, 1)} : a \in Axis}
  BY <1>1 DEF DivBReads
<1>3. PICK a \in Axis : v \in {<<"cb", a>>} \X {p, Shift(p, a, 1)}
  BY <1>2
<1>4. PICK q : v = <<<<"cb", a>>, q>> /\ (q = p \/ q = Shift(p, a, 1))
  BY <1>3
<1>5. /\ Y(a) \in Axis /\ Z(a) \in Axis /\ a # Y(a) /\ a # Z(a)
  BY ThreeAxes
<1>6. n[a] \in Nat
  BY Sizes
<1>7. q \in Voxel /\ q[a] \in 1 .. n[a] + 1 /\ q[Y(a)] = p[Y(a)] /\ q[Z(a)] = p[Z(a)]
  <2>1. CASE q = p
    BY <1>1, <1>6, <2>1
  <2>2. CASE q = Shift(p, a, 1)
    <3>1. p[a] + 1 \in 0 .. n[a] + 1 /\ p[a] + 1 \in 1 .. n[a] + 1
      BY <1>1, <1>6
    <3>2. q \in Voxel /\ q[a] = p[a] + 1 /\ q[Y(a)] = p[Y(a)] /\ q[Z(a)] = p[Z(a)]
      BY <1>1, <1>5, <2>2, <3>1, Shifted
    <3>. QED  BY <3>1, <3>2
  <2>. QED  BY <1>4, <2>1, <2>2
<1>8. q \in Owned(<<"cb", a>>)
  BY <1>1, <1>5, <1>7, OwnedIs
<1>9. v[1] = <<"cb", a>> /\ v[2] = q
  BY <1>4
<1>. QED  BY <1>8, <1>9, VectorComponents

\* clean_div_b: the interior kernels read no ghosts, the exterior ones those of div_b.
LEMMA CleanDivBReadsAre ==
  ASSUME domain \in Domains, NEW X \in Axis, NEW p \in Owned(<<"cb", X>>), NEW v \in CleanDivBReads(X, p)
  PROVE  /\ v[1] = DivB
         /\ v[2] \in Owned(DivB) \/ \E d \in Face : v \in Ghosts("div_b", d)
         /\ p[X] \in 2 .. n[X] => v[2] \in Owned(DivB)
<1>1. /\ Y(X) \in Axis /\ Z(X) \in Axis /\ X # Y(X) /\ X # Z(X)
      /\ \A a \in Axis : a = X \/ a = Y(X) \/ a = Z(X)
  BY ThreeAxes
<1>2. n[X] \in Nat \ {0} /\ n[Y(X)] \in Nat \ {0} /\ n[Z(X)] \in Nat \ {0}
  BY Sizes
<1>3. p \in Voxel /\ p[X] \in 1 .. n[X] + 1 /\ p[Y(X)] \in 1 .. n[Y(X)] /\ p[Z(X)] \in 1 .. n[Z(X)]
  BY OwnedIs
<1>4. PICK q : v = <<DivB, q>> /\ (q = p \/ q = Shift(p, X, -1))
  BY DEF CleanDivBReads
<1>5. /\ q \in Voxel /\ (q[X] = p[X] \/ q[X] = p[X] - 1) /\ q[Y(X)] = p[Y(X)] /\ q[Z(X)] = p[Z(X)]
  <2>1. CASE q = p
    BY <1>3, <2>1
  <2>2. CASE q = Shift(p, X, -1)
    <3>1. q \in Voxel /\ q[X] = p[X] + (-1) /\ q[Y(X)] = p[Y(X)] /\ q[Z(X)] = p[Z(X)]
      BY <1>1, <1>2, <1>3, <2>2, Shifted
    <3>. QED  BY <1>2, <1>3, <3>1
  <2>. QED  BY <1>4, <2>1, <2>2
<1>6. q \in Owned(DivB) <=> q[X] \in 1 .. n[X]
  <2>1. q \in Owned(DivB) <=> \A a \in Axis : q[a] \in 1 .. n[a]
    BY <1>5, OwnedIs
  <2>. QED  BY <1>1, <1>3, <1>5, <2>1
<1>7. ASSUME q[X] \notin 1 .. n[X] PROVE \E d \in Face : <<DivB, q>> \in Ghosts("div_b", d)
  <2> DEFINE r == [q EXCEPT ![X] = 1]
  <2>1. q[X] \in {0, n[X] + 1}
    BY <1>2, <1>3, <1>5, <1>7
  <2>2. q \in [Axis -> Int] /\ \A b \in Axis : q[b] \in 0 .. n[b] + 1
    BY <1>5, Voxels3
  <2>3. r \in [Axis -> Int] /\ r[X] = 1 /\ r[Y(X)] = p[Y(X)] /\ r[Z(X)] = p[Z(X)]
    BY <1>1, <1>5, <2>2
  <2> HIDE DEF r
  <2>4. r[X] \in 1 .. n[X] /\ r[Y(X)] \in 1 .. n[Y(X)] /\ r[Z(X)] \in 1 .. n[Z(X)]
    BY <1>2, <1>3, <2>3
  <2>5. \A a \in Axis : r[a] \in 1 .. n[a]
    BY <1>1, <2>4
  <2>6. \A a \in Axis : r[a] \in 0 .. n[a] + 1
    <3>1. \A a \in Axis : n[a] \in Nat
      BY Sizes
    <3>. QED  BY <2>5, <3>1
  <2>7. r \in Owned(DivB)
    BY <2>3, <2>5, <2>6, Voxels3, OwnedIs
  <2>8. DivB \in GhostComponents("div_b", X)
    BY DEF GhostComponents
  <2>. QED  BY <1>5, <2>1, <2>7, <2>8, GhostBeyond DEF r
<1>8. p[X] \in 2 .. n[X] => q[X] \in 1 .. n[X]
  BY <1>2, <1>5
<1>9. v = <<DivB, q>> /\ v[1] = DivB /\ v[2] = q
  BY <1>4
<1>. QED  BY <1>6, <1>7, <1>8, <1>9

LEMMA InterpolatorReadsOwned ==
  ASSUME domain \in Domains, NEW p \in Box3(0, 1 .. n[0], 1 .. n[1], 1 .. n[2]), NEW v \in InterpolatorReads(p)
  PROVE  v[1] \in Component /\ v[2] \in Owned(v[1])
<1>1. p \in Voxel /\ \A a \in Axis : p[a] \in 1 .. n[a]
  BY FirstAxis DEF Box3
<1>2. PICK a \in Axis :
        v \in {<<"e", a>>} \X {p, Shift(p, Y(a), 1), Shift(p, Z(a), 1), Shift(Shift(p, Y(a), 1), Z(a), 1)}
              \cup {<<"cb", a>>} \X {p, Shift(p, a, 1)}
  BY DEF InterpolatorReads
<1>3. /\ Y(a) \in Axis /\ Z(a) \in Axis /\ a # Y(a) /\ a # Z(a) /\ Y(a) # Z(a)
  BY ThreeAxes
<1>4. n[a] \in Nat /\ n[Y(a)] \in Nat /\ n[Z(a)] \in Nat
  BY Sizes
<1>5. p[a] \in 1 .. n[a] /\ p[Y(a)] \in 1 .. n[Y(a)] /\ p[Z(a)] \in 1 .. n[Z(a)]
  BY <1>1, <1>3
<1>6. ASSUME NEW b \in Axis, NEW q \in Voxel, q[b] = p[b]
      PROVE  Shift(q, b, 1) \in Voxel /\ Shift(q, b, 1)[b] = p[b] + 1
             /\ \A d \in Axis \ {b} : Shift(q, b, 1)[d] = q[d]
  <2>1. n[b] \in Nat /\ p[b] \in 1 .. n[b]
    BY <1>1, Sizes
  <2>. QED  BY <1>6, <2>1, Shifted
<1>7. CASE v \in {<<"e", a>>} \X {p, Shift(p, Y(a), 1), Shift(p, Z(a), 1), Shift(Shift(p, Y(a), 1), Z(a), 1)}
  <2>1. PICK q : /\ v = <<<<"e", a>>, q>>
                 /\ \/ q = p \/ q = Shift(p, Y(a), 1) \/ q = Shift(p, Z(a), 1)
                    \/ q = Shift(Shift(p, Y(a), 1), Z(a), 1)
    BY <1>7
  <2> DEFINE r == Shift(p, Y(a), 1)
  <2>2. r \in Voxel /\ r[Y(a)] = p[Y(a)] + 1 /\ r[a] = p[a] /\ r[Z(a)] = p[Z(a)]
    BY <1>1, <1>3, <1>6
  <2>3. LET s == Shift(p, Z(a), 1)
        IN  s \in Voxel /\ s[Z(a)] = p[Z(a)] + 1 /\ s[a] = p[a] /\ s[Y(a)] = p[Y(a)]
    BY <1>1, <1>3, <1>6
  <2> HIDE DEF r
  <2>4. LET s == Shift(r, Z(a), 1)
        IN  s \in Voxel /\ s[Z(a)] = p[Z(a)] + 1 /\ s[a] = p[a] /\ s[Y(a)] = p[Y(a)] + 1
    BY <1>3, <1>6, <2>2
  <2>5. /\ q \in Voxel /\ q[a] = p[a]
        /\ q[Y(a)] = p[Y(a)] \/ q[Y(a)] = p[Y(a)] + 1
        /\ q[Z(a)] = p[Z(a)] \/ q[Z(a)] = p[Z(a)] + 1
    BY <1>1, <2>1, <2>2, <2>3, <2>4 DEF r
  <2>6. q[a] \in 1 .. n[a] /\ q[Y(a)] \in 1 .. n[Y(a)] + 1 /\ q[Z(a)] \in 1 .. n[Z(a)] + 1
    BY <1>4, <1>5, <2>5
  <2>7. q \in Owned(<<"e", a>>)
    BY <2>5, <2>6, OwnedIs
  <2>8. v[1] = <<"e", a>> /\ v[2] = q
    BY <2>1
  <2>. QED  BY <2>7, <2>8, VectorComponents
<1>8. CASE v \in {<<"cb", a>>} \X {p, Shift(p, a, 1)}
  <2>1. PICK q : v = <<<<"cb", a>>, q>> /\ (q = p \/ q = Shift(p, a, 1))
    BY <1>8
  <2>2. /\ q \in Voxel /\ q[Y(a)] = p[Y(a)] /\ q[Z(a)] = p[Z(a)]
        /\ q[a] = p[a] \/ q[a] = p[a] + 1
    BY <1>1, <1>3, <1>6, <2>1
  <2>3. q[a] \in 1 .. n[a] + 1
    BY <1>4, <1>5, <2>2
  <2>4. q \in Owned(<<"cb", a>>)
    BY <1>5, <2>2, <2>3, OwnedIs
  <2>5. v[1] = <<"cb", a>> /\ v[2] = q
    BY <2>1
  <2>. QED  BY <2>4, <2>5, VectorComponents
<1>. QED  BY <1>2, <1>7, <1>8

-----------------------------------------------------------------------------
(***************************************************************************)
(* Ghosts.                                                                 *)
(***************************************************************************)
LEMMA OwnedAlong ==
  ASSUME NEW a \in Axis, NEW p
  PROVE  /\ p \in Owned(<<"e", a>>) <=>
              p \in Voxel /\ p[a] \in 1 .. n[a] /\ \A b \in Axis : b # a => p[b] \in 1 .. n[b] + 1
         /\ p \in Owned(<<"cb", a>>) <=>
              p \in Voxel /\ p[a] \in 1 .. n[a] + 1 /\ \A b \in Axis : b # a => p[b] \in 1 .. n[b]
<1>1. p \in Owned(<<"e", a>>) <=>
        p \in Voxel /\ \A b \in Axis : p[b] \in 1 .. (IF b # a THEN n[b] + 1 ELSE n[b])
  BY DEF Owned
<1>2. p \in Owned(<<"cb", a>>) <=>
        p \in Voxel /\ \A b \in Axis : p[b] \in 1 .. (IF b = a THEN n[b] + 1 ELSE n[b])
  BY DEF Owned
<1>. QED  BY <1>1, <1>2

GhostOps == {"tang_b", "norm_e", "div_b"}

\* A component with ghosts behind face d has n values along its axis.
LEMMA GhostComponentsAre ==
  ASSUME domain \in Domains, NEW X \in Axis, NEW op \in GhostOps, NEW c \in GhostComponents(op, X)
  PROVE  /\ c \in Component
         /\ \A p : p \in Owned(c) => p \in Voxel /\ p[X] \in 1 .. n[X]
         /\ \A p \in Owned(c) : \A q \in Voxel :
              q[X] \in 1 .. n[X] /\ (\A b \in Axis : b # X => q[b] = p[b]) => q \in Owned(c)
<1>1. CASE op = "tang_b"
  <2>1. PICK a \in Axis : a # X /\ c = <<"cb", a>>
    <3>1. c = <<"cb", Y(X)>> \/ c = <<"cb", Z(X)>>
      BY <1>1 DEF GhostComponents
    <3>. QED  BY <3>1, ThreeAxes
  <2>2. c \in Component
    BY <2>1, VectorComponents
  <2>3. \A p : p \in Owned(c) <=>
          p \in Voxel /\ p[a] \in 1 .. n[a] + 1 /\ \A b \in Axis : b # a => p[b] \in 1 .. n[b]
    BY <2>1, OwnedAlong
  <2>. QED  BY <2>1, <2>2, <2>3
<1>2. CASE op = "norm_e"
  <2>1. c = <<"e", X>>
    BY <1>2 DEF GhostComponents
  <2>2. c \in Component
    BY <2>1, VectorComponents
  <2>3. \A p : p \in Owned(c) <=>
          p \in Voxel /\ p[X] \in 1 .. n[X] /\ \A b \in Axis : b # X => p[b] \in 1 .. n[b] + 1
    BY <2>1, OwnedAlong
  <2>. QED  BY <2>1, <2>2, <2>3
<1>3. CASE op = "div_b"
  <2>1. c = DivB
    BY <1>3 DEF GhostComponents
  <2>2. c \in Component
    BY <2>1, Components
  <2>3. \A p : p \in Owned(c) <=> p \in Voxel /\ \A b \in Axis : p[b] \in 1 .. n[b]
    BY <2>1, OwnedIs
  <2>. QED  BY <2>1, <2>2, <2>3
<1>. QED  BY <1>1, <1>2, <1>3 DEF GhostOps

LEMMA Planes ==
  ASSUME domain \in Domains, NEW d \in Face
  PROVE  /\ AxisOf(d) \in Axis
         /\ n[AxisOf(d)] \in Nat \ {0}
         /\ GhostPlane(d) \in {0, n[AxisOf(d)] + 1}
         /\ InnerPlane(d) \in 1 .. n[AxisOf(d)]
         /\ FacePlane(d) \in 1 .. n[AxisOf(d)] + 1
         /\ GhostPlane(d) - Direction(d) = InnerPlane(d)
<1>1. AxisOf(d) \in Axis
  BY Faces
<1>2. n[AxisOf(d)] \in Nat \ {0}
  BY <1>1, Sizes
<1>. QED  BY <1>1, <1>2 DEF GhostPlane, InnerPlane, FacePlane, Direction

\* A ghost is none of the values the domain has; the value next to it is.
LEMMA GhostsAre ==
  ASSUME domain \in Domains, NEW d \in Face, NEW op \in GhostOps, NEW v \in Ghosts(op, d)
  PROVE  /\ v = <<v[1], v[2]>>
         /\ v[1] \in GhostComponents(op, AxisOf(d)) /\ v[1] \in Component
         /\ v[2] \in Voxel /\ v[2][AxisOf(d)] = GhostPlane(d)
         /\ v[2] \notin Owned(v[1])
         /\ In(d, v[2], 1) \in Owned(v[1])
         /\ \A k \in 1 .. n[AxisOf(d)] : In(d, v[2], k) \in Owned(v[1])
<1> DEFINE X == AxisOf(d)
           c == v[1]
           q == v[2]
<1>1. /\ X \in Axis /\ n[X] \in Nat \ {0} /\ GhostPlane(d) \in {0, n[X] + 1}
  BY Planes
<1>2. v \in GhostComponents(op, X) \X Voxel /\ q[X] = GhostPlane(d) /\ In(d, q, 1) \in Owned(c)
  BY DEF Ghosts, GhostPlaces
<1>3. v = <<c, q>> /\ c \in GhostComponents(op, X) /\ q \in Voxel
  BY <1>2
<1> HIDE DEF X, c, q
<1>4. /\ c \in Component
      /\ \A p : p \in Owned(c) => p \in Voxel /\ p[X] \in 1 .. n[X]
      /\ \A p \in Owned(c) : \A r \in Voxel :
           r[X] \in 1 .. n[X] /\ (\A b \in Axis : b # X => r[b] = p[b]) => r \in Owned(c)
  BY <1>1, <1>3, GhostComponentsAre
<1>5. q \notin Owned(c)
  BY <1>1, <1>2, <1>4
<1>6. ASSUME NEW k \in 1 .. n[X] PROVE In(d, q, k) \in Owned(c)
  <2>1. /\ In(d, q, k) \in Voxel /\ In(d, q, k)[X] = k
        /\ \A b \in Axis \ {X} : In(d, q, k)[b] = q[b]
    BY <1>1, <1>3, InPlane DEF X
  <2>2. \A b \in Axis \ {X} : In(d, q, 1)[b] = q[b]
    BY <1>1, <1>3, InPlane DEF X
  <2>. QED  BY <1>2, <1>4, <2>1, <2>2
<1>. QED  BY <1>2, <1>3, <1>4, <1>5, <1>6 DEF X, c, q

\* Every value of f the domain has is current.
AllCurrent(f) == \A c \in Component : \A p \in Owned(c) : f[c][p] = when[c[1]]

\* An absorbing wall finds everything it needs for a ghost of tang_b current.
LEMMA AbsorbingTangBIs ==
  ASSUME domain \in Domains, NEW f, AllCurrent(f), Clean(f),
         NEW w \in Face, NEW v \in Ghosts("tang_b", w)
  PROVE  AbsorbingTangB(f, w, v[1], v[2]) = when["cb"]
<1> DEFINE X == AxisOf(w)
           c == v[1]
           p == v[2]
           other == IF c[2] = Y(X) THEN Z(X) ELSE Y(X)
           inner == In(w, p, InnerPlane(w))
           beside == In(w, p, IF IsLow(w) THEN 2 ELSE n[X])
           reads == {<<c, inner>>, <<<<"e", other>>, In(w, p, FacePlane(w))>>,
                     <<<<"e", other>>, beside>>,
                     <<<<"e", X>>, inner>>, <<<<"e", X>>, Shift(inner, other, 1)>>}
<1>1. /\ X \in Axis /\ n[X] \in Nat \ {0} /\ InnerPlane(w) \in 1 .. n[X] /\ FacePlane(w) \in 1 .. n[X] + 1
  BY Planes
<1>2. "tang_b" \in GhostOps
  BY DEF GhostOps
<1>3. /\ c \in GhostComponents("tang_b", X) /\ c \in Component /\ p \in Voxel
      /\ In(w, p, 1) \in Owned(c) /\ \A k \in 1 .. n[X] : In(w, p, k) \in Owned(c)
  BY <1>2, GhostsAre
<1>4. c = <<"cb", Y(X)>> \/ c = <<"cb", Z(X)>>
  BY <1>3 DEF GhostComponents
<1>5. /\ Y(X) \in Axis /\ Z(X) \in Axis /\ X # Y(X) /\ X # Z(X) /\ Y(X) # Z(X)
      /\ \A a \in Axis : a = X \/ a = Y(X) \/ a = Z(X)
  BY <1>1, ThreeAxes
<1>6. PICK t \in Axis : c = <<"cb", t>> /\ t # X /\ t # other /\ other # X /\ other \in Axis
                        /\ \A a \in Axis : a = X \/ a = t \/ a = other
  BY <1>4, <1>5
<1> HIDE DEF other, c, p, X
<1>7. In(w, p, 1)[t] \in 1 .. n[t] + 1 /\ In(w, p, 1)[other] \in 1 .. n[other]
  BY <1>3, <1>6, OwnedAlong
<1>8. 1 \in 0 .. n[X] + 1 /\ n[t] \in Nat /\ n[other] \in Nat
  BY <1>1, <1>6, Sizes
<1>9. p[t] \in 1 .. n[t] + 1 /\ p[other] \in 1 .. n[other]
  BY <1>3, <1>6, <1>7, <1>8, InPlane DEF X
<1>10. ASSUME NEW k \in 1 .. n[X] + 1
       PROVE  LET q == In(w, p, k)
              IN  q \in Voxel /\ q[X] = k /\ q[t] = p[t] /\ q[other] = p[other]
  <2>1. k \in 0 .. n[X] + 1
    BY <1>1
  <2>. QED  BY <1>3, <1>6, <2>1, InPlane DEF X
<1>11. ASSUME NEW k \in 1 .. n[X] + 1 PROVE In(w, p, k) \in Owned(<<"e", other>>)
  <2>1. LET q == In(w, p, k) IN q[X] \in 1 .. n[X] + 1 /\ q[t] \in 1 .. n[t] + 1 /\ q[other] \in 1 .. n[other]
    BY <1>9, <1>10
  <2>. QED  BY <1>6, <1>10, <2>1, OwnedAlong
<1>12. InnerPlane(w) \in 1 .. n[X] + 1
  BY <1>1
<1>13. inner \in Voxel /\ inner[X] = InnerPlane(w) /\ inner[t] = p[t] /\ inner[other] = p[other]
  BY <1>10, <1>12
<1>14. inner \in Owned(<<"e", X>>)
  <2>1. inner[X] \in 1 .. n[X] /\ inner[t] \in 1 .. n[t] + 1 /\ inner[other] \in 1 .. n[other] + 1
    BY <1>1, <1>8, <1>9, <1>13
  <2> HIDE DEF inner
  <2>. QED  BY <1>1, <1>6, <1>13, <2>1, OwnedAlong
<1>15. Shift(inner, other, 1) \in Owned(<<"e", X>>)
  <2> DEFINE s == Shift(inner, other, 1)
  <2>1. inner[other] + 1 \in 0 .. n[other] + 1 /\ inner[other] + 1 \in 1 .. n[other] + 1
    BY <1>8, <1>9, <1>13
  <2> HIDE DEF inner
  <2>2. s \in Voxel /\ s[other] = inner[other] + 1 /\ \A b \in Axis \ {other} : s[b] = inner[b]
    BY <1>6, <1>13, <2>1, Shifted
  <2>3. s[X] \in 1 .. n[X] /\ s[t] \in 1 .. n[t] + 1 /\ s[other] \in 1 .. n[other] + 1
    BY <1>1, <1>6, <1>9, <1>13, <2>1, <2>2
  <2> HIDE DEF s
  <2>4. s \in Owned(<<"e", X>>)
    BY <1>1, <1>6, <2>2, <2>3, OwnedAlong
  <2>. QED  BY <2>4 DEF s
<1>16. inner \in Owned(c)
  BY <1>1, <1>3
<1>17. /\ In(w, p, FacePlane(w)) \in Owned(<<"e", other>>)
       /\ beside \in Owned(<<"e", other>>)
  <2>1. (IF IsLow(w) THEN 2 ELSE n[X]) \in 1 .. n[X] + 1
    BY <1>1
  <2>. QED  BY <1>1, <1>11, <2>1
<1>18. \A r \in reads : r[1] \in Component /\ r[2] \in Owned(r[1])
  <2>1. <<"e", X>> \in Component /\ <<"e", other>> \in Component
    BY <1>1, <1>6, VectorComponents
  <2> HIDE DEF inner, beside
  <2>. QED  BY <1>3, <1>14, <1>15, <1>16, <1>17, <2>1
<1>19. \A r \in reads : Current(f, r)
  BY <1>18 DEF AllCurrent, Current
<1>20. f[c][p] # Garbage
  BY DEF Clean, c, p
<1> HIDE DEF reads
<1>21. AbsorbingTangB(f, w, c, p) = IF f[c][p] # Garbage /\ \A r \in reads : Current(f, r) THEN when["cb"] ELSE Garbage
  BY DEF AbsorbingTangB, reads, inner, beside, other, X
<1>. QED  BY <1>19, <1>20, <1>21 DEF c, p

\* What a wall or a message does to the fields: g is f but for the ghosts behind
\* face d, which are current if d is in E.
GhostsSet(f, g, op, d, E) ==
  /\ g \in Fields
  /\ \A c \in Component : \A p \in Voxel : <<c, p>> \notin Ghosts(op, d) => g[c][p] = f[c][p]
  /\ d \in E => \A v \in Ghosts(op, d) : Current(g, v)

LEMMA LocalGhostIs ==
  ASSUME domain \in Domains, when \in [Name -> Nat], NEW f \in Fields, AllCurrent(f), Clean(f),
         NEW op \in GhostOps, NEW w \in Face
  PROVE  /\ Wall(w) => GhostsSet(f, LocalGhost(op, f, w), op, w, IF op = "norm_e" THEN {} ELSE {w})
         /\ ~Wall(w) => LocalGhost(op, f, w) = f
<1> DEFINE new(c, p) ==
             IF domain.bc[w] = AntiSymmetric THEN f[c][In(w, p, GhostPlane(w) - Direction(w))]
             ELSE CASE op = "tang_b" -> AbsorbingTangB(f, w, c, p)
                    [] op = "norm_e" -> AbsorbingNormE(f, w, c, p)
                    [] op = "div_b"  -> when["div_b_err"]
           g == LocalGhost(op, f, w)
           places == IF Wall(w) THEN Ghosts(op, w) ELSE {}
<1>1. g = [c \in Component |-> [p \in Voxel |-> IF <<c, p>> \in places THEN new(c, p) ELSE f[c][p]]]
  BY DEF LocalGhost, Overwritten, Ghosts
<1> HIDE DEF g
<1>2. ASSUME ~Wall(w) PROVE g = f
  <2>1. places = {}
    BY <1>2
  <2> HIDE DEF places, new
  <2>. QED  BY <1>1, <2>1 DEF Fields
<1>3. ASSUME Wall(w), NEW v \in Ghosts(op, w)
      PROVE  new(v[1], v[2]) \in Int /\ (op # "norm_e" => new(v[1], v[2]) = when[v[1][1]])
  <2> DEFINE c == v[1]
             p == v[2]
  <2>1. /\ c \in GhostComponents(op, AxisOf(w)) /\ c \in Component /\ p \in Voxel
        /\ \A k \in 1 .. n[AxisOf(w)] : In(w, p, k) \in Owned(c)
    BY GhostsAre
  <2>2. when[c[1]] \in Int
    BY <2>1, Components
  <2> HIDE DEF c, p
  <2> DEFINE Fresh == new(c, p) \in Int /\ (op # "norm_e" => new(c, p) = when[c[1]])
  <2>3. ASSUME domain.bc[w] = AntiSymmetric PROVE Fresh
    <3>1. f[c][In(w, p, InnerPlane(w))] = when[c[1]]
      BY <2>1, Planes DEF AllCurrent
    <3>2. new(c, p) = f[c][In(w, p, InnerPlane(w))]
      BY <2>3, Planes
    <3> HIDE DEF new
    <3>. QED  BY <2>2, <3>1, <3>2
  <2>4. ASSUME domain.bc[w] # AntiSymmetric /\ op = "tang_b" PROVE Fresh
    <3>1. AbsorbingTangB(f, w, c, p) = when["cb"]
      BY <2>4, AbsorbingTangBIs DEF c, p
    <3>2. new(c, p) = when["cb"]
      BY <2>4, <3>1
    <3>3. c[1] = "cb"
      BY <2>1, <2>4 DEF GhostComponents
    <3> HIDE DEF new
    <3>. QED  BY <2>2, <3>2, <3>3
  <2>5. ASSUME domain.bc[w] # AntiSymmetric /\ op = "norm_e" PROVE Fresh
    <3>1. AbsorbingNormE(f, w, c, p) = when["e"] \/ AbsorbingNormE(f, w, c, p) = Garbage
      BY DEF AbsorbingNormE
    <3>2. new(c, p) = AbsorbingNormE(f, w, c, p)
      BY <2>5
    <3>3. when["e"] \in Nat
      BY DEF Name
    <3> HIDE DEF new
    <3>. QED  BY <2>5, <3>1, <3>2, <3>3 DEF Garbage
  <2>6. ASSUME domain.bc[w] # AntiSymmetric /\ op = "div_b" PROVE Fresh
    <3>1. new(c, p) = when["div_b_err"]
      BY <2>6
    <3>2. c[1] = "div_b_err"
      BY <2>1, <2>6 DEF GhostComponents, DivB
    <3> HIDE DEF new
    <3>. QED  BY <2>2, <3>1, <3>2
  <2>7. Fresh
    BY <2>3, <2>4, <2>5, <2>6 DEF GhostOps
  <2> HIDE DEF new
  <2>. QED  BY <2>7 DEF c, p
<1> HIDE DEF new
<1>4. ASSUME Wall(w) PROVE GhostsSet(f, g, op, w, IF op = "norm_e" THEN {} ELSE {w})
  <2>1. places = Ghosts(op, w)
    BY <1>4
  <2> HIDE DEF places
  <2>2. ASSUME NEW c \in Component, NEW p \in Voxel
        PROVE  g[c][p] = IF <<c, p>> \in Ghosts(op, w) THEN new(c, p) ELSE f[c][p]
    BY <1>1, <2>1
  <2>3. ASSUME NEW c \in Component, NEW p \in Voxel
        PROVE  (IF <<c, p>> \in Ghosts(op, w) THEN new(c, p) ELSE f[c][p]) \in Int
    <3>1. <<c, p>> \in Ghosts(op, w) => new(c, p) \in Int
      BY <1>3, <1>4
    <3>2. f[c][p] \in Int
      BY DEF Fields
    <3>. QED  BY <3>1, <3>2
  <2>4. g \in Fields
    BY <1>1, <2>1, <2>3 DEF Fields
  <2>5. ASSUME op # "norm_e", NEW v \in Ghosts(op, w) PROVE Current(g, v)
    <3>1. v = <<v[1], v[2]>> /\ v[1] \in Component /\ v[2] \in Voxel
      BY GhostsAre
    <3>2. g[v[1]][v[2]] = new(v[1], v[2])
      BY <2>2, <3>1
    <3>. QED  BY <1>3, <1>4, <2>5, <3>2 DEF Current
  <2>. QED  BY <2>2, <2>4, <2>5 DEF GhostsSet
<1>. QED  BY <1>2, <1>4 DEF g

(***************************************************************************)
(* The six faces, one after the other: g is f but for ghosts of op, and    *)
(* those behind the faces D are current.                                   *)
(***************************************************************************)
FacesFilled(f, g, op, D) ==
  /\ g \in Fields
  /\ \A c \in Component : \A p \in Voxel :
       (\A d \in Face : <<c, p>> \notin Ghosts(op, d)) => g[c][p] = f[c][p]
  /\ \A d \in D : \A v \in Ghosts(op, d) : Current(g, v)
  /\ Clean(g)

LEMMA AnotherFaceFilled ==
  ASSUME domain \in Domains, when \in [Name -> Nat], NEW op \in GhostOps, NEW D, D \subseteq Face,
         NEW f, NEW h, FacesFilled(f, h, op, D),
         NEW g, NEW d \in Face, NEW E, GhostsSet(h, g, op, d, E),
         E = {d} \/ (E = {} /\ D = {} /\ op # "tang_b")
  PROVE  FacesFilled(f, g, op, D \cup E)
<1>1. g \in Fields
  BY DEF GhostsSet
<1>2. \A c \in Component : \A p \in Voxel : <<c, p>> \notin Ghosts(op, d) => g[c][p] = h[c][p]
  BY DEF GhostsSet
<1>3. \A c \in Component : \A p \in Voxel :
        (\A e \in Face : <<c, p>> \notin Ghosts(op, e)) => g[c][p] = f[c][p]
  BY <1>2 DEF FacesFilled
<1>4. E = {d} => \A v \in Ghosts(op, d) : Current(g, v)
  BY DEF GhostsSet
<1>5. ASSUME NEW e \in D, NEW v \in Ghosts(op, e), E = {d} PROVE Current(g, v)
  <2>1. v = <<v[1], v[2]>> /\ v[1] \in Component /\ v[2] \in Voxel
    BY GhostsAre
  <2>2. CASE v \in Ghosts(op, d)
    BY <1>4, <1>5, <2>2
  <2>3. CASE v \notin Ghosts(op, d)
    <3>1. g[v[1]][v[2]] = h[v[1]][v[2]]
      BY <1>2, <2>1, <2>3
    <3>2. Current(h, v)
      BY <1>5 DEF FacesFilled
    <3>. QED  BY <3>1, <3>2 DEF Current
  <2>. QED  BY <2>2, <2>3
<1>6. Clean(g)
  <2>1. SUFFICES ASSUME NEW e \in Face, NEW v \in Ghosts("tang_b", e) PROVE g[v[1]][v[2]] # Garbage
    BY DEF Clean
  <2>2. "tang_b" \in GhostOps
    BY DEF GhostOps
  <2>3. /\ v = <<v[1], v[2]>> /\ v[1] \in Component /\ v[2] \in Voxel
        /\ v[1] \in GhostComponents("tang_b", AxisOf(e))
    BY <2>1, <2>2, GhostsAre
  <2>4. CASE v \notin Ghosts(op, d)
    <3>1. g[v[1]][v[2]] = h[v[1]][v[2]]
      BY <1>2, <2>3, <2>4
    <3>2. h[v[1]][v[2]] # Garbage
      BY <2>1 DEF FacesFilled, Clean
    <3>. QED  BY <3>1, <3>2
  <2>5. CASE v \in Ghosts(op, d)
    <3>1. op = "tang_b"
      <4>1. v[1][1] = "cb"
        BY <2>3 DEF GhostComponents
      <4>2. v[1] \in GhostComponents(op, AxisOf(d))
        BY <2>5, GhostsAre
      <4>. QED  BY <4>1, <4>2 DEF GhostComponents, GhostOps, DivB
    <3>2. Current(g, v)
      BY <1>4, <2>5, <3>1
    <3>3. when[v[1][1]] \in Nat
      BY <2>3, Components
    <3>. QED  BY <3>2, <3>3 DEF Current, Garbage
  <2>. QED  BY <2>4, <2>5
<1>7. CASE E = {d}
  BY <1>1, <1>3, <1>4, <1>5, <1>6, <1>7 DEF FacesFilled
<1>8. CASE E = {} /\ D = {}
  BY <1>1, <1>3, <1>6, <1>8 DEF FacesFilled
<1>. QED  BY <1>7, <1>8

LEMMA OwnedKept ==
  ASSUME domain \in Domains, NEW op \in GhostOps, NEW f, NEW g, NEW D, FacesFilled(f, g, op, D)
  PROVE  \A c \in Component : \A p \in Owned(c) : g[c][p] = f[c][p]
<1> SUFFICES ASSUME NEW c \in Component, NEW p \in Owned(c) PROVE g[c][p] = f[c][p]
  OBVIOUS
<1>1. p \in Voxel
  BY DEF Owned
<1>2. \A d \in Face : <<c, p>> \notin Ghosts(op, d)
  <2>1. SUFFICES ASSUME NEW d \in Face, <<c, p>> \in Ghosts(op, d) PROVE FALSE
    OBVIOUS
  <2>2. <<c, p>>[2] \notin Owned(<<c, p>>[1])
    BY <2>1, GhostsAre
  <2>. QED  BY <2>2
<1>. QED  BY <1>1, <1>2 DEF FacesFilled

\* local_ghost: the walls among the faces 0 .. k - 1.
WallsDone(op, k) == {d \in Face : d < k /\ Wall(d) /\ op # "norm_e"}

LEMMA NextWall ==
  ASSUME domain \in Domains, when \in [Name -> Nat], NEW op \in GhostOps, NEW k \in Face,
         NEW f, AllCurrent(f), NEW h, FacesFilled(f, h, op, WallsDone(op, k))
  PROVE  FacesFilled(f, LocalGhost(op, h, k), op, WallsDone(op, k + 1))
<1> DEFINE g == LocalGhost(op, h, k)
<1>1. h \in Fields /\ Clean(h)
  BY DEF FacesFilled
<1>2. AllCurrent(h)
  BY OwnedKept DEF AllCurrent
<1>3. k \in Int
  BY DEF Face
<1>4. CASE Wall(k)
  <2> DEFINE E == IF op = "norm_e" THEN {} ELSE {k}
             D == WallsDone(op, k)
  <2>1. GhostsSet(h, g, op, k, E)
    BY <1>1, <1>2, <1>4, LocalGhostIs
  <2>2. D \subseteq Face /\ (E = {k} \/ (E = {} /\ D = {} /\ op # "tang_b"))
    BY DEF WallsDone
  <2>3. WallsDone(op, k + 1) = D \cup E
    BY <1>3, <1>4 DEF WallsDone, Face
  <2> HIDE DEF E, D, g
  <2>4. FacesFilled(f, h, op, D)
    BY DEF D
  <2>5. FacesFilled(f, g, op, D \cup E)
    BY <2>1, <2>2, <2>4, AnotherFaceFilled
  <2>. QED  BY <2>3, <2>5 DEF g
<1>5. CASE ~Wall(k)
  <2>1. g = h
    BY <1>1, <1>2, <1>5, LocalGhostIs
  <2>2. WallsDone(op, k + 1) = WallsDone(op, k)
    BY <1>3, <1>5 DEF WallsDone, Face
  <2>. QED  BY <2>1, <2>2
<1>. QED  BY <1>4, <1>5

LEMMA LocalGhostsAre ==
  ASSUME domain \in Domains, when \in [Name -> Nat], NEW op \in GhostOps,
         NEW f \in Fields, AllCurrent(f), Clean(f)
  PROVE  FacesFilled(f, LocalGhosts(op, f), op, WallsDone(op, 6))
<1> DEFINE Done(h, k) == FacesFilled(f, h, op, WallsDone(op, k))
           Next1(h, k) == LocalGhost(op, h, k)
<1>1. Done(f, 0)
  <2>1. WallsDone(op, 0) = {}
    BY DEF WallsDone, Face
  <2>. QED  BY <2>1 DEF FacesFilled
<1>2. ASSUME NEW h, NEW k \in Face, Done(h, k) PROVE Done(Next1(h, k), k + 1)
  BY <1>2, NextWall
<1>3. LocalGhosts(op, f) = Next1(Next1(Next1(Next1(Next1(Next1(f, 0), 1), 2), 3), 4), 5)
  BY DEF LocalGhosts, OneAfterTheOther
<1> HIDE DEF Done, Next1
<1>4. 0 \in Face /\ 1 \in Face /\ 2 \in Face /\ 3 \in Face /\ 4 \in Face /\ 5 \in Face
  BY DEF Face
<1>5. Done(Next1(f, 0), 0 + 1)
  BY <1>1, <1>2, <1>4
<1>6. Done(Next1(Next1(f, 0), 1), 1 + 1)
  BY <1>2, <1>4, <1>5
<1>7. Done(Next1(Next1(Next1(f, 0), 1), 2), 2 + 1)
  BY <1>2, <1>4, <1>6
<1>8. Done(Next1(Next1(Next1(Next1(f, 0), 1), 2), 3), 3 + 1)
  BY <1>2, <1>4, <1>7
<1>9. Done(Next1(Next1(Next1(Next1(Next1(f, 0), 1), 2), 3), 4), 4 + 1)
  BY <1>2, <1>4, <1>8
<1>10. Done(Next1(Next1(Next1(Next1(Next1(Next1(f, 0), 1), 2), 3), 4), 5), 5 + 1)
  BY <1>2, <1>4, <1>9
<1>. QED  BY <1>3, <1>10 DEF Done

\* begin_remote_ghost packs current values, which are those the neighbour lacks.
LEMMA PackedAreOwned ==
  ASSUME domain \in Domains, NEW op \in GhostOps, NEW d \in Face, NEW v \in Packed(op, d)
  PROVE  v[1] \in Component /\ v[2] \in Owned(v[1])
<1> DEFINE X == AxisOf(d)
           c == v[1]
           q == v[2]
<1>1. X \in Axis /\ n[X] \in Nat \ {0} /\ InnerPlane(d) \in 1 .. n[X]
  BY Planes
<1>2. v \in GhostComponents(op, X) \X Voxel /\ q[X] = InnerPlane(d) /\ In(d, q, 1) \in Owned(c)
  BY DEF Packed, GhostPlaces
<1>3. c \in GhostComponents(op, X) /\ q \in Voxel
  BY <1>2
<1> HIDE DEF X, c, q
<1>4. /\ c \in Component
      /\ \A p \in Owned(c) : \A r \in Voxel :
           r[X] \in 1 .. n[X] /\ (\A b \in Axis : b # X => r[b] = p[b]) => r \in Owned(c)
  BY <1>1, <1>3, GhostComponentsAre
<1>5. \A b \in Axis \ {X} : In(d, q, 1)[b] = q[b]
  BY <1>1, <1>3, InPlane DEF X
<1>6. q \in Owned(c)
  BY <1>1, <1>2, <1>3, <1>4, <1>5
<1>. QED  BY <1>4, <1>6 DEF c, q

LEMMA PackedPlanesAre ==
  ASSUME domain \in Domains, NEW op \in GhostOps, NEW f, AllCurrent(f)
  PROVE  BufferHas(PackedPlanes(op, f), op)
<1> DEFINE b == PackedPlanes(op, f)
<1>1. SUFFICES ASSUME NEW d \in Face, ~Wall(d), NEW v \in Packed(op, d)
               PROVE  b[d][v] = when[v[1][1]]
  BY DEF BufferHas
<1>2. b[d] = [u \in Packed(op, d) |-> f[u[1]][u[2]]]
  BY <1>1 DEF PackedPlanes, Packed
<1> HIDE DEF b
<1>3. b[d][v] = f[v[1]][v[2]]
  BY <1>2
<1>4. v[1] \in Component /\ v[2] \in Owned(v[1])
  BY PackedAreOwned
<1>. QED  BY <1>3, <1>4 DEF AllCurrent

LEMMA UnpackedIs ==
  ASSUME domain \in Domains, when \in [Name -> Nat], NEW op \in GhostOps, BufferHas(buf, op),
         NEW f \in Fields, NEW d \in Face
  PROVE  /\ Wall(d) => Unpacked(op, f, d) = f
         /\ ~Wall(d) => GhostsSet(f, Unpacked(op, f, d), op, d, {d})
<1> DEFINE o == Opposite(d)
           new(c, p) == buf[o][<<c, In(d, p, InnerPlane(o))>>]
           places == IF Wall(d) THEN {} ELSE Ghosts(op, d)
           g == Unpacked(op, f, d)
<1>1. g = [c \in Component |-> [p \in Voxel |-> IF <<c, p>> \in places THEN new(c, p) ELSE f[c][p]]]
  BY DEF Unpacked, Overwritten, Ghosts
<1> HIDE DEF g
<1>2. ASSUME Wall(d) PROVE g = f
  <2>1. places = {}
    BY <1>2
  <2> HIDE DEF places, new
  <2>. QED  BY <1>1, <2>1 DEF Fields
<1>3. ASSUME ~Wall(d), NEW v \in Ghosts(op, d) PROVE new(v[1], v[2]) = when[v[1][1]]
  <2> DEFINE c == v[1]
             p == v[2]
             q == In(d, p, InnerPlane(o))
  <2>1. /\ c \in GhostComponents(op, AxisOf(d)) /\ p \in Voxel /\ In(d, p, 1) \in Owned(c)
        /\ c \in Component
    BY GhostsAre
  <2>2. o \in Face /\ AxisOf(o) = AxisOf(d) /\ ~Wall(o)
    BY <1>3, Faces, TheDomain
  <2> HIDE DEF c, p, o
  <2>3. InnerPlane(o) \in 1 .. n[AxisOf(d)] /\ n[AxisOf(d)] \in Nat
    BY <2>2, Planes
  <2>4. InnerPlane(o) \in 0 .. n[AxisOf(d)] + 1
    BY <2>3
  <2>5. q \in Voxel /\ q[AxisOf(d)] = InnerPlane(o) /\ In(d, q, 1) = In(d, p, 1)
    BY <2>1, <2>4, InPlane
  <2>6. In(o, q, 1) = In(d, q, 1)
    BY <2>2 DEF In
  <2> HIDE DEF q
  <2>7. <<c, q>> \in Packed(op, o)
    BY <2>1, <2>2, <2>5, <2>6, GhostPlacesAre DEF Packed
  <2>8. buf[o][<<c, q>>] = when[<<c, q>>[1][1]]
    BY <2>2, <2>7 DEF BufferHas
  <2>. QED  BY <2>8 DEF q, c, p
<1> HIDE DEF new
<1>4. ASSUME ~Wall(d) PROVE GhostsSet(f, g, op, d, {d})
  <2>1. places = Ghosts(op, d)
    BY <1>4
  <2> HIDE DEF places
  <2>2. ASSUME NEW c \in Component, NEW p \in Voxel
        PROVE  g[c][p] = IF <<c, p>> \in Ghosts(op, d) THEN new(c, p) ELSE f[c][p]
    BY <1>1, <2>1
  <2>3. ASSUME NEW c \in Component, NEW p \in Voxel
        PROVE  (IF <<c, p>> \in Ghosts(op, d) THEN new(c, p) ELSE f[c][p]) \in Int
    <3>1. <<c, p>> \in Ghosts(op, d) => new(c, p) \in Int
      <4>1. <<c, p>> \in Ghosts(op, d) => new(c, p) = when[c[1]]
        BY <1>3, <1>4
      <4>2. when[c[1]] \in Int
        BY Components
      <4>. QED  BY <4>1, <4>2
    <3>2. f[c][p] \in Int
      BY DEF Fields
    <3>. QED  BY <3>1, <3>2
  <2>4. g \in Fields
    BY <1>1, <2>1, <2>3 DEF Fields
  <2>5. ASSUME NEW v \in Ghosts(op, d) PROVE Current(g, v)
    <3>1. v = <<v[1], v[2]>> /\ v[1] \in Component /\ v[2] \in Voxel
      BY GhostsAre
    <3>2. g[v[1]][v[2]] = new(v[1], v[2])
      BY <2>2, <3>1
    <3>. QED  BY <1>3, <1>4, <3>2 DEF Current
  <2>. QED  BY <2>2, <2>4, <2>5 DEF GhostsSet
<1>. QED  BY <1>2, <1>4 DEF g

\* end_remote_ghost: D and the joined faces among 0 .. k - 1.
JoinedDone(D, k) == D \cup {d \in Face : d < k /\ ~Wall(d)}

LEMMA NextMessage ==
  ASSUME domain \in Domains, when \in [Name -> Nat], NEW op \in GhostOps, BufferHas(buf, op),
         NEW D, D \subseteq Face, NEW k \in Face, NEW f, NEW h, FacesFilled(f, h, op, JoinedDone(D, k))
  PROVE  FacesFilled(f, Unpacked(op, h, k), op, JoinedDone(D, k + 1))
<1> DEFINE g == Unpacked(op, h, k)
           J == JoinedDone(D, k)
           E == {k}
<1>1. h \in Fields
  BY DEF FacesFilled
<1>2. k \in Int /\ J \subseteq Face
  <2>1. k \in Int
    BY DEF Face
  <2>2. J \subseteq Face
    BY DEF JoinedDone
  <2>. QED  BY <2>1, <2>2
<1>3. CASE ~Wall(k)
  <2>1. GhostsSet(h, g, op, k, E)
    BY <1>1, <1>3, UnpackedIs
  <2>2. JoinedDone(D, k + 1) = J \cup E
    BY <1>2, <1>3 DEF JoinedDone, Face
  <2>3. FacesFilled(f, h, op, J)
    OBVIOUS
  <2> HIDE DEF g, J
  <2>4. FacesFilled(f, g, op, J \cup E)
    BY <1>2, <2>1, <2>3, AnotherFaceFilled
  <2>. QED  BY <2>2, <2>4 DEF g
<1>4. CASE Wall(k)
  <2>1. g = h
    BY <1>1, <1>4, UnpackedIs
  <2>2. JoinedDone(D, k + 1) = JoinedDone(D, k)
    BY <1>2, <1>4 DEF JoinedDone, Face
  <2>. QED  BY <2>1, <2>2
<1>. QED  BY <1>3, <1>4

LEMMA RemoteGhostsAre ==
  ASSUME domain \in Domains, when \in [Name -> Nat], NEW op \in GhostOps, BufferHas(buf, op),
         NEW D, D \subseteq Face, NEW f, FacesFilled(f, f, op, D)
  PROVE  FacesFilled(f, RemoteGhosts(op, f), op, JoinedDone(D, 6))
<1> DEFINE Done(h, k) == FacesFilled(f, h, op, JoinedDone(D, k))
           Next1(h, k) == Unpacked(op, h, k)
<1>1. Done(f, 0)
  <2>1. JoinedDone(D, 0) = D
    BY DEF JoinedDone, Face
  <2>. QED  BY <2>1
<1>2. ASSUME NEW h, NEW k \in Face, Done(h, k) PROVE Done(Next1(h, k), k + 1)
  BY <1>2, NextMessage
<1>3. RemoteGhosts(op, f) = Next1(Next1(Next1(Next1(Next1(Next1(f, 0), 1), 2), 3), 4), 5)
  BY DEF RemoteGhosts, OneAfterTheOther
<1> HIDE DEF Done, Next1
<1>4. 0 \in Face /\ 1 \in Face /\ 2 \in Face /\ 3 \in Face /\ 4 \in Face /\ 5 \in Face
  BY DEF Face
<1>5. Done(Next1(f, 0), 0 + 1)
  BY <1>1, <1>2, <1>4
<1>6. Done(Next1(Next1(f, 0), 1), 1 + 1)
  BY <1>2, <1>4, <1>5
<1>7. Done(Next1(Next1(Next1(f, 0), 1), 2), 2 + 1)
  BY <1>2, <1>4, <1>6
<1>8. Done(Next1(Next1(Next1(Next1(f, 0), 1), 2), 3), 3 + 1)
  BY <1>2, <1>4, <1>7
<1>9. Done(Next1(Next1(Next1(Next1(Next1(f, 0), 1), 2), 3), 4), 4 + 1)
  BY <1>2, <1>4, <1>8
<1>10. Done(Next1(Next1(Next1(Next1(Next1(Next1(f, 0), 1), 2), 3), 4), 5), 5 + 1)
  BY <1>2, <1>4, <1>9
<1>. QED  BY <1>3, <1>10 DEF Done

-----------------------------------------------------------------------------
(***************************************************************************)
(* What each routine does.  g is f with the values S[c] of the components  *)
(* of name updated once.                                                   *)
(***************************************************************************)
Advanced(f, g, name, S) ==
  /\ g \in Fields
  /\ \A c \in Component : \A p \in Voxel :
       g[c][p] = IF c[1] = name /\ p \in S[c] THEN when[name] + 1 ELSE f[c][p]

AllOf == [c \in Component |-> Owned(c)]
InnerOf == [c \in Component |-> Inner(c)]
OuterOf == [c \in Component |-> Owned(c) \ Inner(c)]

LEMMA SweptIsAdvanced ==
  ASSUME NEW f, NEW g, NEW name \in {"e", "cb"}, NEW L, NEW S,
         Swept(f, g, name, [a \in Axis |-> Visited(L[a])]),
         \A a \in Axis : \A p \in Voxel : p \in S[<<name, a>>] <=> p \in Visited(L[a])
  PROVE  Advanced(f, g, name, S)
<1>1. g \in Fields
  BY DEF Swept
<1>2. ASSUME NEW c \in Component, NEW p \in Voxel
      PROVE  g[c][p] = IF c[1] = name /\ p \in S[c] THEN when[name] + 1 ELSE f[c][p]
  <2>1. CASE c[1] # name
    BY <2>1 DEF Swept
  <2>2. CASE c[1] = name
    <3>1. PICK a \in Axis : c = <<name, a>>
      BY <2>2, Components DEF DivE, DivB
    <3>2. g[<<name, a>>][p] = IF p \in Visited(L[a]) THEN when[name] + 1 ELSE f[<<name, a>>][p]
      BY DEF Swept
    <3>. QED  BY <2>2, <3>1, <3>2
  <2>. QED  BY <2>1, <2>2
<1>. QED  BY <1>1, <1>2 DEF Advanced

\* advance_b.
LEMMA AdvanceBUpdates ==
  ASSUME domain \in Domains, when \in [Name -> Nat], NEW f \in Fields, AllCurrent(f)
  PROVE  Advanced(f, UpdatedVector(f, "cb", AdvanceBLoops, AdvanceBReads), "cb", AllOf)
<1> DEFINE L == [X \in Axis |-> AdvanceBLoops(X)]
           R == [X \in Axis |-> [p \in Voxel |-> AdvanceBReads(X, p)]]
           g == UpdatedVector(f, "cb", AdvanceBLoops, AdvanceBReads)
<1>1. g = ThreeComponents(f, "cb", L, R)
  <2>1. /\ L[0] = AdvanceBLoops(0) /\ L[1] = AdvanceBLoops(1) /\ L[2] = AdvanceBLoops(2)
        /\ R[0] = [p \in Voxel |-> AdvanceBReads(0, p)] /\ R[1] = [p \in Voxel |-> AdvanceBReads(1, p)]
        /\ R[2] = [p \in Voxel |-> AdvanceBReads(2, p)]
    BY Axes
  <2> HIDE DEF L, R
  <2>. QED  BY <2>1 DEF UpdatedVector, ThreeComponents, OneComponent
<1>2. Ready(f, "cb", L, R)
  <2>1. SUFFICES ASSUME NEW a \in Axis
                 PROVE  /\ Disjoint(L[a])
                        /\ \A p \in Visited(L[a]) : p \in Voxel /\ Current(f, <<<<"cb", a>>, p>>)
                        /\ \A p \in Visited(L[a]) : \A v \in R[a][p] :
                             v[1] \in Component /\ v[1][1] # "cb" /\ Current(f, v)
    BY DEF Ready
  <2>2. Disjoint(L[a]) /\ Visited(L[a]) = Owned(<<"cb", a>>)
    BY AdvanceBCovers
  <2>3. ASSUME NEW p \in Owned(<<"cb", a>>) PROVE p \in Voxel /\ Current(f, <<<<"cb", a>>, p>>)
    BY VectorComponents DEF AllCurrent, Current, Owned
  <2>4. ASSUME NEW p \in Owned(<<"cb", a>>), NEW v \in R[a][p]
        PROVE  v[1] \in Component /\ v[1][1] # "cb" /\ Current(f, v)
    <3>1. v \in AdvanceBReads(a, p)
      BY <2>3, <2>4
    <3>2. v[1] \in Component /\ v[1][1] = "e" /\ v[2] \in Owned(v[1])
      BY <3>1, AdvanceBReadsOwned
    <3>. QED  BY <3>2 DEF AllCurrent, Current
  <2> HIDE DEF L, R
  <2>. QED  BY <2>2, <2>3, <2>4
<1>3. \A a \in Axis : \A p \in Voxel : p \in AllOf[<<"cb", a>>] <=> p \in Visited(L[a])
  BY AdvanceBCovers, VectorComponents DEF AllOf
<1> HIDE DEF L, R, g
<1>4. Swept(f, g, "cb", [a \in Axis |-> Visited(L[a])])
  BY <1>1, <1>2, ThreeComponentsAre
<1>. QED  BY <1>3, <1>4, SweptIsAdvanced DEF g

LEMMA InnerIs ==
  /\ \A a \in Axis : Inner(<<"e", a>>) = Visited(InteriorLoops(a))
  /\ \A a \in Axis : Inner(<<"cb", a>>) = Visited(CleanDivBInteriorLoops(a))
  /\ Inner(DivE) = Visited(DivEInteriorLoops)
  /\ Inner(DivB) = {}
BY DEF Inner, DivE, DivB

\* k_local_adjust_tang_e clears values at a wall that have been updated anyway.
LEMMA AdjustTangEIs ==
  ASSUME domain \in Domains, when \in [Name -> Nat], NEW f, NEW g, NEW S, Advanced(f, g, "e", S),
         \A a, X \in Axis : \A p \in Owned(<<"e", a>>) :
           X # a /\ p[X] \in {1, n[X] + 1} => p \in S[<<"e", a>>]
  PROVE  Advanced(f, AdjustTangE(g), "e", S)
<1> DEFINE metal == {w \in Walls : domain.bc[w] = AntiSymmetric}
           At(w) == {v \in {<<"e", a>> : a \in Axis \ {AxisOf(w)}} \X Voxel :
                       v[2] \in Owned(v[1]) /\ v[2][AxisOf(w)] = FacePlane(w)}
           places == UNION {At(w) : w \in metal}
           h == AdjustTangE(g)
<1>1. h = [c \in Component |-> [p \in Voxel |-> IF <<c, p>> \in places THEN when["e"] + 1 ELSE g[c][p]]]
  BY DEF AdjustTangE, Overwritten
<1>2. ASSUME NEW c, NEW p, <<c, p>> \in places PROVE c[1] = "e" /\ p \in S[c]
  <2>1. PICK w \in metal : <<c, p>> \in At(w)
    BY <1>2
  <2>2. w \in Face
    BY DEF Walls
  <2>3. PICK a \in Axis \ {AxisOf(w)} : c = <<"e", a>> /\ p \in Owned(c) /\ p[AxisOf(w)] = FacePlane(w)
    BY <2>1
  <2>4. FacePlane(w) \in {1, n[AxisOf(w)] + 1} /\ AxisOf(w) \in Axis
    BY <2>2, Planes DEF FacePlane
  <2>. QED  BY <2>3, <2>4
<1> HIDE DEF places, h
<1>3. ASSUME NEW c \in Component, NEW p \in Voxel
      PROVE  h[c][p] = IF c[1] = "e" /\ p \in S[c] THEN when["e"] + 1 ELSE f[c][p]
  <2>1. h[c][p] = IF <<c, p>> \in places THEN when["e"] + 1 ELSE g[c][p]
    BY <1>1
  <2>2. g[c][p] = IF c[1] = "e" /\ p \in S[c] THEN when["e"] + 1 ELSE f[c][p]
    BY DEF Advanced
  <2>. QED  BY <1>2, <2>1, <2>2
<1>4. h \in Fields
  <2>1. ASSUME NEW c \in Component, NEW p \in Voxel
        PROVE  (IF <<c, p>> \in places THEN when["e"] + 1 ELSE g[c][p]) \in Int
    <3>1. g[c][p] \in Int
      BY DEF Advanced, Fields
    <3>2. when["e"] + 1 \in Int
      BY DEF Name
    <3>. QED  BY <3>1, <3>2
  <2>. QED  BY <1>1, <2>1 DEF Fields
<1>5. Advanced(f, h, "e", S)
  BY <1>3, <1>4 DEF Advanced
<1>. QED  BY <1>5 DEF h

\* advance_e, interior and exterior.
LEMMA AdvanceEInteriorUpdates ==
  ASSUME domain \in Domains, when \in [Name -> Nat], NEW f \in Fields, AllCurrent(f)
  PROVE  Advanced(f, UpdatedVector(f, "e", InteriorLoops, AdvanceEReads), "e", InnerOf)
<1> DEFINE L == [X \in Axis |-> InteriorLoops(X)]
           R == [X \in Axis |-> [p \in Voxel |-> AdvanceEReads(X, p)]]
           g == UpdatedVector(f, "e", InteriorLoops, AdvanceEReads)
<1>1. g = ThreeComponents(f, "e", L, R)
  <2>1. /\ L[0] = InteriorLoops(0) /\ L[1] = InteriorLoops(1) /\ L[2] = InteriorLoops(2)
        /\ R[0] = [p \in Voxel |-> AdvanceEReads(0, p)] /\ R[1] = [p \in Voxel |-> AdvanceEReads(1, p)]
        /\ R[2] = [p \in Voxel |-> AdvanceEReads(2, p)]
    BY Axes
  <2> HIDE DEF L, R
  <2>. QED  BY <2>1 DEF UpdatedVector, ThreeComponents, OneComponent
<1>2. Ready(f, "e", L, R)
  <2>1. SUFFICES ASSUME NEW a \in Axis
                 PROVE  /\ Disjoint(L[a])
                        /\ \A p \in Visited(L[a]) : p \in Voxel /\ Current(f, <<<<"e", a>>, p>>)
                        /\ \A p \in Visited(L[a]) : \A v \in R[a][p] :
                             v[1] \in Component /\ v[1][1] # "e" /\ Current(f, v)
    BY DEF Ready
  <2>2. /\ Disjoint(L[a])
        /\ \A p \in Visited(L[a]) :
             p \in Owned(<<"e", a>>) /\ p[Y(a)] \in 2 .. n[Y(a)] /\ p[Z(a)] \in 2 .. n[Z(a)]
    BY AdvanceECovers
  <2>3. ASSUME NEW p \in Owned(<<"e", a>>) PROVE p \in Voxel /\ Current(f, <<<<"e", a>>, p>>)
    BY VectorComponents DEF AllCurrent, Current, Owned
  <2>4. ASSUME NEW p \in Visited(L[a]), NEW v \in R[a][p]
        PROVE  v[1] \in Component /\ v[1][1] # "e" /\ Current(f, v)
    <3>1. v \in AdvanceEReads(a, p)
      BY <2>2, <2>3, <2>4
    <3>2. v[1] \in Component /\ v[1][1] = "cb" /\ v[2] \in Owned(v[1])
      BY <2>2, <3>1, AdvanceEReadsAre
    <3>. QED  BY <3>2 DEF AllCurrent, Current
  <2> HIDE DEF L, R
  <2>. QED  BY <2>2, <2>3, <2>4
<1>3. \A a \in Axis : \A p \in Voxel : p \in InnerOf[<<"e", a>>] <=> p \in Visited(L[a])
  BY InnerIs, VectorComponents DEF InnerOf
<1> HIDE DEF L, R, g
<1>4. Swept(f, g, "e", [a \in Axis |-> Visited(L[a])])
  BY <1>1, <1>2, ThreeComponentsAre
<1>. QED  BY <1>3, <1>4, SweptIsAdvanced DEF g

\* The interior of the components of name has been updated.
HalfDone(f, name) ==
  \A c \in Component : \A p \in Owned(c) :
    f[c][p] = IF c[1] = name /\ p \in Inner(c) THEN when[c[1]] + 1 ELSE when[c[1]]

LEMMA AdvanceEExteriorUpdates ==
  ASSUME domain \in Domains, when \in [Name -> Nat], NEW f \in Fields, HalfDone(f, "e"),
         \A d \in Face : \A v \in Ghosts("tang_b", d) : Current(f, v)
  PROVE  Advanced(f, AdjustTangE(UpdatedVector(f, "e", ExteriorLoops, AdvanceEReads)), "e", OuterOf)
<1> DEFINE L == [X \in Axis |-> ExteriorLoops(X)]
           R == [X \in Axis |-> [p \in Voxel |-> AdvanceEReads(X, p)]]
           g == UpdatedVector(f, "e", ExteriorLoops, AdvanceEReads)
<1>1. g = ThreeComponents(f, "e", L, R)
  <2>1. /\ L[0] = ExteriorLoops(0) /\ L[1] = ExteriorLoops(1) /\ L[2] = ExteriorLoops(2)
        /\ R[0] = [p \in Voxel |-> AdvanceEReads(0, p)] /\ R[1] = [p \in Voxel |-> AdvanceEReads(1, p)]
        /\ R[2] = [p \in Voxel |-> AdvanceEReads(2, p)]
    BY Axes
  <2> HIDE DEF L, R
  <2>. QED  BY <2>1 DEF UpdatedVector, ThreeComponents, OneComponent
<1>2. Ready(f, "e", L, R)
  <2>1. SUFFICES ASSUME NEW a \in Axis
                 PROVE  /\ Disjoint(L[a])
                        /\ \A p \in Visited(L[a]) : p \in Voxel /\ Current(f, <<<<"e", a>>, p>>)
                        /\ \A p \in Visited(L[a]) : \A v \in R[a][p] :
                             v[1] \in Component /\ v[1][1] # "e" /\ Current(f, v)
    BY DEF Ready
  <2>2. /\ Disjoint(L[a])
        /\ \A p \in Visited(L[a]) : p \in Owned(<<"e", a>>) /\ p \notin Inner(<<"e", a>>)
    BY AdvanceECovers, InnerIs
  <2>3. ASSUME NEW p \in Visited(L[a]) PROVE p \in Voxel /\ Current(f, <<<<"e", a>>, p>>)
    <3>1. p \in Owned(<<"e", a>>) /\ p \notin Inner(<<"e", a>>)
      BY <2>2
    <3>2. p \in Voxel
      BY <3>1 DEF Owned
    <3>3. f[<<"e", a>>][p] = when["e"]
      BY <3>1, VectorComponents DEF HalfDone
    <3>. QED  BY <3>2, <3>3 DEF Current
  <2>4. ASSUME NEW p \in Visited(L[a]), NEW v \in R[a][p]
        PROVE  v[1] \in Component /\ v[1][1] # "e" /\ Current(f, v)
    <3>1. v \in AdvanceEReads(a, p)
      BY <2>3, <2>4
    <3>2. /\ v[1] \in Component /\ v[1][1] = "cb"
          /\ v[2] \in Owned(v[1]) \/ \E d \in Face : v \in Ghosts("tang_b", d)
      BY <2>2, <3>1, AdvanceEReadsAre
    <3>3. v[2] \in Owned(v[1]) => Current(f, v)
      BY <3>2 DEF HalfDone, Current
    <3>. QED  BY <3>2, <3>3
  <2> HIDE DEF L, R
  <2>. QED  BY <2>2, <2>3, <2>4
<1>3. \A a \in Axis : \A p \in Voxel : p \in OuterOf[<<"e", a>>] <=> p \in Visited(L[a])
  BY AdvanceECovers, InnerIs, VectorComponents DEF OuterOf
<1> HIDE DEF L, R, g
<1>4. Swept(f, g, "e", [a \in Axis |-> Visited(L[a])])
  BY <1>1, <1>2, ThreeComponentsAre
<1>5. Advanced(f, g, "e", OuterOf)
  BY <1>3, <1>4, SweptIsAdvanced
<1>6. ASSUME NEW a \in Axis, NEW X \in Axis, NEW p \in Owned(<<"e", a>>), X # a, p[X] \in {1, n[X] + 1}
      PROVE  p \in OuterOf[<<"e", a>>]
  <2>1. p \notin Inner(<<"e", a>>)
    <3>1. n[X] \in Nat
      BY Sizes
    <3>2. p[X] \notin 2 .. n[X]
      BY <1>6, <3>1
    <3>3. X = Y(a) \/ X = Z(a)
      BY <1>6, ThreeAxes
    <3>. QED  BY <3>2, <3>3, AdvanceECovers, InnerIs
  <2>. QED  BY <2>1, VectorComponents DEF OuterOf
<1>7. Advanced(f, AdjustTangE(g), "e", OuterOf)
  BY <1>5, <1>6, AdjustTangEIs
<1>. QED  BY <1>7 DEF g

\* One component updated from values that are all current.
LEMMA UpdateIsAdvance ==
  ASSUME when \in [Name -> Nat], NEW f \in Fields, NEW c \in {DivE, DivB}, NEW loops, Disjoint(loops),
         NEW reads, NEW S, \A p \in Voxel : p \in S[c] <=> p \in Visited(loops),
         \A p \in Voxel : p \in S[c] => \A v \in reads[p] : Current(f, v)
  PROVE  Advanced(f, Updated(f, c, loops, reads, FALSE), c[1], S)
<1> DEFINE g == Updated(f, c, loops, reads, FALSE)
<1>1. c \in Component
  BY Components
<1>2. UpdatedTo(f, g, c, Visited(loops), reads, FALSE)
  BY <1>1, UpdatedIs
<1> HIDE DEF g
<1>3. g \in Fields
  BY <1>2 DEF UpdatedTo
<1>4. ASSUME NEW d \in Component, NEW p \in Voxel
      PROVE  g[d][p] = IF d[1] = c[1] /\ p \in S[d] THEN when[c[1]] + 1 ELSE f[d][p]
  <2>1. CASE d # c
    <3>1. d[1] # c[1]
      BY <2>1, Components DEF DivE, DivB
    <3>. QED  BY <1>2, <2>1, <3>1 DEF UpdatedTo
  <2>2. CASE d = c
    BY <1>2, <2>2 DEF UpdatedTo
  <2>. QED  BY <2>1, <2>2
<1>5. Advanced(f, g, c[1], S)
  BY <1>3, <1>4 DEF Advanced
<1>. QED  BY <1>5 DEF g

\* compute_div_e_err, interior.
LEMMA DivEInteriorUpdates ==
  ASSUME domain \in Domains, when \in [Name -> Nat], NEW f \in Fields, AllCurrent(f)
  PROVE  Advanced(f, Updated(f, DivE, DivEInteriorLoops, DivEReads, FALSE), "div_e_err", InnerOf)
<1>1. /\ Disjoint(DivEInteriorLoops)
      /\ \A p \in Visited(DivEInteriorLoops) : p \in Owned(DivE) /\ \A a \in Axis : p[a] \in 2 .. n[a]
  BY DivECovers
<1>2. \A p : p \in InnerOf[DivE] <=> p \in Visited(DivEInteriorLoops)
  BY InnerIs, Components DEF InnerOf
<1>3. ASSUME NEW p \in Voxel, p \in InnerOf[DivE], NEW v \in DivEReads[p] PROVE Current(f, v)
  <2>1. p \in Owned(DivE) /\ \A a \in Axis : p[a] \in 2 .. n[a]
    BY <1>1, <1>2, <1>3
  <2>2. v[1] \in Component /\ v[2] \in Owned(v[1])
    BY <2>1, DivEReadsAre
  <2>. QED  BY <2>2 DEF AllCurrent, Current
<1>4. Advanced(f, Updated(f, DivE, DivEInteriorLoops, DivEReads, FALSE), DivE[1], InnerOf)
  BY <1>1, <1>2, <1>3, UpdateIsAdvance
<1>5. DivE[1] = "div_e_err"
  BY DEF DivE
<1>. QED  BY <1>4, <1>5

\* compute_div_e_err, exterior: what a wall has put into the ghosts of norm_e is
\* read at the nodes of the wall, which k_local_adjust_div_e overwrites.
LEMMA DivEExteriorUpdates ==
  ASSUME domain \in Domains, when \in [Name -> Nat], NEW f \in Fields, HalfDone(f, "div_e_err"),
         \A d \in Face : ~Wall(d) => \A v \in Ghosts("norm_e", d) : Current(f, v)
  PROVE  Advanced(f, AdjustDivE(Updated(f, DivE, DivEExteriorLoops, DivEReads, FALSE)), "div_e_err", OuterOf)
<1> DEFINE E == DivEExteriorLoops
           g == Updated(f, DivE, E, DivEReads, FALSE)
           h == AdjustDivE(g)
           AtWall(p) == \E w \in Walls : p[AxisOf(w)] = FacePlane(w)
<1>1. /\ Disjoint(E)
      /\ \A p : p \in Visited(E) <=> p \in Owned(DivE) /\ p \notin Inner(DivE)
      /\ \A p \in Inner(DivE) : \A a \in Axis : p[a] \in 2 .. n[a]
  BY DivECovers, InnerIs
<1>2. DivE \in Component /\ DivE[1] = "div_e_err"
  BY Components DEF DivE
<1>3. UpdatedTo(f, g, DivE, Visited(E), DivEReads, FALSE)
  BY <1>1, <1>2, UpdatedIs
<1>4. h = [c \in Component |-> [p \in Voxel |->
             IF <<c, p>> \in {DivE} \X {q \in Owned(DivE) : AtWall(q)} THEN when["div_e_err"] + 1 ELSE g[c][p]]]
  BY DEF AdjustDivE, Overwritten
<1> HIDE DEF g, h, AtWall, E
<1>5. ASSUME NEW c \in Component, NEW p \in Voxel
      PROVE  h[c][p] = IF c = DivE /\ p \in Owned(DivE) /\ AtWall(p) THEN when["div_e_err"] + 1 ELSE g[c][p]
  BY <1>4
<1>6. h \in Fields
  <2>1. ASSUME NEW c \in Component, NEW p \in Voxel
        PROVE  (IF <<c, p>> \in {DivE} \X {q \in Owned(DivE) : AtWall(q)} THEN when["div_e_err"] + 1 ELSE g[c][p]) \in Int
    <3>1. g[c][p] \in Int
      BY <1>3 DEF UpdatedTo, Fields
    <3>2. when["div_e_err"] + 1 \in Int
      BY DEF Name
    <3>. QED  BY <3>1, <3>2
  <2>. QED  BY <1>4, <2>1 DEF Fields
\* A node that is at no wall has read current values.
<1>7. ASSUME NEW p \in Visited(E), ~AtWall(p), NEW v \in DivEReads[p] PROVE Current(f, v)
  <2>1. p \in Owned(DivE)
    BY <1>1
  <2>2. /\ v[1] \in Component /\ v[1][1] = "e"
        /\ v[2] \in Owned(v[1]) \/ \E d \in Face : v \in Ghosts("norm_e", d) /\ p[AxisOf(d)] = FacePlane(d)
    BY <2>1, DivEReadsAre
  <2>3. CASE v[2] \in Owned(v[1])
    BY <2>2, <2>3 DEF HalfDone, Current
  <2>4. ASSUME NEW d \in Face, v \in Ghosts("norm_e", d), p[AxisOf(d)] = FacePlane(d) PROVE Current(f, v)
    <3>1. ~Wall(d)
      BY <1>7, <2>4 DEF AtWall, Walls
    <3>. QED  BY <2>4, <3>1
  <2>. QED  BY <2>2, <2>3, <2>4
\* A node at a wall is one of the exterior.
<1>8. ASSUME NEW p \in Owned(DivE), AtWall(p) PROVE p \notin Inner(DivE)
  <2>1. PICK w \in Walls : p[AxisOf(w)] = FacePlane(w)
    BY <1>8 DEF AtWall
  <2>2. w \in Face
    BY DEF Walls
  <2>3. AxisOf(w) \in Axis /\ n[AxisOf(w)] \in Nat /\ FacePlane(w) \in {1, n[AxisOf(w)] + 1}
    BY <2>2, Planes DEF FacePlane
  <2>4. p[AxisOf(w)] \notin 2 .. n[AxisOf(w)]
    BY <2>1, <2>3
  <2>. QED  BY <1>1, <2>3, <2>4
<1>9. \A c \in Component : \A p : p \in OuterOf[c] <=> p \in Owned(c) /\ p \notin Inner(c)
  BY DEF OuterOf
<1>10. ASSUME NEW c \in Component, NEW p \in Voxel
       PROVE  h[c][p] = IF c[1] = "div_e_err" /\ p \in OuterOf[c] THEN when["div_e_err"] + 1 ELSE f[c][p]
  <2>1. CASE c # DivE
    <3>1. c[1] # "div_e_err"
      BY <2>1, Components DEF DivE, DivB
    <3>2. g[c] = f[c]
      BY <1>3, <2>1 DEF UpdatedTo
    <3>. QED  BY <1>5, <2>1, <3>1, <3>2
  <2>2. CASE c = DivE /\ p \in Owned(DivE) /\ AtWall(p)
    BY <1>2, <1>5, <1>8, <1>9, <2>2
  <2>3. CASE c = DivE /\ ~(p \in Owned(DivE) /\ AtWall(p))
    <3>1. h[c][p] = g[DivE][p]
      BY <1>5, <2>3
    <3>2. g[DivE][p] = IF p \in Visited(E) THEN when["div_e_err"] + 1 ELSE f[DivE][p]
      BY <1>1, <1>2, <1>3, <1>7, <2>3 DEF UpdatedTo
    <3>. QED  BY <1>1, <1>2, <1>9, <2>3, <3>1, <3>2
  <2>. QED  BY <2>1, <2>2, <2>3
<1>11. Advanced(f, h, "div_e_err", OuterOf)
  BY <1>6, <1>10 DEF Advanced
<1>. QED  BY <1>11 DEF h, g, E

\* clean_div_e.
LEMMA CleanDivEUpdates ==
  ASSUME domain \in Domains, when \in [Name -> Nat], NEW f \in Fields, AllCurrent(f)
  PROVE  Advanced(f, AdjustTangE(UpdatedVector(f, "e", CleanDivELoops, CleanDivEReads)), "e", AllOf)
<1> DEFINE L == [X \in Axis |-> CleanDivELoops(X)]
           R == [X \in Axis |-> [p \in Voxel |-> CleanDivEReads(X, p)]]
           g == UpdatedVector(f, "e", CleanDivELoops, CleanDivEReads)
<1>1. g = ThreeComponents(f, "e", L, R)
  <2>1. /\ L[0] = CleanDivELoops(0) /\ L[1] = CleanDivELoops(1) /\ L[2] = CleanDivELoops(2)
        /\ R[0] = [p \in Voxel |-> CleanDivEReads(0, p)] /\ R[1] = [p \in Voxel |-> CleanDivEReads(1, p)]
        /\ R[2] = [p \in Voxel |-> CleanDivEReads(2, p)]
    BY Axes
  <2> HIDE DEF L, R
  <2>. QED  BY <2>1 DEF UpdatedVector, ThreeComponents, OneComponent
<1>2. Ready(f, "e", L, R)
  <2>1. SUFFICES ASSUME NEW a \in Axis
                 PROVE  /\ Disjoint(L[a])
                        /\ \A p \in Visited(L[a]) : p \in Voxel /\ Current(f, <<<<"e", a>>, p>>)
                        /\ \A p \in Visited(L[a]) : \A v \in R[a][p] :
                             v[1] \in Component /\ v[1][1] # "e" /\ Current(f, v)
    BY DEF Ready
  <2>2. Disjoint(L[a]) /\ Visited(L[a]) = Owned(<<"e", a>>)
    BY CleanDivECovers
  <2>3. ASSUME NEW p \in Owned(<<"e", a>>) PROVE p \in Voxel /\ Current(f, <<<<"e", a>>, p>>)
    BY VectorComponents DEF AllCurrent, Current, Owned
  <2>4. ASSUME NEW p \in Owned(<<"e", a>>), NEW v \in R[a][p]
        PROVE  v[1] \in Component /\ v[1][1] # "e" /\ Current(f, v)
    <3>1. v \in CleanDivEReads(a, p)
      BY <2>3, <2>4
    <3>2. v[1] = DivE /\ v[2] \in Owned(DivE)
      BY <3>1, CleanDivEReadsOwned
    <3>3. DivE \in Component /\ DivE[1] # "e"
      BY Components DEF DivE
    <3>. QED  BY <3>2, <3>3 DEF AllCurrent, Current
  <2> HIDE DEF L, R
  <2>. QED  BY <2>2, <2>3, <2>4
<1>3. \A a \in Axis : \A p \in Voxel : p \in AllOf[<<"e", a>>] <=> p \in Visited(L[a])
  BY CleanDivECovers, VectorComponents DEF AllOf
<1> HIDE DEF L, R, g
<1>4. Swept(f, g, "e", [a \in Axis |-> Visited(L[a])])
  BY <1>1, <1>2, ThreeComponentsAre
<1>5. Advanced(f, g, "e", AllOf)
  BY <1>3, <1>4, SweptIsAdvanced
<1>6. \A a \in Axis : AllOf[<<"e", a>>] = Owned(<<"e", a>>)
  BY VectorComponents DEF AllOf
<1>7. Advanced(f, AdjustTangE(g), "e", AllOf)
  BY <1>5, <1>6, AdjustTangEIs
<1>. QED  BY <1>7 DEF g

\* compute_div_b_err.
LEMMA DivBUpdates ==
  ASSUME domain \in Domains, when \in [Name -> Nat], NEW f \in Fields, AllCurrent(f)
  PROVE  Advanced(f, Updated(f, DivB, DivBLoops, DivBReads, FALSE), "div_b_err", AllOf)
<1>1. Disjoint(DivBLoops) /\ Visited(DivBLoops) = Owned(DivB)
  BY DivBCovers
<1>2. AllOf[DivB] = Owned(DivB)
  BY Components DEF AllOf
<1>3. ASSUME NEW p \in Voxel, p \in AllOf[DivB], NEW v \in DivBReads[p] PROVE Current(f, v)
  <2>1. v[1] \in Component /\ v[2] \in Owned(v[1])
    BY <1>2, <1>3, DivBReadsOwned
  <2>. QED  BY <2>1 DEF AllCurrent, Current
<1>4. Advanced(f, Updated(f, DivB, DivBLoops, DivBReads, FALSE), DivB[1], AllOf)
  BY <1>1, <1>2, <1>3, UpdateIsAdvance
<1>5. DivB[1] = "div_b_err"
  BY DEF DivB
<1>. QED  BY <1>4, <1>5

\* clean_div_b, interior and exterior.
LEMMA CleanDivBInteriorUpdates ==
  ASSUME domain \in Domains, when \in [Name -> Nat], NEW f \in Fields, AllCurrent(f)
  PROVE  Advanced(f, UpdatedVector(f, "cb", CleanDivBInteriorLoops, CleanDivBReads), "cb", InnerOf)
<1> DEFINE L == [X \in Axis |-> CleanDivBInteriorLoops(X)]
           R == [X \in Axis |-> [p \in Voxel |-> CleanDivBReads(X, p)]]
           g == UpdatedVector(f, "cb", CleanDivBInteriorLoops, CleanDivBReads)
<1>1. g = ThreeComponents(f, "cb", L, R)
  <2>1. /\ L[0] = CleanDivBInteriorLoops(0) /\ L[1] = CleanDivBInteriorLoops(1) /\ L[2] = CleanDivBInteriorLoops(2)
        /\ R[0] = [p \in Voxel |-> CleanDivBReads(0, p)] /\ R[1] = [p \in Voxel |-> CleanDivBReads(1, p)]
        /\ R[2] = [p \in Voxel |-> CleanDivBReads(2, p)]
    BY Axes
  <2> HIDE DEF L, R
  <2>. QED  BY <2>1 DEF UpdatedVector, ThreeComponents, OneComponent
<1>2. Ready(f, "cb", L, R)
  <2>1. SUFFICES ASSUME NEW a \in Axis
                 PROVE  /\ Disjoint(L[a])
                        /\ \A p \in Visited(L[a]) : p \in Voxel /\ Current(f, <<<<"cb", a>>, p>>)
                        /\ \A p \in Visited(L[a]) : \A v \in R[a][p] :
                             v[1] \in Component /\ v[1][1] # "cb" /\ Current(f, v)
    BY DEF Ready
  <2>2. /\ Disjoint(L[a])
        /\ \A p \in Visited(L[a]) : p \in Owned(<<"cb", a>>) /\ p[a] \in 2 .. n[a]
    BY CleanDivBCovers
  <2>3. ASSUME NEW p \in Owned(<<"cb", a>>) PROVE p \in Voxel /\ Current(f, <<<<"cb", a>>, p>>)
    BY VectorComponents DEF AllCurrent, Current, Owned
  <2>4. ASSUME NEW p \in Visited(L[a]), NEW v \in R[a][p]
        PROVE  v[1] \in Component /\ v[1][1] # "cb" /\ Current(f, v)
    <3>1. v \in CleanDivBReads(a, p)
      BY <2>2, <2>3, <2>4
    <3>2. v[1] = DivB /\ v[2] \in Owned(DivB)
      BY <2>2, <3>1, CleanDivBReadsAre
    <3>3. DivB \in Component /\ DivB[1] # "cb"
      BY Components DEF DivB
    <3>. QED  BY <3>2, <3>3 DEF AllCurrent, Current
  <2> HIDE DEF L, R
  <2>. QED  BY <2>2, <2>3, <2>4
<1>3. \A a \in Axis : \A p \in Voxel : p \in InnerOf[<<"cb", a>>] <=> p \in Visited(L[a])
  BY InnerIs, VectorComponents DEF InnerOf
<1> HIDE DEF L, R, g
<1>4. Swept(f, g, "cb", [a \in Axis |-> Visited(L[a])])
  BY <1>1, <1>2, ThreeComponentsAre
<1>. QED  BY <1>3, <1>4, SweptIsAdvanced DEF g

LEMMA CleanDivBExteriorUpdates ==
  ASSUME domain \in Domains, when \in [Name -> Nat], NEW f \in Fields, HalfDone(f, "cb"),
         \A d \in Face : \A v \in Ghosts("div_b", d) : Current(f, v)
  PROVE  Advanced(f, UpdatedVector(f, "cb", CleanDivBExteriorLoops, CleanDivBReads), "cb", OuterOf)
<1> DEFINE L == [X \in Axis |-> CleanDivBExteriorLoops(X)]
           R == [X \in Axis |-> [p \in Voxel |-> CleanDivBReads(X, p)]]
           g == UpdatedVector(f, "cb", CleanDivBExteriorLoops, CleanDivBReads)
<1>1. g = ThreeComponents(f, "cb", L, R)
  <2>1. /\ L[0] = CleanDivBExteriorLoops(0) /\ L[1] = CleanDivBExteriorLoops(1) /\ L[2] = CleanDivBExteriorLoops(2)
        /\ R[0] = [p \in Voxel |-> CleanDivBReads(0, p)] /\ R[1] = [p \in Voxel |-> CleanDivBReads(1, p)]
        /\ R[2] = [p \in Voxel |-> CleanDivBReads(2, p)]
    BY Axes
  <2> HIDE DEF L, R
  <2>. QED  BY <2>1 DEF UpdatedVector, ThreeComponents, OneComponent
<1>2. Ready(f, "cb", L, R)
  <2>1. SUFFICES ASSUME NEW a \in Axis
                 PROVE  /\ Disjoint(L[a])
                        /\ \A p \in Visited(L[a]) : p \in Voxel /\ Current(f, <<<<"cb", a>>, p>>)
                        /\ \A p \in Visited(L[a]) : \A v \in R[a][p] :
                             v[1] \in Component /\ v[1][1] # "cb" /\ Current(f, v)
    BY DEF Ready
  <2>2. /\ Disjoint(L[a])
        /\ \A p \in Visited(L[a]) : p \in Owned(<<"cb", a>>) /\ p \notin Inner(<<"cb", a>>)
    BY CleanDivBCovers, InnerIs
  <2>3. ASSUME NEW p \in Visited(L[a]) PROVE p \in Voxel /\ Current(f, <<<<"cb", a>>, p>>)
    <3>1. p \in Owned(<<"cb", a>>) /\ p \notin Inner(<<"cb", a>>)
      BY <2>2
    <3>2. p \in Voxel
      BY <3>1 DEF Owned
    <3>3. f[<<"cb", a>>][p] = when["cb"]
      <4>1. <<"cb", a>> \in Component /\ <<"cb", a>>[1] = "cb"
        BY VectorComponents
      <4>. QED  BY <3>1, <4>1 DEF HalfDone
    <3>. QED  BY <3>2, <3>3 DEF Current
  <2>4. ASSUME NEW p \in Visited(L[a]), NEW v \in R[a][p]
        PROVE  v[1] \in Component /\ v[1][1] # "cb" /\ Current(f, v)
    <3>1. v \in CleanDivBReads(a, p)
      BY <2>3, <2>4
    <3>2. v[1] = DivB /\ (v[2] \in Owned(DivB) \/ \E d \in Face : v \in Ghosts("div_b", d))
      BY <2>2, <3>1, CleanDivBReadsAre
    <3>3. DivB \in Component /\ DivB[1] # "cb"
      BY Components DEF DivB
    <3>4. v[2] \in Owned(DivB) => Current(f, v)
      BY <3>2, <3>3 DEF HalfDone, Current
    <3>. QED  BY <3>2, <3>3, <3>4
  <2> HIDE DEF L, R
  <2>. QED  BY <2>2, <2>3, <2>4
<1>3. \A a \in Axis : \A p \in Voxel : p \in OuterOf[<<"cb", a>>] <=> p \in Visited(L[a])
  BY CleanDivBCovers, InnerIs, VectorComponents DEF OuterOf
<1> HIDE DEF L, R, g
<1>4. Swept(f, g, "cb", [a \in Axis |-> Visited(L[a])])
  BY <1>1, <1>2, ThreeComponentsAre
<1>. QED  BY <1>3, <1>4, SweptIsAdvanced DEF g

\* The interior is part of what the domain has.
LEMMA InnerOwned ==
  ASSUME domain \in Domains, NEW c \in Component
  PROVE  Inner(c) \subseteq Owned(c)
<1>1. CASE \E a \in Axis : c = <<"e", a>>
  BY <1>1, AdvanceECovers, InnerIs
<1>2. CASE \E a \in Axis : c = <<"cb", a>>
  BY <1>2, CleanDivBCovers, InnerIs
<1>3. CASE c = DivE
  BY <1>3, DivECovers, InnerIs
<1>4. CASE c = DivB
  BY <1>4, InnerIs
<1>. QED  BY <1>1, <1>2, <1>3, <1>4, Components

\* A kernel leaves the ghosts alone.
LEMMA GhostsKept ==
  ASSUME domain \in Domains, NEW f, NEW g, NEW name, NEW S, S \in {AllOf, InnerOf, OuterOf},
         Advanced(f, g, name, S), NEW op \in GhostOps, NEW d \in Face, NEW v \in Ghosts(op, d)
  PROVE  g[v[1]][v[2]] = f[v[1]][v[2]]
<1> DEFINE c == v[1]
           p == v[2]
<1>1. c \in Component /\ p \in Voxel /\ p \notin Owned(c)
  BY GhostsAre
<1> HIDE DEF c, p
<1>2. p \notin S[c]
  BY <1>1, InnerOwned DEF AllOf, InnerOf, OuterOf
<1>3. g[c][p] = f[c][p]
  BY <1>1, <1>2 DEF Advanced
<1>. QED  BY <1>3 DEF c, p

\* A routine of one part, or both parts of another, make the next update of the
\* components of name; the first part makes half of it.
LEMMA WholeUpdate ==
  ASSUME domain \in Domains, NEW f, NEW g, NEW name, AllCurrent(f), Advanced(f, g, name, AllOf)
  PROVE  \A c \in Component : \A p \in Owned(c) :
           g[c][p] = IF c[1] = name THEN when[name] + 1 ELSE when[c[1]]
<1>1. SUFFICES ASSUME NEW c \in Component, NEW p \in Owned(c)
               PROVE  g[c][p] = IF c[1] = name THEN when[name] + 1 ELSE when[c[1]]
  OBVIOUS
<1>2. p \in Voxel
  BY DEF Owned
<1>3. p \in AllOf[c]
  BY DEF AllOf
<1>4. f[c][p] = when[c[1]]
  BY DEF AllCurrent
<1>. QED  BY <1>2, <1>3, <1>4 DEF Advanced

LEMMA FirstHalf ==
  ASSUME domain \in Domains, NEW f, NEW g, NEW name, AllCurrent(f), Advanced(f, g, name, InnerOf)
  PROVE  HalfDone(g, name)
<1>1. SUFFICES ASSUME NEW c \in Component, NEW p \in Owned(c)
               PROVE  g[c][p] = IF c[1] = name /\ p \in Inner(c) THEN when[c[1]] + 1 ELSE when[c[1]]
  BY DEF HalfDone
<1>2. p \in Voxel
  BY DEF Owned
<1>3. p \in InnerOf[c] <=> p \in Inner(c)
  BY DEF InnerOf
<1>4. f[c][p] = when[c[1]]
  BY DEF AllCurrent
<1>. QED  BY <1>2, <1>3, <1>4 DEF Advanced

LEMMA SecondHalf ==
  ASSUME domain \in Domains, NEW f, NEW g, NEW name, HalfDone(f, name), Advanced(f, g, name, OuterOf)
  PROVE  \A c \in Component : \A p \in Owned(c) :
           g[c][p] = IF c[1] = name THEN when[name] + 1 ELSE when[c[1]]
<1>1. SUFFICES ASSUME NEW c \in Component, NEW p \in Owned(c)
               PROVE  g[c][p] = IF c[1] = name THEN when[name] + 1 ELSE when[c[1]]
  OBVIOUS
<1>2. p \in Voxel
  BY DEF Owned
<1>3. p \in OuterOf[c] <=> p \notin Inner(c)
  BY DEF OuterOf
<1>4. f[c][p] = IF c[1] = name /\ p \in Inner(c) THEN when[c[1]] + 1 ELSE when[c[1]]
  BY DEF HalfDone
<1>. QED  BY <1>2, <1>3, <1>4 DEF Advanced

-----------------------------------------------------------------------------
(***************************************************************************)
(* The calls of a step.                                                    *)
(***************************************************************************)
LEMMA RoundsAre ==
  ASSUME NEW k \in Nat, NEW a \in Call, NEW b \in Call
  PROVE  Rounds(k, <<a, b>>) \in Seq(Call)
<1> DEFINE R == Rounds(k, <<a, b>>)
<1>1. k * Len(<<a, b>>) \in Nat
  <2>1. Len(<<a, b>>) = 2
    OBVIOUS
  <2>. QED  BY <2>1
<1>2. \A i \in 1 .. k * Len(<<a, b>>) : R[i] \in Call
  <2>1. SUFFICES ASSUME NEW i \in 1 .. k * Len(<<a, b>>) PROVE R[i] \in Call
    OBVIOUS
  <2>2. R[i] = <<a, b>>[((i - 1) % 2) + 1]
    BY DEF Rounds
  <2>3. i - 1 \in Int
    BY <1>1
  <2>4. ((i - 1) % 2) + 1 = 1 \/ ((i - 1) % 2) + 1 = 2
    BY <2>3
  <2>. QED  BY <2>2, <2>4
<1>3. R = [i \in 1 .. k * Len(<<a, b>>) |-> R[i]]
  BY DEF Rounds
<1> HIDE DEF R
<1>4. R \in Seq(Call)
  BY <1>1, <1>2, <1>3, IsASeq
<1>. QED  BY <1>4 DEF R

LEMMA CallsAre ==
  ASSUME NEW cleanE \in BOOLEAN, NEW cleanB \in BOOLEAN
  PROVE  /\ Calls(cleanE, cleanB) \in Seq(Call) /\ Calls(cleanE, cleanB) # <<>>
         /\ Calls(cleanE, cleanB)[Len(Calls(cleanE, cleanB))] = "load_interpolator"
<1> DEFINE A == <<"advance_b", "advance_e", "advance_b">>
           E == Rounds(IF cleanE THEN NumDivERound ELSE 0, <<"compute_div_e_err", "clean_div_e">>)
           B == Rounds(IF cleanB THEN NumDivBRound ELSE 0, <<"compute_div_b_err", "clean_div_b">>)
           I == <<"load_interpolator">>
<1>1. A \in Seq(Call) /\ I \in Seq(Call) /\ Len(I) = 1 /\ I[1] = "load_interpolator"
  BY DEF Call
<1>2. E \in Seq(Call) /\ B \in Seq(Call)
  BY RoundAssumption, RoundsAre DEF Call
<1>3. Calls(cleanE, cleanB) = ((A \o E) \o B) \o I
  BY DEF Calls
<1> HIDE DEF A, E, B, I
<1>4. A \o E \in Seq(Call)
  BY <1>1, <1>2, ConcatProperties
<1>5. (A \o E) \o B \in Seq(Call)
  BY <1>2, <1>4, ConcatProperties
<1> DEFINE F == (A \o E) \o B
<1>6. F \in Seq(Call)
  BY <1>5
<1> HIDE DEF F
<1>7. Calls(cleanE, cleanB) = F \o I
  BY <1>3 DEF F
<1>8. /\ F \o I \in Seq(Call) /\ Len(F \o I) = Len(F) + Len(I)
      /\ \A i \in 1 .. Len(F) + Len(I) : (F \o I)[i] = IF i <= Len(F) THEN F[i] ELSE I[i - Len(F)]
  BY <1>1, <1>6, ConcatProperties
<1>9. Len(F) \in Nat
  BY <1>6
<1> DEFINE C == F \o I
<1> HIDE DEF C
<1>10. C \in Seq(Call) /\ Len(C) = Len(F) + 1 /\ C[Len(F) + 1] = "load_interpolator"
  BY <1>1, <1>8, <1>9 DEF C
<1>11. C # <<>>
  BY <1>9, <1>10
<1>. QED  BY <1>7, <1>10, <1>11 DEF C

\* A call that is not the last leaves a sequence of calls that ends as before.
LEMMA CallOver ==
  ASSUME TodoOK, todo # <<>>
  PROVE  /\ Head(todo) \in Call /\ Tail(todo) \in Seq(Call)
         /\ Tail(todo) # <<>> => Tail(todo)[Len(Tail(todo))] = "load_interpolator"
         /\ Head(todo) # "load_interpolator" => Tail(todo) # <<>>
<1> DEFINE rest == Tail(todo)
<1>1. todo \in Seq(Call) /\ todo[Len(todo)] = "load_interpolator"
  BY DEF TodoOK
<1>2. /\ Head(todo) \in Call /\ rest \in Seq(Call)
      /\ Len(rest) = Len(todo) - 1
      /\ \A i \in 1 .. Len(rest) : rest[i] = todo[i + 1]
  BY <1>1, HeadTailProperties
<1>3. Len(todo) \in Nat /\ Len(todo) # 0 /\ Head(todo) = todo[1]
  BY <1>1
<1> HIDE DEF rest
<1>4. rest # <<>> => rest[Len(rest)] = "load_interpolator"
  <2>1. SUFFICES ASSUME rest # <<>> PROVE rest[Len(rest)] = "load_interpolator"
    OBVIOUS
  <2>2. Len(rest) \in Nat /\ Len(rest) # 0
    BY <1>2, <2>1
  <2>. QED  BY <1>1, <1>2, <1>3, <2>2
<1>5. Head(todo) # "load_interpolator" => rest # <<>>
  <2>1. SUFFICES ASSUME rest = <<>> PROVE Head(todo) = "load_interpolator"
    OBVIOUS
  <2>2. Len(rest) = 0
    BY <2>1
  <2>3. Len(todo) = 1
    BY <1>2, <1>3, <2>2
  <2>. QED  BY <1>1, <1>3, <2>3
<1>. QED  BY <1>2, <1>4, <1>5 DEF rest

-----------------------------------------------------------------------------
(***************************************************************************)
(* The steps.                                                              *)
(***************************************************************************)
\* No step changes the domain, nor its mesh.
LEMMA SameMesh ==
  ASSUME domain' = domain
  PROVE  /\ n' = n /\ Voxel' = Voxel
         /\ \A c : Owned(c)' = Owned(c)
         /\ \A c : Inner(c)' = Inner(c)
         /\ \A d : Wall(d)' <=> Wall(d)
         /\ \A op, d : Ghosts(op, d)' = Ghosts(op, d)
         /\ \A op, d : Packed(op, d)' = Packed(op, d)
         /\ Fields' = Fields
<1>1. n' = n
  BY DEF n
<1>2. Voxel' = Voxel
  BY <1>1 DEF Voxel
<1>3. \A c : Owned(c)' = Owned(c)
  BY <1>1, <1>2 DEF Owned
<1>4. \A c : Inner(c)' = Inner(c)
  BY <1>1, <1>2 DEF Inner, InteriorLoops, CleanDivBInteriorLoops, DivEInteriorLoops, Box3
<1>5. \A d : Wall(d)' <=> Wall(d)
  BY DEF Wall
<1>6. \A d : GhostPlane(d)' = GhostPlane(d) /\ InnerPlane(d)' = InnerPlane(d)
  BY <1>1 DEF GhostPlane, InnerPlane
<1>7. \A op, d : Ghosts(op, d)' = Ghosts(op, d)
  BY <1>1, <1>2, <1>3, <1>6 DEF Ghosts, GhostPlaces
<1>8. \A op, d : Packed(op, d)' = Packed(op, d)
  BY <1>1, <1>2, <1>3, <1>6 DEF Packed, GhostPlaces
<1>9. Fields' = Fields
  BY <1>2 DEF Fields
<1>. QED  BY <1>1, <1>2, <1>3, <1>4, <1>5, <1>7, <1>8, <1>9

\* What the invariant says of a state.
LEMMA CurrentAtFirst ==
  ASSUME IInv, part \in {"start", "interior"}
  PROVE  AllCurrent(k_field)
<1>1. \A name : ~Between(name)
  BY DEF Between
<1>. QED  BY <1>1 DEF IInv, OwnedOK, AllCurrent

TwoParts == {"e", "cb", "div_e_err"}
Routines == {"advance_e", "compute_div_e_err", "clean_div_b"}

LEMMA RoutineOf ==
  ASSUME NEW name \in TwoParts
  PROVE  /\ name \in Name /\ InTwoParts(name) \in Routines
         /\ \A m \in Name : InTwoParts(m) = InTwoParts(name) <=> m = name
BY DEF TwoParts, Routines, Name, InTwoParts

LEMMA HalfDoneBetween ==
  ASSUME IInv, NEW name \in TwoParts, todo # <<>>, Head(todo) = InTwoParts(name), part \in {"ghosts", "exterior"}
  PROVE  HalfDone(k_field, name)
<1>1. \A m \in Name : Between(m) <=> m = name
  BY RoutineOf DEF Between
<1>2. \A c \in Component : c[1] \in Name
  BY Components
<1>. QED  BY <1>1, <1>2 DEF IInv, OwnedOK, HalfDone

LEMMA GhostsFilled ==
  ASSUME IInv, part = "exterior", NEW d \in Face, ~Wall(d) \/ GhostOp # "norm_e", NEW v \in Ghosts(GhostOp, d)
  PROVE  Current(k_field, v)
BY DEF IInv, GhostsOK, Filled

LEMMA GhostOpIs ==
  ASSUME TodoOK, part # "start"
  PROVE  todo # <<>> /\ Head(todo) \in Routines /\ GhostOp \in GhostOps
BY DEF TodoOK, GhostOp, GhostsOf, GhostOps, Routines

LEMMA GhostsOfIn == \A call : GhostsOf(call) \in GhostOps
BY DEF GhostsOf, GhostOps

\* A call is over: S is all of its components, or the outer part of them.
LEMMA Returned ==
  ASSUME IInv, NEW name \in Name, todo # <<>>, Head(todo) # "load_interpolator", Returns(name),
         UNCHANGED <<domain, k_interp, step>>,
         NEW S, S \in {AllOf, InnerOf, OuterOf}, Advanced(k_field, k_field', name, S),
         \A c \in Component : \A p \in Owned(c) :
           k_field'[c][p] = IF c[1] = name THEN when[name] + 1 ELSE when[c[1]]
  PROVE  IInv'
<1>1. domain \in Domains /\ when \in [Name -> Nat] /\ domain' = domain
  BY DEF IInv, TypeOK
<1>2. /\ when' = [when EXCEPT ![name] = @ + 1]
      /\ todo' = Tail(todo) /\ part' = "start"
  BY DEF Returns
<1>3. TypeOK'
  <2>1. k_field' \in Fields'
    BY <1>1, SameMesh DEF Advanced
  <2>2. when' \in [Name -> Nat]
    BY <1>1, <1>2
  <2>3. DOMAIN k_interp' = Box3(0, 1 .. n[0], 1 .. n[1], 1 .. n[2])'
    BY <1>1, SameMesh DEF IInv, TypeOK, Box3
  <2>4. domain' \in Domains /\ step' \in Nat
    BY <1>1 DEF IInv, TypeOK
  <2>. QED  BY <2>1, <2>2, <2>3, <2>4 DEF TypeOK
<1>4. TodoOK' /\ todo' # <<>>
  BY <1>2, CallOver DEF IInv, TodoOK
<1>5. OwnedOK'
  <2>1. \A m : ~Between(m)'
    BY <1>2 DEF Between
  <2>2. SUFFICES ASSUME NEW c \in Component, NEW p \in Owned(c) PROVE k_field'[c][p] = when'[c[1]]
    BY <1>1, <2>1, SameMesh DEF OwnedOK
  <2>3. c[1] \in Name
    BY Components
  <2>4. when'[c[1]] = IF c[1] = name THEN when[name] + 1 ELSE when[c[1]]
    BY <1>1, <1>2, <2>3
  <2>. QED  BY <2>4
<1>6. GhostsOK' /\ BufferOK'
  <2>1. \A d : ~Filled(d)'
    BY <1>2 DEF Filled
  <2>. QED  BY <1>2, <2>1 DEF GhostsOK, BufferOK
<1>7. NoGarbage'
  <2>1. SUFFICES ASSUME NEW d \in Face, NEW v \in Ghosts("tang_b", d) PROVE k_field'[v[1]][v[2]] # Garbage
    BY <1>1, SameMesh DEF NoGarbage, Clean
  <2>2. k_field'[v[1]][v[2]] = k_field[v[1]][v[2]]
    BY <1>1, GhostsKept DEF GhostOps
  <2>. QED  BY <2>2 DEF IInv, NoGarbage, Clean
<1>8. InterpolatorCurrent'
  BY <1>4 DEF InterpolatorCurrent
<1>. QED  BY <1>3, <1>4, <1>5, <1>6, <1>7, <1>8 DEF IInv

\* A call goes on.
LEMMA StillRunning ==
  ASSUME IInv, todo # <<>>, Head(todo) \in Routines, part' \in {"interior", "ghosts", "exterior"},
         UNCHANGED <<domain, when, todo, k_interp, step>>, k_field' \in Fields
  PROVE  TypeOK' /\ TodoOK' /\ InterpolatorCurrent'
<1>1. domain' = domain
  OBVIOUS
<1>2. TypeOK'
  <2>1. k_field' \in Fields'
    BY <1>1, SameMesh
  <2>2. DOMAIN k_interp' = Box3(0, 1 .. n[0], 1 .. n[1], 1 .. n[2])'
    BY <1>1, SameMesh DEF IInv, TypeOK, Box3
  <2>3. domain' \in Domains /\ step' \in Nat /\ when' \in [Name -> Nat]
    BY DEF IInv, TypeOK
  <2>. QED  BY <2>1, <2>2, <2>3 DEF TypeOK
<1>3. TodoOK'
  BY DEF IInv, TodoOK, Routines
<1>4. InterpolatorCurrent'
  BY DEF InterpolatorCurrent
<1>. QED  BY <1>2, <1>3, <1>4

\* begin_remote_ghost and local_ghost.
LEMMA BeginGhostsStep ==
  ASSUME IInv, NEW call \in Routines, BeginGhosts(call, GhostsOf(call))
  PROVE  IInv'
<1> DEFINE op == GhostsOf(call)
<1>1. /\ todo # <<>> /\ Head(todo) = call /\ part = "start"
      /\ buf' = PackedPlanes(op, k_field) /\ k_field' = LocalGhosts(op, k_field)
      /\ part' = "interior" /\ when' = when /\ todo' = todo
      /\ domain' = domain /\ k_interp' = k_interp /\ step' = step
  BY DEF BeginGhosts, Running, Continues
<1>2. op \in GhostOps /\ GhostOp' = op
  BY <1>1, GhostsOfIn DEF GhostOp
<1> HIDE DEF op
<1>3. domain \in Domains /\ when \in [Name -> Nat] /\ k_field \in Fields /\ Clean(k_field)
  BY DEF IInv, TypeOK, NoGarbage
<1>4. AllCurrent(k_field)
  BY <1>1, CurrentAtFirst
<1>5. FacesFilled(k_field, k_field', op, WallsDone(op, 6))
  BY <1>1, <1>2, <1>3, <1>4, LocalGhostsAre
<1>6. k_field' \in Fields /\ \A c \in Component : \A p \in Owned(c) : k_field'[c][p] = k_field[c][p]
  <2>1. k_field' \in Fields
    BY <1>5 DEF FacesFilled
  <2>2. \A c \in Component : \A p \in Owned(c) : k_field'[c][p] = k_field[c][p]
    BY <1>2, <1>3, <1>5, OwnedKept
  <2>. QED  BY <2>1, <2>2
<1>7. TypeOK' /\ TodoOK' /\ InterpolatorCurrent'
  BY <1>1, <1>6, StillRunning
<1>8. OwnedOK'
  <2>1. \A m : ~Between(m)'
    BY <1>1 DEF Between
  <2>2. SUFFICES ASSUME NEW c \in Component, NEW p \in Owned(c) PROVE k_field'[c][p] = when[c[1]]
    BY <1>1, <2>1, SameMesh DEF OwnedOK
  <2>. QED  BY <1>4, <1>6 DEF AllCurrent
<1>9. GhostsOK'
  <2>1. SUFFICES ASSUME NEW d \in Face, Wall(d), op # "norm_e", NEW v \in Ghosts(op, d)
                 PROVE  k_field'[v[1]][v[2]] = when[v[1][1]]
    BY <1>1, <1>2, SameMesh DEF GhostsOK, Filled, Current
  <2>2. d \in WallsDone(op, 6)
    BY <2>1 DEF WallsDone, Face
  <2>3. \A e \in WallsDone(op, 6) : \A u \in Ghosts(op, e) : Current(k_field', u)
    BY <1>5 DEF FacesFilled
  <2>. QED  BY <2>1, <2>2, <2>3 DEF Current
<1>10. BufferOK'
  <2>1. SUFFICES ASSUME NEW d \in Face, ~Wall(d), NEW v \in Packed(op, d)
                 PROVE  buf'[d][v] = when[v[1][1]]
    BY <1>1, <1>2, SameMesh DEF BufferOK, BufferHas
  <2>2. BufferHas(buf', op)
    BY <1>1, <1>2, <1>3, <1>4, PackedPlanesAre
  <2>. QED  BY <2>1, <2>2 DEF BufferHas
<1>11. NoGarbage'
  <2>1. Clean(k_field')
    BY <1>5 DEF FacesFilled
  <2>. QED  BY <1>1, <2>1, SameMesh DEF NoGarbage, Clean
<1>. QED  BY <1>7, <1>8, <1>9, <1>10, <1>11 DEF IInv

\* The kernels of the interior.
LEMMA InteriorStep ==
  ASSUME IInv, NEW name \in TwoParts, Running(InTwoParts(name), "interior"), Continues("ghosts"),
         UNCHANGED <<domain, buf, k_interp, step>>, Advanced(k_field, k_field', name, InnerOf)
  PROVE  IInv'
<1>1. /\ todo # <<>> /\ Head(todo) = InTwoParts(name) /\ part = "interior"
      /\ part' = "ghosts" /\ when' = when /\ todo' = todo
      /\ domain' = domain /\ buf' = buf /\ k_interp' = k_interp /\ step' = step
  BY DEF Running, Continues
<1>2. domain \in Domains /\ name \in Name /\ Head(todo) \in Routines
  BY <1>1, RoutineOf DEF IInv, TypeOK
<1>3. GhostOp' = GhostOp /\ GhostOp \in GhostOps
  BY <1>1, GhostOpIs DEF GhostOp, IInv
<1>4. HalfDone(k_field', name)
  <2>1. AllCurrent(k_field)
    BY <1>1, CurrentAtFirst
  <2>. QED  BY <1>2, <2>1, FirstHalf
<1>5. TypeOK' /\ TodoOK' /\ InterpolatorCurrent'
  <2>1. k_field' \in Fields
    BY DEF Advanced
  <2>. QED  BY <1>1, <1>2, <2>1, StillRunning
<1>6. OwnedOK'
  <2>1. \A m \in Name : Between(m)' <=> m = name
    BY <1>1, RoutineOf DEF Between
  <2>2. \A c \in Component : Between(c[1])' <=> c[1] = name
    BY <2>1, Components
  <2>3. SUFFICES ASSUME NEW c \in Component, NEW p \in Owned(c)
                 PROVE  k_field'[c][p] = IF c[1] = name /\ p \in Inner(c) THEN when[c[1]] + 1 ELSE when[c[1]]
    BY <1>1, <2>2, SameMesh DEF OwnedOK
  <2>. QED  BY <1>4 DEF HalfDone
<1>7. ASSUME NEW op \in GhostOps, NEW d \in Face, NEW v \in Ghosts(op, d)
      PROVE  k_field'[v[1]][v[2]] = k_field[v[1]][v[2]]
  BY <1>2, GhostsKept
<1>8. GhostsOK'
  <2>1. \A d : Filled(d)' => Filled(d)
    BY <1>1, <1>3, SameMesh DEF Filled
  <2>2. SUFFICES ASSUME NEW d \in Face, Filled(d), NEW v \in Ghosts(GhostOp, d)
                 PROVE  k_field'[v[1]][v[2]] = when[v[1][1]]
    BY <1>1, <1>3, <2>1, SameMesh DEF GhostsOK, Current
  <2>3. k_field[v[1]][v[2]] = when[v[1][1]]
    BY <2>2 DEF IInv, GhostsOK, Current
  <2>. QED  BY <1>3, <1>7, <2>3
<1>9. BufferOK'
  <2>1. SUFFICES ASSUME NEW d \in Face, ~Wall(d), NEW v \in Packed(GhostOp, d)
                 PROVE  buf[d][v] = when[v[1][1]]
    BY <1>1, <1>3, SameMesh DEF BufferOK, BufferHas
  <2>. QED  BY <1>1, <2>1 DEF IInv, BufferOK, BufferHas
<1>10. NoGarbage'
  <2>1. SUFFICES ASSUME NEW d \in Face, NEW v \in Ghosts("tang_b", d) PROVE k_field'[v[1]][v[2]] # Garbage
    BY <1>1, SameMesh DEF NoGarbage, Clean
  <2>2. k_field'[v[1]][v[2]] = k_field[v[1]][v[2]]
    BY <1>7 DEF GhostOps
  <2>. QED  BY <2>2 DEF IInv, NoGarbage, Clean
<1>. QED  BY <1>5, <1>6, <1>8, <1>9, <1>10 DEF IInv

\* end_remote_ghost.
LEMMA EndGhostsStep ==
  ASSUME IInv, NEW name \in TwoParts, EndGhosts(InTwoParts(name), GhostsOf(InTwoParts(name)))
  PROVE  IInv'
<1> DEFINE op == GhostsOf(InTwoParts(name))
           D == {d \in Face : Wall(d) /\ op # "norm_e"}
<1>1. /\ todo # <<>> /\ Head(todo) = InTwoParts(name) /\ part = "ghosts"
      /\ k_field' = RemoteGhosts(op, k_field)
      /\ part' = "exterior" /\ when' = when /\ todo' = todo
      /\ domain' = domain /\ k_interp' = k_interp /\ step' = step
  BY DEF EndGhosts, Running, Continues
<1>2. op \in GhostOps /\ GhostOp = op /\ GhostOp' = op
  BY <1>1, GhostsOfIn DEF GhostOp
<1> HIDE DEF op
<1>3. /\ domain \in Domains /\ when \in [Name -> Nat] /\ k_field \in Fields /\ Clean(k_field)
      /\ Head(todo) \in Routines
  BY <1>1, RoutineOf DEF IInv, TypeOK, NoGarbage
<1>4. BufferHas(buf, op)
  BY <1>1, <1>2 DEF IInv, BufferOK
<1>5. FacesFilled(k_field, k_field, op, D)
  <2>1. ASSUME NEW d \in D, NEW v \in Ghosts(op, d) PROVE Current(k_field, v)
    <3>1. d \in Face /\ Filled(d)
      BY <1>1, <1>2 DEF Filled
    <3>. QED  BY <1>2, <3>1 DEF IInv, GhostsOK
  <2>. QED  BY <1>3, <2>1 DEF FacesFilled
<1>6. FacesFilled(k_field, k_field', op, JoinedDone(D, 6))
  <2>1. D \subseteq Face
    OBVIOUS
  <2> HIDE DEF D
  <2>. QED  BY <1>1, <1>2, <1>3, <1>4, <1>5, <2>1, RemoteGhostsAre
<1>7. k_field' \in Fields /\ \A c \in Component : \A p \in Owned(c) : k_field'[c][p] = k_field[c][p]
  <2> HIDE DEF D
  <2>1. k_field' \in Fields
    BY <1>6 DEF FacesFilled
  <2>2. \A c \in Component : \A p \in Owned(c) : k_field'[c][p] = k_field[c][p]
    BY <1>2, <1>3, <1>6, OwnedKept
  <2>. QED  BY <2>1, <2>2
<1>8. TypeOK' /\ TodoOK' /\ InterpolatorCurrent'
  BY <1>1, <1>3, <1>7, StillRunning
<1>9. OwnedOK'
  <2>1. \A m : Between(m)' <=> Between(m)
    BY <1>1 DEF Between
  <2>2. SUFFICES ASSUME NEW c \in Component, NEW p \in Owned(c)
                 PROVE  k_field'[c][p] =
                          IF Between(c[1]) /\ p \in Inner(c) THEN when[c[1]] + 1 ELSE when[c[1]]
    BY <1>1, <2>1, SameMesh DEF OwnedOK
  <2>. QED  BY <1>7 DEF IInv, OwnedOK
<1>10. GhostsOK'
  <2>1. SUFFICES ASSUME NEW d \in Face, ~Wall(d) \/ op # "norm_e", NEW v \in Ghosts(op, d)
                 PROVE  k_field'[v[1]][v[2]] = when[v[1][1]]
    BY <1>1, <1>2, SameMesh DEF GhostsOK, Filled, Current
  <2>2. d \in JoinedDone(D, 6)
    BY <2>1 DEF JoinedDone, Face
  <2>3. \A e \in JoinedDone(D, 6) : \A u \in Ghosts(op, e) : Current(k_field', u)
    BY <1>6 DEF FacesFilled
  <2>. QED  BY <2>1, <2>2, <2>3 DEF Current
<1>11. BufferOK'
  BY <1>1 DEF BufferOK
<1>12. NoGarbage'
  <2>1. Clean(k_field')
    BY <1>6 DEF FacesFilled
  <2>. QED  BY <1>1, <2>1, SameMesh DEF NoGarbage, Clean
<1>. QED  BY <1>8, <1>9, <1>10, <1>11, <1>12 DEF IInv

\* The kernels of the exterior end a routine of two parts.
LEMMA ExteriorReturns ==
  ASSUME IInv, NEW name \in TwoParts, Running(InTwoParts(name), "exterior"), Returns(name),
         UNCHANGED <<domain, buf, k_interp, step>>, Advanced(k_field, k_field', name, OuterOf)
  PROVE  IInv'
<1>1. todo # <<>> /\ Head(todo) = InTwoParts(name) /\ part = "exterior"
  BY DEF Running
<1>2. domain \in Domains /\ name \in Name
  BY RoutineOf DEF IInv, TypeOK
<1>3. Head(todo) # "load_interpolator"
  BY <1>1, RoutineOf DEF Routines
<1>4. HalfDone(k_field, name)
  BY <1>1, HalfDoneBetween
<1>5. \A c \in Component : \A p \in Owned(c) :
        k_field'[c][p] = IF c[1] = name THEN when[name] + 1 ELSE when[c[1]]
  BY <1>2, <1>4, SecondHalf
<1>6. UNCHANGED <<domain, k_interp, step>>
  OBVIOUS
<1>. QED  BY <1>1, <1>2, <1>3, <1>5, <1>6, Returned

\* A routine of one part.
LEMMA RoutineReturns ==
  ASSUME IInv, NEW name \in Name, NEW call, call # "load_interpolator", Running(call, "start"), Returns(name),
         UNCHANGED <<domain, buf, k_interp, step>>, Advanced(k_field, k_field', name, AllOf)
  PROVE  IInv'
<1>1. todo # <<>> /\ Head(todo) = call /\ part = "start"
  BY DEF Running
<1>2. domain \in Domains
  BY DEF IInv, TypeOK
<1>3. AllCurrent(k_field)
  BY <1>1, CurrentAtFirst
<1>4. \A c \in Component : \A p \in Owned(c) :
        k_field'[c][p] = IF c[1] = name THEN when[name] + 1 ELSE when[c[1]]
  BY <1>2, <1>3, WholeUpdate
<1>5. UNCHANGED <<domain, k_interp, step>>
  OBVIOUS
<1>. QED  BY <1>1, <1>4, <1>5, Returned

LEMMA TwoPartsAre ==
  /\ "e" \in TwoParts /\ InTwoParts("e") = "advance_e" /\ GhostsOf("advance_e") = "tang_b"
  /\ "div_e_err" \in TwoParts /\ InTwoParts("div_e_err") = "compute_div_e_err"
  /\ GhostsOf("compute_div_e_err") = "norm_e"
  /\ "cb" \in TwoParts /\ InTwoParts("cb") = "clean_div_b" /\ GhostsOf("clean_div_b") = "div_b"
  /\ "advance_e" \in Routines /\ "compute_div_e_err" \in Routines /\ "clean_div_b" \in Routines
BY DEF TwoParts, InTwoParts, GhostsOf, Routines

\* load_interpolator_array reads the fields of the step, all of them current.
LEMMA LoadInterpolatorStep ==
  ASSUME IInv, LoadInterpolator
  PROVE  IInv'
<1>1. /\ todo # <<>> /\ Head(todo) = "load_interpolator" /\ part = "start"
      /\ todo' = Tail(todo) /\ domain' = domain /\ k_field' = k_field /\ when' = when
      /\ buf' = buf /\ part' = part /\ step' = step
      /\ k_interp' = [p \in DOMAIN k_interp |->
           IF \A v \in InterpolatorReads(p) : Current(k_field, v) THEN step ELSE Garbage]
  BY DEF LoadInterpolator, Running
<1>2. domain \in Domains /\ DOMAIN k_interp = Box3(0, 1 .. n[0], 1 .. n[1], 1 .. n[2])
  BY DEF IInv, TypeOK
<1>3. AllCurrent(k_field)
  BY <1>1, CurrentAtFirst
<1>4. ASSUME NEW p \in DOMAIN k_interp, NEW v \in InterpolatorReads(p) PROVE Current(k_field, v)
  <2>1. v[1] \in Component /\ v[2] \in Owned(v[1])
    BY <1>2, <1>4, InterpolatorReadsOwned
  <2>. QED  BY <1>3, <2>1 DEF AllCurrent, Current
<1>5. DOMAIN k_interp' = DOMAIN k_interp /\ \A p \in DOMAIN k_interp' : k_interp'[p] = step
  BY <1>1, <1>4
<1>6. TypeOK'
  <2>1. DOMAIN k_interp' = Box3(0, 1 .. n[0], 1 .. n[1], 1 .. n[2])'
    BY <1>1, <1>2, <1>5, SameMesh DEF Box3
  <2>2. k_field' \in Fields'
    BY <1>1, SameMesh DEF IInv, TypeOK
  <2>3. domain' \in Domains /\ step' \in Nat /\ when' \in [Name -> Nat]
    BY <1>1 DEF IInv, TypeOK
  <2>. QED  BY <2>1, <2>2, <2>3 DEF TypeOK
<1>7. TodoOK'
  BY <1>1, CallOver DEF IInv, TodoOK
<1>8. OwnedOK'
  <2>1. \A m : ~Between(m)'
    BY <1>1 DEF Between
  <2>2. SUFFICES ASSUME NEW c \in Component, NEW p \in Owned(c) PROVE k_field[c][p] = when[c[1]]
    BY <1>1, <2>1, SameMesh DEF OwnedOK
  <2>. QED  BY <1>3 DEF AllCurrent
<1>9. GhostsOK' /\ BufferOK'
  <2>1. \A d : ~Filled(d)'
    BY <1>1 DEF Filled
  <2>. QED  BY <1>1, <2>1 DEF GhostsOK, BufferOK
<1>10. NoGarbage'
  <2>1. Clean(k_field)
    BY DEF IInv, NoGarbage
  <2>. QED  BY <1>1, <2>1, SameMesh DEF NoGarbage, Clean
<1>11. InterpolatorCurrent'
  BY <1>1, <1>5 DEF InterpolatorCurrent
<1>. QED  BY <1>6, <1>7, <1>8, <1>9, <1>10, <1>11 DEF IInv

LEMMA BeginStepStep ==
  ASSUME IInv, BeginStep
  PROVE  IInv'
<1>1. PICK cleanE \in BOOLEAN, cleanB \in BOOLEAN : todo' = Calls(cleanE, cleanB)
  BY DEF BeginStep
<1>2. /\ todo = <<>> /\ step' = step + 1
      /\ domain' = domain /\ k_field' = k_field /\ when' = when
      /\ buf' = buf /\ k_interp' = k_interp /\ part' = part
  BY DEF BeginStep
<1>3. part = "start"
  BY <1>2 DEF IInv, TodoOK
<1>4. AllCurrent(k_field)
  BY <1>3, CurrentAtFirst
<1>5. TypeOK'
  <2>1. DOMAIN k_interp' = Box3(0, 1 .. n[0], 1 .. n[1], 1 .. n[2])'
    BY <1>2, SameMesh DEF IInv, TypeOK, Box3
  <2>2. k_field' \in Fields'
    BY <1>2, SameMesh DEF IInv, TypeOK
  <2>3. domain' \in Domains /\ step' \in Nat /\ when' \in [Name -> Nat]
    BY <1>2 DEF IInv, TypeOK
  <2>. QED  BY <2>1, <2>2, <2>3 DEF TypeOK
<1>6. TodoOK' /\ todo' # <<>>
  BY <1>1, <1>2, <1>3, CallsAre DEF TodoOK
<1>7. OwnedOK'
  <2>1. \A m : ~Between(m)'
    BY <1>2, <1>3 DEF Between
  <2>2. SUFFICES ASSUME NEW c \in Component, NEW p \in Owned(c) PROVE k_field[c][p] = when[c[1]]
    BY <1>2, <2>1, SameMesh DEF OwnedOK
  <2>. QED  BY <1>4 DEF AllCurrent
<1>8. GhostsOK' /\ BufferOK'
  <2>1. \A d : ~Filled(d)'
    BY <1>2, <1>3 DEF Filled
  <2>. QED  BY <1>2, <1>3, <2>1 DEF GhostsOK, BufferOK
<1>9. NoGarbage'
  <2>1. Clean(k_field)
    BY DEF IInv, NoGarbage
  <2>. QED  BY <1>2, <2>1, SameMesh DEF NoGarbage, Clean
<1>10. InterpolatorCurrent'
  BY <1>6 DEF InterpolatorCurrent
<1>. QED  BY <1>5, <1>6, <1>7, <1>8, <1>9, <1>10 DEF IInv

LEMMA InitIInv == Init => IInv
<1> SUFFICES ASSUME Init PROVE IInv
  OBVIOUS
<1>1. /\ domain \in Domains /\ todo = <<>> /\ part = "start" /\ step = 0
      /\ k_field = [c \in Component |-> [p \in Voxel |-> 0]]
      /\ k_interp = [p \in Box3(0, 1 .. n[0], 1 .. n[1], 1 .. n[2]) |-> 0]
  BY DEF Init
<1>2. when = [name \in Name |-> 0]
  BY DEF Init, Name
<1>3. TypeOK
  <2>1. k_field \in Fields
    BY <1>1 DEF Fields
  <2>2. when \in [Name -> Nat]
    BY <1>2
  <2>. QED  BY <1>1, <2>1, <2>2 DEF TypeOK
<1>4. TodoOK
  BY <1>1, EmptySeq DEF TodoOK
<1>5. OwnedOK
  <2>1. \A m : ~Between(m)
    BY <1>1 DEF Between
  <2>2. SUFFICES ASSUME NEW c \in Component, NEW p \in Owned(c) PROVE k_field[c][p] = when[c[1]]
    BY <2>1 DEF OwnedOK
  <2>3. p \in Voxel /\ c[1] \in Name
    BY Components DEF Owned
  <2>. QED  BY <1>1, <1>2, <2>3
<1>6. GhostsOK /\ BufferOK
  <2>1. \A d : ~Filled(d)
    BY <1>1 DEF Filled
  <2>. QED  BY <1>1, <2>1 DEF GhostsOK, BufferOK
<1>7. NoGarbage
  <2>1. SUFFICES ASSUME NEW d \in Face, NEW v \in Ghosts("tang_b", d) PROVE k_field[v[1]][v[2]] # Garbage
    BY DEF NoGarbage, Clean
  <2>2. v[1] \in Component /\ v[2] \in Voxel
    BY <1>1, GhostsAre DEF GhostOps
  <2>. QED  BY <1>1, <2>2 DEF Garbage
<1>8. InterpolatorCurrent
  BY <1>1 DEF InterpolatorCurrent
<1>. QED  BY <1>3, <1>4, <1>5, <1>6, <1>7, <1>8 DEF IInv

\* One case for each action.
LEMMA NextIInv == IInv /\ [Next]_vars => IInv'
<1> SUFFICES ASSUME IInv, [Next]_vars PROVE IInv'
  OBVIOUS
<1>1. domain \in Domains /\ when \in [Name -> Nat] /\ k_field \in Fields /\ TodoOK
  BY DEF IInv, TypeOK
<1>2. part \in {"start", "interior"} => AllCurrent(k_field)
  BY CurrentAtFirst
<1>3. CASE BeginStep
  BY <1>3, BeginStepStep
<1>4. CASE AdvanceB
  <2>1. Running("advance_b", "start") /\ Returns("cb") /\ UNCHANGED <<domain, buf, k_interp, step>>
    BY <1>4 DEF AdvanceB
  <2>2. Advanced(k_field, k_field', "cb", AllOf)
    BY <1>1, <1>2, <1>4, <2>1, AdvanceBUpdates DEF AdvanceB, Running
  <2>. QED  BY <2>1, <2>2, RoutineReturns DEF Name
<1>5. CASE BeginGhosts("advance_e", "tang_b")
  BY <1>5, BeginGhostsStep, TwoPartsAre
<1>6. CASE AdvanceEInterior
  <2>1. Running("advance_e", "interior") /\ Continues("ghosts") /\ UNCHANGED <<domain, buf, k_interp, step>>
    BY <1>6 DEF AdvanceEInterior
  <2>2. Advanced(k_field, k_field', "e", InnerOf)
    BY <1>1, <1>2, <1>6, <2>1, AdvanceEInteriorUpdates DEF AdvanceEInterior, Running
  <2>. QED  BY <2>1, <2>2, InteriorStep, TwoPartsAre
<1>7. CASE EndGhosts("advance_e", "tang_b")
  BY <1>7, EndGhostsStep, TwoPartsAre
<1>8. CASE AdvanceEExterior
  <2>1. Running("advance_e", "exterior") /\ Returns("e") /\ UNCHANGED <<domain, buf, k_interp, step>>
    BY <1>8 DEF AdvanceEExterior
  <2>2. todo # <<>> /\ Head(todo) = "advance_e" /\ part = "exterior" /\ GhostOp = "tang_b"
    BY <2>1, TwoPartsAre DEF Running, GhostOp
  <2>3. HalfDone(k_field, "e")
    BY <2>2, HalfDoneBetween, TwoPartsAre
  <2>4. \A d \in Face : \A v \in Ghosts("tang_b", d) : Current(k_field, v)
    BY <2>2, GhostsFilled
  <2>5. Advanced(k_field, k_field', "e", OuterOf)
    BY <1>1, <1>8, <2>3, <2>4, AdvanceEExteriorUpdates DEF AdvanceEExterior
  <2>. QED  BY <2>1, <2>5, ExteriorReturns, TwoPartsAre
<1>9. CASE BeginGhosts("compute_div_e_err", "norm_e")
  BY <1>9, BeginGhostsStep, TwoPartsAre
<1>10. CASE DivEInterior
  <2>1. Running("compute_div_e_err", "interior") /\ Continues("ghosts") /\ UNCHANGED <<domain, buf, k_interp, step>>
    BY <1>10 DEF DivEInterior
  <2>2. Advanced(k_field, k_field', "div_e_err", InnerOf)
    BY <1>1, <1>2, <1>10, <2>1, DivEInteriorUpdates DEF DivEInterior, Running
  <2>. QED  BY <2>1, <2>2, InteriorStep, TwoPartsAre
<1>11. CASE EndGhosts("compute_div_e_err", "norm_e")
  BY <1>11, EndGhostsStep, TwoPartsAre
<1>12. CASE DivEExterior
  <2>1. Running("compute_div_e_err", "exterior") /\ Returns("div_e_err") /\ UNCHANGED <<domain, buf, k_interp, step>>
    BY <1>12 DEF DivEExterior
  <2>2. todo # <<>> /\ Head(todo) = "compute_div_e_err" /\ part = "exterior" /\ GhostOp = "norm_e"
    BY <2>1, TwoPartsAre DEF Running, GhostOp
  <2>3. HalfDone(k_field, "div_e_err")
    BY <2>2, HalfDoneBetween, TwoPartsAre
  <2>4. \A d \in Face : ~Wall(d) => \A v \in Ghosts("norm_e", d) : Current(k_field, v)
    BY <2>2, GhostsFilled
  <2>5. Advanced(k_field, k_field', "div_e_err", OuterOf)
    BY <1>1, <1>12, <2>3, <2>4, DivEExteriorUpdates DEF DivEExterior
  <2>. QED  BY <2>1, <2>5, ExteriorReturns, TwoPartsAre
<1>13. CASE CleanDivE
  <2>1. Running("clean_div_e", "start") /\ Returns("e") /\ UNCHANGED <<domain, buf, k_interp, step>>
    BY <1>13 DEF CleanDivE
  <2>2. Advanced(k_field, k_field', "e", AllOf)
    BY <1>1, <1>2, <1>13, <2>1, CleanDivEUpdates DEF CleanDivE, Running
  <2>. QED  BY <2>1, <2>2, RoutineReturns DEF Name
<1>14. CASE ComputeDivB
  <2>1. Running("compute_div_b_err", "start") /\ Returns("div_b_err") /\ UNCHANGED <<domain, buf, k_interp, step>>
    BY <1>14 DEF ComputeDivB
  <2>2. Advanced(k_field, k_field', "div_b_err", AllOf)
    BY <1>1, <1>2, <1>14, <2>1, DivBUpdates DEF ComputeDivB, Running
  <2>. QED  BY <2>1, <2>2, RoutineReturns DEF Name
<1>15. CASE BeginGhosts("clean_div_b", "div_b")
  BY <1>15, BeginGhostsStep, TwoPartsAre
<1>16. CASE CleanDivBInterior
  <2>1. Running("clean_div_b", "interior") /\ Continues("ghosts") /\ UNCHANGED <<domain, buf, k_interp, step>>
    BY <1>16 DEF CleanDivBInterior
  <2>2. Advanced(k_field, k_field', "cb", InnerOf)
    BY <1>1, <1>2, <1>16, <2>1, CleanDivBInteriorUpdates DEF CleanDivBInterior, Running
  <2>. QED  BY <2>1, <2>2, InteriorStep, TwoPartsAre
<1>17. CASE EndGhosts("clean_div_b", "div_b")
  BY <1>17, EndGhostsStep, TwoPartsAre
<1>18. CASE CleanDivBExterior
  <2>1. Running("clean_div_b", "exterior") /\ Returns("cb") /\ UNCHANGED <<domain, buf, k_interp, step>>
    BY <1>18 DEF CleanDivBExterior
  <2>2. todo # <<>> /\ Head(todo) = "clean_div_b" /\ part = "exterior" /\ GhostOp = "div_b"
    BY <2>1, TwoPartsAre DEF Running, GhostOp
  <2>3. HalfDone(k_field, "cb")
    BY <2>2, HalfDoneBetween, TwoPartsAre
  <2>4. \A d \in Face : \A v \in Ghosts("div_b", d) : Current(k_field, v)
    BY <2>2, GhostsFilled
  <2>5. Advanced(k_field, k_field', "cb", OuterOf)
    BY <1>1, <1>18, <2>3, <2>4, CleanDivBExteriorUpdates DEF CleanDivBExterior
  <2>. QED  BY <2>1, <2>5, ExteriorReturns, TwoPartsAre
<1>19. CASE LoadInterpolator
  BY <1>19, LoadInterpolatorStep
<1>20. CASE UNCHANGED vars
  <2>1. /\ domain' = domain /\ k_field' = k_field /\ when' = when /\ buf' = buf
        /\ k_interp' = k_interp /\ todo' = todo /\ part' = part /\ step' = step
    BY <1>20 DEF vars
  <2>2. TypeOK'
    BY <2>1, SameMesh DEF IInv, TypeOK, Box3
  <2>3. OwnedOK'
    BY <2>1, SameMesh DEF IInv, OwnedOK, Between
  <2>4. GhostsOK'
    BY <2>1, SameMesh DEF IInv, GhostsOK, Filled, GhostOp, Current
  <2>5. BufferOK'
    BY <2>1, SameMesh DEF IInv, BufferOK, BufferHas, GhostOp
  <2>6. NoGarbage' /\ TodoOK' /\ InterpolatorCurrent'
    BY <2>1, SameMesh DEF IInv, NoGarbage, Clean, TodoOK, InterpolatorCurrent
  <2>. QED  BY <2>2, <2>3, <2>4, <2>5, <2>6 DEF IInv
<1>. QED
  BY <1>3, <1>4, <1>5, <1>6, <1>7, <1>8, <1>9, <1>10, <1>11, <1>12, <1>13, <1>14, <1>15, <1>16, <1>17,
     <1>18, <1>19, <1>20 DEF Next, Stop

\* At any moment of a step the kernels that have run have updated their values
\* once and the others have not been touched, and the ghosts and the packed
\* planes a routine has asked for are current (the kernels of advance_b.cc,
\* advance_e.cc, compute_div_e_err.cc, clean_div_e.cc, compute_div_b_err.cc and
\* clean_div_b.cc, and remote.cc and local.cc).
THEOREM FieldsInvariant == Spec => []IInv
BY InitIInv, NextIInv, PTL DEF Spec

\* Whatever the size of the domain and its walls, when a routine of the field
\* solver returns every value of e and cb has had each update exactly once.
THEOREM FieldsAlwaysInStep == Spec => []FieldsInStep
<1>1. IInv => FieldsInStep
  <2>1. SUFFICES ASSUME IInv, part = "start", NEW c \in {"e", "cb"} \X Axis, NEW p \in Owned(c)
                 PROVE  Current(k_field, <<c, p>>)
    BY DEF FieldsInStep
  <2>2. AllCurrent(k_field)
    BY <2>1, CurrentAtFirst
  <2>3. c \in Component
    BY DEF Component
  <2>4. k_field[c][p] = when[c[1]]
    BY <2>2, <2>3 DEF AllCurrent
  <2>. QED  BY <2>4 DEF Current
<1>. QED  BY <1>1, FieldsInvariant, PTL

\* The divergence errors a cleaning pass uses are those of its own round, at the
\* faces, edges and corners too, for any number of rounds.
THEOREM ErrorsAlwaysInStep == Spec => []ErrorsInStep
<1>1. IInv => ErrorsInStep
  <2>1. SUFFICES ASSUME IInv, part = "start", NEW c \in {DivE, DivB}, NEW p \in Owned(c)
                 PROVE  Current(k_field, <<c, p>>)
    BY DEF ErrorsInStep
  <2>2. AllCurrent(k_field)
    BY <2>1, CurrentAtFirst
  <2>3. c \in Component
    BY DEF Component
  <2>4. k_field[c][p] = when[c[1]]
    BY <2>2, <2>3 DEF AllCurrent
  <2>. QED  BY <2>4 DEF Current
<1>. QED  BY <1>1, FieldsInvariant, PTL

\* load_interpolator_array always leaves interpolators of the step's own fields,
\* in every cell.
THEOREM InterpolatorAlwaysCurrent == Spec => []InterpolatorCurrent
<1>1. IInv => InterpolatorCurrent
  BY DEF IInv
<1>. QED  BY <1>1, FieldsInvariant, PTL
=============================================================================
