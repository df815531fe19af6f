----------------------------- MODULE FieldStep ------------------------------
(***************************************************************************)
(* The field solver of a time step on one domain: advance_b, advance_e,    *)
(* advance_b, the rounds of the two divergence cleanings and               *)
(* load_interpolator_array, on the device fields.                          *)
(*                                                                         *)
(* Each routine covers a component of the mesh by several kernels: the     *)
(* interior, what is left over of it, and the exterior, which has to wait  *)
(* for the ghosts.  Each value must be updated exactly once, from values   *)
(* that are all up to date.  A value is therefore the number of the update *)
(* that made it, and Garbage when an update was repeated or has read a     *)
(* value that was not current.                                             *)
(*                                                                         *)
(* A joined face has the domain itself behind it, as in a periodic box of  *)
(* one domain; FieldSync has the exchange between ranks.                   *)
(***************************************************************************)
EXTENDS Partition, Sequences, FiniteSets

CONSTANTS
  Domains,       \* the domains looked at: nx, ny, nz and bc of the six faces
  NumDivERound,  \* num_div_e_round
  NumDivBRound,  \* num_div_b_round
  MaxLength,     \* bound: cells of a domain along an axis
  MaxStep        \* bound: time steps

ASSUME DomainAssumption ==
  Domains \subseteq
    {d \in [n : [Axis -> 1 .. MaxLength], bc : [Face -> Rank \cup {AntiSymmetric, AbsorbFields}]] :
       \A f \in Face : d.bc[f] \in Rank <=> d.bc[Opposite(f)] \in Rank}
ASSUME RoundAssumption == NumDivERound \in Nat /\ NumDivBRound \in Nat
ASSUME BoundAssumption == MaxLength \in Nat /\ MaxStep \in Nat

VARIABLES
  domain,        \* g->nx, ny, nz and g->bc
  k_field,       \* k_field[c][p]: component c of the fields at voxel p
  when,          \* when[name]: the updates of the components of that name so far
  buf,           \* buf[f]: the plane packed for the domain behind face f, or NULL
  k_interp,      \* k_interp[p]: the step whose fields the interpolator of p is of
  todo,          \* the calls that are left of the step
  part,          \* how far the first of them is
  step           \* step()

vars == <<domain, k_field, when, buf, k_interp, todo, part, step>>

Garbage == -1
NULL == <<>>
n == domain.n
-----------------------------------------------------------------------------
\* The mesh.  Loops are written for axis X with the other two in cyclic order.
Y(X) == (X + 1) % 3
Z(X) == (X + 2) % 3

Voxel == {p \in [Axis -> 0 .. MaxLength + 1] : \A a \in Axis : p[a] <= n[a] + 1}
Box3(X, xs, ys, zs) == {p \in Voxel : p[X] \in xs /\ p[Y(X)] \in ys /\ p[Z(X)] \in zs}
Shift(p, a, k) == [p EXCEPT ![a] = @ + k]

DivE == <<"div_e_err", 0>>
DivB == <<"div_b_err", 0>>
Component == {"e", "cb"} \X Axis \cup {DivE, DivB}

\* The values of a component the domain has, ghosts apart.
Owned(c) ==
  {p \in Voxel : \A a \in Axis :
     p[a] \in 1 .. (IF \/ c[1] = "e" /\ a # c[2]
                       \/ c[1] = "cb" /\ a = c[2]
                       \/ c[1] = "div_e_err" THEN n[a] + 1 ELSE n[a])}

\* The loops of each routine: the sets of voxels one kernel after the other updates.
AdvanceBLoops(X) ==
  << Box3(X, 1 .. n[X], 1 .. n[Y(X)], 1 .. n[Z(X)]),
     Box3(X, {n[X] + 1}, 1 .. n[Y(X)], 1 .. n[Z(X)]) >>

InteriorLoopsFromOne(X) ==
  << Box3(X, 2 .. n[X], 1 .. n[Y(X)], 2 .. n[Z(X)]),
     Box3(X, {1}, 2 .. n[Y(X)], 2 .. n[Z(X)]) >>
InteriorLoops(X) ==
  << Box3(X, 2 .. n[X], 2 .. n[Y(X)], 2 .. n[Z(X)]),
     Box3(X, {1}, 2 .. n[Y(X)], 2 .. n[Z(X)]) >>
ExteriorLoops(X) ==
  << Box3(X, 1 .. n[X], 1 .. n[Y(X)] + 1, {1}),
     Box3(X, 1 .. n[X], 1 .. n[Y(X)] + 1, {n[Z(X)] + 1}),
     Box3(X, 1 .. n[X], {1}, 2 .. n[Z(X)]),
     Box3(X, 1 .. n[X], {n[Y(X)] + 1}, 2 .. n[Z(X)]) >>

DivEInteriorLoops == << Box3(0, 2 .. n[0], 2 .. n[1], 2 .. n[2]) >>
DivEExteriorLoopsNoFaces ==
  << Box3(0, 1 .. n[0] + 1, 1 .. n[1] + 1, {1}),
     Box3(0, 1 .. n[0] + 1, 1 .. n[1] + 1, {n[2] + 1}),
     Box3(0, 1 .. n[0] + 1, {1}, 2 .. n[2]),
     Box3(0, 1 .. n[0] + 1, {n[1] + 1}, 2 .. n[2]) >>
DivEExteriorLoops ==
  << Box3(0, 1 .. n[0] + 1, 1 .. n[1] + 1, {1}),
     Box3(0, 1 .. n[0] + 1, 1 .. n[1] + 1, {n[2] + 1}),
     Box3(0, 1 .. n[0] + 1, {1}, 2 .. n[2]),
     Box3(0, 1 .. n[0] + 1, {n[1] + 1}, 2 .. n[2]),
     Box3(0, {1, n[0] + 1}, 2 .. n[1], 2 .. n[2]) >>

CleanDivELoopsNoLeftOver(X) ==
  << Box3(X, 1 .. n[X], 1 .. n[Y(X)], 1 .. n[Z(X)]) >>
CleanDivELoops(X) ==
  << Box3(X, 1 .. n[X], 1 .. n[Y(X)], 1 .. n[Z(X)]),
     Box3(X, 1 .. n[X], 1 .. n[Y(X)] + 1, {n[Z(X)] + 1}),
     Box3(X, 1 .. n[X], {n[Y(X)] + 1}, 1 .. n[Z(X)]) >>

DivBLoops == << Box3(0, 1 .. n[0], 1 .. n[1], 1 .. n[2]) >>
CleanDivBInteriorLoops(X) ==
  << Box3(X, 2 .. n[X], 2 .. n[Y(X)], 2 .. n[Z(X)]),
     Box3(X, 2 .. n[X], 1 .. n[Y(X)], {1}),
     Box3(X, 2 .. n[X], {1}, 2 .. n[Z(X)]) >>
CleanDivBExteriorLoops(X) ==
  << Box3(X, {1, n[X] + 1}, 1 .. n[Y(X)], 1 .. n[Z(X)]) >>

\* The stencils: the values an update at p reads.
AdvanceBReads(X, p) ==
  {<<"e", Z(X)>>} \X {p, Shift(p, Y(X), 1)} \cup {<<"e", Y(X)>>} \X {p, Shift(p, Z(X), 1)}
AdvanceEReads(X, p) ==
  {<<"cb", Z(X)>>} \X {p, Shift(p, Y(X), -1)} \cup {<<"cb", Y(X)>>} \X {p, Shift(p, Z(X), -1)}
DivEReads == [p \in Voxel |-> UNION {{<<"e", a>>} \X {p, Shift(p, a, -1)} : a \in Axis}]
DivBReads == [p \in Voxel |-> UNION {{<<"cb", a>>} \X {p, Shift(p, a, 1)} : a \in Axis}]
CleanDivEReads(X, p) == {DivE} \X {p, Shift(p, X, 1)}
CleanDivBReads(X, p) == {DivB} \X {p, Shift(p, X, -1)}
InterpolatorReads(p) ==
  UNION {{<<"e", a>>} \X {p, Shift(p, Y(a), 1), Shift(p, Z(a), 1),
                          Shift(Shift(p, Y(a), 1), Z(a), 1)}
         \cup {<<"cb", a>>} \X {p, Shift(p, a, 1)} : a \in Axis}
-----------------------------------------------------------------------------
Current(f, v) == f[v[1]][v[2]] = when[v[1][1]]

\* Fields f after the loops have updated component c, at p from the values
\* reads[p].  An update in place (+=) needs the value of the update before.
Updated(f, c, loops, reads, inPlace) ==
  [f EXCEPT ![c] = [p \in Voxel |->
     LET visits == Cardinality({i \in DOMAIN loops : p \in loops[i]})
     IN  IF visits = 0 THEN f[c][p]
         ELSE IF /\ \A v \in reads[p] : Current(f, v)
                 /\ inPlace => visits = 1 /\ Current(f, <<c, p>>)
           THEN when[c[1]] + 1
         ELSE Garbage]]

\* The three components of a vector, x before y before z.
UpdatedVector(f, name, loops(_), reads(_, _)) ==
  LET After(h, a) == Updated(h, <<name, a>>, loops(a), [p \in Voxel |-> reads(a, p)], TRUE)
  IN  After(After(After(f, 0), 1), 2)

Wall(f) == domain.bc[f] \notin Rank
Walls == {f \in Face : Wall(f)}
FacePlane(f) == IF IsLow(f) THEN 1 ELSE n[AxisOf(f)] + 1
GhostPlane(f) == IF IsLow(f) THEN 0 ELSE n[AxisOf(f)] + 1
InnerPlane(f) == IF IsLow(f) THEN 1 ELSE n[AxisOf(f)]
In(f, p, plane) == [p EXCEPT ![AxisOf(f)] = plane]

\* f with the values at the places given by value(c, p).
Overwritten(f, places, value(_, _)) ==
  [c \in Component |-> [p \in Voxel |-> IF <<c, p>> \in places THEN value(c, p) ELSE f[c][p]]]
OneAfterTheOther(f, effect(_, _)) ==
  effect(effect(effect(effect(effect(effect(f, 0), 1), 2), 3), 4), 5)

\* k_local_adjust_tang_e clears e along a metal wall; k_local_adjust_div_e
\* clears the error at every wall.
AdjustTangE(f) ==
  LET metal == {w \in Walls : domain.bc[w] = AntiSymmetric}
      places == UNION {{v \in {<<"e", a>> : a \in Axis \ {AxisOf(w)}} \X Voxel :
                          v[2] \in Owned(v[1]) /\ v[2][AxisOf(w)] = FacePlane(w)} : w \in metal}
  IN  Overwritten(f, places, LAMBDA c, p : when["e"] + 1)
AdjustDivE(f) ==
  LET places == {DivE} \X {q \in Owned(DivE) : \E w \in Walls : q[AxisOf(w)] = FacePlane(w)}
  IN  Overwritten(f, places, LAMBDA c, p : when["div_e_err"] + 1)

\* The ghosts of an exchange behind face f: tangential cb, normal e, div_b_err.
GhostComponents(op, X) ==
  CASE op = "tang_b" -> {<<"cb", Y(X)>>, <<"cb", Z(X)>>}
    [] op = "norm_e" -> {<<"e", X>>}
    [] op = "div_b"  -> {DivB}
GhostPlaces(op, f, plane) ==
  {v \in GhostComponents(op, AxisOf(f)) \X Voxel :
     v[2][AxisOf(f)] = plane /\ In(f, v[2], 1) \in Owned(v[1])}

\* k_local_ghost_tang_b, k_local_ghost_norm_e and k_local_ghost_div_b: what a
\* wall puts into the ghosts behind it; at a joined face they do nothing.
AbsorbingTangB(f, w, c, p) ==
  LET X == AxisOf(w)
      other == IF c[2] = Y(X) THEN Z(X) ELSE Y(X)
      inner == In(w, p, InnerPlane(w))
      beside == In(w, p, IF IsLow(w) THEN 2 ELSE n[X])
      reads == {<<c, inner>>, <<<<"e", other>>, In(w, p, FacePlane(w))>>,
                <<<<"e", other>>, beside>>,
                <<<<"e", X>>, inner>>, <<<<"e", X>>, Shift(inner, other, 1)>>}
  IN  IF f[c][p] # Garbage /\ \A v \in reads : Current(f, v) THEN when["cb"] ELSE Garbage
AbsorbingNormE(f, w, c, p) ==
  LET inner == GhostPlane(w) - Direction(w)
      reads == {<<c, In(w, p, inner)>>, <<c, In(w, p, inner - Direction(w))>>}
  IN  IF \A v \in reads : Current(f, v) THEN when["e"] ELSE Garbage
LocalGhost(op, f, w) ==
  Overwritten(f, IF Wall(w) THEN GhostPlaces(op, w, GhostPlane(w)) ELSE {}, LAMBDA c, p :
    IF domain.bc[w] = AntiSymmetric THEN f[c][In(w, p, GhostPlane(w) - Direction(w))]
    ELSE CASE op = "tang_b" -> AbsorbingTangB(f, w, c, p)
           [] op = "norm_e" -> AbsorbingNormE(f, w, c, p)
           [] op = "div_b"  -> when["div_b_err"])
LocalGhosts(op, f) == OneAfterTheOther(f, LAMBDA h, w : LocalGhost(op, h, w))

\* begin_remote_ghost packs the plane next to each joined face; end_remote_ghost
\* unpacks what the domain behind it has packed for the opposite face.
PackedPlanes(op, f) ==
  [d \in Face |-> IF Wall(d) THEN NULL
     ELSE [v \in GhostPlaces(op, d, InnerPlane(d)) |-> f[v[1]][v[2]]]]
Unpacked(op, f, d) ==
  Overwritten(f, IF Wall(d) THEN {} ELSE GhostPlaces(op, d, GhostPlane(d)),
              LAMBDA c, p : buf[Opposite(d)][<<c, In(d, p, InnerPlane(Opposite(d)))>>])
RemoteGhosts(op, f) == OneAfterTheOther(f, LAMBDA h, d : Unpacked(op, h, d))
-----------------------------------------------------------------------------
Rounds(k, calls) == [i \in 1 .. k * Len(calls) |-> calls[((i - 1) % Len(calls)) + 1]]

\* The calls of a step that cleans div e, div b, or not.
Calls(cleanE, cleanB) ==
  <<"advance_b", "advance_e", "advance_b">>
  \o Rounds(IF cleanE THEN NumDivERound ELSE 0, <<"compute_div_e_err", "clean_div_e">>)
  \o Rounds(IF cleanB THEN NumDivBRound ELSE 0, <<"compute_div_b_err", "clean_div_b">>)
  \o <<"load_interpolator">>

Init ==
  /\ domain \in Domains
  /\ k_field = [c \in Component |-> [p \in Voxel |-> 0]]
  /\ when = [name \in {"e", "cb", "div_e_err", "div_b_err"} |-> 0]
  /\ buf = [f \in Face |-> NULL]
  /\ k_interp = [p \in Box3(0, 1 .. n[0], 1 .. n[1], 1 .. n[2]) |-> 0]
  /\ todo = <<>>
  /\ part = "start"
  /\ step = 0

BeginStep ==
  /\ todo = <<>> /\ step < MaxStep
  /\ \E cleanE, cleanB \in BOOLEAN : todo' = Calls(cleanE, cleanB)
  /\ step' = step + 1
  /\ UNCHANGED <<domain, k_field, when, buf, k_interp, part>>

Running(call, p) == todo # <<>> /\ Head(todo) = call /\ part = p

\* The call is over and has made the next update of its components.
Returns(name) ==
  /\ when' = [when EXCEPT ![name] = @ + 1]
  /\ todo' = Tail(todo)
  /\ part' = "start"
Continues(p) == part' = p /\ UNCHANGED <<when, todo>>

\* k_local_adjust_norm_b does nothing at these walls.
AdvanceB ==
  /\ Running("advance_b", "start")
  /\ k_field' = UpdatedVector(k_field, "cb", AdvanceBLoops, AdvanceBReads)
  /\ Returns("cb")
  /\ UNCHANGED <<domain, buf, k_interp, step>>

\* A routine with ghosts begins: begin_remote_ghost and local_ghost.
BeginGhosts(call, op) ==
  /\ Running(call, "start")
  /\ buf' = PackedPlanes(op, k_field)
  /\ k_field' = LocalGhosts(op, k_field)
  /\ Continues("interior")
  /\ UNCHANGED <<domain, k_interp, step>>
\* end_remote_ghost.
EndGhosts(call, op) ==
  /\ Running(call, "ghosts")
  /\ k_field' = RemoteGhosts(op, k_field)
  /\ buf' = [f \in Face |-> NULL]
  /\ Continues("exterior")
  /\ UNCHANGED <<domain, k_interp, step>>

AdvanceEInterior ==
  /\ Running("advance_e", "interior")
  /\ k_field' = UpdatedVector(k_field, "e", InteriorLoops, AdvanceEReads)
  /\ Continues("ghosts")
  /\ UNCHANGED <<domain, buf, k_interp, step>>
AdvanceEExterior ==
  /\ Running("advance_e", "exterior")
  /\ k_field' = AdjustTangE(UpdatedVector(k_field, "e", ExteriorLoops, AdvanceEReads))
  /\ Returns("e")
  /\ UNCHANGED <<domain, buf, k_interp, step>>

DivEInterior ==
  /\ Running("compute_div_e_err", "interior")
  /\ k_field' = Updated(k_field, DivE, DivEInteriorLoops, DivEReads, FALSE)
  /\ Continues("ghosts")
  /\ UNCHANGED <<domain, buf, k_interp, step>>
DivEExterior ==
  /\ Running("compute_div_e_err", "exterior")
  /\ k_field' = AdjustDivE(Updated(k_field, DivE, DivEExteriorLoops, DivEReads, FALSE))
  /\ Returns("div_e_err")
  /\ UNCHANGED <<domain, buf, k_interp, step>>

CleanDivE ==
  /\ Running("clean_div_e", "start")
  /\ k_field' = AdjustTangE(UpdatedVector(k_field, "e", CleanDivELoops, CleanDivEReads))
  /\ Returns("e")
  /\ UNCHANGED <<domain, buf, k_interp, step>>

ComputeDivB ==
  /\ Running("compute_div_b_err", "start")
  /\ k_field' = Updated(k_field, DivB, DivBLoops, DivBReads, FALSE)
  /\ Returns("div_b_err")
  /\ UNCHANGED <<domain, buf, k_interp, step>>

CleanDivBInterior ==
  /\ Running("clean_div_b", "interior")
  /\ k_field' = UpdatedVector(k_field, "cb", CleanDivBInteriorLoops, CleanDivBReads)
  /\ Continues("ghosts")
  /\ UNCHANGED <<domain, buf, k_interp, step>>
CleanDivBExterior ==
  /\ Running("clean_div_b", "exterior")
  /\ k_field' = UpdatedVector(k_field, "cb", CleanDivBExteriorLoops, CleanDivBReads)
  /\ Returns("cb")
  /\ UNCHANGED <<domain, buf, k_interp, step>>

LoadInterpolator ==
  /\ Running("load_interpolator", "start")
  /\ k_interp' = [p \in DOMAIN k_interp |->
       IF \A v \in InterpolatorReads(p) : Current(k_field, v) THEN step ELSE Garbage]
  /\ todo' = Tail(todo)
  /\ UNCHANGED <<domain, k_field, when, buf, part, step>>

Stop == todo = <<>> /\ step = MaxStep /\ UNCHANGED vars

Next ==
  \/ BeginStep
  \/ AdvanceB
  \/ BeginGhosts("advance_e", "tang_b") \/ AdvanceEInterior
  \/ EndGhosts("advance_e", "tang_b") \/ AdvanceEExterior
  \/ BeginGhosts("compute_div_e_err", "norm_e") \/ DivEInterior
  \/ EndGhosts("compute_div_e_err", "norm_e") \/ DivEExterior
  \/ CleanDivE
  \/ ComputeDivB
  \/ BeginGhosts("clean_div_b", "div_b") \/ CleanDivBInterior
  \/ EndGhosts("clean_div_b", "div_b") \/ CleanDivBExterior
  \/ LoadInterpolator
  \/ Stop

Spec == Init /\ [][Next]_vars
-----------------------------------------------------------------------------
\* When a routine has returned, every value of e and cb the domain has, whatever
\* its walls and however thin it is, has had every update exactly once, from
\* current values: the kernels of a routine cover it without gap or overlap and
\* none of them runs before the ghosts it reads.
FieldsInStep ==
  part = "start" => \A c \in {"e", "cb"} \X Axis : \A p \in Owned(c) : Current(k_field, <<c, p>>)

\* When a divergence error is used, by a cleaning pass or for the rms, it is that
\* of this round at every node or cell, the faces, edges and corners included.
ErrorsInStep ==
  part = "start" =>
    \A c \in {DivE, DivB} : \A p \in Owned(c) : Current(k_field, <<c, p>>)

\* Between two steps the interpolators the particles are pushed with are those of
\* the fields of the last step, in every cell.
InterpolatorCurrent == todo = <<>> => \A p \in DOMAIN k_interp : k_interp[p] = step
=============================================================================
