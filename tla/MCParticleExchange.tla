------------------------ MODULE MCParticleExchange -------------------------
(***************************************************************************)
(* Small domain decompositions for ParticleExchange.  bc is written as a   *)
(* function from ranks to functions from faces.                            *)
(***************************************************************************)
EXTENDS ParticleExchange, TLC

CONSTANTS p1, p2

OneParticle == {p1}
TwoParticles == {p1, p2}

\* Two ranks periodic in x; in y the low wall absorbs and the high wall is a
\* custom particle boundary.  Faces: 0 = -x, 1 = -y, 2 = +x, 3 = +y.
Slab2 == [r \in 0..1 |-> [f \in 0..3 |->
            CASE f \in {0, 2} -> 1 - r
              [] f = 1 -> Absorb
              [] f = 3 -> Custom]]

\* Four ranks, two by two, rank = x + 2y; the walls reflect, but for the upper
\* one, which absorbs.
Quad == [r \in 0..3 |-> [f \in 0..3 |->
           CASE f = 0 -> IF r % 2 = 1 THEN r - 1 ELSE Reflect
             [] f = 2 -> IF r % 2 = 0 THEN r + 1 ELSE Reflect
             [] f = 1 -> IF r >= 2 THEN r - 2 ELSE Reflect
             [] f = 3 -> IF r < 2 THEN r + 2 ELSE Absorb]]

\* Every particle starts in rank 0, from where a step can take it round a corner.
CornerInit == Init /\ parts[0] = Particle
CornerSpec == CornerInit /\ [][Next]_vars /\ Fairness
=============================================================================
