------------------------- MODULE ParticleMigration -------------------------
(***************************************************************************)
(* What the exchange of boundary particles promises to the time step: a    *)
(* particle belongs to one domain at a time, it changes domain only by     *)
(* crossing a face, each crossing takes it exactly one domain further, and *)
(* a particle that was absorbed or dropped never comes back.  Several      *)
(* particles of one domain may cross at once.                              *)
(***************************************************************************)
EXTENDS Integers, FiniteSets

CONSTANTS
  Rank,       \* the MPI ranks, one local domain each
  Face,       \* the faces of a local domain
  Particle,   \* the computational particles
  Beyond,     \* Beyond[r][f]: the rank or the fate on the other side of f
  Fate        \* what ends a particle: absorption, an unknown interaction

VARIABLE at   \* at[p]: the rank that owns p, or the fate that ended it

TypeOK == at \in [Particle -> Rank \cup Fate]

Init == at \in [Particle -> Rank]

\* The particles in the domain of hit, a partial map from particles to
\* faces, leave rank r together.
Cross(r, hit) ==
  /\ \A p \in DOMAIN hit : at[p] = r
  /\ at' = [p \in Particle |->
              IF p \in DOMAIN hit THEN Beyond[r][hit[p]] ELSE at[p]]

Next ==
  \E r \in Rank : \E S \in SUBSET {p \in Particle : at[p] = r} :
    \E hit \in [S -> {f \in Face : Beyond[r][f] \in (Rank \ {r}) \cup Fate}] :
      Cross(r, hit)

Spec == Init /\ [][Next]_at
=============================================================================
