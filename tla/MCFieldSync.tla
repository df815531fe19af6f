---------------------------- MODULE MCFieldSync -----------------------------
(***************************************************************************)
(* Small input decks for FieldSync.                                        *)
(***************************************************************************)
EXTENDS FieldSync

Triple(x, y, z) == [a \in Axis |-> IF a = 0 THEN x ELSE IF a = 1 THEN y ELSE z]
Deck(cells, domains, kinds) == [gn |-> cells, gp |-> domains, box |-> kinds]
All(kind) == Triple(kind, kind, kind)

\* Two ranks in a row along each axis, domains of one and two cells across, boxes
\* with every kind of wall, and two decks that are refused.
TwoRankDecks == {
  Deck(Triple(2, 2, 2), Triple(2, 1, 1), Triple("periodic", "periodic", "absorbing")),
  Deck(Triple(4, 1, 2), Triple(2, 1, 1), All("absorbing")),
  Deck(Triple(2, 4, 2), Triple(1, 2, 1), All("metal")),
  Deck(Triple(2, 1, 4), Triple(1, 1, 2), Triple("metal", "absorbing", "periodic")),
  Deck(Triple(2, 2, 1), Triple(2, 2, 1), All("periodic")),
  Deck(Triple(3, 2, 2), Triple(2, 1, 1), All("metal"))}
=============================================================================
