---------------------------- MODULE MCFieldStep -----------------------------
(***************************************************************************)
(* Small domains for FieldStep: one to three cells along an axis, and each *)
(* axis periodic, between metal or between absorbing walls, or every axis  *)
(* between one of each.                                                    *)
(***************************************************************************)
EXTENDS FieldStep

Triple(x, y, z) == [a \in Axis |-> IF a = 0 THEN x ELSE IF a = 1 THEN y ELSE z]
Ends == {<<0, 0>>, <<AntiSymmetric, AntiSymmetric>>, <<AbsorbFields, AbsorbFields>>}
Mixed == <<AntiSymmetric, AbsorbFields>>
Faces(ends) == [f \in Face |-> ends[AxisOf(f) + 1][IF IsLow(f) THEN 1 ELSE 2]]

SmallDomains ==
  {[n |-> len, bc |-> Faces(ends)] :
     len \in {Triple(2, 2, 2), Triple(1, 2, 3)},
     ends \in Ends \X Ends \X Ends \cup {<<Mixed, Mixed, Mixed>>}}
=============================================================================
