-------------------------- MODULE MCCalculatePoints --------------------------
(***************************************************************************)
(* Small instances of CalculatePoints.                                     *)
(***************************************************************************)
EXTENDS CalculatePoints

SmallSettings == -1..43
AnySide == Sides
Below == {-1}
=============================================================================
