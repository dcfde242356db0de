-------------------------- MODULE MCInterpolation --------------------------
(* Every length up to three past the last threshold; the constant and the  *)
(* highest monomial, which need the lowest and every coefficient; the      *)
(* first, a middle and the last node, and the points after them.           *)
EXTENDS Interpolation

MCLengths == 1 .. 36
MCExponents(length) == {0, length - 1}
MCPoints(length) ==
  {0, length \div 2, length - 1} \cup {FromInt(length), 38, P - 1}
=============================================================================
