----------------------------- MODULE MC_Network -----------------------------
(***************************************************************************)
(* TLC instance of Network: small whole numbers for the values.  The best  *)
(* class is the one next to the mean modulo the classes, so that a value   *)
(* that is left out, taken twice or of another pass gives another class.   *)
(* One of the windows of conv_2 has a negative sum, which the rectifier    *)
(* makes zero; without it the class would be another one.                  *)
(* The scores of one of the two pictures are all negative.                 *)
(***************************************************************************)
EXTENDS Network

MCPictures == {2, 5}
MCConv1(p, n) == p * (((n * n) % 7) + 1)
MCTap2(p, v, t) == v * <<1, -2, 3, -1>>[t + 1]
NoNegative(x) == IF x < 0 THEN 0 ELSE x
Plus(x, y) == x + y
By4(x) == x \div 4

\* A word of four mantissa bits.
WordOf(v) == LET a == IF v < 0 THEN -v ELSE v
             IN  [sign |-> IF v < 0 THEN 1 ELSE 0, exp |-> a \div 16, man |-> a % 16]
MCAffine(p, x, n) == WordOf(7 * ((n - x) % Classes) - (IF p = 5 THEN 100 ELSE 0))
=============================================================================
