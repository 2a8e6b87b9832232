---------------------------- MODULE MC_ConvLayer ----------------------------
(***************************************************************************)
(* TLC instance of ConvLayer with symbolic arithmetic: a pixel and a       *)
(* weight are their own places, a product is the pair of its factors and a *)
(* sum the sequence of what was added, so that one wrong index, one tap    *)
(* too many or two in another order make another result.                   *)
(***************************************************************************)
EXTENDS ConvLayer, Sequences

MCPicture == [p \in (0 .. Side * Kern - 1) \X (0 .. Side * Kern - 1) |-> p]
MCWeight  == [t \in Taps |-> t]

NoTerms == <<>>
BiasTerm == << <<"bias">> >>
Product(a, w) == << <<a, w>> >>
Concat(x, y) == x \o y

\* Some totals are negative: those of every third diagonal of windows.
SomeNegative(v) == v # NoTerms /\ (v[1][1][1] + v[1][1][2]) % 3 = 1

=============================================================================
