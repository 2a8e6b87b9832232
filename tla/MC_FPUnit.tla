----------------------------- MODULE MC_FPUnit -----------------------------
(***************************************************************************)
(* TLC instances of FPUnit: all the words of three exponent and two        *)
(* mantissa bits, or a few of them, and the reset at power-on only, or at  *)
(* any edge.                                                               *)
(***************************************************************************)
EXTENDS FPUnit

AllWords == Word

\* Zero and eight words with sums that cancel or carry and a product,
\* 1.25 * 1.5, that rounds up to the next power of two.
SomeWords == {ZeroWord} \cup [sign : 0 .. 1, exp : {3, 4}, man : {1, 2}]

\* No reset but the one at power-on.
PowerOnSpec == Init /\ [][Next /\ (resetn => resetn')]_vars

=============================================================================
