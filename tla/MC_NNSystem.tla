---------------------------- MODULE MC_NNSystem ----------------------------
(***************************************************************************)
(* TLC instances of NNSystem.  The memories are a few words, a word is 0   *)
(* or 1, and the answer is the parity of all the words, so that a single   *)
(* wrong word, wherever it is, changes it.                                 *)
(***************************************************************************)
EXTENDS NNSystemInv, FiniteSets

MCData == {0, 1}
MCAnswers == {0, 1}
MCPredict(m) == Cardinality({c \in Cells : m[c] = 1}) % 2

\* The one strip that is the whole image, and uninitialised rows for which
\* the load runs into it, out of it, or past it.
MCStrips == {0}
MCUninit == {-1, 1, 2}
NoUninit == {}

=============================================================================
