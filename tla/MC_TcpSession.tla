--------------------------- MODULE MC_TcpSession ---------------------------
(***************************************************************************)
(* TLC instance of TcpSession: one client sends weights and a strip and    *)
(* asks, the other sends another strip for the same place of the image and *)
(* asks.  Two numbers in a strip are enough for a first, a last, a missing *)
(* and a cut one.                                                          *)
(***************************************************************************)
EXTENDS TcpSession, SequencesExt

MCScript == [a |-> <<"Conv1", "Image_h0", "Start_Calc">>,
             b |-> <<"Image_h0", "Start_Calc">>]
MCStrips == {"Image_h0", "Image_h1"}
MCNumbers == [k \in Kinds |-> IF k = "Image_h0" THEN 2
                              ELSE IF k \in {"Conv1", "Image_h1"} THEN 1 ELSE 0]

(* A message is a header and its numbers; nothing separates two messages.  *)
MCMessage(kind) == [n \in 1 .. MCNumbers[kind] + 1 |-> [kind |-> kind, n |-> n - 1]]
MCUnits == [c \in DOMAIN MCScript |->
              FlattenSeq([m \in DOMAIN MCScript[c] |-> MCMessage(MCScript[c][m])])]
=============================================================================
