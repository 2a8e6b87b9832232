------------------------------ MODULE Network -------------------------------
(***************************************************************************)
(* topLevel.sv: conv_1, conv_2, meanMod and linLay in a row, and the       *)
(* register calc_out behind them.  A step is a cycle of the clock: every   *)
(* layer moves on the values its neighbours have before the edge.  A layer *)
(* that waits for a floating-point unit stays where it is for any number   *)
(* of cycles, so nothing below depends on how fast one layer is beside     *)
(* another.                                                                *)
(*                                                                         *)
(* start_cal_in stays up through a calculation: a layer that has handed    *)
(* off starts over, while the layers behind it are still at work on what   *)
(* it handed them.  meanMod and linLay are modelled here; of conv_1 the    *)
(* outputs it assigns one by one, and of conv_2 the taps it reads from     *)
(* them, in the order that ConvLayer shows.                                *)
(***************************************************************************)
EXTENDS Integers

CONSTANTS
    Pictures,          \* contents of the memories during a calculation
    Conv1(_, _),       \* output n of conv_1 (ConvLayer!Convolution)
    Tap2(_, _, _),     \* a value times a weight of conv_2
    Rectified(_),      \* zero for a word with the sign bit up (outAssignerC2)
    Add(_, _), Quarter(_), Zero,
    Affine(_, _, _),   \* a value times a linear weight, plus the bias: a word
    ManSize,           \* 2^23: a word is [sign, exp, man], man below ManSize
    Classes            \* 10

ASSUME ClassAssumption == Classes \in Nat \ {0} /\ ManSize \in Nat \ {0}

VARIABLES
    resetn, startFlag,
    picture,           \* picTest and the weights
    st,                \* nextState of each layer
    initShake, endShake,
    at,                \* operations a layer has done in this pass
    firstOut, secondOut, total, thirdOut, copyIn, fourthOut,
    calc_out

inputs == <<resetn, startFlag, picture>>
data == <<firstOut, secondOut, total, thirdOut, copyIn, fourthOut, calc_out>>
vars == <<inputs, st, initShake, endShake, at, data>>

Layers == 1 .. 4
Class == 0 .. Classes - 1
Word == [sign : 0 .. 1, exp : Nat, man : 0 .. ManSize - 1]
ZeroWord == [sign |-> 0, exp |-> 0, man |-> 0]
States == {"INITWAIT", "INITHAND", "WORK", "ENDWAIT", "CLEANUP"}

\* Operations in a pass: outputs, taps, four sums and a division, classes.
Length == <<16, 16, 5, Classes>>

Init ==
    /\ resetn = FALSE /\ startFlag = FALSE /\ picture \in Pictures
    /\ st = [l \in Layers |-> "INITWAIT"] /\ at = [l \in Layers |-> 0]
    /\ initShake = [l \in Layers |-> FALSE] /\ endShake = [l \in Layers |-> FALSE]
    /\ firstOut = [n \in 0 .. 15 |-> Zero] /\ secondOut = [n \in 0 .. 3 |-> Zero]
    /\ total = Zero /\ thirdOut = Zero /\ copyIn = Zero
    /\ fourthOut = [n \in Class |-> ZeroWord] /\ calc_out = 0

-----------------------------------------------------------------------------
(* The control machine all layers share.  The states of an operation are   *)
(* one state WORK.                                                         *)

\* Seeded fault: the hand-off of meanMod is not wired up.
Asked_Unwired(l) == IF l = 1 THEN startFlag ELSE l < 4 /\ endShake[l - 1]

\* startFlag and readyNext of a layer; nothing drives that of linLay.
Asked(l) == IF l = 1 THEN startFlag ELSE endShake[l - 1]
Taken(l) == l < 4 /\ initShake[l + 1]

\* Seeded fault: ENDWAIT is left without an answer.
NextState_NoWait(l, moves) ==
    CASE st[l] = "INITWAIT" -> IF Asked(l) THEN "INITHAND" ELSE "INITWAIT"
      [] st[l] = "INITHAND" -> "WORK"
      [] st[l] = "WORK"     -> IF l \in moves /\ at[l] + 1 = Length[l]
                               THEN "ENDWAIT" ELSE "WORK"
      [] st[l] = "ENDWAIT"  -> IF l < 4 /\ endShake[l] THEN "CLEANUP" ELSE "ENDWAIT"
      [] st[l] = "CLEANUP"  -> "INITWAIT"

\* The state a layer goes to; "moves" are the layers with a unit that is done.
NextState(l, moves) ==
    CASE st[l] = "INITWAIT" -> IF Asked(l) THEN "INITHAND" ELSE "INITWAIT"
      [] st[l] = "INITHAND" -> "WORK"
      [] st[l] = "WORK"     -> IF l \in moves /\ at[l] + 1 = Length[l]
                               THEN "ENDWAIT" ELSE "WORK"
      [] st[l] = "ENDWAIT"  -> IF Taken(l) THEN "CLEANUP" ELSE "ENDWAIT"
      [] st[l] = "CLEANUP"  -> "INITWAIT"

\* Seeded fault: the indices are not cleared behind a pass.
Control_KeepsPlace(moves) ==
    /\ st' = [l \in Layers |-> NextState(l, moves)]
    /\ initShake' = [l \in Layers |-> st[l] = "INITHAND"]
    /\ endShake' = [l \in Layers |-> st[l] = "ENDWAIT" /\ ~Taken(l)]
    /\ at' = [l \in Layers |-> IF l \in moves THEN at[l] + 1 ELSE at[l]]

Control(moves) ==
    /\ st' = [l \in Layers |-> NextState(l, moves)]
    /\ initShake' = [l \in Layers |-> st[l] = "INITHAND"]
    /\ endShake' = [l \in Layers |-> st[l] = "ENDWAIT" /\ ~Taken(l)]
    /\ at' = [l \in Layers |-> IF l \in moves THEN at[l] + 1
                               ELSE IF st[l] = "CLEANUP" THEN 0 ELSE at[l]]

-----------------------------------------------------------------------------
(* The datapath of each layer *)

FirstLayer(moves) ==
    firstOut' = IF 1 \in moves THEN [firstOut EXCEPT ![at[1]] = Conv1(picture, at[1])]
                ELSE firstOut

\* The place of firstOut behind tap n % 4 of window n \div 4.
Source(n) ==
    LET x == 2 * ((n \div 4) % 2) + (n % 2)
        y == 2 * (n \div 8) + ((n % 4) \div 2)
    IN  x + 4 * y

SecondLayer(moves) ==
    LET n == at[2]
        sum == Add(Tap2(picture, firstOut[Source(n)], n % 4), total)
    IN  IF 2 \in moves
        THEN /\ total' = IF n % 4 = 3 THEN Zero ELSE sum
             /\ secondOut' = IF n % 4 = 3
                             THEN [secondOut EXCEPT ![n \div 4] = Rectified(sum)]
                             ELSE secondOut
        ELSE UNCHANGED <<total, secondOut>>

\* The clean-up leaves outREG: a second pass without a reset starts from the
\* mean of the first one.
MeanLayer(moves) ==
    thirdOut' = IF 3 \notin moves THEN thirdOut
                ELSE IF at[3] < 4 THEN Add(thirdOut, secondOut[at[3]])
                ELSE Quarter(thirdOut)

\* Seeded fault: the input is read live and not copied.
LinearLayer_Live(moves) ==
    /\ UNCHANGED copyIn
    /\ fourthOut' = IF 4 \in moves
                    THEN [fourthOut EXCEPT ![at[4]] = Affine(picture, thirdOut, at[4])]
                    ELSE fourthOut

\* The input is copied at the edge after INITHAND.
LinearLayer(moves) ==
    /\ copyIn' = IF initShake[4] THEN thirdOut ELSE copyIn
    /\ fourthOut' = IF 4 \in moves
                    THEN [fourthOut EXCEPT ![at[4]] = Affine(picture, copyIn', at[4])]
                    ELSE fourthOut

-----------------------------------------------------------------------------
(* calc_out: the loop over the words of fourthOut at the rising hand-off   *)

\* The fields of the words, compared in the order of the code.
Better(x, max) ==
    \/ x.sign = 0 /\ max.sign = 1
    \/ x.sign = 0 /\ max.sign = 0 /\ \/ max.exp < x.exp
                                     \/ max.exp = x.exp /\ max.man < x.man
    \/ x.sign = 1 /\ max.sign = 1 /\ \/ max.exp > x.exp
                                     \/ max.exp = x.exp /\ max.man > x.man

\* max_num behind every turn of the loop, which starts from the last class and
\* goes through the others in order; max is the word of that class.
Turns(max_num, out) ==
    /\ max_num[0] = Classes - 1
    /\ \A n \in 1 .. Classes - 1 :
           max_num[n] = IF Better(out[n - 1], out[max_num[n - 1]]) THEN n - 1
                        ELSE max_num[n - 1]

CalcOut ==
    IF endShake'[4] /\ ~endShake[4]
    THEN \E max_num \in [Class -> Class] :
             Turns(max_num, fourthOut) /\ calc_out' = max_num[Classes - 1]
    ELSE UNCHANGED calc_out

-----------------------------------------------------------------------------
Working == {l \in Layers : st[l] = "WORK"}

Run(moves) ==
    /\ resetn
    /\ Control(moves)
    /\ FirstLayer(moves) /\ SecondLayer(moves) /\ MeanLayer(moves) /\ LinearLayer(moves)
    /\ CalcOut

\* resetn clears every layer; calc_out and copyIn keep what they hold.
Reset ==
    /\ ~resetn
    /\ st' = [l \in Layers |-> "INITWAIT"] /\ at' = [l \in Layers |-> 0]
    /\ initShake' = [l \in Layers |-> FALSE] /\ endShake' = [l \in Layers |-> FALSE]
    /\ firstOut' = [n \in 0 .. 15 |-> Zero] /\ secondOut' = [n \in 0 .. 3 |-> Zero]
    /\ total' = Zero /\ thirdOut' = Zero
    /\ fourthOut' = [n \in Class |-> ZeroWord]
    /\ UNCHANGED <<copyIn, calc_out>>

\* The value of a word, but for a scale; what the layers should give.
Value(w) == (IF w.sign = 1 THEN -1 ELSE 1) * (w.exp * ManSize + w.man)
Window(p, w) ==
    LET tap(t) == Tap2(p, Conv1(p, Source(4 * w + t)), t)
    IN  Rectified(Add(tap(3), Add(tap(2), Add(tap(1), Add(tap(0), Zero)))))
Mean(p) ==
    Quarter(Add(Add(Add(Add(Zero, Window(p, 0)), Window(p, 1)), Window(p, 2)), Window(p, 3)))
\* What linLay puts out is a word, whatever it is given.
ASSUME AffineAssumption ==
    \A p \in Pictures : \A n \in Class : Affine(p, Mean(p), n) \in Word

Score == [p \in Pictures |-> LET mean == Mean(p)
                             IN  [n \in Class |-> Value(Affine(p, mean, n))]]
Best(p) == {n \in Class : \A m \in Class : Score[p][m] <= Score[p][n]}

Eng == INSTANCE Engine WITH
    eng <- IF endShake[4] THEN "handOff"
           ELSE IF \E l \in Layers : st[l] # "INITWAIT" THEN "run" ELSE "idle"

Next == (Reset \/ \E moves \in SUBSET Working : Run(moves)) /\ Eng!Environment

Spec == Init /\ [][Next]_vars

\* The clock runs, without needing the reset or a start to move, and of the
\* layers at work one gets its answer sooner or later (FPUnit!Answered).
Quiet == UNCHANGED inputs
Clock == Next /\ Quiet
Answered == (\E moves \in SUBSET Working \ {{}} : Run(moves)) /\ Quiet
FairSpec == Spec /\ WF_vars(Clock) /\ WF_vars(Answered)

-----------------------------------------------------------------------------
TypeOK ==
    /\ {resetn, startFlag} \subseteq BOOLEAN /\ picture \in Pictures
    /\ st \in [Layers -> States]
    /\ initShake \in [Layers -> BOOLEAN] /\ endShake \in [Layers -> BOOLEAN]
    /\ \A l \in Layers : /\ at[l] \in 0 .. Length[l]
                         /\ st[l] = "WORK" => at[l] < Length[l]

\* The one cycle in which a layer says that it has taken its input finds the
\* layer before it waiting for just that: no hand-off is taken twice, none is
\* missed, and none stays up for the next pass (the states INITHAND and
\* ENDWAIT of the four layers).
TakenOnce ==
    \A l \in 2 .. 4 : initShake[l] => st[l - 1] = "ENDWAIT" /\ endShake[l - 1]

\* Whatever the speed of the layers and however often those before start over,
\* the row of them implements the engine second_top relies on: one hand-off,
\* with the best class of the picture that stood in the memories, held until
\* the reset, also in a calculation after the first and after a reset in the
\* middle of one.
ImplementsEngine == Eng!Spec

\* A calculation comes to its hand-off, unless it is reset: no layer waits for
\* ever for the one before or behind it.
Finishes == st[1] # "INITWAIT" ~> (endShake[4] \/ ~resetn)
=============================================================================
