----------------------------- MODULE ConvLayer -----------------------------
(***************************************************************************)
(* The convolution layers conv_1 (convLayer1.sv) and conv_2                *)
(* (convLayer2.sv): the same machine with other sizes, and a bias of zero  *)
(* in conv_2.  Windows do not overlap.  Every product gets the bias and is *)
(* added to a running total; a finished total goes through the rectifier   *)
(* into the output.                                                        *)
(*                                                                         *)
(* A step is a clock cycle in which the layer does something: the rising   *)
(* edge of its control machine and the falling edge of its datapath after  *)
(* it.  Cycles in which it waits for startFlag, for a floating-point unit  *)
(* or for readyNext are stuttering steps.  A unit gives its value when it   *)
(* is done: that this is the right value is FPUnit!ResultRight, with the   *)
(* exceptions made there.  The picture and the weights stand still         *)
(* (NNSystem!MemoryStableWhileRunning).                                    *)
(***************************************************************************)
EXTENDS Integers

CONSTANTS
    Side,                 \* outputs in a row and in a column   (4; 2)
    Kern,                 \* weights in a row and in a column   (7; 2)
    Zero, Bias,           \* 32'b0; the second operand of unit f2
    Mul(_, _), Add(_, _), \* the floating-point units
    Negative(_),          \* the sign bit
    Picture, Weight       \* in and win, by row and column

ASSUME SizeAssumption == Side \in Nat \ {0} /\ Kern \in Nat \ {0}

OutLocs == (0 .. Side - 1) \X (0 .. Side - 1)
Taps    == (0 .. Kern - 1) \X (0 .. Kern - 1)

VARIABLES
    st,                        \* curState, to be left at the next step
    writingTo,                 \* writingToX, writingToY
    calculatingWith,           \* calculatingWithX, calculatingWithY
    convArea,                  \* the window read by blockFinder
    tempMultValue, runningTotal,
    handOff,                   \* endShake
    out,                       \* outREG
    summed,                    \* history: the taps in runningTotal
    given                      \* history: handed off since the reset

place == <<writingTo, calculatingWith>>
sums  == <<convArea, tempMultValue, runningTotal>>
hist  == <<summed, given>>
vars  == <<st, place, sums, handOff, out, hist>>

States == {"INITWAIT", "INITHAND", "CONVOP", "CONVMULDONE", "CONVMULADDDONE",
           "CONVADDDONE", "UPDATEWR", "ASSIGNOUT", "UPDATELOC", "ENDWAIT",
           "CLEANUP"}

Cleared ==
    /\ writingTo' = <<0, 0>> /\ calculatingWith' = <<0, 0>>
    /\ tempMultValue' = Zero /\ runningTotal' = Zero
    /\ summed' = {}
    /\ UNCHANGED convArea

Init ==
    /\ st = "INITWAIT" /\ handOff = FALSE
    /\ writingTo = <<0, 0>> /\ calculatingWith = <<0, 0>>
    /\ convArea = [t \in Taps |-> Zero]
    /\ tempMultValue = Zero /\ runningTotal = Zero
    /\ out = [l \in OutLocs |-> Zero]
    /\ summed = {} /\ given = FALSE

----------------------------------------------------------------------------
(* blockFinder, multiFinder, outAssigner *)

\* Seeded fault: the windows exchanged across the diagonal.
Block_Swapped(l) ==
    [t \in Taps |-> Picture[<<Kern * l[2] + t[1], Kern * l[1] + t[2]>>]]

Block(l) ==
    [t \in Taps |-> Picture[<<Kern * l[1] + t[1], Kern * l[2] + t[2]>>]]

Rectified(v) == IF Negative(v) THEN Zero ELSE v

\* Seeded fault: the first index is not put back to zero.
NextOf_KeepsFirst(p, n) ==
    IF p[1] < n - 1 THEN <<p[1] + 1, p[2]>> ELSE <<p[1], p[2] + 1>>

\* The first index runs faster.
NextOf(p, n) ==
    IF p[1] < n - 1 THEN <<p[1] + 1, p[2]>> ELSE <<0, p[2] + 1>>

Last(p, n) == p = <<n - 1, n - 1>>

----------------------------------------------------------------------------
(* Steps of the machine *)

\* INITWAIT, INITHAND: startFlag is up, and the layer before is told so.
Start ==
    /\ st = "INITWAIT" /\ st' = "CONVOP"
    /\ UNCHANGED <<place, sums, handOff, out, hist>>

\* CONVOP, CONVMUL: take the window over and start the multiplication.
ConvOp ==
    /\ st = "CONVOP" /\ st' = "CONVMULDONE"
    /\ convArea' = Block(writingTo)
    /\ UNCHANGED <<place, tempMultValue, runningTotal, handOff, out, hist>>

\* CONVMULDONE, CONVMULADD: the product is there; start to add the bias.
ConvMulDone ==
    /\ st = "CONVMULDONE" /\ st' = "CONVMULADDDONE"
    /\ tempMultValue' = Mul(convArea[calculatingWith], Weight[calculatingWith])
    /\ UNCHANGED <<place, convArea, runningTotal, handOff, out, hist>>

\* CONVMULADDDONE, CONVADD: the biased product is there; start to add it.
ConvMulAddDone ==
    /\ st = "CONVMULADDDONE" /\ st' = "CONVADDDONE"
    /\ tempMultValue' = Add(tempMultValue, Bias)
    /\ UNCHANGED <<place, convArea, runningTotal, handOff, out, hist>>

\* CONVADDDONE, CONVOPDONE, WRITEOP.
ConvAddDone ==
    /\ st = "CONVADDDONE" /\ st' = "UPDATEWR"
    /\ runningTotal' = Add(tempMultValue, runningTotal)
    /\ summed' = summed \cup {calculatingWith}
    /\ UNCHANGED <<place, convArea, tempMultValue, handOff, out, given>>

UpdateWr ==
    /\ st = "UPDATEWR"
    /\ IF Last(calculatingWith, Kern)
       THEN st' = "ASSIGNOUT" /\ UNCHANGED calculatingWith
       ELSE st' = "CONVOP" /\ calculatingWith' = NextOf(calculatingWith, Kern)
    /\ UNCHANGED <<writingTo, sums, handOff, out, hist>>

AssignOut ==
    /\ st = "ASSIGNOUT"
    /\ out' = [out EXCEPT ![writingTo] = Rectified(runningTotal)]
    /\ st' = IF Last(writingTo, Side) THEN "ENDWAIT" ELSE "UPDATELOC"
    /\ UNCHANGED <<place, sums, handOff, hist>>

\* Seeded fault: the size of the window where that of the output is meant.
UpdateLoc_ByKern ==
    /\ st = "UPDATELOC" /\ st' = "CONVOP"
    /\ writingTo' = NextOf(writingTo, Kern)
    /\ calculatingWith' = <<0, 0>>
    /\ runningTotal' = Zero /\ summed' = {}
    /\ UNCHANGED <<convArea, tempMultValue, handOff, out, given>>

UpdateLoc ==
    /\ st = "UPDATELOC" /\ st' = "CONVOP"
    /\ writingTo' = NextOf(writingTo, Side)
    /\ calculatingWith' = <<0, 0>>
    /\ runningTotal' = Zero /\ summed' = {}
    /\ UNCHANGED <<convArea, tempMultValue, handOff, out, given>>

\* Seeded fault: the hand-off is not announced.
EndWait_Silent == st = "ENDWAIT" /\ ~handOff /\ UNCHANGED vars

EndWait ==
    /\ st = "ENDWAIT" /\ ~handOff
    /\ handOff' = TRUE /\ given' = TRUE
    /\ UNCHANGED <<st, place, sums, out, summed>>

\* readyNext answers a hand-off.
ReadyNext ==
    /\ st = "ENDWAIT" /\ handOff
    /\ st' = "CLEANUP" /\ handOff' = FALSE
    /\ UNCHANGED <<place, sums, out, hist>>

\* Seeded fault: the next calculation begins where this one ended.
CleanUp_KeepsPlace ==
    /\ st = "CLEANUP" /\ st' = "INITWAIT"
    /\ tempMultValue' = Zero /\ runningTotal' = Zero /\ summed' = {}
    /\ UNCHANGED <<place, convArea, handOff, out, given>>

\* The output stays for the next layer.
CleanUp ==
    /\ st = "CLEANUP" /\ st' = "INITWAIT"
    /\ Cleared
    /\ UNCHANGED <<handOff, out, given>>

\* The reset falls between the two edges of a cycle, any cycle.  Until it is
\* released nothing changes.
Reset ==
    /\ st' = "INITWAIT" /\ handOff' = FALSE
    /\ Cleared
    /\ out' = [l \in OutLocs |-> Zero]
    /\ given' = FALSE

Answer == ConvMulDone \/ ConvMulAddDone \/ ConvAddDone
Move == ConvOp \/ UpdateWr \/ AssignOut \/ UpdateLoc \/ EndWait \/ CleanUp

Next == Start \/ Answer \/ Move \/ ReadyNext \/ Reset

Spec == Init /\ [][Next]_vars

\* The clock runs and the floating-point units answer (FPUnit!Answered).
\* The neighbours need not start the layer or take its result.
FairSpec == Spec /\ WF_vars(Answer) /\ WF_vars(Move)

----------------------------------------------------------------------------
(* Properties *)

TypeOK ==
    /\ st \in States /\ handOff \in BOOLEAN /\ given \in BOOLEAN
    /\ writingTo \in OutLocs /\ calculatingWith \in Taps
    /\ DOMAIN convArea = Taps /\ DOMAIN out = OutLocs
    /\ summed \subseteq Taps

\* The convolution, term by term: window l, tap t, and the totals after the
\* first n taps, the first index running faster.
Term(l, t) ==
    Add(Mul(Picture[<<Kern * l[1] + t[1], Kern * l[2] + t[2]>>], Weight[t]), Bias)
Totals(l) ==
    LET total[n \in 0 .. Kern * Kern] ==
            IF n = 0 THEN Zero
            ELSE Add(Term(l, <<(n - 1) % Kern, (n - 1) \div Kern>>), total[n - 1])
    IN  total
Convolution == [l \in OutLocs |-> Rectified(Totals(l)[Kern * Kern])]

\* What is handed off is the convolution of the whole picture, also in a
\* calculation after the first and after a reset in the middle of one
\* (convLayer1.sv lines 136-381, 407-781).
HandsOffConvolution == handOff => out = Convolution

\* The next layer reads the output while it computes, after the layer was
\* released and may have started over: until the reset, what was handed off
\* stays there (no intermediate copy is made of it, convLayer2.sv line 349).
OutputHolds == [][given /\ given' => UNCHANGED out]_vars

\* No tap is added twice to a running total, and an output is assigned only
\* when every tap is in it (convLayer1.sv lines 227-262, 329-352).
EveryTapOnce ==
    /\ st = "CONVADDDONE" => calculatingWith \notin summed
    /\ st = "ASSIGNOUT" => summed = Taps

\* A calculation that was begun is handed off, unless a reset comes.
HandsOff == st = "CONVOP" ~> (handOff \/ st = "INITWAIT")

=============================================================================
