---------------------------- MODULE NetworkProof ----------------------------
(***************************************************************************)
(* For every network, picture, number of classes and speed of the          *)
(* floating-point units: the hand-shake of the four layers, what each of   *)
(* them holds at every place of a pass, the order by which the answer is   *)
(* chosen, and from these that the row of layers implements the engine     *)
(* second_top relies on (Engine).                                          *)
(***************************************************************************)
EXTENDS Network, NumberLemmas, TLAPS

\* A layer that takes its input, or is about to say so, finds the layer before
\* it waiting with its hand-off up; a layer that has not begun has done nothing.
HandInv ==
    /\ \A l \in Layers : /\ endShake[l] => st[l] = "ENDWAIT"
                         /\ initShake[l] => st[l] = "WORK"
                         /\ st[l] \in {"INITWAIT", "INITHAND"} => at[l] = 0
    /\ \A l \in 2 .. 4 : st[l] = "INITHAND" \/ initShake[l] =>
                            st[l - 1] = "ENDWAIT" /\ endShake[l - 1]

IInv == TypeOK /\ HandInv

\* Every pass has an operation to do.
LEMMA LengthPositive == \A l \in Layers : Length[l] \in Nat /\ 0 < Length[l]
  BY ClassAssumption DEF Layers, Length

LEMMA InitInv == Init => IInv
<1> SUFFICES ASSUME Init PROVE IInv
  OBVIOUS
<1>1. {resetn, startFlag} \subseteq BOOLEAN /\ picture \in Pictures
  BY DEF Init
<1>2. /\ st = [l \in Layers |-> "INITWAIT"] /\ at = [l \in Layers |-> 0]
      /\ initShake = [l \in Layers |-> FALSE] /\ endShake = [l \in Layers |-> FALSE]
  BY DEF Init
<1>3. HandInv
  BY <1>2 DEF HandInv, Layers
<1>4. \A l \in Layers : at[l] \in 0 .. Length[l] /\ st[l] # "WORK"
  BY <1>2, LengthPositive
<1> QED  BY <1>1, <1>2, <1>3, <1>4 DEF IInv, TypeOK, States

\* The inputs keep their types: the environment says so.
LEMMA InputsTyped == Eng!Environment => {resetn', startFlag'} \subseteq BOOLEAN /\ picture' \in Pictures
  BY DEF Eng!Environment

\* A cycle of the layers keeps places and states in range.
LEMMA RunTypeOK ==
  ASSUME IInv, Eng!Environment, NEW moves \in SUBSET Working, Run(moves)
  PROVE  TypeOK'
<1>1. st' \in [Layers -> States]
  <2>1. \A l \in Layers : NextState(l, moves) \in States
    BY DEF IInv, TypeOK, NextState, States
  <2> QED  BY <2>1 DEF Run, Control
<1>2. /\ initShake' \in [Layers -> BOOLEAN]
      /\ endShake' \in [Layers -> BOOLEAN]
  BY DEF Run, Control
<1>3. ASSUME NEW l \in Layers
      PROVE  /\ at'[l] \in 0 .. Length[l]
             /\ st'[l] = "WORK" => at'[l] < Length[l]
  <2>1. at[l] \in 0 .. Length[l] /\ Length[l] \in Nat /\ 0 < Length[l]
    BY LengthPositive DEF IInv, TypeOK
  <2>2. /\ at'[l] = IF l \in moves THEN at[l] + 1
                    ELSE IF st[l] = "CLEANUP" THEN 0 ELSE at[l]
        /\ st'[l] = NextState(l, moves)
    BY DEF Run, Control
  <2>3. l \in moves => st[l] = "WORK" /\ at[l] < Length[l]
    BY DEF Working, IInv, TypeOK
  <2>4. st[l] = "INITHAND" => at[l] = 0
    BY DEF IInv, HandInv
  <2>5. st[l] = "WORK" => at[l] < Length[l]
    BY DEF IInv, TypeOK
  <2>6. st'[l] = "WORK" => \/ st[l] = "INITHAND"
                           \/ st[l] = "WORK" /\ ~(l \in moves /\ at[l] + 1 = Length[l])
    BY <2>2 DEF NextState, IInv, TypeOK, States
  <2> QED  BY <2>1, <2>2, <2>3, <2>4, <2>5, <2>6
<1> QED  BY <1>1, <1>2, <1>3, InputsTyped DEF TypeOK

\* ... and the hand-shake in step.
LEMMA RunHandInv ==
  ASSUME IInv, NEW moves \in SUBSET Working, Run(moves)
  PROVE  HandInv'
<1>1. \A l \in Layers : /\ st'[l] = NextState(l, moves)
                        /\ initShake'[l] = (st[l] = "INITHAND")
                        /\ endShake'[l] = (st[l] = "ENDWAIT" /\ ~Taken(l))
                        /\ at'[l] = IF l \in moves THEN at[l] + 1
                                    ELSE IF st[l] = "CLEANUP" THEN 0 ELSE at[l]
  BY DEF Run, Control
<1>2. ASSUME NEW l \in Layers
      PROVE  /\ endShake'[l] => st'[l] = "ENDWAIT"
             /\ initShake'[l] => st'[l] = "WORK"
             /\ st'[l] \in {"INITWAIT", "INITHAND"} => at'[l] = 0
  <2>1. endShake'[l] => st'[l] = "ENDWAIT"
    BY <1>1 DEF NextState
  <2>2. initShake'[l] => st'[l] = "WORK"
    BY <1>1 DEF NextState
  <2>3. st'[l] \in {"INITWAIT", "INITHAND"} => st[l] \in {"INITWAIT", "CLEANUP"}
    BY <1>1 DEF NextState, IInv, TypeOK, States
  <2>4. l \in moves => st[l] = "WORK"
    BY DEF Working
  <2> QED  BY <1>1, <2>1, <2>2, <2>3, <2>4 DEF IInv, HandInv
<1>3. ASSUME NEW l \in 2 .. 4, st'[l] = "INITHAND" \/ initShake'[l]
      PROVE  st'[l - 1] = "ENDWAIT" /\ endShake'[l - 1]
  <2>1. l \in Layers /\ l - 1 \in Layers /\ l - 1 < 4 /\ l # 1 /\ (l - 1) + 1 = l
    BY DEF Layers
  <2>2. st[l] = "INITHAND" \/ (st[l] = "INITWAIT" /\ Asked(l))
    BY <1>1, <1>3, <2>1 DEF NextState, IInv, TypeOK, States
  <2>3. st[l - 1] = "ENDWAIT"
    BY <2>1, <2>2 DEF Asked, IInv, HandInv
  <2>4. ~initShake[l]
    BY <2>1, <2>2 DEF IInv, HandInv
  <2>5. ~Taken(l - 1)
    BY <2>1, <2>4 DEF Taken
  <2> QED  BY <1>1, <2>1, <2>3, <2>5 DEF NextState
<1> QED  BY <1>2, <1>3 DEF HandInv

LEMMA ResetInv ==
  ASSUME Eng!Environment, Reset
  PROVE  IInv'
<1>1. {resetn', startFlag'} \subseteq BOOLEAN /\ picture' \in Pictures
  BY InputsTyped
<1>2. /\ st' = [l \in Layers |-> "INITWAIT"] /\ at' = [l \in Layers |-> 0]
      /\ initShake' = [l \in Layers |-> FALSE] /\ endShake' = [l \in Layers |-> FALSE]
  BY DEF Reset
<1>3. HandInv'
  BY <1>2 DEF HandInv, Layers
<1>4. \A l \in Layers : at'[l] \in 0 .. Length[l] /\ st'[l] # "WORK"
  BY <1>2, LengthPositive
<1> QED  BY <1>1, <1>2, <1>3, <1>4 DEF IInv, TypeOK, States

LEMMA StepInv == IInv /\ [Next]_vars => IInv'
<1> SUFFICES ASSUME IInv, [Next]_vars PROVE IInv'
  OBVIOUS
<1>1. CASE Next
  <2>1. Eng!Environment
    BY <1>1 DEF Next
  <2>2. CASE Reset
    BY <2>1, <2>2, ResetInv
  <2>3. CASE \E moves \in SUBSET Working : Run(moves)
    <3> PICK moves \in SUBSET Working : Run(moves)
      BY <2>3
    <3> QED  BY <2>1, RunTypeOK, RunHandInv DEF IInv
  <2> QED  BY <1>1, <2>2, <2>3 DEF Next
<1>2. CASE UNCHANGED vars
  BY <1>2 DEF vars, inputs, data, IInv, TypeOK, HandInv
<1> QED  BY <1>1, <1>2

THEOREM Invariance == Spec => []IInv
  BY InitInv, StepInv, PTL DEF Spec

\* The places of the layers stay within their passes, whatever the number of
\* classes and the network (indices of convLayer1.sv, convLayer2.sv,
\* meanMod.sv and linLay.sv).
THEOREM TypeCorrect == Spec => []TypeOK
<1>1. IInv => TypeOK
  BY DEF IInv
<1> QED  BY Invariance, <1>1, PTL

\* No hand-off between two layers is missed or taken twice, at any speed.
THEOREM HandsTakenOnce == Spec => []TakenOnce
<1>1. IInv => TakenOnce
  BY DEF IInv, HandInv, TakenOnce
<1> QED  BY Invariance, <1>1, PTL

-----------------------------------------------------------------------------
(* What the layers hold, at every place of a pass.  A layer may be in a    *)
(* second pass, over the same picture, while those behind it are still in  *)
(* their first: what a layer behind has begun to read stays as it is.      *)

\* Layer l or one behind it has begun since the reset.
Begun(l) == \E m \in Layers : l <= m /\ st[m] # "INITWAIT"

\* A pass ends behind its last operation, and is left for the next one when the
\* layer behind is at work; nothing begins before start_cal_in.
PassInv ==
    /\ \A l \in Layers :
           /\ st[l] \in {"ENDWAIT", "CLEANUP"} => at[l] = Length[l]
           /\ st[l] = "CLEANUP" => l < 4 /\ st[l + 1] \in {"WORK", "ENDWAIT"}
    /\ ~startFlag => \A l \in Layers : st[l] = "INITWAIT"

FirstInv ==
    /\ DOMAIN firstOut = 0 .. 15
    /\ \A n \in 0 .. 15 : n < at[1] \/ Begun(2) => firstOut[n] = Conv1(picture, n)

\* The sum of a window before tap t.
Sum(p, w, t) ==
    LET tap(k) == Tap2(p, Conv1(p, Source(4 * w + k)), k)
    IN  CASE t = 0 -> Zero
          [] t = 1 -> Add(tap(0), Zero)
          [] t = 2 -> Add(tap(1), Add(tap(0), Zero))
          [] t = 3 -> Add(tap(2), Add(tap(1), Add(tap(0), Zero)))

SecondInv ==
    /\ DOMAIN secondOut = 0 .. 3
    /\ total = Sum(picture, at[2] \div 4, at[2] % 4)
    /\ \A w \in 0 .. 3 : 4 * w + 3 < at[2] \/ Begun(3) => secondOut[w] = Window(picture, w)

\* outREG of meanMod behind k operations.
MeanPart(p, k) ==
    CASE k = 0 -> Zero
      [] k = 1 -> Add(Zero, Window(p, 0))
      [] k = 2 -> Add(Add(Zero, Window(p, 0)), Window(p, 1))
      [] k = 3 -> Add(Add(Add(Zero, Window(p, 0)), Window(p, 1)), Window(p, 2))
      [] k = 4 -> Add(Add(Add(Add(Zero, Window(p, 0)), Window(p, 1)), Window(p, 2)),
                      Window(p, 3))
      [] k = 5 -> Mean(p)

\* The mean stands until linLay has copied it; then the copy does.
MeanInv ==
    /\ st[4] = "INITWAIT" => thirdOut = MeanPart(picture, at[3])
    /\ st[4] = "INITHAND" \/ initShake[4] => thirdOut = Mean(picture)
    /\ (st[4] = "WORK" /\ ~initShake[4]) \/ st[4] = "ENDWAIT" => copyIn = Mean(picture)

FourthInv ==
    /\ DOMAIN fourthOut = Class
    /\ \A n \in Class : n < at[4] => fourthOut[n] = Affine(picture, Mean(picture), n)

DataInv == PassInv /\ FirstInv /\ SecondInv /\ MeanInv /\ FourthInv

\* The state behind a reset: nothing begun, no sum.
Clear ==
    /\ \A l \in Layers : st[l] = "INITWAIT" /\ at[l] = 0 /\ ~initShake[l]
    /\ DOMAIN firstOut = 0 .. 15 /\ DOMAIN secondOut = 0 .. 3 /\ DOMAIN fourthOut = Class
    /\ total = Zero /\ thirdOut = Zero

LEMMA ClearData == Clear => DataInv
<1> SUFFICES ASSUME Clear PROVE DataInv
  OBVIOUS
<1>1. \A l \in Layers : ~Begun(l)
  BY DEF Clear, Begun
<1>2. /\ 1 \in Layers /\ 2 \in Layers /\ 3 \in Layers /\ 4 \in Layers
      /\ st[4] = "INITWAIT" /\ at[1] = 0 /\ at[2] = 0 /\ at[3] = 0 /\ at[4] = 0
      /\ ~initShake[4]
  BY DEF Clear, Layers
<1>3. PassInv
  BY DEF Clear, PassInv
<1>4. FirstInv
  BY <1>1, <1>2 DEF Clear, FirstInv
<1>5. SecondInv
  <2>1. 0 \div 4 = 0 /\ 0 % 4 = 0
    OBVIOUS
  <2>2. Sum(picture, 0, 0) = Zero
    BY DEF Sum
  <2>3. \A w \in 0 .. 3 : ~(4 * w + 3 < 0)
    OBVIOUS
  <2> QED  BY <1>1, <1>2, <2>1, <2>2, <2>3 DEF Clear, SecondInv
<1>6. MeanInv
  BY <1>2 DEF Clear, MeanInv, MeanPart
<1>7. FourthInv
  BY <1>2 DEF Clear, FourthInv, Class
<1> QED  BY <1>3, <1>4, <1>5, <1>6, <1>7 DEF DataInv

\* A cycle, layer by layer.
LEMMA RunMoves ==
  ASSUME IInv, NEW moves \in SUBSET Working, Run(moves)
  PROVE  /\ \A l \in Layers :
                /\ st'[l] = NextState(l, moves)
                /\ initShake'[l] = (st[l] = "INITHAND")
                /\ endShake'[l] = (st[l] = "ENDWAIT" /\ ~Taken(l))
                /\ at'[l] = IF l \in moves THEN at[l] + 1
                            ELSE IF st[l] = "CLEANUP" THEN 0 ELSE at[l]
                /\ l \in moves => st[l] = "WORK" /\ at[l] \in 0 .. Length[l] - 1
                /\ at[l] \in 0 .. Length[l]
                /\ st[l] \in States
         /\ resetn
<1>1. \A l \in Layers : /\ st'[l] = NextState(l, moves)
                        /\ initShake'[l] = (st[l] = "INITHAND")
                        /\ endShake'[l] = (st[l] = "ENDWAIT" /\ ~Taken(l))
                        /\ at'[l] = IF l \in moves THEN at[l] + 1
                                    ELSE IF st[l] = "CLEANUP" THEN 0 ELSE at[l]
  BY DEF Run, Control
<1>2. ASSUME NEW l \in Layers
      PROVE  /\ l \in moves => st[l] = "WORK" /\ at[l] \in 0 .. Length[l] - 1
             /\ at[l] \in 0 .. Length[l]
             /\ st[l] \in States
  <2>1. /\ st[l] \in States /\ at[l] \in 0 .. Length[l]
        /\ st[l] = "WORK" => at[l] < Length[l]
    BY DEF IInv, TypeOK
  <2>2. l \in moves => st[l] = "WORK"
    BY DEF Working
  <2> QED  BY <2>1, <2>2, LengthPositive
<1> QED  BY <1>1, <1>2 DEF Run

\* A layer begins behind the end of a pass of the layer before it.
LEMMA NewlyBegun ==
  ASSUME IInv, NEW moves \in SUBSET Working, Run(moves), NEW l \in 2 .. 4, Begun(l)'
  PROVE  Begun(l) \/ st[l - 1] = "ENDWAIT"
<1> SUFFICES ASSUME ~Begun(l) PROVE st[l - 1] = "ENDWAIT"
  OBVIOUS
<1>1. PICK m \in Layers : l <= m /\ st'[m] # "INITWAIT"
  BY DEF Begun
<1>2. st[m] = "INITWAIT"
  BY <1>1 DEF Begun
<1>3. Asked(m)
  BY <1>1, <1>2, RunMoves DEF NextState
<1>4. m # 1 /\ m - 1 \in Layers
  BY <1>1 DEF Layers
<1>5. st[m - 1] = "ENDWAIT"
  BY <1>3, <1>4 DEF Asked, IInv, HandInv
<1>6. ~(l <= m - 1)
  BY <1>4, <1>5 DEF Begun
<1>7. m = l
  BY <1>1, <1>6 DEF Layers
<1> QED  BY <1>5, <1>7

LEMMA RunPass ==
  ASSUME IInv, PassInv, Eng!Environment, NEW moves \in SUBSET Working, Run(moves)
  PROVE  PassInv'
<1>1. ASSUME NEW l \in Layers, st'[l] \in {"ENDWAIT", "CLEANUP"}
      PROVE  at'[l] = Length[l]
  <2>1. \/ st[l] = "WORK" /\ l \in moves /\ at[l] + 1 = Length[l]
        \/ st[l] = "ENDWAIT"
    BY <1>1, RunMoves DEF NextState, States
  <2> QED  BY <2>1, RunMoves DEF PassInv
<1>2. ASSUME NEW l \in Layers, st'[l] = "CLEANUP"
      PROVE  l < 4 /\ st'[l + 1] \in {"WORK", "ENDWAIT"}
  <2>1. st[l] = "ENDWAIT" /\ Taken(l)
    BY <1>2, RunMoves DEF NextState, States
  <2>2. l < 4 /\ l + 1 \in Layers /\ initShake[l + 1]
    BY <2>1 DEF Taken, Layers
  <2>3. st[l + 1] = "WORK"
    BY <2>2 DEF IInv, HandInv
  <2> QED  BY <2>2, <2>3, RunMoves DEF NextState
<1>3. ASSUME ~startFlag', NEW l \in Layers
      PROVE  st'[l] = "INITWAIT"
  <2>1. ~startFlag
    BY <1>3, RunMoves DEF Eng!Environment
  <2>2. \A m \in Layers : st[m] = "INITWAIT"
    BY <2>1 DEF PassInv
  <2>3. l # 1 => l - 1 \in Layers
    BY DEF Layers
  <2>4. ~Asked(l)
    BY <2>1, <2>2, <2>3 DEF Asked, IInv, HandInv
  <2> QED  BY <2>2, <2>4, RunMoves DEF NextState
<1> QED  BY <1>1, <1>2, <1>3 DEF PassInv

LEMMA RunFirst ==
  ASSUME IInv, FirstInv, PassInv, startFlag, Eng!Environment,
         NEW moves \in SUBSET Working, Run(moves)
  PROVE  FirstInv'
<1>1. picture' = picture
  BY DEF Eng!Environment
<1>2. 1 \in Layers /\ 2 \in Layers /\ 1 < 2 /\ Length[1] = 16
  BY DEF Layers, Length
<1>3. /\ 1 \in moves => st[1] = "WORK" /\ at[1] \in 0 .. 15
      /\ at'[1] = IF 1 \in moves THEN at[1] + 1
                  ELSE IF st[1] = "CLEANUP" THEN 0 ELSE at[1]
      /\ at[1] \in 0 .. 16
  BY <1>2, RunMoves
<1>4. firstOut' = IF 1 \in moves THEN [firstOut EXCEPT ![at[1]] = Conv1(picture, at[1])]
                  ELSE firstOut
  BY DEF Run, FirstLayer
<1>5. DOMAIN firstOut' = 0 .. 15
  BY <1>4 DEF FirstInv
<1>6. ASSUME NEW n \in 0 .. 15, n < at'[1] \/ Begun(2)'
      PROVE  firstOut'[n] = Conv1(picture, n)
  <2>1. CASE 1 \in moves /\ n = at[1]
    BY <1>4, <2>1 DEF FirstInv
  <2>2. CASE ~(1 \in moves /\ n = at[1])
    <3>1. firstOut'[n] = firstOut[n]
      BY <1>4, <2>2 DEF FirstInv
    <3>2. Begun(2)' => Begun(2) \/ at[1] = 16
      BY <1>2, NewlyBegun DEF PassInv
    <3>3. n < at'[1] => n < at[1]
      BY <1>3, <2>2
    <3>4. n < at[1] \/ Begun(2)
      BY <1>6, <3>2, <3>3
    <3> QED  BY <3>1, <3>4 DEF FirstInv
  <2> QED  BY <2>1, <2>2
<1> QED  BY <1>1, <1>5, <1>6 DEF FirstInv

\* The places conv_2 reads are places of firstOut, and its sixteen taps make
\* four windows of four.
LEMMA Taps ==
  ASSUME NEW n \in 0 .. 15
  PROVE  /\ Source(n) \in 0 .. 15
         /\ n % 4 \in 0 .. 3 /\ n \div 4 \in 0 .. 3
         /\ n = 4 * (n \div 4) + (n % 4)
         /\ n % 4 = 3 => (n + 1) % 4 = 0
         /\ n % 4 # 3 => (n + 1) % 4 = (n % 4) + 1 /\ (n + 1) \div 4 = n \div 4
<1>1. /\ (n \div 4) % 2 \in 0 .. 1 /\ n % 2 \in 0 .. 1 /\ n \div 8 \in 0 .. 1
      /\ n % 4 \in 0 .. 3 /\ (n % 4) \div 2 \in 0 .. 1
  OBVIOUS
<1>2. \A a, b, c, d \in 0 .. 1 : (2 * a + b) + 4 * (2 * c + d) \in 0 .. 15
  OBVIOUS
<1>3. Source(n) \in 0 .. 15
  BY <1>1, <1>2 DEF Source
<1> QED  BY <1>3

\* One tap more.
LEMMA SumGrows ==
  ASSUME NEW p, NEW w, NEW t \in 0 .. 3
  PROVE  LET sum == Add(Tap2(p, Conv1(p, Source(4 * w + t)), t), Sum(p, w, t))
         IN  /\ t # 3 => Sum(p, w, t + 1) = sum
             /\ t = 3 => Window(p, w) = Rectified(sum)
<1>1. CASE t = 0
  BY <1>1 DEF Sum
<1>2. CASE t = 1
  BY <1>2 DEF Sum
<1>3. CASE t = 2
  BY <1>3 DEF Sum
<1>4. CASE t = 3
  BY <1>4 DEF Sum, Window
<1> QED  BY <1>1, <1>2, <1>3, <1>4

LEMMA RunSecond ==
  ASSUME IInv, FirstInv, SecondInv, PassInv, startFlag, Eng!Environment,
         NEW moves \in SUBSET Working, Run(moves)
  PROVE  SecondInv'
<1> DEFINE n == at[2]
           sum == Add(Tap2(picture, firstOut[Source(n)], n % 4), total)
<1>1. picture' = picture
  BY DEF Eng!Environment
<1>2. 2 \in Layers /\ 3 \in Layers /\ 2 < 3 /\ Length[2] = 16
  BY DEF Layers, Length
<1>3. /\ 2 \in moves => st[2] = "WORK" /\ n \in 0 .. 15
      /\ at'[2] = IF 2 \in moves THEN n + 1 ELSE IF st[2] = "CLEANUP" THEN 0 ELSE n
      /\ n \in 0 .. 16
  BY <1>2, RunMoves
<1>4. 3 \in 2 .. 4
  OBVIOUS
<1>5. Begun(3)' => Begun(3) \/ n = 16
  BY <1>2, <1>4, NewlyBegun DEF PassInv
<1>6. CASE 2 \in moves
  <2>1. /\ total' = IF n % 4 = 3 THEN Zero ELSE sum
        /\ secondOut' = IF n % 4 = 3
                        THEN [secondOut EXCEPT ![n \div 4] = Rectified(sum)]
                        ELSE secondOut
    BY <1>6 DEF Run, SecondLayer
  <2>2. /\ n \in 0 .. 15 /\ n % 4 \in 0 .. 3 /\ n \div 4 \in 0 .. 3 /\ Source(n) \in 0 .. 15
        /\ n = 4 * (n \div 4) + (n % 4) /\ at'[2] = n + 1
    BY <1>3, <1>6, Taps
  <2>3. Begun(2)
    BY <1>2, <1>3, <1>6 DEF Begun
  <2>4. firstOut[Source(n)] = Conv1(picture, Source(n))
    BY <2>2, <2>3 DEF FirstInv
  <2>5. sum = Add(Tap2(picture, Conv1(picture, Source(4 * (n \div 4) + (n % 4))), n % 4),
                  Sum(picture, n \div 4, n % 4))
    BY <2>2, <2>4 DEF SecondInv
  <2>6. /\ n % 4 # 3 => sum = Sum(picture, n \div 4, (n % 4) + 1)
        /\ n % 4 = 3 => Rectified(sum) = Window(picture, n \div 4)
    BY <2>2, <2>5, SumGrows
  <2>7. total' = Sum(picture, at'[2] \div 4, at'[2] % 4)
    <3>1. CASE n % 4 = 3
      BY <2>1, <2>2, <3>1, Taps DEF Sum
    <3>2. CASE n % 4 # 3
      BY <2>1, <2>2, <2>6, <3>2, Taps
    <3> QED  BY <3>1, <3>2
  <2>8. DOMAIN secondOut' = 0 .. 3
    BY <2>1 DEF SecondInv
  <2>9. ASSUME NEW w \in 0 .. 3, 4 * w + 3 < at'[2] \/ Begun(3)'
        PROVE  secondOut'[w] = Window(picture, w)
    <3>1. CASE n % 4 = 3 /\ w = n \div 4
      BY <2>1, <2>6, <3>1 DEF SecondInv
    <3>2. CASE ~(n % 4 = 3 /\ w = n \div 4)
      <4>1. secondOut'[w] = secondOut[w]
        BY <2>1, <3>2 DEF SecondInv
      <4>2. 4 * w + 3 < n + 1 => 4 * w + 3 < n
        BY <2>2, <3>2
      <4>3. 4 * w + 3 < n \/ Begun(3)
        BY <1>5, <2>2, <2>9, <4>2
      <4> QED  BY <4>1, <4>3 DEF SecondInv
    <3> QED  BY <3>1, <3>2
  <2> QED  BY <1>1, <2>7, <2>8, <2>9 DEF SecondInv
<1>7. CASE 2 \notin moves
  <2>1. total' = total /\ secondOut' = secondOut
    BY <1>7 DEF Run, SecondLayer
  <2>2. total' = Sum(picture, at'[2] \div 4, at'[2] % 4)
    <3>1. CASE st[2] = "CLEANUP"
      <4>1. n = 16 /\ at'[2] = 0
        BY <1>2, <1>3, <1>7, <3>1 DEF PassInv
      <4>2. 16 % 4 = 0 /\ 0 % 4 = 0
        OBVIOUS
      <4> QED  BY <2>1, <4>1, <4>2 DEF SecondInv, Sum
    <3>2. CASE st[2] # "CLEANUP"
      BY <1>3, <1>7, <2>1, <3>2 DEF SecondInv
    <3> QED  BY <3>1, <3>2
  <2>3. ASSUME NEW w \in 0 .. 3, 4 * w + 3 < at'[2] \/ Begun(3)'
        PROVE  4 * w + 3 < n \/ Begun(3)
    BY <1>3, <1>5, <1>7, <2>3
  <2> QED  BY <1>1, <2>1, <2>2, <2>3 DEF SecondInv
<1> QED  BY <1>6, <1>7

LEMMA RunMean ==
  ASSUME IInv, SecondInv, MeanInv, PassInv, startFlag, Eng!Environment,
         NEW moves \in SUBSET Working, Run(moves)
  PROVE  MeanInv'
<1>1. picture' = picture
  BY DEF Eng!Environment
<1>2. /\ 3 \in Layers /\ 4 \in Layers /\ 3 <= 3 /\ 4 \in 2 .. 4 /\ 4 - 1 = 3
      /\ Length[3] = 5
  BY DEF Layers, Length
<1>3. /\ 3 \in moves => st[3] = "WORK" /\ at[3] \in 0 .. 4
      /\ at'[3] = IF 3 \in moves THEN at[3] + 1
                  ELSE IF st[3] = "CLEANUP" THEN 0 ELSE at[3]
      /\ initShake'[4] = (st[4] = "INITHAND")
      /\ st'[4] = NextState(4, moves) /\ st[4] \in States
  BY <1>2, RunMoves
<1>4. /\ thirdOut' = IF 3 \notin moves THEN thirdOut
                     ELSE IF at[3] < 4 THEN Add(thirdOut, secondOut[at[3]])
                     ELSE Quarter(thirdOut)
      /\ copyIn' = IF initShake[4] THEN thirdOut ELSE copyIn
  BY DEF Run, MeanLayer, LinearLayer
\* The layer that is asked, or takes its input, finds meanMod at rest.
<1>5. st[4] = "INITHAND" \/ initShake[4] => st[3] = "ENDWAIT"
  BY <1>2 DEF IInv, HandInv
<1>6. ASSUME st'[4] = "INITWAIT"
      PROVE  thirdOut' = MeanPart(picture, at'[3])
  <2>1. st[4] = "INITWAIT"
    BY <1>2, <1>3, <1>6 DEF NextState, States, PassInv
  <2>2. thirdOut = MeanPart(picture, at[3])
    BY <2>1 DEF MeanInv
  <2>3. CASE 3 \in moves
    <3>1. at[3] \in 0 .. 4 /\ at'[3] = at[3] + 1 /\ Begun(3)
      BY <1>2, <1>3, <2>3 DEF Begun
    <3>2. at[3] < 4 => secondOut[at[3]] = Window(picture, at[3])
      BY <3>1 DEF SecondInv
    <3>3. thirdOut' = IF at[3] < 4 THEN Add(MeanPart(picture, at[3]), Window(picture, at[3]))
                      ELSE Quarter(MeanPart(picture, at[3]))
      BY <1>4, <2>2, <2>3, <3>2
    <3>4. at[3] = 0 \/ at[3] = 1 \/ at[3] = 2 \/ at[3] = 3 \/ at[3] = 4
      BY <3>1
    <3> QED  BY <3>1, <3>3, <3>4 DEF MeanPart, Mean
  <2>4. CASE 3 \notin moves
    <3>1. st[3] # "CLEANUP"
      BY <1>2, <2>1 DEF PassInv
    <3> QED  BY <1>3, <1>4, <2>2, <2>4, <3>1
  <2> QED  BY <2>3, <2>4
<1>7. ASSUME st'[4] = "INITHAND" \/ initShake'[4]
      PROVE  thirdOut' = Mean(picture)
  <2>1. st[4] = "INITHAND" \/ (st[4] = "INITWAIT" /\ Asked(4))
    BY <1>3, <1>7 DEF NextState, States
  <2>2. st[3] = "ENDWAIT"
    BY <1>2, <1>5, <2>1 DEF Asked, IInv, HandInv
  <2>3. thirdOut' = thirdOut
    BY <1>3, <1>4, <2>2
  <2>4. at[3] = 5
    BY <1>2, <2>2 DEF PassInv
  <2> QED  BY <2>1, <2>3, <2>4 DEF MeanInv, MeanPart
<1>8. ASSUME (st'[4] = "WORK" /\ ~initShake'[4]) \/ st'[4] = "ENDWAIT"
      PROVE  copyIn' = Mean(picture)
  <2>1. st[4] \in {"WORK", "ENDWAIT"}
    BY <1>3, <1>8 DEF NextState, States
  <2> QED  BY <1>4, <2>1 DEF MeanInv
<1> QED  BY <1>1, <1>6, <1>7, <1>8 DEF MeanInv

LEMMA RunFourth ==
  ASSUME IInv, MeanInv, PassInv, FourthInv, startFlag, Eng!Environment,
         NEW moves \in SUBSET Working, Run(moves)
  PROVE  FourthInv'
<1>1. picture' = picture
  BY DEF Eng!Environment
<1>2. 4 \in Layers /\ Length[4] = Classes
  BY DEF Layers, Length
<1>3. /\ 4 \in moves => st[4] = "WORK" /\ at[4] \in 0 .. Classes - 1
      /\ at'[4] = IF 4 \in moves THEN at[4] + 1
                  ELSE IF st[4] = "CLEANUP" THEN 0 ELSE at[4]
      /\ at[4] \in 0 .. Classes
  BY <1>2, RunMoves
<1>4. /\ copyIn' = IF initShake[4] THEN thirdOut ELSE copyIn
      /\ fourthOut' = IF 4 \in moves
                      THEN [fourthOut EXCEPT ![at[4]] = Affine(picture, copyIn', at[4])]
                      ELSE fourthOut
  BY DEF Run, LinearLayer
<1>5. DOMAIN fourthOut' = Class
  BY <1>4 DEF FourthInv
<1>6. ASSUME NEW n \in Class, n < at'[4]
      PROVE  fourthOut'[n] = Affine(picture, Mean(picture), n)
  <2>1. CASE 4 \in moves /\ n = at[4]
    <3>1. copyIn' = Mean(picture)
      BY <1>3, <1>4, <2>1 DEF MeanInv
    <3> QED  BY <1>4, <2>1, <3>1 DEF FourthInv
  <2>2. CASE ~(4 \in moves /\ n = at[4])
    <3>1. fourthOut'[n] = fourthOut[n]
      BY <1>4, <2>2 DEF FourthInv
    <3>2. n < at[4]
      BY <1>3, <1>6, <2>2, ClassAssumption DEF Class
    <3> QED  BY <3>1, <3>2 DEF FourthInv
  <2> QED  BY <2>1, <2>2
<1> QED  BY <1>1, <1>5, <1>6 DEF FourthInv

\* Before start_cal_in rises the layers do nothing.
LEMMA RunIdle ==
  ASSUME IInv, DataInv, ~startFlag, NEW moves \in SUBSET Working, Run(moves)
  PROVE  Clear'
<1>1. ASSUME NEW l \in Layers
      PROVE  st'[l] = "INITWAIT" /\ at'[l] = 0 /\ ~initShake'[l] /\ at[l] = 0 /\ l \notin moves
  <2>1. \A m \in Layers : st[m] = "INITWAIT"
    BY DEF DataInv, PassInv
  <2>2. l # 1 => l - 1 \in Layers
    BY DEF Layers
  <2>3. ~Asked(l)
    BY <2>1, <2>2 DEF Asked, IInv, HandInv
  <2>4. at[l] = 0
    BY <2>1 DEF IInv, HandInv
  <2> QED  BY <2>1, <2>3, <2>4, RunMoves DEF NextState
<1>2. 1 \in Layers /\ 2 \in Layers /\ 3 \in Layers /\ 4 \in Layers
  BY DEF Layers
<1>3. firstOut' = firstOut /\ secondOut' = secondOut /\ fourthOut' = fourthOut
      /\ total' = total /\ thirdOut' = thirdOut
  BY <1>1, <1>2 DEF Run, FirstLayer, SecondLayer, MeanLayer, LinearLayer
<1>4. total = Zero
  <2>1. total = Sum(picture, at[2] \div 4, at[2] % 4) /\ at[2] = 0
    BY <1>1, <1>2 DEF DataInv, SecondInv
  <2>2. 0 % 4 = 0
    OBVIOUS
  <2> QED  BY <2>1, <2>2 DEF Sum
<1>5. thirdOut = Zero
  <2>1. st[4] = "INITWAIT" /\ at[3] = 0
    BY <1>1, <1>2 DEF DataInv, PassInv
  <2> QED  BY <2>1 DEF DataInv, MeanInv, MeanPart
<1> QED  BY <1>1, <1>3, <1>4, <1>5 DEF Clear, DataInv, FirstInv, SecondInv, FourthInv

LEMMA ResetClear ==
  ASSUME Reset
  PROVE  Clear'
BY DEF Reset, Clear, Layers, Class

LEMMA InitClear == Init => Clear
BY DEF Init, Clear, Layers, Class

LEMMA StepData == IInv /\ DataInv /\ [Next]_vars => DataInv'
<1> SUFFICES ASSUME IInv, DataInv, [Next]_vars PROVE DataInv'
  OBVIOUS
<1>1. Clear' => DataInv'
  BY ClearData, PTL
<1>2. CASE Next
  <2>1. Eng!Environment
    BY <1>2 DEF Next
  <2>2. CASE Reset
    BY <1>1, <2>2, ResetClear
  <2>3. CASE \E moves \in SUBSET Working : Run(moves)
    <3> PICK moves \in SUBSET Working : Run(moves)
      BY <2>3
    <3>1. CASE startFlag
      BY <2>1, <3>1, RunPass, RunFirst, RunSecond, RunMean, RunFourth DEF DataInv
    <3>2. CASE ~startFlag
      BY <1>1, <3>2, RunIdle
    <3> QED  BY <3>1, <3>2
  <2> QED  BY <1>2, <2>2, <2>3 DEF Next
<1>3. CASE UNCHANGED vars
  BY <1>3 DEF vars, inputs, data, DataInv, PassInv, FirstInv, SecondInv, MeanInv, FourthInv,
              Begun
<1> QED  BY <1>2, <1>3

LEMMA DataInvariance == Spec => [](IInv /\ DataInv)
<1>1. Init => IInv /\ DataInv
  BY InitInv, InitClear, ClearData
<1> QED  BY <1>1, StepInv, StepData, PTL DEF Spec

\* Scaled by more than any mantissa, the exponents decide first.
LEMMA ScaledOrder ==
  ASSUME NEW e \in Nat, NEW f \in Nat, NEW E \in Nat, NEW F \in Nat, NEW size \in Nat,
         NEW m \in Nat, NEW n \in Nat, m < size, n < size,
         e < f => E + size <= F, f < e => F + size <= E, e = f => E = F
  PROVE  E + m \in Nat /\ (E + m < F + n <=> (e < f \/ (e = f /\ m < n)))
  OBVIOUS

\* The comparison of fields in the loop of topLevel.sv (lines 90-113) orders
\* words by their values; only a zero of either sign is told apart.
THEOREM BetterIsGreater ==
  ASSUME NEW x \in Word, NEW max \in Word
  PROVE  /\ Value(max) < Value(x) => Better(x, max)
         /\ Better(x, max) => Value(max) <= Value(x)
<1> DEFINE size(w) == w.exp * ManSize + w.man
<1>1. /\ ManSize \in Nat /\ 0 < ManSize
      /\ x.exp \in Nat /\ max.exp \in Nat
      /\ x.man \in Nat /\ x.man < ManSize /\ max.man \in Nat /\ max.man < ManSize
      /\ x.sign \in {0, 1} /\ max.sign \in {0, 1}
  BY ClassAssumption DEF Word
<1>2. ASSUME NEW a \in Word, NEW b \in Word
      PROVE  /\ size(a) \in Nat
             /\ size(a) < size(b) <=> a.exp < b.exp \/ (a.exp = b.exp /\ a.man < b.man)
  <2>1. /\ a.exp \in Nat /\ b.exp \in Nat /\ ManSize \in Nat
        /\ a.man \in Nat /\ a.man < ManSize /\ b.man \in Nat /\ b.man < ManSize
    BY ClassAssumption DEF Word
  <2>2. \A m, n \in Nat : m < n => m * ManSize + ManSize <= n * ManSize
    <3> TAKE m, n \in Nat
    <3>1. m < n => (n - m) - 1 \in Nat
      OBVIOUS
    <3>2. \A k \in Nat : k * ManSize \in Nat
      BY <1>1
    <3>3. n * ManSize = (m + 1 + ((n - m) - 1)) * ManSize
      OBVIOUS
    <3>4. m < n => (m + 1 + ((n - m) - 1)) * ManSize
                     = (m * ManSize + ManSize) + ((n - m) - 1) * ManSize
      BY <1>1, <3>1
    <3> QED  BY <1>1, <3>1, <3>2, <3>3, <3>4
  <2>3. /\ a.exp * ManSize \in Nat /\ b.exp * ManSize \in Nat
        /\ a.exp < b.exp => a.exp * ManSize + ManSize <= b.exp * ManSize
        /\ b.exp < a.exp => b.exp * ManSize + ManSize <= a.exp * ManSize
        /\ a.exp = b.exp => a.exp * ManSize = b.exp * ManSize
    BY <2>1, <2>2
  <2> QED  BY <2>1, <2>3, ScaledOrder
<1>3. /\ size(x) \in Nat /\ size(max) \in Nat
      /\ size(x) < size(max) <=> x.exp < max.exp \/ (x.exp = max.exp /\ x.man < max.man)
      /\ size(max) < size(x) <=> max.exp < x.exp \/ (max.exp = x.exp /\ max.man < x.man)
  BY <1>2
<1>4. /\ Value(x) = (IF x.sign = 1 THEN -size(x) ELSE size(x))
      /\ Value(max) = (IF max.sign = 1 THEN -size(max) ELSE size(max))
  BY <1>3 DEF Value
<1> HIDE DEF size
<1> QED  BY <1>1, <1>3, <1>4 DEF Better

-----------------------------------------------------------------------------
(* The answer, and the engine the layers implement.                        *)

LEMMA ValueType == \A w \in Word : Value(w) \in Int
<1> TAKE w \in Word
<1>1. w.exp \in Nat /\ w.man \in Nat /\ ManSize \in Nat
  BY ClassAssumption DEF Word
<1>2. w.exp * ManSize \in Nat
  BY <1>1
<1> QED  BY <1>1, <1>2 DEF Value

\* The loop of topLevel.sv ends with a word no other one is greater than.
LEMMA LoopFindsBest ==
  ASSUME NEW out, \A n \in Class : out[n] \in Word,
         NEW max_num \in [Class -> Class], Turns(max_num, out)
  PROVE  \A n \in Class : Value(out[n]) <= Value(out[max_num[Classes - 1]])
<1> DEFINE Seen(k) == \A m \in Class : m < k \/ m = Classes - 1 =>
                                           Value(out[m]) <= Value(out[max_num[k]])
           Up == {k \in Nat : k \in Class => Seen(k)}
<1>1. /\ Classes \in Nat /\ 0 < Classes /\ Class \subseteq Nat
      /\ 0 \in Class /\ Classes - 1 \in Class
  BY ClassAssumption DEF Class
<1>2. \A m \in Class : Value(out[m]) \in Int /\ max_num[m] \in Class
  BY ValueType
<1>3. Seen(0)
  BY <1>1, <1>2 DEF Turns
<1>4. ASSUME NEW k \in Class, k # 0, Seen(k - 1)
      PROVE  Seen(k)
  <2>1. k \in 1 .. Classes - 1 /\ k - 1 \in Class /\ k \in Nat
    BY <1>1, <1>4 DEF Class
  <2> DEFINE max == max_num[k - 1]
  <2>2. max_num[k] = IF Better(out[k - 1], out[max]) THEN k - 1 ELSE max
    BY <2>1 DEF Turns
  <2>3. out[k - 1] \in Word /\ out[max] \in Word /\ max \in Class
    BY <1>2, <2>1
  <2>4. /\ Value(out[max]) < Value(out[k - 1]) => Better(out[k - 1], out[max])
        /\ Better(out[k - 1], out[max]) => Value(out[max]) <= Value(out[k - 1])
    BY <2>3, BetterIsGreater
  <2>5. Value(out[max]) \in Int /\ Value(out[k - 1]) \in Int
    BY <1>2, <2>1, <2>3
  <2>6. /\ Value(out[max]) <= Value(out[max_num[k]])
        /\ Value(out[k - 1]) <= Value(out[max_num[k]])
    BY <2>2, <2>4, <2>5
  <2>7. ASSUME NEW m \in Class, m < k \/ m = Classes - 1
        PROVE  Value(out[m]) <= Value(out[max_num[k]])
    <3>1. m = k - 1 \/ m < k - 1 \/ m = Classes - 1
      BY <1>1, <2>1, <2>7
    <3>2. m # k - 1 => Value(out[m]) <= Value(out[max])
      BY <1>4, <3>1
    <3>3. Value(out[m]) \in Int /\ Value(out[max_num[k]]) \in Int
      BY <1>2
    <3> QED  BY <2>5, <2>6, <3>2, <3>3
  <2> QED  BY <2>7
<1>5. Nat \subseteq Up
  <2>1. 0 \in Up
    BY <1>3
  <2>2. ASSUME NEW k \in Nat, k \in Up
        PROVE  k + 1 \in Up
    <3>1. k + 1 \in Class => k \in Class /\ (k + 1) - 1 = k /\ k + 1 # 0
      BY <1>1 DEF Class
    <3> QED  BY <1>4, <2>2, <3>1
  <2> HIDE DEF Up
  <2> QED  BY <2>1, <2>2, AllNumbers
<1>6. Seen(Classes - 1)
  BY <1>1, <1>5
<1>7. \A n \in Class : n < Classes - 1 \/ n = Classes - 1
  BY <1>1 DEF Class
<1> QED  BY <1>6, <1>7

\* With linLay waiting the answer is a best class of the picture.
LEMMA AnswerIsBest ==
  ASSUME IInv, DataInv, st[4] = "ENDWAIT", endShake'[4], ~endShake[4], CalcOut
  PROVE  calc_out' \in Best(picture)
<1> DEFINE score(n) == Affine(picture, Mean(picture), n)
<1>1. picture \in Pictures /\ 4 \in Layers /\ Length[4] = Classes
  BY DEF IInv, TypeOK, Layers, Length
<1>2. at[4] = Classes
  BY <1>1 DEF DataInv, PassInv
<1>3. \A n \in Class : fourthOut[n] = score(n) /\ score(n) \in Word
  <2>1. \A n \in Class : n < Classes
    BY ClassAssumption DEF Class
  <2> QED  BY <1>1, <1>2, <2>1, AffineAssumption DEF DataInv, FourthInv
<1>4. PICK max_num \in [Class -> Class] :
          Turns(max_num, fourthOut) /\ calc_out' = max_num[Classes - 1]
  BY DEF CalcOut
<1>5. \A n \in Class : Value(fourthOut[n]) <= Value(fourthOut[calc_out'])
  BY <1>3, <1>4, LoopFindsBest
<1>6. calc_out' \in Class
  BY <1>4, ClassAssumption DEF Class
<1>7. \A n \in Class : Score[picture][n] = Value(fourthOut[n])
  BY <1>1, <1>3 DEF Score
<1> QED  BY <1>5, <1>6, <1>7 DEF Best

\* The layers have begun.
Busy == \E l \in Layers : st[l] # "INITWAIT"

\* A cycle begins a calculation, goes on with it or hands its answer off.
LEMMA RunEngine ==
  ASSUME IInv, DataInv, NEW moves \in SUBSET Working, Run(moves)
  PROVE  Eng!Begin \/ Eng!HandOff \/ Eng!Stay
<1>1. 4 \in Layers /\ 1 \in Layers
  BY DEF Layers
<1>2. /\ resetn
      /\ endShake'[4] = (st[4] = "ENDWAIT")
      /\ endShake[4] => st[4] = "ENDWAIT"
  BY <1>1, RunMoves DEF Taken, IInv, HandInv
<1>3. CalcOut
  BY DEF Run
<1>4. endShake[4] => Busy
  BY <1>1, <1>2 DEF Busy
<1>5. Busy => Busy'
  <2> SUFFICES ASSUME NEW l \in Layers, st[l] # "INITWAIT" PROVE Busy'
    BY DEF Busy
  <2>1. CASE st[l] = "CLEANUP"
    <3>1. l + 1 \in Layers /\ st[l + 1] \in {"WORK", "ENDWAIT"}
      BY <2>1 DEF DataInv, PassInv, Layers
    <3>2. st'[l + 1] # "INITWAIT"
      BY <3>1, RunMoves DEF NextState
    <3> QED  BY <3>1, <3>2 DEF Busy
  <2>2. CASE st[l] # "CLEANUP"
    <3>1. st'[l] # "INITWAIT"
      BY <2>2, RunMoves DEF NextState, States
    <3> QED  BY <3>1 DEF Busy
  <2> QED  BY <2>1, <2>2
<1>6. ~Busy => (Busy' <=> startFlag)
  <2> SUFFICES ASSUME ~Busy PROVE Busy' <=> startFlag
    OBVIOUS
  <2>1. \A l \in Layers : st[l] = "INITWAIT" /\ st'[l] = IF Asked(l) THEN "INITHAND" ELSE "INITWAIT"
    BY RunMoves DEF Busy, NextState
  <2>2. \A l \in Layers : l # 1 => ~Asked(l)
    <3> TAKE l \in Layers
    <3>1. l # 1 => l - 1 \in Layers
      BY DEF Layers
    <3> QED  BY <2>1, <3>1 DEF Asked, IInv, HandInv
  <2>3. Asked(1) = startFlag
    BY DEF Asked
  <2> QED  BY <1>1, <2>1, <2>2, <2>3 DEF Busy
<1>7. CASE endShake'[4] /\ ~endShake[4]
  <2>1. calc_out' \in Best(picture)
    BY <1>2, <1>3, <1>7, AnswerIsBest
  <2>2. Busy
    BY <1>1, <1>2, <1>7 DEF Busy
  <2> QED  BY <1>2, <1>7, <2>1, <2>2 DEF Eng!HandOff, Busy
<1>8. CASE ~(endShake'[4] /\ ~endShake[4])
  <2>1. calc_out' = calc_out
    BY <1>3, <1>8 DEF CalcOut
  <2>2. endShake[4] = endShake'[4] \/ (endShake[4] /\ ~endShake'[4])
    BY <1>1, <1>2, <1>8 DEF IInv, TypeOK
  <2>3. endShake'[4] = endShake[4]
    BY <1>2, <2>2
  <2>4. CASE ~Busy /\ startFlag
    BY <1>2, <1>4, <1>6, <2>1, <2>3, <2>4 DEF Eng!Begin, Busy
  <2>5. CASE ~(~Busy /\ startFlag)
    BY <1>2, <1>5, <1>6, <2>1, <2>3, <2>5 DEF Eng!Stay, Busy
  <2> QED  BY <2>4, <2>5
<1> QED  BY <1>7, <1>8

LEMMA StepEngine == IInv /\ DataInv /\ [Next]_vars => [Eng!Next]_(Eng!vars)
<1> SUFFICES ASSUME IInv, DataInv, [Next]_vars PROVE [Eng!Next]_(Eng!vars)
  OBVIOUS
<1>1. CASE Next
  <2>1. Eng!Environment
    BY <1>1 DEF Next
  <2>2. CASE Reset
    <3>1. 4 \in Layers
      BY DEF Layers
    <3>2. ~resetn /\ calc_out' = calc_out /\ ~endShake'[4] /\ ~Busy'
      BY <2>2, <3>1 DEF Reset, Busy
    <3> QED  BY <2>1, <3>2 DEF Eng!Next, Eng!Cleared, Busy
  <2>3. CASE \E moves \in SUBSET Working : Run(moves)
    BY <2>1, <2>3, RunEngine DEF Eng!Next
  <2> QED  BY <1>1, <2>2, <2>3 DEF Next
<1>2. CASE UNCHANGED vars
  BY <1>2 DEF vars, inputs, data, Eng!vars
<1> QED  BY <1>1, <1>2

\* At any speed of the layers, however often those before start over, and with
\* resets at any moment, the row of layers of topLevel.sv is the engine that
\* second_top.sv starts, waits for and clears: one hand-off, with a best class
\* of the picture, held until the reset.
THEOREM RowIsEngine == Spec => ImplementsEngine
<1>1. Init => Eng!Init
  <2> SUFFICES ASSUME Init PROVE Eng!Init
    OBVIOUS
  <2>1. 4 \in Layers
    BY DEF Layers
  <2>2. ~endShake[4] /\ ~Busy
    BY <2>1 DEF Init, Busy
  <2> QED  BY <2>2 DEF Init, Eng!Init, Busy
<1> QED  BY <1>1, DataInvariance, StepEngine, PTL DEF Spec, ImplementsEngine, Eng!Spec
=============================================================================
