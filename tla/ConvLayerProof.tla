--------------------------- MODULE ConvLayerProof ---------------------------
(***************************************************************************)
(* For all sizes, pictures, weights and arithmetic: every tap once in      *)
(* every total, no index out of its range, and the totals and the output   *)
(* the convolution, which stays in place behind the hand-off.              *)
(***************************************************************************)
EXTENDS ConvLayer, NumberLemmas, TLAPS

\* Tap p is visited before tap q.
Before(p, q) == p[2] < q[2] \/ (p[2] = q[2] /\ p[1] < q[1])

\* The states after the last tap of an output, and those in which the tap at
\* hand is in the total.
Full  == {"ASSIGNOUT", "UPDATELOC", "ENDWAIT", "CLEANUP"}
Added == Full \cup {"UPDATEWR"}

CInv ==
    /\ TypeOK
    /\ summed = {t \in Taps : \/ Before(t, calculatingWith)
                              \/ st \in Added /\ t = calculatingWith}
    /\ st \in Full => Last(calculatingWith, Kern)
    /\ st = "UPDATELOC" => ~Last(writingTo, Side)

----------------------------------------------------------------------------
(* Pairs of indices *)

\* The successor of a pair that is not the last one is a pair again.
LEMMA NextInRange ==
    ASSUME NEW n \in Nat \ {0}, NEW p \in (0 .. n - 1) \X (0 .. n - 1),
           ~Last(p, n)
    PROVE  NextOf(p, n) \in (0 .. n - 1) \X (0 .. n - 1)
<1>1. PICK x \in 0 .. n - 1, y \in 0 .. n - 1 : p = <<x, y>>
  OBVIOUS
<1>2. x < n - 1 \/ y < n - 1
  BY <1>1 DEF Last
<1>3. CASE x < n - 1
  BY <1>1, <1>3 DEF NextOf
<1>4. CASE ~(x < n - 1)
  BY <1>1, <1>2, <1>4 DEF NextOf
<1> QED BY <1>3, <1>4

\* What comes before the successor is the pair and what comes before it.
LEMMA BeforeNext ==
    ASSUME NEW n \in Nat \ {0}, NEW p \in (0 .. n - 1) \X (0 .. n - 1),
           NEW q \in (0 .. n - 1) \X (0 .. n - 1)
    PROVE  Before(q, NextOf(p, n)) <=> Before(q, p) \/ q = p
<1>1. PICK x \in 0 .. n - 1, y \in 0 .. n - 1 : p = <<x, y>>
  OBVIOUS
<1>2. PICK u \in 0 .. n - 1, v \in 0 .. n - 1 : q = <<u, v>>
  OBVIOUS
<1>3. CASE x < n - 1
  BY <1>1, <1>2, <1>3 DEF NextOf, Before
<1>4. CASE ~(x < n - 1)
  BY <1>1, <1>2, <1>4 DEF NextOf, Before
<1> QED BY <1>3, <1>4

\* Every pair is the last one or before it.
LEMMA BeforeLast ==
    ASSUME NEW n \in Nat \ {0}, NEW q \in (0 .. n - 1) \X (0 .. n - 1)
    PROVE  Before(q, <<n - 1, n - 1>>) \/ q = <<n - 1, n - 1>>
<1>1. PICK u \in 0 .. n - 1, v \in 0 .. n - 1 : q = <<u, v>>
  OBVIOUS
<1> QED BY <1>1 DEF Before

\* No pair is before itself, and none before the first.
LEMMA BeforeFirst ==
    ASSUME NEW n \in Nat \ {0}, NEW q \in (0 .. n - 1) \X (0 .. n - 1)
    PROVE  ~Before(q, <<0, 0>>) /\ ~Before(q, q)
<1>1. PICK u \in 0 .. n - 1, v \in 0 .. n - 1 : q = <<u, v>>
  OBVIOUS
<1> QED BY <1>1 DEF Before

----------------------------------------------------------------------------
(* Steps *)

LEMMA FirstPlace ==
    <<0, 0>> \in OutLocs /\ <<0, 0>> \in Taps
BY SizeAssumption DEF OutLocs, Taps

\* A step that starts over leaves no tap summed.
LEMMA ClearedStep ==
    ASSUME CInv, Cleared, st' = "INITWAIT", handOff' \in BOOLEAN,
           given' \in BOOLEAN, DOMAIN out' = OutLocs
    PROVE  CInv'
<1>1. \A t \in Taps : ~Before(t, <<0, 0>>)
  BY BeforeFirst, SizeAssumption DEF Taps
<1>2. TypeOK'
  BY FirstPlace DEF CInv, TypeOK, Cleared, States
<1> QED BY <1>1, <1>2 DEF CInv, Cleared, Full, Added

\* The steps that leave place and sums alone keep the taps.
LEMMA QuietStep ==
    ASSUME CInv, UNCHANGED <<place, summed>>, TypeOK',
           st' \in Added <=> st \in Added,
           st' \in Full => st \in Full, st' # "UPDATELOC"
    PROVE  CInv'
BY DEF CInv, place, Last

LEMMA UpdateWrStep == CInv /\ UpdateWr => CInv'
<1> SUFFICES ASSUME CInv, UpdateWr PROVE CInv'
  OBVIOUS
<1>1. /\ st = "UPDATEWR" /\ calculatingWith \in Taps /\ summed' = summed
      /\ writingTo' = writingTo
  BY DEF CInv, TypeOK, UpdateWr, hist
<1>2. CASE Last(calculatingWith, Kern)
  BY <1>1, <1>2 DEF CInv, TypeOK, UpdateWr, States, Full, Added, sums, hist
<1>3. CASE ~Last(calculatingWith, Kern)
  <2>1. st' = "CONVOP" /\ calculatingWith' = NextOf(calculatingWith, Kern)
    BY <1>3 DEF UpdateWr
  <2>2. calculatingWith' \in Taps
    BY <1>1, <1>3, <2>1, NextInRange, SizeAssumption DEF Taps
  <2>3. \A t \in Taps : Before(t, calculatingWith')
                          <=> Before(t, calculatingWith) \/ t = calculatingWith
    BY <1>1, <2>1, BeforeNext, SizeAssumption DEF Taps
  <2>4. TypeOK'
    BY <2>1, <2>2 DEF CInv, TypeOK, UpdateWr, States, sums, hist
  <2> QED BY <1>1, <2>1, <2>3, <2>4 DEF CInv, Full, Added
<1> QED BY <1>2, <1>3

LEMMA UpdateLocStep == CInv /\ UpdateLoc => CInv'
<1> SUFFICES ASSUME CInv, UpdateLoc PROVE CInv'
  OBVIOUS
<1>1. writingTo' \in OutLocs
  BY NextInRange, SizeAssumption DEF CInv, TypeOK, UpdateLoc, OutLocs
<1>2. \A t \in Taps : ~Before(t, <<0, 0>>)
  BY BeforeFirst, SizeAssumption DEF Taps
<1>3. TypeOK'
  BY <1>1, FirstPlace DEF CInv, TypeOK, UpdateLoc, States
<1> QED BY <1>2, <1>3 DEF CInv, UpdateLoc, Full, Added

LEMMA ConvAddDoneStep == CInv /\ ConvAddDone => CInv'
<1> SUFFICES ASSUME CInv, ConvAddDone PROVE CInv'
  OBVIOUS
<1>1. calculatingWith \in Taps /\ UNCHANGED place
  BY DEF CInv, TypeOK, ConvAddDone
<1>2. TypeOK'
  BY <1>1 DEF CInv, TypeOK, ConvAddDone, States, place
<1> QED BY <1>1, <1>2 DEF CInv, ConvAddDone, Full, Added, place

LEMMA AssignOutStep == CInv /\ AssignOut => CInv'
<1> SUFFICES ASSUME CInv, AssignOut PROVE CInv'
  OBVIOUS
<1>1. TypeOK'
  BY DEF CInv, TypeOK, AssignOut, States, place, sums, hist
<1> QED BY <1>1 DEF CInv, AssignOut, Full, Added, Last, place, hist

----------------------------------------------------------------------------
(* Theorems *)

\* The inductive invariant.
THEOREM TapInvariance == Spec => []CInv
<1>1. Init => CInv
  <2> SUFFICES ASSUME Init PROVE CInv
    OBVIOUS
  <2>1. \A t \in Taps : ~Before(t, <<0, 0>>)
    BY BeforeFirst, SizeAssumption DEF Taps
  <2>2. TypeOK
    BY FirstPlace DEF Init, TypeOK, States
  <2> QED BY <2>1, <2>2 DEF Init, CInv, Full, Added
<1>2. CInv /\ [Next]_vars => CInv'
  <2> SUFFICES ASSUME CInv, [Next]_vars PROVE CInv'
    OBVIOUS
  <2>1. CASE Start
    <3>1. TypeOK'
      BY <2>1 DEF CInv, TypeOK, Start, States, place, sums, hist
    <3> QED BY <2>1, <3>1, QuietStep DEF Start, hist, Full, Added
  <2>2. CASE ConvOp
    <3>1. TypeOK'
      BY <2>2 DEF CInv, TypeOK, ConvOp, Block, States, place, hist
    <3> QED BY <2>2, <3>1, QuietStep DEF ConvOp, hist, Full, Added
  <2>3. CASE ConvMulDone
    <3>1. TypeOK'
      BY <2>3 DEF CInv, TypeOK, ConvMulDone, States, place, hist
    <3> QED BY <2>3, <3>1, QuietStep DEF ConvMulDone, hist, Full, Added
  <2>4. CASE ConvMulAddDone
    <3>1. TypeOK'
      BY <2>4 DEF CInv, TypeOK, ConvMulAddDone, States, place, hist
    <3> QED BY <2>4, <3>1, QuietStep DEF ConvMulAddDone, hist, Full, Added
  <2>5. CASE ConvAddDone
    BY <2>5, ConvAddDoneStep
  <2>6. CASE UpdateWr
    BY <2>6, UpdateWrStep
  <2>7. CASE AssignOut
    BY <2>7, AssignOutStep
  <2>8. CASE UpdateLoc
    BY <2>8, UpdateLocStep
  <2>9. CASE EndWait
    <3>1. TypeOK'
      BY <2>9 DEF CInv, TypeOK, EndWait, States, place, sums
    <3> QED BY <2>9, <3>1, QuietStep DEF EndWait, Full, Added
  <2>10. CASE ReadyNext
    <3>1. TypeOK'
      BY <2>10 DEF CInv, TypeOK, ReadyNext, States, place, sums, hist
    <3> QED BY <2>10, <3>1, QuietStep DEF ReadyNext, hist, Full, Added
  <2>11. CASE CleanUp
    BY <2>11, ClearedStep DEF CInv, TypeOK, CleanUp
  <2>12. CASE Reset
    BY <2>12, ClearedStep DEF CInv, TypeOK, Reset
  <2>13. CASE UNCHANGED vars
    BY <2>13 DEF CInv, TypeOK, Last, vars, place, sums, hist
  <2> QED BY <2>1, <2>2, <2>3, <2>4, <2>5, <2>6, <2>7, <2>8, <2>9, <2>10,
             <2>11, <2>12, <2>13 DEF Next, Answer, Move
<1> QED BY <1>1, <1>2, PTL DEF Spec

\* For all sizes the loop indices stay within the picture, the weights and
\* the output (convLayer1.sv lines 355-378).
THEOREM TypeCorrect == Spec => []TypeOK
<1>1. CInv => TypeOK
  BY DEF CInv
<1> QED BY <1>1, TapInvariance, PTL

\* For all sizes no tap is added twice to a total and none is missing when
\* the total is assigned (convLayer1.sv lines 227-262).
THEOREM TapsOnce == Spec => []EveryTapOnce
<1>1. CInv => EveryTapOnce
  <2> SUFFICES ASSUME CInv PROVE EveryTapOnce
    OBVIOUS
  <2>1. calculatingWith \in Taps
    BY DEF CInv, TypeOK
  <2>2. ~Before(calculatingWith, calculatingWith)
    BY <2>1, BeforeFirst, SizeAssumption DEF Taps
  <2>3. st = "CONVADDDONE" => calculatingWith \notin summed
    BY <2>2 DEF CInv, Full, Added
  <2>4. ASSUME st = "ASSIGNOUT" PROVE summed = Taps
    <3>1. calculatingWith = <<Kern - 1, Kern - 1>>
      BY <2>4 DEF CInv, Full, Last
    <3>2. \A t \in Taps : Before(t, calculatingWith) \/ t = calculatingWith
      BY <3>1, BeforeLast, SizeAssumption DEF Taps
    <3> QED BY <2>4, <3>2 DEF CInv, Full, Added
  <2> QED BY <2>3, <2>4 DEF EveryTapOnce
<1> QED BY <1>1, TapInvariance, PTL

----------------------------------------------------------------------------
(* The totals                                                              *)

\* The taps before t.
Number(t) == t[1] + Kern * t[2]

\* Total f after no more than m taps of window l.
Adds(l, f, m) ==
    f = [n \in 0 .. m |-> IF n = 0 THEN Zero
                          ELSE Add(Term(l, <<(n - 1) % Kern, (n - 1) \div Kern>>), f[n - 1])]

\* What stands in the registers at every state of the machine.
TotalInv ==
    /\ st = "INITWAIT" => /\ writingTo = <<0, 0>> /\ calculatingWith = <<0, 0>>
                          /\ runningTotal = Zero
    /\ st \in {"CONVOP", "CONVMULDONE", "CONVMULADDDONE", "CONVADDDONE"} =>
           runningTotal = Totals(writingTo)[Number(calculatingWith)]
    /\ st \in {"UPDATEWR", "ASSIGNOUT"} =>
           runningTotal = Totals(writingTo)[Number(calculatingWith) + 1]
    /\ st \in {"CONVMULDONE", "CONVMULADDDONE"} => convArea = Block(writingTo)
    /\ st = "CONVMULADDDONE" =>
           tempMultValue = Mul(Block(writingTo)[calculatingWith], Weight[calculatingWith])
    /\ st = "CONVADDDONE" => tempMultValue = Term(writingTo, calculatingWith)

\* The outputs assigned since the reset; all of them once it was handed off,
\* also while the layer assigns them again.
Assigned(l) ==
    \/ given
    \/ Before(l, writingTo)
    \/ st \in {"UPDATELOC", "ENDWAIT", "CLEANUP"} /\ l = writingTo

OutInv ==
    /\ out = [l \in OutLocs |-> out[l]]
    /\ handOff => st = "ENDWAIT" /\ given
    /\ st = "CLEANUP" => given
    /\ st = "ENDWAIT" => Last(writingTo, Side)
    /\ \A l \in OutLocs : Assigned(l) => out[l] = Convolution[l]

SumInv == TotalInv /\ OutInv

\* There is such a total for any number of taps.
LEMMA AddsExist ==
  ASSUME NEW l
  PROVE  \A m \in Nat : \E f : Adds(l, f, m)
<1> DEFINE With == {m \in Nat : \E f : Adds(l, f, m)}
<1>1. \E f : Adds(l, f, 0)
  <2> DEFINE f == [n \in 0 .. 0 |-> Zero]
  <2>1. Adds(l, f, 0)
    BY DEF Adds
  <2> QED  BY <2>1
<1>2. ASSUME NEW m \in Nat, \E f : Adds(l, f, m)
      PROVE  \E f : Adds(l, f, m + 1)
  <2>1. PICK f : Adds(l, f, m)
    BY <1>2
  <2> DEFINE last == Add(Term(l, <<m % Kern, m \div Kern>>), f[m])
             g == [n \in 0 .. m + 1 |-> IF n = m + 1 THEN last ELSE f[n]]
  <2>2. \A n \in 0 .. m : f[n] = IF n = 0 THEN Zero
                            ELSE Add(Term(l, <<(n - 1) % Kern, (n - 1) \div Kern>>), f[n - 1])
    BY <2>1 DEF Adds
  <2>3. \A n \in 0 .. m + 1 :
            g[n] = IF n = 0 THEN Zero
                   ELSE Add(Term(l, <<(n - 1) % Kern, (n - 1) \div Kern>>), g[n - 1])
    <3> TAKE n \in 0 .. m + 1
    <3>1. CASE n = m + 1
      <4>1. n - 1 = m /\ n # 0 /\ g[n - 1] = f[m]
        BY <3>1
      <4> QED  BY <3>1, <4>1
    <3>2. CASE n # m + 1
      <4>1. n \in 0 .. m /\ g[n] = f[n] /\ (n # 0 => g[n - 1] = f[n - 1])
        BY <3>2
      <4> QED  BY <2>2, <4>1
    <3> QED  BY <3>1, <3>2
  <2>4. g = [n \in 0 .. m + 1 |-> g[n]]
    OBVIOUS
  <2> HIDE DEF g
  <2>5. Adds(l, g, m + 1)
    BY <2>3, <2>4 DEF Adds
  <2> QED  BY <2>5
<1>3. 0 \in With /\ \A m \in Nat : m \in With => m + 1 \in With
  BY <1>1, <1>2
<1>4. Nat \subseteq With
  <2> HIDE DEF With
  <2> QED  BY <1>3, AllNumbers
<1> QED  BY <1>4

LEMMA TotalsGrow ==
  ASSUME NEW l
  PROVE  /\ Totals(l)[0] = Zero
         /\ \A n \in 0 .. Kern * Kern - 1 :
                Totals(l)[n + 1] = Add(Term(l, <<n % Kern, n \div Kern>>), Totals(l)[n])
<1>1. Kern * Kern \in Nat
  BY SizeAssumption
<1>2. Totals(l) = CHOOSE f : Adds(l, f, Kern * Kern)
  BY DEF Totals, Adds
<1>3. Adds(l, Totals(l), Kern * Kern)
  BY <1>1, <1>2, AddsExist
<1> DEFINE f == Totals(l)
<1>4. \A n \in 0 .. Kern * Kern :
          f[n] = IF n = 0 THEN Zero
                 ELSE Add(Term(l, <<(n - 1) % Kern, (n - 1) \div Kern>>), f[n - 1])
  BY <1>3 DEF Adds
<1> HIDE DEF f
<1>5. f[0] = Zero
  <2>1. 0 \in 0 .. Kern * Kern
    BY <1>1
  <2> QED  BY <1>4, <2>1
<1>6. \A n \in 0 .. Kern * Kern - 1 :
          n + 1 \in 0 .. Kern * Kern /\ n + 1 # 0 /\ (n + 1) - 1 = n
  BY <1>1
<1>7. \A n \in 0 .. Kern * Kern - 1 :
          f[n + 1] = Add(Term(l, <<n % Kern, n \div Kern>>), f[n])
  BY <1>4, <1>6
<1> QED  BY <1>5, <1>7 DEF f

\* A tap and its number.
LEMMA TapNumber ==
  ASSUME NEW t \in Taps
  PROVE  /\ Number(t) \in 0 .. Kern * Kern - 1
         /\ <<Number(t) % Kern, Number(t) \div Kern>> = t
         /\ Last(t, Kern) => Number(t) + 1 = Kern * Kern
         /\ ~Last(t, Kern) => Number(NextOf(t, Kern)) = Number(t) + 1
<1>1. PICK x \in 0 .. Kern - 1, y \in 0 .. Kern - 1 : t = <<x, y>>
  BY DEF Taps
<1>2. Kern \in Nat \ {0} /\ y \in Nat /\ t[1] = x /\ t[2] = y
  BY <1>1, SizeAssumption
<1>3. Number(t) = x + Kern * y
  BY <1>2 DEF Number
<1>4. /\ x + Kern * y \in Nat
      /\ (x + Kern * y) % Kern = x /\ (x + Kern * y) \div Kern = y
  BY <1>2, RowAndColumn
<1>5. /\ Kern * y \in Nat /\ Kern * Kern \in Nat
      /\ Kern * (y + 1) = Kern * y + Kern /\ Kern * (Kern - 1) = Kern * Kern - Kern
  BY <1>2
<1>6. Kern * y <= Kern * Kern - Kern
  <2>1. (Kern - 1) - y \in Nat
    BY <1>2
  <2>2. Kern * ((Kern - 1) - y) \in Nat
    BY <1>2, <2>1
  <2>3. Kern * ((Kern - 1) - y) = (Kern * Kern - Kern) - Kern * y
    BY <1>2
  <2>4. \A a, b, c \in Int : c \in Nat /\ c = b - a => a <= b
    OBVIOUS
  <2>5. Kern * Kern - Kern \in Int /\ Kern * y \in Int /\ Kern * ((Kern - 1) - y) \in Int
    BY <1>2, <1>5, <2>2
  <2> QED  BY <2>2, <2>3, <2>4, <2>5
<1>7. Number(t) \in 0 .. Kern * Kern - 1
  BY <1>2, <1>3, <1>4, <1>5, <1>6
<1>8. Last(t, Kern) => Number(t) + 1 = Kern * Kern
  <2>1. Last(t, Kern) => x = Kern - 1 /\ y = Kern - 1
    BY <1>1 DEF Last
  <2> QED  BY <1>2, <1>3, <1>5, <2>1
<1>9. ~Last(t, Kern) => Number(NextOf(t, Kern)) = Number(t) + 1
  <2>1. NextOf(t, Kern) = IF x < Kern - 1 THEN <<x + 1, y>> ELSE <<0, y + 1>>
    BY <1>1, <1>2 DEF NextOf
  <2>2. Number(NextOf(t, Kern)) = IF x < Kern - 1 THEN (x + 1) + Kern * y
                                  ELSE 0 + Kern * (y + 1)
    BY <2>1 DEF Number
  <2> QED  BY <1>2, <1>3, <1>5, <2>2
<1> QED  BY <1>1, <1>3, <1>4, <1>7, <1>8, <1>9

LEMMA FirstNumber == Number(<<0, 0>>) = 0
BY SizeAssumption DEF Number

\* A tap is added to the total of the window the layer is at.
LEMMA TotalStep == CInv /\ TotalInv /\ [Next]_vars => TotalInv'
<1> SUFFICES ASSUME CInv, TotalInv, [Next]_vars PROVE TotalInv'
  OBVIOUS
<1>1. calculatingWith \in Taps /\ writingTo \in OutLocs
  BY DEF CInv, TypeOK
<1>2. \A l : Totals(l)[Number(<<0, 0>>)] = Zero
  BY FirstNumber, TotalsGrow
<1>3. Block(writingTo)[calculatingWith]
        = Picture[<<Kern * writingTo[1] + calculatingWith[1],
                    Kern * writingTo[2] + calculatingWith[2]>>]
  BY <1>1 DEF Block
<1>4. CASE Start
  BY <1>2, <1>4 DEF TotalInv, Start, place, sums
<1>5. CASE ConvOp
  BY <1>5 DEF TotalInv, ConvOp, place
<1>6. CASE ConvMulDone
  BY <1>6 DEF TotalInv, ConvMulDone, place
<1>7. CASE ConvMulAddDone
  <2>1. tempMultValue' = Term(writingTo, calculatingWith)
    BY <1>3, <1>7 DEF TotalInv, ConvMulAddDone, Term
  <2> QED  BY <1>7, <2>1 DEF TotalInv, ConvMulAddDone, place
<1>8. CASE ConvAddDone
  <2> DEFINE n == Number(calculatingWith)
  <2>1. n \in 0 .. Kern * Kern - 1 /\ <<n % Kern, n \div Kern>> = calculatingWith
    BY <1>1, TapNumber
  <2>2. Totals(writingTo)[n + 1]
          = Add(Term(writingTo, calculatingWith), Totals(writingTo)[n])
    BY <2>1, TotalsGrow
  <2>3. runningTotal' = Totals(writingTo)[n + 1]
    BY <1>8, <2>2 DEF TotalInv, ConvAddDone
  <2> QED  BY <1>8, <2>3 DEF TotalInv, ConvAddDone, place
<1>9. CASE UpdateWr
  <2>1. ~Last(calculatingWith, Kern) =>
            Number(NextOf(calculatingWith, Kern)) = Number(calculatingWith) + 1
    BY <1>1, TapNumber
  <2> QED  BY <1>9, <2>1 DEF TotalInv, UpdateWr, sums
<1>10. CASE AssignOut
  BY <1>10 DEF TotalInv, AssignOut
<1>11. CASE UpdateLoc
  BY <1>2, <1>11 DEF TotalInv, UpdateLoc
<1>12. CASE EndWait
  BY <1>12 DEF TotalInv, EndWait
<1>13. CASE ReadyNext
  BY <1>13 DEF TotalInv, ReadyNext
<1>14. CASE CleanUp
  BY <1>14 DEF TotalInv, CleanUp, Cleared
<1>15. CASE Reset
  BY <1>15 DEF TotalInv, Reset, Cleared
<1>16. CASE UNCHANGED vars
  BY <1>16 DEF TotalInv, vars, place, sums
<1> QED  BY <1>4, <1>5, <1>6, <1>7, <1>8, <1>9, <1>10, <1>11, <1>12, <1>13, <1>14,
            <1>15, <1>16 DEF Next, Answer, Move

\* A finished total, rectified, is the convolution at its place.
LEMMA AssignsConvolution ==
  ASSUME CInv, TotalInv, st = "ASSIGNOUT"
  PROVE  Rectified(runningTotal) = Convolution[writingTo]
<1>1. calculatingWith \in Taps /\ writingTo \in OutLocs /\ Last(calculatingWith, Kern)
  BY DEF CInv, TypeOK, Full
<1>2. Number(calculatingWith) + 1 = Kern * Kern
  BY <1>1, TapNumber
<1> QED  BY <1>1, <1>2 DEF TotalInv, Convolution

\* Outputs are assigned in order, and assigned the same again.
LEMMA OutStep == CInv /\ SumInv /\ [Next]_vars => OutInv'
<1> SUFFICES ASSUME CInv, SumInv, [Next]_vars PROVE OutInv'
  OBVIOUS
<1> USE DEF SumInv
<1>1. writingTo \in OutLocs
  BY DEF CInv, TypeOK
\* Steps that assign nothing and leave the place.
<1>2. ASSUME UNCHANGED <<writingTo, out, given>>,
             st \in {"UPDATELOC", "ENDWAIT", "CLEANUP"}
               <=> st' \in {"UPDATELOC", "ENDWAIT", "CLEANUP"}
      PROVE  /\ out' = [l \in OutLocs |-> out'[l]]
             /\ \A l \in OutLocs : Assigned(l)' => out'[l] = Convolution[l]
  BY <1>2 DEF OutInv, Assigned
<1>3. CASE Start
  BY <1>2, <1>3 DEF OutInv, Start, place, hist
<1>4. CASE ConvOp
  BY <1>2, <1>4 DEF OutInv, ConvOp, place, hist
<1>5. CASE ConvMulDone
  BY <1>2, <1>5 DEF OutInv, ConvMulDone, place, hist
<1>6. CASE ConvMulAddDone
  BY <1>2, <1>6 DEF OutInv, ConvMulAddDone, place, hist
<1>7. CASE ConvAddDone
  BY <1>2, <1>7 DEF OutInv, ConvAddDone, place
<1>8. CASE UpdateWr
  BY <1>2, <1>8 DEF OutInv, UpdateWr, hist
<1>9. CASE AssignOut
  <2>1. /\ out' = [out EXCEPT ![writingTo] = Convolution[writingTo]]
        /\ UNCHANGED <<writingTo, handOff, given>> /\ ~handOff
        /\ st' \in {"UPDATELOC", "ENDWAIT"} /\ (st' = "ENDWAIT" => Last(writingTo, Side))
        /\ st = "ASSIGNOUT"
    BY <1>9, AssignsConvolution DEF OutInv, AssignOut, place, hist
  <2>2. out' = [l \in OutLocs |-> IF l = writingTo THEN Convolution[writingTo] ELSE out[l]]
    BY <2>1 DEF OutInv
  <2>3. ASSUME NEW l \in OutLocs, Assigned(l)'
        PROVE  out'[l] = Convolution[l]
    <3>1. l = writingTo \/ Assigned(l)
      BY <2>1, <2>3 DEF Assigned
    <3> QED  BY <2>2, <3>1 DEF OutInv
  <2>4. out' = [l \in OutLocs |-> out'[l]]
    BY <2>2
  <2> QED  BY <2>1, <2>3, <2>4 DEF OutInv, Last
<1>10. CASE UpdateLoc
  <2>1. ASSUME NEW l \in OutLocs
        PROVE  Before(l, NextOf(writingTo, Side)) <=> Before(l, writingTo) \/ l = writingTo
    BY <1>1, BeforeNext, SizeAssumption DEF OutLocs
  <2>2. ASSUME NEW l \in OutLocs, Assigned(l)'
        PROVE  Assigned(l)
    BY <1>10, <2>1, <2>2 DEF Assigned, UpdateLoc
  <2> QED  BY <1>10, <2>2 DEF OutInv, UpdateLoc
<1>11. CASE EndWait
  <2>1. writingTo = <<Side - 1, Side - 1>> /\ st = "ENDWAIT"
    BY <1>11 DEF OutInv, EndWait, Last
  <2>2. ASSUME NEW l \in OutLocs
        PROVE  Assigned(l)
    <3>1. Before(l, <<Side - 1, Side - 1>>) \/ l = <<Side - 1, Side - 1>>
      BY BeforeLast, SizeAssumption DEF OutLocs
    <3> QED  BY <2>1, <3>1 DEF Assigned
  <2> QED  BY <1>11, <2>2 DEF OutInv, EndWait, place, Last
<1>12. CASE ReadyNext
  BY <1>2, <1>12 DEF OutInv, ReadyNext, place, hist
<1>13. CASE CleanUp
  <2>1. given' /\ out' = out /\ st' = "INITWAIT" /\ handOff' = handOff /\ ~handOff /\ given
    BY <1>13 DEF OutInv, CleanUp
  <2> QED  BY <2>1 DEF OutInv, Assigned
<1>14. CASE Reset
  <2>1. \A l \in OutLocs : ~Assigned(l)'
    BY <1>14, BeforeFirst, SizeAssumption DEF Reset, Cleared, Assigned, OutLocs
  <2> QED  BY <1>14, <2>1 DEF OutInv, Reset
<1>15. CASE UNCHANGED vars
  BY <1>15 DEF OutInv, Assigned, Last, vars, place, hist
<1> QED  BY <1>3, <1>4, <1>5, <1>6, <1>7, <1>8, <1>9, <1>10, <1>11, <1>12, <1>13,
            <1>14, <1>15 DEF Next, Answer, Move

THEOREM SumInvariance == Spec => [](CInv /\ SumInv)
<1>1. Init => SumInv
  <2> SUFFICES ASSUME Init PROVE SumInv
    OBVIOUS
  <2>1. \A l \in OutLocs : ~Assigned(l)
    BY BeforeFirst, SizeAssumption DEF Init, Assigned, OutLocs
  <2> QED  BY <2>1 DEF Init, SumInv, TotalInv, OutInv
<1>2. CInv /\ SumInv /\ [Next]_vars => SumInv'
  BY TotalStep, OutStep DEF SumInv
<1> QED  BY <1>1, <1>2, TapInvariance, PTL DEF Spec

\* For all sizes, pictures, weights and arithmetic, what is handed off is the
\* convolution, term by term in the order of the loops (convLayer1.sv lines
\* 136-381).
THEOREM ConvolutionHandedOff == Spec => []HandsOffConvolution
<1>1. SumInv => HandsOffConvolution
  <2> SUFFICES ASSUME SumInv, handOff PROVE out = Convolution
    BY DEF HandsOffConvolution
  <2>1. \A l \in OutLocs : out[l] = Convolution[l]
    BY DEF SumInv, OutInv, Assigned
  <2> QED  BY <2>1 DEF SumInv, OutInv, Convolution
<1> QED  BY <1>1, SumInvariance, PTL

\* What was handed off stays in place until the reset, although the layer
\* assigns it again, one output after the other (convLayer2.sv line 349).
THEOREM OutputStays == Spec => OutputHolds
<1>1. CInv /\ SumInv /\ [Next]_vars => [given /\ given' => UNCHANGED out]_vars
  <2> SUFFICES ASSUME CInv, SumInv, Next, given, given' PROVE out' = out
    OBVIOUS
  <2>1. CASE AssignOut
    <3>1. out' = [out EXCEPT ![writingTo] = Convolution[writingTo]]
      BY <2>1, AssignsConvolution DEF AssignOut, SumInv
    <3>2. out = [l \in OutLocs |-> out[l]] /\ out[writingTo] = Convolution[writingTo]
      BY DEF CInv, TypeOK, SumInv, OutInv, Assigned
    <3> QED  BY <3>1, <3>2
  <2>2. CASE ~AssignOut
    BY <2>2 DEF Next, Answer, Move, Start, ConvMulDone, ConvMulAddDone, ConvAddDone,
                ConvOp, UpdateWr, UpdateLoc, EndWait, CleanUp, ReadyNext, Reset
  <2> QED  BY <2>1, <2>2
<1> QED  BY <1>1, SumInvariance, PTL DEF Spec, OutputHolds

=============================================================================
