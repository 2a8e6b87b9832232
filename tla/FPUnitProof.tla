---------------------------- MODULE FPUnitProof ----------------------------
(***************************************************************************)
(* FPUnit for all widths and all operands: the handshake and the shift     *)
(* count, the widths of the registers, and that the result is the rounded  *)
(* sum or product.                                                         *)
(***************************************************************************)
EXTENDS FPUnit, NumberLemmas, TLAPS

\* The ranges of the variables the handshake depends on.
ControlTypeOK ==
    /\ edge \in {"rise", "fall"} /\ resetn \in BOOLEAN
    /\ st \in Steps /\ flag \in Work \cup {"none"}
    /\ caller \in {"idle", "starting", "waiting", "taking"}
    /\ operation \in {"add", "mult"}
    /\ residue \in BOOLEAN

\* Where the machine is when a flag is up, also when a reset left it up.
FlagPlace ==
    /\ flag = "DONE" => st = "INITWAIT"
    /\ flag = "NORM" => st \in {"NORM", "INITWAIT"}
    /\ caller = "taking" => edge = "fall" /\ flag = "none"

\* Where shifts may be counted.
ShiftPlace ==
    /\ edge = "rise" /\ (~resetn \/ flag = "DONE") => expAdjust = 0
    /\ caller = "taking" => expAdjust = 0
    /\ \/ expAdjust = 0
       \/ residue
       \/ st \in {"NORM", "ASSIGNOUTS", "DONE_WAIT", "DONE"}
       \/ edge = "fall" /\ flag = "DONE"

CInv == ControlTypeOK /\ InStep /\ FlagPlace /\ ShiftPlace

----------------------------------------------------------------------------
(* Steps *)

\* One step of the machine keeps to its states and raises the flag of the
\* state it leaves, or none.
LEMMA AdvanceStep ==
    ASSUME ControlTypeOK, Advance
    PROVE  /\ st' \in Steps /\ flag' \in Work \cup {"none"}
           /\ flag' = "DONE" <=> st = "DONE"
           /\ flag' = "NORM" => st' = "NORM"
           /\ st' = "INITWAIT" <=>
                 st = "DONE" \/ (st = "INITWAIT" /\ caller # "starting")
           /\ st = "INITWAIT" => flag' = "none"
           /\ st \in {"NORM", "ASSIGNOUTS", "DONE_WAIT"} =>
                 st' \in {"NORM", "ASSIGNOUTS", "DONE_WAIT", "DONE"}
<1>1. CASE st = "INITWAIT"
  <2>1. Begin \in {"ZEROADD", "ZEROMULT", "ADDEXPCHK", "MULTOP"}
    BY DEF Begin
  <2> QED BY <1>1, <2>1 DEF Advance, Steps, Work
<1>2. CASE st # "INITWAIT"
  BY <1>2 DEF Advance, ControlTypeOK, After, Steps, Work
<1> QED BY <1>1, <1>2

\* A rising edge keeps unit and layer in step.
LEMMA RisingStep ==
    ASSUME CInv, RisingEdge
    PROVE  CInv'
<1> USE DEF CInv
<1>1. /\ edge = "rise" /\ edge' = "fall" /\ resetn' \in BOOLEAN
      /\ expAdjust' = expAdjust /\ residue' = residue
  BY DEF RisingEdge, exponent
<1>2. CASE resetn
  <2>1. Advance /\ Layer
    BY <1>2 DEF RisingEdge, Control
  <2>2. /\ st' \in Steps /\ flag' \in Work \cup {"none"}
        /\ flag' = "DONE" <=> st = "DONE"
        /\ flag' = "NORM" => st' = "NORM"
        /\ st' = "INITWAIT" <=>
              st = "DONE" \/ (st = "INITWAIT" /\ caller # "starting")
        /\ st = "INITWAIT" => flag' = "none"
        /\ st \in {"NORM", "ASSIGNOUTS", "DONE_WAIT"} =>
              st' \in {"NORM", "ASSIGNOUTS", "DONE_WAIT", "DONE"}
    BY <2>1, AdvanceStep
  <2>3. /\ caller' \in {"idle", "starting", "waiting", "taking"}
        /\ operation' \in {"add", "mult"}
        /\ caller = "idle" => caller' \in {"idle", "starting"}
        /\ caller = "starting" => caller' = "waiting"
        /\ caller = "waiting" =>
              caller' = IF flag = "DONE" THEN "taking" ELSE "waiting"
    BY <1>2, <2>1 DEF Layer, ControlTypeOK, request
  <2>4. caller # "taking"
    BY <1>1 DEF FlagPlace
  <2>5. ControlTypeOK'
    BY <1>1, <2>2, <2>3 DEF ControlTypeOK
  <2>6. InStep'
    BY <2>2, <2>3, <2>4 DEF InStep, FlagPlace, ControlTypeOK
  <2>7. FlagPlace'
    BY <1>1, <2>2, <2>3, <2>4 DEF FlagPlace, ControlTypeOK
  <2>8. ShiftPlace'
    <3>1. caller' = "taking" => expAdjust' = 0
      BY <1>1, <2>3, <2>4 DEF ShiftPlace, ControlTypeOK
    <3> QED BY <1>1, <2>2, <3>1 DEF ShiftPlace
  <2> QED BY <2>5, <2>6, <2>7, <2>8
<1>3. CASE ~resetn
  <2>1. /\ st' = "INITWAIT" /\ flag' = flag
        /\ caller' = "idle" /\ operation' = operation
    BY <1>3 DEF RisingEdge, Control, Layer, request
  <2> QED BY <1>1, <1>3, <2>1
          DEF ControlTypeOK, InStep, FlagPlace, ShiftPlace, Steps
<1> QED BY <1>2, <1>3

\* What a falling edge does to the shift count.
LEMMA DatapathStep ==
    ASSUME ControlTypeOK, Datapath
    PROVE  /\ ~resetn \/ flag = "DONE" => expAdjust' = 0
           /\ resetn /\ flag \notin {"DONE", "NORM"} => expAdjust' = expAdjust
<1>1. CASE ~resetn
  BY <1>1 DEF Datapath, CleanUp
<1>2. CASE resetn
  BY <1>2 DEF Datapath, CleanUp, AddExpChk, AddAct, MultOp, MultExp, Norm,
              AssignOuts, ZeroAdd, ZeroMult, exponent
<1> QED BY <1>1, <1>2 DEF ControlTypeOK

\* A falling edge keeps unit and layer in step.
LEMMA FallingStep ==
    ASSUME CInv, FallingEdge
    PROVE  CInv'
<1> USE DEF CInv
<1>1. /\ edge = "fall" /\ edge' = "rise"
      /\ resetn' = resetn /\ st' = st /\ flag' = flag /\ operation' = operation
      /\ caller' = IF caller = "taking" THEN "idle" ELSE caller
      /\ residue' = (resetn /\ \/ flag = "NORM" /\ st = "INITWAIT"
                               \/ residue /\ caller # "taking")
  BY DEF FallingEdge, control, request
<1>2. /\ ~resetn \/ flag = "DONE" => expAdjust' = 0
      /\ resetn /\ flag \notin {"DONE", "NORM"} => expAdjust' = expAdjust
  BY DatapathStep DEF FallingEdge
<1>3. ControlTypeOK'
  BY <1>1 DEF ControlTypeOK
<1>4. InStep'
  BY <1>1 DEF InStep
<1>5. FlagPlace'
  BY <1>1 DEF FlagPlace
<1>6. ShiftPlace'
  <2>1. caller' # "taking"
    BY <1>1
  <2>2. \/ expAdjust' = 0
        \/ residue'
        \/ st \in {"NORM", "ASSIGNOUTS", "DONE_WAIT", "DONE"}
    <3>1. CASE ~resetn \/ flag = "DONE"
      BY <1>2, <3>1
    <3>2. CASE resetn /\ flag = "NORM"
      BY <1>1, <3>2 DEF FlagPlace
    <3>3. CASE resetn /\ flag \notin {"DONE", "NORM"}
      BY <1>1, <1>2, <3>3 DEF ShiftPlace
    <3> QED BY <3>1, <3>2, <3>3 DEF ControlTypeOK
  <2> QED BY <1>1, <1>2, <2>1, <2>2 DEF ShiftPlace
<1> QED BY <1>3, <1>4, <1>5, <1>6

----------------------------------------------------------------------------
(* The handshake *)

\* The inductive invariant.
THEOREM HandshakeInvariance == Spec => []CInv
<1>1. Init => CInv
  BY DEF Init, CInv, ControlTypeOK, InStep, FlagPlace, ShiftPlace, Steps
<1>2. CInv /\ [Next]_vars => CInv'
  <2> SUFFICES ASSUME CInv, [Next]_vars PROVE CInv'
    OBVIOUS
  <2>1. CASE RisingEdge
    BY <2>1, RisingStep
  <2>2. CASE FallingEdge
    BY <2>2, FallingStep
  <2>3. CASE UNCHANGED vars
    BY <2>3 DEF CInv, ControlTypeOK, InStep, FlagPlace, ShiftPlace, vars,
                control, exponent, request
  <2> QED BY <2>1, <2>2, <2>3 DEF Next
<1> QED BY <1>1, <1>2, PTL DEF Spec

\* A start is always accepted, a waiting layer always has a unit that works
\* for it, and an idle layer an idle unit (FPUnit.sv lines 112-188), for all
\* operands and widths and resets at any edge.
THEOREM HandshakeInStep == Spec => []InStep
<1>1. CInv => InStep
  BY DEF CInv
<1> QED BY <1>1, HandshakeInvariance, PTL

\* An operation starts with no shift counted, unless a normalisation cut by a
\* reset went on after it (FPUnit.sv lines 193-206 and 362-373).
THEOREM CountsFromZero == Spec => []NoShiftsLeft
<1>1. CInv => NoShiftsLeft
  BY DEF CInv, NoShiftsLeft, ShiftPlace
<1> QED BY <1>1, HandshakeInvariance, PTL

----------------------------------------------------------------------------
(* Widths *)

\* The powers of two that bound the registers, by those of mantissa and
\* exponent.
LEMMA Widths ==
    /\ 2^MB \in Nat /\ 2 <= 2^MB
    /\ 2^(MB - 1) \in Nat \ {0} /\ 2^MB = 2 * 2^(MB - 1)
    /\ 2^(MB + 1) = 2 * 2^MB
    /\ 2^(2 * MB) = 2^MB * 2^MB
    /\ 2^(2 * MB + 1) = 2 * (2^MB * 2^MB)
    /\ 2^(2 * MB + 2) = 4 * (2^MB * 2^MB)
    /\ 2^MB * 2^MB \in Nat \ {0}
    /\ 2^EB \in Nat /\ 4 <= 2^EB /\ 2^(EB + 1) = 2 * 2^EB
    /\ 2^(EB - 1) \in Nat \ {0} /\ 2^EB = 2 * 2^(EB - 1)
<1>1. /\ MB \in Nat /\ MB # 0 /\ MB - 1 \in Nat /\ (MB - 1) + 1 = MB
      /\ 2 * MB \in Nat /\ MB + MB = 2 * MB
      /\ EB - 2 \in Nat /\ EB - 1 \in Nat /\ EB \in Nat
      /\ (EB - 2) + 1 = EB - 1 /\ (EB - 1) + 1 = EB
      /\ 2 * MB + 1 \in Nat /\ (2 * MB + 1) + 1 = 2 * MB + 2
  BY WidthAssumption
<1>2. /\ 2^MB \in Nat \ {0} /\ 2^(MB - 1) \in Nat \ {0} /\ 2^(EB - 2) \in Nat \ {0}
      /\ 2^(EB - 1) \in Nat \ {0} /\ 2^EB \in Nat \ {0}
  BY <1>1, PowerPositive
<1>3. /\ 2^((MB - 1) + 1) = 2 * 2^(MB - 1) /\ 2^(MB + 1) = 2 * 2^MB
      /\ 2^((EB - 2) + 1) = 2 * 2^(EB - 2) /\ 2^((EB - 1) + 1) = 2 * 2^(EB - 1)
      /\ 2^(EB + 1) = 2 * 2^EB
      /\ 2^(2 * MB + 1) = 2 * 2^(2 * MB)
      /\ 2^((2 * MB + 1) + 1) = 2 * 2^(2 * MB + 1)
  BY <1>1, PowerNext
<1>4. 2^(MB + MB) = 2^MB * 2^MB
  BY <1>1, PowerSum
<1>5. 2^(2 * MB) = 2^MB * 2^MB
  BY <1>1, <1>4
<1>6. 2^MB * 2^MB \in Nat \ {0}
  <2>1. \A a \in Nat \ {0} : a * a \in Nat \ {0}
    OBVIOUS
  <2> QED  BY <1>2, <2>1
<1>7. 2^MB = 2 * 2^(MB - 1) /\ 2^(EB - 1) = 2 * 2^(EB - 2) /\ 2^EB = 2 * 2^(EB - 1)
  BY <1>1, <1>3
<1>8. 2 <= 2^MB /\ 4 <= 2^EB
  BY <1>2, <1>7
<1>9. 2^(2 * MB + 1) = 2 * (2^MB * 2^MB)
  BY <1>3, <1>5
<1>10. 2^(2 * MB + 2) = 4 * (2^MB * 2^MB)
  <2>1. 2^(2 * MB + 2) = 2 * (2 * (2^MB * 2^MB))
    BY <1>1, <1>3, <1>9
  <2> QED  BY <1>6, <2>1
<1> QED  BY <1>2, <1>3, <1>5, <1>6, <1>7, <1>8, <1>9, <1>10

\* The fields of a word, its significand and its exponent without the bias.
LEMMA Fields ==
    ASSUME NEW w \in Word
    PROVE  /\ w.sign \in 0 .. 1 /\ w.exp \in 0 .. 2^EB - 1 /\ w.man \in 0 .. 2^MB - 1
           /\ w.man \in Nat /\ w.exp \in Nat
           /\ Significand(w) \in Nat
           /\ 2^MB <= Significand(w) /\ Significand(w) < 2 * 2^MB
           /\ UnBiased(w) \in Int
<1>1. w.sign \in 0 .. 1 /\ w.exp \in 0 .. 2^EB - 1 /\ w.man \in 0 .. 2^MB - 1
  BY DEF Word
<1>2. UnBiased(w) \in Int
  <2>1. w.exp - Bias + 2^(EB - 1) \in Int
    BY <1>1, Widths DEF Bias
  <2>2. (w.exp - Bias + 2^(EB - 1)) % 2^EB \in Int
    BY <2>1, Widths
  <2> QED  BY <2>2, Widths DEF UnBiased
<1> QED  BY <1>1, <1>2, Widths DEF Significand

\* The registers within their widths; the aligned mantissa is the smaller one.
RegisterInv ==
    /\ firstOp \in Operands /\ secondOp \in Operands
    /\ Xm \in Nat /\ Ym \in Nat /\ Xm <= Ym /\ Ym < 2 * (2^MB * 2^MB)
    /\ Om \in Nat /\ Om < 4 * (2^MB * 2^MB) /\ matchingSigns \in BOOLEAN
    /\ expInt \in 0 .. 2^(EB + 1) - 1 /\ expAdjust \in 0 .. 2^EB - 1
    /\ oSign \in 0 .. 1 /\ oExp \in 0 .. 2^EB - 1 /\ roundOm \in 0 .. 2^MB - 1

\* Aligned to the greater operand, the smaller one does not exceed it.
LEMMA Alignment ==
    ASSUME NEW x \in Word, NEW y \in Word, NEW k \in Nat,
           k = 0 => x.man <= y.man
    PROVE  LET a == (Significand(x) * 2^MB) \div 2^k
               b == Significand(y) * 2^MB
           IN  a \in Nat /\ b \in Nat /\ a <= b /\ b < 2 * (2^MB * 2^MB)
<1> DEFINE X == Significand(x)
           Y == Significand(y)
           m == 2^MB
           a == (X * m) \div 2^k
<1>1. /\ m \in Nat \ {0} /\ X \in Nat /\ Y \in Nat
      /\ m <= X /\ X < 2 * m /\ m <= Y /\ Y < 2 * m
      /\ X = m + x.man /\ Y = m + y.man /\ x.man \in Nat /\ y.man \in Nat
  BY Fields, Widths DEF Significand
<1>2. 2^k \in Nat \ {0} /\ (k # 0 => 2 <= 2^k)
  BY PowerPositive, SmallPowers
<1> HIDE DEF X, Y, m
<1>3. X * m \in Nat /\ Y * m \in Nat /\ m * m \in Nat
  BY <1>1
<1>4. a \in Nat /\ a <= X * m /\ 2^k * a <= X * m
  BY <1>2, <1>3, Quotient
<1> HIDE DEF a
<1>5. Y * m < 2 * (m * m) /\ X * m < 2 * (m * m) /\ m * m <= Y * m
  <2>1. \A u \in Nat : u < 2 * m => u * m < 2 * (m * m)
    <3> TAKE u \in Nat
    <3>1. u < 2 * m => m * u <= m * (2 * m - 1)
      BY <1>1, ProductGrows
    <3>2. m * (2 * m - 1) = 2 * (m * m) - m /\ m * u = u * m
      BY <1>1
    <3>3. u * m \in Nat
      BY <1>1
    <3> QED  BY <1>1, <1>3, <3>1, <3>2, <3>3
  <2>2. m * m <= m * Y /\ m * Y = Y * m
    BY <1>1, ProductGrows
  <2> QED  BY <1>1, <2>1, <2>2
<1>6. a <= Y * m
  <2>1. CASE k = 0
    <3>1. m * X <= m * Y /\ m * X = X * m /\ m * Y = Y * m
      BY <1>1, <2>1, ProductGrows
    <3> QED  BY <1>3, <1>4, <3>1
  <2>2. CASE k # 0
    <3>1. a * 2 <= a * 2^k /\ a * 2^k = 2^k * a /\ a * 2^k \in Nat
      BY <1>2, <1>4, <2>2, ProductGrows
    <3> QED  BY <1>3, <1>4, <1>5, <3>1
  <2> QED  BY <2>1, <2>2
<1> QED  BY <1>3, <1>4, <1>5, <1>6 DEF X, Y, m, a

\* A remainder keeps to its width.
LEMMA Remainder ==
    ASSUME NEW a \in Int, NEW b \in Nat \ {0}
    PROVE  a % b \in 0 .. b - 1
BY Division

\* The operands are words.
LEMMA OperandWords ==
    ASSUME RegisterInv
    PROVE  firstOp \in Word /\ secondOp \in Word /\ ZeroWord \in Word
BY OperandAssumption DEF RegisterInv

\* Each step of the datapath keeps the registers within their widths.
LEMMA AddExpChkRegisters == RegisterInv /\ AddExpChk /\ UNCHANGED request => RegisterInv'
<1> SUFFICES ASSUME RegisterInv, AddExpChk, UNCHANGED request PROVE RegisterInv'
  OBVIOUS
<1> DEFINE second == Smaller(firstOp, secondOp)
           x == IF second THEN firstOp ELSE secondOp
           y == IF second THEN secondOp ELSE firstOp
           k == UnBiased(y) - UnBiased(x)
<1>1. x \in Word /\ y \in Word
  BY OperandWords
<1>2. k \in Nat /\ (k = 0 => x.man <= y.man)
  <2>1. /\ UnBiased(firstOp) \in Int /\ UnBiased(secondOp) \in Int
        /\ firstOp.man \in Nat /\ secondOp.man \in Nat
    BY OperandWords, Fields
  <2> QED  BY <2>1 DEF Smaller
<1>3. /\ Xm' = (Significand(x) * 2^MB) \div 2^k
      /\ Ym' = Significand(y) * 2^MB
      /\ oExp' = 0 \/ oExp' = y.exp
      /\ oSign' = 0 \/ oSign' = y.sign
      /\ matchingSigns' \in BOOLEAN
      /\ UNCHANGED <<Om, expInt, expAdjust, roundOm, firstOp, secondOp>>
  BY DEF AddExpChk, exponent, request
<1>4. y.exp \in 0 .. 2^EB - 1 /\ y.sign \in 0 .. 1 /\ 0 \in 0 .. 2^EB - 1
  BY <1>1, Fields, Widths
<1> HIDE DEF x, y, k
<1>5. /\ Xm' \in Nat /\ Ym' \in Nat /\ Xm' <= Ym' /\ Ym' < 2 * (2^MB * 2^MB)
  BY <1>1, <1>2, <1>3, Alignment
<1>6. oExp' \in 0 .. 2^EB - 1 /\ oSign' \in 0 .. 1
  BY <1>3, <1>4
<1> QED  BY <1>3, <1>5, <1>6 DEF RegisterInv

LEMMA AddActRegisters == RegisterInv /\ AddAct /\ UNCHANGED request => RegisterInv'
<1> SUFFICES ASSUME RegisterInv, AddAct, UNCHANGED request PROVE RegisterInv'
  OBVIOUS
<1>1. Om' \in Nat /\ Om' < 4 * (2^MB * 2^MB)
  <2>1. Om' = IF matchingSigns THEN Ym + Xm ELSE Ym - Xm
    BY DEF AddAct
  <2>2. /\ Xm \in Nat /\ Ym \in Nat /\ Xm <= Ym /\ Ym < 2 * (2^MB * 2^MB)
        /\ 2^MB * 2^MB \in Nat
    BY Widths DEF RegisterInv
  <2> QED  BY <2>1, <2>2
<1> QED  BY <1>1 DEF RegisterInv, AddAct, exponent, finalRes, request

LEMMA MultOpRegisters == RegisterInv /\ MultOp /\ UNCHANGED request => RegisterInv'
<1> SUFFICES ASSUME RegisterInv, MultOp, UNCHANGED request PROVE RegisterInv'
  OBVIOUS
<1>1. Om' \in Nat /\ Om' < 4 * (2^MB * 2^MB)
  <2> DEFINE a == Significand(firstOp)
             b == Significand(secondOp)
             m == 2^MB
  <2>1. a \in Nat /\ b \in Nat /\ m \in Nat \ {0} /\ a < 2 * m /\ b < 2 * m
    BY OperandWords, Fields, Widths
  <2>2. Om' = a * b
    BY DEF MultOp
  <2> HIDE DEF a, b, m
  <2>3. a * b <= a * (2 * m - 1) /\ (2 * m - 1) * a <= (2 * m - 1) * (2 * m - 1)
    BY <2>1, ProductGrows
  <2>4. /\ a * (2 * m - 1) = (2 * m - 1) * a /\ a * b \in Nat
        /\ (2 * m - 1) * (2 * m - 1) = 4 * (m * m) - 4 * m + 1 /\ m * m \in Nat
    BY <2>1
  <2>5. a * b < 4 * (m * m)
    BY <2>1, <2>3, <2>4
  <2> QED  BY <2>2, <2>4, <2>5 DEF m
<1>2. expInt' \in 0 .. 2^(EB + 1) - 1
  <2>1. firstOp.exp + secondOp.exp \in Int
    BY OperandWords, Fields
  <2>2. 2^(EB + 1) \in Nat \ {0}
    BY Widths
  <2> QED  BY <2>1, <2>2, Remainder DEF MultOp
<1>3. oSign' \in 0 .. 1
  BY DEF MultOp
<1> QED  BY <1>1, <1>2, <1>3 DEF RegisterInv, MultOp, request

LEMMA MultExpRegisters == RegisterInv /\ MultExp /\ UNCHANGED request => RegisterInv'
<1> SUFFICES ASSUME RegisterInv, MultExp, UNCHANGED request PROVE RegisterInv'
  OBVIOUS
<1>1. oExp' \in 0 .. 2^EB - 1
  <2>1. expInt - Bias \in Int /\ 2^EB \in Nat \ {0}
    BY Widths DEF RegisterInv, Bias
  <2> QED  BY <2>1, Remainder DEF MultExp
<1> QED  BY <1>1 DEF RegisterInv, MultExp, mantissa, exponent, request

LEMMA NormRegisters == RegisterInv /\ Norm /\ UNCHANGED request => RegisterInv'
<1> SUFFICES ASSUME RegisterInv, Norm, UNCHANGED request PROVE RegisterInv'
  OBVIOUS
<1>1. /\ 2^EB \in Nat \ {0} /\ Om \in Nat /\ oExp + 1 \in Int /\ expAdjust + 1 \in Int
      /\ 2^MB * 2^MB \in Nat /\ Om < 4 * (2^MB * 2^MB)
  BY Widths DEF RegisterInv
<1>2. CASE Om < 2^(2 * MB)
  <2>1. ~(Om >= 2^(2 * MB + 1))
    BY <1>1, <1>2, Widths
  <2>2. /\ Om' = 2 * Om /\ expAdjust' = (expAdjust + 1) % 2^EB /\ oExp' = oExp
    BY <2>1 DEF Norm
  <2>3. Om' \in Nat /\ Om' < 4 * (2^MB * 2^MB)
    BY <1>1, <1>2, <2>2, Widths
  <2>4. expAdjust' \in 0 .. 2^EB - 1
    BY <1>1, <2>2, Remainder
  <2> QED  BY <2>2, <2>3, <2>4 DEF RegisterInv, Norm, request
<1>3. CASE ~(Om < 2^(2 * MB))
  <2>1. Om' = Om \div 2 /\ oExp' = (oExp + 1) % 2^EB /\ expAdjust' = expAdjust
    BY <1>3 DEF Norm
  <2>2. Om' \in Nat /\ Om' < 4 * (2^MB * 2^MB)
    BY <1>1, <2>1
  <2>3. oExp' \in 0 .. 2^EB - 1
    BY <1>1, <2>1, Remainder
  <2> QED  BY <2>1, <2>2, <2>3 DEF RegisterInv, Norm, request
<1> QED  BY <1>2, <1>3

LEMMA AssignOutsRegisters == RegisterInv /\ AssignOuts /\ UNCHANGED request => RegisterInv'
<1> SUFFICES ASSUME RegisterInv, AssignOuts, UNCHANGED request PROVE RegisterInv'
  OBVIOUS
<1>1. oExp' \in 0 .. 2^EB - 1
  <2>1. oExp - expAdjust \in Int /\ 2^EB \in Nat \ {0}
    BY Widths DEF RegisterInv
  <2> QED  BY <2>1, Remainder DEF AssignOuts
<1>2. roundOm' \in 0 .. 2^MB - 1
  <2>1. Om \in Nat /\ 2^MB \in Nat \ {0} /\ 2^(MB - 1) \in Nat \ {0}
    BY Widths DEF RegisterInv
  <2>2. Om \div 2^MB \in Int /\ Om \div 2^(MB - 1) \in Int
    BY <2>1, Quotient
  <2> DEFINE top == (Om \div 2^MB) % 2^MB
             half == (Om \div 2^(MB - 1)) % 2
  <2>3. top \in 0 .. 2^MB - 1
    BY <2>1, <2>2, Remainder
  <2>4. half \in 0 .. 1
    BY <2>2
  <2>5. Rounded = (top + half) % 2^MB
    BY DEF Rounded
  <2> HIDE DEF top, half
  <2>6. top + half \in Int
    BY <2>3, <2>4
  <2>7. Rounded \in 0 .. 2^MB - 1
    BY <2>1, <2>5, <2>6, Remainder
  <2> QED  BY <2>7 DEF AssignOuts
<1> QED  BY <1>1, <1>2 DEF RegisterInv, AssignOuts, mantissa, exponent, request

\* Zero fits into every register.
LEMMA ZeroFits ==
    /\ 0 \in 0 .. 2^EB - 1 /\ 0 \in 0 .. 2^(EB + 1) - 1 /\ 0 \in 0 .. 2^MB - 1
    /\ 0 < 2 * (2^MB * 2^MB) /\ 0 < 4 * (2^MB * 2^MB)
<1>1. \A a \in Nat \ {0} : 0 < 2 * a /\ 0 < 4 * a /\ 0 \in 0 .. a - 1
  OBVIOUS
<1>2. 2^EB \in Nat \ {0} /\ 2^(EB + 1) \in Nat \ {0} /\ 2^MB \in Nat \ {0}
  BY Widths
<1> QED  BY <1>1, <1>2, Widths

\* The operations that leave out what they need not compute, and the clean-up.
LEMMA PutOutRegisters ==
    ASSUME RegisterInv, UNCHANGED request, NEW w \in Word, PutOut(w),
           UNCHANGED <<mantissa, exponent>> \/ CleanUp
    PROVE  RegisterInv'
<1>1. oSign' \in 0 .. 1 /\ oExp' \in 0 .. 2^EB - 1 /\ roundOm' \in 0 .. 2^MB - 1
  BY Fields DEF PutOut
<1>3. CASE UNCHANGED <<mantissa, exponent>>
  BY <1>1, <1>3 DEF RegisterInv, mantissa, exponent, request
<1>4. CASE CleanUp
  <2>1. matchingSigns' \in BOOLEAN
    BY <1>4 DEF CleanUp
  <2>2. Xm' = 0 /\ Ym' = 0 /\ Om' = 0 /\ expInt' = 0 /\ expAdjust' = 0
    BY <1>4 DEF CleanUp
  <2> QED  BY <1>1, <2>1, <2>2, ZeroFits DEF RegisterInv, request
<1> QED  BY <1>3, <1>4

\* The clean-up alone.
LEMMA CleanUpRegisters ==
    ASSUME RegisterInv, UNCHANGED request, CleanUp, UNCHANGED finalRes
    PROVE  RegisterInv'
<1>1. matchingSigns' \in BOOLEAN
  BY DEF CleanUp
<1>2. Xm' = 0 /\ Ym' = 0 /\ Om' = 0 /\ expInt' = 0 /\ expAdjust' = 0
  BY DEF CleanUp
<1> QED  BY <1>1, <1>2, ZeroFits DEF RegisterInv, finalRes, request

\* An edge keeps the registers within their widths.
LEMMA RegisterStep == RegisterInv /\ [Next]_vars => RegisterInv'
<1> SUFFICES ASSUME RegisterInv, [Next]_vars PROVE RegisterInv'
  OBVIOUS
<1>1. CASE RisingEdge
  <2>1. firstOp' \in Operands /\ secondOp' \in Operands
    BY <1>1 DEF RisingEdge, Layer, RegisterInv, request
  <2> QED  BY <1>1, <2>1 DEF RisingEdge, RegisterInv, mantissa, exponent, finalRes
<1>2. CASE FallingEdge
  <2>1. Datapath /\ UNCHANGED request
    BY <1>2 DEF FallingEdge
  <2>2. CASE ~resetn
    BY <2>1, <2>2, PutOutRegisters, OperandWords DEF Datapath
  <2>3. CASE resetn
    <3>1. CASE UNCHANGED <<mantissa, exponent, finalRes>>
      BY <2>1, <3>1 DEF RegisterInv, mantissa, exponent, finalRes, request
    <3>2. CASE AddExpChk
      BY <2>1, <3>2, AddExpChkRegisters
    <3>3. CASE AddAct
      BY <2>1, <3>3, AddActRegisters
    <3>4. CASE MultOp
      BY <2>1, <3>4, MultOpRegisters
    <3>5. CASE MultExp
      BY <2>1, <3>5, MultExpRegisters
    <3>6. CASE Norm
      BY <2>1, <3>6, NormRegisters
    <3>7. CASE AssignOuts
      BY <2>1, <3>7, AssignOutsRegisters
    <3>8. CASE ZeroAdd
      BY <2>1, <3>8, PutOutRegisters, OperandWords DEF ZeroAdd
    <3>9. CASE ZeroMult
      BY <2>1, <3>9, PutOutRegisters, OperandWords DEF ZeroMult
    <3>10. CASE CleanUp /\ UNCHANGED finalRes
      BY <2>1, <3>10, CleanUpRegisters
    <3> QED  BY <2>1, <2>3, <3>1, <3>2, <3>3, <3>4, <3>5, <3>6, <3>7, <3>8, <3>9, <3>10
             DEF Datapath
  <2> QED  BY <2>2, <2>3
<1>3. CASE UNCHANGED vars
  BY <1>3 DEF vars, mantissa, exponent, finalRes, request, RegisterInv
<1> QED  BY <1>1, <1>2, <1>3 DEF Next

THEOREM RegisterInvariance == Spec => []RegisterInv
<1>1. Init => RegisterInv
  <2> SUFFICES ASSUME Init PROVE RegisterInv
    OBVIOUS
  <2>1. matchingSigns \in BOOLEAN
    BY DEF Init
  <2>2. /\ Xm = 0 /\ Ym = 0 /\ Om = 0 /\ expInt = 0 /\ expAdjust = 0
        /\ oSign = 0 /\ oExp = 0 /\ roundOm = 0
        /\ firstOp = ZeroWord /\ secondOp = ZeroWord
    BY DEF Init
  <2> QED  BY <2>1, <2>2, ZeroFits, OperandAssumption DEF RegisterInv
<1> QED  BY <1>1, RegisterStep, PTL DEF Spec

\* For all widths and operands, and resets at any edge, no register of the unit
\* needs a bit more than it has: the sum and the product of two significands,
\* the aligned mantissas and their difference fit (FPUnit.sv lines 66-77).
THEOREM TypeCorrect == Spec => []TypeOK
<1>1. CInv /\ RegisterInv => TypeOK
  <2> SUFFICES ASSUME CInv, RegisterInv PROVE TypeOK
    OBVIOUS
  <2>1. {Xm, Ym} \subseteq 0 .. 2^(2 * MB + 1) - 1 /\ Om \in 0 .. 2^(2 * MB + 2) - 1
    BY Widths DEF RegisterInv
  <2> QED  BY <2>1 DEF CInv, ControlTypeOK, RegisterInv, TypeOK
<1> QED  BY <1>1, HandshakeInvariance, RegisterInvariance, PTL

----------------------------------------------------------------------------
(* Where a number lies that rounds to a given exponent *)

\* A number cut to m units of 2^p, whose bits fill one or two places too many:
\* it is in place already, or is halved once.
LEMMA CutInPlace ==
    ASSUME NEW t \in Nat \ {0}, NEW l \in Nat, t <= l, l < 2 * t,
           NEW m \in Nat, t <= m, m < 4 * t,
           NEW a \in Nat, NEW p \in Nat, NEW q \in Nat,
           m * 2^p <= a, a < (m + 1) * 2^p,
           t * 2^q <= a, a <= l * 2^q
    PROVE  \/ q = p /\ m <= l
           \/ /\ q = p + 1 /\ 2 * t <= m
              /\ t <= m \div 2 /\ m \div 2 <= l
              /\ (m \div 2) * 2^q <= a /\ a < (m \div 2 + 1) * 2^q
<1> DEFINE P == 2^p
           Q == 2^q
<1>1. P \in Nat \ {0} /\ Q \in Nat \ {0}
  BY PowerPositive
<1>2. ASSUME q < p PROVE FALSE
  <2>1. PICK r \in Nat \ {0} : P = r * Q /\ 2 <= r
    BY <1>2, PowerRatio
  <2> HIDE DEF P, Q
  <2>2. (2 * t) * Q <= m * P
    <3>1. 2 * Q <= r * Q
      BY <1>1, <2>1, Cancels
    <3>2. t * (2 * Q) <= t * P /\ t * P <= m * P
      <4>1. 2 * Q <= P
        BY <2>1, <3>1
      <4>2. 2 * Q \in Nat
        BY <1>1
      <4> QED  BY <1>1, <4>1, <4>2, ProductGrows, Cancels
    <3>3. (2 * t) * Q = t * (2 * Q) /\ (2 * t) * Q \in Nat /\ t * P \in Nat /\ m * P \in Nat
      BY <1>1
    <3> QED  BY <3>2, <3>3
  <2>3. (2 * t) * Q <= l * Q
    <3>1. (2 * t) * Q \in Nat /\ l * Q \in Nat /\ m * P \in Nat
      BY <1>1
    <3> QED  BY <2>2, <3>1 DEF P, Q
  <2> QED  BY <1>1, <2>3, Cancels
<1>3. ASSUME p + 1 < q PROVE FALSE
  <2>1. PICK r \in Nat \ {0} : Q = r * P /\ 4 <= r
    <3>1. p <= q
      BY <1>3
    <3> QED  BY <1>3, <3>1, PowerRatio
  <2> HIDE DEF P, Q
  <2>2. (4 * t) * P <= t * Q
    <3>1. 4 * P <= Q /\ 4 * P \in Nat
      BY <1>1, <2>1, Cancels
    <3>2. t * (4 * P) <= t * Q
      BY <1>1, <3>1, ProductGrows
    <3>3. (4 * t) * P = t * (4 * P)
      BY <1>1
    <3> QED  BY <3>2, <3>3
  <2>3. (4 * t) * P < (m + 1) * P
    <3>1. (4 * t) * P \in Nat /\ t * Q \in Nat /\ (m + 1) * P \in Nat
      BY <1>1
    <3> QED  BY <2>2, <3>1 DEF P, Q
  <2> QED  BY <1>1, <2>3, Cancels
<1>4. CASE q = p
  BY <1>1, <1>4, Cancels
<1>5. CASE q = p + 1
  <2>1. Q = 2 * P
    BY <1>5, PowerNext
  <2> DEFINE h == m \div 2
  <2>2. h \in Nat /\ 2 * h <= m /\ m + 1 <= 2 * h + 2
    OBVIOUS
  <2> HIDE DEF P, Q, h
  <2>3. /\ m * P <= a /\ a < (m + 1) * P /\ t * Q <= a /\ a <= l * Q
    BY DEF P, Q
  <2>4. t * Q = (2 * t) * P /\ h * Q = (2 * h) * P /\ (h + 1) * Q = (2 * h + 2) * P
    BY <1>1, <2>1, <2>2
  <2>5. /\ t * Q \in Nat /\ h * Q \in Nat /\ (h + 1) * Q \in Nat /\ l * Q \in Nat
        /\ m * P \in Nat /\ (m + 1) * P \in Nat
    BY <1>1, <2>2
  <2>6. 2 * t < m + 1
    <3>1. (2 * t) * P < (m + 1) * P
      BY <2>3, <2>4, <2>5
    <3> QED  BY <1>1, <3>1, Cancels
  <2>7. h * Q <= a /\ a < (h + 1) * Q
    <3>1. (2 * h) * P <= m * P /\ (m + 1) * P <= (2 * h + 2) * P
      BY <1>1, <2>2, Cancels
    <3> QED  BY <2>3, <2>4, <2>5, <3>1
  <2>8. h <= l
    <3>1. h * Q <= l * Q
      BY <2>3, <2>5, <2>7
    <3> QED  BY <1>1, <2>2, <3>1, Cancels
  <2> QED  BY <1>5, <2>2, <2>6, <2>7, <2>8 DEF h, Q
<1> QED  BY <1>2, <1>3, <1>4, <1>5

\* The number a, counted in units of 2^q, is f, which is m shifted to the left;
\* one unit, or two of an even f, may be missing.
LeftShifted(t, l, m, a, p, q) ==
    \E n \in Nat, f \in Nat :
        /\ p = q + n /\ f = m * 2^n /\ t <= f /\ f <= l
        /\ a <= f * 2^q
        /\ \/ (f - 1) * 2^q < a
           \/ f % 2 = 0 /\ (f - 2) * 2^q < a

\* A difference cut to m units of 2^p: either nothing was cut, or not more than
\* one place is missing, and what was cut leaves the doubled value even.
LEMMA DifferenceInPlace ==
    ASSUME NEW h \in Nat \ {0}, NEW t \in Nat \ {0}, NEW l \in Nat, t <= l,
           h <= t, l = 2 * (t - h),
           NEW m \in Nat, m < 2 * t,
           NEW a \in Nat, NEW p \in Nat, NEW q \in Nat,
           (m - 1) * 2^p < a, a <= m * 2^p,
           a = m * 2^p \/ t * 2^p < 2 * a,
           t * 2^q <= a, a <= l * 2^q
    PROVE  LeftShifted(t, l, m, a, p, q)
<1> DEFINE P == 2^p
           Q == 2^q
<1>1. P \in Nat \ {0} /\ Q \in Nat \ {0}
  BY PowerPositive
<1>2. ASSUME p < q PROVE FALSE
  <2>1. PICK r \in Nat \ {0} : Q = r * P /\ 2 <= r
    <3>1. p <= q
      BY <1>2
    <3> QED  BY <1>2, <3>1, PowerRatio
  <2> HIDE DEF P, Q
  <2>2. (2 * t) * P <= t * Q
    <3>1. 2 * P <= Q /\ 2 * P \in Nat
      BY <1>1, <2>1, Cancels
    <3>2. t * (2 * P) <= t * Q
      BY <1>1, <3>1, ProductGrows
    <3>3. (2 * t) * P = t * (2 * P)
      BY <1>1
    <3> QED  BY <3>2, <3>3
  <2>3. (2 * t) * P <= m * P
    <3>1. (2 * t) * P \in Nat /\ t * Q \in Nat /\ m * P \in Nat
      BY <1>1
    <3> QED  BY <2>2, <3>1 DEF P, Q
  <2> QED  BY <1>1, <2>3, Cancels
<1>3. CASE q <= p
  <2> DEFINE n == p - q
             N == 2^n
             f == m * N
  <2>1. n \in Nat /\ p = q + n /\ N \in Nat \ {0} /\ P = N * Q
    <3>1. n \in Nat /\ p = q + n
      BY <1>3
    <3> QED  BY <1>3, <3>1, PowerRatio
  <2>2. /\ n = 0 => N = 1
        /\ n = 1 => N = 2
        /\ 2 <= n => 4 <= N
    <3>1. PICK r \in Nat \ {0} : /\ r = 2^(p - q)
                                 /\ q = p => r = 1
                                 /\ q + 1 = p => r = 2
                                 /\ q + 1 < p => 4 <= r
      BY <1>3, PowerRatio
    <3> QED  BY <2>1, <3>1
  <2>3. /\ (m - 1) * P < a /\ a <= m * P /\ (a = m * P \/ t * P < 2 * a)
        /\ t * Q <= a /\ a <= l * Q
    OBVIOUS
  <2> HIDE DEF P, Q, n, N
  <2>4. f \in Nat /\ m * P = f * Q /\ f * Q \in Nat /\ t * Q \in Nat /\ l * Q \in Nat
    BY <1>1, <2>1
  <2> HIDE DEF f
  <2>5. t <= f
    <3>1. t * Q <= f * Q
      BY <2>3, <2>4
    <3> QED  BY <1>1, <2>4, <3>1, Cancels
  <2>6. /\ f <= l
        /\ \/ (f - 1) * Q < a
           \/ f % 2 = 0 /\ (f - 2) * Q < a
    <3>1. CASE a = m * P
      <4>1. f <= l
        <5>1. f * Q <= l * Q
          BY <2>3, <2>4, <3>1
        <5> QED  BY <1>1, <2>4, <5>1, Cancels
      <4>2. (f - 1) * Q < f * Q
        BY <1>1, <2>4, Cancels
      <4> QED  BY <2>4, <3>1, <4>1, <4>2
    <3>2. CASE t * P < 2 * a
      <4>1. ASSUME 2 <= n PROVE FALSE
        <5>1. t * (4 * Q) <= t * P
          <6>1. 4 * Q <= P /\ 4 * Q \in Nat
            BY <1>1, <2>1, <2>2, <4>1, Cancels
          <6> QED  BY <1>1, <6>1, ProductGrows
        <5>2. t * (4 * Q) = 4 * (t * Q) /\ t * P \in Nat
          BY <1>1
        <5>3. l * Q < (2 * t) * Q /\ (2 * t) * Q = 2 * (t * Q)
          BY <1>1, Cancels
        <5> QED  BY <2>3, <2>4, <3>2, <5>1, <5>2, <5>3
      <4>2. CASE n = 0
        <5>1. N = 1 /\ f = m /\ P = Q
          BY <1>1, <2>1, <2>2, <4>2 DEF f
        <5>2. (f - 1) * Q < l * Q
          <6>1. (f - 1) * Q \in Int
            BY <1>1, <2>4
          <6> QED  BY <2>3, <2>4, <5>1, <6>1
        <5>3. f - 1 < l
          BY <1>1, <2>4, <5>2, Cancels
        <5> QED  BY <2>3, <2>4, <5>1, <5>3
      <4>3. CASE n = 1
        <5>1. f = 2 * m /\ P = 2 * Q
          BY <1>1, <2>1, <2>2, <4>3 DEF f
        <5>2. (f - 2) * Q < a
          <6>1. (f - 2) * Q = (m - 1) * P
            BY <1>1, <5>1
          <6> QED  BY <2>3, <6>1
        <5>3. f - 2 < l
          <6>1. (f - 2) * Q \in Int
            BY <1>1, <2>4
          <6>2. (f - 2) * Q < l * Q
            BY <2>3, <2>4, <5>2, <6>1
          <6> QED  BY <1>1, <2>4, <6>2, Cancels
        <5>4. f <= l /\ f % 2 = 0
          BY <5>1, <5>3
        <5> QED  BY <5>2, <5>4
      <4> QED  BY <2>1, <4>1, <4>2, <4>3
    <3> QED  BY <2>3, <3>1, <3>2
  <2>7. a <= f * Q
    BY <2>3, <2>4
  <2> QED  BY <2>1, <2>4, <2>5, <2>6, <2>7 DEF f, N, Q, LeftShifted
<1> QED  BY <1>2, <1>3

\* An operand cut when it was aligned, in units of its own and of the other's.
LEMMA CutOperand ==
    ASSUME NEW x \in Nat, NEW y \in Nat, NEW k \in Nat, NEW z \in Nat,
           NEW p, p = z + k
    PROVE  LET c == x \div 2^k
               unit == 2^p
           IN  /\ (y + c) * unit <= (y * 2^k + x) * 2^z
               /\ (y * 2^k + x) * 2^z < (y + c + 1) * unit
               /\ (y - c - 1) * unit < (y * 2^k - x) * 2^z
               /\ (y * 2^k - x) * 2^z <= (y - c) * unit
               /\ x % 2^k = 0 => (y - c) * unit <= (y * 2^k - x) * 2^z
<1> DEFINE K == 2^k
           Z == 2^z
           c == x \div K
           r == x % K
<1>1. K \in Nat \ {0} /\ Z \in Nat \ {0} /\ 2^p = Z * K
  BY PowerPositive, PowerSum
<1> HIDE DEF K, Z
<1>2. c \in Nat /\ r \in Nat /\ r < K /\ x = K * c + r
  <2>1. x \in Int
    OBVIOUS
  <2>2. r \in 0 .. K - 1 /\ x = K * c + r
    BY <1>1, <2>1, Division
  <2> QED  BY <1>1, <2>2, Quotient
<1> HIDE DEF c, r
<1>3. /\ y * K \in Nat /\ K * c \in Nat /\ r * Z \in Nat /\ Z * K \in Nat
      /\ r * Z < K * Z /\ K * Z = Z * K
  BY <1>1, <1>2, Cancels
<1>4. (y + c) * (Z * K) + r * Z = (y * K + x) * Z
  <2>1. (y * K + (K * c + r)) * Z = (y + c) * (Z * K) + r * Z
    BY <1>1, <1>2
  <2> QED  BY <1>2, <2>1
<1>5. (y - c) * (Z * K) - r * Z = (y * K - x) * Z
  <2>1. (y * K - (K * c + r)) * Z = (y - c) * (Z * K) - r * Z
    BY <1>1, <1>2
  <2> QED  BY <1>2, <2>1
<1>6. /\ (y + c + 1) * (Z * K) = (y + c) * (Z * K) + Z * K
      /\ (y - c - 1) * (Z * K) = (y - c) * (Z * K) - Z * K
      /\ (y + c) * (Z * K) \in Int /\ (y - c) * (Z * K) \in Int
  BY <1>1, <1>2
<1>7. r = 0 => r * Z = 0
  BY <1>1
<1> QED  BY <1>1, <1>3, <1>4, <1>5, <1>6, <1>7 DEF K, Z, c, r

\* Rounding to the upper half of the bits.
LEMMA RoundsNear ==
    ASSUME NEW h \in Nat \ {0}, NEW k \in Nat, k = 2 * h,
           NEW m \in Nat, k * k <= m, m <= 2 * (k * k) - k
    PROVE  LET s == k + ((((m \div k) % k) + ((m \div h) % 2)) % k)
           IN  /\ s \in Nat /\ s * k \in Nat
               /\ s * k - m <= h /\ m - s * k <= h - 1
               /\ m % 2 = 0 => s * k - m + 2 <= k
<1> DEFINE q == m \div k
           r == m % k
           b == (m \div h) % 2
           s == k + (((q % k) + b) % k)
<1>1. /\ q \in Nat /\ r \in 0 .. k - 1 /\ m = k * q + r
      /\ k \in Nat \ {0} /\ k * k \in Nat
  <2>1. m \in Int /\ k \in Nat \ {0} /\ k * k \in Nat
    OBVIOUS
  <2>2. q \in Int /\ r \in 0 .. k - 1 /\ m = k * q + r
    BY <2>1, Division
  <2>3. q \in Nat
    BY <2>1, Quotient
  <2> QED  BY <2>1, <2>2, <2>3
<1>2. b = IF r >= h THEN 1 ELSE 0
  <2> DEFINE u == m \div h
  <2>1. u \in Int /\ m % h \in 0 .. h - 1 /\ m = h * u + (m % h)
    BY Division
  <2> DEFINE v == m % h
  <2>2. h * u + v = h * (2 * q) + r
    BY <1>1, <2>1
  <2> HIDE DEF q, r, u, v
  <2>3. CASE r >= h
    <3>1. h * (u - (2 * q + 1)) = (r - h) - v /\ (r - h) - v < h /\ -h < (r - h) - v
      BY <1>1, <2>1, <2>2, <2>3 DEF v
    <3> DEFINE w == u - (2 * q + 1)
    <3>2. w \in Int /\ w * h < 1 * h /\ (-1) * h < w * h
      BY <1>1, <2>1, <3>1
    <3>3. w < 1 /\ -1 < w
      BY <3>2, Cancels
    <3>4. u = 2 * q + 1
      BY <1>1, <2>1, <3>2, <3>3
    <3> QED  BY <1>1, <2>3, <3>4 DEF u
  <2>4. CASE ~(r >= h)
    <3>1. h * (u - 2 * q) = r - v /\ r - v < h /\ -h < r - v
      BY <1>1, <2>1, <2>2, <2>4 DEF v
    <3> DEFINE w == u - 2 * q
    <3>2. w \in Int /\ w * h < 1 * h /\ (-1) * h < w * h
      BY <1>1, <2>1, <3>1
    <3>3. w < 1 /\ -1 < w
      BY <3>2, Cancels
    <3>4. u = 2 * q
      BY <1>1, <2>1, <3>2, <3>3
    <3> QED  BY <1>1, <2>4, <3>4 DEF u
  <2> QED  BY <2>3, <2>4
<1> HIDE DEF q, r, b
<1>3. k <= q /\ q <= 2 * k - 1
  <2>1. k * k < (q + 1) * k /\ (q + 1) * k = k * q + k /\ k * q \in Nat
    BY <1>1
  <2>2. k < q + 1
    BY <1>1, <2>1, Cancels
  <2>3. q * k <= (2 * k - 1) * k
    <3>1. (2 * k - 1) * k = 2 * (k * k) - k /\ q * k = k * q
      BY <1>1
    <3> QED  BY <1>1, <2>1, <3>1
  <2>4. q <= 2 * k - 1
    BY <1>1, <2>3, Cancels
  <2> QED  BY <1>1, <2>2, <2>4
<1>4. q % k = q - k
  <2> DEFINE d == q \div k
             e == q % k
  <2>1. d \in Int /\ e \in 0 .. k - 1 /\ q = k * d + e
    <3>1. q \in Int
      BY <1>1
    <3> QED  BY <1>1, <3>1, Division
  <2> HIDE DEF d, e
  <2>2. d * k <= q /\ q < (d + 1) * k
    BY <1>1, <2>1
  <2>3. d * k < 2 * k /\ 1 * k < (d + 1) * k
    <3>1. d * k \in Int /\ (d + 1) * k \in Int
      BY <1>1, <2>1
    <3> QED  BY <1>1, <1>3, <2>2, <3>1
  <2>4. d < 2 /\ 1 < d + 1
    BY <1>1, <2>1, <2>3, Cancels
  <2>5. d = 1
    BY <2>1, <2>4
  <2> QED  BY <1>1, <2>1, <2>5 DEF e
<1>5. q = 2 * k - 1 => r = 0 /\ b = 0
  <2>1. q = 2 * k - 1 => k * q = 2 * (k * k) - k
    BY <1>1
  <2> QED  BY <1>1, <1>2, <2>1
<1>6. q - k + b \in 0 .. k - 1
  BY <1>1, <1>2, <1>3, <1>5
<1>7. s = q + b
  <2>1. \A c \in 0 .. k - 1 : c % k = c
    OBVIOUS
  <2>2. (q - k + b) % k = q - k + b
    BY <1>6, <2>1
  <2> QED  BY <1>1, <1>2, <1>4, <2>2
<1> HIDE DEF s
<1>8. s \in Nat /\ s * k \in Nat /\ s * k - m = b * k - r
  <2>1. b \in 0 .. 1
    BY <1>2
  <2>2. s \in Nat /\ s * k = k * q + b * k /\ k * q \in Nat
    BY <1>1, <1>7, <2>1
  <2> QED  BY <1>1, <2>1, <2>2
<1>9. s * k - m <= h /\ m - s * k <= h - 1
  BY <1>1, <1>2, <1>8
<1>10. ASSUME m % 2 = 0 PROVE s * k - m + 2 <= k
  <2>1. CASE h = 1
    <3>1. k = 2 /\ r % 2 = 0
      <4>1. k = 2 /\ m = 2 * q + r
        BY <1>1, <2>1
      <4> QED  BY <1>1, <1>10, <4>1
    <3>2. r = 0 /\ b = 0
      BY <1>1, <1>2, <2>1, <3>1
    <3> QED  BY <1>8, <3>1, <3>2
  <2>2. CASE 2 <= h
    BY <1>1, <1>8, <1>9, <2>2
  <2> QED  BY <2>1, <2>2
<1> QED  BY <1>8, <1>9, <1>10 DEF s, q, b

----------------------------------------------------------------------------
(* Exact values *)

\* The leading one of a normalised result, the largest result that is not
\* rounded up to the next power of two, and what one of their units counts.
Top      == 2^MB * 2^MB
Largest  == 2 * Top - 2^MB
Scale(e) == 2^(e + Bias)

\* The bias by the powers of two, and the ordinary exponents by the bias.
LEMMA BiasType ==
    /\ Bias \in Nat \ {0} /\ 2^(EB - 1) = Bias + 1 /\ 2^EB = 2 * Bias + 2
    /\ \A e \in Exps : e \in Nat /\ 1 <= e /\ e <= 2 * Bias
BY Widths DEF Bias, Exps

\* An ordinary exponent does not wrap round.
LEMMA UnBiasedOrdinary ==
    ASSUME NEW w \in Word, w.exp \in Exps
    PROVE  UnBiased(w) = w.exp - Bias
<1>1. /\ w.exp \in Nat /\ w.exp <= 2 * Bias /\ Bias \in Nat \ {0}
      /\ 2^(EB - 1) = Bias + 1 /\ 2^EB = 2 * Bias + 2
  BY BiasType
<1>2. \A c, d \in Nat : c < d => c % d = c
  OBVIOUS
<1>3. w.exp - Bias + 2^(EB - 1) = w.exp + 1
  BY <1>1
<1>4. (w.exp + 1) % 2^EB = w.exp + 1
  <2>1. w.exp + 1 \in Nat /\ 2^EB \in Nat /\ w.exp + 1 < 2^EB
    BY <1>1
  <2> QED  BY <1>2, <2>1
<1> QED  BY <1>1, <1>3, <1>4 DEF UnBiased

\* The units in which FitsAt and NearTo measure.
LEMMA Scaled ==
    ASSUME NEW e \in Nat
    PROVE  /\ Scale(e) \in Nat \ {0}
           /\ Ulp(e) = 2^MB * Scale(e)
           /\ 2^MB * Ulp(e) = Top * Scale(e)
           /\ (2^(MB + 1) - 1) * Ulp(e) = Largest * Scale(e)
<1> DEFINE k == 2^MB
<1>1. Bias \in Nat /\ MB \in Nat /\ e + Bias \in Nat
  BY BiasType, WidthAssumption
<1>2. k \in Nat \ {0} /\ 2^e \in Nat /\ 2^Bias \in Nat /\ Scale(e) \in Nat \ {0}
  BY <1>1, PowerPositive DEF Scale
<1>3. Scale(e) = 2^e * 2^Bias /\ Unit = 2^Bias * k
  BY <1>1, PowerSum DEF Scale, Unit
<1>4. Ulp(e) = k * Scale(e)
  <2>1. \A a, b, c \in Nat : a * (b * c) = c * (a * b)
    OBVIOUS
  <2> QED  BY <1>2, <1>3, <2>1 DEF Ulp
<1>5. 2^(MB + 1) = 2 * k
  BY Widths
<1> HIDE DEF k
<1>6. \A d \in Nat : k * (k * d) = (k * k) * d
                     /\ (2 * k - 1) * (k * d) = (2 * (k * k) - k) * d
  BY <1>2
<1> QED  BY <1>2, <1>4, <1>5, <1>6 DEF k, Top, Largest

\* The exact result rounds to e.
LEMMA FitsScaled ==
    ASSUME NEW e \in Nat, FitsAt(e)
    PROVE  /\ Abs(Exact) \in Nat
           /\ Top * Scale(e) <= Abs(Exact) /\ Abs(Exact) <= Largest * Scale(e)
<1>1. 2^MB * Ulp(e) = Top * Scale(e) /\ (2^(MB + 1) - 1) * Ulp(e) = Largest * Scale(e)
  BY Scaled
<1>2. Top * Scale(e) \in Nat /\ Largest * Scale(e) \in Int
  <2>1. Top \in Nat /\ Largest \in Int /\ Scale(e) \in Nat
    BY Scaled, Widths DEF Top, Largest
  <2> QED  BY <2>1
<1>3. Abs(Exact) \in (Top * Scale(e)) .. (Largest * Scale(e))
  BY <1>1 DEF FitsAt
<1> QED  BY <1>2, <1>3

\* A number by its sign and its magnitude.
Signed(s, a) == IF s = 1 THEN -a ELSE a

\* Distances of numbers of one sign are those of their magnitudes.
LEMMA SignedAbs ==
    ASSUME NEW s, NEW a \in Nat
    PROVE  /\ Signed(s, a) \in Int /\ Abs(Signed(s, a)) = a
           /\ \A b \in Nat : Abs(Signed(s, b) - Signed(s, a)) = Abs(b - a)
           /\ a # 0 => (Signed(s, a) < 0 <=> s = 1)
           /\ Signed(s, a) = 0 <=> a = 0
BY DEF Signed, Abs

\* The value of a word that is not zero.
LEMMA ValSigned ==
    ASSUME NEW w \in Word, w # ZeroWord
    PROVE  /\ Significand(w) * 2^w.exp \in Nat \ {0}
           /\ Val(w) = Signed(w.sign, Significand(w) * 2^w.exp)
<1>1. Significand(w) \in Nat \ {0} /\ 2^w.exp \in Nat \ {0}
  BY Fields, Widths, PowerPositive
<1> DEFINE a == Significand(w)
           b == 2^w.exp
<1> HIDE DEF a, b
<1>2. \A u, v \in Nat \ {0} : /\ u * v \in Nat \ {0}
                              /\ (-1) * u * v = -(u * v) /\ 1 * u * v = u * v
  OBVIOUS
<1>3. Val(w) = (IF w.sign = 1 THEN -1 ELSE 1) * a * b
  BY DEF Val, a, b
<1> QED  BY <1>1, <1>2, <1>3 DEF a, b, Signed

\* The exact product.
LEMMA ExactProduct ==
    ASSUME firstOp \in Word, secondOp \in Word, operation = "mult",
           firstOp # ZeroWord, secondOp # ZeroWord
    PROVE  LET a == (Significand(firstOp) * Significand(secondOp))
                        * 2^(firstOp.exp + secondOp.exp)
           IN  a \in Nat \ {0} /\ Exact = Signed(IF Differ THEN 1 ELSE 0, a)
<1> DEFINE s1 == Significand(firstOp)
           s2 == Significand(secondOp)
           p1 == 2^firstOp.exp
           p2 == 2^secondOp.exp
<1>1. /\ s1 \in Nat \ {0} /\ s2 \in Nat \ {0} /\ p1 \in Nat \ {0} /\ p2 \in Nat \ {0}
      /\ 2^(firstOp.exp + secondOp.exp) = p1 * p2
      /\ firstOp.sign \in 0 .. 1 /\ secondOp.sign \in 0 .. 1
  <2>1. /\ firstOp.exp \in Nat /\ secondOp.exp \in Nat
        /\ firstOp.sign \in 0 .. 1 /\ secondOp.sign \in 0 .. 1
        /\ s1 \in Nat \ {0} /\ s2 \in Nat \ {0}
    BY Fields, Widths
  <2> QED  BY <2>1, PowerPositive, PowerSum
<1>2. /\ Val(firstOp) = Signed(firstOp.sign, s1 * p1)
      /\ Val(secondOp) = Signed(secondOp.sign, s2 * p2)
  BY ValSigned
<1>3. Exact = Val(firstOp) * Val(secondOp)
  BY DEF Exact
<1> HIDE DEF s1, s2, p1, p2
<1>4. /\ (s1 * p1) * (s2 * p2) = (s1 * s2) * (p1 * p2)
      /\ (s1 * s2) * (p1 * p2) \in Nat \ {0}
      /\ s1 * p1 \in Nat /\ s2 * p2 \in Nat
  <2>1. s1 * s2 \in Nat \ {0} /\ p1 * p2 \in Nat \ {0}
    BY <1>1
  <2>2. \A u, v \in Nat \ {0} : u * v \in Nat \ {0}
    OBVIOUS
  <2> QED  BY <1>1, <2>1, <2>2
<1>5. \A u, v \in Nat : /\ (-u) * v = -(u * v) /\ u * (-v) = -(u * v)
                        /\ (-u) * (-v) = u * v
  OBVIOUS
<1>6. Exact = Signed(IF Differ THEN 1 ELSE 0, (s1 * p1) * (s2 * p2))
  BY <1>1, <1>2, <1>3, <1>4, <1>5 DEF Signed, Differ
<1> QED  BY <1>1, <1>4, <1>6 DEF s1, s2

\* The exact sum, y being the operand of greater exponent.
LEMMA ExactSum ==
    ASSUME NEW x \in Word, NEW y \in Word, x # ZeroWord, y # ZeroWord,
           NEW k \in Nat, y.exp = x.exp + k
    PROVE  LET u == Significand(x) * 2^MB
               v == Significand(y) * 2^MB
               z == x.exp + Bias
           IN  /\ u \in Nat /\ v \in Nat /\ z \in Nat
               /\ x.sign = y.sign =>
                     (Val(x) + Val(y)) * Unit = Signed(y.sign, (v * 2^k + u) * 2^z)
               /\ x.sign # y.sign =>
                     (Val(x) + Val(y)) * Unit = Signed(y.sign, (v * 2^k - u) * 2^z)
<1> DEFINE s == Significand(x)
           t == Significand(y)
           p == 2^x.exp
           K == 2^k
           m == 2^MB
           B == 2^Bias
<1>1. /\ s \in Nat /\ t \in Nat /\ p \in Nat /\ K \in Nat /\ m \in Nat /\ B \in Nat
      /\ x.sign \in 0 .. 1 /\ y.sign \in 0 .. 1 /\ x.exp + Bias \in Nat
      /\ 2^y.exp = p * K /\ 2^(x.exp + Bias) = p * B /\ Unit = B * m
  <2>1. x.exp \in Nat /\ Bias \in Nat /\ MB \in Nat
    BY Fields, BiasType, WidthAssumption
  <2>2. /\ 2^(x.exp + k) = p * K /\ 2^(x.exp + Bias) = p * B /\ 2^(Bias + MB) = B * m
    BY <2>1, PowerSum
  <2>3. p \in Nat /\ K \in Nat /\ m \in Nat /\ B \in Nat
    BY <2>1, PowerPositive
  <2> QED  BY <2>1, <2>2, <2>3, Fields DEF Unit
<1>2. Val(x) = Signed(x.sign, s * p) /\ Val(y) = Signed(y.sign, t * (p * K))
  BY <1>1, ValSigned
<1> HIDE DEF s, t, p, K, m, B
<1>3. /\ s * m \in Nat /\ t * m \in Nat
      /\ (t * (p * K) + s * p) * (B * m) = ((t * m) * K + s * m) * (p * B)
      /\ (t * (p * K) - s * p) * (B * m) = ((t * m) * K - s * m) * (p * B)
      /\ (-(t * (p * K)) + s * p) * (B * m) = -(((t * m) * K - s * m) * (p * B))
      /\ (-(t * (p * K)) + -(s * p)) * (B * m) = -(((t * m) * K + s * m) * (p * B))
      /\ s * p \in Nat /\ t * (p * K) \in Nat
  BY <1>1
<1>4. x.sign = y.sign => (Val(x) + Val(y)) * Unit
                            = Signed(y.sign, ((t * m) * K + s * m) * (p * B))
  BY <1>1, <1>2, <1>3 DEF Signed
<1>5. x.sign # y.sign => (Val(x) + Val(y)) * Unit
                            = Signed(y.sign, ((t * m) * K - s * m) * (p * B))
  BY <1>1, <1>2, <1>3 DEF Signed
<1> QED  BY <1>1, <1>3, <1>4, <1>5 DEF s, t, K, m

\* What finalRes counts.
LEMMA ResultSigned ==
    ASSUME oExp \in Exps, roundOm \in 0 .. 2^MB - 1
    PROVE  LET a == ((2^MB + roundOm) * 2^MB) * Scale(oExp)
           IN  a \in Nat /\ Result = Signed(oSign, a)
<1> DEFINE w == [sign |-> oSign, exp |-> oExp, man |-> roundOm]
           k == 2^MB
           s == k + roundOm
           p == 2^oExp
<1>1. /\ oExp \in Nat /\ oExp # 0 /\ k \in Nat /\ s \in Nat /\ p \in Nat
      /\ Ulp(oExp) = k * Scale(oExp) /\ Scale(oExp) \in Nat
      /\ Unit \in Nat
  <2>1. oExp \in Nat /\ oExp # 0
    BY BiasType
  <2>2. Bias + MB \in Nat
    BY BiasType, WidthAssumption
  <2>3. p \in Nat /\ Unit \in Nat
    BY <2>1, <2>2, PowerPositive DEF Unit
  <2>4. k \in Nat
    BY Widths
  <2> QED  BY <2>1, <2>3, <2>4, Scaled
<1>2. w # ZeroWord
  BY <1>1 DEF ZeroWord
<1>3. Val(w) = (IF oSign = 1 THEN -1 ELSE 1) * s * p
  BY <1>2 DEF Val, Significand
<1>4. Result = Val(w) * Unit
  BY DEF Result
<1>5. Ulp(oExp) = p * Unit
  BY DEF Ulp
<1> HIDE DEF w, k, s, p
<1>6. \A a, b, c \in Nat : /\ ((-1) * a * b) * c = -(a * (b * c))
                           /\ (1 * a * b) * c = a * (b * c)
  OBVIOUS
<1>7. Result = Signed(oSign, s * (p * Unit))
  BY <1>1, <1>3, <1>4, <1>6 DEF Signed
<1>8. \A a, b, c \in Nat : a * (b * c) = (a * b) * c /\ (a * b) * c \in Nat
  OBVIOUS
<1>9. s * (p * Unit) = (s * k) * Scale(oExp) /\ (s * k) * Scale(oExp) \in Nat
  BY <1>1, <1>5, <1>8
<1> QED  BY <1>7, <1>9 DEF s, k

----------------------------------------------------------------------------
(* What the registers hold *)

\* m is the exact result at exponent e, cut downwards, or, for a difference,
\* upwards: the smaller operand was cut.  A difference that was shifted after
\* the cut may lack one place more, but is even.
Holds(e, m) ==
    IF operation = "mult" \/ ~Differ
    THEN m * Scale(e) <= Abs(Exact) /\ Abs(Exact) < (m + 1) * Scale(e)
    ELSE /\ Abs(Exact) <= m * Scale(e)
         /\ \/ (m - 1) * Scale(e) < Abs(Exact)
            \/ m % 2 = 0 /\ (m - 2) * Scale(e) < Abs(Exact)

\* Rounded, it is the result the layer expects.
LEMMA NearIfHeld ==
    ASSUME oExp \in Exps, NEW m \in Top .. Largest, Holds(oExp, m),
           2^MB + roundOm = 2^MB + ((((m \div 2^MB) % 2^MB) + ((m \div 2^(MB - 1)) % 2)) % 2^MB),
           roundOm \in 0 .. 2^MB - 1,
           NEW a \in Nat, Exact = Signed(oSign, a)
    PROVE  NearTo(oExp)
<1> DEFINE D == Scale(oExp)
           k == 2^MB
           h == 2^(MB - 1)
           s == k + roundOm
           r == (s * k) * D
<1>1. D \in Nat \ {0} /\ Ulp(oExp) = k * D /\ k \in Nat /\ h \in Nat \ {0} /\ k = 2 * h
  BY BiasType, Scaled, Widths
<1>2. m \in Nat /\ k * k <= m /\ m <= 2 * (k * k) - k
  BY Widths DEF Top, Largest
<1>3. /\ s \in Nat /\ s * k \in Nat
      /\ s * k - m <= h /\ m - s * k <= h - 1
      /\ m % 2 = 0 => s * k - m + 2 <= k
  BY <1>1, <1>2, RoundsNear
<1>4. r \in Nat /\ Result = Signed(oSign, r)
  BY ResultSigned
<1>5. Abs(Exact) = a /\ Abs(Result - Exact) = Abs(r - a)
  BY <1>4, SignedAbs
<1> HIDE DEF D, k, h, s
<1>6. CASE operation = "mult" \/ ~Differ
  <2>1. m * D <= a /\ a < (m + 1) * D
    BY <1>5, <1>6 DEF Holds, D
  <2>2. (s * k - m) * D <= h * D /\ (m + 1 - s * k) * D <= h * D
    BY <1>1, <1>2, <1>3, Cancels
  <2>3. /\ (s * k - m) * D = r - m * D /\ (m + 1 - s * k) * D = (m + 1) * D - r
        /\ m * D \in Nat /\ (m + 1) * D \in Nat /\ 2 * (h * D) = k * D /\ h * D \in Nat
    BY <1>1, <1>2, <1>3
  <2>4. 2 * Abs(r - a) <= k * D
    BY <1>4, <2>1, <2>2, <2>3 DEF Abs
  <2> QED  BY <1>1, <1>5, <1>6, <2>4 DEF NearTo
<1>7. CASE ~(operation = "mult" \/ ~Differ)
  <2>1. /\ a <= m * D
        /\ (m - 1) * D < a \/ (m % 2 = 0 /\ (m - 2) * D < a)
    BY <1>5, <1>7 DEF Holds, D
  <2>2. /\ (m - s * k) * D < k * D
        /\ (s * k - (m - 1)) * D <= k * D
        /\ m % 2 = 0 => (s * k - (m - 2)) * D <= k * D
    BY <1>1, <1>2, <1>3, Cancels
  <2>3. /\ (m - s * k) * D = m * D - r
        /\ (s * k - (m - 1)) * D = r - (m - 1) * D
        /\ (s * k - (m - 2)) * D = r - (m - 2) * D
        /\ m * D \in Int /\ (m - 1) * D \in Int /\ (m - 2) * D \in Int /\ k * D \in Int
    BY <1>1, <1>2, <1>3
  <2>4. Abs(r - a) < k * D
    BY <1>4, <2>1, <2>2, <2>3 DEF Abs
  <2> QED  BY <1>1, <1>5, <1>7, <2>4 DEF NearTo
<1> QED  BY <1>6, <1>7

----------------------------------------------------------------------------
(* Before the normalisation *)

\* The shifts that bring om to m and the exponent from x to e: one to the right,
\* or n to the left.
InPlace(e, m, om, x) ==
    \/ 2 * Top <= om /\ m = om \div 2 /\ (x + 1) % 2^EB = e
    \/ \E n \in Nat : m = om * 2^n /\ (x - n) % 2^EB = e

\* Normalised from om and x, with sign s, the result is the expected one.
ShiftsTo(om, s, x) ==
    /\ \E a \in Nat : Exact = Signed(s, a)
    /\ \A e \in Exps : FitsAt(e) =>
           \E m \in Top .. Largest : Holds(e, m) /\ InPlace(e, m, om, x)

\* An ordinary exponent is its own remainder.
LEMMA ExponentFits ==
    ASSUME NEW e \in Exps
    PROVE  e % 2^EB = e /\ (e - 1) % 2^EB = e - 1 /\ 2^EB \in Nat \ {0}
<1>1. e \in Nat /\ 1 <= e /\ e <= 2 * Bias /\ 2^EB = 2 * Bias + 2 /\ Bias \in Nat
  BY BiasType
<1>2. \A c, d \in Nat : c < d => c % d = c
  OBVIOUS
<1>3. e - 1 \in Nat /\ 2^EB \in Nat /\ e < 2^EB
  BY <1>1
<1> QED  BY <1>1, <1>2, <1>3

\* The exponents of a number cut downwards and of the operation's result.
LEMMA CutShifts ==
    ASSUME operation = "mult" \/ ~Differ,
           NEW om \in Nat, Top <= om, om < 4 * Top, NEW p \in Nat,
           NEW e \in Exps, FitsAt(e),
           om * 2^p <= Abs(Exact), Abs(Exact) < (om + 1) * 2^p,
           NEW x \in Int, \A d \in {e - 1, e} : p = d + Bias => x = d
    PROVE  \E m \in Top .. Largest : Holds(e, m) /\ InPlace(e, m, om, x)
<1>1. /\ Bias \in Nat /\ e \in Nat /\ e + Bias \in Nat /\ Scale(e) = 2^(e + Bias)
      /\ e % 2^EB = e /\ 2^0 = 1
  BY BiasType, ExponentFits DEF Scale
<1>2. /\ Top \in Nat \ {0} /\ Largest \in Nat /\ Top <= Largest /\ Largest < 2 * Top
  <2>1. \A k \in Nat \ {0} : k <= k * k
    <3> TAKE k \in Nat \ {0}
    <3>1. k * 1 <= k * k
      BY ProductGrows
    <3> QED  BY <3>1
  <2>2. 2^MB \in Nat \ {0} /\ 2^MB * 2^MB \in Nat \ {0}
    BY Widths
  <2> QED  BY <2>1, <2>2 DEF Top, Largest
<1>3. /\ Abs(Exact) \in Nat
      /\ Top * 2^(e + Bias) <= Abs(Exact) /\ Abs(Exact) <= Largest * 2^(e + Bias)
  BY <1>1, FitsScaled
<1>4. CASE e + Bias = p /\ om <= Largest
  <2>1. x = e
    BY <1>4
  <2>2. Holds(e, om)
    BY <1>1, <1>4 DEF Holds
  <2>3. om = om * 2^0 /\ (x - 0) % 2^EB = e
    BY <1>1, <2>1
  <2>4. om \in Top .. Largest
    BY <1>2, <1>4
  <2> QED  BY <2>2, <2>3, <2>4 DEF InPlace
<1>5. CASE /\ e + Bias = p + 1 /\ 2 * Top <= om
           /\ Top <= om \div 2 /\ om \div 2 <= Largest
           /\ (om \div 2) * 2^(e + Bias) <= Abs(Exact)
           /\ Abs(Exact) < (om \div 2 + 1) * 2^(e + Bias)
  <2>1. x = e - 1
    BY <1>1, <1>5
  <2>2. Holds(e, om \div 2)
    BY <1>1, <1>5 DEF Holds
  <2>3. x + 1 = e
    BY <1>1, <2>1
  <2>4. om \div 2 \in Top .. Largest
    BY <1>2, <1>5
  <2> QED  BY <1>1, <1>5, <2>2, <2>3, <2>4 DEF InPlace
<1> HIDE DEF Top, Largest
<1>6. \/ e + Bias = p /\ om <= Largest
      \/ /\ e + Bias = p + 1 /\ 2 * Top <= om
         /\ Top <= om \div 2 /\ om \div 2 <= Largest
         /\ (om \div 2) * 2^(e + Bias) <= Abs(Exact)
         /\ Abs(Exact) < (om \div 2 + 1) * 2^(e + Bias)
  BY <1>1, <1>2, <1>3, CutInPlace
<1> QED  BY <1>4, <1>5, <1>6

\* The significand of a word, with the guard bits.
LEMMA Guarded ==
    ASSUME NEW w \in Word
    PROVE  /\ Significand(w) * 2^MB \in Nat
           /\ Top <= Significand(w) * 2^MB
           /\ Significand(w) * 2^MB <= 2 * Top - 2^MB
<1> DEFINE k == 2^MB
           s == Significand(w)
<1>1. k \in Nat \ {0} /\ s \in Nat /\ k <= s /\ s <= 2 * k - 1
  BY Fields, Widths
<1> HIDE DEF k, s
<1>2. k * k <= s * k /\ s * k <= (2 * k - 1) * k
  BY <1>1, Cancels
<1>3. (2 * k - 1) * k = 2 * (k * k) - k /\ s * k \in Nat
  BY <1>1
<1> QED  BY <1>2, <1>3 DEF k, s, Top

\* A product, as MULTOP and MULTEXP leave it.
LEMMA ProductShifts ==
    ASSUME firstOp \in Word, secondOp \in Word, operation = "mult",
           firstOp.exp \in Exps, secondOp.exp \in Exps,
           NEW om, om = Significand(firstOp) * Significand(secondOp),
           NEW x, x = (((firstOp.exp + secondOp.exp) % 2^(EB + 1)) - Bias) % 2^EB
    PROVE  ShiftsTo(om, IF Differ THEN 1 ELSE 0, x) /\ Exact # 0
<1> DEFINE p == firstOp.exp + secondOp.exp
           a == om * 2^p
           k == 2^MB
<1>1. /\ firstOp.exp \in 1 .. 2 * Bias /\ secondOp.exp \in 1 .. 2 * Bias
      /\ Bias \in Nat \ {0} /\ 2^EB = 2 * Bias + 2 /\ 2^(EB + 1) = 4 * Bias + 4
  BY BiasType, Widths
<1>2. firstOp # ZeroWord /\ secondOp # ZeroWord
  BY <1>1 DEF ZeroWord
<1>3. a \in Nat \ {0} /\ Exact = Signed(IF Differ THEN 1 ELSE 0, a)
  BY <1>2, ExactProduct
<1>4. Abs(Exact) = a /\ Exact # 0
  BY <1>3, SignedAbs
<1>5. om \in Nat /\ Top <= om /\ om < 4 * Top
  <2> DEFINE s == Significand(firstOp)
             t == Significand(secondOp)
  <2>1. /\ k \in Nat \ {0} /\ s \in Nat /\ t \in Nat
        /\ k <= s /\ s < 2 * k /\ k <= t /\ t < 2 * k
    BY Fields, Widths
  <2> HIDE DEF k, s, t
  <2>2. k * k <= s * k /\ s * k <= s * t /\ s * t <= s * (2 * k) /\ s * (2 * k) < (2 * k) * (2 * k)
    <3>1. k * k <= s * k
      BY <2>1, Cancels
    <3>2. s * k <= s * t /\ s * t <= s * (2 * k)
      <4>1. 2 * k \in Nat /\ t <= 2 * k
        BY <2>1
      <4> QED  BY <2>1, <4>1, ProductGrows
    <3>3. s * (2 * k) < (2 * k) * (2 * k)
      <4>1. 2 * k \in Nat \ {0} /\ s \in Int /\ 2 * k \in Int
        BY <2>1
      <4> QED  BY <2>1, <4>1, Cancels
    <3> QED  BY <3>1, <3>2, <3>3
  <2>3. (2 * k) * (2 * k) = 4 * (k * k) /\ s * t \in Nat /\ s * (2 * k) \in Nat
        /\ s * k \in Nat /\ k * k \in Nat
    BY <2>1
  <2> QED  BY <2>2, <2>3 DEF s, t, k, Top
<1>6. p \in Nat /\ p % 2^(EB + 1) = p
  <2>1. p \in Nat /\ 2^(EB + 1) \in Nat /\ p < 2^(EB + 1)
    BY <1>1
  <2>2. \A c, d \in Nat : c < d => c % d = c
    OBVIOUS
  <2> QED  BY <2>1, <2>2
<1>7. x = (p - Bias) % 2^EB /\ x \in Int
  <2>1. p - Bias \in Int /\ 2^EB \in Nat \ {0}
    BY <1>1, <1>6
  <2> QED  BY <1>6, <2>1, Remainder
<1> HIDE DEF p
<1>8. a < (om + 1) * 2^p
  <2>1. 2^p \in Nat \ {0}
    BY <1>6, PowerPositive
  <2> QED  BY <1>5, <2>1, Cancels
<1>9. ASSUME NEW e \in Exps, FitsAt(e)
      PROVE  \E m \in Top .. Largest : Holds(e, m) /\ InPlace(e, m, om, x)
  <2>1. \A d \in {e - 1, e} : p = d + Bias => x = d
    <3>1. e \in Nat /\ Bias \in Nat
      BY BiasType
    <3>2. e % 2^EB = e /\ (e - 1) % 2^EB = e - 1
      BY ExponentFits
    <3>3. p = e + Bias => p - Bias = e
      BY <3>1
    <3>4. p = e - 1 + Bias => p - Bias = e - 1
      BY <3>1
    <3> QED  BY <1>7, <3>2, <3>3, <3>4
  <2>2. om * 2^p <= Abs(Exact) /\ Abs(Exact) < (om + 1) * 2^p
    BY <1>3, <1>4, <1>8
  <2> QED  BY <1>5, <1>6, <1>7, <1>9, <2>1, <2>2, CutShifts
<1> QED  BY <1>3, <1>4, <1>9 DEF ShiftsTo

\* The operands of an addition, aligned: y is the one of greater magnitude.
Ordered(x, y) ==
    /\ operation = "add" /\ ZeroWord \notin {firstOp, secondOp}
    /\ \/ x = firstOp /\ y = secondOp
       \/ x = secondOp /\ y = firstOp
    /\ x \in Word /\ y \in Word /\ x.exp \in Exps /\ y.exp \in Exps
    /\ x.exp <= y.exp /\ (x.exp = y.exp => x.man <= y.man)

\* Their exact sum.
LEMMA OperandSum ==
    ASSUME NEW x, NEW y, Ordered(x, y)
    PROVE  LET k == y.exp - x.exp
               u == Significand(x) * 2^MB
               v == Significand(y) * 2^MB
               z == x.exp + Bias
           IN  /\ k \in Nat /\ z \in Nat /\ z + k = y.exp + Bias
               /\ u \in Nat /\ v \in Nat /\ 2^k \in Nat \ {0} /\ 2^z \in Nat \ {0}
               /\ (Differ <=> x.sign # y.sign)
               /\ ~Differ => Exact = Signed(y.sign, (v * 2^k + u) * 2^z)
               /\ Differ  => Exact = Signed(y.sign, (v * 2^k - u) * 2^z)
<1>1. /\ x \in Word /\ y \in Word /\ x # ZeroWord /\ y # ZeroWord
      /\ x.exp \in Nat /\ y.exp \in Nat /\ Bias \in Nat
  BY BiasType DEF Ordered
<1>2. /\ y.exp - x.exp \in Nat /\ x.exp + Bias \in Nat
      /\ y.exp = x.exp + (y.exp - x.exp)
      /\ (x.exp + Bias) + (y.exp - x.exp) = y.exp + Bias
  BY <1>1 DEF Ordered
<1>3. Exact = (Val(x) + Val(y)) * Unit
  <2>1. Val(x) \in Int /\ Val(y) \in Int
    BY <1>1, ValSigned DEF Signed
  <2>2. Val(firstOp) + Val(secondOp) = Val(x) + Val(y)
    BY <2>1 DEF Ordered
  <2> QED  BY <2>2 DEF Exact, Ordered
<1>4. Differ <=> x.sign # y.sign
  BY DEF Differ, Ordered
<1>5. 2^(y.exp - x.exp) \in Nat \ {0} /\ 2^(x.exp + Bias) \in Nat \ {0}
  BY <1>2, PowerPositive
<1> QED  BY <1>1, <1>2, <1>3, <1>4, <1>5, ExactSum

\* The operand aligned does not exceed the other.
LEMMA AlignedBelow ==
    ASSUME NEW x, NEW y, Ordered(x, y)
    PROVE  LET k == y.exp - x.exp
               u == Significand(x) * 2^MB
               v == Significand(y) * 2^MB
           IN  /\ u \div 2^k \in Nat /\ u \div 2^k <= v
               /\ u \div 2^k <= u
               /\ u <= v * 2^k
               /\ u = v * 2^k => x.exp = y.exp /\ x.man = y.man
<1> DEFINE k == y.exp - x.exp
           m == 2^MB
           s == Significand(x)
           t == Significand(y)
           u == s * m
           v == t * m
           K == 2^k
<1>1. x \in Word /\ y \in Word /\ k \in Nat /\ (k = 0 => x.man <= y.man)
  <2>1. x.exp \in Nat /\ y.exp \in Nat
    BY BiasType DEF Ordered
  <2> QED  BY <2>1 DEF Ordered
<1>2. /\ m \in Nat \ {0} /\ s \in Nat /\ t \in Nat
      /\ s = m + x.man /\ t = m + y.man /\ s < 2 * m /\ m <= t
      /\ x.man \in Nat /\ y.man \in Nat
  BY <1>1, Fields, Widths DEF Significand
<1>3. K \in Nat \ {0} /\ (k = 0 => K = 1) /\ (k # 0 => 2 <= K)
  BY <1>1, PowerPositive, SmallPowers
<1>4. u \div K \in Nat /\ u \div K <= v /\ v \in Nat
  BY <1>1, Alignment
<1> HIDE DEF k, K, s, t, m
<1>5. u \in Nat /\ u \div K <= u
  <2>1. u \in Nat
    BY <1>2
  <2> HIDE DEF u
  <2> QED  BY <1>3, <2>1, Quotient
<1>6. u <= v * K /\ (u = v * K => k = 0 /\ s = t)
  <2>1. CASE k = 0
    <3>1. s <= t
      BY <1>1, <1>2, <2>1
    <3>2. s * m <= t * m /\ (s < t => s * m < t * m) /\ v * K = v
      BY <1>2, <1>3, <1>4, <2>1, <3>1, Cancels
    <3>3. s * m \in Nat /\ t * m \in Nat
      BY <1>2
    <3> QED  BY <1>2, <2>1, <3>1, <3>2, <3>3
  <2>2. CASE k # 0
    <3>1. s * m < (2 * m) * m /\ m * m <= t * m
      BY <1>2, Cancels
    <3>2. v * 2 <= v * K
      BY <1>3, <1>4, <2>2, ProductGrows
    <3>3. (2 * m) * m = 2 * (m * m) /\ m * m \in Nat /\ s * m \in Nat /\ v * K \in Nat
      BY <1>2, <1>3, <1>4
    <3> QED  BY <1>4, <3>1, <3>2, <3>3
  <2> QED  BY <2>1, <2>2
<1>7. u = v * K => x.exp = y.exp /\ x.man = y.man
  <2>1. k = 0 => x.exp = y.exp
    <3>1. x.exp \in Nat /\ y.exp \in Nat
      BY BiasType DEF Ordered
    <3> QED  BY <3>1 DEF k
  <2> QED  BY <1>2, <1>6, <2>1
<1> QED  BY <1>4, <1>5, <1>6, <1>7 DEF k, K, s, t, m

\* A sum of equal signs, as ADDACT leaves it.
LEMMA SumShifts ==
    ASSUME NEW x, NEW y, Ordered(x, y), ~Differ,
           NEW om, om = Significand(y) * 2^MB
                           + ((Significand(x) * 2^MB) \div 2^(y.exp - x.exp))
    PROVE  ShiftsTo(om, y.sign, y.exp) /\ Exact # 0
<1> DEFINE k == y.exp - x.exp
           u == Significand(x) * 2^MB
           v == Significand(y) * 2^MB
           z == x.exp + Bias
           c == u \div 2^k
           a == (v * 2^k + u) * 2^z
           p == y.exp + Bias
<1>1. /\ k \in Nat /\ z \in Nat /\ z + k = p /\ u \in Nat /\ v \in Nat
      /\ Exact = Signed(y.sign, a) /\ 2^k \in Nat \ {0} /\ 2^z \in Nat \ {0}
  BY OperandSum
<1>2. /\ c \in Nat /\ c <= v /\ om = v + c
      /\ Top <= v /\ v <= 2 * Top - 2^MB
      /\ Top \in Nat \ {0} /\ 2^MB \in Nat \ {0}
  BY AlignedBelow, Guarded, Widths DEF Ordered, Top
<1> HIDE DEF k, z, u, v, p
<1>3. om * 2^p <= a /\ a < (om + 1) * 2^p
  <2>1. (v + c) * 2^p <= a /\ a < (v + c + 1) * 2^p
    BY <1>1, CutOperand
  <2> QED  BY <1>2, <2>1
<1> HIDE DEF c, Top
<1>4. a \in Nat /\ a # 0
  <2>1. v * 2^k \in Nat /\ v * 2^k # 0
    <3>1. \A d, e \in Nat \ {0} : d * e \in Nat \ {0}
      OBVIOUS
    <3> QED  BY <1>1, <1>2, <3>1
  <2>2. v * 2^k + u \in Nat \ {0}
    BY <1>1, <2>1
  <2>3. \A d, e \in Nat \ {0} : d * e \in Nat \ {0}
    OBVIOUS
  <2> QED  BY <1>1, <2>2, <2>3
<1> HIDE DEF a
<1>5. Abs(Exact) = a /\ Exact # 0
  BY <1>1, <1>4, SignedAbs
<1>6. om \in Nat /\ Top <= om /\ om < 4 * Top
  BY <1>1, <1>2
<1>7. y.exp \in Nat /\ Bias \in Nat
  BY BiasType DEF Ordered
<1>8. ASSUME NEW e \in Exps, FitsAt(e)
      PROVE  \E m \in Top .. Largest : Holds(e, m) /\ InPlace(e, m, om, y.exp)
  <2>1. \A d \in {e - 1, e} : p = d + Bias => y.exp = d
    <3>1. e \in Nat
      BY BiasType
    <3> QED  BY <1>7, <3>1 DEF p
  <2>2. p \in Nat
    BY <1>7 DEF p
  <2>3. y.exp \in Int
    BY <1>7
  <2> QED  BY <1>3, <1>5, <1>6, <1>8, <2>1, <2>2, <2>3, CutShifts
<1> QED  BY <1>1, <1>4, <1>5, <1>8 DEF ShiftsTo

\* A difference, as ADDACT leaves it.
LEMMA DifferenceShifts ==
    ASSUME NEW x, NEW y, Ordered(x, y), Differ,
           NEW om, om = Significand(y) * 2^MB
                           - ((Significand(x) * 2^MB) \div 2^(y.exp - x.exp))
    PROVE  /\ ShiftsTo(om, y.sign, y.exp)
           /\ Exact = 0 <=> x.exp = y.exp /\ x.man = y.man
<1> DEFINE k == y.exp - x.exp
           K == 2^k
           Z == 2^(x.exp + Bias)
           u == Significand(x) * 2^MB
           v == Significand(y) * 2^MB
           c == u \div K
           a == (v * K - u) * Z
           p == y.exp + Bias
           h == 2^(MB - 1)
           P == 2^p
<1>1. /\ k \in Nat /\ x.exp + Bias \in Nat /\ (x.exp + Bias) + k = p
      /\ u \in Nat /\ v \in Nat /\ K \in Nat \ {0} /\ Z \in Nat \ {0}
      /\ Exact = Signed(y.sign, a)
  BY OperandSum
<1>2. /\ c \in Nat /\ c <= v /\ om = v - c /\ u <= v * K
      /\ u = v * K => x.exp = y.exp /\ x.man = y.man
  BY AlignedBelow
<1>3. /\ Top <= v /\ v <= 2 * Top - 2^MB /\ u <= 2 * Top - 2^MB
      /\ Top \in Nat \ {0} /\ 2^MB \in Nat \ {0} /\ h \in Nat \ {0} /\ 2^MB = 2 * h
  BY Guarded, Widths DEF Ordered, Top
<1>4. /\ (om - 1) * P < a /\ a <= om * P
      /\ u % K = 0 => a = om * P
  <2> DEFINE z == x.exp + Bias
  <2>1. z \in Nat /\ k \in Nat /\ u \in Nat /\ v \in Nat /\ p = z + k
    BY <1>1
  <2> HIDE DEF k, z, u, v, p
  <2>2. /\ (v - c - 1) * P < (v * K - u) * 2^z /\ (v * K - u) * 2^z <= (v - c) * P
        /\ u % K = 0 => (v * K - u) * 2^z = (v - c) * P
    <3>1. (v - c - 1) * P < (v * K - u) * 2^z
      BY <2>1, CutOperand
    <3>2. (v * K - u) * 2^z <= (v - c) * P
      BY <2>1, CutOperand
    <3>3. u % K = 0 => (v - c) * P <= (v * K - u) * 2^z
      BY <2>1, CutOperand
    <3>4. (v - c) * P \in Int /\ (v * K - u) * 2^z \in Int
      BY <1>1, <1>2, <2>1 DEF z, p, k
    <3> QED  BY <3>1, <3>2, <3>3, <3>4
  <2> QED  BY <1>2, <2>2 DEF z
<1>5. P = Z * K /\ P \in Nat \ {0}
  <2>1. 2^((x.exp + Bias) + k) = Z * K
    BY <1>1, PowerSum
  <2>2. p \in Nat
    BY <1>1
  <2> QED  BY <1>1, <2>1, <2>2, PowerPositive
<1>6. x.exp = y.exp /\ x.man = y.man => u = v * K
  <2>1. x.exp = y.exp => K = 1
    <3>1. x.exp \in Nat
      BY BiasType DEF Ordered
    <3>2. x.exp = y.exp => k = 0
      BY <3>1
    <3> QED  BY <1>1, <3>2, SmallPowers
  <2>2. x.man = y.man => u = v
    BY DEF Significand
  <2> QED  BY <1>1, <2>1, <2>2
<1>7. a = om * P \/ Top * P < 2 * a
  <2>1. CASE k = 0
    <3>1. K = 1
      BY <1>1, <2>1, SmallPowers
    <3>2. u % 1 = 0
      BY <1>1
    <3> QED  BY <1>4, <3>1, <3>2
  <2>2. CASE k = 1
    <3>1. K = 2
      BY <1>1, <2>2, SmallPowers
    <3>2. u = 2 * (Significand(x) * h) /\ Significand(x) * h \in Nat
      <4>1. Significand(x) \in Nat
        BY Fields DEF Ordered
      <4> QED  BY <1>3, <4>1
    <3>3. u % 2 = 0
      BY <3>2
    <3> QED  BY <1>4, <3>1, <3>3
  <2>3. CASE 2 <= k
    <3>1. 4 <= K
      BY <1>1, <2>3, SmallPowers
    <3> HIDE DEF K, Z, u, v, P, Top
    <3>2. Top * K <= v * K /\ 4 * Top <= Top * K
      <4>1. Top * 4 <= Top * K /\ Top * 4 = 4 * Top
        BY <1>1, <1>3, <3>1, ProductGrows
      <4> QED  BY <1>1, <1>3, <4>1, Cancels
    <3>3. Top * K < 2 * (v * K - u)
      <4>1. Top * K \in Nat /\ v * K \in Nat
        BY <1>1, <1>3
      <4> QED  BY <1>1, <1>3, <3>2, <4>1
    <3>4. (Top * K) * Z < (2 * (v * K - u)) * Z
      <4>1. Top * K \in Int /\ 2 * (v * K - u) \in Int
        BY <1>1, <1>3
      <4> QED  BY <1>1, <3>3, <4>1, Cancels
    <3>5. (Top * K) * Z = Top * P /\ (2 * (v * K - u)) * Z = 2 * a
      BY <1>1, <1>3, <1>5
    <3> QED  BY <3>4, <3>5
  <2> QED  BY <1>1, <2>1, <2>2, <2>3
<1> HIDE DEF k, K, Z, u, v, c, h, P, Top
<1>8. a \in Nat /\ (a = 0 <=> u = v * K)
  <2>1. v * K - u \in Nat
    BY <1>1, <1>2
  <2>2. \A d \in Nat, e \in Nat \ {0} : d * e \in Nat /\ (d * e = 0 <=> d = 0)
    OBVIOUS
  <2>3. v * K - u = 0 <=> u = v * K
    BY <1>1
  <2> QED  BY <1>1, <2>1, <2>2, <2>3
<1> HIDE DEF a
<1>9. Abs(Exact) = a /\ (Exact = 0 <=> a = 0)
  BY <1>1, <1>8, SignedAbs
<1>10. om \in Nat /\ om < 2 * Top
  BY <1>1, <1>2, <1>3
<1>11. /\ Top <= Largest /\ h <= Top /\ Largest = 2 * (Top - h) /\ Largest \in Nat
  <2>1. 2 * h <= Top
    <3>1. \A d \in Nat \ {0} : d <= d * d
      <4> TAKE d \in Nat \ {0}
      <4>1. d * 1 <= d * d
        BY ProductGrows
      <4> QED  BY <4>1
    <3> QED  BY <1>3, <3>1 DEF Top
  <2> QED  BY <1>3, <2>1 DEF Largest
<1>12. ASSUME NEW e \in Exps, FitsAt(e)
       PROVE  \E m \in Top .. Largest : Holds(e, m) /\ InPlace(e, m, om, y.exp)
  <2>1. /\ e \in Nat /\ y.exp \in Nat /\ Bias \in Nat /\ e + Bias \in Nat /\ p \in Nat
        /\ Scale(e) = 2^(e + Bias) /\ e % 2^EB = e
    BY BiasType, ExponentFits DEF Ordered, Scale
  <2>2. Top * 2^(e + Bias) <= a /\ a <= Largest * 2^(e + Bias)
    BY <1>9, <1>12, <2>1, FitsScaled
  <2>3. PICK n \in Nat, m \in Nat :
              /\ p = (e + Bias) + n /\ m = om * 2^n /\ Top <= m /\ m <= Largest
              /\ a <= m * 2^(e + Bias)
              /\ \/ (m - 1) * 2^(e + Bias) < a
                 \/ m % 2 = 0 /\ (m - 2) * 2^(e + Bias) < a
    <3> DEFINE q == e + Bias
    <3>1. q \in Nat
      BY <2>1
    <3>2. (om - 1) * 2^p < a /\ a <= om * 2^p /\ (a = om * 2^p \/ Top * 2^p < 2 * a)
      BY <1>4, <1>7 DEF P
    <3>3. Top * 2^q <= a /\ a <= Largest * 2^q
      BY <2>2
    <3>5. h \in Nat \ {0} /\ Top \in Nat \ {0} /\ p \in Nat
      BY <1>3, <2>1
    <3> HIDE DEF p, q
    <3>4. LeftShifted(Top, Largest, om, a, p, q)
      BY <1>8, <1>10, <1>11, <3>1, <3>2, <3>3, <3>5, DifferenceInPlace
    <3> QED  BY <3>4 DEF q, LeftShifted
  <2>4. operation # "mult"
    BY DEF Ordered
  <2>5. Holds(e, m)
    BY <1>9, <2>1, <2>3, <2>4 DEF Holds
  <2>6. y.exp - n = e
    <3>1. p = (e + Bias) + n
      BY <2>3
    <3> QED  BY <2>1, <3>1
  <2>7. InPlace(e, m, om, y.exp)
    BY <2>1, <2>3, <2>6 DEF InPlace
  <2>8. m \in Top .. Largest
    BY <1>3, <1>11, <2>3
  <2> QED  BY <2>5, <2>7, <2>8
<1>13. Exact = 0 <=> x.exp = y.exp /\ x.man = y.man
  BY <1>2, <1>6, <1>8, <1>9
<1> QED  BY <1>1, <1>8, <1>12, <1>13 DEF ShiftsTo

----------------------------------------------------------------------------
(* The steps of the datapath *)

\* What an operation was started with.
Started(op, zero) ==
    operation = op /\ (zero <=> ZeroWord \in {firstOp, secondOp})

\* Behind ADDEXPCHK.
Aligned ==
    \E x, y \in Word :
        /\ Ordered(x, y)
        /\ Xm = (Significand(x) * 2^MB) \div 2^(y.exp - x.exp)
        /\ Ym = Significand(y) * 2^MB
        /\ matchingSigns = ~Differ
        /\ expAdjust = 0
        /\ IF Differ /\ x.exp = y.exp /\ x.man = y.man THEN oExp = 0 /\ oSign = 0
                                                       ELSE oExp = y.exp /\ oSign = y.sign

\* Behind MULTOP.
Multiplied ==
    /\ Started("mult", FALSE)
    /\ Om = Significand(firstOp) * Significand(secondOp)
    /\ oSign = IF Differ THEN 1 ELSE 0
    /\ expInt = (firstOp.exp + secondOp.exp) % 2^(EB + 1)
    /\ expAdjust = 0

\* From ADDACT or MULTEXP to the end of the normalisation.
Shifting ==
    /\ ShiftsTo(Om, oSign, oExp - expAdjust)
    /\ Exact = 0 => Om = 0 /\ oExp = 0 /\ oSign = 0 /\ expAdjust = 0

\* The request stands, and with it what is expected.
LEMMA RequestKept ==
    ASSUME UNCHANGED request
    PROVE  /\ operation' = operation /\ firstOp' = firstOp /\ secondOp' = secondOp
           /\ Exact' = Exact /\ (Differ' <=> Differ) /\ (Ordinary' <=> Ordinary)
           /\ \A e \in Exps : FitsAt(e)' <=> FitsAt(e)
           /\ \A e, m : Holds(e, m)' <=> Holds(e, m)
<1>1. operation' = operation /\ firstOp' = firstOp /\ secondOp' = secondOp
  BY DEF request
<1>2. Exact' = Exact
  BY <1>1 DEF Exact
<1>3. Differ' <=> Differ
  BY <1>1 DEF Differ
<1>4. Ordinary' <=> Ordinary
  BY <1>1 DEF Ordinary
<1>5. \A e \in Exps : FitsAt(e)' <=> FitsAt(e)
  BY <1>2 DEF FitsAt
<1>6. \A e, m : Holds(e, m)' <=> Holds(e, m)
  BY <1>1, <1>2, <1>3 DEF Holds
<1> QED  BY <1>1, <1>2, <1>3, <1>4, <1>5, <1>6

\* What must be shown of registers that are shifted next.
LEMMA ShiftingNext ==
    ASSUME UNCHANGED request, ShiftsTo(Om', oSign', oExp' - expAdjust'),
           Exact = 0 => Om' = 0 /\ oExp' = 0 /\ oSign' = 0 /\ expAdjust' = 0
    PROVE  Shifting'
<1>1. Exact' = Exact /\ (\A e \in Exps : FitsAt(e)' <=> FitsAt(e))
      /\ \A e, m : Holds(e, m)' <=> Holds(e, m)
  BY RequestKept
<1>2. \E a \in Nat : Exact' = Signed(oSign', a)
  BY <1>1 DEF ShiftsTo
<1>3. ASSUME NEW e \in Exps, FitsAt(e)'
      PROVE  \E m \in Top .. Largest : Holds(e, m)' /\ InPlace(e, m, Om', oExp' - expAdjust')
  BY <1>1, <1>3 DEF ShiftsTo
<1>4. ShiftsTo(Om, oSign, oExp - expAdjust)'
  BY <1>2, <1>3 DEF ShiftsTo, InPlace, Signed, Top, Largest
<1> QED  BY <1>1, <1>4 DEF Shifting

\* ADDEXPCHK aligns the operands.
LEMMA AlignStep ==
    ASSUME firstOp \in Word, secondOp \in Word, Ordinary, Started("add", FALSE),
           expAdjust = 0, AddExpChk, UNCHANGED request
    PROVE  Aligned'
<1>1. PICK x \in Word, y \in Word :
         /\ x = IF Smaller(firstOp, secondOp) THEN firstOp ELSE secondOp
         /\ y = IF Smaller(firstOp, secondOp) THEN secondOp ELSE firstOp
  OBVIOUS
<1>2. /\ x.exp \in Exps /\ y.exp \in Exps
      /\ UnBiased(x) = x.exp - Bias /\ UnBiased(y) = y.exp - Bias
      /\ UnBiased(firstOp) = firstOp.exp - Bias /\ UnBiased(secondOp) = secondOp.exp - Bias
  <2>1. firstOp.exp \in Exps /\ secondOp.exp \in Exps
    BY DEF Ordinary, Started
  <2> QED  BY <1>1, <2>1, UnBiasedOrdinary
<1>3. x.exp \in Nat /\ y.exp \in Nat /\ Bias \in Nat /\ x.man \in Nat /\ y.man \in Nat
      /\ firstOp.exp \in Nat /\ secondOp.exp \in Nat
      /\ firstOp.man \in Nat /\ secondOp.man \in Nat
  BY Fields, BiasType
<1>4. x.exp <= y.exp /\ (x.exp = y.exp => x.man <= y.man)
  BY <1>1, <1>2, <1>3 DEF Smaller
<1>5. UnBiased(y) - UnBiased(x) = y.exp - x.exp
  BY <1>2, <1>3
<1>6. Ordered(x, y)
  BY <1>1, <1>2, <1>4 DEF Ordered, Started
<1>7. Ordered(x, y)' /\ (Differ' <=> Differ)
  BY <1>6, RequestKept DEF Ordered
<1>8. /\ Xm' = (Significand(x) * 2^MB) \div 2^(y.exp - x.exp)
      /\ Ym' = Significand(y) * 2^MB
      /\ matchingSigns' = ~Differ
      /\ expAdjust' = 0
      /\ IF Differ /\ x.exp = y.exp /\ x.man = y.man THEN oExp' = 0 /\ oSign' = 0
                                                     ELSE oExp' = y.exp /\ oSign' = y.sign
  BY <1>1, <1>5 DEF AddExpChk, exponent
<1>9. matchingSigns' = ~Differ'
  BY <1>7, <1>8
<1> QED  BY <1>7, <1>8, <1>9 DEF Aligned

\* ADDACT leaves a sum or difference that is shifted into place.
LEMMA AddStep ==
    ASSUME Aligned, AddAct, UNCHANGED request
    PROVE  Shifting'
<1> PICK x \in Word, y \in Word :
        /\ Ordered(x, y)
        /\ Xm = (Significand(x) * 2^MB) \div 2^(y.exp - x.exp)
        /\ Ym = Significand(y) * 2^MB
        /\ matchingSigns = ~Differ
        /\ expAdjust = 0
        /\ IF Differ /\ x.exp = y.exp /\ x.man = y.man THEN oExp = 0 /\ oSign = 0
                                                       ELSE oExp = y.exp /\ oSign = y.sign
  BY DEF Aligned
<1>1. /\ Om' = IF matchingSigns THEN Ym + Xm ELSE Ym - Xm
      /\ oSign' = oSign /\ oExp' = oExp /\ expAdjust' = expAdjust
  BY DEF AddAct, finalRes, exponent
<1>2. y.exp \in Nat
  BY BiasType DEF Ordered
<1>3. CASE ~Differ
  <2>1. ShiftsTo(Om', y.sign, y.exp) /\ Exact # 0
    BY <1>1, <1>3, SumShifts
  <2>2. oSign' = y.sign /\ oExp' - expAdjust' = y.exp
    BY <1>1, <1>2, <1>3
  <2> QED  BY <2>1, <2>2, ShiftingNext
<1>4. CASE Differ
  <2>1. /\ ShiftsTo(Om', y.sign, y.exp)
        /\ Exact = 0 <=> x.exp = y.exp /\ x.man = y.man
    BY <1>1, <1>4, DifferenceShifts
  <2>2. CASE ~(x.exp = y.exp /\ x.man = y.man)
    <3>1. oSign' = y.sign /\ oExp' - expAdjust' = y.exp /\ Exact # 0
      BY <1>1, <1>2, <2>1, <2>2
    <3> QED  BY <2>1, <3>1, ShiftingNext
  <2>3. CASE x.exp = y.exp /\ x.man = y.man
    <3>1. oSign' = 0 /\ oExp' = 0 /\ expAdjust' = 0 /\ Exact = 0
      BY <1>1, <1>4, <2>1, <2>3
    <3>2. Om' = 0
      <4>1. y.exp - x.exp = 0 /\ 2^0 = 1
        BY <1>2, <2>3
      <4>2. Significand(x) * 2^MB = Ym /\ Ym \in Nat
        BY <2>3, Guarded DEF Significand
      <4>3. 2^(y.exp - x.exp) = 1
        BY <4>1, SmallPowers
      <4>4. Xm = Ym \div 1
        BY <4>2, <4>3
      <4>5. \A d \in Nat : d \div 1 = d /\ d - d = 0
        OBVIOUS
      <4> QED  BY <1>1, <1>4, <4>2, <4>4, <4>5
    <3>3. ASSUME NEW e \in Exps PROVE ~FitsAt(e)
      <4>1. e \in Nat /\ Scale(e) \in Nat \ {0} /\ Top \in Nat \ {0}
        BY BiasType, Scaled, Widths DEF Top
      <4>2. \A c, d \in Nat \ {0} : c * d > 0
        OBVIOUS
      <4>3. Abs(Exact) = 0
        BY <3>1 DEF Abs
      <4> QED  BY <4>1, <4>2, <4>3, FitsScaled
    <3>4. Exact = Signed(oSign', 0)
      BY <3>1 DEF Signed
    <3>5. ShiftsTo(Om', oSign', oExp' - expAdjust')
      BY <3>3, <3>4 DEF ShiftsTo
    <3> QED  BY <3>1, <3>2, <3>5, ShiftingNext
  <2> QED  BY <2>2, <2>3
<1> QED  BY <1>3, <1>4

\* MULTOP multiplies the significands.
LEMMA MultStep ==
    ASSUME Started("mult", FALSE), expAdjust = 0, MultOp, UNCHANGED request
    PROVE  Multiplied'
<1>1. operation' = operation /\ firstOp' = firstOp /\ secondOp' = secondOp
  BY RequestKept
<1>2. Differ' <=> Differ
  BY RequestKept
<1> QED  BY <1>1, <1>2 DEF Multiplied, Started, MultOp

\* MULTEXP leaves a product that is shifted into place.
LEMMA MultExpStep ==
    ASSUME firstOp \in Word, secondOp \in Word, Ordinary,
           Multiplied, MultExp, UNCHANGED request
    PROVE  Shifting'
<1>1. /\ Om' = Om /\ oSign' = oSign /\ expAdjust' = 0
      /\ oExp' = (expInt - Bias) % 2^EB
  BY DEF MultExp, Multiplied, mantissa, exponent
<1>2. firstOp.exp \in Exps /\ secondOp.exp \in Exps /\ operation = "mult"
  BY DEF Ordinary, Multiplied, Started
<1>3. ShiftsTo(Om', oSign', oExp') /\ Exact # 0
  BY <1>1, <1>2, ProductShifts DEF Multiplied
<1>4. oExp' - expAdjust' = oExp'
  <2>1. expInt - Bias \in Int /\ 2^EB \in Nat \ {0}
    <3>1. firstOp.exp + secondOp.exp \in Int /\ 2^(EB + 1) \in Nat \ {0} /\ Bias \in Int
      BY Fields, Widths, BiasType
    <3>2. expInt \in Int
      BY <3>1, Remainder DEF Multiplied
    <3> QED  BY <3>1, <3>2, Widths
  <2>2. oExp' \in Int
    BY <1>1, <2>1, Remainder
  <2> QED  BY <1>1, <2>2
<1> QED  BY <1>3, <1>4, ShiftingNext

\* The exponent that a counted shift leaves out, or a carry adds, modulo its width.
LEMMA ExponentStep ==
    ASSUME NEW x \in Int, NEW y \in Int, NEW n \in Int, NEW b \in Nat \ {0}
    PROVE  /\ ((x - ((y + 1) % b)) - n) % b = (x - y - (n + 1)) % b
           /\ (((x + 1) % b) - y) % b = (x - y + 1) % b
<1> DEFINE q == (y + 1) \div b
           r == (y + 1) % b
           u == (x + 1) \div b
           v == (x + 1) % b
<1>1. q \in Int /\ r \in Int /\ y + 1 = b * q + r /\ u \in Int /\ v \in Int /\ x + 1 = b * u + v
  <2>1. y + 1 \in Int /\ x + 1 \in Int
    OBVIOUS
  <2> QED  BY <2>1, Division
<1> HIDE DEF q, r, u, v
<1>2. /\ (x - r) - n = (x - y - (n + 1)) + b * q
      /\ x - y - (n + 1) \in Int
      /\ x - y + 1 = (v - y) + b * u
      /\ v - y \in Int
  BY <1>1
<1>3. /\ ((x - y - (n + 1)) + b * q) % b = (x - y - (n + 1)) % b
      /\ ((v - y) + b * u) % b = (v - y) % b
  BY <1>1, <1>2, Congruent
<1> QED  BY <1>2, <1>3 DEF r, v

\* When the normalisation ends.
LEMMA Normal ==
    Normalised <=> Om = 0 \/ Om \in Top .. 2 * Top - 1
BY Widths DEF Normalised, Top

\* One shift brings the result one place nearer.
LEMMA NormStep ==
    ASSUME RegisterInv, Shifting, ~Normalised, Norm, UNCHANGED request
    PROVE  Shifting'
<1>1. /\ Om \in Nat /\ oExp \in Int /\ expAdjust \in Int
      /\ 2^EB \in Nat \ {0} /\ Top \in Nat \ {0}
  BY Widths DEF RegisterInv, Top
<1>2. Exact # 0
  BY DEF Shifting, Normalised
<1>3. oSign' = oSign
  BY DEF Norm
<1>4. \E a \in Nat : Exact = Signed(oSign', a)
  BY <1>3 DEF Shifting, ShiftsTo
<1>5. \/ Om < Top /\ Om' = 2 * Om /\ expAdjust' = (expAdjust + 1) % 2^EB /\ oExp' = oExp
      \/ Om >= 2 * Top /\ Om' = Om \div 2 /\ oExp' = (oExp + 1) % 2^EB /\ expAdjust' = expAdjust
  BY Widths DEF Norm, Top
<1>6. ASSUME NEW e \in Exps, FitsAt(e)
      PROVE  \E m \in Top .. Largest : Holds(e, m) /\ InPlace(e, m, Om', oExp' - expAdjust')
  <2>1. PICK m \in Top .. Largest : Holds(e, m) /\ InPlace(e, m, Om, oExp - expAdjust)
    BY <1>6 DEF Shifting, ShiftsTo
  <2>2. m \in Nat /\ Top <= m /\ m < 2 * Top
    BY <1>1, Widths DEF Largest
  <2>3. CASE Om < Top
    <3>1. Om' = 2 * Om /\ expAdjust' = (expAdjust + 1) % 2^EB /\ oExp' = oExp
      BY <1>1, <1>5, <2>3
    <3>2. PICK n \in Nat : m = Om * 2^n /\ (oExp - expAdjust - n) % 2^EB = e
      BY <1>1, <2>1, <2>3 DEF InPlace
    <3>3. n # 0
      BY <1>1, <2>2, <2>3, <3>2, SmallPowers
    <3>4. n - 1 \in Nat /\ n = (n - 1) + 1 /\ n - 1 \in Int
      BY <3>3
    <3>5. m = Om' * 2^(n - 1)
      <4>1. 2^n = 2 * 2^(n - 1) /\ 2^(n - 1) \in Nat
        BY <3>4, PowerNext, PowerPositive
      <4> QED  BY <1>1, <3>1, <3>2, <4>1
    <3>6. ((oExp' - expAdjust') - (n - 1)) % 2^EB = e
      <4>1. ((oExp - ((expAdjust + 1) % 2^EB)) - (n - 1)) % 2^EB
               = (oExp - expAdjust - ((n - 1) + 1)) % 2^EB
        BY <1>1, <3>4, ExponentStep
      <4> QED  BY <3>1, <3>2, <3>4, <4>1
    <3> QED  BY <2>1, <3>4, <3>5, <3>6 DEF InPlace
  <2>4. CASE ~(Om < Top)
    <3>1. /\ Om >= 2 * Top /\ Om' = Om \div 2
          /\ oExp' = (oExp + 1) % 2^EB /\ expAdjust' = expAdjust
      BY <1>5, <2>4
    <3>2. ASSUME NEW n \in Nat, m = Om * 2^n PROVE FALSE
      <4>1. 2^n \in Nat \ {0}
        BY PowerPositive
      <4>2. Om * 1 <= Om * 2^n
        BY <1>1, <4>1, ProductGrows
      <4> QED  BY <1>1, <2>2, <3>1, <3>2, <4>2
    <3>3. m = Om \div 2 /\ (oExp - expAdjust + 1) % 2^EB = e
      BY <2>1, <3>2 DEF InPlace
    <3>4. (((oExp + 1) % 2^EB) - expAdjust) % 2^EB = (oExp - expAdjust + 1) % 2^EB
      BY <1>1, ExponentStep
    <3>5. (oExp' - expAdjust') - 0 = ((oExp + 1) % 2^EB) - expAdjust
      <4>1. oExp + 1 \in Int
        BY <1>1
      <4>2. (oExp + 1) % 2^EB \in 0 .. 2^EB - 1
        BY <1>1, <4>1, Remainder
      <4> QED  BY <1>1, <3>1, <4>2
    <3>6. m = Om' * 2^0
      <4>1. 2^0 = 1 /\ Om' = m
        BY <3>1, <3>3
      <4> QED  BY <2>2, <4>1
    <3>7. InPlace(e, m, Om', oExp' - expAdjust')
      BY <3>3, <3>4, <3>5, <3>6 DEF InPlace
    <3> QED  BY <2>1, <3>7
  <2> QED  BY <2>3, <2>4
<1>7. ShiftsTo(Om', oSign', oExp' - expAdjust')
  BY <1>4, <1>6 DEF ShiftsTo
<1> QED  BY <1>2, <1>7, ShiftingNext

\* Rounded and with its exponent corrected, the result is right; stated of the
\* registers alone, so that it holds of the next state as well.
HeldNear ==
    \A m \in Top .. Largest, a \in Nat :
        /\ oExp \in Exps /\ Holds(oExp, m) /\ roundOm \in 0 .. 2^MB - 1
        /\ roundOm = (((m \div 2^MB) % 2^MB) + ((m \div 2^(MB - 1)) % 2)) % 2^MB
        /\ Exact = Signed(oSign, a)
        => NearTo(oExp)

\* It holds.
LEMMA HeldIsNear == HeldNear
BY NearIfHeld DEF HeldNear

\* The same of the next state.
LEMMA HeldIsNearNext == HeldNear'
BY HeldIsNear, PTL

\* ASSIGNOUTS rounds the normalised result and corrects its exponent.
LEMMA AssignStep ==
    ASSUME RegisterInv, Shifting, Normalised, AssignOuts, UNCHANGED request, RegisterInv'
    PROVE  RightResult'
<1>1. /\ Om' = Om /\ oSign' = oSign /\ roundOm' = Rounded
      /\ oExp' = (oExp - expAdjust) % 2^EB
  BY DEF AssignOuts, mantissa
<1>2. /\ Om \in Nat /\ oExp \in Int /\ expAdjust \in Int
      /\ 2^EB \in Nat \ {0} /\ Top \in Nat \ {0} /\ 2^MB \in Nat \ {0}
      /\ 2^(MB - 1) \in Nat \ {0}
  BY Widths DEF RegisterInv, Top
<1>3. /\ Exact' = Exact /\ (\A e \in Exps : FitsAt(e)' <=> FitsAt(e))
      /\ \A e, m : Holds(e, m)' <=> Holds(e, m)
  BY RequestKept
<1>4. ASSUME Exact' = 0 PROVE Result' = 0
  <2>1. Om = 0 /\ oExp = 0 /\ oSign = 0 /\ expAdjust = 0
    BY <1>3, <1>4 DEF Shifting
  <2>2. \A d \in Nat \ {0} : 0 % d = 0 /\ 0 \div d = 0
    OBVIOUS
  <2>3. oExp' = 0
    BY <1>1, <1>2, <2>1, <2>2
  <2>4. roundOm' = 0
    <3>1. Rounded = (((0 \div 2^MB) % 2^MB) + ((0 \div 2^(MB - 1)) % 2)) % 2^MB
      BY <2>1 DEF Rounded
    <3>2. (0 \div 2^MB) % 2^MB = 0 /\ (0 \div 2^(MB - 1)) % 2 = 0
      BY <1>2, <2>2
    <3> QED  BY <1>1, <1>2, <2>2, <3>1, <3>2
  <2>5. Unit \in Int
    <3>1. Bias + MB \in Nat
      BY BiasType, WidthAssumption
    <3> QED  BY <3>1, PowerPositive DEF Unit
  <2>6. Val([sign |-> oSign', exp |-> oExp', man |-> roundOm']) = 0
    BY <1>1, <2>1, <2>3, <2>4 DEF Val, ZeroWord
  <2> QED  BY <2>5, <2>6 DEF Result
<1>5. ASSUME NEW e \in Exps, FitsAt(e)' PROVE NearTo(e)'
  <2>1. PICK m \in Top .. Largest : Holds(e, m) /\ InPlace(e, m, Om, oExp - expAdjust)
    BY <1>3, <1>5 DEF Shifting, ShiftsTo
  <2>2. m \in Nat /\ Top <= m /\ m < 2 * Top
    BY <1>2, Widths DEF Largest
  <2>3. Om < 2 * Top
    BY <1>2, Normal
  <2>4. PICK n \in Nat : m = Om * 2^n /\ (oExp - expAdjust - n) % 2^EB = e
    BY <1>2, <2>1, <2>3 DEF InPlace
  <2>5. n = 0
    <3>1. Om # 0
      <4>1. 2^n \in Nat
        BY PowerPositive
      <4> QED  BY <1>2, <2>2, <2>4, <4>1
    <3>2. Top <= Om
      BY <1>2, <3>1, Normal
    <3>3. n # 0 => Om * 2 <= Om * 2^n
      <4>1. 2^n \in Nat /\ (n # 0 => 2 <= 2^n)
        BY PowerPositive, SmallPowers
      <4> QED  BY <1>2, <4>1, ProductGrows
    <3> QED  BY <1>2, <2>2, <2>4, <3>2, <3>3
  <2>6. m = Om /\ oExp' = e
    <3>1. 2^n = 1
      BY <2>5, SmallPowers
    <3>2. (oExp - expAdjust) - n = oExp - expAdjust
      BY <1>2, <2>5
    <3> QED  BY <1>1, <1>2, <2>4, <3>1, <3>2
  <2>7. PICK a \in Nat : Exact = Signed(oSign, a)
    BY DEF Shifting, ShiftsTo
  <2>8. Exact' = Signed(oSign', a)
    BY <1>1, <1>3, <2>7 DEF Signed
  <2>9. roundOm' = (((m \div 2^MB) % 2^MB) + ((m \div 2^(MB - 1)) % 2)) % 2^MB
    BY <1>1, <2>6 DEF Rounded
  <2>10. roundOm' \in 0 .. 2^MB - 1
    BY DEF RegisterInv
  <2>11. Holds(oExp, m)'
    BY <1>3, <2>1, <2>6
  <2>12. NearTo(oExp)'
    <3>1. m \in Top .. Largest /\ oExp' \in Exps
      BY <2>6
    <3> QED  BY <2>7, <2>8, <2>9, <2>10, <2>11, <3>1, HeldIsNearNext
             DEF HeldNear, Top, Largest, Exps, Signed
  <2> QED  BY <2>6, <2>12
<1> QED  BY <1>4, <1>5 DEF RightResult

\* An exact result is right.
LEMMA ExactIsRight ==
    ASSUME Result' = Exact', Exact' \in Int
    PROVE  RightResult'
<1>1. ASSUME NEW e \in Exps PROVE NearTo(e)'
  <2>1. e \in Nat /\ Scale(e) \in Nat \ {0} /\ 2^MB \in Nat \ {0} /\ Ulp(e) = 2^MB * Scale(e)
    BY BiasType, Scaled, Widths
  <2>2. \A c, d \in Nat \ {0} : 0 < c * d
    OBVIOUS
  <2>3. 0 < Ulp(e) /\ 0 <= Ulp(e)
    <3>1. \A c, d \in Nat \ {0} : 0 <= c * d
      OBVIOUS
    <3> QED  BY <2>1, <2>2, <3>1
  <2>4. PICK d \in Int : Result' = d /\ Exact' = d
    OBVIOUS
  <2>5. Abs(d - d) = 0 /\ 2 * 0 = 0
    BY DEF Abs
  <2>6. Abs(Result - Exact)' = 0
    BY <2>4, <2>5 DEF Abs
  <2> QED  BY <2>3, <2>5, <2>6 DEF NearTo, Ulp
<1> QED  BY <1>1 DEF RightResult

\* Values are integers.
LEMMA ValType ==
    ASSUME NEW w \in Word
    PROVE  Val(w) \in Int
<1>1. CASE w = ZeroWord
  BY <1>1 DEF Val
<1>2. CASE w # ZeroWord
  BY <1>2, ValSigned, SignedAbs
<1> QED  BY <1>1, <1>2

\* The unit of the values.
LEMMA UnitType == Unit \in Nat
<1>1. Bias + MB \in Nat
  BY BiasType, WidthAssumption
<1> QED  BY <1>1, PowerPositive DEF Unit

\* The result that is put out.
LEMMA PutOutResult ==
    ASSUME NEW w \in Word, PutOut(w)
    PROVE  Result' = Val(w) * Unit
<1>1. [sign |-> oSign', exp |-> oExp', man |-> roundOm'] = w
  BY DEF PutOut, Word
<1> QED  BY <1>1 DEF Result

\* The operand beside a zero is the sum.
LEMMA ZeroAddStep ==
    ASSUME RegisterInv, Started("add", TRUE), ZeroAdd, UNCHANGED request
    PROVE  RightResult'
<1>1. firstOp \in Word /\ secondOp \in Word
  BY OperandWords
<1>2. PICK w \in Word :
         /\ w = IF firstOp = ZeroWord THEN secondOp ELSE firstOp
         /\ PutOut(w)
  BY <1>1 DEF ZeroAdd
<1>3. Val(w) \in Int /\ Unit \in Int
  BY ValType, UnitType
<1>4. Val(ZeroWord) = 0
  BY DEF Val
<1>5. Val(firstOp) + Val(secondOp) = Val(w)
  BY <1>2, <1>3, <1>4 DEF Started
<1>6. Exact' = Val(w) * Unit
  BY <1>5, RequestKept DEF Started, Exact
<1>7. Val(w) * Unit \in Int
  BY <1>3
<1> QED  BY <1>2, <1>6, <1>7, PutOutResult, ExactIsRight

\* The product with a zero is zero.
LEMMA ZeroMultStep ==
    ASSUME RegisterInv, Started("mult", TRUE), ZeroMult, UNCHANGED request
    PROVE  RightResult'
<1>1. firstOp \in Word /\ secondOp \in Word /\ ZeroWord \in Word
  BY OperandWords
<1>2. Val(firstOp) \in Int /\ Val(secondOp) \in Int /\ Unit \in Int /\ Val(ZeroWord) = 0
  <2>1. Val(ZeroWord) = 0
    BY DEF Val
  <2> QED  BY <1>1, <2>1, ValType, UnitType
<1>3. Val(firstOp) * Val(secondOp) = 0
  <2>1. \A c \in Int : 0 * c = 0 /\ c * 0 = 0
    OBVIOUS
  <2> QED  BY <1>2, <2>1 DEF Started
<1>4. Exact' = 0
  BY <1>3, RequestKept DEF Started, Exact
<1>5. Result' = 0
  <2>1. PutOut(ZeroWord)
    BY DEF ZeroMult
  <2>2. Result' = Val(ZeroWord) * Unit
    BY <1>1, <2>1, PutOutResult
  <2> QED  BY <1>2, <2>2
<1> QED  BY <1>4, <1>5, ExactIsRight

----------------------------------------------------------------------------
(* The result, for every operation from start to done *)

\* The unit works for a layer, and no cut normalisation goes on.
Busy == resetn /\ caller \in {"waiting", "taking"} /\ ~residue

\* The flags that may be up in each state.
Raised ==
    [ADDEXPCHK |-> {"none"}, ADDSHIFTING |-> {"ADDEXPCHK"}, ADDACT |-> {"none"},
     MULTOP |-> {"none"}, MULTEXP |-> {"MULTOP"},
     NORM |-> {"ADDACT", "MULTEXP", "NORM"}, ASSIGNOUTS |-> {"none"},
     ZEROADD |-> {"none"}, ZEROMULT |-> {"none"},
     DONE_WAIT |-> {"ASSIGNOUTS", "ZEROADD", "ZEROMULT"}, DONE |-> {"none"},
     INITWAIT |-> {"DONE", "none"}]

\* The machine goes the way of its operation.
Begun ==
    \A s \in {"ADDEXPCHK", "MULTOP", "ZEROADD", "ZEROMULT"} :
        st = s \/ flag = s => Begin = s

PlaceInv == Busy => flag \in Raised[st] /\ Begun

\* What the registers hold at each place.
DataPlace ==
    /\ \/ edge = "rise" /\ st = "ADDSHIFTING"
       \/ st = "ADDACT"
       \/ edge = "fall" /\ flag = "ADDACT"
       => Aligned
    /\ \/ edge = "rise" /\ st = "MULTEXP"
       \/ edge = "fall" /\ flag = "MULTEXP"
       => Multiplied
    /\ \/ st = "NORM" /\ (edge = "rise" \/ flag = "NORM")
       \/ st = "ASSIGNOUTS"
       \/ edge = "fall" /\ flag = "ASSIGNOUTS"
       => Shifting
    /\ \/ st = "ASSIGNOUTS"
       \/ edge = "fall" /\ flag = "ASSIGNOUTS"
       => Normalised
    /\ edge = "fall" /\ flag = "NORM" => ~Normalised
    /\ \/ edge = "rise" /\ st = "DONE_WAIT"
       \/ st \in {"DONE", "INITWAIT"}
       => RightResult

DataInv == Busy /\ Ordinary => DataPlace

\* Output and request unchanged, the result stays right.
LEMMA ResultKept ==
    ASSUME UNCHANGED finalRes, UNCHANGED request
    PROVE  RightResult => RightResult'
<1>1. UNCHANGED <<oSign, oExp, roundOm>> /\ operation' = operation
  BY DEF finalRes, request
<1>2. /\ Exact' = Exact /\ (Differ' <=> Differ)
      /\ \A e \in Exps : FitsAt(e)' <=> FitsAt(e)
  BY RequestKept
<1>3. Result' = Result
  BY <1>1 DEF Result
<1>4. \A e \in Exps : NearTo(e) => NearTo(e)'
  BY <1>1, <1>2, <1>3 DEF NearTo
<1> QED  BY <1>2, <1>3, <1>4 DEF RightResult

\* Registers and request unchanged, they hold what they held.
LEMMA DataKept ==
    ASSUME UNCHANGED <<mantissa, exponent, finalRes>>, UNCHANGED request
    PROVE  /\ Aligned => Aligned'
           /\ Multiplied => Multiplied'
           /\ Shifting => Shifting'
           /\ Normalised' <=> Normalised
           /\ RightResult => RightResult'
<1>1. /\ UNCHANGED <<Xm, Ym, Om, matchingSigns, expInt, expAdjust, oSign, oExp, roundOm>>
      /\ UNCHANGED <<operation, firstOp, secondOp>>
  BY DEF mantissa, exponent, finalRes, request
<1>2. /\ Exact' = Exact /\ (Differ' <=> Differ)
      /\ \A e \in Exps : FitsAt(e)' <=> FitsAt(e)
  BY RequestKept
<1>3. Aligned => Aligned'
  BY <1>1, <1>2 DEF Aligned, Ordered
<1>4. Multiplied => Multiplied'
  BY <1>1, <1>2 DEF Multiplied, Started
<1>5. Shifting => Shifting'
  BY <1>1, ShiftingNext DEF Shifting
<1>6. Normalised' <=> Normalised
  BY <1>1 DEF Normalised
<1>7. RightResult => RightResult'
  BY ResultKept
<1> QED  BY <1>3, <1>4, <1>5, <1>6, <1>7

\* The inductive invariant.
ResultInv == CInv /\ RegisterInv /\ PlaceInv /\ DataInv

\* Where an operation began tells what it is.
LEMMA BeginTells ==
    ASSUME operation \in {"add", "mult"}
    PROVE  /\ Begin \in {"ADDEXPCHK", "MULTOP", "ZEROADD", "ZEROMULT"}
           /\ Begin = "ADDEXPCHK" => Started("add", FALSE)
           /\ Begin = "MULTOP" => Started("mult", FALSE)
           /\ Begin = "ZEROADD" => Started("add", TRUE)
           /\ Begin = "ZEROMULT" => Started("mult", TRUE)
<1>1. CASE ZeroWord \in {firstOp, secondOp}
  BY <1>1 DEF Begin, Started
<1>2. CASE ZeroWord \notin {firstOp, secondOp}
  BY <1>2 DEF Begin, Started
<1> QED  BY <1>1, <1>2

\* A rising edge moves the machine, and the registers hold what its next
\* place needs.
LEMMA RisingData ==
    ASSUME ResultInv, RisingEdge
    PROVE  PlaceInv' /\ DataInv'
<1> SUFFICES ASSUME Busy'
             PROVE  /\ flag' \in Raised[st'] /\ Begun'
                    /\ Ordinary' => DataPlace'
  BY DEF PlaceInv, DataInv, Raised
<1>1. /\ edge = "rise" /\ edge' = "fall" /\ residue' = residue /\ ~residue
      /\ UNCHANGED <<mantissa, exponent, finalRes>> /\ Layer
      /\ caller' \in {"waiting", "taking"}
  BY DEF RisingEdge, Busy
<1>2. resetn /\ Advance
  BY <1>1 DEF RisingEdge, Control, Layer
<1>3. /\ caller \in {"starting", "waiting"} /\ UNCHANGED request
      /\ flag \in Work \cup {"none"} /\ st \in Steps
      /\ caller # "waiting" => st = "INITWAIT"
      /\ caller = "waiting" => st # "INITWAIT" \/ flag = "DONE"
  BY <1>1, <1>2 DEF Layer, ResultInv, CInv, ControlTypeOK, InStep
<1>4. Begin' = Begin
  BY <1>3, RequestKept DEF Begin
<1>5. CASE caller = "starting"
  <2>1. st = "INITWAIT" /\ flag' = "none" /\ st' = Begin
    BY <1>2, <1>3, <1>5 DEF Advance, Work
  <2>2. st' \in {"ADDEXPCHK", "MULTOP", "ZEROADD", "ZEROMULT"}
    BY <2>1, BeginTells DEF ResultInv, CInv, ControlTypeOK
  <2>3. flag' \in Raised[st'] /\ Begun'
    <3>1. flag' \in Raised[st']
      BY <2>1, <2>2 DEF Raised
    <3>2. Begun'
      BY <1>4, <2>1, <2>2 DEF Begun
    <3> QED  BY <3>1, <3>2
  <2>4. DataPlace'
    BY <1>1, <2>1, <2>2 DEF DataPlace
  <2> QED  BY <2>3, <2>4
<1>6. CASE caller = "waiting"
  <2>1. flag \in Raised[st] /\ Begun /\ (Ordinary' => DataPlace)
    BY <1>1, <1>2, <1>3, <1>6, RequestKept DEF ResultInv, PlaceInv, DataInv, Busy
  <2>2. CASE st = "INITWAIT"
    <3>1. st' = "INITWAIT" /\ flag' = "none"
      BY <1>2, <1>6, <2>2 DEF Advance, Work
    <3>2. flag' \in Raised[st'] /\ Begun'
      BY <3>1 DEF Raised, Begun
    <3>3. ASSUME Ordinary' PROVE DataPlace'
      <4>1. RightResult'
        BY <1>1, <1>3, <2>1, <2>2, <3>3, DataKept DEF DataPlace
      <4> QED  BY <1>1, <3>1, <4>1 DEF DataPlace
    <3> QED  BY <3>2, <3>3
  <2>3. CASE st = "NORM"
    <3>1. /\ flag' = IF Normalised THEN "none" ELSE "NORM"
          /\ st' = IF Normalised THEN "ASSIGNOUTS" ELSE "NORM"
      BY <1>2, <2>3 DEF Advance, Work, After
    <3>2. flag' \in Raised[st'] /\ Begun'
      BY <3>1 DEF Raised, Begun
    <3>3. ASSUME Ordinary' PROVE DataPlace'
      <4>1. Shifting' /\ (Normalised' <=> Normalised)
        BY <1>1, <1>3, <2>1, <2>3, <3>3, DataKept DEF DataPlace
      <4> QED  BY <1>1, <3>1, <4>1 DEF DataPlace
    <3> QED  BY <3>2, <3>3
  <2>4. CASE st \notin {"INITWAIT", "NORM"}
    <3>1. /\ st' = After[st]
          /\ flag' = IF st \in {"ADDSHIFTING", "DONE_WAIT"} THEN "none" ELSE st
      BY <1>2, <2>4 DEF Advance, Work
    <3>2. flag' \in Raised[st'] /\ Begun'
      <4>1. flag' \in Raised[st']
        BY <1>3, <2>1, <2>4, <3>1 DEF Raised, After, Steps, Work
      <4>2. Begun'
        BY <1>3, <1>4, <2>1, <2>4, <3>1 DEF Begun, After, Steps, Work
      <4> QED  BY <4>1, <4>2
    <3>3. ASSUME Ordinary' PROVE DataPlace'
      <4>1. DataPlace
        BY <2>1, <3>3
      <4>2. /\ Aligned => Aligned'
            /\ Multiplied => Multiplied'
            /\ Shifting => Shifting'
            /\ Normalised' <=> Normalised
            /\ RightResult => RightResult'
        BY <1>1, <1>3, DataKept
      <4> QED  BY <1>1, <1>3, <2>4, <3>1, <4>1, <4>2 DEF DataPlace, After, Steps, Work
    <3> QED  BY <3>2, <3>3
  <2> QED  BY <2>2, <2>3, <2>4
<1> QED  BY <1>3, <1>5, <1>6

\* A falling edge carries out what the flag asks for.
LEMMA FallingData ==
    ASSUME ResultInv, FallingEdge
    PROVE  PlaceInv' /\ DataInv'
<1> SUFFICES ASSUME Busy'
             PROVE  /\ flag' \in Raised[st'] /\ Begun'
                    /\ Ordinary' => DataPlace'
  BY DEF PlaceInv, DataInv, Raised
<1>1. /\ edge = "fall" /\ edge' = "rise" /\ resetn' = resetn
      /\ st' = st /\ flag' = flag /\ UNCHANGED request /\ Datapath
      /\ caller' = IF caller = "taking" THEN "idle" ELSE caller
      /\ residue' = (resetn /\ \/ flag = "NORM" /\ st = "INITWAIT"
                               \/ residue /\ caller # "taking")
  BY DEF FallingEdge, control
<1>2. /\ resetn /\ caller = "waiting" /\ ~residue
      /\ ~(flag = "NORM" /\ st = "INITWAIT")
  BY <1>1 DEF Busy, ResultInv, CInv, ControlTypeOK
<1>3. flag \in Raised[st] /\ Begun /\ (Ordinary' => Ordinary /\ DataPlace)
  BY <1>1, <1>2, RequestKept DEF ResultInv, PlaceInv, DataInv, Busy
<1>4. flag' \in Raised[st'] /\ Begun'
  <2>1. Begin' = Begin
    BY <1>1, RequestKept DEF Begin
  <2> QED  BY <1>1, <1>3, <2>1 DEF Begun
<1>5. ASSUME Ordinary' PROVE DataPlace'
  <2>1. /\ Ordinary /\ DataPlace /\ RegisterInv /\ firstOp \in Word /\ secondOp \in Word
        /\ st \in Steps /\ flag \in Work \cup {"none"} /\ operation \in {"add", "mult"}
    BY <1>3, <1>5, OperandWords DEF ResultInv, CInv, ControlTypeOK
  <2>2. expAdjust = 0 \/ st \in {"NORM", "ASSIGNOUTS", "DONE_WAIT", "DONE"} \/ flag = "DONE"
    BY <1>2 DEF ResultInv, CInv, ShiftPlace
  <2>3. CASE flag = "none"
    <3>1. UNCHANGED <<mantissa, exponent, finalRes>>
      BY <1>1, <1>2, <2>3 DEF Datapath
    <3>2. /\ Aligned => Aligned'
          /\ Multiplied => Multiplied'
          /\ Shifting => Shifting'
          /\ Normalised' <=> Normalised
          /\ RightResult => RightResult'
      BY <1>1, <3>1, DataKept
    <3> QED  BY <1>1, <1>3, <2>1, <2>3, <3>2 DEF DataPlace, Raised
  <2>4. CASE flag = "ADDEXPCHK"
    <3>1. st = "ADDSHIFTING" /\ AddExpChk /\ Started("add", FALSE)
      <4>1. st = "ADDSHIFTING" /\ AddExpChk
        BY <1>1, <1>2, <1>3, <2>1, <2>4 DEF Datapath, Raised, Steps, Work
      <4>2. Begin = flag
        BY <1>3, <2>4 DEF Begun
      <4> QED  BY <2>1, <2>4, <4>1, <4>2, BeginTells
    <3>2. Aligned'
      BY <1>1, <2>1, <2>2, <2>4, <3>1, AlignStep
    <3> QED  BY <1>1, <2>4, <3>1, <3>2 DEF DataPlace
  <2>5. CASE flag = "ADDACT"
    <3>1. st = "NORM" /\ AddAct /\ Aligned
      BY <1>1, <1>2, <1>3, <2>1, <2>5 DEF Datapath, Raised, DataPlace, Steps, Work
    <3>2. Shifting'
      BY <1>1, <3>1, AddStep
    <3> QED  BY <1>1, <2>5, <3>1, <3>2 DEF DataPlace
  <2>6. CASE flag = "MULTOP"
    <3>1. st = "MULTEXP" /\ MultOp /\ Started("mult", FALSE)
      <4>1. st = "MULTEXP" /\ MultOp
        BY <1>1, <1>2, <1>3, <2>1, <2>6 DEF Datapath, Raised, Steps, Work
      <4>2. Begin = flag
        BY <1>3, <2>6 DEF Begun
      <4> QED  BY <2>1, <2>6, <4>1, <4>2, BeginTells
    <3>2. Multiplied'
      BY <1>1, <2>2, <2>6, <3>1, MultStep
    <3> QED  BY <1>1, <2>6, <3>1, <3>2 DEF DataPlace
  <2>7. CASE flag = "MULTEXP"
    <3>1. st = "NORM" /\ MultExp /\ Multiplied
      BY <1>1, <1>2, <1>3, <2>1, <2>7 DEF Datapath, Raised, DataPlace, Steps, Work
    <3>2. Shifting'
      BY <1>1, <2>1, <3>1, MultExpStep
    <3> QED  BY <1>1, <2>7, <3>1, <3>2 DEF DataPlace
  <2>8. CASE flag = "NORM"
    <3>1. st = "NORM" /\ Norm /\ Shifting /\ ~Normalised
      BY <1>1, <1>2, <1>3, <2>1, <2>8 DEF Datapath, Raised, DataPlace, Steps, Work
    <3>2. Shifting'
      BY <1>1, <2>1, <3>1, NormStep
    <3> QED  BY <1>1, <2>8, <3>1, <3>2 DEF DataPlace
  <2>9. CASE flag = "ASSIGNOUTS"
    <3>1. st = "DONE_WAIT" /\ AssignOuts /\ Shifting /\ Normalised
      BY <1>1, <1>2, <1>3, <2>1, <2>9 DEF Datapath, Raised, DataPlace, Steps, Work
    <3>2. RegisterInv'
      BY <2>1, RegisterStep DEF Next
    <3>3. RightResult'
      BY <1>1, <2>1, <3>1, <3>2, AssignStep
    <3> QED  BY <1>1, <2>9, <3>1, <3>3 DEF DataPlace
  <2>10. CASE flag = "ZEROADD"
    <3>1. st = "DONE_WAIT" /\ ZeroAdd /\ Started("add", TRUE)
      <4>1. st = "DONE_WAIT" /\ ZeroAdd
        BY <1>1, <1>2, <1>3, <2>1, <2>10 DEF Datapath, Raised, Steps, Work
      <4>2. Begin = flag
        BY <1>3, <2>10 DEF Begun
      <4> QED  BY <2>1, <2>10, <4>1, <4>2, BeginTells
    <3>2. RightResult'
      BY <1>1, <2>1, <3>1, ZeroAddStep
    <3> QED  BY <1>1, <2>10, <3>1, <3>2 DEF DataPlace
  <2>11. CASE flag = "ZEROMULT"
    <3>1. st = "DONE_WAIT" /\ ZeroMult /\ Started("mult", TRUE)
      <4>1. st = "DONE_WAIT" /\ ZeroMult
        BY <1>1, <1>2, <1>3, <2>1, <2>11 DEF Datapath, Raised, Steps, Work
      <4>2. Begin = flag
        BY <1>3, <2>11 DEF Begun
      <4> QED  BY <2>1, <2>11, <4>1, <4>2, BeginTells
    <3>2. RightResult'
      BY <1>1, <2>1, <3>1, ZeroMultStep
    <3> QED  BY <1>1, <2>11, <3>1, <3>2 DEF DataPlace
  <2>12. CASE flag = "DONE"
    <3>1. st = "INITWAIT" /\ UNCHANGED finalRes /\ RightResult
      BY <1>1, <1>2, <1>3, <2>1, <2>12 DEF Datapath, Raised, DataPlace, Steps, Work
    <3>2. RightResult'
      BY <1>1, <3>1, ResultKept
    <3> QED  BY <1>1, <2>12, <3>1, <3>2 DEF DataPlace
  <2> QED  BY <2>1, <2>3, <2>4, <2>5, <2>6, <2>7, <2>8, <2>9, <2>10, <2>11, <2>12 DEF Work
<1> QED  BY <1>4, <1>5

\* The handshake, the widths, the way of the machine and what the registers hold
\* at each place are preserved together.
THEOREM ResultInvariance == Spec => []ResultInv
<1>1. Init => PlaceInv /\ DataInv
  BY DEF Init, PlaceInv, DataInv, Busy
<1>2. ResultInv /\ [Next]_vars => PlaceInv' /\ DataInv'
  <2> SUFFICES ASSUME ResultInv, [Next]_vars PROVE PlaceInv' /\ DataInv'
    OBVIOUS
  <2>1. CASE RisingEdge
    BY <2>1, RisingData
  <2>2. CASE FallingEdge
    BY <2>2, FallingData
  <2>3. CASE UNCHANGED vars
    <3>1. /\ UNCHANGED <<edge, resetn, st, flag, caller, residue>>
          /\ UNCHANGED <<mantissa, exponent, finalRes>> /\ UNCHANGED request
      BY <2>3 DEF vars, control
    <3>2. /\ Aligned => Aligned'
          /\ Multiplied => Multiplied'
          /\ Shifting => Shifting'
          /\ Normalised' <=> Normalised
          /\ RightResult => RightResult'
      BY <3>1, DataKept
    <3>3. DataPlace => DataPlace'
      BY <3>1, <3>2 DEF DataPlace
    <3>4. (Busy' <=> Busy) /\ (Ordinary' <=> Ordinary) /\ (Begun => Begun')
      BY <3>1, RequestKept DEF Busy, Begun, Begin
    <3> QED  BY <3>1, <3>3, <3>4 DEF ResultInv, PlaceInv, DataInv, Raised
  <2> QED  BY <2>1, <2>2, <2>3 DEF Next
<1> QED  BY <1>1, <1>2, HandshakeInvariance, RegisterInvariance, PTL DEF Spec, ResultInv

\* For all widths and operands, and resets at any edge, the number a layer takes
\* over is the sum or product of its operands, a product or a sum of equal signs
\* rounded to the nearest and a difference less than one unit in the last place
\* off, if the exact result is an ordinary number and needs no carry, and no
\* cut normalisation went on (FPUnit.sv lines 209-373).
THEOREM ResultCorrect == Spec => []ResultRight
<1>1. ResultInv => ResultRight
  <2> SUFFICES ASSUME ResultInv, Taking, Ordinary, ~residue PROVE RightResult
    BY DEF ResultRight
  <2>1. st = "INITWAIT" /\ Busy
    BY DEF Taking, Busy, ResultInv, CInv, InStep
  <2> QED  BY <2>1 DEF ResultInv, DataInv, DataPlace
<1> QED  BY <1>1, ResultInvariance, PTL

=============================================================================
