------------------------------- MODULE FPUnit -------------------------------
(***************************************************************************)
(* The floating-point unit FPUnit.sv and the handshake by which a layer    *)
(* uses it.  The control machine moves on the rising edge of the clock,    *)
(* the datapath on the falling edge; the layer raises start for one cycle, *)
(* keeps its operands and the operation until it sees done, and takes      *)
(* finalRes over on the falling edge after that.  Unit and layer share     *)
(* clock and reset.                                                        *)
(*                                                                         *)
(* The mantissa has MB bits (23 in the code) and the exponent EB (8).      *)
(* The control flags exclude each other, so one variable names the flag    *)
(* that is up.  curState is nextState of the edge before and is not kept.  *)
(* toShift is back at zero when addexpchk ends, so the machine passes      *)
(* ADDSHIFTING in one edge and the flag addshifting is never up; whichX    *)
(* and expInc are written and never read.                                  *)
(***************************************************************************)
EXTENDS Integers

CONSTANTS
    MB, EB,      \* bits of the mantissa and of the exponent
    Operands     \* the words the layers compute with

Word == [sign : 0 .. 1, exp : 0 .. 2^EB - 1, man : 0 .. 2^MB - 1]
ZeroWord == [sign |-> 0, exp |-> 0, man |-> 0]

ASSUME WidthAssumption   == MB \in Nat \ {0} /\ EB \in Nat \ {0, 1}
ASSUME OperandAssumption == Operands \subseteq Word /\ ZeroWord \in Operands

VARIABLES
    edge,                        \* the clock edge that comes next
    resetn,                      \* reset, active low
    st,                          \* nextState
    flag,                        \* the control flag that is up, or "none"
    Xm, Ym, Om, matchingSigns,   \* mantissas: smaller, larger, result
    expInt, expAdjust,           \* exponent sum, left shifts made
    oSign, oExp, roundOm,        \* finalRes
    caller,                      \* the layer: "starting" is start = 1
    operation, firstOp, secondOp,
    residue                      \* history: a normalisation cut by a reset
                                 \* went on after it

control  == <<st, flag>>
mantissa == <<Xm, Ym, Om, matchingSigns>>
exponent == <<expInt, expAdjust>>
finalRes == <<oSign, oExp, roundOm>>
request  == <<operation, firstOp, secondOp>>
vars == <<edge, resetn, control, mantissa, exponent, finalRes, caller,
          request, residue>>

Work  == {"ADDEXPCHK", "ADDACT", "MULTOP", "MULTEXP", "NORM", "ASSIGNOUTS",
          "ZEROADD", "ZEROMULT", "DONE"}
Steps == Work \cup {"INITWAIT", "ADDSHIFTING", "DONE_WAIT"}

Bias == 2^(EB - 1) - 1

Init ==
    /\ edge = "rise" /\ resetn = FALSE
    /\ st = "INITWAIT" /\ flag = "none"
    /\ Xm = 0 /\ Ym = 0 /\ Om = 0 /\ matchingSigns = FALSE
    /\ expInt = 0 /\ expAdjust = 0
    /\ oSign = 0 /\ oExp = 0 /\ roundOm = 0
    /\ caller = "idle" /\ operation = "add"
    /\ firstOp = ZeroWord /\ secondOp = ZeroWord
    /\ residue = FALSE

----------------------------------------------------------------------------
(* Rising edge: the control machine and the layer *)

\* Where a started operation begins.
Begin ==
    IF ZeroWord \in {firstOp, secondOp}
    THEN IF operation = "add" THEN "ZEROADD" ELSE "ZEROMULT"
    ELSE IF operation = "add" THEN "ADDEXPCHK" ELSE "MULTOP"

\* Seeded fault: the test for a vanished sum is missing.
Normalised_NoZero == Om \in 2^(2 * MB) .. 2^(2 * MB + 1) - 1

Normalised == Om = 0 \/ Om \in 2^(2 * MB) .. 2^(2 * MB + 1) - 1

After == [ADDEXPCHK |-> "ADDSHIFTING", ADDSHIFTING |-> "ADDACT",
          ADDACT |-> "NORM", MULTOP |-> "MULTEXP", MULTEXP |-> "NORM",
          NORM |-> "ASSIGNOUTS", ASSIGNOUTS |-> "DONE_WAIT",
          ZEROADD |-> "DONE_WAIT", ZEROMULT |-> "DONE_WAIT",
          DONE_WAIT |-> "DONE", DONE |-> "INITWAIT"]

\* One step of the machine out of reset.
Advance ==
    \/ /\ st = "INITWAIT"
       /\ flag' = "none"
       /\ st' = IF caller = "starting" THEN Begin ELSE "INITWAIT"
    \/ /\ st \in {"ADDSHIFTING", "DONE_WAIT"}
       /\ flag' = "none" /\ st' = After[st]
    \/ /\ st \in Work \ {"NORM"}
       /\ flag' = st /\ st' = After[st]
    \/ /\ st = "NORM"
       /\ flag' = IF Normalised THEN "none" ELSE "NORM"
       /\ st'   = IF Normalised THEN After[st] ELSE "NORM"

\* Seeded fault: the reset does not reach the machine.
Control_NoReset == Advance

\* The reset leaves the flag of the last edge standing.
Control ==
    IF resetn THEN Advance ELSE st' = "INITWAIT" /\ UNCHANGED flag

\* The layer: start up for one edge, then wait for done.
Layer ==
    IF ~resetn THEN caller' = "idle" /\ UNCHANGED request
    ELSE \/ /\ caller = "idle"
            /\ UNCHANGED <<caller, request>>
         \/ /\ caller = "idle"
            /\ caller' = "starting"
            /\ operation' \in {"add", "mult"}
            /\ firstOp' \in Operands /\ secondOp' \in Operands
         \/ /\ caller = "starting"
            /\ caller' = "waiting" /\ UNCHANGED request
         \/ /\ caller = "waiting"
            /\ caller' = IF flag = "DONE" THEN "taking" ELSE "waiting"
            /\ UNCHANGED request

\* The reset is a register of the same clock: it moves after a rising edge.
RisingEdge ==
    /\ edge = "rise" /\ edge' = "fall"
    /\ Control /\ Layer
    /\ resetn' \in BOOLEAN
    /\ UNCHANGED <<mantissa, exponent, finalRes, residue>>

----------------------------------------------------------------------------
(* Falling edge: the datapath *)

Differ == firstOp.sign # secondOp.sign

\* The signed exponent without its bias; the largest one wraps round.
UnBiased(x) ==
    ((x.exp - Bias + 2^(EB - 1)) % 2^EB) - 2^(EB - 1)

Significand(x) == 2^MB + x.man      \* with the leading one

Smaller(x, y) ==
    \/ UnBiased(x) < UnBiased(y)
    \/ UnBiased(x) = UnBiased(y) /\ x.man < y.man

\* Align the operand of smaller magnitude to the other one.
AddExpChk ==
    LET second == Smaller(firstOp, secondOp)
        x == IF second THEN firstOp ELSE secondOp
        y == IF second THEN secondOp ELSE firstOp
        cancel == Differ /\ x.exp = y.exp /\ x.man = y.man
    IN  /\ oExp'  = IF cancel THEN 0 ELSE y.exp
        /\ oSign' = IF cancel THEN 0 ELSE y.sign
        /\ Xm' = (Significand(x) * 2^MB) \div 2^(UnBiased(y) - UnBiased(x))
        /\ Ym' = Significand(y) * 2^MB
        /\ matchingSigns' = ~Differ
        /\ UNCHANGED <<Om, exponent, roundOm>>

AddAct ==
    /\ Om' = IF matchingSigns THEN Ym + Xm ELSE Ym - Xm
    /\ UNCHANGED <<Xm, Ym, matchingSigns, exponent, finalRes>>

MultOp ==
    /\ oSign' = IF Differ THEN 1 ELSE 0
    /\ expInt' = (firstOp.exp + secondOp.exp) % 2^(EB + 1)
    /\ Om' = Significand(firstOp) * Significand(secondOp)
    /\ UNCHANGED <<Xm, Ym, matchingSigns, expAdjust, oExp, roundOm>>

MultExp ==
    /\ oExp' = (expInt - Bias) % 2^EB
    /\ UNCHANGED <<mantissa, exponent, oSign, roundOm>>

\* One shift.
Norm ==
    /\ UNCHANGED <<Xm, Ym, matchingSigns, expInt, oSign, roundOm>>
    /\ \/ /\ Om < 2^(2 * MB)
          /\ Om' = 2 * Om
          /\ expAdjust' = (expAdjust + 1) % 2^EB
          /\ UNCHANGED oExp
       \/ /\ Om >= 2^(2 * MB + 1)
          /\ Om' = Om \div 2
          /\ oExp' = (oExp + 1) % 2^EB
          /\ UNCHANGED expAdjust

\* Seeded fault: the rounded mantissa keeps its carry.
Rounded_Carry == ((Om \div 2^MB) % 2^MB) + ((Om \div 2^(MB - 1)) % 2)

\* Seeded fault: no rounding.
Rounded_Down == (Om \div 2^MB) % 2^MB

\* The carry out of the mantissa is lost.
Rounded ==
    (((Om \div 2^MB) % 2^MB) + ((Om \div 2^(MB - 1)) % 2)) % 2^MB

AssignOuts ==
    /\ oExp' = (oExp - expAdjust) % 2^EB
    /\ roundOm' = Rounded
    /\ UNCHANGED <<mantissa, exponent, oSign>>

PutOut(w) == oSign' = w.sign /\ oExp' = w.exp /\ roundOm' = w.man

ZeroAdd ==
    /\ PutOut(IF firstOp = ZeroWord THEN secondOp ELSE firstOp)
    /\ UNCHANGED <<mantissa, exponent>>

ZeroMult ==
    /\ PutOut(ZeroWord)
    /\ UNCHANGED <<mantissa, exponent>>

\* Seeded fault: the shift count survives the clean-up.
CleanUp_KeepsAdjust ==
    /\ Xm' = 0 /\ Ym' = 0 /\ Om' = 0 /\ matchingSigns' = FALSE
    /\ expInt' = 0 /\ UNCHANGED expAdjust

\* Everything but the output registers.
CleanUp ==
    /\ Xm' = 0 /\ Ym' = 0 /\ Om' = 0 /\ matchingSigns' = FALSE
    /\ expInt' = 0 /\ expAdjust' = 0

Datapath ==
    IF ~resetn THEN CleanUp /\ PutOut(ZeroWord)
    ELSE \/ flag = "none" /\ UNCHANGED <<mantissa, exponent, finalRes>>
         \/ flag = "ADDEXPCHK"  /\ AddExpChk
         \/ flag = "ADDACT"     /\ AddAct
         \/ flag = "MULTOP"     /\ MultOp
         \/ flag = "MULTEXP"    /\ MultExp
         \/ flag = "NORM"       /\ Norm
         \/ flag = "ASSIGNOUTS" /\ AssignOuts
         \/ flag = "ZEROADD"    /\ ZeroAdd
         \/ flag = "ZEROMULT"   /\ ZeroMult
         \/ flag = "DONE"       /\ CleanUp /\ UNCHANGED finalRes

\* The layer takes the result over, or is reset.  A shift with the machine in
\* INITWAIT is left from before the reset; it can disturb one result.
FallingEdge ==
    /\ edge = "fall" /\ edge' = "rise"
    /\ Datapath
    /\ residue' = (resetn /\ \/ flag = "NORM" /\ st = "INITWAIT"
                             \/ residue /\ caller # "taking")
    /\ caller' = IF caller = "taking" THEN "idle" ELSE caller
    /\ UNCHANGED <<resetn, control, request>>

Next == RisingEdge \/ FallingEdge

Spec == Init /\ [][Next]_vars

\* The clock runs.
FairSpec == Spec /\ WF_vars(Next)

----------------------------------------------------------------------------
(* Properties *)

\* Every register of the unit keeps within its width.
TypeOK ==
    /\ edge \in {"rise", "fall"} /\ resetn \in BOOLEAN
    /\ st \in Steps /\ flag \in Work \cup {"none"}
    /\ {Xm, Ym} \subseteq 0 .. 2^(2 * MB + 1) - 1
    /\ Om \in 0 .. 2^(2 * MB + 2) - 1 /\ matchingSigns \in BOOLEAN
    /\ expInt \in 0 .. 2^(EB + 1) - 1 /\ expAdjust \in 0 .. 2^EB - 1
    /\ oSign \in 0 .. 1 /\ oExp \in 0 .. 2^EB - 1 /\ roundOm \in 0 .. 2^MB - 1
    /\ caller \in {"idle", "starting", "waiting", "taking"}
    /\ operation \in {"add", "mult"}
    /\ {firstOp, secondOp} \subseteq Operands
    /\ residue \in BOOLEAN

\* Numbers as integers, in units of 2^-(2*(Bias+MB)).
Unit == 2^(Bias + MB)
Val(w) == IF w = ZeroWord THEN 0
          ELSE (IF w.sign = 1 THEN -1 ELSE 1) * Significand(w) * 2^w.exp
Exact == IF operation = "add" THEN (Val(firstOp) + Val(secondOp)) * Unit
                              ELSE Val(firstOp) * Val(secondOp)
Result == Val([sign |-> oSign, exp |-> oExp, man |-> roundOm]) * Unit
Abs(n) == IF n < 0 THEN -n ELSE n

\* The exponents of ordinary numbers: not that of zero, not that of infinity.
Exps == 1 .. 2^EB - 2
Ulp(e) == 2^e * Unit
Ordinary == \A w \in {firstOp, secondOp} : w = ZeroWord \/ w.exp \in Exps

\* The exact result rounds to exponent e and needs no carry to the next one.
FitsAt(e) == Abs(Exact) \in 2^MB * Ulp(e) .. (2^(MB + 1) - 1) * Ulp(e)

\* A product or a sum of equal signs is rounded to the nearest number; a
\* difference, whose smaller operand was cut at the guard bits, is less than
\* one unit in the last place off.
NearTo(e) ==
    IF operation = "mult" \/ ~Differ
    THEN 2 * Abs(Result - Exact) <= Ulp(e)
    ELSE Abs(Result - Exact) < Ulp(e)

RightResult ==
    /\ Exact = 0 => Result = 0
    /\ \A e \in Exps : FitsAt(e) => NearTo(e)

Taking == edge = "fall" /\ resetn /\ caller = "taking"

\* The number a layer takes over is the rounded sum or product of its
\* operands, whatever the unit computed before, if the exact result lies in
\* the range of ordinary numbers, no carry out of the mantissa is needed, and
\* no normalisation left from before a reset has disturbed the unit (FPUnit.sv
\* lines 209-373).
ResultRight == Taking /\ Ordinary /\ ~residue => RightResult

\* A start always meets a unit that accepts it, done answers nobody but the
\* layer that waits, and a waiting layer has a unit that works for it
\* (FPUnit.sv lines 112-188 with the _DONE states of the layers), also when
\* resets cut operations short.
InStep ==
    /\ caller # "waiting" => st = "INITWAIT"
    /\ caller = "waiting" => st # "INITWAIT" \/ flag = "DONE"

\* An idle unit counts no shifts that the next result would be corrected by,
\* unless a normalisation went on after a reset (FPUnit.sv lines 193-206 and
\* 362-373).
NoShiftsLeft ==
    edge = "rise" /\ st = "INITWAIT" /\ ~residue => expAdjust = 0

\* Every start is answered or cut by a reset: the normalisation of lines
\* 159-167 comes to an end for all operands.
Answered == caller = "starting" ~> caller = "idle"

\* What the reset promises (FPUnit.sv lines 194 and 363: everything is reset,
\* everything but the output is cleaned up): results do not depend on when
\* the unit was reset.
RightAfterAnyReset == Taking /\ Ordinary => RightResult

\* What line 338 says ("round right"): also a result that rounds up to the
\* next power of two is the nearest number.
RoundsRight ==
    Taking /\ Ordinary /\ ~residue /\ operation = "mult" =>
        \A e \in Exps :
            Abs(Exact) \in 2^MB * Ulp(e) .. 2^(MB + 1) * Ulp(e) - 1 => NearTo(e)

=============================================================================
