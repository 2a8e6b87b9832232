---------------------------- MODULE MainLoopProof ----------------------------
(***************************************************************************)
(* The boot and the loop of main() with its interrupts, for every set of   *)
(* boards, every table of registers and every time-out and interval.       *)
(***************************************************************************)
EXTENDS MainLoop, TLAPS

-------------------------------------------------------------------------------
(* The set-up over I2C                                                     *)

(* Without an error, the flag of the transfer the program waits for says   *)
(* whether the controller is done with it; nobody else starts one.         *)
WaitInv ==
  /\ phase \in {"call", "waitSend", "idleSend", "callRecv", "waitRecv", "idleRecv"}
  /\ txDone \in BOOLEAN /\ rxDone \in BOOLEAN
  /\ errors \in BOOLEAN /\ busy \in BOOLEAN
  /\ xfer \in {"none", "send", "recv"}
  /\ step \in Nat /\ (step = 0 \/ ~Running => phase = "call")
  /\ ~errors =>
       /\ phase \in {"call", "callRecv"} => xfer = "none" /\ ~busy
       /\ phase \in {"idleSend", "idleRecv"} => xfer = "none"
       /\ phase = "waitSend" => (IF txDone THEN xfer = "none" ELSE xfer = "send")
       /\ phase = "waitRecv" => (IF rxDone THEN xfer = "none" ELSE xfer = "recv")

BusVars == <<progs, step, phase, txDone, rxDone, errors, xfer, busy>>

LEMMA WaitInit == Init => WaitInv
<1> SUFFICES ASSUME Init PROVE WaitInv
  OBVIOUS
<1>1. phase = "call" /\ xfer = "none" /\ step = 0
  BY DEF Init, I2cInit
<1>2. txDone = FALSE /\ rxDone = FALSE /\ errors = FALSE /\ busy = FALSE
  BY DEF Init, I2cInit
<1> QED  BY <1>1, <1>2 DEF WaitInv

(* A step of a program: it starts a transfer only when none is left, and   *)
(* goes on only when the one it waited for is over.                        *)
LEMMA WaitProgram ==
  ASSUME WaitInv, ProgramStep
  PROVE  WaitInv'
<1>1. CASE SetupFails
  BY <1>1 DEF SetupFails, Return, flagVars, busVars, WaitInv, Running
<1>2. CASE I2cSetupHardware
  BY <1>2 DEF I2cSetupHardware, WaitInv, Running
<1>3. CASE PhyResetSetup
  BY <1>3 DEF PhyResetSetup, flagVars, busVars, WaitInv, Running
<1>4. CASE StartSend
  <2>1. step # 0
    BY <1>4 DEF StartSend
  <2>2. /\ txDone' = FALSE /\ rxDone' = rxDone /\ errors' = errors
        /\ xfer' = "send" /\ busy' = TRUE /\ phase' = "waitSend"
        /\ step' = step /\ Running'
    BY <1>4 DEF StartSend, Running
  <2> QED  BY <2>1, <2>2 DEF WaitInv
<1>5. CASE StartRecv
  BY <1>5 DEF StartRecv, WaitInv, Running
<1>6. CASE WaitComplete
  BY <1>6 DEF WaitComplete, OpFails, NextOp, Return, flagVars, busVars, WaitInv, Running
<1>7. CASE SendIdle
  BY <1>7 DEF SendIdle, AfterSend, NextOp, Return, flagVars, busVars, WaitInv, Running
<1>8. ASSUME NEW linkUp \in BOOLEAN, RecvIdle(linkUp) PROVE WaitInv'
  BY <1>8 DEF RecvIdle, NextOp, Return, flagVars, busVars, WaitInv, Running
<1>9. CASE SendPolled
  BY <1>9 DEF SendPolled, OpFails, NextOp, Return, flagVars, busVars, WaitInv, Running
<1> QED  BY <1>1, <1>2, <1>3, <1>4, <1>5, <1>6, <1>7, <1>8, <1>9 DEF ProgramStep

(* The controller ends a transfer with its flag or with an error.          *)
LEMMA WaitBus ==
  ASSUME WaitInv, BusStep
  PROVE  WaitInv'
<1>1. CASE TransferEnds
  BY <1>1 DEF TransferEnds, StatusHandler, WaitInv, Running
<1>2. CASE BusStops
  BY <1>2 DEF BusStops, flagVars, WaitInv, Running
<1> QED  BY <1>1, <1>2 DEF BusStep

LEMMA WaitKept == WaitInv /\ UNCHANGED BusVars => WaitInv'
  BY DEF WaitInv, BusVars, Running

-------------------------------------------------------------------------------
(* main() and the timer                                                    *)

BeforeNetif == {"setup", "platform", "add", "exit"}

(* Until xemac_add has returned, the timer and the exceptions are not both *)
(* on: a board that starts the timer in init_platform has no set-up over   *)
(* I2C to enable exceptions.                                               *)
OrderInv ==
  /\ pc \in BeforeNetif => ~(timerOn /\ cpuIrq)
  /\ pc \notin BeforeNetif => netif
  /\ pc = "setup" => ~timerOn
  /\ pc \in {"setup", "platform", "add"} /\ TimerFromInit => progs = <<>> /\ ~cpuIrq

(* The address as the main program leaves it while DHCP has not ended.     *)
Unset == ip = "none" /\ mask = "none" /\ gw = "none"

AddrInv ==
  /\ timeoutCntr \in Int
  /\ pc \in {"setup", "platform", "add", "enable", "dhcpStart"} => dhcp = "off"
  /\ dhcp = "bound" => ip # "none" /\ mask # "none" /\ gw # "none"
  /\ dhcp # "bound" =>
       /\ pc \notin Loop \cup {"setMask", "setGw", "start"} => Unset
       /\ pc = "setMask" => ip = "default" /\ mask = "none" /\ gw = "none"
       /\ pc = "setGw" => ip = "default" /\ mask = "default" /\ gw = "none"
       /\ pc \in Loop \cup {"start"} => ip = "default" /\ mask = "default" /\ gw = "default"
  /\ pc = "dhcpCheck" /\ ip = "none" => timeoutCntr <= 0

MainInv == WaitInv /\ OrderInv /\ AddrInv

LEMMA MainInit == Init => MainInv
<1> SUFFICES ASSUME Init PROVE MainInv
  OBVIOUS
<1>1. WaitInv
  BY WaitInit
<1>2. /\ pc = "setup" /\ timerOn = FALSE /\ cpuIrq = FALSE
      /\ board \in Boards /\ progs = Programs(board)
  BY DEF Init, I2cInit
<1>3. TimerFromInit => progs = <<>>
  BY <1>2 DEF TimerFromInit, Programs
<1>4. OrderInv
  BY <1>2, <1>3 DEF OrderInv, BeforeNetif
<1>5. timeoutCntr = DhcpTimeout /\ dhcp = "off" /\ Unset
  BY DEF Init, Unset
<1>6. AddrInv
  BY <1>2, <1>5, MainAssumption DEF AddrInv, Loop
<1> QED  BY <1>1, <1>4, <1>6 DEF MainInv

(* The part about the set-up.                                              *)
LEMMA WaitStep ==
  ASSUME WaitInv, [Next]_vars
  PROVE  WaitInv'
<1>1. CASE SetupStep
  BY <1>1, WaitProgram, WaitBus DEF SetupStep
<1>2. CASE SetupDone
  BY <1>2 DEF SetupDone, WaitInv, Running
<1>3. CASE init_platform
  BY <1>3, WaitKept DEF init_platform, BusVars, flagVars, busVars
<1>4. CASE platform_enable_interrupts
  BY <1>4, WaitKept DEF platform_enable_interrupts, BusVars, flagVars, busVars
<1>5. CASE UNCHANGED i2cVars
  BY <1>5, WaitKept DEF i2cVars, BusVars, flagVars, busVars
<1>6. CASE MainStep
  BY <1>2, <1>3, <1>4, <1>5, <1>6
    DEF MainStep, xemac_add, dhcp_start, SetTimeout, DhcpWait, DhcpCheck,
        SetDefault, start_application, FastTimer, SlowTimer, Input, Serve
<1>7. CASE timer_callback \/ RxHangs \/ UNCHANGED vars
  BY <1>5, <1>7 DEF timer_callback, RxHangs, vars
<1> QED  BY <1>1, <1>6, <1>7 DEF Next

(* The part about the timer.  The set-up runs with the timer off, and a    *)
(* board whose timer starts early has no set-up.                           *)
LEMMA SetupQuiet ==
  ASSUME WaitInv, OrderInv, SetupStep
  PROVE  OrderInv'
<1>1. pc = "setup" /\ pc' = pc /\ timerOn' = timerOn /\ netif' = netif /\ ~timerOn
  BY DEF SetupStep, mainVars, boot, OrderInv
<1>2. board' = board
  BY DEF SetupStep, ProgramStep, BusStep, SetupFails, I2cSetupHardware, PhyResetSetup,
         StartSend, StartRecv, WaitComplete, SendIdle, RecvIdle, SendPolled,
         TransferEnds, BusStops
<1>3. ASSUME TimerFromInit PROVE progs' = <<>> /\ ~cpuIrq'
  <2>1. ~Running /\ progs = <<>> /\ ~cpuIrq /\ phase = "call"
    BY <1>1, <1>3 DEF OrderInv, Running, WaitInv
  <2>2. ~ProgramStep
    BY <2>1 DEF ProgramStep, SetupFails, I2cSetupHardware, PhyResetSetup, StartSend,
                StartRecv, WaitComplete, SendIdle, RecvIdle, SendPolled
  <2> QED  BY <2>1, <2>2 DEF SetupStep, BusStep, TransferEnds, BusStops
<1> QED  BY <1>1, <1>2, <1>3 DEF OrderInv, BeforeNetif, TimerFromInit

LEMMA OrderStep ==
  ASSUME WaitInv, OrderInv, [Next]_vars
  PROVE  OrderInv'
<1> USE DEF OrderInv, BeforeNetif, Goto, TimerFromInit
<1>1. CASE SetupDone
  BY <1>1 DEF SetupDone, boot, Running
<1>2. CASE init_platform
  BY <1>2 DEF init_platform, platform_setup_timer
<1>3. CASE xemac_add
  BY <1>3 DEF xemac_add, i2cVars
<1>4. CASE platform_enable_interrupts
  BY <1>4 DEF platform_enable_interrupts
<1>5. CASE dhcp_start \/ SetTimeout \/ DhcpWait \/ DhcpCheck \/ SetDefault
  BY <1>5 DEF dhcp_start, SetTimeout, DhcpWait, DhcpCheck, SetDefault, i2cVars, boot
<1>6. CASE start_application
  BY <1>6 DEF start_application, i2cVars
<1>7. CASE FastTimer \/ SlowTimer \/ Input \/ Serve
  BY <1>7 DEF FastTimer, SlowTimer, Input, Serve, i2cVars, boot
<1>8. CASE timer_callback \/ RxHangs \/ UNCHANGED vars
  BY <1>8 DEF timer_callback, RxHangs, vars, mainVars, i2cVars, boot
<1> QED  BY <1>1, <1>2, <1>3, <1>4, <1>5, <1>6, <1>7, <1>8, SetupQuiet DEF Next, MainStep

(* The part about the address.                                             *)
AddrVars == <<pc, timeoutCntr, netVars>>

LEMMA AddrKept == AddrInv /\ UNCHANGED AddrVars => AddrInv'
  BY DEF AddrInv, AddrVars, netVars, Unset

(* The interrupt takes all three parts of the lease at once.               *)
LEMMA AddrTick ==
  ASSUME AddrInv, timer_callback
  PROVE  AddrInv'
<1>1. pc' = pc
  BY DEF timer_callback
<1>2. timeoutCntr' \in Int /\ (timeoutCntr <= 0 => timeoutCntr' <= 0)
  BY DEF timer_callback, SlowTick, CntrFloor, AddrInv
<1>3. \/ UNCHANGED netVars
      \/ dhcp = "checking" /\ dhcp' = "bound" /\ ip' = "lease" /\ mask' = "lease" /\ gw' = "lease"
  BY DEF timer_callback, SlowTick, FineTimer
<1>4. CASE UNCHANGED netVars
  BY <1>1, <1>2, <1>4 DEF AddrInv, netVars, Unset
<1>5. CASE dhcp = "checking" /\ dhcp' = "bound" /\ ip' = "lease" /\ mask' = "lease" /\ gw' = "lease"
  BY <1>1, <1>2, <1>5 DEF AddrInv
<1> QED  BY <1>3, <1>4, <1>5

LEMMA AddrStep ==
  ASSUME AddrInv, [Next]_vars
  PROVE  AddrInv'
<1>1. CASE SetupStep \/ RxHangs \/ UNCHANGED vars
  BY <1>1, AddrKept DEF SetupStep, RxHangs, vars, mainVars, counters, AddrVars
<1>2. CASE SetupDone \/ init_platform \/ xemac_add \/ platform_enable_interrupts
  <2>1. /\ pc \in {"setup", "platform", "add", "enable"}
        /\ pc' \in {"exit", "platform", "add", "enable", "dhcpStart"}
    BY <1>2 DEF SetupDone, init_platform, xemac_add, platform_enable_interrupts, Goto
  <2>2. UNCHANGED <<timeoutCntr, netVars>>
    BY <1>2 DEF SetupDone, init_platform, xemac_add, platform_enable_interrupts, counters
  <2> QED  BY <2>1, <2>2 DEF AddrInv, netVars, Unset, Loop
<1>3. CASE dhcp_start
  BY <1>3 DEF dhcp_start, Goto, counters, AddrInv, Unset, Loop
<1>4. CASE SetTimeout
  BY <1>4, MainAssumption DEF SetTimeout, Goto, netVars, AddrInv, Unset, Loop
<1>5. CASE DhcpWait
  BY <1>5 DEF DhcpWait, Offer, Goto, counters, AddrInv, Unset, Loop
<1>6. CASE DhcpCheck
  BY <1>6 DEF DhcpCheck, Goto, counters, netVars, AddrInv, Unset, Loop
<1>7. CASE SetDefault
  BY <1>7 DEF SetDefault, Goto, counters, AddrInv, Unset, Loop
<1>8. CASE start_application
  BY <1>8 DEF start_application, Goto, counters, netVars, AddrInv, Unset, Loop
<1>9. CASE FastTimer \/ SlowTimer \/ Input \/ Serve
  <2>1. pc \in Loop /\ pc' \in Loop
    BY <1>9 DEF FastTimer, SlowTimer, Input, Serve, Goto, Loop
  <2>2. /\ UNCHANGED <<timeoutCntr, ip, mask, gw>>
        /\ (dhcp' = "bound") <=> (dhcp = "bound")
    BY <1>9 DEF FastTimer, SlowTimer, Input, Serve, Offer, counters, netVars
  <2> QED  BY <2>1, <2>2 DEF AddrInv, Loop
<1> QED  BY <1>1, <1>2, <1>3, <1>4, <1>5, <1>6, <1>7, <1>8, <1>9, AddrTick DEF Next, MainStep

(* MainInv is an invariant.                                                *)
THEOREM Invariance == Spec => []MainInv
<1>1. MainInv /\ [Next]_vars => MainInv'
  BY WaitStep, OrderStep, AddrStep DEF MainInv
<1> QED  BY <1>1, MainInit, PTL DEF Spec

(* No transfer is started over another, and none is left behind by a       *)
(* program that returns, as long as no error was counted.                  *)
THEOREM TransfersApart == Spec => []BusQuiet
<1>1. MainInv => BusQuiet
  BY DEF MainInv, WaitInv, BusQuiet
<1> QED  BY <1>1, Invariance, PTL

(* The timer interrupt never gets through before the interface is there.   *)
THEOREM TickAfterNetif == Spec => []NoTickBeforeNetif
<1>1. MainInv => NoTickBeforeNetif
  BY DEF MainInv, OrderInv, BeforeNetif, NoTickBeforeNetif
<1> QED  BY <1>1, Invariance, PTL

(* main() enters its loop with a whole address.                            *)
THEOREM LoopHasAddress == Spec => []AddressSet
<1>1. MainInv => AddressSet
  BY DEF MainInv, AddrInv, AddressSet, Loop
<1> QED  BY <1>1, Invariance, PTL

-------------------------------------------------------------------------------
(* The clock chip                                                          *)

SiRuns == progs = <<"si", "sfp">>

(* While ProgramSi5324 runs, the accepted transfers are those of the       *)
(* operations before this one, and this one's once its flag is up.  An     *)
(* error leaves the program in the wait whose flag will not come.          *)
SiInv ==
  /\ progs \in {<<>>, <<"si", "sfp">>, <<"sfp">>, <<"phy">>}
  /\ siAcked \in Nat
  /\ outcome \in [{"si", "sfp", "phy"} -> {"none", "ok", "failed"}]
  /\ SiRuns => outcome["si"] # "ok" /\ step <= 1 + SiRegs
  /\ SiRuns /\ errors => step > 0 /\ phase = "waitSend" /\ ~txDone /\ xfer = "none"
  /\ SiRuns /\ ~errors =>
       /\ phase \in {"call", "waitSend", "idleSend"}
       /\ step = 0 => siAcked = 0
       /\ step > 0 => siAcked = IF phase = "idleSend" \/ (phase = "waitSend" /\ txDone)
                                THEN step ELSE step - 1
  /\ outcome["si"] = "ok" => siAcked = 1 + SiRegs

LEMMA SiOpsType ==
  /\ Len(Ops("si")) = 1 + SiRegs
  /\ \A i \in 1 .. 1 + SiRegs : Ops("si")[i] = "must"
<1>1. 1 + SiRegs \in Nat
  BY I2cAssumption
<1>2. Ops("si") = [i \in 1 .. 1 + SiRegs |-> "must"]
  BY DEF Ops, SiOps
<1> QED
  BY <1>1, <1>2

LEMMA SiRunsProg ==
  /\ SiRuns => Running /\ Prog = "si" /\ Tail(progs) = <<"sfp">>
  /\ progs = <<"sfp">> => Prog = "sfp" /\ Tail(progs) = <<>>
  /\ progs = <<"phy">> => Prog = "phy" /\ Tail(progs) = <<>>
<1>1. Tail(<<"si", "sfp">>) = <<"sfp">>
  OBVIOUS
<1>2. Tail(<<"sfp">>) = <<>> /\ Tail(<<"phy">>) = <<>>
  OBVIOUS
<1>3. /\ Head(<<"si", "sfp">>) = "si" /\ <<"si", "sfp">> # <<>>
      /\ Head(<<"sfp">>) = "sfp" /\ Head(<<"phy">>) = "phy"
  OBVIOUS
<1> QED
  BY <1>1, <1>2, <1>3 DEF SiRuns, Running, Prog

(* A program that returns leaves the others.                               *)
LEMMA SiReturn ==
  ASSUME SiInv, Running, NEW result \in {"ok", "failed"}, Return(result), siAcked' = siAcked,
         result = "ok" /\ SiRuns => siAcked = 1 + SiRegs
  PROVE  SiInv'
<1>1. /\ progs \in {<<"si", "sfp">>, <<"sfp">>, <<"phy">>}
      /\ progs' = Tail(progs) /\ outcome' = [outcome EXCEPT ![Prog] = result]
  BY DEF SiInv, Running, Return
<1>2. progs' \in {<<>>, <<"sfp">>} /\ ~SiRuns'
  BY <1>1, SiRunsProg DEF SiRuns
<1>3. Prog \in {"si", "sfp", "phy"} /\ (Prog = "si" <=> SiRuns)
  BY <1>1, SiRunsProg DEF SiRuns
<1>4. /\ outcome' \in [{"si", "sfp", "phy"} -> {"none", "ok", "failed"}]
      /\ outcome'["si"] = IF SiRuns THEN result ELSE outcome["si"]
  BY <1>1, <1>3 DEF SiInv
<1> QED
  BY <1>2, <1>4 DEF SiInv

SiVars == <<progs, step, phase, txDone, errors, xfer, siAcked, outcome>>

LEMMA SiKept == SiInv /\ UNCHANGED SiVars => SiInv'
  BY DEF SiInv, SiVars, SiRuns

(* Another program runs: it does not touch the count.                      *)
LEMMA SiOther ==
  ASSUME SiInv, ~SiRuns, UNCHANGED <<progs, outcome, siAcked>>
  PROVE  SiInv'
  BY DEF SiInv, SiRuns

(* An operation of ProgramSi5324 ends well, or the program fails.          *)
LEMMA SiNextOp ==
  ASSUME SiInv, WaitInv, SiRuns, ~errors, ~errors', UNCHANGED <<siAcked, txDone>>,
         phase = "idleSend", step > 0, NextOp
  PROVE  SiInv'
<1>1. step \in Nat /\ Len(Ops(Prog)) = 1 + SiRegs /\ SiRegs \in Nat
  BY SiOpsType, SiRunsProg, I2cAssumption DEF WaitInv
<1>2. siAcked = step
  BY DEF SiInv
<1>3. CASE step = Len(Ops(Prog)) /\ Return("ok")
  BY <1>1, <1>2, <1>3, SiReturn, SiRunsProg
<1>4. CASE /\ step < Len(Ops(Prog)) /\ step' = step + 1 /\ phase' = "call"
           /\ UNCHANGED <<progs, outcome, frame>>
  <2>1. /\ SiRuns' /\ step' > 0 /\ step' <= 1 + SiRegs
        /\ siAcked' = step' - 1 /\ siAcked' \in Nat
    BY <1>1, <1>2, <1>4 DEF SiRuns
  <2> QED
    BY <1>4, <2>1 DEF SiInv
<1> QED
  BY <1>3, <1>4 DEF NextOp

LEMMA SiProgram ==
  ASSUME SiInv, WaitInv, ProgramStep
  PROVE  SiInv'
<1>0. step \in Nat /\ (step = 0 => phase = "call") /\ (~Running => phase = "call")
      /\ txDone \in BOOLEAN /\ errors \in BOOLEAN
  BY DEF WaitInv
<1>1. CASE SetupFails
  <2>1. Running /\ step = 0 /\ Return("failed") /\ siAcked' = siAcked
    BY <1>1 DEF SetupFails, busVars
  <2> QED
    BY <2>1, SiReturn
<1>2. CASE I2cSetupHardware
  <2>1. /\ progs' = progs /\ phase' = phase /\ siAcked' = siAcked /\ outcome' = outcome
        /\ step = 0 /\ step' = 1 /\ txDone' = FALSE /\ errors' = FALSE
    BY <1>2 DEF I2cSetupHardware
  <2>2. SiRuns => ~errors /\ phase = "call" /\ siAcked = 0
    BY <1>0, <2>1 DEF SiInv
  <2> QED
    BY <2>1, <2>2, I2cAssumption DEF SiInv, SiRuns
<1>3. CASE PhyResetSetup
  <2>1. ~SiRuns /\ UNCHANGED <<progs, outcome, siAcked>>
    BY <1>3, SiRunsProg DEF PhyResetSetup, busVars
  <2> QED
    BY <2>1, SiOther
<1>4. CASE StartSend
  <2>1. /\ phase = "call" /\ phase' = "waitSend" /\ txDone' = FALSE /\ step > 0
        /\ UNCHANGED <<progs, step, errors, siAcked, outcome>>
    BY <1>4 DEF StartSend
  <2> QED
    BY <2>1 DEF SiInv, SiRuns
<1>5. CASE StartRecv
  <2>1. ~SiRuns /\ UNCHANGED <<progs, outcome, siAcked>>
    BY <1>0, <1>5 DEF StartRecv, SiInv
  <2> QED
    BY <2>1, SiOther
<1>6. CASE WaitComplete
  <2>1. UNCHANGED <<txDone, errors, xfer, siAcked>> /\ phase \in {"waitSend", "waitRecv"}
    BY <1>6 DEF WaitComplete, flagVars, busVars
  <2>2. CASE ~SiRuns
    <3>1. Running /\ (UNCHANGED <<progs, outcome>> \/ Return("ok") \/ Return("failed"))
      BY <1>0, <1>6, <2>1 DEF WaitComplete, OpFails, NextOp
    <3> QED
      BY <2>1, <2>2, <3>1, SiOther, SiReturn
  <2>3. CASE SiRuns
    <3>1. phase = "waitSend" /\ step > 0
      BY <1>0, <2>1, <2>3 DEF SiInv
    <3>2. Op = "must"
      <4>1. step \in 1 .. 1 + SiRegs
        BY <1>0, <2>3, <3>1, I2cAssumption DEF SiInv
      <4> QED
        BY <2>3, <4>1, SiOpsType, SiRunsProg DEF Op
    <3>3. CASE txDone
      <4>1. phase' = "idleSend" /\ UNCHANGED <<progs, step, outcome>>
        BY <1>6, <3>1, <3>3 DEF WaitComplete
      <4>2. ~errors
        BY <2>3, <3>3 DEF SiInv
      <4> QED
        BY <2>1, <2>3, <3>1, <3>3, <4>1, <4>2 DEF SiInv, SiRuns
    <3>4. CASE ~txDone
      <4>1. Return("failed")
        BY <1>6, <3>1, <3>2, <3>4 DEF WaitComplete, OpFails
      <4> QED
        BY <2>1, <2>3, <4>1, SiReturn, SiRunsProg
    <3> QED
      BY <3>3, <3>4
  <2> QED
    BY <2>2, <2>3
<1>7. CASE SendIdle
  <2>1. UNCHANGED <<txDone, errors, xfer, siAcked>> /\ phase = "idleSend" /\ AfterSend
    BY <1>7 DEF SendIdle, flagVars, busVars
  <2>2. CASE ~SiRuns
    <3>1. Running /\ (UNCHANGED <<progs, outcome>> \/ Return("ok"))
      BY <1>0, <2>1 DEF AfterSend, NextOp
    <3> QED
      BY <2>1, <2>2, <3>1, SiOther, SiReturn
  <2>3. CASE SiRuns
    <3>1. ~errors /\ step > 0
      BY <1>0, <2>1, <2>3 DEF SiInv
    <3>2. Op = "must"
      <4>1. step \in 1 .. 1 + SiRegs
        BY <1>0, <2>3, <3>1, I2cAssumption DEF SiInv
      <4> QED
        BY <2>3, <4>1, SiOpsType, SiRunsProg DEF Op
    <3>3. NextOp
      BY <2>1, <3>2 DEF AfterSend
    <3> QED
      BY <2>1, <2>3, <3>1, <3>3, SiNextOp
  <2> QED
    BY <2>2, <2>3
<1>8. ASSUME NEW linkUp \in BOOLEAN, RecvIdle(linkUp) PROVE SiInv'
  <2>1. ~SiRuns /\ Running /\ UNCHANGED siAcked
    BY <1>0, <1>8 DEF RecvIdle, SiInv, busVars
  <2>2. UNCHANGED <<progs, outcome>> \/ Return("ok")
    BY <1>8 DEF RecvIdle, NextOp
  <2> QED
    BY <2>1, <2>2, SiOther, SiReturn
<1>9. CASE SendPolled
  <2>1. Running /\ Op = "polled" /\ step > 0 /\ UNCHANGED siAcked
    BY <1>9 DEF SendPolled, busVars
  <2>2. ~SiRuns
    <3> SUFFICES ASSUME SiRuns PROVE FALSE
      OBVIOUS
    <3>1. step \in 1 .. 1 + SiRegs
      BY <1>0, <2>1, I2cAssumption DEF SiInv
    <3> QED
      BY <2>1, <3>1, SiOpsType, SiRunsProg DEF Op
  <2>3. UNCHANGED <<progs, outcome>> \/ Return("ok") \/ Return("failed")
    BY <1>9 DEF SendPolled, OpFails, NextOp
  <2> QED
    BY <2>1, <2>2, <2>3, SiOther, SiReturn
<1> QED
  BY <1>1, <1>2, <1>3, <1>4, <1>5, <1>6, <1>7, <1>8, <1>9 DEF ProgramStep

(* The controller ends a transfer of the program: it is counted with the   *)
(* flag, or it is an error.                                                *)
LEMMA SiBus ==
  ASSUME SiInv, WaitInv, BusStep
  PROVE  SiInv'
<1>1. CASE BusStops
  BY <1>1, SiKept DEF BusStops, SiVars, flagVars
<1>2. CASE TransferEnds
  <2>1. /\ xfer # "none" /\ xfer' = "none" /\ UNCHANGED <<progs, step, phase, outcome>>
        /\ \/ StatusHandler(xfer) /\ siAcked' = IF Running /\ Prog = "si" THEN siAcked + 1 ELSE siAcked
           \/ StatusHandler("error") /\ siAcked' = siAcked
    BY <1>2 DEF TransferEnds
  <2>2. CASE ~SiRuns
    <3>1. ~(Running /\ Prog = "si")
      BY <2>2, SiRunsProg DEF SiInv, SiRuns, Running
    <3> QED
      BY <2>1, <2>2, <3>1, SiOther
  <2>3. CASE SiRuns
    <3>1. ~errors /\ phase = "waitSend" /\ ~txDone /\ xfer = "send" /\ step > 0
      BY <2>1, <2>3 DEF SiInv, WaitInv
    <3>2. SiRuns' /\ Running /\ Prog = "si"
      BY <2>1, <2>3, SiRunsProg DEF SiRuns
    <3>3. siAcked = step - 1 /\ step \in Nat /\ siAcked \in Nat
      BY <2>3, <3>1 DEF SiInv, WaitInv
    <3>4. CASE StatusHandler(xfer) /\ siAcked' = siAcked + 1
      <4>1. siAcked' = step /\ siAcked' \in Nat
        BY <3>3, <3>4
      <4>2. txDone' = TRUE /\ errors' = errors
        <5>1. StatusHandler("send")
          BY <3>1, <3>4
        <5> QED
          BY <3>1, <5>1 DEF StatusHandler, WaitInv
      <4> QED
        BY <2>1, <2>3, <3>1, <3>2, <4>1, <4>2 DEF SiInv
    <3>5. CASE StatusHandler("error") /\ siAcked' = siAcked
      <4>1. ~txDone' /\ errors'
        BY <3>1, <3>5 DEF StatusHandler
      <4> QED
        BY <2>1, <2>3, <3>1, <3>2, <3>5, <4>1 DEF SiInv
    <3> QED
      BY <2>1, <3>2, <3>4, <3>5
  <2> QED
    BY <2>2, <2>3
<1> QED
  BY <1>1, <1>2 DEF BusStep

LEMMA SiStep ==
  ASSUME SiInv, WaitInv, [Next]_vars
  PROVE  SiInv'
<1>1. CASE SetupStep
  BY <1>1, SiProgram, SiBus DEF SetupStep
<1>2. CASE SetupDone
  <2>1. /\ ~Running /\ progs' = progs /\ siAcked' = 0
        /\ outcome' = [p \in DOMAIN outcome |-> "none"]
    BY <1>2 DEF SetupDone
  <2>2. progs = <<>>
    BY <2>1 DEF Running
  <2> QED
    BY <2>1, <2>2 DEF SiInv, SiRuns
<1>3. CASE init_platform
  BY <1>3, SiKept DEF init_platform, SiVars, flagVars, busVars
<1>4. CASE platform_enable_interrupts
  BY <1>4, SiKept DEF platform_enable_interrupts, SiVars, flagVars, busVars
<1>5. CASE UNCHANGED i2cVars
  BY <1>5, SiKept DEF i2cVars, SiVars, flagVars, busVars
<1>6. CASE MainStep
  BY <1>2, <1>3, <1>4, <1>5, <1>6
    DEF MainStep, xemac_add, dhcp_start, SetTimeout, DhcpWait, DhcpCheck,
        SetDefault, start_application, FastTimer, SlowTimer, Input, Serve
<1>7. CASE timer_callback \/ RxHangs \/ UNCHANGED vars
  BY <1>5, <1>7 DEF timer_callback, RxHangs, vars
<1> QED
  BY <1>1, <1>6, <1>7 DEF Next

LEMMA SiInit == Init => SiInv
<1> SUFFICES ASSUME Init PROVE SiInv
  OBVIOUS
<1>1. /\ progs = Programs(board) /\ step = 0 /\ phase = "call"
      /\ siAcked = 0 /\ outcome = [p \in {"si", "sfp", "phy"} |-> "none"]
  BY DEF Init, I2cInit
<1>2. errors = FALSE
  BY DEF Init, I2cInit
<1>3. progs \in {<<>>, <<"si", "sfp">>, <<"sfp">>, <<"phy">>}
  BY <1>1 DEF Programs
<1> QED
  BY <1>1, <1>2, <1>3, I2cAssumption DEF SiInv

THEOREM SiInvariance == Spec => []SiInv
<1>1. WaitInv /\ SiInv /\ [Next]_vars => SiInv'
  BY SiStep
<1>2. MainInv => WaitInv
  BY DEF MainInv
<1> QED
  BY <1>1, <1>2, SiInit, Invariance, PTL DEF Spec

(* ProgramSi5324 reports success only when the device has accepted the     *)
(* multiplexer byte and every register, however long the table.            *)
THEOREM ClockProgrammed == Spec => []Si5324Programmed
<1>1. SiInv => Si5324Programmed
  BY DEF SiInv, Si5324Programmed
<1> QED
  BY <1>1, SiInvariance, PTL

-------------------------------------------------------------------------------
(* Types and counters                                                      *)

BoardInv ==
  /\ board \in Boards /\ cpuIrq \in BOOLEAN
  /\ frame \in {"none", "live", "dead"}

(* A counter is below its limit at every tick, so a test for equality does *)
(* not miss it; a receive path is never dead for longer than rxCntr says.  *)
CounterInv ==
  /\ timeoutCntr \in CntrFloor .. DhcpTimeout
  /\ dhcpTimer \in 0 .. CoarseInterval - 1
  /\ linkCntr \in 0 .. LinkInterval - 1
  /\ rxCntr \in 0 .. RxLimit - 1
  /\ rxStuck \in Nat /\ rxStuck <= rxCntr + 1

SwitchInv ==
  /\ timerOk \in BOOLEAN /\ timerOn \in BOOLEAN /\ netif \in BOOLEAN
  /\ listening \in BOOLEAN /\ loaded \in BOOLEAN /\ odd \in BOOLEAN
  /\ fastFlag \in BOOLEAN /\ slowFlag \in BOOLEAN
  /\ fastOwed \in BOOLEAN /\ slowOwed \in BOOLEAN

PlaceInv ==
  /\ pc \in Boot \cup Loop \cup {"exit"}
  /\ dhcp \in {"off", "asking", "checking", "bound"}
  /\ ip \in Owner /\ mask \in Owner /\ gw \in Owner

RangeInv == BoardInv /\ CounterInv /\ SwitchInv /\ PlaceInv

LEMMA Limits ==
  /\ DhcpTimeout \in Nat \ {0} /\ CoarseInterval \in Nat \ {0}
  /\ LinkInterval \in Nat \ {0} /\ RxLimit \in Nat \ {0}
  BY MainAssumption

LEMMA BoardStep == BoardInv /\ [Next]_vars => BoardInv'
<1> SUFFICES ASSUME BoardInv, [Next]_vars PROVE BoardInv'
  OBVIOUS
<1>1. CASE SetupStep
  <2>1. CASE ProgramStep
    BY <2>1 DEF ProgramStep, SetupFails, I2cSetupHardware, SetupInterruptSystem, PhyResetSetup,
                StartSend, StartRecv, WaitComplete, SendIdle, RecvIdle, SendPolled, AfterSend,
                OpFails, NextOp, Return, BoardInv
  <2>2. CASE BusStep
    BY <2>2 DEF BusStep, TransferEnds, BusStops, BoardInv
  <2> QED
    BY <1>1, <2>1, <2>2 DEF SetupStep
<1>2. CASE SetupDone \/ init_platform \/ platform_enable_interrupts
  BY <1>2 DEF SetupDone, init_platform, platform_setup_interrupts, platform_enable_interrupts,
              BoardInv
<1>3. CASE UNCHANGED i2cVars
  BY <1>3 DEF i2cVars, BoardInv
<1> QED
  BY <1>1, <1>2, <1>3
    DEF Next, MainStep, xemac_add, dhcp_start, SetTimeout, DhcpWait, DhcpCheck, SetDefault,
        start_application, FastTimer, SlowTimer, Input, Serve, timer_callback, RxHangs, vars

LEMMA CounterStep == CounterInv /\ [Next]_vars => CounterInv'
<1> SUFFICES ASSUME CounterInv, [Next]_vars PROVE CounterInv'
  OBVIOUS
<1>1. CASE UNCHANGED <<timeoutCntr, dhcpTimer, linkCntr, rxCntr, rxStuck>>
  BY <1>1 DEF CounterInv
<1>2. CASE SetTimeout
  BY <1>2, Limits DEF SetTimeout, CounterInv, CntrFloor
<1>3. CASE timer_callback
  <2>1. timeoutCntr' \in CntrFloor .. DhcpTimeout /\ dhcpTimer' \in 0 .. CoarseInterval - 1
    BY <1>3, Limits DEF timer_callback, SlowTick, CounterInv, CntrFloor
  <2>2. linkCntr' \in 0 .. LinkInterval - 1
    BY <1>3, Limits DEF timer_callback, LinkDetect, Least, CounterInv
  <2>3. rxCntr' \in 0 .. RxLimit - 1 /\ rxStuck' \in Nat /\ rxStuck' <= rxCntr' + 1
    <3>1. ResetRx
      BY <1>3 DEF timer_callback
    <3>2. CASE UNCHANGED <<rxCntr, rxStuck>>
      BY <3>2 DEF CounterInv
    <3>3. CASE rxCntr' = 0 /\ rxStuck' = 0
      BY <3>3, Limits
    <3>4. CASE /\ rxCntr + 1 < RxLimit /\ rxCntr' = rxCntr + 1
               /\ rxStuck' = IF rxStuck = 0 THEN 0 ELSE Least(rxStuck + 1, RxLimit + 1)
      BY <3>4, Limits DEF CounterInv, Least
    <3> QED
      BY <3>1, <3>2, <3>3, <3>4, Limits DEF ResetRx, CounterInv
  <2> QED
    BY <2>1, <2>2, <2>3 DEF CounterInv
<1>4. CASE RxHangs
  BY <1>4 DEF RxHangs, counters, CounterInv
<1> QED
  BY <1>1, <1>2, <1>3, <1>4
    DEF Next, SetupStep, MainStep, SetupDone, init_platform, xemac_add,
        platform_enable_interrupts, dhcp_start, DhcpWait, DhcpCheck, SetDefault,
        start_application, FastTimer, SlowTimer, Input, Serve, vars, mainVars, counters

LEMMA SwitchStep == SwitchInv /\ [Next]_vars => SwitchInv'
<1> SUFFICES ASSUME SwitchInv, [Next]_vars PROVE SwitchInv'
  OBVIOUS
<1> USE DEF SwitchInv
<1>1. CASE UNCHANGED <<boot, flags, odd>>
  BY <1>1 DEF boot, flags
<1>2. CASE init_platform
  <2>1. timerOk' \in BOOLEAN /\ timerOn' \in BOOLEAN
    <3>1. timerOk' \in (IF TimerFromInit THEN {TRUE} ELSE BOOLEAN) /\ timerOn' = TimerFromInit
      BY <1>2 DEF init_platform, platform_setup_timer
    <3>2. TimerFromInit \in BOOLEAN
      BY DEF TimerFromInit
    <3>3. CASE TimerFromInit
      BY <3>1, <3>2, <3>3
    <3>4. CASE ~TimerFromInit
      BY <3>1, <3>2, <3>4
    <3> QED
      BY <3>3, <3>4
  <2> QED
    BY <1>2, <2>1 DEF init_platform, flags, counters
<1>3. CASE xemac_add
  BY <1>3 DEF xemac_add, flags, counters
<1>4. CASE platform_enable_interrupts
  BY <1>4 DEF platform_enable_interrupts, flags, counters
<1>5. CASE start_application
  BY <1>5 DEF start_application, flags, counters
<1>6. CASE FastTimer
  <2>1. fastFlag' \in BOOLEAN /\ fastOwed' \in BOOLEAN
    BY <1>6 DEF FastTimer
  <2> QED
    BY <1>6, <2>1 DEF FastTimer, boot, counters
<1>7. CASE SlowTimer
  <2>1. slowFlag' \in BOOLEAN /\ slowOwed' \in BOOLEAN
    BY <1>7 DEF SlowTimer
  <2> QED
    BY <1>7, <2>1 DEF SlowTimer, boot, counters
<1>8. CASE timer_callback
  <2>1. slowFlag' \in BOOLEAN /\ slowOwed' \in BOOLEAN /\ odd' \in BOOLEAN
    BY <1>8 DEF timer_callback, SlowTick
  <2> QED
    BY <1>8, <2>1 DEF timer_callback, boot
<1> QED
  BY <1>1, <1>2, <1>3, <1>4, <1>5, <1>6, <1>7, <1>8
    DEF Next, SetupStep, MainStep, SetupDone, dhcp_start, SetTimeout, DhcpWait, DhcpCheck,
        SetDefault, Input, Serve, RxHangs, vars, mainVars, counters

LEMMA PlaceStep == PlaceInv /\ [Next]_vars => PlaceInv'
<1> SUFFICES ASSUME PlaceInv, [Next]_vars PROVE PlaceInv'
  OBVIOUS
<1>1. pc' \in Boot \cup Loop \cup {"exit"}
  <2>1. CASE MainStep
    <3>1. CASE SetupDone \/ init_platform \/ xemac_add \/ platform_enable_interrupts \/ dhcp_start
      BY <3>1 DEF SetupDone, init_platform, xemac_add, platform_enable_interrupts, dhcp_start,
                  Goto, Boot
    <3>2. CASE SetTimeout \/ DhcpWait \/ DhcpCheck \/ SetDefault \/ start_application
      BY <3>2 DEF SetTimeout, DhcpWait, DhcpCheck, SetDefault, start_application, Goto, Boot, Loop
    <3>3. CASE FastTimer \/ SlowTimer \/ Input \/ Serve
      BY <3>3 DEF FastTimer, SlowTimer, Input, Serve, Goto, Loop
    <3> QED
      BY <2>1, <3>1, <3>2, <3>3 DEF MainStep
  <2>2. CASE UNCHANGED pc
    BY <2>2 DEF PlaceInv
  <2> QED
    BY <2>1, <2>2 DEF Next, SetupStep, timer_callback, RxHangs, vars, mainVars
<1>2. CASE UNCHANGED netVars
  BY <1>1, <1>2 DEF PlaceInv, netVars
<1>3. CASE dhcp_start \/ DhcpWait \/ Input
  BY <1>1, <1>3 DEF dhcp_start, DhcpWait, Input, Offer, PlaceInv
<1>4. CASE SetDefault
  BY <1>1, <1>4 DEF SetDefault, PlaceInv, Owner
<1>5. CASE timer_callback
  BY <1>1, <1>2, <1>5 DEF timer_callback, SlowTick, FineTimer, PlaceInv, Owner
<1> QED
  BY <1>2, <1>3, <1>4, <1>5
    DEF Next, SetupStep, MainStep, SetupDone, init_platform, xemac_add,
        platform_enable_interrupts, SetTimeout, DhcpCheck, start_application,
        FastTimer, SlowTimer, Serve, RxHangs, vars, mainVars

LEMMA TypeInit == Init => RangeInv
<1> SUFFICES ASSUME Init PROVE RangeInv
  OBVIOUS
<1>1. BoardInv
  BY DEF Init, I2cInit, BoardInv
<1>2. CounterInv
  BY Limits DEF Init, CounterInv, CntrFloor
<1>3. PlaceInv
  BY DEF Init, PlaceInv, Boot, Owner
<1>4. SwitchInv
  BY DEF Init, SwitchInv
<1> QED
  BY <1>1, <1>2, <1>3, <1>4 DEF RangeInv

THEOREM RangeInvariance == Spec => []RangeInv
<1>1. RangeInv /\ [Next]_vars => RangeInv'
  BY BoardStep, CounterStep, SwitchStep, PlaceStep DEF RangeInv
<1> QED
  BY <1>1, TypeInit, PTL DEF Spec

(* The type invariant of both modules; the ranges of the counters say that *)
(* none passes the value timer_callback compares it with.                  *)
THEOREM TypeCorrect == Spec => []TypeOK
<1>1. MainInv /\ SiInv /\ RangeInv => TypeOK
  <2> SUFFICES ASSUME MainInv, SiInv, RangeInv PROVE TypeOK
    OBVIOUS
  <2>1. I2cTypeOK
    BY DEF MainInv, WaitInv, SiInv, RangeInv, BoardInv, I2cTypeOK
  <2>2. rxStuck \in 0 .. RxLimit + 1
    BY Limits DEF RangeInv, CounterInv
  <2> QED
    BY <2>1, <2>2 DEF RangeInv, CounterInv, SwitchInv, PlaceInv, TypeOK
<1> QED
  BY <1>1, Invariance, SiInvariance, RangeInvariance, PTL

(* A dead receive path is reset within RxLimit ticks of the timer.         *)
THEOREM RxResetInTime == Spec => [](rxStuck <= RxLimit)
<1>1. RangeInv => rxStuck <= RxLimit
  BY Limits DEF RangeInv, CounterInv
<1> QED
  BY <1>1, RangeInvariance, PTL

===============================================================================
