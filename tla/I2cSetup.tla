------------------------------- MODULE I2cSetup -------------------------------
(***************************************************************************)
(* What main() does over I2C before it starts the platform, on the boards  *)
(* that have something to set up: the clock chip and the SFP PHY of the    *)
(* Zynq board (si5324.c, sfp.c), the reset of the Ethernet PHY on the      *)
(* ZCU102 (iic_phyreset.c), and the transfers they are made of             *)
(* (i2c_access.c).  A transfer is started, the program spins on flags the  *)
(* interrupt handler sets, then spins until the bus is idle.               *)
(***************************************************************************)
EXTENDS Integers, Sequences

CONSTANTS
  Boards,       \* the boards main() may have been compiled for
  SiRegs,       \* entries of InitTable (43)
  PhyWrites     \* PHY writes before the poll loop of ProgramSfpPhy (13)

AllBoards == {"mb", "ppc", "zynq", "zynqSfp", "zynqmp", "zcu102"}

ASSUME I2cAssumption == /\ Boards \subseteq AllBoards
                        /\ SiRegs \in Nat
                        /\ PhyWrites \in Nat

VARIABLES
  board,        \* fixed at compile time
  progs,        \* set-up programs still to be called, the running one first
  step,         \* 0: I2cSetupHardware; then the operation of the program
  phase,        \* where the program is inside the operation
  txDone,       \* TransmitComplete
  rxDone,       \* ReceiveComplete
  errors,       \* TotalErrorCount # 0
  xfer,         \* the transfer the controller is working on
  busy,         \* XIicPs_BusIsBusy
  frame,        \* the XIIC_LIB the interrupt handler was given
  cpuIrq,       \* exceptions are enabled in the processor
  siAcked,      \* transfers of ProgramSi5324 the devices have accepted
  outcome       \* what each program returned

busVars == <<xfer, busy, siAcked>>
flagVars == <<txDone, rxDone, errors>>
i2cVars == <<board, progs, step, phase, flagVars, busVars, frame, cpuIrq, outcome>>

Programs(b) == CASE b = "zynqSfp" -> <<"si", "sfp">>
                 [] b = "zcu102"  -> <<"phy">>
                 [] OTHER         -> <<>>

(* "must": a failed write ends the program; "try": its status is ignored;  *)
(* "read": a write and a read, status ignored; "poll": "read" until the    *)
(* PHY reports its link; "polled": a write without interrupts.             *)
SiOps == [i \in 1 .. 1 + SiRegs |-> "must"]        \* MuxInit, InitTable
SfpOps == <<"must", "must">> \o [i \in 1 .. PhyWrites |-> "try"]
            \o <<"poll", "try", "read", "try", "try", "try", "try">>
PhyOps == <<"polled", "polled">>

Ops(p) == CASE p = "si"  -> SiOps
            [] p = "sfp" -> SfpOps
            [] p = "phy" -> PhyOps

I2cInit ==
  /\ board \in Boards
  /\ progs = Programs(board)
  /\ step = 0 /\ phase = "call"
  /\ txDone = FALSE /\ rxDone = FALSE /\ errors = FALSE
  /\ xfer = "none" /\ busy = FALSE /\ frame = "none"
  /\ cpuIrq = FALSE /\ siAcked = 0
  /\ outcome = [p \in {"si", "sfp", "phy"} |-> "none"]

Running == progs # <<>>
Prog == Head(progs)
Op == Ops(Prog)[step]

-------------------------------------------------------------------------------
(* A program returns: the XIIC_LIB it had on its stack is gone, but the    *)
(* interrupt controller keeps the pointer to it.                           *)
Return(result) ==
  /\ outcome' = [outcome EXCEPT ![Prog] = result]
  /\ progs' = Tail(progs)
  /\ step' = 0 /\ phase' = "call"
  /\ frame' = IF frame = "live" THEN "dead" ELSE frame

(* On to the next operation, or out with success.                          *)
NextOp ==
  \/ /\ step = Len(Ops(Prog))
     /\ Return("ok")
  \/ /\ step < Len(Ops(Prog))
     /\ step' = step + 1 /\ phase' = "call"
     /\ UNCHANGED <<progs, outcome, frame>>

OpFails ==
  \/ Op \in {"must", "polled"} /\ Return("failed")
  \/ Op \in {"try", "read"} /\ NextOp
  \/ /\ Op = "poll"
     /\ phase' = "call"
     /\ UNCHANGED <<progs, step, outcome, frame>>

SetupFails ==
  /\ Running /\ step = 0
  /\ Return("failed")
  /\ UNCHANGED <<board, flagVars, busVars, cpuIrq>>

SetupInterruptSystem == frame' = "live" /\ cpuIrq' = TRUE

I2cSetupHardware ==
  /\ Running /\ step = 0 /\ Prog # "phy"
  /\ txDone' = FALSE /\ rxDone' = FALSE /\ errors' = FALSE
  /\ xfer' = "none" /\ busy' = FALSE
  /\ SetupInterruptSystem
  /\ step' = 1
  /\ UNCHANGED <<board, progs, phase, siAcked, outcome>>

(* The ZCU102's set-up initialises the controller without interrupts.      *)
PhyResetSetup ==
  /\ Running /\ step = 0 /\ Prog = "phy"
  /\ step' = 1
  /\ UNCHANGED <<board, progs, phase, flagVars, busVars, frame, cpuIrq, outcome>>

\* Seeded fault: the flag of the transfer before is left standing.
StartSend_FlagLeft ==
  /\ Running /\ step > 0 /\ phase = "call" /\ Op # "polled"
  /\ xfer' = "send" /\ busy' = TRUE
  /\ phase' = "waitSend"
  /\ UNCHANGED <<board, progs, step, flagVars, frame, cpuIrq, siAcked, outcome>>

(* The first half of I2cWriteData: the flag is cleared before the send.    *)
StartSend ==
  /\ Running /\ step > 0 /\ phase = "call" /\ Op # "polled"
  /\ txDone' = FALSE
  /\ xfer' = "send" /\ busy' = TRUE
  /\ phase' = "waitSend"
  /\ UNCHANGED <<board, progs, step, rxDone, errors, frame, cpuIrq, siAcked, outcome>>

StartRecv ==
  /\ phase = "callRecv"
  /\ rxDone' = FALSE
  /\ xfer' = "recv" /\ busy' = TRUE
  /\ phase' = "waitRecv"
  /\ UNCHANGED <<board, progs, step, txDone, errors, frame, cpuIrq, siAcked, outcome>>

(* The loop on the completion flag: left when the flag is set, or with a   *)
(* failure when any error was ever counted in this XIIC_LIB.               *)
WaitComplete ==
  LET done == IF phase = "waitSend" THEN txDone ELSE rxDone
  IN  /\ phase \in {"waitSend", "waitRecv"}
      /\ \/ /\ done
            /\ phase' = IF phase = "waitSend" THEN "idleSend" ELSE "idleRecv"
            /\ UNCHANGED <<progs, step, outcome, frame>>
         \/ ~done /\ errors /\ OpFails
      /\ UNCHANGED <<board, flagVars, busVars, cpuIrq>>

(* A write is over; a read (I2cPhyRead) still has its second transfer.     *)
AfterSend ==
  \/ /\ Op \in {"read", "poll"}
     /\ phase' = "callRecv"
     /\ UNCHANGED <<progs, step, outcome, frame>>
  \/ Op \in {"must", "try"} /\ NextOp

\* Seeded fault: the loop on XIicPs_BusIsBusy is left out.
SendIdle_NoWait ==
  /\ phase = "idleSend"
  /\ AfterSend
  /\ UNCHANGED <<board, flagVars, busVars, cpuIrq>>

(* The loop on XIicPs_BusIsBusy, then the caller goes on.                  *)
SendIdle ==
  /\ phase = "idleSend" /\ ~busy
  /\ AfterSend
  /\ UNCHANGED <<board, flagVars, busVars, cpuIrq>>

(* A read has ended; the poll loop ends when the value shows the link.     *)
RecvIdle(linkUp) ==
  /\ phase = "idleRecv" /\ ~busy
  /\ \/ (Op = "read" \/ linkUp) /\ NextOp
     \/ /\ Op = "poll" /\ ~linkUp
        /\ phase' = "call"
        /\ UNCHANGED <<progs, step, outcome, frame>>
  /\ UNCHANGED <<board, flagVars, busVars, cpuIrq>>

(* XIicPs_MasterSendPolled with the wait for an idle bus after it.         *)
SendPolled ==
  /\ Running /\ step > 0 /\ phase = "call" /\ Op = "polled"
  /\ OpFails \/ NextOp
  /\ UNCHANGED <<board, flagVars, busVars, cpuIrq>>

(* The controller ends its transfer: XIicPs_MasterInterruptHandler calls   *)
(* StatusHandler with a completion or an error.  The bus goes idle later.  *)
StatusHandler(event) ==
  /\ rxDone' = (rxDone \/ event = "recv")
  /\ txDone' = (txDone \/ event = "send")
  /\ errors' = (errors \/ event = "error")

TransferEnds ==
  /\ xfer # "none" /\ frame # "none" /\ cpuIrq
  /\ \/ /\ StatusHandler(xfer)
        /\ siAcked' = IF Running /\ Prog = "si" THEN siAcked + 1 ELSE siAcked
     \/ StatusHandler("error") /\ siAcked' = siAcked
  /\ xfer' = "none"
  /\ UNCHANGED <<board, progs, step, phase, busy, frame, cpuIrq, outcome>>

BusStops ==
  /\ xfer = "none" /\ busy
  /\ busy' = FALSE
  /\ UNCHANGED <<board, progs, step, phase, flagVars, xfer, frame, cpuIrq, siAcked, outcome>>

ProgramStep ==
  \/ SetupFails \/ I2cSetupHardware \/ PhyResetSetup
  \/ StartSend \/ StartRecv \/ WaitComplete \/ SendIdle
  \/ \E linkUp \in BOOLEAN : RecvIdle(linkUp)
  \/ SendPolled

BusStep == TransferEnds \/ BusStops

-------------------------------------------------------------------------------
I2cTypeOK ==
  /\ board \in Boards
  /\ progs \in {<<>>, <<"si", "sfp">>, <<"sfp">>, <<"phy">>}
  /\ step \in Nat /\ siAcked \in Nat
  /\ phase \in {"call", "waitSend", "idleSend", "callRecv", "waitRecv", "idleRecv"}
  /\ {txDone, rxDone, errors, busy, cpuIrq} \subseteq BOOLEAN
  /\ xfer \in {"none", "send", "recv"}
  /\ frame \in {"none", "live", "dead"}
  /\ outcome \in [{"si", "sfp", "phy"} -> {"none", "ok", "failed"}]

(* The bus is quiet whenever the program is about to start a transfer or   *)
(* has returned, unless an error was counted: no transfer is started over  *)
(* another, and no interrupt reaches the XIIC_LIB of a program that has    *)
(* returned.  (After an error both can happen: i2c_access.c:255 gives up   *)
(* on the new transfer at once and leaves it on the bus.)                  *)
BusQuiet ==
  ~errors /\ phase \in {"call", "callRecv"} => xfer = "none" /\ ~busy

(* ProgramSi5324 reports success only when the device has accepted the     *)
(* multiplexer byte and every register of the table.                       *)
Si5324Programmed ==
  outcome["si"] = "ok" => siAcked = 1 + SiRegs
===============================================================================
