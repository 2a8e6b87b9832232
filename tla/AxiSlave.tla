------------------------------- MODULE AxiSlave -------------------------------
(***************************************************************************)
(* The AXI4-Lite slave axi_noweights_v1_0_S00_AXI.v with a master that     *)
(* keeps to the protocol.  A step is a rising edge of the clock: all the   *)
(* registers of the slave and all the outputs of the master change at      *)
(* once, from their values before it.  The master may raise address and    *)
(* data of a write in any order, ask for the next write while the response *)
(* to the last one waits, and read at the same time; it has one read       *)
(* outstanding, as the MicroBlaze has: a second one accepted while the     *)
(* first answer waits would get no answer (rvalid is not raised again).    *)
(* All strobes are set: the driver writes words.                           *)
(***************************************************************************)
EXTENDS Naturals

CONSTANTS
  Writable, Status, Unused,   \* addresses: 0..7 and 9; 8, 10, 11; 12..15
  FirstAddr,                  \* address 0
  Words, ZeroWord, None

Addrs == Writable \cup Status \cup Unused
Regs == Writable \cup Status

ASSUME SlaveAssumption ==
  /\ Writable \cap Status = {} /\ Unused \cap (Writable \cup Status) = {}
  /\ ZeroWord \in Words /\ FirstAddr \in Writable
  /\ None \notin Words /\ None \notin Addrs /\ None \notin Addrs \X Words

VARIABLES
  regs,                                  \* data_in .. ready_out
  awready, aw_en, axi_awaddr, wready, bvalid,    \* slave, write side
  arready, axi_araddr, rvalid, rdata,            \* slave, read side
  awvalid, awaddr, wvalid, wdata, bready,        \* master, write side
  arvalid, araddr, rready                        \* master, read side

slaveWrite == <<awready, aw_en, axi_awaddr, wready, bvalid>>
slaveRead == <<arready, axi_araddr, rvalid, rdata>>
masterWrite == <<awvalid, awaddr, wvalid, wdata, bready>>
masterRead == <<arvalid, araddr, rready>>
vars == <<regs, slaveWrite, slaveRead, masterWrite, masterRead>>

TypeOK ==
  /\ regs \in [Regs -> Words]
  /\ {awready, aw_en, wready, bvalid, arready, rvalid} \subseteq BOOLEAN
  /\ {awvalid, wvalid, bready, arvalid, rready} \subseteq BOOLEAN
  /\ {axi_awaddr, axi_araddr, awaddr, araddr} \subseteq Addrs
  /\ {wdata, rdata} \subseteq Words

Init ==           \* the state of reset
  /\ regs \in [Regs -> Words] /\ \A a \in Writable : regs[a] = ZeroWord
  /\ awready = FALSE /\ aw_en = TRUE /\ wready = FALSE /\ bvalid = FALSE
  /\ arready = FALSE /\ rvalid = FALSE /\ rdata = ZeroWord
  /\ axi_awaddr = FirstAddr /\ axi_araddr = FirstAddr
  /\ awvalid = FALSE /\ wvalid = FALSE /\ arvalid = FALSE
  /\ awaddr = FirstAddr /\ araddr = FirstAddr /\ wdata = ZeroWord
  /\ bready = FALSE /\ rready = FALSE

-------------------------------------------------------------------------------
(* The slave, one operator per always block                                *)

\* Seeded fault: aw_en is not looked at.
WriteAsked_NoEnable == ~awready /\ awvalid /\ wvalid

(* "This design expects no outstanding transactions": aw_en keeps the next *)
(* write out until the response to the last one has been taken.            *)
WriteAsked == ~awready /\ awvalid /\ wvalid /\ aw_en

\* Seeded fault: the response taken does not release aw_en.
AddressReady_NoRelease ==
  /\ awready' = WriteAsked
  /\ aw_en' = IF WriteAsked THEN FALSE ELSE aw_en

AddressReady ==
  /\ awready' = WriteAsked
  /\ aw_en' = IF WriteAsked THEN FALSE ELSE aw_en \/ (bready /\ bvalid)

LatchWriteAddress == axi_awaddr' = IF WriteAsked THEN awaddr ELSE axi_awaddr

DataReady == wready' = (~wready /\ awvalid /\ wvalid /\ aw_en)

slv_reg_wren == wready /\ wvalid /\ awready /\ awvalid

(* The enabled write goes to its register if that is writable; the status  *)
(* registers sample the inputs from the peripheral at every edge.          *)
Registers ==
  /\ regs' \in [Regs -> Words]
  /\ \A a \in Writable :
       regs'[a] = IF slv_reg_wren /\ axi_awaddr = a THEN wdata ELSE regs[a]

WriteResponse ==
  bvalid' = IF slv_reg_wren /\ ~bvalid THEN TRUE ELSE bvalid /\ ~bready

ReadAddress ==
  LET accept == ~arready /\ arvalid
  IN  /\ arready' = accept
      /\ axi_araddr' = IF accept THEN araddr ELSE axi_araddr

slv_reg_rden == arready /\ arvalid /\ ~rvalid

\* Seeded fault: the answer is offered only to a master that is ready.
ReadValid_WhenTaken ==
  rvalid' = IF slv_reg_rden /\ rready THEN TRUE ELSE rvalid /\ ~rready

ReadValid == rvalid' = (slv_reg_rden \/ (rvalid /\ ~rready))

reg_data_out == IF axi_araddr \in Unused THEN ZeroWord ELSE regs[axi_araddr]

\* Seeded fault: rdata is not held while the answer waits.
ReadData_Follows == rdata' = reg_data_out

ReadData == rdata' = IF slv_reg_rden THEN reg_data_out ELSE rdata

-------------------------------------------------------------------------------
(* The master: a valid signal stays, with its address or data, until the   *)
(* edge at which it meets ready.  What the address and data lines carry    *)
(* without it is never looked at.                                          *)
MasterWrite ==
  /\ awvalid' \in BOOLEAN /\ wvalid' \in BOOLEAN /\ bready' \in BOOLEAN
  /\ awaddr' \in (IF awvalid' THEN Addrs ELSE {FirstAddr})
  /\ wdata' \in (IF wvalid' THEN Words ELSE {ZeroWord})
  /\ awvalid /\ ~awready => awvalid' /\ awaddr' = awaddr
  /\ wvalid /\ ~wready => wvalid' /\ wdata' = wdata

MasterRead ==
  /\ arvalid' \in BOOLEAN /\ rready' \in BOOLEAN
  /\ araddr' \in (IF arvalid' THEN Addrs ELSE {FirstAddr})
  /\ arvalid /\ ~arready => arvalid' /\ araddr' = araddr
  /\ (arvalid /\ arready) \/ (rvalid /\ ~rready) => ~arvalid'

Edge ==
  /\ AddressReady /\ LatchWriteAddress /\ DataReady /\ Registers /\ WriteResponse
  /\ ReadAddress /\ ReadValid /\ ReadData
  /\ MasterWrite /\ MasterRead

(* An edge with S_AXI_ARESETN low, which is the master's reset too.        *)
Reset ==
  /\ regs' \in [Regs -> Words] /\ \A a \in Writable : regs'[a] = ZeroWord
  /\ awready' = FALSE /\ aw_en' = TRUE /\ wready' = FALSE /\ bvalid' = FALSE
  /\ arready' = FALSE /\ rvalid' = FALSE /\ rdata' = ZeroWord
  /\ axi_awaddr' = FirstAddr /\ axi_araddr' = FirstAddr
  /\ awvalid' = FALSE /\ wvalid' = FALSE /\ arvalid' = FALSE
  /\ awaddr' = FirstAddr /\ araddr' = FirstAddr /\ wdata' = ZeroWord
  /\ bready' = FALSE /\ rready' = FALSE

Next == Edge \/ Reset

Spec == Init /\ [][Next]_vars

(* The clock runs, and the master takes responses and answers.             *)
FairSpec == Spec /\ WF_vars(Edge /\ bready' /\ rready')

-------------------------------------------------------------------------------
(* The slave's side of every handshake: address and data are accepted      *)
(* together, with the address that was latched, and never while a response *)
(* or an answer is still owed; whenever the next write is kept out, there  *)
(* is a write or a response that lets it in again.                         *)
Handshake ==
  /\ TypeOK
  /\ wready = awready
  /\ awready => awvalid /\ wvalid /\ axi_awaddr = awaddr /\ ~aw_en /\ ~bvalid
  /\ bvalid => ~aw_en
  /\ ~aw_en => awready \/ bvalid
  /\ arready => arvalid /\ axi_araddr = araddr
  /\ arvalid => ~rvalid

Bus == INSTANCE RegisterBus WITH
  write <- IF awvalid /\ wvalid THEN <<awaddr, wdata>> ELSE None,
  response <- bvalid,
  read <- IF arvalid THEN araddr ELSE None,
  answer <- IF rvalid THEN rdata ELSE None

(* The slave implements RegisterBus: however writes and reads overlap,     *)
(* each write takes effect once, in its own register, before its response, *)
(* and each read answers a value its register has while it waits.          *)
ImplementsRegisterBus == Bus!Spec

(* Once resets are over every write gets its response and every read its   *)
(* answer: no channel waits for ever, and none drops what it has accepted. *)
NoMoreResets == <>[][~Reset]_vars
AccessesEnd ==
  NoMoreResets => /\ <>[](awvalid /\ wvalid => <>bvalid)
                  /\ <>[](arvalid => <>rvalid)
===============================================================================
