---------------------------- MODULE AxiSlaveProof ----------------------------
(***************************************************************************)
(* The slave's handshakes, and that the slave implements RegisterBus, for  *)
(* any sets of registers and words.                                        *)
(***************************************************************************)
EXTENDS AxiSlave, TLAPS

LEMMA InitHandshake == Init => Handshake
BY SlaveAssumption DEF Init, Handshake, TypeOK, Regs, Addrs

LEMMA ResetHandshake == Handshake /\ Reset => Handshake'
BY SlaveAssumption DEF Reset, Handshake, TypeOK, Regs, Addrs

(* An edge of the clock keeps the types ...                                *)
LEMMA EdgeTypeOK == Handshake /\ Edge => TypeOK'
<1> SUFFICES ASSUME Handshake, Edge PROVE TypeOK'
  OBVIOUS
<1> USE SlaveAssumption DEF Handshake, TypeOK, Edge, Regs, Addrs
<1>1. regs' \in [Regs -> Words]
  BY DEF Registers
<1>2. {awready', aw_en', wready', bvalid'} \subseteq BOOLEAN
  BY DEF AddressReady, DataReady, WriteResponse, WriteAsked, slv_reg_wren
<1>3. {arready', rvalid'} \subseteq BOOLEAN
  BY DEF ReadAddress, ReadValid, slv_reg_rden
<1>4. {awvalid', wvalid', bready', arvalid', rready'} \subseteq BOOLEAN
  BY DEF MasterWrite, MasterRead
<1>5. {axi_awaddr', axi_araddr', awaddr', araddr'} \subseteq Addrs
  BY DEF LatchWriteAddress, ReadAddress, MasterWrite, MasterRead
<1>6. {wdata', rdata'} \subseteq Words
  <2>1. reg_data_out \in Words
    BY DEF reg_data_out
  <2> QED
    BY <2>1 DEF ReadData, MasterWrite
<1> QED
  BY <1>1, <1>2, <1>3, <1>4, <1>5, <1>6

(* ... and the state of every handshake.                                   *)
LEMMA EdgeHandshake == Handshake /\ Edge => Handshake'
<1> SUFFICES ASSUME Handshake, Edge PROVE Handshake'
  OBVIOUS
<1> TypeOK'
  BY EdgeTypeOK
<1> USE DEF Handshake, TypeOK, Edge
<1>1. /\ wready' = awready'
      /\ awready' => awvalid' /\ wvalid' /\ axi_awaddr' = awaddr' /\ ~aw_en' /\ ~bvalid'
      /\ bvalid' => ~aw_en'
      /\ ~aw_en' => awready' \/ bvalid'
  BY DEF AddressReady, LatchWriteAddress, DataReady, WriteResponse, WriteAsked,
         slv_reg_wren, MasterWrite
<1>2. /\ arready' => arvalid' /\ axi_araddr' = araddr'
      /\ arvalid' => ~rvalid'
  BY DEF ReadAddress, ReadValid, slv_reg_rden, MasterRead
<1> QED
  BY <1>1, <1>2

(* Every handshake stays in order, whatever the master asks for and        *)
(* whenever it is reset.                                                   *)
THEOREM HandshakeHolds == Spec => []Handshake
<1>1. Handshake /\ [Next]_vars => Handshake'
  <2> SUFFICES ASSUME Handshake, [Next]_vars PROVE Handshake'
    OBVIOUS
  <2>1. CASE Edge
    BY <2>1, EdgeHandshake
  <2>2. CASE Reset
    BY <2>2, ResetHandshake
  <2>3. CASE UNCHANGED vars
    BY <2>3 DEF Handshake, TypeOK, vars, slaveWrite, slaveRead, masterWrite, masterRead
  <2> QED
    BY <2>1, <2>2, <2>3 DEF Next
<1> QED
  BY InitHandshake, <1>1, PTL DEF Spec

-------------------------------------------------------------------------------
(* The refinement                                                          *)

LEMMA InitBus == Init => Bus!Init
BY SlaveAssumption DEF Init, Bus!Init, Regs, Bus!Addrs

(* On the write side an edge commits the write that was asked for when it  *)
(* is enabled, and otherwise leaves the registers alone.                   *)
LEMMA EdgeWriteSide == Handshake /\ Edge => Bus!WriteSide
<1> SUFFICES ASSUME Handshake, Edge PROVE Bus!WriteSide
  OBVIOUS
<1> DEFINE req == IF awvalid /\ wvalid THEN <<awaddr, wdata>> ELSE None
           next == IF awvalid' /\ wvalid' THEN <<awaddr', wdata'>> ELSE None
<1> TypeOK'
  BY EdgeTypeOK
<1> USE SlaveAssumption DEF Handshake, TypeOK, Edge, Bus!Addrs, Addrs
<1>1. next \in {None} \cup (Bus!Addrs \X Words)
  OBVIOUS
<1>2. CASE slv_reg_wren
  <2>1. req = <<awaddr, wdata>> /\ req # None /\ ~bvalid /\ bvalid'
    BY <1>2 DEF slv_reg_wren, WriteResponse
  <2>2. Bus!Written(req)
    BY <1>2, <2>1 DEF Bus!Written, Registers, slv_reg_wren
  <2> QED
    BY <1>1, <2>1, <2>2 DEF Bus!WriteSide
<1>3. CASE ~slv_reg_wren
  <2>1. bvalid' \in {bvalid, FALSE}
    BY <1>3 DEF WriteResponse
  <2>2. Bus!Written(None)
    BY <1>3 DEF Bus!Written, Registers
  <2>3. req # None => next = req
    BY <1>3 DEF slv_reg_wren, MasterWrite
  <2> QED
    BY <1>1, <2>1, <2>2, <2>3 DEF Bus!WriteSide
<1> QED
  BY <1>2, <1>3

(* On the read side an edge reads the register asked for, keeps an answer  *)
(* that waits, or goes on to the next read.                                *)
LEMMA EdgeReadSide == Handshake /\ Edge => Bus!ReadSide
<1> SUFFICES ASSUME Handshake, Edge PROVE Bus!ReadSide
  OBVIOUS
<1> DEFINE req == IF arvalid THEN araddr ELSE None
           ans == IF rvalid THEN rdata ELSE None
<1> TypeOK'
  BY EdgeTypeOK
<1> USE SlaveAssumption DEF Handshake, TypeOK, Edge, Bus!Addrs, Addrs
<1>1. CASE slv_reg_rden
  <2>1. req = axi_araddr /\ req # None /\ ans = None /\ rvalid' /\ ~arvalid'
    BY <1>1 DEF slv_reg_rden, ReadValid, MasterRead
  <2>2. rdata' = Bus!Content(req)
    BY <1>1, <2>1 DEF ReadData, reg_data_out, Bus!Content
  <2> QED
    BY <2>1, <2>2 DEF Bus!ReadSide
<1>2. CASE ~slv_reg_rden /\ arvalid
  BY <1>2 DEF slv_reg_rden, ReadValid, MasterRead, Bus!ReadSide
<1>3. CASE ~arvalid /\ rvalid /\ ~rready
  BY <1>3 DEF slv_reg_rden, ReadValid, ReadData, MasterRead, Bus!ReadSide
<1>4. CASE ~arvalid /\ (rvalid => rready)
  <2>1. ~rvalid'
    BY <1>4 DEF slv_reg_rden, ReadValid
  <2> QED
    BY <1>4, <2>1 DEF Bus!ReadSide
<1> QED
  BY <1>1, <1>2, <1>3, <1>4 DEF slv_reg_rden

LEMMA StepBus == Handshake /\ [Next]_vars => [Bus!Next]_Bus!vars
<1> SUFFICES ASSUME Handshake, [Next]_vars PROVE [Bus!Next]_Bus!vars
  OBVIOUS
<1>1. CASE Edge
  <2>1. regs' \in [Writable \cup Status -> Words]
    BY <1>1, EdgeTypeOK DEF TypeOK, Regs
  <2> QED
    BY <1>1, <2>1, EdgeWriteSide, EdgeReadSide DEF Bus!Next
<1>2. CASE Reset
  BY <1>2 DEF Reset, Regs, Bus!Next, Bus!Reset
<1>3. CASE UNCHANGED vars
  BY <1>3 DEF vars, slaveWrite, slaveRead, masterWrite, masterRead, Bus!vars
<1> QED
  BY <1>1, <1>2, <1>3 DEF Next

(* The slave implements the register bus: one effect for each write, an    *)
(* up-to-date word for each read.                                          *)
THEOREM SlaveImplementsBus == Spec => ImplementsRegisterBus
BY HandshakeHolds, InitBus, StepBus, PTL DEF Spec, ImplementsRegisterBus, Bus!Spec
===============================================================================
