--------------------------- MODULE NNSystemProof ---------------------------
(***************************************************************************)
(* Proofs about NNSystem for memories of every size, every set of words    *)
(* and every network Predict: IInv of NNSystemInv is an invariant, and     *)
(* with it the safety properties that the runs check on small instances.   *)
(***************************************************************************)
EXTENDS NNSystemInv, TLAPS

----------------------------------------------------------------------------
(* Constants *)

\* The four write states are different from each other and from the rest.
LEMMA WriteStateFacts ==
    /\ \A t \in Targets : WriteState[t] \in WriteStates
    /\ \A t \in Targets : WriteState[t] \notin {"ready_s", "calc_s", "done_clean_s"}
    /\ \A t, u \in Targets : WriteState[t] = WriteState[u] => t = u
<1>1. \A t \in Targets : WriteState[t] =
        IF t = "image" THEN "img_write_s" ELSE IF t = "conv1" THEN "con1_write_s"
        ELSE IF t = "conv2" THEN "con2_write_s" ELSE "lin_write_s"
  BY DEF Targets, WriteState
<1> QED
  BY <1>1 DEF Targets, WriteStates

\* The memories are not empty, and the linear weights have one column.
LEMMA DimFacts ==
    /\ \A t \in Targets : Rows[t] \in Nat \ {0} /\ Cols[t] \in Nat \ {0}
    /\ Rows["image"] = ImageRows
    /\ Cols["lin"] = 1
    /\ \A t \in ConvJobs : Rows[t] = Cols[t]
BY DimAssumption DEF Targets, ConvJobs, Rows, Cols

\* A cell is a memory with a row and a column of it.
LEMMA CellsFacts ==
    /\ \A t \in Targets : \A r \in Int, k \in Nat :
         <<t, r, k>> \in Cells <=> 0 <= r /\ r < Rows[t] /\ k < Cols[t]
    /\ \A c \in Cells :
         /\ c[1] \in Targets /\ c[2] \in Nat /\ c[3] \in Nat
         /\ c = <<c[1], c[2], c[3]>>
<1>1. \A t \in Targets : Rows[t] \in Nat /\ Cols[t] \in Nat
  BY DimFacts
<1>2. ASSUME NEW t \in Targets, NEW r \in Int, NEW k \in Nat
      PROVE  <<t, r, k>> \in Cells <=> 0 <= r /\ r < Rows[t] /\ k < Cols[t]
  BY <1>1, <1>2 DEF Cells
<1>3. ASSUME NEW c \in Cells
      PROVE  /\ c[1] \in Targets /\ c[2] \in Nat /\ c[3] \in Nat
             /\ c = <<c[1], c[2], c[3]>>
  <2>1. PICK t \in Targets : c \in {t} \X (0 .. Rows[t] - 1) \X (0 .. Cols[t] - 1)
    BY DEF Cells
  <2> QED
    BY <1>1, <2>1
<1> QED
  BY <1>2, <1>3

\* The place of a number is a cell, and two numbers never share one.
LEMMA AddrFacts ==
    /\ \A c \in Cells : Addr(c) \in Cells
    /\ \A c, d \in Cells : Addr(c) = Addr(d) => c = d
<1>1. ASSUME NEW c \in Cells PROVE Addr(c) \in Cells
  BY CellsFacts, DimFacts DEF Addr, RowOf, ColOf, ConvJobs, Targets
<1>2. ASSUME NEW c \in Cells, NEW d \in Cells, Addr(c) = Addr(d)
      PROVE  c = d
  BY <1>2, CellsFacts DEF Addr, RowOf, ColOf
<1> QED
  BY <1>1, <1>2

----------------------------------------------------------------------------
(* The memories at a clock edge *)

\* Outside the write states the memories keep their words.
LEMMA MemoryKept ==
  ASSUME IPTypeOK, StoreWord, state \notin WriteStates
  PROVE  mem' = mem
<1>1. mem \in [Cells -> Data]
  BY DEF IPTypeOK
<1>2. \A c \in Cells : mem'[c] = mem[c]
  BY WriteStateFacts DEF StoreWord
<1>3. mem' = [c \in Cells |-> mem'[c]]
  BY DEF StoreWord
<1> QED
  BY <1>1, <1>2, <1>3

\* In the write state of t the word of its slot becomes data_in; no other
\* word changes.
LEMMA MemoryWritten ==
  ASSUME IPTypeOK, StoreWord, NEW t \in Targets, state = WriteState[t]
  PROVE  \A c \in Cells : mem'[c] = IF c = Slot(t) THEN data_in ELSE mem[c]
BY WriteStateFacts DEF StoreWord

----------------------------------------------------------------------------
(* Type correctness *)

\* A clock edge of the peripheral keeps the types of its registers.
LEMMA IPEdgeType ==
  ASSUME IPTypeOK, IPEdge,
         data_in' \in Data, row_in' \in Int, col_in' \in Nat,
         wen' \in [Targets -> BOOLEAN], start_cal_in' \in BOOLEAN
  PROVE  IPTypeOK'
<1> USE DEF IPTypeOK
<1>1. {s_done', s_ready', ready_out', done_out'} \subseteq BOOLEAN
      /\ aresetn' \in BOOLEAN /\ clean_resetn' \in BOOLEAN
  BY DEF IPEdge, SampleStatus, DriveOutputs
<1>2. mem' \in [Cells -> Data]
  BY DEF IPEdge, DriveOutputs, StoreWord
<1>3. {s_final', final_out', calc_out'} \subseteq Answers
      /\ eng' \in {"idle", "run", "handOff"}
  BY PredictAssumption DEF IPEdge, SampleStatus, DriveOutputs, StepEngine
<1>4. state' \in States
  BY WriteStateFacts
     DEF IPEdge, StepState, LeaveReady, ReturnToReady, States, WriteStates,
         WriteState, Targets
<1> QED
  BY <1>1, <1>2, <1>3, <1>4

\* What Next does, action by action.
LEMMA NextCases ==
  Next <=> \/ WriteData \/ WriteRow \/ WriteCol \/ PollReady \/ WenHigh
           \/ PollDone \/ WenLow \/ StartHigh \/ ReadAns \/ StartLow
           \/ ReceiveImage \/ ReceiveWeights \/ ReceiveCalc \/ ReceiveOther
           \/ Wait \/ Reset
BY DEF Next, Access, Message

\* The address of the number being loaded fits the registers.
LEMMA CellType ==
  ASSUME TypeOK, Loading, pc # "Idle"
  PROVE  RowOf(Cell) \in Int /\ ColOf(Cell) \in Nat
BY DEF TypeOK, Loading, Cell, RowOf, ColOf, ConvJobs, Targets

\* The number being loaded is a cell, unless it is in a row outside the image.
LEMMA CellInside ==
  ASSUME TypeOK, Loading, pc # "Idle", Cell \notin Cells
  PROVE  job = "image" /\ (i < 0 \/ i >= ImageRows)
<1>1. i \in Int /\ j \in Nat /\ j < Cols[job] /\ i < rowEnd /\ job \in Targets
      /\ (job # "image" => i \in Nat /\ rowEnd = Rows[job])
  BY DEF TypeOK, Loading
<1> QED
  BY <1>1, CellsFacts, DimFacts DEF Cell

\* Only the number being loaded has its place, also when it is no cell.
LEMMA CellOfAddr ==
  ASSUME NEW c \in Cells, Addr(c) = Addr(Cell)
  PROVE  c = Cell
BY CellsFacts DEF Addr, RowOf, ColOf, Cell

\* At every edge the driver leaves the register types alone, so the
\* peripheral keeps its own.
LEMMA IPTypeStep ==
  ASSUME TypeOK, Next
  PROVE  IPTypeOK'
<1>1. IPTypeOK /\ IPEdge
  BY NextCases DEF TypeOK, AtPC, WriteData, WriteRow, WriteCol, PollReady,
     WenHigh, PollDone, WenLow, StartHigh, ReadAns, StartLow, ReceiveImage,
     ReceiveWeights, ReceiveCalc, Receive, ReceiveOther, Wait, Reset
<1> DEFINE RegsTyped == /\ data_in' \in Data /\ row_in' \in Int /\ col_in' \in Nat
                        /\ wen' \in [Targets -> BOOLEAN]
                        /\ start_cal_in' \in BOOLEAN
<1>2. RegsTyped
  <2> USE DEF IPTypeOK
  <2>1. CASE WriteData
    BY <1>1, <2>1 DEF WriteData
  <2>2. CASE WriteRow \/ WriteCol
    <3>1. Loading /\ pc # "Idle" /\ TypeOK
      BY <2>2 DEF WriteRow, WriteCol, AtPC, TypeOK, CalcPCs, Loading, Jobs
    <3>2. RowOf(Cell) \in Int /\ ColOf(Cell) \in Nat
      BY <3>1, CellType
    <3> QED
      BY <1>1, <2>2, <3>2 DEF WriteRow, WriteCol, AtPC
  <2>3. CASE WenHigh \/ WenLow
    BY <1>1, <2>3 DEF WenHigh, WenLow
  <2>4. CASE PollReady \/ PollDone \/ ReadAns \/ StartHigh \/ StartLow
    BY <1>1, <2>4 DEF PollReady, PollDone, ReadAns, StartHigh, StartLow, busRegs
  <2>5. CASE ReceiveImage \/ ReceiveWeights \/ ReceiveCalc \/ ReceiveOther \/ Wait
    BY <1>1, <2>5 DEF ReceiveImage, ReceiveWeights, ReceiveCalc, ReceiveOther,
       Receive, Wait, busRegs
  <2>6. CASE Reset
    <3>1. 0 \in Int /\ 0 \in Nat
      OBVIOUS
    <3> QED
      BY <1>1, <2>6, <3>1, DataAssumption DEF Reset, ClearBusRegs
  <2> QED
    BY <2>1, <2>2, <2>3, <2>4, <2>5, <2>6, NextCases
<1> QED
  BY <1>1, <1>2, IPEdgeType

\* The loops end where they should, and those over the weights stay inside
\* their memory.
LEMMA LoopTypeStep ==
  ASSUME TypeOK, Next
  PROVE  /\ job' \in Jobs
         /\ pc' \in IF job' = "calc" THEN CalcPCs \cup {"Idle"}
                                     ELSE LoadPCs \cup {"Idle"}
         /\ i' \in Int /\ j' \in Nat /\ rowEnd' \in Int
         /\ job' \in Targets /\ pc' # "Idle" => i' < rowEnd' /\ j' < Cols[job']
         /\ job' \in Targets \ {"image"} => i' \in Nat /\ rowEnd' = Rows[job']
<1> USE DEF TypeOK, LoadPCs, CalcPCs
<1>1. CASE WriteData \/ WriteRow \/ WriteCol \/ PollReady \/ WenHigh \/ PollDone
  BY <1>1 DEF WriteData, WriteRow, WriteCol, PollReady, WenHigh, PollDone,
     AtPC, loop, Jobs
<1>2. CASE StartHigh \/ ReadAns \/ StartLow \/ ReceiveOther \/ Wait
  BY <1>2 DEF StartHigh, ReadAns, StartLow, ReceiveOther, Wait, AtPC, loop, cpu
<1>3. CASE WenLow
  <2>1. job \in Targets /\ pc = "WenLow" /\ NextNumber
    BY <1>3 DEF WenLow, AtPC, Jobs
  <2>2. CASE ~(j + 1 = Cols[job] /\ i + 1 = rowEnd)
    BY <2>1, <2>2, DimFacts DEF NextNumber, Jobs
  <2>3. CASE /\ j + 1 = Cols[job] /\ i + 1 = rowEnd
             /\ booting
    BY <2>1, <2>3, DimFacts DEF NextNumber, NextBootJob, Targets, Jobs
  <2>4. CASE /\ j + 1 = Cols[job] /\ i + 1 = rowEnd
             /\ ~booting
    BY <2>1, <2>4, DimFacts DEF NextNumber, MessageLoaded, loop
  <2> QED
    BY <2>2, <2>3, <2>4
<1>4. CASE ReceiveImage
  BY <1>4, StripAssumption, DimFacts
     DEF ReceiveImage, Receive, Jobs, Targets
<1>5. CASE ReceiveWeights \/ ReceiveCalc
  BY <1>5, DimFacts DEF ReceiveWeights, ReceiveCalc, Receive, Jobs, Targets
<1>6. CASE Reset
  BY <1>6, DimFacts, DimAssumption DEF Reset, Jobs, Targets
<1> QED
  BY <1>1, <1>2, <1>3, <1>4, <1>5, <1>6, NextCases

\* Type correctness of one step.
LEMMA TypeStep ==
  ASSUME TypeOK, Next
  PROVE  TypeOK'
<1>1. IPTypeOK'
  BY IPTypeStep
<1>2. /\ val' \in Data /\ ans' \in Answers \cup {NoAnswer} /\ booting' \in BOOLEAN
      /\ reply' \in {"none", "pending", "echoed", "refused", "silent"}
  BY NextCases, DataAssumption
     DEF TypeOK, IPTypeOK, AtPC, WriteData, WriteRow, WriteCol, PollReady, WenHigh,
         PollDone, WenLow, StartHigh, ReadAns, StartLow, ReceiveImage,
         ReceiveWeights, ReceiveCalc, Receive, ReceiveOther, Wait, Reset, cpu,
         NextNumber, NextBootJob, MessageLoaded
<1>3. sent' \in [Cells -> Data] /\ dirty' \subseteq Cells
  <2>1. CASE WenHigh
    BY <2>1 DEF WenHigh, TypeOK
  <2>2. CASE PollDone
    BY <2>2 DEF PollDone, TypeOK, hist
  <2>3. CASE UNCHANGED hist
    BY <2>3 DEF hist, TypeOK
  <2> QED
    BY <2>1, <2>2, <2>3, NextCases
       DEF WriteData, WriteRow, WriteCol, PollReady, WenLow, StartHigh, ReadAns,
           StartLow, ReceiveImage, ReceiveWeights, ReceiveCalc, Receive,
           ReceiveOther, Wait, Reset
<1> QED
  BY <1>1, <1>2, <1>3, LoopTypeStep DEF TypeOK

----------------------------------------------------------------------------
(* What a step does to the memories *)

\* Every step is a clock edge of the peripheral.
LEMMA EdgeStep ==
  ASSUME Next
  PROVE  IPEdge
BY NextCases DEF AtPC, WriteData, WriteRow, WriteCol, PollReady, WenHigh,
   PollDone, WenLow, StartHigh, ReadAns, StartLow, ReceiveImage, ReceiveWeights,
   ReceiveCalc, Receive, ReceiveOther, Wait, Reset

\* While an enable is up the slot of its memory is the number's place.
LEMMA SlotIsAddr ==
  ASSUME TypeOK, BusInv, Loading, pc \in {"PollDone", "WenLow"}
  PROVE  Slot(job) = Addr(Cell) /\ data_in = val
<1>1. data_in = val /\ row_in = RowOf(Cell)
  BY DEF BusInv
<1>2. CASE job = "lin"
  BY <1>1, <1>2, DimFacts DEF Slot, Addr, Cell, RowOf, ColOf, ConvJobs, TypeOK, Loading
<1>3. CASE job # "lin"
  BY <1>1, <1>3 DEF BusInv, Slot, Addr, Cell
<1> QED
  BY <1>1, <1>2, <1>3

\* The place of the number being loaded is a cell when the number is one.
LEMMA CellPlace ==
  ASSUME TypeOK, Loading, pc # "Idle"
  PROVE  Addr(Cell) \in Cells <=> Cell \in Cells
<1>1. CASE Cell \in Cells
  BY <1>1, AddrFacts
<1>2. CASE Cell \notin Cells
  BY <1>2, CellInside DEF Addr, RowOf, ColOf, Cell, ConvJobs
<1> QED
  BY <1>1, <1>2

\* The only word a step can change is the one the driver waits for.
LEMMA MemoryStep ==
  ASSUME IInv, Next
  PROVE  /\ \A c \in Cells :
              mem'[c] # mem[c] => /\ pc = "PollDone" /\ Loading
                                  /\ state = WriteState[job]
                                  /\ c = Addr(Cell) /\ mem'[c] = val
         /\ pc = "PollDone" /\ Loading /\ state = WriteState[job] /\ Cell \in Cells
              => mem'[Addr(Cell)] = val
         /\ state \notin WriteStates => mem' = mem
<1>1. IPTypeOK /\ StoreWord /\ BusInv /\ TypeOK
  BY EdgeStep DEF IInv, TypeOK, IPEdge, DriveOutputs
<1>2. CASE state \notin WriteStates
  <2>1. mem' = mem
    BY <1>1, <1>2, MemoryKept
  <2>2. Loading => state # WriteState[job]
    BY <1>2, WriteStateFacts DEF Loading
  <2> QED
    BY <2>1, <2>2
<1>3. CASE state \in WriteStates
  <2>1. PICK t \in Targets : state = WriteState[t]
    BY <1>3 DEF WriteStates
  <2>2. \A c \in Cells : mem'[c] = IF c = Slot(t) THEN data_in ELSE mem[c]
    BY <1>1, <2>1, MemoryWritten
  <2>3. CASE ~wen[t]
    <3>1. Slot(t) \in Cells => mem[Slot(t)] = data_in
      BY <2>1, <2>3 DEF IInv, ReleasedInv
    <3>2. ~(pc = "PollDone" /\ Loading /\ state = WriteState[job])
      BY <1>1, <2>1, <2>3, WriteStateFacts DEF BusInv, Loading
    <3> QED
      BY <1>3, <2>2, <3>1, <3>2
  <2>4. CASE wen[t]
    <3>1. job = t /\ pc \in {"PollDone", "WenLow"} /\ Loading
      BY <1>1, <2>4 DEF BusInv, Loading
    <3>2. /\ Slot(t) = Addr(Cell) /\ data_in = val
          /\ Addr(Cell) \in Cells <=> Cell \in Cells
      BY <1>1, <3>1, SlotIsAddr, CellPlace
    <3>3. pc = "WenLow" /\ Cell \in Cells => mem[Addr(Cell)] = val
      BY DEF IInv, LoadInv, StoredCell
    <3> QED
      BY <1>3, <2>1, <2>2, <3>1, <3>2, <3>3
  <2> QED
    BY <2>3, <2>4
<1> QED
  BY <1>2, <1>3

----------------------------------------------------------------------------
(* The conjuncts of the inductive invariant *)

\* No load ends in a place of the program that waits for a request, so its
\* enable is all that a falling enable changes.
LEMMA AfterLoad ==
  ASSUME TypeOK, WenLow
  PROVE  /\ Loading
         /\ pc' \in {"Data", "Idle", "PollReady"}
         /\ pc' = "PollReady" => job' = "calc"
         /\ pc' = "Idle" => ~booting
         /\ job' \in Jobs
BY DEF WenLow, AtPC, TypeOK, Loading, NextNumber, NextBootJob, MessageLoaded,
   CalcPCs, Jobs, Targets, loop

LEMMA BusStep ==
  ASSUME IInv, Next
  PROVE  BusInv'
<1> USE DEF Loading, busRegs, loop, cpu, Cell, RowOf, ColOf, AtPC
<1>1. TypeOK /\ BusInv
  BY DEF IInv
<1>2. wen \in [Targets -> BOOLEAN] /\ job \in Jobs
      /\ (job \in Targets <=> job # "calc") /\ "calc" \notin Targets
  BY <1>1 DEF TypeOK, IPTypeOK, Jobs, Targets
<1>3. CASE WriteData
  BY <1>1, <1>2, <1>3 DEF BusInv, WriteData
<1>4. CASE WriteRow
  BY <1>1, <1>2, <1>4 DEF BusInv, WriteRow
<1>5. CASE WriteCol
  BY <1>1, <1>2, <1>5 DEF BusInv, WriteCol, TypeOK, CalcPCs
<1>6. CASE PollReady
  BY <1>1, <1>2, <1>6 DEF BusInv, PollReady
<1>7. CASE WenHigh
  BY <1>1, <1>2, <1>7 DEF BusInv, WenHigh, TypeOK, CalcPCs
<1>8. CASE PollDone
  BY <1>1, <1>2, <1>8 DEF BusInv, PollDone
<1>9. CASE WenLow
  <2>1. /\ \A t \in Targets : wen'[t] = IF t = job THEN FALSE ELSE wen[t]
        /\ UNCHANGED <<data_in, start_cal_in, val>> /\ pc = "WenLow"
    BY <1>2, <1>9 DEF WenLow
  <2> QED
    BY <1>1, <1>2, <1>9, <2>1, AfterLoad DEF BusInv
<1>10. CASE StartHigh
  BY <1>1, <1>2, <1>10 DEF BusInv, StartHigh, TypeOK, LoadPCs
<1>11. CASE ReadAns
  BY <1>1, <1>2, <1>11 DEF BusInv, ReadAns
<1>12. CASE StartLow
  BY <1>1, <1>2, <1>12 DEF BusInv, StartLow
<1>13. CASE ReceiveImage \/ ReceiveWeights \/ ReceiveCalc
  BY <1>1, <1>2, <1>13
     DEF BusInv, ReceiveImage, ReceiveWeights, ReceiveCalc, Receive
<1>14. CASE ReceiveOther \/ Wait
  BY <1>1, <1>2, <1>14 DEF BusInv, ReceiveOther, Wait
<1>15. CASE Reset
  BY <1>15 DEF BusInv, Reset, ClearBusRegs
<1> QED
  BY <1>3, <1>4, <1>5, <1>6, <1>7, <1>8, <1>9, <1>10, <1>11, <1>12, <1>13,
     <1>14, <1>15, NextCases

\* A write state is entered with its enable up and left on the edge after
\* the enable fell; when it falls the word is in its place.
LEMMA ReleasedStep ==
  ASSUME IInv, Next
  PROVE  ReleasedInv'
<1> SUFFICES ASSUME NEW t \in Targets,
                    state' = WriteState[t], ~wen'[t], Slot(t)' \in Cells
             PROVE  mem'[Slot(t)'] = data_in'
  BY DEF ReleasedInv
<1>1. TypeOK /\ BusInv /\ IPEdge
  BY EdgeStep DEF IInv
<1>2. aresetn /\ wen[t]
  <2>1. state' \in WriteStates /\ StepState
    BY <1>1, WriteStateFacts DEF IPEdge
  <2>2. aresetn /\ ~ReturnToReady
    BY <2>1, WriteStateFacts DEF StepState
  <2>3. CASE state = "ready_s"
    BY <1>1, <2>1, <2>2, <2>3, WriteStateFacts
       DEF StepState, LeaveReady, WriteState, Targets
  <2>4. CASE state # "ready_s"
    <3>1. state = WriteState[t]
      BY <2>1, <2>2, <2>4, WriteStateFacts DEF StepState
    <3> QED
      BY <2>2, <3>1 DEF ReturnToReady
  <2> QED
    BY <2>2, <2>3, <2>4
<1>3. job = t /\ pc \in {"PollDone", "WenLow"} /\ Loading
  BY <1>1, <1>2 DEF BusInv, Loading
<1>4. WenLow
  <2>1. CASE UNCHANGED wen
    BY <1>2, <2>1
  <2>2. CASE Reset \/ WenHigh
    BY <1>2, <1>3, <2>2 DEF Reset, WenHigh, AtPC
  <2> QED
    BY <2>1, <2>2, NextCases
       DEF WriteData, WriteRow, WriteCol, PollReady, PollDone, StartHigh, ReadAns,
           StartLow, ReceiveImage, ReceiveWeights, ReceiveCalc, Receive,
           ReceiveOther, Wait, busRegs
<1>5. pc = "WenLow" /\ UNCHANGED <<data_in, row_in, col_in>>
  BY <1>4 DEF WenLow, AtPC
<1>6. Slot(t)' = Addr(Cell) /\ data_in' = val
  BY <1>1, <1>3, <1>5, SlotIsAddr DEF Slot
<1>7. mem[Addr(Cell)] = val /\ Addr(Cell) \in Cells
  BY <1>1, <1>3, <1>5, <1>6, CellPlace DEF IInv, LoadInv, StoredCell
<1> QED
  BY <1>5, <1>6, <1>7, MemoryStep

\* With no request up, second_top is back in ready_s after one edge.
LEMMA QuietEdge ==
  ASSUME IInv, Next, ~start_cal_in, \A t \in Targets : ~wen[t]
  PROVE  state' = "ready_s"
<1>1. StepState /\ state \in States /\ state # "calc_s"
  BY EdgeStep DEF IPEdge, IInv, TypeOK, IPTypeOK, CalcInv
<1>2. CASE ReturnToReady \/ ~aresetn
  BY <1>1, <1>2 DEF StepState
<1>3. CASE state = "ready_s"
  BY <1>1, <1>3 DEF StepState, LeaveReady, Targets
<1>4. state # "ready_s" => ReturnToReady
  BY <1>1 DEF States, WriteStates, ReturnToReady
<1> QED
  BY <1>1, <1>2, <1>3, <1>4

\* A request for memory t takes second_top from ready_s to the write state of
\* t, and keeps it there.
LEMMA WriteEdge ==
  ASSUME IInv, Next, aresetn, Loading, pc \in {"PollDone", "WenLow"}
  PROVE  state \in {"ready_s", WriteState[job]} => state' = WriteState[job]
<1>1. StepState /\ TypeOK /\ BusInv
  BY EdgeStep DEF IPEdge, IInv
<1>2. job \in Targets /\ ~start_cal_in /\ \A t \in Targets : wen[t] <=> job = t
  BY <1>1 DEF BusInv, Loading, Targets
<1>3. CASE state = "ready_s"
  BY <1>1, <1>2, <1>3, WriteStateFacts
     DEF StepState, ReturnToReady, LeaveReady, Targets, WriteState
<1>4. CASE state = WriteState[job]
  BY <1>1, <1>2, <1>4, WriteStateFacts DEF StepState, ReturnToReady
<1> QED
  BY <1>3, <1>4

\* Where the driver is decides whether a request is up.
LEMMA QuietPlaces ==
  ASSUME TypeOK, BusInv,
         \/ pc \in {"Idle", "Data", "Row", "Col", "PollReady", "WenHigh", "StartHigh"}
         \/ Loading /\ pc \notin {"PollDone", "WenLow"}
  PROVE  ~start_cal_in /\ \A t \in Targets : ~wen[t]
<1>1. "calc" \notin Targets /\ job \in Targets \cup {"calc"}
  BY DEF TypeOK, Jobs, Targets
<1> QED
  BY <1>1 DEF BusInv, Loading

LEMMA LoadStep ==
  ASSUME IInv, Next
  PROVE  LoadInv'
<1> USE DEF Settled
<1>1. /\ TypeOK /\ BusInv /\ LoadInv /\ IPEdge /\ "calc" \notin Targets
      /\ (Loading <=> job # "calc")
  BY EdgeStep DEF IInv, TypeOK, Loading, Jobs, Targets
<1>2. /\ s_done' = done_out /\ s_ready' = ready_out
      /\ ready_out' = (state = "ready_s")
      /\ state = "ready_s" => ~done_out'
      /\ state = "calc_s" => (done_out' <=> eng = "handOff")
  BY <1>1, WriteStateFacts
     DEF IPEdge, SampleStatus, DriveOutputs, WriteStates, WriteState, Targets
<1>3. ~(ready_out /\ done_out)'
  BY <1>2
<1>4. CASE WriteData \/ Reset
  <2>1. CASE WriteData
    BY <1>1, <1>3, <2>1, QuietPlaces, QuietEdge
       DEF LoadInv, WriteData, AtPC, Loading
  <2>2. CASE Reset
    BY <1>3, <2>2 DEF LoadInv, Reset
  <2> QED
    BY <1>4, <2>1, <2>2
<1>5. CASE WriteRow \/ WriteCol \/ PollReady
  <2>1. /\ pc \in {"Row", "Col", "PollReady"}
        /\ pc' \in {"Col", "PollReady", "WenHigh", "StartHigh"}
        /\ UNCHANGED job /\ (pc' = "StartHigh" => job = "calc")
        /\ (pc' = "WenHigh" => job # "calc" /\ pc = "PollReady")
        /\ (pc' = "PollReady" => job # "calc")
        /\ (pc' # "StartHigh" => pc' # "PollReady" \/ Loading)
    BY <1>1, <1>5 DEF WriteRow, WriteCol, PollReady, AtPC, loop, TypeOK, CalcPCs
  <2>2. state' = "ready_s"
    BY <1>1, <2>1, QuietPlaces, QuietEdge
  <2>3. pc' # "StartHigh" => state = "ready_s"
    BY <1>1, <1>5, <2>1 DEF LoadInv, WriteRow, WriteCol, PollReady, AtPC
  <2> QED
    BY <1>2, <1>3, <2>1, <2>2, <2>3 DEF LoadInv
<1>6. CASE WenHigh
  <2>1. Loading /\ pc = "WenHigh" /\ pc' = "PollDone" /\ UNCHANGED job
    BY <1>1, <1>6 DEF WenHigh, AtPC, loop, TypeOK, CalcPCs
  <2>2. state' = "ready_s" /\ state = "ready_s" /\ ~done_out
    BY <1>1, <2>1, QuietPlaces, QuietEdge DEF LoadInv
  <2> QED
    BY <1>2, <1>3, <2>1, <2>2 DEF LoadInv
<1>7. CASE WenLow
  BY <1>1, <1>3, <1>7, AfterLoad DEF LoadInv, Loading
<1>8. CASE StartHigh \/ ReadAns \/ StartLow
  <2>1. ~Loading' /\ pc' \in {"PollDone", "StartLow", "Idle"}
    BY <1>1, <1>8 DEF StartHigh, ReadAns, StartLow, AtPC, loop, TypeOK, LoadPCs, Loading
  <2> QED
    BY <1>3, <2>1 DEF LoadInv
<1>9. CASE ReceiveImage \/ ReceiveWeights \/ ReceiveCalc \/ ReceiveOther
  <2>1. pc' \in {"Data", "PollReady", "Idle"} /\ (pc' = "PollReady" => ~Loading')
    BY <1>1, <1>9 DEF ReceiveImage, ReceiveWeights, ReceiveCalc, Receive,
       ReceiveOther, AtPC, Loading
  <2> QED
    BY <1>3, <2>1 DEF LoadInv
<1>10. CASE PollDone \/ Wait
  <2>1. aresetn /\ UNCHANGED <<job, i, j, val>>
    BY <1>10 DEF PollDone, Wait, AtPC, loop, cpu
  <2>2. CASE ~Loading
    BY <1>1, <1>2, <1>3, <1>10, <2>1, <2>2
       DEF LoadInv, PollDone, Wait, AtPC, cpu, Loading, TypeOK, CalcPCs
  <2>3. CASE Loading /\ pc \in {"PollDone", "WenLow"}
    <3>1. state \in {"ready_s", WriteState[job]}
      BY <1>1, <2>3 DEF LoadInv
    <3>2. state' = WriteState[job]
      BY <2>1, <2>3, <3>1, WriteEdge
    <3>3. state = WriteState[job] => done_out' /\ ~ready_out'
      BY <1>1, <2>3, WriteStateFacts DEF IPEdge, DriveOutputs, Loading
    <3>4. /\ pc = "PollDone" /\ state = WriteState[job] => StoredCell'
          /\ pc = "WenLow" => StoredCell'
      <4>1. /\ Cell \in Cells => Addr(Cell) \in Cells
            /\ Addr(Cell)' = Addr(Cell) /\ Cell' = Cell
        BY <2>1, AddrFacts DEF Addr, Cell, RowOf, ColOf
      <4> QED
        BY <1>1, <2>1, <2>3, <4>1, MemoryStep DEF StoredCell, LoadInv
    <3>5. CASE Wait
      BY <1>1, <1>2, <1>3, <2>1, <2>3, <3>2, <3>3, <3>4, <3>5
         DEF LoadInv, Wait, cpu, Loading
    <3>6. CASE PollDone
      <4>1. pc = "PollDone" /\ pc' = "WenLow" /\ s_done
        BY <1>1, <2>3, <3>6 DEF PollDone, AtPC
      <4>2. state = WriteState[job]
        BY <1>1, <2>3, <4>1 DEF LoadInv
      <4> QED
        BY <1>3, <2>1, <2>3, <3>2, <3>3, <3>4, <4>1, <4>2 DEF LoadInv, Loading
    <3> QED
      BY <1>10, <3>5, <3>6
  <2>4. CASE Loading /\ pc \notin {"PollDone", "WenLow"}
    <3>1. Wait /\ UNCHANGED pc
      BY <1>10, <2>4 DEF PollDone, Wait, AtPC, cpu
    <3>2. state' = "ready_s"
      BY <1>1, <2>4, QuietPlaces, QuietEdge
    <3> QED
      BY <1>1, <1>2, <1>3, <2>4, <3>1, <3>2 DEF LoadInv
  <2> QED
    BY <2>2, <2>3, <2>4
<1> QED
  BY <1>4, <1>5, <1>6, <1>7, <1>8, <1>9, <1>10, NextCases

\* Coming back to the main loop, or to the calculation of the boot load, the
\* readies still in the pipeline belong to the ready_s of now.
LEMMA IdleStep ==
  ASSUME IInv, Next
  PROVE  IdleInv'
<1> SUFFICES ASSUME pc' = "Idle" \/ (pc' = "PollReady" /\ ~Loading')
             PROVE  /\ ready_out' => state' = "ready_s"
                    /\ s_ready' => Settled'
  BY DEF IdleInv
<1>1. /\ TypeOK /\ BusInv /\ IPEdge /\ "calc" \notin Targets
      /\ (Loading <=> job # "calc")
  BY EdgeStep DEF IInv, TypeOK, Loading, Jobs, Targets
<1>2. /\ s_ready' = ready_out /\ ready_out' = (state = "ready_s")
      /\ state = "ready_s" => ~done_out'
  BY <1>1, WriteStateFacts
     DEF IPEdge, SampleStatus, DriveOutputs, WriteStates, WriteState, Targets
<1>3. CASE WenLow \/ StartLow
  <2>1. state # "ready_s" /\ ~ready_out
    BY <1>1, <1>3, AfterLoad, WriteStateFacts
       DEF IInv, LoadInv, CalcInv, WenLow, StartLow, AtPC, Loading
  <2> QED
    BY <1>2, <2>1
<1>4. CASE ~(WenLow \/ StartLow)
  <2>1. pc = "Idle" \/ (pc = "PollReady" /\ ~Loading)
    BY <1>1, <1>4, NextCases
       DEF WriteData, WriteRow, WriteCol, PollReady, WenHigh, PollDone, StartHigh,
           ReadAns, ReceiveImage, ReceiveWeights, ReceiveCalc, Receive,
           ReceiveOther, Wait, Reset, AtPC, loop, cpu, Loading, TypeOK, CalcPCs
  <2>2. state' = "ready_s"
    BY <1>1, <2>1, QuietPlaces, QuietEdge
  <2>3. ready_out => state = "ready_s"
    BY <2>1 DEF IInv, IdleInv
  <2> QED
    BY <1>2, <2>2, <2>3 DEF Settled
<1> QED
  BY <1>3, <1>4

\* The memories do not change while start_cal_in is up.
LEMMA CalcMemoryStep ==
  ASSUME IInv, Next, start_cal_in
  PROVE  mem' = mem
<1>1. state \notin WriteStates
  BY WriteStateFacts
     DEF IInv, BusInv, CalcInv, Settled, TypeOK, WriteStates, Loading, Targets, WriteState
<1> QED
  BY <1>1, MemoryStep

\* The three stages of a calculation: not entered, in calc_s, cleaning.
LEMMA CalcWaitStep ==
  ASSUME IInv, Next, aresetn, pc = "PollDone", ~Loading
  PROVE  \/ Settled' /\ ~s_done' /\ eng' = "idle"
         \/ /\ state' = "calc_s" /\ ~s_done' /\ clean_resetn'
            /\ done_out' => eng' = "handOff" /\ final_out' = Predict(mem)
         \/ /\ state' = "done_clean_s" /\ done_out'
            /\ final_out' = Predict(mem) /\ s_final' = Predict(mem)
<1>1. TypeOK /\ BusInv /\ CalcInv /\ IPEdge
  BY EdgeStep DEF IInv
<1>2. start_cal_in /\ \A t \in Targets : ~wen[t]
  BY <1>1 DEF BusInv, TypeOK, Jobs, Loading
<1>3. /\ s_done' = done_out /\ s_final' = final_out
      /\ clean_resetn' = (state # "done_clean_s")
      /\ state \notin WriteStates =>
           /\ done_out' = \/ state = "done_clean_s"
                          \/ state = "calc_s" /\ eng = "handOff"
           /\ final_out' = IF state = "calc_s" THEN calc_out ELSE final_out
  BY <1>1 DEF IPEdge, SampleStatus, DriveOutputs
<1>4. /\ clean_resetn /\ eng = "handOff" => eng' = "handOff"
      /\ done_out \in BOOLEAN /\ s_done \in BOOLEAN
      /\ {"ready_s", "calc_s", "done_clean_s"} \cap WriteStates = {}
  BY <1>1, WriteStateFacts DEF IPEdge, StepEngine, TypeOK, IPTypeOK, WriteStates
<1>5. CASE Settled /\ ~s_done /\ eng = "idle"
  <2>1. state' = "calc_s"
    BY <1>1, <1>2, <1>5, WriteStateFacts
       DEF IPEdge, StepState, ReturnToReady, LeaveReady, Targets, Settled
  <2> QED
    BY <1>3, <1>4, <1>5, <2>1 DEF Settled
<1>6. CASE /\ state = "calc_s" /\ ~s_done /\ clean_resetn
           /\ done_out => eng = "handOff" /\ final_out = Predict(mem)
  <2>1. state' = IF done_out THEN "done_clean_s" ELSE "calc_s"
    BY <1>1, <1>6, WriteStateFacts DEF IPEdge, StepState, ReturnToReady
  <2>2. CASE done_out
    BY <1>1, <1>3, <1>4, <1>6, <2>1, <2>2 DEF CalcInv
  <2>3. CASE ~done_out
    BY <1>1, <1>3, <1>4, <1>6, <2>1, <2>3 DEF CalcInv
  <2> QED
    BY <2>2, <2>3
<1>7. CASE /\ state = "done_clean_s" /\ done_out
           /\ final_out = Predict(mem) /\ s_final = Predict(mem)
  <2>1. state' = "done_clean_s"
    BY <1>1, <1>2, <1>7, WriteStateFacts DEF IPEdge, StepState, ReturnToReady
  <2> QED
    BY <1>3, <1>4, <1>7, <2>1
<1> QED
  BY <1>1, <1>5, <1>6, <1>7 DEF CalcInv

LEMMA CalcStep ==
  ASSUME IInv, Next
  PROVE  CalcInv'
<1>1. /\ TypeOK /\ BusInv /\ CalcInv /\ IPEdge /\ "calc" \notin Targets
      /\ (Loading <=> job # "calc") /\ BusInv'
  BY EdgeStep, BusStep DEF IInv, TypeOK, Loading, Jobs, Targets
<1>2. /\ s_final' = final_out /\ clean_resetn' = (state # "done_clean_s")
      /\ ready_out' = (state = "ready_s")
      /\ state = "ready_s" => ~done_out'
  BY <1>1, WriteStateFacts
     DEF IPEdge, SampleStatus, DriveOutputs, WriteStates, WriteState, Targets
<1>3. pc' = "StartHigh" => Settled'
  <2> SUFFICES ASSUME pc' = "StartHigh" PROVE Settled'
    OBVIOUS
  <2>1. \/ pc = "PollReady" /\ s_ready /\ ~Loading
        \/ pc = "StartHigh"
    BY <1>1, NextCases, AfterLoad
       DEF WriteData, WriteRow, WriteCol, PollReady, WenHigh, PollDone, StartHigh,
           ReadAns, StartLow, ReceiveImage, ReceiveWeights, ReceiveCalc, Receive,
           ReceiveOther, Wait, Reset, AtPC, loop, cpu, Loading, TypeOK, CalcPCs
  <2>2. state = "ready_s"
    BY <2>1 DEF IInv, IdleInv, CalcInv, Settled
  <2>3. state' = "ready_s"
    BY <1>1, <2>1, QuietPlaces, QuietEdge
  <2> QED
    BY <1>2, <2>2, <2>3 DEF Settled
<1>4. state' = "calc_s" => start_cal_in'
  <2> SUFFICES ASSUME state' = "calc_s" PROVE start_cal_in'
    OBVIOUS
  <2>1. start_cal_in
    BY <1>1, WriteStateFacts
       DEF IPEdge, StepState, LeaveReady, CalcInv
  <2>2. aresetn /\ state # "done_clean_s"
    BY <1>1 DEF IPEdge, StepState
  <2>3. ~StartLow
    BY <2>2 DEF IInv, CalcInv, StartLow, AtPC
  <2> QED
    BY <2>1, <2>2, <2>3, NextCases
       DEF WriteData, WriteRow, WriteCol, PollReady, WenHigh, PollDone, WenLow,
           StartHigh, ReadAns, ReceiveImage, ReceiveWeights, ReceiveCalc, Receive,
           ReceiveOther, Wait, Reset, AtPC, busRegs
<1>5. eng' # "idle" => start_cal_in'
  <2> SUFFICES ASSUME eng' # "idle" PROVE start_cal_in'
    OBVIOUS
  <2>1. aresetn /\ clean_resetn /\ start_cal_in
    BY <1>1 DEF IPEdge, StepEngine, CalcInv
  <2>2. ~StartLow
    BY <2>1 DEF IInv, CalcInv, StartLow, AtPC
  <2> QED
    BY <2>1, <2>2, NextCases
       DEF WriteData, WriteRow, WriteCol, PollReady, WenHigh, PollDone, WenLow,
           StartHigh, ReadAns, ReceiveImage, ReceiveWeights, ReceiveCalc, Receive,
           ReceiveOther, Wait, Reset, AtPC, busRegs
<1>6. eng' = "handOff" => calc_out' = Predict(mem')
  <2> SUFFICES ASSUME eng' = "handOff" PROVE calc_out' = Predict(mem')
    OBVIOUS
  <2>1. eng \in {"run", "handOff"} /\ calc_out' = Predict(mem)
    BY <1>1 DEF IPEdge, StepEngine, CalcInv
  <2>2. mem' = mem
    BY <1>1, <2>1, CalcMemoryStep DEF CalcInv
  <2> QED
    BY <2>1, <2>2
<1>7. ASSUME pc' = "PollDone", ~Loading'
      PROVE  \/ Settled' /\ ~s_done' /\ eng' = "idle"
             \/ /\ state' = "calc_s" /\ ~s_done' /\ clean_resetn'
                /\ done_out' => eng' = "handOff" /\ final_out' = Predict(mem')
             \/ /\ state' = "done_clean_s" /\ done_out'
                /\ final_out' = Predict(mem') /\ s_final' = Predict(mem')
  <2>1. \/ StartHigh
        \/ aresetn /\ pc = "PollDone" /\ ~Loading
    BY <1>1, <1>7, NextCases, AfterLoad
       DEF WriteData, WriteRow, WriteCol, PollReady, WenHigh, PollDone, StartHigh,
           ReadAns, StartLow, ReceiveImage, ReceiveWeights, ReceiveCalc, Receive,
           ReceiveOther, Wait, Reset, AtPC, loop, cpu, Loading, TypeOK, CalcPCs
  <2>2. CASE StartHigh
    <3>1. pc = "StartHigh" /\ Settled /\ eng = "idle" /\ ~start_cal_in
      BY <1>1, <2>2, QuietPlaces DEF StartHigh, AtPC, CalcInv
    <3>2. state' = "ready_s"
      BY <1>1, <3>1, QuietPlaces, QuietEdge
    <3>3. eng' = "idle" /\ ~s_done'
      BY <1>1, <3>1 DEF IPEdge, StepEngine, SampleStatus, Settled
    <3> QED
      BY <1>2, <3>1, <3>2, <3>3 DEF Settled
  <2>3. CASE aresetn /\ pc = "PollDone" /\ ~Loading
    <3>1. start_cal_in
      BY <1>1, <2>3 DEF BusInv
    <3>2. mem' = mem
      BY <3>1, CalcMemoryStep
    <3> QED
      BY <2>3, <3>2, CalcWaitStep
  <2> QED
    BY <2>1, <2>2, <2>3
<1>8. ASSUME pc' \in {"ReadAns", "StartLow"}
      PROVE  /\ state' = "done_clean_s" /\ ~clean_resetn'
             /\ pc' = "ReadAns" =>
                  final_out' = Predict(mem') /\ s_final' = Predict(mem')
             /\ pc' = "StartLow" => ~ready_out' /\ eng' = "idle" /\ ans' = Predict(mem')
  <2>1. /\ aresetn /\ ~Loading /\ start_cal_in
        /\ \/ PollDone /\ pc = "PollDone" /\ s_done /\ pc' = "ReadAns"
           \/ ReadAns /\ pc = "ReadAns" /\ pc' = "StartLow"
           \/ Wait /\ pc' = pc /\ ans' = ans
    BY <1>1, <1>8, NextCases, AfterLoad
       DEF WriteData, WriteRow, WriteCol, PollReady, WenHigh, PollDone, StartHigh,
           ReadAns, StartLow, ReceiveImage, ReceiveWeights, ReceiveCalc, Receive,
           ReceiveOther, Wait, Reset, AtPC, loop, cpu, BusInv, Loading, TypeOK, LoadPCs
  <2>2. /\ state = "done_clean_s"
        /\ pc = "PollDone" => final_out = Predict(mem)
        /\ pc = "ReadAns" => /\ ~clean_resetn /\ s_final = Predict(mem)
                             /\ final_out = Predict(mem)
        /\ pc = "StartLow" => ~clean_resetn /\ ans = Predict(mem) /\ eng = "idle"
    BY <1>1, <1>8, <2>1 DEF CalcInv, Settled
  <2>3. state' = "done_clean_s" /\ mem' = mem /\ final_out' = final_out
    BY <1>1, <2>1, <2>2, CalcMemoryStep, WriteStateFacts
       DEF IPEdge, StepState, ReturnToReady, DriveOutputs, WriteStates
  <2>4. ~clean_resetn => eng' = "idle"
    BY <1>1 DEF IPEdge, StepEngine
  <2> QED
    BY <1>1, <1>2, <1>8, <2>1, <2>2, <2>3, <2>4 DEF ReadAns, IInv
<1> QED
  BY <1>3, <1>4, <1>5, <1>6, <1>7, <1>8 DEF CalcInv

\* Acknowledged numbers stay in their places.
LEMMA AcknowledgedStep ==
  ASSUME IInv, Next
  PROVE  AcknowledgedIsStored'
<1> SUFFICES ASSUME NEW c \in Cells, c \notin dirty'
             PROVE  mem'[Addr(c)] = sent'[c]
  BY DEF AcknowledgedIsStored, Addr, RowOf, ColOf
<1>1. TypeOK /\ BusInv /\ HistoryInv /\ LoadInv /\ Addr(c) \in Cells
      /\ (Loading <=> job # "calc")
  BY AddrFacts DEF IInv, TypeOK, Loading, Jobs, Targets
<1>2. mem'[Addr(c)] # mem[Addr(c)] => pc = "PollDone" /\ Loading /\ c = Cell
  BY <1>1, MemoryStep, CellOfAddr
<1>3. CASE PollDone /\ Loading
  <2>1. /\ pc = "PollDone" /\ dirty' = dirty \ {Cell}
        /\ sent'[c] = IF c = Cell THEN val ELSE sent[c]
    BY <1>1, <1>3 DEF PollDone, AtPC, Loading
  <2>2. state = WriteState[job]
    BY <1>1, <1>3, <2>1 DEF LoadInv, PollDone
  <2>3. CASE c = Cell
    BY <1>1, <1>3, <2>1, <2>2, <2>3, MemoryStep DEF TypeOK
  <2>4. CASE c # Cell
    BY <1>1, <1>2, <2>1, <2>4 DEF HistoryInv, AcknowledgedIsStored, TypeOK
  <2> QED
    BY <2>3, <2>4
<1>4. CASE ~(PollDone /\ Loading)
  <2>1. sent' = sent /\ dirty \subseteq dirty'
    BY <1>1, <1>4, NextCases
       DEF WriteData, WriteRow, WriteCol, PollReady, WenHigh, PollDone, WenLow,
           StartHigh, ReadAns, StartLow, ReceiveImage, ReceiveWeights, ReceiveCalc,
           Receive, ReceiveOther, Wait, Reset, hist
  <2>2. mem[Addr(c)] = sent[c]
    BY <2>1 DEF IInv, HistoryInv, AcknowledgedIsStored
  <2>3. c # Cell \/ ~(pc = "PollDone" /\ Loading)
    BY <1>1, <2>1 DEF HistoryInv
  <2> QED
    BY <1>2, <2>1, <2>2, <2>3
<1> QED
  BY <1>3, <1>4

\* The order of the boot load: what is still to come after a number, less the
\* number itself, is what is still to come at the next place.
LEMMA StillToComeNext ==
  ASSUME TypeOK, WenLow, booting, rowEnd = Rows[job],
         NEW c \in Cells, StillToCome(c), c # Cell
  PROVE  StillToCome(c)'
<1> DEFINE Next1 == j + 1 < Cols[job]
           Next2 == j + 1 = Cols[job] /\ i + 1 < rowEnd
           Next3 == j + 1 = Cols[job] /\ i + 1 = rowEnd
<1>1. /\ job \in Targets /\ i \in Int /\ j \in Nat /\ NextNumber
      /\ i < rowEnd /\ j < Cols[job]
  BY DEF WenLow, AtPC, TypeOK, Jobs, CalcPCs
<1>2. /\ c[1] \in Targets /\ c[2] \in Nat /\ c[3] \in Nat
      /\ c[2] < Rows[c[1]] /\ c[3] < Cols[c[1]]
      /\ ~(c[1] = job /\ c[2] = i /\ c[3] = j)
      /\ Rows[c[1]] \in Nat /\ Cols[c[1]] \in Nat
  BY CellsFacts, DimFacts DEF Cell
<1>3. CASE Next1
  BY <1>1, <1>2, <1>3, DimFacts DEF NextNumber, StillToCome
<1>4. CASE Next2
  BY <1>1, <1>2, <1>4, DimFacts DEF NextNumber, StillToCome
<1>5. CASE Next3
  <2>1. NextBootJob /\ c[1] # job
    <3>1. ASSUME c[1] = job PROVE FALSE
      <4>1. c[2] < i + 1 /\ c[3] < j + 1
        BY <1>2, <1>5, <3>1
      <4>2. c[2] > i \/ (c[2] = i /\ c[3] >= j)
        BY <3>1, <1>1 DEF StillToCome, Rank, Targets
      <4> QED
        BY <1>1, <1>2, <3>1, <4>1, <4>2
    <3>2. NextBootJob
      BY <1>1, <1>5 DEF NextNumber
    <3> QED
      BY <3>1, <3>2
  <2>2. Rank[c[1]] > Rank[job]
    BY <2>1 DEF StillToCome
  <2> QED
    BY <1>1, <1>2, <2>1, <2>2 DEF NextBootJob, StillToCome, Rank, Targets
<1> QED
  BY <1>1, <1>3, <1>4, <1>5, DimFacts DEF NextNumber

\* A number may be half written only while its write is open, or, after a
\* reset, until the boot load has come to it again.
LEMMA DirtyStep ==
  ASSUME IInv, Next
  PROVE  /\ booting' =>
              /\ pc' # "Idle"
              /\ Loading' => rowEnd' = Rows[job']
              /\ \A c \in dirty' : StillToCome(c)'
         /\ ~booting' =>
              dirty' \subseteq (IF pc' = "PollDone" /\ Loading' THEN {Cell'} ELSE {})
<1>1. TypeOK /\ HistoryInv /\ (Loading <=> job # "calc") /\ "calc" \notin Targets
      /\ dirty \subseteq Cells
  BY DEF IInv, TypeOK, Loading, Jobs, Targets
<1>2. CASE WenHigh
  <2>1. /\ Loading /\ dirty' \subseteq dirty \cup {Cell}
        /\ pc = "WenHigh" /\ pc' = "PollDone"
        /\ UNCHANGED <<job, i, j, rowEnd, booting>>
    BY <1>1, <1>2 DEF WenHigh, AtPC, TypeOK, CalcPCs, loop
  <2>2. StillToCome(Cell)
    BY <1>1 DEF StillToCome, Cell, TypeOK
  <2> QED
    BY <1>1, <2>1, <2>2 DEF HistoryInv, StillToCome, Cell, Loading
<1>3. CASE WenLow
  <2>1. pc = "WenLow" /\ Loading /\ UNCHANGED <<dirty, booting>> /\ Cell \notin dirty
    BY <1>1, <1>3, AfterLoad DEF WenLow, AtPC, hist, HistoryInv
  <2>2. CASE booting
    <3>1. \A c \in dirty' : StillToCome(c)'
      BY <1>1, <1>3, <2>1, <2>2, StillToComeNext DEF HistoryInv
    <3>2. Loading' => rowEnd' = Rows[job']
      BY <1>1, <1>3, <2>1, <2>2
         DEF HistoryInv, WenLow, NextNumber, NextBootJob, Loading, Targets
    <3>3. pc' # "Idle" /\ booting' = TRUE
      BY <1>1, <1>3, <2>1, <2>2, AfterLoad DEF TypeOK
    <3> QED
      BY <3>1, <3>2, <3>3
  <2>3. CASE ~booting
    BY <1>1, <2>1, <2>3 DEF HistoryInv
  <2> QED
    BY <2>2, <2>3
<1>4. CASE PollDone
  BY <1>1, <1>4 DEF PollDone, AtPC, HistoryInv, hist, loop, StillToCome, Cell, Loading
<1>5. CASE Reset
  <2>1. job' = "image" /\ i' = 0 /\ j' = 0 /\ dirty' = dirty /\ booting'
        /\ rowEnd' = Rows["image"] /\ pc' = "Data"
    BY <1>5, DimFacts DEF Reset, hist
  <2>2. ASSUME NEW c \in dirty PROVE StillToCome(c)'
    BY <1>1, <2>1, CellsFacts DEF StillToCome, Rank, Targets
  <2> QED
    BY <2>1, <2>2
<1>6. CASE StartLow
  <2>1. job = "calc" /\ pc = "StartLow" /\ dirty' = dirty /\ booting' = FALSE
    BY <1>1, <1>6 DEF StartLow, AtPC, TypeOK, LoadPCs, hist
  <2>2. dirty = {}
    BY <1>1, <2>1, CellsFacts DEF HistoryInv, StillToCome, Rank, Targets, TypeOK
  <2> QED
    BY <2>1, <2>2
<1>7. CASE ReceiveImage \/ ReceiveWeights \/ ReceiveCalc \/ ReceiveOther
  BY <1>1, <1>7 DEF ReceiveImage, ReceiveWeights, ReceiveCalc, Receive, ReceiveOther,
     AtPC, HistoryInv, hist
<1>8. CASE \/ WriteData \/ WriteRow \/ WriteCol \/ PollReady \/ StartHigh
           \/ ReadAns \/ Wait
  <2>1. /\ UNCHANGED <<job, i, j, rowEnd, booting, dirty>>
        /\ UNCHANGED pc \/ (pc # "PollDone" /\ pc' # "Idle")
    BY <1>8 DEF WriteData, WriteRow, WriteCol, PollReady, StartHigh, ReadAns, Wait,
       AtPC, loop, hist, cpu
  <2> QED
    BY <1>1, <2>1 DEF HistoryInv, StillToCome, Cell, Loading
<1> QED
  BY <1>2, <1>3, <1>4, <1>5, <1>6, <1>7, <1>8, NextCases

LEMMA HistoryStep ==
  ASSUME IInv, Next
  PROVE  HistoryInv'
<1>1. TypeOK /\ HistoryInv /\ (Loading <=> job # "calc") /\ "calc" \notin Targets
  BY DEF IInv, TypeOK, Loading, Jobs, Targets
<1>2. pc' = "PollDone" /\ Loading' /\ Cell' \in Cells => Cell' \in dirty'
  BY <1>1, NextCases, AfterLoad
     DEF WriteData, WriteRow, WriteCol, PollReady, WenHigh, PollDone, WenLow,
         StartHigh, ReadAns, StartLow, ReceiveImage, ReceiveWeights, ReceiveCalc,
         Receive, ReceiveOther, Wait, Reset, AtPC, hist, loop, cpu, Cell, Loading,
         HistoryInv, TypeOK, LoadPCs
<1>3. pc' = "WenLow" => Cell' \notin dirty'
  BY <1>1, NextCases, AfterLoad
     DEF WriteData, WriteRow, WriteCol, PollReady, WenHigh, PollDone, WenLow,
         StartHigh, ReadAns, StartLow, ReceiveImage, ReceiveWeights, ReceiveCalc,
         Receive, ReceiveOther, Wait, Reset, AtPC, hist, loop, cpu, Cell, Loading,
         HistoryInv
<1> QED
  BY <1>2, <1>3, AcknowledgedStep, DirtyStep DEF HistoryInv

----------------------------------------------------------------------------
(* The invariant and what follows from it *)

\* The power-on state satisfies the inductive invariant.
LEMMA InitIInv == Init => IInv
<1> SUFFICES ASSUME Init PROVE IInv
  OBVIOUS
<1>1. IPTypeOK
  <2>1. 0 \in Answers /\ Zero \in Data /\ 0 \in Int /\ 0 \in Nat
    BY DataAssumption, PredictAssumption
  <2> QED
    BY <2>1 DEF Init, IPInit, IPTypeOK, States
<1>2. TypeOK
  BY <1>1, DataAssumption, DimAssumption, DimFacts
     DEF Init, TypeOK, Jobs, Targets, LoadPCs
<1>3. state = "ready_s" /\ eng = "idle" /\ pc = "Data" /\ booting = TRUE /\ dirty = {}
      /\ job = "image" /\ ~done_out /\ ~start_cal_in /\ \A t \in Targets : ~wen[t]
  BY DEF Init, IPInit
<1>4. BusInv /\ ReleasedInv /\ LoadInv /\ IdleInv /\ CalcInv
  BY <1>3, WriteStateFacts
     DEF BusInv, ReleasedInv, LoadInv, IdleInv, CalcInv
<1>5. AcknowledgedIsStored
  BY AddrFacts DEF Init, IPInit, AcknowledgedIsStored
<1>6. HistoryInv
  BY <1>3, <1>5, DimFacts DEF Init, HistoryInv
<1> QED
  BY <1>2, <1>4, <1>6 DEF IInv

\* Every step keeps the inductive invariant.
LEMMA NextIInv == IInv /\ [Next]_vars => IInv'
<1> SUFFICES ASSUME IInv, [Next]_vars PROVE IInv'
  OBVIOUS
<1>1. CASE Next
  BY <1>1, TypeStep, BusStep, ReleasedStep, LoadStep, IdleStep, CalcStep,
     HistoryStep DEF IInv
<1>2. CASE UNCHANGED vars
  BY <1>2 DEF vars, ipVars, busRegs, ipRegs, cpu, loop, hist, IInv, TypeOK, IPTypeOK,
     BusInv, ReleasedInv, LoadInv, IdleInv, CalcInv, HistoryInv,
     AcknowledgedIsStored, Settled, StoredCell, StillToCome, Loading, Cell, RowOf,
     ColOf, Addr, Slot
<1> QED
  BY <1>1, <1>2

\* The inductive invariant holds in every reachable state.
THEOREM Invariance == Spec => []IInv
<1> QED
  BY InitIInv, NextIInv, PTL DEF Spec

\* Registers, memories and program variables keep their types, and the loops
\* over the weights stay inside their memories.  Those over the image do not:
\* nothing is assumed of what an uninitialised row_start holds.
THEOREM TypeCorrect == Spec => []TypeOK
<1>1. IInv => TypeOK
  BY DEF IInv
<1> QED
  BY <1>1, Invariance, PTL

\* A number whose write was acknowledged by done stays in its place in memory
\* with the value acknowledged last, whatever is written, calculated or reset.
THEOREM AcknowledgedStays == Spec => []AcknowledgedIsStored
<1>1. IInv => AcknowledgedIsStored
  BY DEF IInv, HistoryInv
<1> QED
  BY <1>1, Invariance, PTL

\* A calculation never starts while a number is half written.
THEOREM CalculationComplete == Spec => []CalculatesOnLoadedNetwork
<1>1. IInv => CalculatesOnLoadedNetwork
  <2> SUFFICES ASSUME IInv, job = "calc" PROVE dirty = {}
    BY DEF CalculatesOnLoadedNetwork
  <2>1. "calc" \notin Targets /\ TypeOK /\ HistoryInv
    BY DEF IInv, Targets
  <2>2. CASE booting
    BY <2>1, <2>2, CellsFacts DEF HistoryInv, StillToCome, Rank, Targets, TypeOK
  <2>3. CASE ~booting
    BY <2>1, <2>3 DEF HistoryInv, Loading
  <2> QED
    BY <2>2, <2>3
<1> QED
  BY <1>1, Invariance, PTL

\* The answer that echo.c reads is the answer for the memories as they are.
THEOREM AnswerCorrect == Spec => []AnswerIsCurrent
<1>1. IInv => AnswerIsCurrent
  BY DEF IInv, CalcInv, AnswerIsCurrent
<1> QED
  BY <1>1, Invariance, PTL

\* The layers never see a memory word change while they run.
THEOREM MemoryStable == Spec => MemoryStableWhileRunning
<1>1. IInv /\ [Next]_vars => [eng = "run" => UNCHANGED mem]_vars
  <2> SUFFICES ASSUME IInv, Next, eng = "run" PROVE UNCHANGED mem
    OBVIOUS
  <2>1. start_cal_in
    BY DEF IInv, CalcInv
  <2> QED
    BY <2>1, CalcMemoryStep
<1> QED
  BY <1>1, Invariance, PTL DEF Spec, MemoryStableWhileRunning

\* Only the word the driver waits for changes, and to the value it sends.
THEOREM OnlyAwaited == Spec => OnlyAwaitedWordChanges
<1> DEFINE Awaited == \A c \in Cells : mem'[Addr(c)] # mem[Addr(c)] =>
                        pc = "PollDone" /\ c = Cell /\ mem'[Addr(c)] = val
<1>1. IInv /\ [Next]_vars => [Awaited]_vars
  <2> SUFFICES ASSUME IInv, Next PROVE Awaited
    OBVIOUS
  <2> QED
    BY MemoryStep, CellOfAddr, AddrFacts DEF IInv
<1> QED
  BY <1>1, Invariance, PTL DEF Spec, OnlyAwaitedWordChanges

\* second_top enters calc_s with cleared layers and no done standing.
THEOREM StartsClean == Spec => CalcStartsClean
<1> DEFINE Clean == state # "calc_s" /\ state' = "calc_s" => eng = "idle" /\ ~done_out
<1>1. IInv /\ [Next]_vars => [Clean]_vars
  <2> SUFFICES ASSUME IInv, Next, state # "calc_s", state' = "calc_s"
               PROVE  eng = "idle" /\ ~done_out
    OBVIOUS
  <2>1. StepState /\ TypeOK /\ BusInv /\ CalcInv
    BY EdgeStep DEF IPEdge, IInv
  <2>2. state = "ready_s" /\ start_cal_in
    BY <2>1, WriteStateFacts DEF StepState, LeaveReady
  <2>3. pc = "PollDone" /\ ~Loading
    BY <2>1, <2>2 DEF BusInv, CalcInv, Loading, Targets
  <2> QED
    BY <2>1, <2>2, <2>3 DEF CalcInv, Settled
<1> QED
  BY <1>1, Invariance, PTL DEF Spec, CalcStartsClean

----------------------------------------------------------------------------
(* Refinement of the prediction service *)

\* Transposing twice gives the number back.
LEMMA AddrInvolution == \A c \in Cells : Addr(Addr(c)) = c
BY CellsFacts DEF Addr, RowOf, ColOf

\* When nothing is half written the memories hold the numbers sent.
LEMMA MemoryIsSent ==
  ASSUME TypeOK, AcknowledgedIsStored, dirty = {}
  PROVE  mem = [c \in Cells |-> sent[Addr(c)]]
<1>1. mem \in [Cells -> Data]
  BY DEF TypeOK, IPTypeOK
<1>2. \A c \in Cells : mem[c] = sent[Addr(c)]
  BY AddrFacts, AddrInvolution DEF AcknowledgedIsStored
<1> QED
  BY <1>1, <1>2

\* A step of the system is a step of the service or leaves it unchanged.
LEMMA ServiceStep ==
  ASSUME IInv, Next
  PROVE  [Service!Next]_(Service!serviceVars)
<1> USE DEF Service!serviceVars, Service!Next, Phase
<1>1. TypeOK /\ HistoryInv /\ CalcInv /\ (Loading <=> job # "calc")
  BY DEF IInv, TypeOK, Loading, Jobs, Targets
<1>2. CASE PollDone /\ Loading
  <2>1. /\ pc = "PollDone" /\ pc' = "WenLow" /\ UNCHANGED <<job, ans>>
        /\ sent' = [c \in Cells |-> IF c = Cell THEN val ELSE sent[c]]
        /\ val \in Data /\ sent \in [Cells -> Data]
    BY <1>1, <1>2 DEF PollDone, AtPC, Loading, loop, TypeOK
  <2>2. CASE Cell \in Cells
    <3>1. sent' = [sent EXCEPT ![Cell] = val]
      BY <2>1, <2>2
    <3>2. Service!Load(Cell, val)
      BY <1>1, <1>2, <2>1, <3>1 DEF Service!Load
    <3> QED
      BY <2>1, <2>2, <3>2
  <2>3. CASE Cell \notin Cells
    <3>1. sent' = sent
      BY <2>1, <2>3
    <3> QED
      BY <1>1, <1>2, <2>1, <3>1
  <2> QED
    BY <2>2, <2>3
<1>3. CASE ReadAns
  <2>1. /\ pc = "ReadAns" /\ pc' = "StartLow" /\ job = "calc" /\ UNCHANGED <<job, sent>>
        /\ ans' = s_final
    BY <1>1, <1>3 DEF ReadAns, AtPC, loop, hist, TypeOK, LoadPCs
  <2>2. dirty = {}
    BY <1>1, <2>1, CellsFacts
       DEF HistoryInv, StillToCome, Rank, Targets, TypeOK, Loading
  <2>3. ans' = ClassifySent(sent)
    BY <1>1, <2>1, <2>2, MemoryIsSent DEF CalcInv, ClassifySent, HistoryInv
  <2>4. Service!Infer
    BY <2>1, <2>3 DEF Service!Infer
  <2> QED
    BY <2>4
<1>4. CASE Reset
  BY <1>4 DEF Reset, hist, Service!Restart
<1>5. CASE WenLow
  <2>1. /\ UNCHANGED <<sent, ans>> /\ Phase = "ready"
        /\ Phase' \in {"ready", "calculating"}
    BY <1>1, <1>5, AfterLoad DEF WenLow, AtPC, hist
  <2> QED
    BY <2>1 DEF Service!Begin
<1>6. CASE StartLow
  BY <1>1, <1>6 DEF StartLow, AtPC, hist, loop, Service!Finish
<1>7. CASE ReceiveImage \/ ReceiveWeights \/ ReceiveCalc \/ ReceiveOther
  <2>1. /\ UNCHANGED <<sent, ans>> /\ Phase = "ready"
        /\ Phase' \in {"ready", "calculating"}
    BY <1>1, <1>7 DEF ReceiveImage, ReceiveWeights, ReceiveCalc, Receive,
       ReceiveOther, AtPC, hist, loop
  <2> QED
    BY <2>1 DEF Service!Begin
<1>8. CASE \/ WriteData \/ WriteRow \/ WriteCol \/ PollReady \/ WenHigh
           \/ (PollDone /\ ~Loading) \/ StartHigh \/ Wait
  <2>1. UNCHANGED <<sent, ans, Phase>>
    BY <1>1, <1>8 DEF WriteData, WriteRow, WriteCol, PollReady, WenHigh, PollDone,
       StartHigh, Wait, AtPC, hist, loop, cpu, Loading, TypeOK, CalcPCs, LoadPCs
  <2> QED
    BY <2>1
<1> QED
  BY <1>2, <1>3, <1>4, <1>5, <1>6, <1>7, <1>8, NextCases

\* The system implements the prediction service.
THEOREM Refinement == Spec => ImplementsService
<1>1. Init => Service!Init
  BY DEF Init, Service!Init, Phase
<1>2. IInv /\ [Next]_vars => [Service!Next]_(Service!serviceVars)
  <2> SUFFICES ASSUME IInv, [Next]_vars
               PROVE  [Service!Next]_(Service!serviceVars)
    OBVIOUS
  <2>1. CASE Next
    BY <2>1, ServiceStep
  <2>2. CASE UNCHANGED vars
    BY <2>2 DEF vars, cpu, loop, hist, Service!serviceVars, Phase
  <2> QED
    BY <2>1, <2>2
<1> QED
  BY <1>1, <1>2, Invariance, PTL DEF Spec, Service!Spec, ImplementsService

=============================================================================
