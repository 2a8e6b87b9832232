------------------------------ MODULE NNAccel ------------------------------
(***************************************************************************)
(* The AXI peripheral axi_noweights as its driver sees it: the user        *)
(* registers of the AXI4-Lite slave (axi_noweights_v1_0_S00_AXI.v), the    *)
(* control state machine and the memories of second_top.sv, and the        *)
(* network of topLevel.sv abstracted to an engine that hands an answer off *)
(* some clock edges after it was started.                                  *)
(*                                                                         *)
(* Every action of the system is one rising edge of the AXI clock.  All    *)
(* the registers read, at that edge, the values from before it: that is    *)
(* what the synthesised always blocks do.  The operators below give the    *)
(* part of an edge that the peripheral takes by itself; what the bus does  *)
(* to the writable registers is left to the module that EXTENDS this one.  *)
(***************************************************************************)
EXTENDS Integers

CONSTANTS
    ImageRows, ImageCols,   \* size of the image memory        (28 x 28)
    Conv1Dim, Conv2Dim,     \* sides of the weight memories    (7 and 2)
    LinDim,                 \* length of the linear weights    (10)
    Data,                   \* the words a memory cell can hold
    Zero,                   \* the word of an unwritten cell   (32'b0)
    Answers,                \* the class numbers the network can answer
    Predict(_)              \* the answer for given contents of the memories

Targets == {"image", "conv1", "conv2", "lin"}

Rows == [image |-> ImageRows, conv1 |-> Conv1Dim,
         conv2 |-> Conv2Dim, lin |-> LinDim]
Cols == [image |-> ImageCols, conv1 |-> Conv1Dim,
         conv2 |-> Conv2Dim, lin |-> 1]

\* One word of one memory: the memory, its row, its column.
Cells == UNION {{t} \X (0 .. Rows[t] - 1) \X (0 .. Cols[t] - 1) : t \in Targets}

ASSUME DimAssumption ==
    /\ {ImageRows, ImageCols, Conv1Dim, Conv2Dim, LinDim} \subseteq Nat \ {0}
ASSUME DataAssumption    == Zero \in Data
ASSUME PredictAssumption ==
    /\ 0 \in Answers
    /\ \A m \in [Cells -> Data] : Predict(m) \in Answers

VARIABLES
    aresetn,                                    \* system reset, active low
    data_in, row_in, col_in, wen, start_cal_in, \* registers the driver writes
    s_final, s_done, s_ready,                   \* registers the driver reads
    state, clean_resetn, ready_out, done_out, final_out, mem,  \* second_top
    eng, calc_out                               \* topLevel

busRegs  == <<data_in, row_in, col_in, wen, start_cal_in>>
ipRegs   == <<s_final, s_done, s_ready, state, clean_resetn,
              ready_out, done_out, final_out, mem, eng, calc_out>>
ipVars   == <<aresetn, busRegs, ipRegs>>

WriteState == [image |-> "img_write_s",  conv1 |-> "con1_write_s",
               conv2 |-> "con2_write_s", lin   |-> "lin_write_s"]
WriteStates == {WriteState[t] : t \in Targets}
States == WriteStates \cup {"ready_s", "calc_s", "done_clean_s"}

IPTypeOK ==
    /\ aresetn \in BOOLEAN /\ clean_resetn \in BOOLEAN
    /\ data_in \in Data /\ row_in \in Int /\ col_in \in Nat
    /\ wen \in [Targets -> BOOLEAN] /\ start_cal_in \in BOOLEAN
    /\ {s_done, s_ready, ready_out, done_out} \subseteq BOOLEAN
    /\ {s_final, final_out, calc_out} \subseteq Answers
    /\ state \in States
    /\ mem \in [Cells -> Data]
    /\ eng \in {"idle", "run", "handOff"}

\* Configured flip-flops without an initial value come up as zero, with the
\* reset asserted.
IPInit ==
    /\ aresetn = FALSE
    /\ data_in = Zero /\ row_in = 0 /\ col_in = 0
    /\ wen = [t \in Targets |-> FALSE] /\ start_cal_in = FALSE
    /\ s_final = 0 /\ s_done = FALSE /\ s_ready = FALSE
    /\ state = "ready_s" /\ clean_resetn = FALSE
    /\ ready_out = FALSE /\ done_out = FALSE /\ final_out = 0
    /\ mem = [c \in Cells |-> Zero]
    /\ eng = "idle" /\ calc_out = 0

----------------------------------------------------------------------------
(* One clock edge of the peripheral *)

\* The read-only user registers follow second_top by one edge.
SampleStatus ==
    /\ s_final' = final_out
    /\ s_done'  = done_out
    /\ s_ready' = ready_out

\* Where a write state of memory t stores data_in.  The linear weights have
\* no column; an address outside the memory stores nothing.  The 32 bits of
\* row_in are read as the int echo.c wrote: a negative row is far outside.
Slot(t) == <<t, row_in, IF t = "lin" THEN 0 ELSE col_in>>

StoreWord ==
    mem' = [c \in Cells |->
              IF \E t \in Targets : state = WriteState[t] /\ c = Slot(t)
              THEN data_in ELSE mem[c]]

DriveOutputs ==
    /\ clean_resetn' = (state # "done_clean_s")
    /\ ready_out' = (state = "ready_s")
    /\ done_out' = \/ state \in WriteStates \cup {"done_clean_s"}
                   \/ state = "calc_s" /\ eng = "handOff"
    /\ final_out' = IF state \in WriteStates THEN 0
                    ELSE IF state = "calc_s" THEN calc_out ELSE final_out
    /\ StoreWord

\* From ready_s the image comes first, then the calculation, then the weights.
LeaveReady ==
    IF      wen["image"] THEN "img_write_s"
    ELSE IF start_cal_in THEN "calc_s"
    ELSE IF wen["conv1"] THEN "con1_write_s"
    ELSE IF wen["conv2"] THEN "con2_write_s"
    ELSE IF wen["lin"]   THEN "lin_write_s"
    ELSE "ready_s"

ReturnToReady ==
    \/ \E t \in Targets : state = WriteState[t] /\ ~wen[t]
    \/ state = "done_clean_s" /\ ~start_cal_in

\* Seeded fault: the reset does not take the machine out of a write state.
StepState_NoReset ==
    state' = IF ReturnToReady THEN "ready_s"
             ELSE IF state = "ready_s" THEN LeaveReady
             ELSE IF state = "calc_s" /\ done_out THEN "done_clean_s"
             ELSE state

StepState ==
    state' = IF ~aresetn \/ ReturnToReady THEN "ready_s"
             ELSE IF state = "ready_s" THEN LeaveReady
             ELSE IF state = "calc_s" /\ done_out THEN "done_clean_s"
             ELSE state

\* Seeded fault: done_clean_s does not reset the layers.
StepEngine_NoClean ==
    IF ~aresetn
    THEN eng' = "idle" /\ UNCHANGED calc_out
    ELSE \/ /\ eng = "idle"
            /\ eng' = IF start_cal_in THEN "run" ELSE "idle"
            /\ UNCHANGED calc_out
         \/ /\ eng = "run" /\ eng' = "handOff"
            /\ calc_out' = Predict(mem)
         \/ /\ eng \in {"run", "handOff"}
            /\ UNCHANGED <<eng, calc_out>>

\* Seeded fault: besides, the layers start over after the hand-off.
StepEngine_Restart ==
    \/ StepEngine_NoClean
    \/ aresetn /\ eng = "handOff" /\ start_cal_in
       /\ eng' = "run" /\ UNCHANGED calc_out

\* topLevel: the layers run from start_cal_in until the linear layer hands
\* off, stay there (nothing drives its readyNext), and are cleared by resetn.
\* The answer register calc_out has no reset.
StepEngine ==
    IF ~aresetn \/ ~clean_resetn
    THEN eng' = "idle" /\ UNCHANGED calc_out
    ELSE \/ /\ eng = "idle"
            /\ eng' = IF start_cal_in THEN "run" ELSE "idle"
            /\ UNCHANGED calc_out
         \/ /\ eng = "run" /\ eng' = "handOff"
            /\ calc_out' = Predict(mem)
         \/ /\ eng \in {"run", "handOff"}
            /\ UNCHANGED <<eng, calc_out>>

\* The reset input may change after any edge.
IPEdge ==
    /\ SampleStatus
    /\ DriveOutputs
    /\ StepState
    /\ StepEngine
    /\ aresetn' \in BOOLEAN

ClearBusRegs ==
    /\ data_in' = Zero /\ row_in' = 0 /\ col_in' = 0
    /\ wen' = [t \in Targets |-> FALSE] /\ start_cal_in' = FALSE

=============================================================================
