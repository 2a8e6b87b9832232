----------------------------- MODULE NNSystem ------------------------------
(***************************************************************************)
(* echo.c on the MicroBlaze driving the peripheral of NNAccel: the boot    *)
(* load of start_application, then recv_callback serving one message at a  *)
(* time.  A step is a clock edge; at most one bus access commits at it.    *)
(* Bus accesses are blocking and stay in program order, and any number of  *)
(* edges may pass between two of them (Wait).                              *)
(***************************************************************************)
EXTENDS NNAccel

CONSTANTS
    StripStarts,    \* first rows of the Image_h0..h3 messages ({0,7,14,21})
    UninitStarts,   \* what row_start may hold when no branch assigns it: an int
    StripRows,      \* rows in such a message (7)
    NoAnswer        \* no calculation finished since the start

ASSUME StripAssumption ==
    StripStarts \cup UninitStarts \subseteq Int /\ StripRows \in Nat \ {0}
ASSUME NoAnswerAssumption == NoAnswer \notin Answers

VARIABLES
    pc,        \* the bus access echo.c is about to make
    job,       \* the memory being loaded, or "calc"
    i, j,      \* the loop indices of the load
    rowEnd,    \* where the loop over i ends
    val,       \* ieee754, the word being stored
    ans,       \* the answer read from register 8
    booting,   \* in start_application; afterwards in recv_callback
    reply,     \* what became of the last message of the host
    sent,      \* history: the last acknowledged value of each number sent
    dirty      \* history: numbers whose write was started, never acknowledged

loop == <<job, i, j, rowEnd>>
cpu  == <<pc, loop, val, ans, booting, reply>>
hist == <<sent, dirty>>
vars == <<ipVars, cpu, hist>>

Jobs == Targets \cup {"calc"}
LoadPCs == {"Data", "Row", "Col", "PollReady", "WenHigh", "PollDone", "WenLow"}
CalcPCs == {"PollReady", "StartHigh", "PollDone", "ReadAns", "StartLow"}
ConvJobs == {"conv1", "conv2"}

\* The number being sent: line i, place j of the message for memory job.  It
\* is one of Cells, except in a load of the image from an uninitialised row.
Cell == <<job, i, j>>

\* The row and column registers get (i,j) for an image, (j,i) for the
\* convolution weights; the linear weights have only a row.
RowOf(c) == IF c[1] \in ConvJobs THEN c[3] ELSE c[2]
ColOf(c) == IF c[1] \in ConvJobs THEN c[2] ELSE c[3]
Addr(c)  == <<c[1], RowOf(c), ColOf(c)>>

TypeOK ==
    /\ IPTypeOK
    /\ job \in Jobs
    /\ pc \in IF job = "calc" THEN CalcPCs \cup {"Idle"}
                              ELSE LoadPCs \cup {"Idle"}
    /\ i \in Int /\ j \in Nat /\ rowEnd \in Int
    /\ job \in Targets /\ pc # "Idle" => i < rowEnd /\ j < Cols[job]
    /\ job \in Targets \ {"image"} => i \in Nat /\ rowEnd = Rows[job]
    /\ val \in Data
    /\ ans \in Answers \cup {NoAnswer}
    /\ booting \in BOOLEAN
    /\ reply \in {"none", "pending", "echoed", "refused", "silent"}
    /\ sent \in [Cells -> Data]
    /\ dirty \subseteq Cells

Init ==
    /\ IPInit
    /\ pc = "Data" /\ job = "image" /\ i = 0 /\ j = 0 /\ rowEnd = ImageRows
    /\ val = Zero /\ ans = NoAnswer /\ booting = TRUE /\ reply = "none"
    /\ sent = [c \in Cells |-> Zero] /\ dirty = {}

----------------------------------------------------------------------------
(* Loading one number: the body of the loops *)

AtPC(l) == aresetn /\ pc = l /\ IPEdge

WriteData ==
    /\ AtPC("Data")
    /\ \E d \in Data : val' = d /\ data_in' = d
    /\ pc' = "Row"
    /\ UNCHANGED <<row_in, col_in, wen, start_cal_in,
                   loop, ans, booting, reply, hist>>

WriteRow ==
    /\ AtPC("Row")
    /\ row_in' = RowOf(Cell)
    /\ pc' = IF job = "lin" THEN "PollReady" ELSE "Col"
    /\ UNCHANGED <<data_in, col_in, wen, start_cal_in,
                   loop, val, ans, booting, reply, hist>>

WriteCol ==
    /\ AtPC("Col")
    /\ col_in' = ColOf(Cell)
    /\ pc' = "PollReady"
    /\ UNCHANGED <<data_in, row_in, wen, start_cal_in,
                   loop, val, ans, booting, reply, hist>>

\* Seeded fault: the poll of ready is left out.
PollReady_Skipped ==
    /\ AtPC("PollReady")
    /\ pc' = IF job = "calc" THEN "StartHigh" ELSE "WenHigh"
    /\ UNCHANGED <<busRegs, loop, val, ans, booting, reply, hist>>

\* The polls that read 0 leave the processor where it is: they are Wait.
PollReady ==
    /\ AtPC("PollReady")
    /\ s_ready
    /\ pc' = IF job = "calc" THEN "StartHigh" ELSE "WenHigh"
    /\ UNCHANGED <<busRegs, loop, val, ans, booting, reply, hist>>

WenHigh ==
    /\ AtPC("WenHigh")
    /\ wen' = [wen EXCEPT ![job] = TRUE]
    /\ dirty' = dirty \cup ({Cell} \cap Cells)
    /\ pc' = "PollDone"
    /\ UNCHANGED <<data_in, row_in, col_in, start_cal_in,
                   loop, val, ans, booting, reply, sent>>

\* Seeded fault: the poll of done is left out.
PollDone_Skipped ==
    /\ AtPC("PollDone")
    /\ IF job = "calc"
       THEN pc' = "ReadAns" /\ UNCHANGED hist
       ELSE /\ pc' = "WenLow"
            /\ sent' = [c \in Cells |-> IF c = Cell THEN val ELSE sent[c]]
            /\ dirty' = dirty \ {Cell}
    /\ UNCHANGED <<busRegs, loop, val, ans, booting, reply>>

\* The driver takes the word for stored once it reads done.
PollDone ==
    /\ AtPC("PollDone")
    /\ s_done
    /\ IF job = "calc"
       THEN pc' = "ReadAns" /\ UNCHANGED hist
       ELSE /\ pc' = "WenLow"
            /\ sent' = [c \in Cells |-> IF c = Cell THEN val ELSE sent[c]]
            /\ dirty' = dirty \ {Cell}
    /\ UNCHANGED <<busRegs, loop, val, ans, booting, reply>>

\* Seeded fault: the boot load forgets the linear weights.
NextBootJob_NoLin ==
    /\ job' = CASE job = "image" -> "conv1" [] job = "conv1" -> "conv2"
                [] job = "conv2" -> "calc"
    /\ i' = 0 /\ j' = 0
    /\ rowEnd' = IF job = "conv2" THEN 0 ELSE Rows[job']
    /\ pc' = IF job = "conv2" THEN "PollReady" ELSE "Data"
    /\ UNCHANGED reply

\* start_application goes on with the next memory, then calculates.
NextBootJob ==
    /\ job' = CASE job = "image" -> "conv1" [] job = "conv1" -> "conv2"
                [] job = "conv2" -> "lin"   [] job = "lin"   -> "calc"
    /\ i' = 0 /\ j' = 0
    /\ rowEnd' = IF job = "lin" THEN 0 ELSE Rows[job']
    /\ pc' = IF job = "lin" THEN "PollReady" ELSE "Data"
    /\ UNCHANGED reply

MessageLoaded ==
    /\ pc' = "Idle" /\ reply' = "silent"
    /\ UNCHANGED loop

\* Seeded fault: the loop over the rows runs once more.
NextNumber_OneRowMore ==
    \/ /\ j + 1 < Cols[job]
       /\ j' = j + 1 /\ pc' = "Data"
       /\ UNCHANGED <<job, i, rowEnd, reply>>
    \/ /\ j + 1 = Cols[job] /\ i + 1 <= rowEnd
       /\ j' = 0 /\ i' = i + 1 /\ pc' = "Data"
       /\ UNCHANGED <<job, rowEnd, reply>>
    \/ /\ j + 1 = Cols[job] /\ i = rowEnd
       /\ IF booting THEN NextBootJob ELSE MessageLoaded

NextNumber ==
    \/ /\ j + 1 < Cols[job]
       /\ j' = j + 1 /\ pc' = "Data"
       /\ UNCHANGED <<job, i, rowEnd, reply>>
    \/ /\ j + 1 = Cols[job] /\ i + 1 < rowEnd
       /\ j' = 0 /\ i' = i + 1 /\ pc' = "Data"
       /\ UNCHANGED <<job, rowEnd, reply>>
    \/ /\ j + 1 = Cols[job] /\ i + 1 = rowEnd
       /\ IF booting THEN NextBootJob ELSE MessageLoaded

WenLow ==
    /\ AtPC("WenLow")
    /\ wen' = [wen EXCEPT ![job] = FALSE]
    /\ NextNumber
    /\ UNCHANGED <<data_in, row_in, col_in, start_cal_in,
                   val, ans, booting, hist>>

----------------------------------------------------------------------------
(* The calculation *)

StartHigh ==
    /\ AtPC("StartHigh")
    /\ start_cal_in' = TRUE
    /\ pc' = "PollDone"
    /\ UNCHANGED <<data_in, row_in, col_in, wen,
                   loop, val, ans, booting, reply, hist>>

ReadAns ==
    /\ AtPC("ReadAns")
    /\ ans' = s_final
    /\ pc' = "StartLow"
    /\ UNCHANGED <<busRegs, loop, val, booting, reply, hist>>

\* Seeded fault: start_cal_in is not lowered after the answer was read.
StartLow_KeptHigh ==
    /\ AtPC("StartLow")
    /\ pc' = "Idle"
    /\ booting' = FALSE
    /\ reply' \in IF booting THEN {reply} ELSE {"echoed", "refused"}
    /\ UNCHANGED <<busRegs, loop, val, ans, hist>>

\* recv_callback then echoes the message; tcp_write may refuse it.
StartLow ==
    /\ AtPC("StartLow")
    /\ start_cal_in' = FALSE
    /\ pc' = "Idle"
    /\ booting' = FALSE
    /\ reply' \in IF booting THEN {reply} ELSE {"echoed", "refused"}
    /\ UNCHANGED <<data_in, row_in, col_in, wen, loop, val, ans, hist>>

----------------------------------------------------------------------------
(* Messages of the host *)

Receive(t, first, end) ==
    /\ AtPC("Idle")
    /\ job' = t /\ i' = first /\ j' = 0 /\ rowEnd' = end
    /\ pc' = IF t = "calc" THEN "PollReady" ELSE "Data"
    /\ reply' = "pending"
    /\ UNCHANGED <<busRegs, val, ans, booting, hist>>

\* The digit behind Image_h gives the first row; without one of the four
\* digits row_start is uninitialised, and the same loop runs from whatever it
\* holds, through rows before, across or behind the edges of the image.
ReceiveImage ==
    \E first \in StripStarts \cup UninitStarts :
        Receive("image", first, first + StripRows)
ReceiveWeights == \E t \in Targets \ {"image"} : Receive(t, 0, Rows[t])
ReceiveCalc == Receive("calc", 0, 0)

\* No room in tcp_sndbuf, or no known name: freed without a trace.
ReceiveOther ==
    /\ AtPC("Idle")
    /\ reply' \in {"refused", "silent"}
    /\ UNCHANGED <<busRegs, pc, loop, val, ans, booting, hist>>

\* An edge at which no bus access of the driver takes effect.
Wait ==
    /\ aresetn /\ IPEdge
    /\ UNCHANGED <<busRegs, cpu, hist>>

\* An edge under reset: the processor goes back to the start of its program.
Reset ==
    /\ ~aresetn /\ IPEdge
    /\ ClearBusRegs
    /\ pc' = "Data" /\ job' = "image" /\ i' = 0 /\ j' = 0 /\ rowEnd' = ImageRows
    /\ val' = Zero /\ ans' = NoAnswer /\ booting' = TRUE /\ reply' = "none"
    /\ UNCHANGED hist

Access ==
    \/ WriteData \/ WriteRow \/ WriteCol \/ PollReady \/ WenHigh \/ PollDone
    \/ WenLow \/ StartHigh \/ ReadAns \/ StartLow

Message == ReceiveImage \/ ReceiveWeights \/ ReceiveCalc \/ ReceiveOther

Next == Access \/ Message \/ Wait \/ Reset

Spec == Init /\ [][Next]_vars

\* The clock runs without needing the reset or the host to move, the
\* processor makes its next access, and a calculation the layers have begun
\* comes to its end.
ClockEdge == Wait /\ UNCHANGED aresetn
EngineFinishes == Wait /\ eng = "run" /\ eng' = "handOff"

FairSpec ==
    /\ Spec
    /\ WF_vars(ClockEdge)
    /\ WF_vars(Access)
    /\ WF_vars(EngineFinishes)

----------------------------------------------------------------------------
(* Correctness *)

\* Every number of a memory the driver was told is stored keeps its place: the
\* word stays what was acknowledged last, through later writes to any memory,
\* the edges on which a write state stores again, calculations and resets.
\* Only a number whose write was begun and not acknowledged is exempt.
\* Also the rows outside the image that an uninitialised row_start leads to
\* leave it alone.
AcknowledgedIsStored ==
    \A c \in Cells \ dirty : mem[Addr(c)] = sent[c]

\* What echo.c says beside its loops over the weights (lines 104, 135, 464 and
\* 493): "write num into i-th row, j-th col of the weight array".  The code
\* gives j for the row and i for the column: when all is loaded and echo.c
\* goes to calculate, the convolution weights are exchanged.
StoredAtItsRow ==
    job = "calc" => \A c \in Cells : mem[c] = sent[c]

\* No half-written number takes part in a calculation: when the driver gets to
\* a calculation every write it began was acknowledged, also after resets in
\* the middle of a write, because the boot load writes all the memories again.
CalculatesOnLoadedNetwork == job = "calc" => dirty = {}

\* The answer read through register 8 belongs to the memories as they are, not
\* to an earlier calculation whose result the registers still hold.
AnswerIsCurrent == pc = "StartLow" => ans = Predict(mem)

\* The memories hold still while the layers read them.
MemoryStableWhileRunning == [][eng = "run" => UNCHANGED mem]_vars

\* A memory word changes only to the number the driver is waiting for, at its
\* place, whatever the address registers go through in between.
OnlyAwaitedWordChanges ==
    [][\A c \in Cells : mem'[Addr(c)] # mem[Addr(c)] =>
          pc = "PollDone" /\ c = Cell /\ mem'[Addr(c)] = val]_vars

\* A calculation starts from cleared layers: no hand-off of an earlier
\* calculation is standing when second_top enters calc_s.
CalcStartsClean ==
    [][state # "calc_s" /\ state' = "calc_s" => eng = "idle" /\ ~done_out]_vars

\* Whatever echo.c is doing (a boot load, a message, a calculation), it comes
\* back to the main loop, provided the reset is eventually released for good:
\* no poll of ready or done waits for ever.
AlwaysReturns == <>[]aresetn => []<>(pc = "Idle")

\* The system as its host sees it: the numbers acknowledged, the answer last
\* read, and whether echo.c is in a calculation.
Phase ==
    IF job = "calc" /\ pc \in {"PollReady", "StartHigh", "PollDone", "ReadAns"}
    THEN "calculating"
    ELSE IF pc = "StartLow" THEN "answered" ELSE "ready"

\* The network's answer for the numbers as the host sent them: each is looked
\* up at the number whose place the memory word is.
ClassifySent(value) == Predict([c \in Cells |-> value[Addr(c)]])

Service == INSTANCE PredictionService
             WITH Numbers <- Cells, Initial <- Zero, Classify <- ClassifySent,
                  value <- sent, phase <- Phase, answer <- ans

\* The board implements the prediction service: every answer is the answer for
\* exactly the numbers acknowledged before it, through boots, resets in the
\* middle of a write and any delay between bus accesses.
ImplementsService == Service!Spec

=============================================================================
