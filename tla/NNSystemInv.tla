---------------------------- MODULE NNSystemInv ----------------------------
(***************************************************************************)
(* The inductive invariant of NNSystem.  It says, for every place of the   *)
(* driver's program, what the three stages of the status pipeline (the     *)
(* machine's state, its output registers, the slave's copies of them) can  *)
(* still hold, and for every place of the boot load which numbers may have *)
(* been left half written by a reset.                                      *)
(***************************************************************************)
EXTENDS NNSystem

Loading == job \in Targets

\* The request registers are up exactly while the driver waits on them, and
\* the data and address registers hold the number from their write on.
BusInv ==
    /\ \A t \in Targets : wen[t] <=> job = t /\ pc \in {"PollDone", "WenLow"}
    /\ start_cal_in <=> job = "calc" /\ pc \in {"PollDone", "ReadAns", "StartLow"}
    /\ Loading /\ pc \notin {"Idle", "Data"} => data_in = val
    /\ Loading /\ pc \notin {"Idle", "Data", "Row"} => row_in = RowOf(Cell)
    /\ Loading /\ job # "lin" /\ pc \notin {"Idle", "Data", "Row", "Col"}
         => col_in = ColOf(Cell)

\* A write state left over for one edge after its enable fell stores the word
\* that is in its place already.
ReleasedInv ==
    \A t \in Targets : state = WriteState[t] /\ ~wen[t] /\ Slot(t) \in Cells
                         => mem[Slot(t)] = data_in

Settled == state = "ready_s" /\ ~done_out

StoredCell == Cell \in Cells => mem[Addr(Cell)] = val

\* The handshake of one number; one outside the image is acknowledged too.
LoadInv ==
    /\ ~(ready_out /\ done_out)
    /\ pc = "Row" => state = "ready_s"
    /\ pc \in {"Col", "WenHigh"} => Settled
    /\ pc = "PollReady" /\ Loading => Settled
    /\ pc = "PollDone" /\ Loading =>
         \/ Settled /\ ~s_done
         \/ /\ state = WriteState[job]
            /\ s_done => done_out
            /\ done_out => StoredCell
    /\ pc = "WenLow" => state = WriteState[job] /\ StoredCell /\ ~ready_out

\* Between jobs a ready that the driver can read, or that is one edge from it,
\* is never left over from before the last request.
IdleInv ==
    pc = "Idle" \/ (pc = "PollReady" /\ ~Loading) =>
        /\ ready_out => state = "ready_s"
        /\ s_ready => Settled

\* The handshake of a calculation.
CalcInv ==
    /\ pc = "StartHigh" => Settled
    /\ pc = "PollDone" /\ ~Loading =>
         \/ Settled /\ ~s_done /\ eng = "idle"
         \/ /\ state = "calc_s" /\ ~s_done /\ clean_resetn
            /\ done_out => eng = "handOff" /\ final_out = Predict(mem)
         \/ /\ state = "done_clean_s" /\ done_out
            /\ final_out = Predict(mem) /\ s_final = Predict(mem)
    /\ pc = "ReadAns" =>
         /\ state = "done_clean_s" /\ ~clean_resetn
         /\ final_out = Predict(mem) /\ s_final = Predict(mem)
    /\ pc = "StartLow" =>
         /\ state = "done_clean_s" /\ ~clean_resetn /\ ~ready_out
         /\ eng = "idle" /\ ans = Predict(mem)
    /\ state = "calc_s" => start_cal_in
    /\ eng # "idle" => start_cal_in
    /\ eng = "handOff" => calc_out = Predict(mem)

\* What the boot load has still to write.
Rank == [image |-> 0, conv1 |-> 1, conv2 |-> 2, lin |-> 3, calc |-> 4]
StillToCome(c) ==
    \/ Rank[c[1]] > Rank[job]
    \/ c[1] = job /\ (c[2] > i \/ (c[2] = i /\ c[3] >= j))

HistoryInv ==
    /\ AcknowledgedIsStored
    /\ pc = "PollDone" /\ Loading /\ Cell \in Cells => Cell \in dirty
    /\ pc = "WenLow" => Cell \notin dirty
    /\ booting =>
         /\ pc # "Idle"
         /\ Loading => rowEnd = Rows[job]
         /\ \A c \in dirty : StillToCome(c)
    /\ ~booting =>
         dirty \subseteq (IF pc = "PollDone" /\ Loading THEN {Cell} ELSE {})

\* A calculation only follows the whole boot load or an acknowledged message.
IInv == TypeOK /\ BusInv /\ ReleasedInv /\ LoadInv /\ IdleInv /\ CalcInv /\ HistoryInv

=============================================================================
