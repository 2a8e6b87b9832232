------------------------------- MODULE Engine -------------------------------
(***************************************************************************)
(* What second_top relies on of the layers behind its wires: started, they *)
(* take their time, hand off once with a best class of the picture as the  *)
(* answer, and hold hand-off and answer until they are cleared.  This is   *)
(* the engine of NNAccel (StepEngine), for pictures one after the other.   *)
(***************************************************************************)
CONSTANTS
    Pictures,      \* contents of the memories
    Best(_)        \* the classes a picture may be answered with

VARIABLES resetn, startFlag, picture, eng, calc_out

vars == <<resetn, startFlag, picture, eng, calc_out>>

Init ==
    /\ resetn = FALSE /\ startFlag = FALSE /\ picture \in Pictures
    /\ eng = "idle"

\* What second_top and the driver do (NNAccel, NNSystem): start_cal_in rises
\* on cleared layers, also at the edge at which a system reset comes; it falls
\* under a reset of the layers, at the latest at the edge at which that ends;
\* the memories are written while it is down.
Environment ==
    /\ resetn' \in BOOLEAN /\ startFlag' \in BOOLEAN /\ picture' \in Pictures
    /\ startFlag' /\ ~startFlag => resetn /\ eng = "idle"
    /\ startFlag /\ ~startFlag' => ~resetn
    /\ resetn' /\ ~resetn => ~startFlag'
    /\ startFlag => picture' = picture

Cleared == ~resetn /\ eng' = "idle" /\ UNCHANGED calc_out

Begin == resetn /\ eng = "idle" /\ startFlag /\ eng' = "run" /\ UNCHANGED calc_out

HandOff == resetn /\ eng = "run" /\ eng' = "handOff" /\ calc_out' \in Best(picture)

Stay ==
    /\ resetn /\ ~(eng = "idle" /\ startFlag)
    /\ UNCHANGED <<eng, calc_out>>

Next == Environment /\ (Cleared \/ Begin \/ HandOff \/ Stay)

Spec == Init /\ [][Next]_vars
=============================================================================
