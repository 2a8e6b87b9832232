------------------------- MODULE PredictionService -------------------------
(***************************************************************************)
(* What the board promises its host: numbers are loaded one at a time, a   *)
(* calculation answers for exactly the numbers loaded so far, nothing is   *)
(* loaded while one goes on, and each calculation is answered before the   *)
(* next thing happens.  A restart gives up the calculation but no number.  *)
(***************************************************************************)
CONSTANTS
    Numbers,        \* the numbers a host can load
    Data,           \* their values
    Initial,        \* the value of a number never loaded
    Classify(_),    \* the answer for given values of all the numbers
    NoAnswer

VARIABLES
    value,          \* value[n]: the value number n was loaded with last
    phase,          \* "ready", "calculating" or "answered"
    answer

serviceVars == <<value, phase, answer>>

Init ==
    /\ value = [n \in Numbers |-> Initial]
    /\ phase = "ready"
    /\ answer = NoAnswer

Load(n, d) ==
    /\ phase = "ready"
    /\ value' = [value EXCEPT ![n] = d]
    /\ UNCHANGED <<phase, answer>>

Begin ==
    /\ phase = "ready" /\ phase' = "calculating"
    /\ UNCHANGED <<value, answer>>

Infer ==
    /\ phase = "calculating" /\ phase' = "answered"
    /\ answer' = Classify(value)
    /\ UNCHANGED value

Finish ==
    /\ phase = "answered" /\ phase' = "ready"
    /\ UNCHANGED <<value, answer>>

Restart ==
    /\ phase' = "ready" /\ answer' = NoAnswer
    /\ UNCHANGED value

Next ==
    \/ \E n \in Numbers, d \in Data : Load(n, d)
    \/ Begin \/ Infer \/ Finish \/ Restart

Spec == Init /\ [][Next]_serviceVars

=============================================================================
