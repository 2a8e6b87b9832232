------------------------------ MODULE TcpSession ------------------------------
(***************************************************************************)
(* recv_callback of echo.c against TCP, which delivers a byte stream and   *)
(* not messages.  A client's messages are a header and numbers separated   *)
(* by commas, and nothing separates two messages.  TCP cuts the stream     *)
(* where it likes; recv_callback splits whatever the first pbuf of a       *)
(* delivery holds with strtok, as if it were one message.  Several         *)
(* clients may be connected: they all load the same network.               *)
(*                                                                         *)
(* A unit is a header or a number.  Cut 2u is the end of unit u, cut       *)
(* 2u - 1 is inside it.  How one number reaches its memory is NNSystem.    *)
(***************************************************************************)
EXTENDS Integers, Sequences, FiniteSets

CONSTANTS
  Conns,        \* clients
  Units,        \* the stream each of them sends, unit by unit
  Strips,       \* Image_h0..Image_h3
  Numbers,      \* numbers in a message of each kind; 0 for Start_Calc
  Window        \* TCP_WND, in cuts

Kinds == Strips \cup {"Conv1", "Conv2", "Lin", "Start_Calc"}

(* Every unit belongs to a whole message: a header and its numbers in turn.*)
WholeMessages(stream) ==
  \A u \in DOMAIN stream :
    LET kind == stream[u].kind
        header == u - stream[u].n
    IN  /\ stream[u].n <= Numbers[kind]
        /\ \A n \in 0 .. Numbers[kind] :
             header + n \in DOMAIN stream /\ stream[header + n] = [kind |-> kind, n |-> n]

ASSUME SessionAssumption ==
  /\ Strips \subseteq {"Image_h0", "Image_h1", "Image_h2", "Image_h3"}
  /\ Numbers \in [Kinds -> Nat] /\ Numbers["Start_Calc"] = 0
  /\ \A c \in Conns : /\ Units[c] \in Seq([kind : Kinds, n : Nat])
                      /\ WholeMessages(Units[c])
  /\ Window \in Nat \ {0}

VARIABLES
  connected,    \* connections with recv_callback in place
  pos,          \* the cut up to which TCP has delivered
  lost,         \* delivered and never given back with tcp_recved
  mem,          \* what each place of the network's memories holds
  calcs,        \* calculations made, each with its echo, per connection
  intact,       \* history: every delivery was one whole message, with room
  sent          \* history: what the clients' whole messages said

vars == <<connected, pos, lost, mem, calcs, intact, sent>>

Places == UNION {{k} \X (1 .. Numbers[k]) : k \in Kinds}

End(c) == 2 * Len(Units[c])

Init ==
  /\ connected = {}
  /\ pos = [c \in Conns |-> 0] /\ lost = [c \in Conns |-> 0]
  /\ mem = [p \in Places |-> <<"boot">>] /\ sent = mem
  /\ calcs = [c \in Conns |-> 0]
  /\ intact = TRUE

-------------------------------------------------------------------------------
(* strtok over the payload between two cuts                                *)
Touched(from, to) == from \div 2 + 1 .. (to + 1) \div 2
Whole(u, from, to) == from <= 2 * (u - 1) /\ 2 * u <= to

(* A comma stands before every number, none before a header: a header that *)
(* follows a message sticks to its last number.                            *)
Starts(c, from, to) ==
  {u \in Touched(from, to) : u = from \div 2 + 1 \/ Units[c][u].n > 0}

(* The t-th token; empty for strtok's NULL past the last one.              *)
Token(c, from, to, t) ==
  LET starts == Starts(c, from, to)
  IN  {u \in Touched(from, to) : Cardinality({s \in starts : s <= u}) = t}

\* Seeded fault: the beginning of a header counts as the header.
Names_Prefix(c, token, from, to) ==
  {Units[c][u].kind : u \in {v \in token : Units[c][v].n = 0 /\ from <= 2 * (v - 1)}}

(* The headers strstr finds in a token; none in the NULL past the last.    *)
Names(c, token, from, to) ==
  {Units[c][u].kind : u \in {v \in token : Units[c][v].n = 0 /\ Whole(v, from, to)}}

(* An image header with its end cut off.  Cut before "_h" it is no header  *)
(* for strstr; as "Image_h" it is one without a digit, and row_start, never *)
(* set, may be any row (here: one of the strips, or outside the image).    *)
DigitCut(c, token, from, to) ==
  \E u \in token : /\ Units[c][u].kind \in Strips /\ Units[c][u].n = 0
                   /\ from <= 2 * (u - 1) /\ to = 2 * u - 1

(* The branches of recv_callback, tried in this order.                     *)
Jobs(names, digitCut) ==
  IF "Conv1" \in names THEN {"Conv1"}
  ELSE IF "Conv2" \in names THEN {"Conv2"}
  ELSE IF "Lin" \in names THEN {"Lin"}
  ELSE IF names \cap Strips # {} THEN {CHOOSE s \in names \cap Strips : TRUE}
  ELSE IF digitCut THEN Strips \cup {"outside", "none"}
  ELSE {"none"}

(* atof of a token: its number, a piece of it, or what is at address 0.    *)
Value(c, token, from, to) ==
  IF token = {} THEN <<"garbage">>
  ELSE LET u == CHOOSE v \in token : \A w \in token : v <= w
       IN  IF Whole(u, from, to) THEN <<c, u>> ELSE <<"piece">>

\* Seeded fault: the header's own token is taken for the first number.
Load_Shifted(c, job, from, to) ==
  [p \in Places |-> IF p[1] = job THEN Value(c, Token(c, from, to, p[2]), from, to)
                    ELSE mem[p]]

\* Seeded fault: the loop ends one number early.
Load_Short(c, job, from, to) ==
  [p \in Places |-> IF p[1] = job /\ p[2] < Numbers[job]
                    THEN Value(c, Token(c, from, to, p[2] + 1), from, to) ELSE mem[p]]

(* The load of a job takes the tokens after the first one by one.          *)
Load(c, job, from, to) ==
  [p \in Places |-> IF p[1] = job THEN Value(c, Token(c, from, to, p[2] + 1), from, to)
                    ELSE mem[p]]

(* The token msg points at after the branch: Start_Calc is looked for there. *)
LastToken(c, job, from, to) ==
  IF job \in Kinds THEN Token(c, from, to, Numbers[job] + 1)
  ELSE IF job = "none" THEN Token(c, from, to, 1) ELSE {}

Handle(c, from, to) ==
  LET first == Token(c, from, to, 1)
  IN  \E job \in Jobs(Names(c, first, from, to), DigitCut(c, first, from, to)) :
        /\ mem' = Load(c, job, from, to)
        /\ calcs' = IF "Start_Calc" \in Names(c, LastToken(c, job, from, to), from, to)
                    THEN [calcs EXCEPT ![c] = @ + 1] ELSE calcs

-------------------------------------------------------------------------------
accept_callback(c) ==
  /\ c \notin connected /\ pos[c] = 0
  /\ connected' = connected \cup {c}
  /\ UNCHANGED <<pos, lost, mem, calcs, intact, sent>>

(* The units of the message between two cuts, if they enclose exactly one. *)
IsMessage(c, from, to) ==
  /\ from % 2 = 0 /\ to % 2 = 0
  /\ {u \in Touched(from, to) : Units[c][u].n = 0} = {from \div 2 + 1}
  /\ to = End(c) \/ Units[c][to \div 2 + 1].n = 0

Note(c, from, to) ==
  IF IsMessage(c, from, to)
    THEN LET kind == Units[c][from \div 2 + 1].kind
         IN  sent' = [p \in Places |-> IF p[1] = kind
                                       THEN <<c, from \div 2 + 1 + p[2]>> ELSE sent[p]]
    ELSE UNCHANGED sent

\* Seeded fault: what was received is given back twice.
GivenBack_Twice(from, to) == 2 * (to - from)

(* tcp_recved gives back p->len, what the first pbuf holds.                *)
GivenBack(from, to) == to - from

(* A delivery: the first pbuf holds the cuts up to "to", the pbufs chained *)
(* to it (segments that were waiting for a gap to close) those up to       *)
(* "end".  Nothing but the first pbuf is read, and nothing at all without  *)
(* room for its echo.                                                      *)
recv_callback(c) ==
  /\ c \in connected
  /\ \E end \in pos[c] + 1 .. End(c) : \E to \in pos[c] + 1 .. end : \E room \in BOOLEAN :
       /\ end - pos[c] <= Window - lost[c]
       /\ pos' = [pos EXCEPT ![c] = end]
       /\ lost' = [lost EXCEPT ![c] = @ + (end - pos[c]) - GivenBack(pos[c], to)]
       /\ IF room THEN Handle(c, pos[c], to) ELSE UNCHANGED <<mem, calcs>>
       /\ intact' = (intact /\ room /\ to = end /\ IsMessage(c, pos[c], to))
       /\ Note(c, pos[c], end)
  /\ UNCHANGED connected

(* The client closes: recv_callback without a pbuf.                        *)
Closed(c) ==
  /\ c \in connected
  /\ connected' = connected \ {c}
  /\ pos' = [pos EXCEPT ![c] = End(c)]
  /\ UNCHANGED <<lost, mem, calcs, intact, sent>>

Next == \E c \in Conns : accept_callback(c) \/ recv_callback(c) \/ Closed(c)

Spec == Init /\ [][Next]_vars

-------------------------------------------------------------------------------
TypeOK ==
  /\ connected \subseteq Conns
  /\ pos \in [Conns -> Nat] /\ \A c \in Conns : pos[c] <= End(c)
  /\ lost \in [Conns -> 0 .. Window]
  /\ calcs \in [Conns -> Nat]
  /\ DOMAIN mem = Places /\ DOMAIN sent = Places
  /\ intact \in BOOLEAN

(* However the stream is cut, joined and shared, a number that is stored   *)
(* whole is stored in its own place: never shifted, never in the memory of *)
(* another message.                                                        *)
OwnPlace ==
  \A p \in Places : \A c \in Conns : \A u \in DOMAIN Units[c] :
    mem[p] = <<c, u>> => p = <<Units[c][u].kind, Units[c][u].n>>

(* As long as TCP delivers whole messages, and echoes find room, the       *)
(* memories hold what the clients sent last, whatever the order in which   *)
(* their messages meet.                                                    *)
SentIsStored == intact => mem = sent

(* A client is never answered more often than it asked: no piece of a      *)
(* Start_Calc, and no message it sticks to, makes a calculation of its own.*)
CalcsAsked ==
  \A c \in Conns :
    calcs[c] <= Cardinality({u \in DOMAIN Units[c] :
                               Units[c][u].kind = "Start_Calc" /\ 2 * u <= pos[c]})

(* echo.c:75 says of tcp_recved(tpcb, p->len): "indicate that the packet   *)
(* has been received".  The whole packet, with its chained pbufs, has been *)
(* taken and freed, so the client must get its window back.                *)
WindowGivenBack == \A c \in Conns : lost[c] = 0
===============================================================================
