----------------------------- MODULE RegisterBus -----------------------------
(***************************************************************************)
(* What the driver relies on when it writes and reads the registers of the *)
(* peripheral: a write takes effect once, between its request and its      *)
(* response, and no write before the response to the one before; a read    *)
(* answers the value the register has at one instant between its request   *)
(* and its answer.  Writes and reads go on side by side.                   *)
(***************************************************************************)
EXTENDS Naturals

CONSTANTS
  Writable,     \* registers the bus can write          (0..7 and 9)
  Status,       \* registers the peripheral keeps up to date (8, 10, 11)
  Unused,       \* addresses without a register         (12..15)
  Words,
  ZeroWord,
  None

Addrs == Writable \cup Status \cup Unused

VARIABLES
  regs,         \* the registers
  write,        \* the write asked for and not yet done: <<address, word>>
  response,     \* a write is done and its response not yet taken
  read,         \* the address asked for and not yet read
  answer        \* the word read and not yet taken

vars == <<regs, write, response, read, answer>>

Content(a) == IF a \in Unused THEN ZeroWord ELSE regs[a]

Init ==
  /\ regs \in [Writable \cup Status -> Words]
  /\ \A a \in Writable : regs[a] = ZeroWord
  /\ write = None /\ response = FALSE /\ read = None /\ answer = None

(* The status registers may change at any step; the others change only by  *)
(* the write being done.                                                   *)
Written(req) ==
  \A a \in Writable : regs'[a] = IF req # None /\ req[1] = a THEN req[2] ELSE regs[a]

WriteSide ==
  \/ /\ write # None /\ ~response                \* the write is done
     /\ response' = TRUE
     /\ write' \in {None} \cup (Addrs \X Words)
     /\ Written(write)
  \/ /\ response' \in {response, FALSE}          \* the response is taken
     /\ IF write # None THEN write' = write
                        ELSE write' \in {None} \cup (Addrs \X Words)
     /\ Written(None)

ReadSide ==
  \/ /\ read # None /\ answer = None             \* the register is read
     /\ answer' = Content(read) /\ read' = None
  \/ /\ answer' = answer /\ read' = read
  \/ /\ read = None                              \* taken, and asked again
     /\ answer' = None
     /\ read' \in {None} \cup Addrs

Reset ==
  /\ \A a \in Writable : regs'[a] = ZeroWord
  /\ write' = None /\ response' = FALSE /\ read' = None /\ answer' = None

Next == /\ regs' \in [Writable \cup Status -> Words]
        /\ (WriteSide /\ ReadSide) \/ Reset

Spec == Init /\ [][Next]_vars
===============================================================================
