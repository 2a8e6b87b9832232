--------------------------- MODULE TcpSessionProof ---------------------------
(***************************************************************************)
(* Proofs about TcpSession, for any clients, streams, message sizes and    *)
(* receive window that meet SessionAssumption.                             *)
(***************************************************************************)
EXTENDS TcpSession, FiniteSetTheorems, SequenceTheorems, TLAPS

-------------------------------------------------------------------------------
(* Streams                                                                 *)

LEMMA StreamType ==
  ASSUME NEW c \in Conns
  PROVE  /\ Len(Units[c]) \in Nat
         /\ DOMAIN Units[c] = 1 .. Len(Units[c])
         /\ End(c) = 2 * Len(Units[c]) /\ End(c) \in Nat
<1>1. Units[c] \in Seq([kind : Kinds, n : Nat])
  BY SessionAssumption
<1> QED
  BY <1>1 DEF End

LEMMA UnitType ==
  ASSUME NEW c \in Conns, NEW u \in DOMAIN Units[c]
  PROVE  /\ u \in Nat \ {0}
         /\ Units[c][u].kind \in Kinds
         /\ Units[c][u].n \in Nat
         /\ Numbers[Units[c][u].kind] \in Nat
<1>1. Units[c] \in Seq([kind : Kinds, n : Nat]) /\ Numbers \in [Kinds -> Nat]
  BY SessionAssumption
<1>2. u \in 1 .. Len(Units[c])
  BY StreamType
<1>3. Units[c][u] \in [kind : Kinds, n : Nat]
  BY <1>1, <1>2, ElementOfSeq
<1> QED
  BY <1>1, <1>2, <1>3, StreamType

(* Behind a header stand the numbers of its message, in turn.              *)
LEMMA HeaderNumbers ==
  ASSUME NEW c \in Conns, NEW h \in DOMAIN Units[c], Units[c][h].n = 0,
         NEW i \in 0 .. Numbers[Units[c][h].kind]
  PROVE  /\ h + i \in DOMAIN Units[c]
         /\ Units[c][h + i].kind = Units[c][h].kind
         /\ Units[c][h + i].n = i
<1>1. WholeMessages(Units[c])
  BY SessionAssumption
<1>2. h - Units[c][h].n = h
  BY UnitType
<1>3. h + i \in DOMAIN Units[c] /\ Units[c][h + i] = [kind |-> Units[c][h].kind, n |-> i]
  BY <1>1, <1>2 DEF WholeMessages
<1> QED
  BY <1>3

LEMMA TouchedInStream ==
  ASSUME NEW c \in Conns, NEW from \in 0 .. End(c), NEW to \in 0 .. End(c), from < to
  PROVE  /\ from \div 2 + 1 \in Touched(from, to)
         /\ Touched(from, to) \subseteq DOMAIN Units[c]
         /\ \A u \in Touched(from, to) : u \in Nat /\ from \div 2 + 1 <= u
<1>1. Touched(from, to) \subseteq 1 .. Len(Units[c])
  BY StreamType DEF Touched
<1>2. from \div 2 + 1 \in Touched(from, to)
  BY StreamType DEF Touched
<1>3. \A u \in Touched(from, to) : u \in Nat /\ from \div 2 + 1 <= u
  BY StreamType DEF Touched
<1> QED
  BY <1>1, <1>2, <1>3, StreamType

-------------------------------------------------------------------------------
(* Tokens                                                                  *)

(* The starts up to a unit, which Token counts, are finitely many and grow.*)
LEMMA CountGrows ==
  ASSUME NEW c \in Conns, NEW from \in 0 .. End(c), NEW to \in 0 .. End(c),
         NEW u \in Int, NEW w \in Int, u <= w
  PROVE  LET upTo(x) == {s \in Starts(c, from, to) : s <= x}
         IN  /\ IsFiniteSet(upTo(u))
             /\ Cardinality(upTo(u)) \in Nat
             /\ Cardinality(upTo(u)) <= Cardinality(upTo(w))
<1> DEFINE upTo(x) == {s \in Starts(c, from, to) : s <= x}
<1>1. IsFiniteSet(Touched(from, to))
  <2>1. from \div 2 + 1 \in Int /\ (to + 1) \div 2 \in Int
    BY StreamType
  <2> QED
    BY <2>1, FS_Interval DEF Touched
<1>2. upTo(w) \in SUBSET Touched(from, to)
  BY DEF Starts
<1>3. IsFiniteSet(upTo(w))
  BY <1>1, <1>2, FS_Subset
<1>4. upTo(u) \in SUBSET upTo(w)
  BY DEF Starts, Touched
<1>5. IsFiniteSet(upTo(u)) /\ Cardinality(upTo(u)) <= Cardinality(upTo(w))
  BY <1>3, <1>4, FS_Subset
<1>6. Cardinality(upTo(u)) \in Nat
  BY <1>5, FS_CardinalityType
<1> QED
  BY <1>5, <1>6

(* From a header in the first token on, every number starts a token.       *)
LEMMA CountBehindHeader ==
  ASSUME NEW c \in Conns, NEW from \in 0 .. End(c), NEW to \in 0 .. End(c), from < to,
         NEW h \in Token(c, from, to, 1), Units[c][h].n = 0,
         NEW u \in Touched(from, to), h <= u, u <= h + Numbers[Units[c][h].kind]
  PROVE  Cardinality({s \in Starts(c, from, to) : s <= u}) = (u - h) + 1
<1> DEFINE upTo(x) == {s \in Starts(c, from, to) : s <= x}
           first == from \div 2 + 1
<1>1. h \in Touched(from, to) /\ Cardinality(upTo(h)) = 1
  BY DEF Token
<1>2. /\ first \in Touched(from, to) /\ first \in Nat /\ first <= h
      /\ h \in DOMAIN Units[c] /\ h \in Nat /\ u \in Nat
  BY <1>1, TouchedInStream
<1>3. first \in upTo(h)
  BY <1>2 DEF Starts
<1>4. upTo(h) = {first}
  <2>1. IsFiniteSet(upTo(h))
    <3>1. h \in Int /\ h <= h
      BY <1>2
    <3> QED
      BY <3>1, CountGrows
  <2>2. PICK x : upTo(h) = {x}
    BY <1>1, <2>1, FS_Singleton
  <2> QED
    BY <1>3, <2>2
<1>5. \A s \in h + 1 .. u : s \in Starts(c, from, to)
  <2> SUFFICES ASSUME NEW s \in h + 1 .. u
               PROVE  s \in Starts(c, from, to)
    OBVIOUS
  <2>1. s - h \in 0 .. Numbers[Units[c][h].kind] /\ h + (s - h) = s /\ s - h > 0
    BY <1>2, UnitType
  <2>2. Units[c][s].n = s - h
    BY <1>2, <2>1, HeaderNumbers
  <2>3. s \in Touched(from, to)
    BY <1>1, <1>2, StreamType DEF Touched
  <2> QED
    BY <2>1, <2>2, <2>3 DEF Starts
<1>6. upTo(u) = {first} \cup (h + 1 .. u)
  <2>1. ASSUME NEW s \in upTo(u)
        PROVE  s \in {first} \cup (h + 1 .. u)
    <3>1. s \in Int /\ s <= u
      BY DEF Starts, Touched
    <3>2. CASE s <= h
      BY <1>4, <3>2
    <3>3. CASE ~(s <= h)
      BY <1>2, <3>1, <3>3
    <3> QED
      BY <3>2, <3>3
  <2>2. ASSUME NEW s \in h + 1 .. u
        PROVE  s \in upTo(u)
    BY <1>2, <1>5
  <2>3. first \in upTo(u)
    BY <1>2, <1>3
  <2> QED
    BY <2>1, <2>2, <2>3
<1>7. IsFiniteSet(h + 1 .. u) /\ Cardinality(h + 1 .. u) = u - h
  <2>1. h + 1 \in Int /\ u \in Int
    BY <1>2
  <2>2. /\ IsFiniteSet(h + 1 .. u)
        /\ Cardinality(h + 1 .. u) = IF h + 1 > u THEN 0 ELSE u - (h + 1) + 1
    BY <2>1, FS_Interval
  <2> QED
    BY <1>2, <2>2
<1>8. first \notin h + 1 .. u
  BY <1>2
<1>9. Cardinality((h + 1 .. u) \cup {first}) = Cardinality(h + 1 .. u) + 1
  BY <1>7, <1>8, FS_AddElement, Zenon
<1>10. upTo(u) = (h + 1 .. u) \cup {first}
  BY <1>6
<1> QED
  BY <1>7, <1>9, <1>10

(* So the token of the i-th number of that message begins with the number. *)
LEMMA TokenBehindHeader ==
  ASSUME NEW c \in Conns, NEW from \in 0 .. End(c), NEW to \in 0 .. End(c), from < to,
         NEW h \in Token(c, from, to, 1), Units[c][h].n = 0,
         NEW i \in 1 .. Numbers[Units[c][h].kind]
  PROVE  LET token == Token(c, from, to, i + 1)
         IN  IF h + i \in Touched(from, to)
               THEN h + i \in token /\ \A w \in token : h + i <= w
               ELSE token = {}
<1> DEFINE upTo(x) == {s \in Starts(c, from, to) : s <= x}
           last == (to + 1) \div 2
<1>1. h \in Touched(from, to) /\ h \in DOMAIN Units[c] /\ h \in Nat
  BY TouchedInStream DEF Token
<1>2. Numbers[Units[c][h].kind] \in Nat
  BY <1>1, UnitType
<1>3. last \in Int /\ h <= last /\ \A x \in Touched(from, to) : x \in Nat /\ x <= last
  BY <1>1, StreamType, TouchedInStream DEF Touched
<1>4. ASSUME NEW w \in Token(c, from, to, i + 1)
      PROVE  w \in Touched(from, to) /\ Cardinality(upTo(w)) = i + 1
  BY DEF Token
<1>5. CASE h + i \in Touched(from, to)
  <2>1. h + i \in Token(c, from, to, i + 1)
    <3>1. h <= h + i /\ h + i <= h + Numbers[Units[c][h].kind] /\ (h + i) - h = i
      BY <1>1, <1>2
    <3>2. Cardinality(upTo(h + i)) = ((h + i) - h) + 1
      BY <1>5, <3>1, CountBehindHeader
    <3> QED
      BY <1>5, <3>1, <3>2 DEF Token
  <2>2. \A w \in Token(c, from, to, i + 1) : h + i <= w
    <3> SUFFICES ASSUME NEW w \in Token(c, from, to, i + 1), ~(h + i <= w)
                 PROVE  FALSE
      OBVIOUS
    <3> DEFINE v == h + (i - 1)
    <3>1. /\ v \in Int /\ v <= h + i
          /\ h <= v /\ v <= h + Numbers[Units[c][h].kind] /\ v - h = i - 1
      BY <1>1, <1>2
    <3>2. v \in Touched(from, to)
      BY <1>1, <1>5, <3>1, StreamType DEF Touched
    <3>3. Cardinality(upTo(v)) = (v - h) + 1
      BY <3>1, <3>2, CountBehindHeader
    <3>4. w \in Int /\ w <= v
      <4>1. w \in Touched(from, to)
        BY <1>4
      <4>2. w \in Nat
        BY <1>3, <4>1
      <4> QED
        BY <1>1, <4>2
    <3>5. Cardinality(upTo(w)) <= Cardinality(upTo(v))
      BY <3>1, <3>4, CountGrows
    <3>6. Cardinality(upTo(w)) = i + 1
      BY <1>4
    <3> QED
      BY <3>1, <3>3, <3>5, <3>6
  <2> QED
    BY <1>5, <2>1, <2>2
<1>6. CASE h + i \notin Touched(from, to)
  <2> SUFFICES ASSUME NEW w \in Token(c, from, to, i + 1)
               PROVE  FALSE
    BY <1>6
  <2>1. last \in Touched(from, to) /\ last <= h + (i - 1)
    BY <1>1, <1>2, <1>3, <1>6, StreamType DEF Touched
  <2>2. Cardinality(upTo(last)) = (last - h) + 1
    BY <1>1, <1>2, <1>3, <2>1, CountBehindHeader
  <2>3. w <= last /\ w \in Int
    <3>1. w \in Touched(from, to)
      BY <1>4
    <3> QED
      BY <1>3, <3>1
  <2>4. Cardinality(upTo(w)) <= Cardinality(upTo(last))
    BY <1>3, <2>3, CountGrows
  <2>5. Cardinality(upTo(w)) = i + 1
    BY <1>4
  <2> QED
    BY <1>1, <1>2, <1>3, <2>1, <2>2, <2>4, <2>5
<1> QED
  BY <1>5, <1>6

-------------------------------------------------------------------------------
(* Numbers in their places                                                 *)

LEMMA ValuesApart ==
  ASSUME NEW c, NEW u, NEW d, NEW v
  PROVE  /\ <<c, u>> # <<"garbage">> /\ <<c, u>> # <<"piece">> /\ <<c, u>> # <<"boot">>
         /\ <<c, u>> = <<d, v>> => c = d /\ u = v
  OBVIOUS

LEMMA KindNames ==
  /\ "none" \notin Kinds /\ "outside" \notin Kinds
  /\ {"Conv1", "Conv2", "Lin", "Start_Calc"} \cap Strips = {}
  BY SessionAssumption DEF Kinds

(* The headers found in a token are units of the token.                    *)
LEMMA NamesInToken ==
  ASSUME NEW c, NEW token, NEW from, NEW to, NEW name \in Names(c, token, from, to)
  PROVE  \E h \in token : /\ Units[c][h].n = 0 /\ Units[c][h].kind = name
                          /\ Whole(h, from, to)
  BY DEF Names

(* A load is asked for by a header in the first token, whole or with its   *)
(* digit cut off by the end of the payload.                                *)
LEMMA JobFromHeader ==
  ASSUME NEW c, NEW from, NEW to, NEW token,
         NEW job \in Jobs(Names(c, token, from, to), DigitCut(c, token, from, to)),
         job \in Kinds
  PROVE  \E h \in token : /\ Units[c][h].n = 0
                          /\ Units[c][h].kind = job \/ to = 2 * h - 1
<1> DEFINE names == Names(c, token, from, to)
<1>1. job \in names \/ DigitCut(c, token, from, to)
  <2>1. CASE names \cap Strips # {}
    <3>1. (CHOOSE s \in names \cap Strips : TRUE) \in names \cap Strips
      BY <2>1
    <3> QED
      BY <2>1, <3>1, KindNames DEF Jobs
  <2>2. CASE names \cap Strips = {}
    BY <2>2, KindNames DEF Jobs
  <2> QED
    BY <2>1, <2>2
<1>2. CASE job \in names
  BY <1>2, NamesInToken
<1>3. CASE DigitCut(c, token, from, to)
  BY <1>3 DEF DigitCut
<1> QED
  BY <1>1, <1>2, <1>3

(* A number that the load of a job stores whole is the job's own.          *)
LEMMA LoadedInPlace ==
  ASSUME NEW c \in Conns, NEW from \in 0 .. End(c), NEW to \in 0 .. End(c), from < to,
         NEW job \in Jobs(Names(c, Token(c, from, to, 1), from, to),
                          DigitCut(c, Token(c, from, to, 1), from, to)),
         job \in Kinds, NEW i \in 1 .. Numbers[job],
         NEW d, NEW u, Value(c, Token(c, from, to, i + 1), from, to) = <<d, u>>
  PROVE  d = c /\ u \in DOMAIN Units[c] /\ Units[c][u].kind = job /\ Units[c][u].n = i
<1> DEFINE token == Token(c, from, to, i + 1)
           least == CHOOSE v \in token : \A w \in token : v <= w
           upTo(x) == {s \in Starts(c, from, to) : s <= x}
<1>1. token # {} /\ <<d, u>> = <<c, least>>
  BY ValuesApart DEF Value
<1>2. d = c /\ u = least
  BY <1>1, ValuesApart
<1>3. PICK h \in Token(c, from, to, 1) :
        Units[c][h].n = 0 /\ (Units[c][h].kind = job \/ to = 2 * h - 1)
  BY JobFromHeader
<1>4. h \in Touched(from, to) /\ h \in DOMAIN Units[c] /\ h \in Nat
  BY TouchedInStream DEF Token
<1>5. Numbers[job] \in Nat
  BY SessionAssumption
<1>6. CASE Units[c][h].kind = job
  <2>1. h + i \in token /\ \A w \in token : h + i <= w
    BY <1>1, <1>3, <1>6, TokenBehindHeader
  <2>2. least \in token /\ least <= h + i
    BY <2>1
  <2>3. least = h + i
    <3>1. least \in Nat /\ h + i \in Nat /\ h + i <= least
      BY <1>4, <1>5, <2>1, <2>2, TouchedInStream DEF Token
    <3> QED
      BY <2>2, <3>1
  <2>4. i \in 0 .. Numbers[Units[c][h].kind]
    BY <1>5, <1>6
  <2>5. h + i \in DOMAIN Units[c] /\ Units[c][h + i].kind = job /\ Units[c][h + i].n = i
    BY <1>3, <1>4, <1>6, <2>4, HeaderNumbers
  <2> QED
    BY <1>2, <2>3, <2>5
<1>7. CASE to = 2 * h - 1
  <2>1. PICK w : w \in token
    BY <1>1
  <2>2. w \in Touched(from, to) /\ Cardinality(upTo(w)) = i + 1
    BY <2>1 DEF Token
  <2>3. w \in Int /\ h \in Int /\ w <= h
    BY <1>4, <1>7, <2>2, StreamType DEF Touched
  <2>4. Cardinality(upTo(w)) <= Cardinality(upTo(h))
    BY <2>3, CountGrows
  <2>5. Cardinality(upTo(h)) = 1
    BY <1>3 DEF Token
  <2> QED
    BY <1>5, <2>2, <2>4, <2>5
<1> QED
  BY <1>3, <1>6, <1>7


LEMMA PlaceType ==
  ASSUME NEW p \in Places
  PROVE  p[1] \in Kinds /\ p[2] \in 1 .. Numbers[p[1]] /\ p = <<p[1], p[2]>>
<1>1. PICK k \in Kinds : p \in {k} \X (1 .. Numbers[k])
  BY DEF Places
<1> QED
  BY <1>1

-------------------------------------------------------------------------------
(* Types                                                                   *)

(* What a delivery does, with its cuts named.                              *)
Delivery(c, end, to, room) ==
  /\ end - pos[c] <= Window - lost[c]
  /\ pos' = [pos EXCEPT ![c] = end]
  /\ lost' = [lost EXCEPT ![c] = @ + (end - pos[c]) - GivenBack(pos[c], to)]
  /\ IF room THEN Handle(c, pos[c], to) ELSE UNCHANGED <<mem, calcs>>
  /\ intact' = (intact /\ room /\ to = end /\ IsMessage(c, pos[c], to))
  /\ Note(c, pos[c], end)
  /\ UNCHANGED connected

LEMMA DeliveryCuts ==
  ASSUME TypeOK, NEW c \in Conns, recv_callback(c)
  PROVE  \E end, to \in 0 .. End(c), room \in BOOLEAN :
           /\ pos[c] \in 0 .. End(c) /\ pos[c] < to /\ to <= end
           /\ Delivery(c, end, to, room)
<1>1. PICK end \in pos[c] + 1 .. End(c) :
        \E to \in pos[c] + 1 .. end : \E room \in BOOLEAN : Delivery(c, end, to, room)
  BY DEF recv_callback, Delivery
<1>2. pos[c] \in Nat /\ End(c) \in Nat
  BY StreamType DEF TypeOK
<1>3. PICK to \in pos[c] + 1 .. end : \E room \in BOOLEAN : Delivery(c, end, to, room)
  BY <1>1
<1>4. /\ end \in 0 .. End(c) /\ to \in 0 .. End(c)
      /\ pos[c] \in 0 .. End(c) /\ pos[c] < to /\ to <= end
  BY <1>2
<1> QED
  BY <1>3, <1>4

(* What a number received with room changes: places, and the calculations  *)
(* of the client that sent it.                                             *)
LEMMA HandleType ==
  ASSUME TypeOK, NEW c \in Conns, NEW from, NEW to, Handle(c, from, to)
  PROVE  /\ DOMAIN mem' = Places
         /\ calcs' \in [Conns -> Nat]
<1>1. calcs \in [Conns -> Nat]
  BY DEF TypeOK
<1>2. DOMAIN mem' = Places
  BY DEF Handle, Load
<1>3. calcs' = [calcs EXCEPT ![c] = @ + 1] \/ calcs' = calcs
  BY DEF Handle
<1> QED
  BY <1>1, <1>2, <1>3

(* The type invariant: no delivery is larger than the window left, and     *)
(* what tcp_recved does not give back never exceeds the window.            *)
THEOREM TypeCorrect == Spec => []TypeOK
<1>1. Init => TypeOK
  <2> SUFFICES ASSUME Init PROVE TypeOK
    OBVIOUS
  <2>1. pos \in [Conns -> Nat] /\ \A c \in Conns : pos[c] <= End(c)
    BY StreamType DEF Init
  <2>2. lost \in [Conns -> 0 .. Window] /\ calcs \in [Conns -> Nat]
    BY SessionAssumption DEF Init
  <2>3. DOMAIN mem = Places /\ DOMAIN sent = Places
    BY DEF Init
  <2>4. connected \subseteq Conns /\ intact \in BOOLEAN
    BY DEF Init
  <2> QED
    BY <2>1, <2>2, <2>3, <2>4 DEF TypeOK
<1>2. TypeOK /\ [Next]_vars => TypeOK'
  <2> SUFFICES ASSUME TypeOK, [Next]_vars PROVE TypeOK'
    OBVIOUS
  <2>1. ASSUME NEW c \in Conns, accept_callback(c) PROVE TypeOK'
    BY <2>1 DEF TypeOK, accept_callback, End
  <2>2. ASSUME NEW c \in Conns, recv_callback(c) PROVE TypeOK'
    <3>1. PICK end \in 0 .. End(c), to \in 0 .. End(c), room \in BOOLEAN :
            /\ pos[c] \in 0 .. End(c) /\ pos[c] < to /\ to <= end
            /\ Delivery(c, end, to, room)
      BY <2>2, DeliveryCuts
    <3>2. connected' \subseteq Conns /\ intact' \in BOOLEAN
      BY <3>1 DEF TypeOK, Delivery
    <3>3. pos' \in [Conns -> Nat] /\ \A d \in Conns : (pos[d] <= End(d))'
      BY <3>1, StreamType DEF TypeOK, Delivery, End
    <3>4. lost' \in [Conns -> 0 .. Window]
      <4>1. lost[c] \in 0 .. Window /\ Window \in Nat
        BY SessionAssumption DEF TypeOK
      <4>2. lost[c] + (end - pos[c]) - GivenBack(pos[c], to) \in 0 .. Window
        BY <3>1, <4>1, StreamType DEF Delivery, GivenBack
      <4> QED
        BY <3>1, <4>2 DEF Delivery, TypeOK
    <3>5. DOMAIN mem' = Places /\ calcs' \in [Conns -> Nat]
      <4>1. CASE room
        BY <3>1, <4>1, HandleType DEF Delivery
      <4>2. CASE ~room
        BY <3>1, <4>2 DEF Delivery, TypeOK
      <4> QED
        BY <4>1, <4>2
    <3>6. DOMAIN sent' = Places
      BY <3>1 DEF Delivery, Note, TypeOK
    <3> QED
      BY <3>2, <3>3, <3>4, <3>5, <3>6 DEF TypeOK, End
  <2>3. ASSUME NEW c \in Conns, Closed(c) PROVE TypeOK'
    <3>1. pos' \in [Conns -> Nat] /\ \A d \in Conns : (pos[d] <= End(d))'
      BY <2>3, StreamType DEF TypeOK, Closed, End
    <3> QED
      BY <2>3, <3>1 DEF TypeOK, Closed
  <2>4. CASE UNCHANGED vars
    BY <2>4 DEF TypeOK, vars, End
  <2> QED
    BY <2>1, <2>2, <2>3, <2>4 DEF Next
<1> QED
  BY <1>1, <1>2, PTL DEF Spec


-------------------------------------------------------------------------------
(* Places                                                                  *)

LEMMA HandleKeepsPlaces ==
  ASSUME OwnPlace, NEW c \in Conns, NEW from \in 0 .. End(c), NEW to \in 0 .. End(c),
         from < to, Handle(c, from, to)
  PROVE  OwnPlace'
<1> SUFFICES ASSUME NEW p \in Places, NEW d \in Conns, NEW u \in DOMAIN Units[d],
                    mem'[p] = <<d, u>>
             PROVE  p = <<Units[d][u].kind, Units[d][u].n>>
  BY DEF OwnPlace
<1>1. PICK job \in Jobs(Names(c, Token(c, from, to, 1), from, to),
                        DigitCut(c, Token(c, from, to, 1), from, to)) :
        mem' = Load(c, job, from, to)
  BY DEF Handle
<1>2. p[1] \in Kinds /\ p[2] \in 1 .. Numbers[p[1]] /\ p = <<p[1], p[2]>>
  BY PlaceType
<1>3. CASE p[1] = job
  <2>1. Value(c, Token(c, from, to, p[2] + 1), from, to) = <<d, u>>
    BY <1>1, <1>3 DEF Load
  <2>2. d = c /\ Units[c][u].kind = job /\ Units[c][u].n = p[2]
    BY <1>2, <1>3, <2>1, LoadedInPlace
  <2> QED
    BY <1>2, <1>3, <2>2
<1>4. CASE p[1] # job
  <2>1. mem[p] = <<d, u>>
    BY <1>1, <1>4 DEF Load
  <2> QED
    BY <2>1 DEF OwnPlace
<1> QED
  BY <1>3, <1>4

(* However the stream is cut, joined and shared, recv_callback stores a    *)
(* number that it reads whole in the number's own place.                   *)
THEOREM NumbersInPlace == Spec => []OwnPlace
<1>1. Init => OwnPlace
  <2> SUFFICES ASSUME Init, NEW p \in Places, NEW c \in Conns, NEW u \in DOMAIN Units[c]
               PROVE  mem[p] # <<c, u>>
    BY DEF OwnPlace
  <2>1. mem[p] = <<"boot">>
    BY DEF Init
  <2> QED
    BY <2>1, ValuesApart
<1>2. TypeOK /\ OwnPlace /\ [Next]_vars => OwnPlace'
  <2> SUFFICES ASSUME TypeOK, OwnPlace, [Next]_vars PROVE OwnPlace'
    OBVIOUS
  <2>1. ASSUME NEW c \in Conns, accept_callback(c) PROVE OwnPlace'
    BY <2>1 DEF OwnPlace, accept_callback
  <2>2. ASSUME NEW c \in Conns, recv_callback(c) PROVE OwnPlace'
    <3>1. PICK end \in 0 .. End(c), to \in 0 .. End(c), room \in BOOLEAN :
            /\ pos[c] \in 0 .. End(c) /\ pos[c] < to /\ to <= end
            /\ Delivery(c, end, to, room)
      BY <2>2, DeliveryCuts
    <3>2. CASE room
      BY <3>1, <3>2, HandleKeepsPlaces DEF Delivery
    <3>3. CASE ~room
      BY <3>1, <3>3 DEF Delivery, OwnPlace
    <3> QED
      BY <3>2, <3>3
  <2>3. ASSUME NEW c \in Conns, Closed(c) PROVE OwnPlace'
    BY <2>3 DEF OwnPlace, Closed
  <2>4. CASE UNCHANGED vars
    BY <2>4 DEF OwnPlace, vars
  <2> QED
    BY <2>1, <2>2, <2>3, <2>4 DEF Next
<1> QED
  BY <1>1, <1>2, TypeCorrect, PTL DEF Spec

-------------------------------------------------------------------------------
(* Whole messages                                                          *)

(* Between two cuts that enclose one message there is nothing else: its    *)
(* header begins the first token, and all of its numbers have come.        *)
LEMMA MessageUnits ==
  ASSUME NEW c \in Conns, NEW from \in 0 .. End(c), NEW to \in 0 .. End(c), from < to,
         IsMessage(c, from, to)
  PROVE  LET h == from \div 2 + 1
         IN  /\ h \in Token(c, from, to, 1) /\ Whole(h, from, to)
             /\ h \in Nat /\ h \in DOMAIN Units[c] /\ Units[c][h].n = 0
             /\ \A u \in Touched(from, to) : Units[c][u].n = 0 => u = h
             /\ \A i \in 1 .. Numbers[Units[c][h].kind] :
                  h + i \in Touched(from, to) /\ Whole(h + i, from, to)
<1> DEFINE h == from \div 2 + 1
           last == to \div 2
<1>1. /\ from \in Nat /\ to \in Nat /\ from % 2 = 0 /\ to % 2 = 0
      /\ from = 2 * (h - 1) /\ to = 2 * last /\ last \in Nat /\ h \in Nat
      /\ Touched(from, to) = h .. last
  <2>1. from \in Nat /\ to \in Nat /\ from % 2 = 0 /\ to % 2 = 0
    BY StreamType DEF IsMessage
  <2>2. from = 2 * (h - 1) /\ to = 2 * last /\ last \in Nat /\ h \in Nat
    BY <2>1
  <2>3. (to + 1) \div 2 = last
    BY <2>2
  <2> QED
    BY <2>1, <2>2, <2>3 DEF Touched
<1>2. \A u \in Touched(from, to) : Units[c][u].n = 0 => u = h
  BY DEF IsMessage
<1>3. h \in Touched(from, to) /\ Units[c][h].n = 0
  BY DEF IsMessage
<1>4. h \in DOMAIN Units[c]
  BY <1>3, TouchedInStream
<1>5. Whole(h, from, to)
  BY <1>1, <1>3 DEF Whole
<1>6. h \in Token(c, from, to, 1)
  <2>1. {s \in Starts(c, from, to) : s <= h} = {h}
    BY <1>1, <1>3 DEF Starts
  <2>2. Cardinality({h}) = 1
    BY FS_Singleton
  <2> QED
    BY <1>3, <2>1, <2>2 DEF Token
<1>7. ASSUME NEW i \in 1 .. Numbers[Units[c][h].kind]
      PROVE  h + i \in Touched(from, to) /\ Whole(h + i, from, to)
  <2>0. Numbers[Units[c][h].kind] \in Nat
    BY <1>4, UnitType
  <2>1. i \in 0 .. Numbers[Units[c][h].kind] /\ i \in Nat
    BY <2>0
  <2>2. h + i \in DOMAIN Units[c]
    BY <1>3, <1>4, <2>1, HeaderNumbers
  <2>3. h + i <= last
    <3> SUFFICES ASSUME ~(h + i <= last) PROVE FALSE
      BY <1>1, <2>1
    <3> DEFINE j == last + 1 - h
    <3>1. j \in 1 .. i /\ h + j = last + 1
      BY <1>1, <1>3, <2>1
    <3>2. j \in 0 .. Numbers[Units[c][h].kind] /\ j # 0
      BY <2>0, <3>1
    <3>3. Units[c][h + j].n = j
      BY <1>3, <1>4, <3>2, HeaderNumbers
    <3>4. to # End(c)
      BY <1>1, <2>1, <2>2, StreamType
    <3>5. Units[c][to \div 2 + 1].n = 0
      BY <3>4 DEF IsMessage
    <3> QED
      BY <3>1, <3>2, <3>3, <3>5
  <2>4. h + i \in Touched(from, to)
    BY <1>1, <2>1, <2>3
  <2>5. Whole(h + i, from, to)
    BY <1>1, <2>1, <2>3 DEF Whole
  <2> QED
    BY <2>4, <2>5
<1> QED
  BY <1>1, <1>2, <1>3, <1>4, <1>5, <1>6, <1>7

(* recv_callback stores a whole message as it was sent.                    *)
LEMMA HandleMessage ==
  ASSUME NEW c \in Conns, NEW from \in 0 .. End(c), NEW to \in 0 .. End(c), from < to,
         IsMessage(c, from, to), Handle(c, from, to), Note(c, from, to), mem = sent
  PROVE  mem' = sent'
<1> DEFINE h == from \div 2 + 1
           kind == Units[c][h].kind
           first == Token(c, from, to, 1)
<1>1. /\ h \in first /\ Whole(h, from, to)
      /\ h \in Nat /\ h \in DOMAIN Units[c] /\ Units[c][h].n = 0
      /\ \A u \in Touched(from, to) : Units[c][u].n = 0 => u = h
      /\ \A i \in 1 .. Numbers[kind] : h + i \in Touched(from, to) /\ Whole(h + i, from, to)
  BY MessageUnits
<1>2. Names(c, first, from, to) = {kind}
  BY <1>1 DEF Names, Token
<1>3. DigitCut(c, first, from, to) = FALSE
  <2>1. to \in Nat /\ to % 2 = 0
    BY StreamType DEF IsMessage
  <2>2. ASSUME NEW u \in first PROVE to # 2 * u - 1
    <3>1. u \in Nat
      BY TouchedInStream DEF Token
    <3> QED
      BY <2>1, <3>1
  <2> QED
    BY <2>2 DEF DigitCut
<1>4. kind \in Kinds /\ Numbers[kind] \in Nat
  BY <1>1, UnitType
<1>5. PICK job \in Jobs({kind}, FALSE) : mem' = Load(c, job, from, to)
  <2>1. PICK job \in Jobs(Names(c, first, from, to), DigitCut(c, first, from, to)) :
          mem' = Load(c, job, from, to)
    BY DEF Handle
  <2> QED
    BY <1>2, <1>3, <2>1
<1>6. job = kind \/ (job = "none" /\ kind = "Start_Calc")
  <2>1. CASE kind \in Strips
    <3>1. {kind} \cap Strips = {kind}
      BY <2>1
    <3>2. (CHOOSE s \in {kind} \cap Strips : TRUE) = kind
      BY <3>1
    <3>3. kind \notin {"Conv1", "Conv2", "Lin", "Start_Calc"}
      BY <2>1, KindNames
    <3> QED
      BY <1>5, <3>1, <3>2, <3>3 DEF Jobs
  <2>2. CASE kind \notin Strips
    <3>1. {kind} \cap Strips = {}
      BY <2>2
    <3> QED
      BY <1>4, <1>5, <2>2, <3>1 DEF Jobs, Kinds
  <2> QED
    BY <2>1, <2>2
<1>7. sent' = [p \in Places |-> IF p[1] = kind THEN <<c, h + p[2]>> ELSE sent[p]]
  BY DEF Note
<1>8. ASSUME NEW p \in Places
      PROVE  mem'[p] = sent'[p]
  <2>1. p[1] \in Kinds /\ p[2] \in 1 .. Numbers[p[1]]
    BY PlaceType
  <2>2. CASE p[1] = kind
    <3>1. job = kind
      BY <1>6, <2>1, <2>2, SessionAssumption
    <3> DEFINE token == Token(c, from, to, p[2] + 1)
    <3>2. h + p[2] \in token /\ \A w \in token : h + p[2] <= w
      BY <1>1, <2>1, <2>2, TokenBehindHeader
    <3>3. (CHOOSE v \in token : \A w \in token : v <= w) = h + p[2]
      <4>1. ASSUME NEW v \in token, \A w \in token : v <= w
            PROVE  v = h + p[2]
        <5>1. v \in Nat /\ h + p[2] \in Nat
          BY <1>1, <2>1, <2>2, <4>1, TouchedInStream DEF Token
        <5> QED
          BY <3>2, <4>1, <5>1
      <4> QED
        BY <3>2, <4>1
    <3>4. Value(c, token, from, to) = <<c, h + p[2]>>
      BY <1>1, <2>1, <2>2, <3>2, <3>3 DEF Value
    <3> QED
      BY <1>5, <1>7, <2>2, <3>1, <3>4 DEF Load
  <2>3. CASE p[1] # kind
    <3>1. p[1] # job
      BY <1>6, <2>1, <2>3, KindNames
    <3> QED
      BY <1>5, <1>7, <2>3, <3>1 DEF Load
  <2> QED
    BY <2>2, <2>3
<1> QED
  BY <1>5, <1>7, <1>8 DEF Load

(* As long as whole messages are delivered and echoes find room, the       *)
(* memories hold what the clients sent last.                               *)
THEOREM MessagesAsSent == Spec => []SentIsStored
<1>1. Init => SentIsStored
  BY DEF Init, SentIsStored
<1>2. TypeOK /\ SentIsStored /\ [Next]_vars => SentIsStored'
  <2> SUFFICES ASSUME TypeOK, SentIsStored, [Next]_vars PROVE SentIsStored'
    OBVIOUS
  <2>1. ASSUME NEW c \in Conns, accept_callback(c) PROVE SentIsStored'
    BY <2>1 DEF SentIsStored, accept_callback
  <2>2. ASSUME NEW c \in Conns, recv_callback(c) PROVE SentIsStored'
    <3>1. PICK end \in 0 .. End(c), to \in 0 .. End(c), room \in BOOLEAN :
            /\ pos[c] \in 0 .. End(c) /\ pos[c] < to /\ to <= end
            /\ Delivery(c, end, to, room)
      BY <2>2, DeliveryCuts
    <3> SUFFICES ASSUME intact' PROVE mem' = sent'
      BY DEF SentIsStored
    <3>2. /\ intact /\ room /\ to = end /\ IsMessage(c, pos[c], to)
          /\ Handle(c, pos[c], to) /\ Note(c, pos[c], to)
      BY <3>1 DEF Delivery
    <3>3. mem = sent
      BY <3>2 DEF SentIsStored
    <3> QED
      BY <3>1, <3>2, <3>3, HandleMessage
  <2>3. ASSUME NEW c \in Conns, Closed(c) PROVE SentIsStored'
    BY <2>3 DEF SentIsStored, Closed
  <2>4. CASE UNCHANGED vars
    BY <2>4 DEF SentIsStored, vars
  <2> QED
    BY <2>1, <2>2, <2>3, <2>4 DEF Next
<1> QED
  BY <1>1, <1>2, TypeCorrect, PTL DEF Spec


-------------------------------------------------------------------------------
(* Calculations                                                            *)

(* The Start_Calc headers that have come whole at a cut.                   *)
Asked(c, cut) ==
  {u \in DOMAIN Units[c] : Units[c][u].kind = "Start_Calc" /\ 2 * u <= cut}

LEMMA AskedGrows ==
  ASSUME NEW c \in Conns, NEW from \in 0 .. End(c), NEW to \in 0 .. End(c), from <= to
  PROVE  /\ Cardinality(Asked(c, from)) \in Nat /\ Cardinality(Asked(c, to)) \in Nat
         /\ Cardinality(Asked(c, from)) <= Cardinality(Asked(c, to))
         /\ Asked(c, from) # Asked(c, to) =>
              Cardinality(Asked(c, from)) + 1 <= Cardinality(Asked(c, to))
<1>1. IsFiniteSet(DOMAIN Units[c])
  <2>1. 1 \in Int /\ Len(Units[c]) \in Int
    BY StreamType
  <2> QED
    BY <2>1, FS_Interval, StreamType
<1>2. Asked(c, to) \in SUBSET DOMAIN Units[c] /\ Asked(c, from) \in SUBSET Asked(c, to)
  BY StreamType DEF Asked
<1>3. IsFiniteSet(Asked(c, to))
  BY <1>1, <1>2, FS_Subset
<1>4. /\ IsFiniteSet(Asked(c, from))
      /\ Cardinality(Asked(c, from)) <= Cardinality(Asked(c, to))
      /\ Cardinality(Asked(c, from)) = Cardinality(Asked(c, to)) => Asked(c, to) = Asked(c, from)
  BY <1>2, <1>3, FS_Subset
<1>5. Cardinality(Asked(c, from)) \in Nat /\ Cardinality(Asked(c, to)) \in Nat
  BY <1>3, <1>4, FS_CardinalityType
<1> QED
  BY <1>4, <1>5

(* A delivery is answered at most once, and only for a Start_Calc that     *)
(* lies in it whole, and so was in no delivery before.                     *)
LEMMA HandleAsked ==
  ASSUME TypeOK, NEW c \in Conns, NEW to \in 0 .. End(c), pos[c] \in 0 .. End(c),
         pos[c] < to, Handle(c, pos[c], to)
  PROVE  \/ calcs' = calcs
         \/ /\ calcs' = [calcs EXCEPT ![c] = @ + 1]
            /\ Asked(c, pos[c]) # Asked(c, to)
<1>1. PICK job : calcs' = IF "Start_Calc" \in Names(c, LastToken(c, job, pos[c], to), pos[c], to)
                          THEN [calcs EXCEPT ![c] = @ + 1] ELSE calcs
  BY DEF Handle
<1>2. CASE "Start_Calc" \in Names(c, LastToken(c, job, pos[c], to), pos[c], to)
  <2>1. PICK u \in LastToken(c, job, pos[c], to) :
          Units[c][u].kind = "Start_Calc" /\ Whole(u, pos[c], to)
    BY <1>2, NamesInToken
  <2>2. u \in Touched(pos[c], to)
    BY <2>1 DEF LastToken, Token
  <2>3. u \in DOMAIN Units[c] /\ u \in Nat
    BY <2>2, TouchedInStream
  <2>4. u \in Asked(c, to) /\ u \notin Asked(c, pos[c])
    BY <2>1, <2>3, StreamType DEF Asked, Whole
  <2> QED
    BY <1>1, <1>2, <2>4
<1>3. CASE "Start_Calc" \notin Names(c, LastToken(c, job, pos[c], to), pos[c], to)
  BY <1>1, <1>3
<1> QED
  BY <1>2, <1>3

(* A client is never answered more often than it asked.                    *)
THEOREM AnswersAsked == Spec => []CalcsAsked
<1> DEFINE Inv(c) == calcs[c] <= Cardinality(Asked(c, pos[c]))
<1>1. Init => CalcsAsked
  <2> SUFFICES ASSUME Init, NEW c \in Conns PROVE Inv(c)
    BY DEF CalcsAsked, Asked
  <2>1. pos[c] = 0 /\ calcs[c] = 0 /\ 0 \in 0 .. End(c)
    BY StreamType DEF Init
  <2>2. Cardinality(Asked(c, pos[c])) \in Nat
    BY <2>1, AskedGrows
  <2> QED
    BY <2>1, <2>2
<1>2. TypeOK /\ CalcsAsked /\ [Next]_vars => CalcsAsked'
  <2> SUFFICES ASSUME TypeOK, CalcsAsked, [Next]_vars, NEW d \in Conns PROVE Inv(d)'
    BY DEF CalcsAsked, Asked
  <2>1. Inv(d) /\ calcs[d] \in Nat /\ pos[d] \in 0 .. End(d)
    BY StreamType DEF TypeOK, CalcsAsked, Asked
  <2>2. ASSUME UNCHANGED <<pos, calcs>> PROVE Inv(d)'
    BY <2>1, <2>2
  <2>3. ASSUME NEW c \in Conns, recv_callback(c) PROVE Inv(d)'
    <3>1. PICK end \in 0 .. End(c), to \in 0 .. End(c), room \in BOOLEAN :
            /\ pos[c] \in 0 .. End(c) /\ pos[c] < to /\ to <= end
            /\ Delivery(c, end, to, room)
      BY <2>3, DeliveryCuts
    <3>2. \/ calcs' = calcs
          \/ /\ calcs' = [calcs EXCEPT ![c] = @ + 1]
             /\ Asked(c, pos[c]) # Asked(c, to)
      BY <3>1, HandleAsked DEF Delivery
    <3>3. pos' = [pos EXCEPT ![c] = end]
      BY <3>1 DEF Delivery
    <3>4. CASE d = c
      <4>1. pos'[d] = end
        BY <3>3, <3>4 DEF TypeOK
      <4>2. calcs'[d] = calcs[d]
            \/ (calcs'[d] = calcs[d] + 1 /\ Asked(c, pos[c]) # Asked(c, to))
        BY <3>2, <3>4 DEF TypeOK
      <4>3. Cardinality(Asked(c, to)) <= Cardinality(Asked(c, end))
            /\ Cardinality(Asked(c, to)) \in Nat /\ Cardinality(Asked(c, end)) \in Nat
        BY <3>1, AskedGrows
      <4>4. /\ Cardinality(Asked(c, pos[c])) \in Nat
            /\ Cardinality(Asked(c, pos[c])) <= Cardinality(Asked(c, to))
            /\ Asked(c, pos[c]) # Asked(c, to) =>
                 Cardinality(Asked(c, pos[c])) + 1 <= Cardinality(Asked(c, to))
        <5>1. pos[c] <= to
          BY <3>1, StreamType
        <5> QED
          BY <3>1, <5>1, AskedGrows
      <4>5. calcs'[d] <= Cardinality(Asked(c, end))
        BY <2>1, <3>4, <4>2, <4>3, <4>4
      <4> QED
        BY <3>4, <4>1, <4>5 DEF Asked
    <3>5. CASE d # c
      <4>1. pos'[d] = pos[d] /\ calcs'[d] = calcs[d]
        BY <3>2, <3>3, <3>5 DEF TypeOK
      <4> QED
        BY <2>1, <4>1 DEF Asked
    <3> QED
      BY <3>4, <3>5
  <2>4. ASSUME NEW c \in Conns, Closed(c) PROVE Inv(d)'
    <3>1. calcs'[d] = calcs[d] /\ pos'[d] \in {pos[d], End(d)}
      BY <2>4 DEF Closed, TypeOK
    <3>2. CASE pos'[d] = pos[d]
      BY <2>1, <3>1, <3>2 DEF Asked
    <3>3. CASE pos'[d] = End(d)
      <4>1. End(d) \in 0 .. End(d) /\ pos[d] <= End(d)
        BY <2>1, StreamType
      <4>2. /\ Cardinality(Asked(d, pos[d])) <= Cardinality(Asked(d, End(d)))
            /\ Cardinality(Asked(d, pos[d])) \in Nat /\ Cardinality(Asked(d, End(d))) \in Nat
        BY <2>1, <4>1, AskedGrows
      <4>3. calcs'[d] <= Cardinality(Asked(d, End(d)))
        BY <2>1, <3>1, <4>2
      <4> QED
        BY <3>3, <4>3 DEF Asked
    <3> QED
      BY <3>1, <3>2, <3>3
  <2>5. ASSUME NEW c \in Conns, accept_callback(c) PROVE Inv(d)'
    BY <2>2, <2>5 DEF accept_callback
  <2>6. CASE UNCHANGED vars
    BY <2>2, <2>6 DEF vars
  <2> QED
    BY <2>3, <2>4, <2>5, <2>6 DEF Next
<1> QED
  BY <1>1, <1>2, TypeCorrect, PTL DEF Spec

=============================================================================
