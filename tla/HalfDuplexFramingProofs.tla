---------------------- MODULE HalfDuplexFramingProofs ----------------------
(***************************************************************************)
(* Proofs about HalfDuplexFraming: what parse_input makes of the bytes that *)
(* to_string writes, for every set of messages, however they are cut.      *)
(***************************************************************************)
EXTENDS HalfDuplexFraming, SequenceFacts

USE DEF SOH, STX, ETX, EOT, ENQ, ACK, DLE, NAK

\* What a parse may return.
Types == {"NONE", "MALFORMED", "ABORT", "INFO", "ACK", "NAK", "EOT", "ENQ"}

Msgs == [type : Types, prefix : Octets, header : Octets, body : Octets]

\* The state of the loop in read_handler.
ParseStates == [msgs : Seq(Msgs), rest : Octets, alive : BOOLEAN]

-----------------------------------------------------------------------------
(* find_first_of.                                                          *)

\* The position found is the first one, and there is none only where none is.
LEMMA FindSpec ==
    ASSUME NEW q \in Octets, NEW C
    PROVE  /\ find(q, C) \in 0 .. Len(q)
           /\ find(q, C) = 0 => \A j \in 1 .. Len(q) : q[j] \notin C
           /\ find(q, C) # 0 => /\ q[find(q, C)] \in C
                                /\ \A j \in 1 .. Len(q) : q[j] \in C => find(q, C) <= j
<1> DEFINE at == {i \in DOMAIN q : q[i] \in C}
<1>1. find(q, C) = IF at = {} THEN 0 ELSE Min(at)
  BY DEF find
<1>2. DOMAIN q = 1 .. Len(q) /\ Len(q) \in Nat
  BY DEF Octets
<1>3. CASE at = {}
  BY <1>1, <1>2, <1>3
<1>4. CASE at # {}
  <2>1. at \subseteq Nat
    BY <1>2
  <2>2. Min(at) \in at /\ \A i \in at : Min(at) <= i
    <3> HIDE DEF at
    <3> QED
      BY <1>4, <2>1, MinLeast, Zenon
  <2> QED
    BY <1>1, <1>2, <1>4, <2>2
<1> QED
  BY <1>3, <1>4

\* The first of the characters is where it is found.
LEMMA FindIs ==
    ASSUME NEW q \in Octets, NEW C, NEW i \in 1 .. Len(q), q[i] \in C,
           \A j \in 1 .. i - 1 : q[j] \notin C
    PROVE  find(q, C) = i
<1>1. Len(q) \in Nat
  BY DEF Octets
<1>2. /\ find(q, C) \in 0 .. Len(q)
      /\ find(q, C) = 0 => \A j \in 1 .. Len(q) : q[j] \notin C
      /\ find(q, C) # 0 => /\ q[find(q, C)] \in C
                           /\ \A j \in 1 .. Len(q) : q[j] \in C => find(q, C) <= j
  BY FindSpec
<1> QED
  BY <1>1, <1>2

\* None is found where there is none.
LEMMA FindNone ==
    ASSUME NEW q \in Octets, NEW C, \A j \in 1 .. Len(q) : q[j] \notin C
    PROVE  find(q, C) = 0
<1>1. /\ find(q, C) \in 0 .. Len(q)
      /\ find(q, C) # 0 => q[find(q, C)] \in C
  BY FindSpec
<1>2. Len(q) \in Nat
  BY DEF Octets
<1> QED
  BY <1>1, <1>2

-----------------------------------------------------------------------------
(* One call of parse_input on any bytes.                                   *)

\* Erasing the front of a string.
LEMMA DropTyped ==
    ASSUME NEW q \in Octets, NEW n \in 0 .. Len(q)
    PROVE  Drop(q, n) \in Octets /\ Len(Drop(q, n)) = Len(q) - n
BY DEF Octets, Drop

\* A piece of a string is a string.
LEMMA PieceTyped ==
    ASSUME NEW q \in Octets, NEW i \in 1 .. Len(q) + 1, NEW j \in 0 .. Len(q)
    PROVE  SubSeq(q, i, j) \in Octets
BY DEF Octets

\* The messages that parse_input makes up itself.
LEMMA MadeUp ==
    ASSUME NEW q \in Octets
    PROVE  /\ Nothing(q).msg \in Msgs /\ Nothing(q).msg.type = "NONE"
           /\ Nothing(q).rest = q
           /\ Malformed.msg \in Msgs /\ Malformed.msg.type = "MALFORMED"
           /\ Malformed.rest = <<>>
           /\ Message("ABORT", <<>>, <<>>, <<>>) \in Msgs
<1>1. <<>> \in Octets
  BY DEF Octets
<1> QED
  BY <1>1 DEF Nothing, Malformed, Message, Msgs, Types

\* The text that only lacks its check byte.
Awaiting(q) ==
    /\ q # <<>> /\ q[1] \in {SOH, STX}
    /\ find(q, {ETX}) = Len(q)

\* What parse_info may do with its input.
LEMMA InfoResult ==
    ASSUME NEW q \in Octets, q # <<>>, q[1] \in {SOH, STX}
    PROVE  LET p == parse_info(q) IN
           /\ p.msg \in Msgs /\ p.rest \in Octets
           /\ p.msg.type # "ABORT"
           /\ p.msg.type = "NONE" => /\ p = Nothing(q)
                                     /\ Len(q) <= MaxMessageLen \/ Awaiting(q)
           /\ p.msg.type # "NONE" =>
                 \/ p = Malformed
                 \/ /\ find(q, {ETX}) \in 1 .. Len(q) - 1
                    /\ Len(p.rest) = Len(q) - (find(q, {ETX}) + 1)
<1> DEFINE stx == find(q, {STX})
           etx == find(q, {ETX})
           header == IF stx > 1 THEN SubSeq(q, 2, stx - 1) ELSE <<>>
           body == SubSeq(q, stx + 1, etx - 1)
           found == Found(Message("INFO", <<>>, header, body), q, etx + 1)
<1>1. stx \in 0 .. Len(q) /\ etx \in 0 .. Len(q) /\ Len(q) \in Nat \ {0}
  BY FindSpec DEF Octets
<1>2. /\ parse_info(q) =
           IF etx = 0
           THEN IF Len(q) > MaxMessageLen THEN Malformed ELSE Nothing(q)
           ELSE IF stx = 0 \/ stx > etx THEN Malformed
           ELSE IF Len(q) = etx THEN Nothing(q)
           ELSE IF etx - 1 > MaxMessageLen THEN Malformed
           ELSE found
  BY DEF parse_info
<1>3. Awaiting(q) <=> etx = Len(q)
  BY DEF Awaiting
<1>4. <<>> \in Octets /\ MaxMessageLen \in Nat
  BY FramingAssumption DEF Octets
<1>5. ASSUME etx # 0, stx # 0, stx <= etx, Len(q) # etx
      PROVE  /\ found.msg \in Msgs /\ found.msg.type = "INFO"
             /\ found.rest \in Octets /\ Len(found.rest) = Len(q) - (etx + 1)
  <2>1. header \in Octets
    <3>1. CASE stx > 1
      <4>1. SubSeq(q, 2, stx - 1) \in Octets
        <5> HIDE DEF stx, etx
        <5> QED
          BY <1>1, <3>1, PieceTyped
      <4> QED
        BY <3>1, <4>1
    <3>2. CASE ~(stx > 1)
      BY <1>4, <3>2
    <3> QED
      BY <3>1, <3>2
  <2> HIDE DEF stx, etx, header
  <2>2. body \in Octets
    BY <1>1, <1>5, PieceTyped
  <2>3. Drop(q, etx + 1) \in Octets /\ Len(Drop(q, etx + 1)) = Len(q) - (etx + 1)
    <3>1. etx + 1 \in 0 .. Len(q)
      BY <1>1, <1>5
    <3> QED
      BY <3>1, DropTyped
  <2> HIDE DEF body
  <2>4. Message("INFO", <<>>, header, body) \in Msgs
    BY <1>4, <2>1, <2>2 DEF Message, Msgs, Types
  <2>5. Message("INFO", <<>>, header, body).type = "INFO"
    BY DEF Message
  <2> QED
    BY <2>3, <2>4, <2>5 DEF Found
<1> HIDE DEF stx, etx, header, body, found
<1>6. CASE etx = 0
  BY <1>1, <1>2, <1>4, <1>6, MadeUp
<1>7. CASE etx # 0 /\ (stx = 0 \/ stx > etx)
  BY <1>1, <1>2, <1>4, <1>7, MadeUp
<1>8. CASE etx # 0 /\ ~(stx = 0 \/ stx > etx) /\ Len(q) = etx
  BY <1>1, <1>2, <1>3, <1>4, <1>8, MadeUp
<1>9. CASE etx # 0 /\ ~(stx = 0 \/ stx > etx) /\ Len(q) # etx
  <2>1. stx <= etx /\ etx \in 1 .. Len(q) - 1
    BY <1>1, <1>9
  <2>2. CASE etx - 1 > MaxMessageLen
    BY <1>2, <1>4, <1>9, <2>2, MadeUp
  <2>3. CASE ~(etx - 1 > MaxMessageLen)
    <3>1. parse_info(q) = found
      BY <1>2, <1>9, <2>3
    <3> QED
      BY <1>5, <1>9, <2>1, <3>1 DEF etx
  <2> QED
    BY <2>2, <2>3
<1> QED
  BY <1>6, <1>7, <1>8, <1>9

\* The supervisory characters and the messages they stand for.
LEMMA Introducers ==
    /\ Range(introducer_of) = {ACK, NAK, EOT, ENQ}
    /\ DOMAIN introducer_of = {"ACK", "NAK", "EOT", "ENQ"}
    /\ type_of(ACK) = "ACK" /\ type_of(NAK) = "NAK"
    /\ type_of(EOT) = "EOT" /\ type_of(ENQ) = "ENQ"
<1>1. /\ DOMAIN introducer_of = {"ACK", "NAK", "EOT", "ENQ"}
      /\ introducer_of["ACK"] = ACK /\ introducer_of["NAK"] = NAK
      /\ introducer_of["EOT"] = EOT /\ introducer_of["ENQ"] = ENQ
  BY DEF introducer_of
<1>2. Range(introducer_of) = {ACK, NAK, EOT, ENQ}
  BY <1>1 DEF Range
<1>3. ASSUME NEW t \in DOMAIN introducer_of PROVE type_of(introducer_of[t]) = t
  <2>1. \A u \in DOMAIN introducer_of : introducer_of[u] = introducer_of[t] => u = t
    BY <1>1
  <2> QED
    BY <2>1 DEF type_of
<1> QED
  BY <1>1, <1>2, <1>3

\* What one call of parse_input may do, whatever the input is.
LEMMA ParseResult ==
    ASSUME NEW q \in Octets
    PROVE  LET p == parse_input(q) IN
           /\ p.msg \in Msgs /\ p.rest \in Octets
           /\ p.msg.type = "NONE" => /\ p = Nothing(q)
                                     /\ Len(q) <= MaxMessageLen \/ Awaiting(q)
           /\ p.msg.type # "NONE" => q # <<>> /\ Len(p.rest) < Len(q)
<1> DEFINE pos == find(q, MSG_START_CHARACTERS)
           prefix == SubSeq(q, 1, pos - 1)
           Signal(typ) == Found(Message(typ, prefix, <<>>, <<>>), q, pos)
           abort == Found(Message("ABORT", <<>>, <<>>, <<>>), q, pos)
<1>1. pos \in 0 .. Len(q) /\ Len(q) \in Nat /\ (pos # 0 => q[pos] \in MSG_START_CHARACTERS)
  BY FindSpec DEF Octets
<1>2. parse_input(q) =
        IF pos = 0
        THEN IF Len(q) > MaxPrefixLen THEN Malformed ELSE Nothing(q)
        ELSE IF \E i \in DOMAIN prefix : ~isgraph(prefix[i]) THEN Malformed
        ELSE IF q[pos] \in Range(introducer_of) THEN Signal(type_of(q[pos]))
        ELSE IF q[pos] = DLE THEN abort
        ELSE IF prefix # <<>> THEN Malformed ELSE parse_info(q)
  BY DEF parse_input
<1>3. <<>> \in Octets /\ Len(<<>>) = 0 /\ MaxMessageLen \in Nat /\ MaxPrefixLen \in Nat
      /\ MaxPrefixLen <= MaxMessageLen
  BY FramingAssumption DEF Octets
<1> HIDE DEF pos, prefix, Signal, abort
<1>4. CASE pos = 0
  <2>1. CASE Len(q) > MaxPrefixLen
    <3>1. parse_input(q) = Malformed /\ Len(q) > 0 /\ q # <<>>
      BY <1>1, <1>2, <1>3, <1>4, <2>1
    <3> QED
      BY <1>3, <3>1, MadeUp
  <2>2. CASE ~(Len(q) > MaxPrefixLen)
    <3>1. parse_input(q) = Nothing(q) /\ Len(q) <= MaxMessageLen
      BY <1>1, <1>2, <1>3, <1>4, <2>2, SMTT(60)
    <3> QED
      BY <1>3, <3>1, MadeUp
  <2> QED
    BY <2>1, <2>2
<1>5. CASE pos # 0
  <2>0. q # <<>> /\ Len(q) > 0 /\ pos \in 1 .. Len(q)
    BY <1>1, <1>3, <1>5
  <2>1. CASE \E i \in DOMAIN prefix : ~isgraph(prefix[i])
    <3>1. parse_input(q) = Malformed
      BY <1>2, <1>5, <2>1
    <3> QED
      BY <1>3, <2>0, <3>1, MadeUp
  <2> DEFINE graph == ~\E i \in DOMAIN prefix : ~isgraph(prefix[i])
  <2>2. /\ prefix \in Octets
        /\ Drop(q, pos) \in Octets /\ Len(Drop(q, pos)) < Len(q)
    <3>1. prefix \in Octets
      BY <2>0, <1>1, PieceTyped DEF prefix
    <3>2. Drop(q, pos) \in Octets /\ Len(Drop(q, pos)) = Len(q) - pos
      BY <2>0, DropTyped
    <3> QED
      BY <1>1, <2>0, <3>1, <3>2
  <2>3. CASE graph /\ q[pos] \in Range(introducer_of)
    <3>1. type_of(q[pos]) \in {"ACK", "NAK", "EOT", "ENQ"}
      BY <2>3, Introducers
    <3> DEFINE typ == type_of(q[pos])
               m == Message(typ, prefix, <<>>, <<>>)
    <3>2. parse_input(q) = [msg |-> m, rest |-> Drop(q, pos)]
      BY <1>2, <1>5, <2>3 DEF Signal, Found
    <3> HIDE DEF typ
    <3>3. m \in Msgs /\ m.type # "NONE"
      BY <1>3, <2>2, <3>1 DEF Message, Msgs, Types, typ
    <3> HIDE DEF m
    <3> QED
      BY <2>0, <2>2, <3>2, <3>3
  <2>4. CASE graph /\ q[pos] \notin Range(introducer_of) /\ q[pos] = DLE
    <3> DEFINE m == Message("ABORT", <<>>, <<>>, <<>>)
    <3>1. parse_input(q) = [msg |-> m, rest |-> Drop(q, pos)]
      BY <1>2, <1>5, <2>4 DEF abort, Found
    <3>2. m \in Msgs /\ m.type # "NONE"
      BY MadeUp DEF Message
    <3> HIDE DEF m
    <3> QED
      BY <2>0, <2>2, <3>1, <3>2
  <2>5. CASE graph /\ q[pos] \notin Range(introducer_of) /\ q[pos] # DLE
    <3>1. CASE prefix # <<>>
      <4>1. parse_input(q) = Malformed
        BY <1>2, <1>5, <2>5, <3>1
      <4> QED
        BY <1>3, <2>0, <4>1, MadeUp
    <3>2. CASE prefix = <<>>
      <4>1. parse_input(q) = parse_info(q)
        BY <1>2, <1>5, <2>5, <3>2
      <4>2. pos = 1
        <5>1. Len(prefix) = pos - 1
          BY <1>1, <2>0 DEF prefix, Octets
        <5> QED
          BY <1>1, <2>0, <3>2, <5>1
      <4>3. q[1] \in {SOH, STX}
        BY <1>1, <1>5, <2>5, <4>2, Introducers DEF MSG_START_CHARACTERS
      <4> DEFINE p == parse_info(q)
                 etx == find(q, {ETX})
      <4>4. /\ p.msg \in Msgs /\ p.rest \in Octets
            /\ p.msg.type = "NONE" => /\ p = Nothing(q)
                                      /\ Len(q) <= MaxMessageLen \/ Awaiting(q)
            /\ p.msg.type # "NONE" =>
                  p = Malformed \/ (etx \in 1 .. Len(q) - 1
                                     /\ Len(p.rest) = Len(q) - (etx + 1))
        BY <2>0, <4>3, InfoResult
      <4> HIDE DEF p, etx
      <4>5. ASSUME p.msg.type # "NONE" PROVE Len(p.rest) < Len(q)
        BY <1>1, <1>3, <2>0, <4>4, <4>5, MadeUp
      <4> QED
        BY <2>0, <4>1, <4>4, <4>5 DEF p
    <3> QED
      BY <3>1, <3>2
  <2> QED
    BY <2>1, <2>3, <2>4, <2>5
<1> QED
  BY <1>4, <1>5

-----------------------------------------------------------------------------
(* The loop of read_handler.                                               *)

\* A turn of the loop leaves a state of the loop.
LEMMA TurnTyped ==
    ASSUME NEW s \in ParseStates
    PROVE  parse_turn(s) \in ParseStates
<1> DEFINE p == parse_input(s.rest)
           ms == IF p.msg.type \in {"NONE", "ABORT"} THEN s.msgs
                 ELSE Append(s.msgs, p.msg)
<1>1. s.rest \in Octets /\ s.msgs \in Seq(Msgs) /\ s.alive \in BOOLEAN
  BY DEF ParseStates
<1>2. p.msg \in Msgs /\ p.rest \in Octets
  BY <1>1, ParseResult
<1>3. parse_turn(s) = IF ~s.alive THEN s
                      ELSE [msgs |-> ms, rest |-> p.rest, alive |-> p.msg.type # "ABORT"]
  BY DEF parse_turn
<1> HIDE DEF p
<1>4. ms \in Seq(Msgs)
  BY <1>1, <1>2
<1>5. (p.msg.type # "ABORT") \in BOOLEAN
  OBVIOUS
<1> HIDE DEF ms
<1> QED
  BY <1>2, <1>3, <1>4, <1>5 DEF ParseStates

\* Where the loop starts.
Begin(input) == [msgs |-> <<>>, rest |-> input, alive |-> TRUE]

\* The loop is its turns, one after the other.
LEMMA ParseAllUnfolds ==
    ASSUME NEW input \in Octets
    PROVE  \E f \in [0 .. Len(input) -> ParseStates] :
              /\ f[0] = Begin(input)
              /\ \A n \in 1 .. Len(input) : f[n] = parse_turn(f[n - 1])
              /\ parse_all(input) = f[Len(input)]
<1> DEFINE N == Len(input)
           a == Begin(input)
           G == [n \in 1 .. N |-> [s \in ParseStates |-> parse_turn(s)]]
           Unfolds(h) == h = [n \in 0 .. N |-> IF n = 0 THEN a ELSE parse_turn(h[n - 1])]
           after == CHOOSE h : Unfolds(h)
<1>0. N \in Nat /\ a \in ParseStates
  <2>1. <<>> \in Seq(Msgs) /\ TRUE \in BOOLEAN
    OBVIOUS
  <2> QED
    BY <2>1 DEF Octets, ParseStates, Begin
<1>2. parse_all(input) = after[N]
  BY DEF parse_all, Begin
<1> HIDE DEF N, a
<1>3. G \in [1 .. N -> [ParseStates -> ParseStates]]
  BY TurnTyped
<1>4. PICK f : Loop(f, N, ParseStates, a, G)
  <2> HIDE DEF G
  <2> QED
    BY <1>0, <1>3, LoopExists
<1>5. /\ f \in [0 .. N -> ParseStates] /\ f[0] = a
      /\ \A n \in 1 .. N : f[n] = parse_turn(f[n - 1])
  <2>1. f \in [0 .. N -> ParseStates] /\ f[0] = a
    BY <1>4 DEF Loop
  <2>2. ASSUME NEW n \in 1 .. N PROVE f[n] = parse_turn(f[n - 1])
    <3>1. n - 1 \in 0 .. N /\ f[n - 1] \in ParseStates
      BY <1>0, <2>1
    <3>2. f[n] = G[n][f[n - 1]]
      BY <1>4 DEF Loop
    <3> QED
      BY <3>1, <3>2
  <2> QED
    BY <2>1, <2>2
<1> HIDE DEF G
<1>6. Unfolds(f)
  <2>1. \A n \in 0 .. N : f[n] = IF n = 0 THEN a ELSE parse_turn(f[n - 1])
    BY <1>0, <1>5, SMTT(60)
  <2> QED
    BY <1>5, <2>1
<1>7. Unfolds(after)
  BY <1>6, Zenon
<1> HIDE DEF after
<1>8. \A n \in 0 .. N : after[n] = IF n = 0 THEN a ELSE parse_turn(after[n - 1])
  BY <1>7, Zenon
<1> DEFINE T == {n \in 0 .. N : after[n] = f[n]}
<1>9. 0 \in T
  BY <1>0, <1>5, <1>8
<1>10. ASSUME NEW n \in 1 .. N, n - 1 \in T PROVE n \in T
  <2>1. n \in 0 .. N /\ n # 0 /\ after[n - 1] = f[n - 1]
    BY <1>0, <1>10
  <2>2. after[n] = parse_turn(after[n - 1])
    BY <1>8, <2>1
  <2>3. f[n] = parse_turn(f[n - 1])
    BY <1>5
  <2> QED
    BY <2>1, <2>2, <2>3
<1>11. \A n \in 0 .. N : n \in T
  <2> HIDE DEF T
  <2> QED
    BY <1>0, <1>9, <1>10, BoundedInduction
<1> QED
  BY <1>0, <1>2, <1>5, <1>11 DEF N, a

\* What holds at the start of the loop and is kept by its turns holds at its end.
LEMMA ParseAllInvariant ==
    ASSUME NEW input \in Octets, NEW I, Begin(input) \in I,
           \A s \in ParseStates : s \in I => parse_turn(s) \in I
    PROVE  parse_all(input) \in I \cap ParseStates
<1>1. PICK f \in [0 .. Len(input) -> ParseStates] :
              /\ f[0] = Begin(input)
              /\ \A n \in 1 .. Len(input) : f[n] = parse_turn(f[n - 1])
              /\ parse_all(input) = f[Len(input)]
  BY ParseAllUnfolds
<1> DEFINE T == {n \in 0 .. Len(input) : f[n] \in I}
<1>2. Len(input) \in Nat
  BY DEF Octets
<1>3. 0 \in T
  BY <1>1, <1>2
<1>4. ASSUME NEW n \in 1 .. Len(input), n - 1 \in T PROVE n \in T
  <2>1. n \in 0 .. Len(input) /\ n - 1 \in 0 .. Len(input)
    BY <1>2
  <2>2. f[n - 1] \in I /\ f[n - 1] \in ParseStates
    BY <1>1, <1>4, <2>1
  <2>3. f[n] \in I
    BY <1>1, <2>2
  <2> QED
    BY <2>1, <2>3
<1>5. \A n \in 0 .. Len(input) : n \in T
  <2> HIDE DEF T
  <2> QED
    BY <1>2, <1>3, <1>4, BoundedInduction, Zenon
<1> QED
  BY <1>1, <1>2, <1>5

\* parse_input finds nothing more to do.
Settled(s) == s.alive => parse_input(s.rest) = Nothing(s.rest)

\* When the loop ends parse_input has returned NONE, or the process is gone.
LEMMA ParseAllSettles ==
    ASSUME NEW input \in Octets
    PROVE  Settled(parse_all(input)) /\ parse_all(input) \in ParseStates
<1> DEFINE N == Len(input)
<1>1. PICK f \in [0 .. N -> ParseStates] :
              /\ f[0] = Begin(input)
              /\ \A n \in 1 .. N : f[n] = parse_turn(f[n - 1])
              /\ parse_all(input) = f[N]
  BY ParseAllUnfolds
<1>2. N \in Nat
  BY DEF Octets
<1> DEFINE T == {n \in 0 .. N : Settled(f[n]) \/ Len(f[n].rest) <= N - n}
<1>3. 0 \in T
  BY <1>1, <1>2 DEF Begin
<1>4. ASSUME NEW n \in 1 .. N, n - 1 \in T PROVE n \in T
  <2> DEFINE s == f[n - 1]
             p == parse_input(s.rest)
  <2>1. n \in 0 .. N /\ n - 1 \in 0 .. N /\ s \in ParseStates
    BY <1>1, <1>2
  <2>2. f[n] = parse_turn(s)
    BY <1>1
  <2>3. Settled(s) \/ Len(s.rest) <= N - (n - 1)
    BY <1>4
  <2> HIDE DEF s
  <2>4. /\ s.rest \in Octets /\ s.msgs \in Seq(Msgs) /\ s.alive \in BOOLEAN
        /\ s = [msgs |-> s.msgs, rest |-> s.rest, alive |-> s.alive]
    BY <2>1 DEF ParseStates
  <2>5. /\ p.msg.type = "NONE" => p = Nothing(s.rest)
        /\ p.msg.type # "NONE" => Len(p.rest) < Len(s.rest)
        /\ p.rest \in Octets
    BY <2>4, ParseResult
  <2>6. CASE ~s.alive
    BY <2>1, <2>2, <2>6 DEF parse_turn, Settled
  <2>7. CASE s.alive /\ p.msg.type = "NONE"
    <3>1. p = Nothing(s.rest) /\ p.rest = s.rest
      BY <2>4, <2>5, <2>7, MadeUp
    <3>2. parse_turn(s) = [msgs |-> s.msgs, rest |-> s.rest, alive |-> TRUE]
      BY <2>7, <3>1, Zenon DEF parse_turn
    <3>3. Settled(f[n])
      BY <2>2, <3>1, <3>2 DEF Settled
    <3> QED
      BY <2>1, <3>3
  <2>8. CASE s.alive /\ p.msg.type = "ABORT"
    <3>1. ~f[n].alive
      <4>1. (p.msg.type # "ABORT") = FALSE
        BY <2>8
      <4>2. parse_turn(s) = [msgs |-> s.msgs, rest |-> p.rest, alive |-> FALSE]
        BY <2>8, <4>1, Zenon DEF parse_turn
      <4> HIDE DEF p
      <4>3. parse_turn(s).alive = FALSE
        BY <4>2
      <4> QED
        BY <2>2, <4>3
    <3> QED
      BY <2>1, <3>1 DEF Settled
  <2>9. CASE s.alive /\ p.msg.type \notin {"NONE", "ABORT"}
    <3>1. f[n].rest = p.rest
      BY <2>2, <2>9 DEF parse_turn
    <3>2. ~Settled(s)
      <4>1. Nothing(s.rest).msg.type = "NONE"
        BY <2>4, MadeUp
      <4> QED
        BY <2>9, <4>1 DEF Settled
    <3>3. Len(p.rest) < Len(s.rest) /\ Len(p.rest) \in Nat /\ Len(s.rest) \in Nat
      BY <2>4, <2>5, <2>9 DEF Octets
    <3> HIDE DEF p
    <3>4. Len(f[n].rest) <= N - n
      <4>1. Len(s.rest) <= N - (n - 1) /\ n \in Nat
        BY <2>3, <3>2
      <4> HIDE DEF N
      <4> QED
        BY <1>2, <3>1, <3>3, <4>1
    <3> QED
      BY <2>1, <3>4
  <2> QED
    BY <2>4, <2>6, <2>7, <2>8, <2>9
<1>5. \A n \in 0 .. N : n \in T
  <2> HIDE DEF T
  <2> QED
    BY <1>2, <1>3, <1>4, BoundedInduction, Zenon
<1>6. N \in 0 .. N /\ f[N] \in ParseStates /\ N - N = 0
  BY <1>1, <1>2
<1>7. Settled(f[N]) \/ Len(f[N].rest) <= 0
  BY <1>5, <1>6
<1>8. ASSUME Len(f[N].rest) <= 0 PROVE Settled(f[N])
  <2>1. f[N].rest \in Octets
    BY <1>6 DEF ParseStates
  <2>2. f[N].rest = <<>>
    BY <1>8, <2>1 DEF Octets
  <2>3. parse_input(f[N].rest).msg.type = "NONE"
    BY <2>1, <2>2, ParseResult
  <2> QED
    BY <2>1, <2>3, ParseResult DEF Settled
<1> QED
  BY <1>1, <1>6, <1>7, <1>8

-----------------------------------------------------------------------------
(* The unprocessed input stays bounded.                                    *)

\* The bytes of a message the protocol allows.
LEMMA ToStringTyped ==
    ASSUME NEW m, Sendable(m)
    PROVE  to_string(m) \in Octets
<1>1. CASE /\ m.type \in DOMAIN introducer_of /\ m.prefix \in Seq(Nat)
  <2>1. m.type # "INFO" /\ introducer_of[m.type] \in Nat
    BY <1>1, Introducers DEF introducer_of
  <2> QED
    BY <1>1, <2>1 DEF to_string, Octets
<1>2. CASE /\ m = Message("INFO", <<>>, m.header, m.body)
           /\ m.header \in Seq(Nat) /\ m.body \in Seq(Nat)
  <2> DEFINE front == IF m.header = <<>> THEN <<>> ELSE Append(m.header, STX)
             text == front \o Append(m.body, ETX)
             lead == <<IF m.header = <<>> THEN STX ELSE SOH>>
  <2>1. m.type = "INFO" /\ m.prefix = <<>>
    BY <1>2 DEF Message
  <2>2. front \in Seq(Nat) /\ Append(m.body, ETX) \in Seq(Nat) /\ lead \in Seq(Nat)
    BY <1>2
  <2>3. text \in Octets
    BY <2>2 DEF Octets
  <2>4. to_string(m) = (m.prefix \o lead) \o Append(text, bcc(text))
    BY <2>1 DEF to_string
  <2>5. SumOf(text) \in Nat
    BY <2>3, SumTyped
  <2> HIDE DEF text, lead
  <2>6. bcc(text) \in Nat
    BY <2>5 DEF bcc
  <2>7. Append(text, bcc(text)) \in Seq(Nat) /\ <<>> \o lead \in Seq(Nat)
    BY <2>2, <2>3, <2>6 DEF Octets
  <2> QED
    BY <2>1, <2>4, <2>7 DEF Octets
<1> QED
  BY <1>1, <1>2, Zenon DEF Sendable

\* What the variables hold.
TypeInv ==
    /\ line \in Octets /\ input_unprocessed \in Octets
    /\ alive \in BOOLEAN
    /\ written \in Seq(Messages) /\ received \in Seq(Msgs)

\* A read takes some bytes from the line, and the loop gives back a state.
LEMMA ReadParses ==
    ASSUME TypeInv, NEW n, read_handler(n)
    PROVE  LET x == input_unprocessed \o SubSeq(line, 1, n)
               p == parse_all(x) IN
           /\ n \in 1 .. Len(line) /\ n <= ReadSize
           /\ SubSeq(line, 1, n) \in Octets /\ Len(SubSeq(line, 1, n)) = n
           /\ x \in Octets /\ Len(x) = Len(input_unprocessed) + n
           /\ p \in ParseStates /\ Settled(p)
           /\ p.rest \in Octets /\ p.msgs \in Seq(Msgs) /\ p.alive \in BOOLEAN
           /\ input_unprocessed' = p.rest /\ received' = received \o p.msgs
           /\ alive' = p.alive /\ written' = written
           /\ line' = Drop(line, n) /\ line' \in Octets
<1> DEFINE x == input_unprocessed \o SubSeq(line, 1, n)
           p == parse_all(x)
<1>1. /\ n \in 1 .. Min({ReadSize, Len(line)})
      /\ input_unprocessed' = p.rest /\ received' = received \o p.msgs
      /\ alive' = p.alive /\ written' = written /\ line' = Drop(line, n)
  BY DEF read_handler
<1>2. ReadSize \in Nat /\ Len(line) \in Nat /\ {ReadSize, Len(line)} \subseteq Nat
  BY FramingAssumption DEF TypeInv, Octets
<1>3. Min({ReadSize, Len(line)}) \in {ReadSize, Len(line)}
      /\ \A i \in {ReadSize, Len(line)} : Min({ReadSize, Len(line)}) <= i
  BY <1>2, MinLeast
<1>4. n \in 1 .. Len(line) /\ n <= ReadSize
  BY <1>1, <1>2, <1>3
<1>5. /\ SubSeq(line, 1, n) \in Octets /\ Len(SubSeq(line, 1, n)) = n
      /\ Drop(line, n) \in Octets
  BY <1>2, <1>4, SMTT(60) DEF TypeInv, Octets, Drop
<1>6. x \in Octets /\ Len(x) = Len(input_unprocessed) + n
  BY <1>5 DEF TypeInv, Octets
<1> HIDE DEF x
<1>7. p \in ParseStates /\ Settled(p)
  BY <1>6, ParseAllSettles
<1> HIDE DEF p
<1>8. p.rest \in Octets /\ p.msgs \in Seq(Msgs) /\ p.alive \in BOOLEAN
  BY <1>7 DEF ParseStates
<1> QED
  BY <1>1, <1>4, <1>5, <1>6, <1>7, <1>8, SMTT(60) DEF x, p

\* The variables keep their types.
LEMMA TypeKept ==
    ASSUME TypeInv, [Next]_vars
    PROVE  TypeInv'
<1>1. ASSUME NEW m \in Messages, write(m) PROVE TypeInv'
  <2>1. to_string(m) \in Octets
    <3>1. Sendable(m)
      BY FramingAssumption
    <3> QED
      BY <3>1, ToStringTyped
  <2>2. line \o to_string(m) \in Octets
    BY <2>1 DEF TypeInv, Octets
  <2>3. Append(written, m) \in Seq(Messages)
    BY DEF TypeInv
  <2> QED
    BY <1>1, <2>2, <2>3 DEF TypeInv, write
<1>2. ASSUME NEW n, read_handler(n) PROVE TypeInv'
  <2> DEFINE p == parse_all(input_unprocessed \o SubSeq(line, 1, n))
  <2>1. /\ p.rest \in Octets /\ p.msgs \in Seq(Msgs) /\ p.alive \in BOOLEAN
        /\ input_unprocessed' = p.rest /\ received' = received \o p.msgs
        /\ alive' = p.alive /\ written' = written /\ line' \in Octets
    BY <1>2, ReadParses
  <2> HIDE DEF p
  <2>2. received \o p.msgs \in Seq(Msgs)
    BY <2>1 DEF TypeInv
  <2> QED
    BY <2>1, <2>2 DEF TypeInv
<1>3. ASSUME NEW i \in DOMAIN line, LoseByte(i) PROVE TypeInv'
  <2>1. /\ line' = SubSeq(line, 1, i - 1) \o Drop(line, i)
        /\ UNCHANGED <<input_unprocessed, alive, written, received>>
    BY <1>3 DEF LoseByte
  <2>2. SubSeq(line, 1, i - 1) \in Octets /\ Drop(line, i) \in Octets
    <3>1. line \in Octets /\ Len(line) \in Nat /\ i \in 1 .. Len(line)
      BY DEF TypeInv, Octets
    <3>2. 1 \in 1 .. Len(line) + 1 /\ i - 1 \in 0 .. Len(line) /\ i \in 0 .. Len(line)
      BY <3>1
    <3> QED
      BY <3>1, <3>2, PieceTyped, DropTyped
  <2>3. line' \in Octets
    BY <2>1, <2>2 DEF Octets
  <2> QED
    BY <2>1, <2>3 DEF TypeInv
<1>4. ASSUME NEW i \in DOMAIN line, ChangeByte(i) PROVE TypeInv'
  <2>1. PICK c \in Noise : line' = [line EXCEPT ![i] = c]
    BY <1>4, Zenon DEF ChangeByte
  <2>2. c \in Nat /\ line \in Seq(Nat)
    BY FramingAssumption DEF TypeInv, Octets
  <2>3. line' \in Octets
    <3>1. [line EXCEPT ![i] = c] \in Seq(Nat)
      BY <2>2
    <3> QED
      BY <2>1, <3>1 DEF Octets
  <2> QED
    BY <1>4, <2>3 DEF TypeInv, ChangeByte
<1>5. CASE UNCHANGED vars
  BY <1>5 DEF TypeInv, vars
<1>6. CASE Next
  <2>1. CASE \E m \in Messages : write(m)
    BY <1>1, <2>1
  <2>2. CASE \E n \in 1 .. Len(line) : read_handler(n)
    BY <1>2, <2>2
  <2>3. CASE \E i \in DOMAIN line : LoseByte(i) \/ ChangeByte(i)
    BY <1>3, <1>4, <2>3
  <2> QED
    BY <1>6, <2>1, <2>2, <2>3 DEF Next
<1> QED
  BY <1>5, <1>6

\* No turn of the loop makes the input longer.
LEMMA TurnShrinks ==
    ASSUME NEW s \in ParseStates
    PROVE  Len(parse_turn(s).rest) <= Len(s.rest)
<1> DEFINE p == parse_input(s.rest)
<1>1. s.rest \in Octets /\ Len(s.rest) \in Nat
  BY DEF ParseStates, Octets
<1>2. CASE ~s.alive
  BY <1>1, <1>2 DEF parse_turn
<1>3. CASE s.alive
  <2>1. parse_turn(s).rest = p.rest
    BY <1>3 DEF parse_turn
  <2>2. /\ p.rest \in Octets /\ Nothing(s.rest).rest = s.rest
        /\ p.msg.type = "NONE" => p = Nothing(s.rest)
        /\ p.msg.type # "NONE" => Len(p.rest) < Len(s.rest)
    BY <1>1, ParseResult, MadeUp
  <2>3. Len(p.rest) \in Nat
    BY <2>2 DEF Octets
  <2> HIDE DEF p
  <2> QED
    BY <1>1, <2>1, <2>2, <2>3
<1> QED
  BY <1>2, <1>3

\* The input is no longer after the loop than after its first turn.
LEMMA ParseAllShrinks ==
    ASSUME NEW input \in Octets
    PROVE  /\ Len(parse_all(input).rest) <= Len(input)
           /\ input # <<>> => Len(parse_all(input).rest) <= Len(parse_input(input).rest)
<1> DEFINE N == Len(input)
           M == Len(parse_turn(Begin(input)).rest)
<1>1. PICK f \in [0 .. N -> ParseStates] :
              /\ f[0] = Begin(input)
              /\ \A n \in 1 .. N : f[n] = parse_turn(f[n - 1])
              /\ parse_all(input) = f[N]
  BY ParseAllUnfolds
<1>2. N \in Nat /\ Begin(input) \in ParseStates
  BY <1>1 DEF Octets
<1>3. \A n \in 0 .. N : f[n].rest \in Octets /\ Len(f[n].rest) \in Nat
  BY <1>1 DEF ParseStates, Octets
<1>4. M <= N /\ M \in Nat
  <2>1. parse_turn(Begin(input)).rest \in Octets
    BY <1>2, TurnTyped DEF ParseStates
  <2>2. Begin(input).rest = input
    BY DEF Begin
  <2> QED
    BY <1>2, <2>1, <2>2, TurnShrinks DEF Octets
<1>5. M = Len(parse_input(input).rest)
  BY DEF Begin, parse_turn
<1> HIDE DEF M
<1> DEFINE T == {n \in 0 .. N : Len(f[n].rest) <= (IF n = 0 THEN N ELSE M)}
<1>6. 0 \in T
  BY <1>1, <1>2 DEF Begin
<1>7. ASSUME NEW n \in 1 .. N, n - 1 \in T PROVE n \in T
  <2>1. n \in 0 .. N /\ n - 1 \in 0 .. N /\ n # 0 /\ f[n] = parse_turn(f[n - 1])
    BY <1>1, <1>2
  <2>2. CASE n = 1
    <3>1. f[n] = parse_turn(Begin(input))
      BY <1>1, <2>1, <2>2
    <3> QED
      BY <1>4, <2>1, <3>1 DEF M
  <2>3. CASE n # 1
    <3>1. Len(f[n - 1].rest) <= M
      BY <1>7, <2>1, <2>3
    <3>2. Len(f[n].rest) <= Len(f[n - 1].rest)
      BY <1>1, <2>1, TurnShrinks
    <3> QED
      BY <1>3, <1>4, <2>1, <3>1, <3>2
  <2> QED
    BY <2>2, <2>3
<1>8. \A n \in 0 .. N : n \in T
  <2> HIDE DEF T
  <2> QED
    BY <1>2, <1>6, <1>7, BoundedInduction, Zenon
<1>9. N \in 0 .. N /\ (input # <<>> => N # 0)
  BY <1>2 DEF Octets
<1>10. Len(f[N].rest) <= (IF N = 0 THEN N ELSE M)
  BY <1>8, <1>9
<1> QED
  BY <1>1, <1>2, <1>3, <1>4, <1>5, <1>9, <1>10, SMTT(60)

\* What lacked only its check byte is used up by the next read.
LEMMA AwaitedArrives ==
    ASSUME NEW q \in Octets, Awaiting(q), NEW z \in Octets, z # <<>>
    PROVE  Len(parse_input(q \o z).rest) <= Len(z)
<1> DEFINE x == q \o z
           p == parse_info(x)
<1>1. /\ x \in Octets /\ Len(q) \in Nat /\ Len(z) \in Nat \ {0}
      /\ Len(x) = Len(q) + Len(z) /\ \A i \in 1 .. Len(q) : x[i] = q[i]
  BY DEF Octets
<1>2. /\ q # <<>> /\ q[1] \in {SOH, STX} /\ find(q, {ETX}) = Len(q)
      /\ Len(q) # 0
  BY <1>1 DEF Awaiting, Octets
<1>3. q[Len(q)] \in {ETX} /\ \A j \in 1 .. Len(q) : q[j] \in {ETX} => Len(q) <= j
  BY <1>2, FindSpec
<1> HIDE DEF x
<1>4. x # <<>> /\ x[1] \in {SOH, STX} /\ 1 \in 1 .. Len(x)
  BY <1>1, <1>2
<1>5. find(x, {ETX}) = Len(q)
  <2>1. Len(q) \in 1 .. Len(x) /\ x[Len(q)] \in {ETX}
    BY <1>1, <1>2, <1>3
  <2>2. \A j \in 1 .. Len(q) - 1 : x[j] \notin {ETX}
    BY <1>1, <1>3
  <2> QED
    BY <1>1, <2>1, <2>2, FindIs, Zenon
<1>6. find(x, MSG_START_CHARACTERS) = 1
  <2>1. x[1] \in MSG_START_CHARACTERS /\ \A j \in 1 .. 1 - 1 : x[j] \notin MSG_START_CHARACTERS
    BY <1>4 DEF MSG_START_CHARACTERS
  <2> QED
    BY <1>1, <1>4, <2>1, FindIs
<1>7. parse_input(x) = p
  <2>1. SubSeq(x, 1, 1 - 1) = <<>>
    BY <1>1 DEF Octets
  <2>2. DOMAIN <<>> = {}
    OBVIOUS
  <2>3. x[1] \notin Range(introducer_of) /\ x[1] # DLE
    BY <1>4, Introducers
  <2> QED
    BY <1>6, <2>1, <2>2, <2>3 DEF parse_input
<1>8. /\ p.rest \in Octets
      /\ p.msg.type = "NONE" => p = Nothing(x)
      /\ p.msg.type # "NONE" =>
            p = Malformed \/ Len(p.rest) = Len(x) - (find(x, {ETX}) + 1)
  BY <1>1, <1>4, InfoResult, SMTT(60)
<1>9. p.msg.type # "NONE"
  <2>1. /\ Malformed.msg.type = "MALFORMED"
        /\ \A m, k : Found(m, x, k).msg = m
        /\ \A h, b : Message("INFO", <<>>, h, b).type = "INFO"
    BY MadeUp DEF Found, Message, Malformed
  <2>2. Len(x) # find(x, {ETX}) /\ find(x, {ETX}) # 0
    BY <1>1, <1>2, <1>5
  <2> QED
    BY <2>1, <2>2 DEF parse_info
<1> HIDE DEF p
<1>10. Len(p.rest) <= Len(z)
  <2>1. CASE p = Malformed
    <3>1. p.rest = <<>>
      BY <1>1, <2>1, MadeUp
    <3> QED
      BY <1>1, <3>1
  <2>2. CASE Len(p.rest) = Len(x) - (find(x, {ETX}) + 1)
    BY <1>1, <1>5, <2>2
  <2> QED
    BY <1>8, <1>9, <2>1, <2>2
<1> QED
  BY <1>7, <1>10 DEF x

\* What stays unprocessed is short, or waits for nothing but a check byte.
BoundInv ==
    /\ TypeInv
    /\ BufferBounded
    /\ alive => Len(input_unprocessed) <= MaxMessageLen \/ Awaiting(input_unprocessed)

\* A read keeps the bound.
LEMMA ReadBounded ==
    ASSUME BoundInv, NEW n, read_handler(n)
    PROVE  /\ BufferBounded'
           /\ (alive => Len(input_unprocessed) <= MaxMessageLen
                           \/ Awaiting(input_unprocessed))'
<1> DEFINE q == input_unprocessed
           z == SubSeq(line, 1, n)
           x == q \o z
           p == parse_all(x)
<1>1. /\ n \in 1 .. Len(line) /\ n <= ReadSize
      /\ z \in Octets /\ Len(z) = n
      /\ x \in Octets /\ Len(x) = Len(q) + n
      /\ Settled(p) /\ p.rest \in Octets
      /\ input_unprocessed' = p.rest /\ alive' = p.alive
  BY ReadParses DEF BoundInv
<1>2. /\ q \in Octets /\ Len(q) \in Nat /\ n \in Nat /\ Len(p.rest) \in Nat
      /\ MaxMessageLen \in Nat /\ ReadSize \in Nat
      /\ Len(q) <= MaxMessageLen \/ Awaiting(q)
  BY <1>1, FramingAssumption, SMTT(60) DEF BoundInv, TypeInv, Octets, read_handler
<1>3. Len(p.rest) <= Len(x)
  BY <1>1, ParseAllShrinks, Zenon
<1>4. Len(p.rest) <= MaxMessageLen + ReadSize
  <2>1. CASE Len(q) <= MaxMessageLen
    BY <1>1, <1>2, <1>3, <2>1
  <2>2. CASE Awaiting(q)
    <3>1. z # <<>> /\ x # <<>>
      <4> HIDE DEF z, x
      <4>1. Len(z) # 0 /\ Len(x) # 0
        BY <1>1, <1>2
      <4> QED
        BY <4>1
    <3>2. Len(p.rest) <= Len(parse_input(x).rest)
      BY <1>1, <3>1, ParseAllShrinks
    <3>3. Len(parse_input(x).rest) <= Len(z)
      BY <1>1, <1>2, <2>2, <3>1, AwaitedArrives, Zenon
    <3>4. parse_input(x).rest \in Octets
      BY <1>1, ParseResult
    <3>5. Len(parse_input(x).rest) \in Nat
      BY <3>4 DEF Octets
    <3> QED
      BY <1>1, <1>2, <3>2, <3>3, <3>5
  <2> QED
    BY <1>2, <2>1, <2>2
<1>5. p.alive => Len(p.rest) <= MaxMessageLen \/ Awaiting(p.rest)
  <2> SUFFICES ASSUME p.alive PROVE Len(p.rest) <= MaxMessageLen \/ Awaiting(p.rest)
    OBVIOUS
  <2>1. parse_input(p.rest) = Nothing(p.rest)
    BY <1>1 DEF Settled
  <2>2. parse_input(p.rest).msg.type = "NONE"
    BY <1>1, <2>1, MadeUp
  <2> QED
    BY <1>1, <2>2, ParseResult
<1> HIDE DEF p
<1> QED
  BY <1>1, <1>4, <1>5 DEF BufferBounded

\* Every step keeps it.
LEMMA BoundKept ==
    ASSUME BoundInv, [Next]_vars
    PROVE  BoundInv'
<1>1. TypeInv'
  BY TypeKept DEF BoundInv
<1>2. CASE UNCHANGED <<input_unprocessed, alive>>
  BY <1>1, <1>2 DEF BoundInv, BufferBounded
<1>3. ASSUME NEW n, read_handler(n) PROVE BoundInv'
  BY <1>1, <1>3, ReadBounded DEF BoundInv
<1>4. CASE UNCHANGED vars
  BY <1>2, <1>4, SMTT(60) DEF vars
<1>5. CASE Next
  <2>1. CASE \E m \in Messages : write(m)
    BY <1>2, <2>1 DEF write
  <2>2. CASE \E n \in 1 .. Len(line) : read_handler(n)
    BY <1>3, <2>2
  <2>3. CASE \E i \in DOMAIN line : LoseByte(i) \/ ChangeByte(i)
    BY <1>2, <2>3 DEF LoseByte, ChangeByte
  <2> QED
    BY <1>5, <2>1, <2>2, <2>3 DEF Next
<1> QED
  BY <1>4, <1>5

\* Nothing has been read at first.
LEMMA BoundAtFirst ==
    ASSUME Init
    PROVE  BoundInv
<1>1. /\ <<>> \in Octets /\ Len(<<>>) = 0 /\ <<>> \in Seq(Messages) /\ <<>> \in Seq(Msgs)
      /\ MaxMessageLen \in Nat /\ ReadSize \in Nat
  BY FramingAssumption DEF Octets
<1>2. TypeInv
  BY <1>1 DEF Init, TypeInv
<1>3. Len(input_unprocessed) = 0
  BY <1>1 DEF Init
<1> QED
  BY <1>1, <1>2, <1>3 DEF BoundInv, BufferBounded

\* read_handler never keeps more unprocessed bytes than MAX_MESSAGE_LEN and one
\* read, whatever arrives on the line and however the reads cut it.
THEOREM InputBounded == Spec => []BufferBounded
<1>1. BoundInv /\ [Next]_vars => BoundInv'
  BY BoundKept
<1>2. BoundInv => BufferBounded
  BY DEF BoundInv
<1> QED
  BY <1>1, <1>2, BoundAtFirst, PTL DEF Spec

-----------------------------------------------------------------------------
(* What parse_input makes of the bytes of a message.                       *)

\* Strings of the same length with the same bytes are the same.
LEMMA SameElements ==
    ASSUME NEW p \in Seq(Nat), NEW q \in Seq(Nat), Len(p) = Len(q),
           \A i \in 1 .. Len(p) : p[i] = q[i]
    PROVE  p = q
BY SMTT(60)

\* parse_input takes t, whatever follows it, for message m, and less than t for
\* the beginning of a message.
Parsed(t, m) ==
    \A x \in Octets :
        /\ Agree(t, x, Len(t)) => parse_input(x) = [msg |-> m, rest |-> Drop(x, Len(t))]
        /\ Agree(t, x, Len(x)) /\ Len(x) < Len(t) => parse_input(x) = Nothing(x)

\* The characters of a name do not begin a message.
LEMMA GraphIsText == \A c : isgraph(c) => c \notin MSG_START_CHARACTERS
BY DEF isgraph, MSG_START_CHARACTERS

\* A byte in front of a string.
LEMMA OneInFront ==
    ASSUME NEW c \in Nat, NEW u \in Seq(Nat)
    PROVE  /\ Len((<<>> \o <<c>>) \o u) = Len(u) + 1
           /\ ((<<>> \o <<c>>) \o u)[1] = c
           /\ \A i \in 1 .. Len(u) : ((<<>> \o <<c>>) \o u)[i + 1] = u[i]
<1>1. <<>> \o <<c>> = <<c>> /\ <<c>> \in Seq(Nat) /\ Len(<<c>>) = 1
  OBVIOUS
<1>2. /\ Len(<<c>> \o u) = Len(u) + 1
      /\ (<<c>> \o u)[1] = c
      /\ \A i \in 1 .. Len(u) : (<<c>> \o u)[i + 1] = u[i]
  OBVIOUS
<1> QED
  BY <1>1, <1>2

\* An INFO message with a header: the byte c, the header h, the byte x, the
\* text b, the byte y, and one more.
FramedAs(t, c, h, x, b, y) ==
    /\ t \in Seq(Nat) /\ Len(t) = Len(h) + Len(b) + 4
    /\ t[1] = c /\ t[Len(h) + 2] = x /\ t[Len(h) + Len(b) + 3] = y
    /\ \A i \in 1 .. Len(h) : t[i + 1] = h[i]
    /\ \A i \in 1 .. Len(b) : t[(Len(h) + 2) + i] = b[i]

\* A string with a byte after it.
LEMMA OneAfter ==
    ASSUME NEW h \in Seq(Nat), NEW x \in Nat
    PROVE  /\ Append(h, x) \in Seq(Nat) /\ Len(Append(h, x)) = Len(h) + 1
           /\ Append(h, x)[Len(h) + 1] = x
           /\ \A i \in 1 .. Len(h) : Append(h, x)[i] = h[i]
OBVIOUS

\* Two strings joined.
LEMMA TwoJoined ==
    ASSUME NEW v \in Seq(Nat), NEW w \in Seq(Nat)
    PROVE  /\ v \o w \in Seq(Nat) /\ Len(v \o w) = Len(v) + Len(w)
           /\ \A i \in 1 .. Len(v) : (v \o w)[i] = v[i]
           /\ \A i \in 1 .. Len(w) : (v \o w)[Len(v) + i] = w[i]
OBVIOUS

\* A piece of a string.
LEMMA Piece ==
    ASSUME NEW t \in Seq(Nat), NEW i \in Nat, NEW n \in Nat, i + n <= Len(t)
    PROVE  /\ SubSeq(t, i + 1, i + n) \in Seq(Nat) /\ Len(SubSeq(t, i + 1, i + n)) = n
           /\ \A l \in 1 .. n : SubSeq(t, i + 1, i + n)[l] = t[i + l]
OBVIOUS

\* Where the parts of such a message are.
LEMMA FramedBytes ==
    ASSUME NEW c \in Nat, NEW h \in Seq(Nat), NEW x \in Nat, NEW b \in Seq(Nat),
           NEW y \in Nat, NEW k \in Nat
    PROVE  FramedAs((<<>> \o <<c>>) \o Append(Append(h, x) \o Append(b, y), k),
                    c, h, x, b, y)
<1> DEFINE v == Append(h, x)
           w == Append(b, y)
           u == v \o w
           z == Append(u, k)
           t == (<<>> \o <<c>>) \o z
<1>0. Len(h) \in Nat /\ Len(b) \in Nat
  OBVIOUS
<1>1. /\ v \in Seq(Nat) /\ Len(v) = Len(h) + 1 /\ v[Len(h) + 1] = x
      /\ \A i \in 1 .. Len(h) : v[i] = h[i]
  BY OneAfter
<1>2. /\ w \in Seq(Nat) /\ Len(w) = Len(b) + 1 /\ w[Len(b) + 1] = y
      /\ \A i \in 1 .. Len(b) : w[i] = b[i]
  BY OneAfter
<1> HIDE DEF v, w
<1>3. /\ u \in Seq(Nat) /\ Len(u) = Len(v) + Len(w)
      /\ \A i \in 1 .. Len(v) : u[i] = v[i]
      /\ \A i \in 1 .. Len(w) : u[Len(v) + i] = w[i]
  <2>1. v \in Seq(Nat) /\ w \in Seq(Nat)
    BY <1>1, <1>2
  <2> QED
    BY <2>1, TwoJoined
<1> HIDE DEF u
<1>4. /\ z \in Seq(Nat) /\ Len(z) = Len(u) + 1
      /\ \A i \in 1 .. Len(u) : z[i] = u[i]
  <2>1. u \in Seq(Nat)
    BY <1>3
  <2> QED
    BY <2>1, OneAfter
<1> HIDE DEF z
<1>5. /\ t \in Seq(Nat) /\ Len(t) = Len(z) + 1 /\ t[1] = c
      /\ \A i \in 1 .. Len(z) : t[i + 1] = z[i]
  <2>1. z \in Seq(Nat)
    BY <1>4
  <2>2. t \in Seq(Nat)
    BY <2>1
  <2> QED
    BY <2>1, <2>2, OneInFront
<1> HIDE DEF t
<1>6. Len(u) = Len(h) + Len(b) + 2
  BY <1>0, <1>1, <1>2, <1>3
<1>7. ASSUME NEW i \in 1 .. Len(u) PROVE t[i + 1] = u[i]
  <2>1. i \in 1 .. Len(z)
    BY <1>0, <1>4, <1>6
  <2> QED
    BY <1>4, <1>5, <2>1, Zenon
<1>8. t[Len(h) + 2] = x
  <2>1. /\ Len(h) + 1 \in 1 .. Len(v) /\ Len(h) + 1 \in 1 .. Len(u)
        /\ (Len(h) + 1) + 1 = Len(h) + 2
    BY <1>0, <1>1, <1>6, SMTT(60)
  <2> QED
    BY <1>1, <1>3, <1>7, <2>1
<1>9. t[Len(h) + Len(b) + 3] = y
  <2>1. /\ Len(b) + 1 \in 1 .. Len(w) /\ Len(v) + (Len(b) + 1) \in 1 .. Len(u)
        /\ (Len(v) + (Len(b) + 1)) + 1 = Len(h) + Len(b) + 3
    BY <1>0, <1>1, <1>2, <1>6
  <2> QED
    BY <1>2, <1>3, <1>7, <2>1, Zenon
<1>10. ASSUME NEW i \in 1 .. Len(h) PROVE t[i + 1] = h[i]
  <2>1. i \in 1 .. Len(v) /\ i \in 1 .. Len(u)
    BY <1>0, <1>1, <1>6
  <2> QED
    BY <1>1, <1>3, <1>7, <2>1, Zenon
<1>11. ASSUME NEW i \in 1 .. Len(b) PROVE t[(Len(h) + 2) + i] = b[i]
  <2>1. /\ i \in 1 .. Len(w) /\ Len(v) + i \in 1 .. Len(u)
        /\ (Len(v) + i) + 1 = (Len(h) + 2) + i
    BY <1>0, <1>1, <1>2, <1>6, SMTT(60)
  <2> QED
    BY <1>2, <1>3, <1>7, <2>1, Zenon
<1>12. Len(t) = Len(h) + Len(b) + 4
  BY <1>0, <1>4, <1>5, <1>6
<1>13. FramedAs(t, c, h, x, b, y)
  BY <1>5, <1>8, <1>9, <1>10, <1>11, <1>12, Zenon DEF FramedAs
<1> QED
  BY <1>13 DEF t, z, u, v, w

\* A supervisory character and the name in front of it.
LEMMA SignalParsed ==
    ASSUME NEW typ \in DOMAIN introducer_of, NEW w \in Octets, Len(w) <= MaxPrefixLen,
           \A i \in 1 .. Len(w) : isgraph(w[i])
    PROVE  LET t == Append(w, introducer_of[typ])
           IN  Parsed(t, Message(typ, w, <<>>, <<>>)) /\ t # <<>>
<1> DEFINE c == introducer_of[typ]
           N == Len(w)
           m == Message(typ, w, <<>>, <<>>)
           t == Append(w, c)
<1>1. /\ c \in {ACK, NAK, EOT, ENQ} /\ type_of(c) = typ
      /\ c \in MSG_START_CHARACTERS /\ c \in Range(introducer_of)
  <2>1. typ \in {"ACK", "NAK", "EOT", "ENQ"}
    BY Introducers
  <2>2. /\ introducer_of["ACK"] = ACK /\ introducer_of["NAK"] = NAK
        /\ introducer_of["EOT"] = EOT /\ introducer_of["ENQ"] = ENQ
    BY DEF introducer_of
  <2> QED
    BY <2>1, <2>2, Introducers DEF MSG_START_CHARACTERS
<1>2. t = Append(w, c)
  OBVIOUS
<1> HIDE DEF c, t, m
<1>3. /\ w \in Seq(Nat) /\ N \in Nat /\ c \in Nat /\ N <= MaxPrefixLen /\ MaxPrefixLen \in Nat
      /\ DOMAIN w = 1 .. N
  BY <1>1, FramingAssumption DEF Octets
<1>4. /\ t \in Octets /\ Len(t) = N + 1 /\ t[N + 1] = c /\ \A i \in 1 .. N : t[i] = w[i]
  BY <1>2, <1>3 DEF Octets
<1>5. ASSUME NEW i \in 1 .. N
      PROVE  isgraph(w[i]) /\ w[i] \notin MSG_START_CHARACTERS
  BY <1>5, GraphIsText
<1> HIDE DEF N
<1>6. ASSUME NEW x \in Octets, Agree(t, x, N + 1)
      PROVE  parse_input(x) = [msg |-> m, rest |-> Drop(x, N + 1)]
  <2>1. /\ N + 1 <= Len(x) /\ Len(x) \in Nat /\ x[N + 1] = c
        /\ \A i \in 1 .. N : x[i] = w[i]
    BY <1>3, <1>4, <1>6, SMTT(60) DEF Agree, Octets
  <2>2. find(x, MSG_START_CHARACTERS) = N + 1
    <3>1. N + 1 \in 1 .. Len(x) /\ x[N + 1] \in MSG_START_CHARACTERS
      BY <1>1, <1>3, <2>1
    <3>2. \A j \in 1 .. (N + 1) - 1 : x[j] \notin MSG_START_CHARACTERS
      BY <1>3, <1>5, <2>1
    <3> QED
      BY <3>1, <3>2, FindIs
  <2>3. SubSeq(x, 1, (N + 1) - 1) = w
    <3>1. /\ SubSeq(x, 1, N) \in Seq(Nat) /\ Len(SubSeq(x, 1, N)) = N
          /\ \A i \in 1 .. N : SubSeq(x, 1, N)[i] = x[i]
      BY <1>3, <2>1 DEF Octets
    <3>2. Len(w) = N
      BY DEF N
    <3>3. SubSeq(x, 1, N) = w
      BY <1>3, <2>1, <3>1, <3>2
    <3> QED
      BY <1>3, <3>3
  <2>4. ~\E i \in DOMAIN w : ~isgraph(w[i])
    BY <1>3, <1>5
  <2>5. parse_input(x) = Found(Message(type_of(c), w, <<>>, <<>>), x, N + 1)
    <3> DEFINE pos == find(x, MSG_START_CHARACTERS)
               prefix == SubSeq(x, 1, pos - 1)
    <3>1. ASSUME pos # 0, ~\E i \in DOMAIN prefix : ~isgraph(prefix[i]),
                 x[pos] \in Range(introducer_of)
          PROVE  parse_input(x) = Found(Message(type_of(x[pos]), prefix, <<>>, <<>>), x, pos)
      BY <3>1 DEF parse_input
    <3>2. prefix = w /\ pos = N + 1 /\ pos # 0 /\ x[pos] = c
      BY <1>3, <2>1, <2>2, <2>3
    <3> HIDE DEF pos, prefix
    <3> QED
      BY <1>1, <2>4, <3>1, <3>2, SMTT(60)
  <2>6. Message(type_of(c), w, <<>>, <<>>) = m
    BY <1>1 DEF m
  <2> QED
    BY <2>5, <2>6 DEF Found
<1>7. ASSUME NEW x \in Octets, Agree(t, x, Len(x)), Len(x) < N + 1
      PROVE  parse_input(x) = Nothing(x)
  <2>1. Len(x) \in Nat /\ Len(x) <= N /\ \A i \in 1 .. Len(x) : x[i] = w[i]
    BY <1>3, <1>4, <1>7 DEF Agree, Octets
  <2>2. find(x, MSG_START_CHARACTERS) = 0
    <3>1. \A j \in 1 .. Len(x) : x[j] \notin MSG_START_CHARACTERS
      BY <1>3, <1>5, <2>1
    <3> QED
      BY <3>1, FindNone
  <2>3. ~(Len(x) > MaxPrefixLen)
    BY <1>3, <2>1
  <2> QED
    BY <2>2, <2>3 DEF parse_input
<1>8. Parsed(t, m) /\ t # <<>>
  BY <1>3, <1>4, <1>6, <1>7 DEF Parsed
<1> QED
  BY <1>8 DEF t, c, m

\* Where the delimiters of an information message are.
Laid(t, h, b, stx, etx) ==
    /\ stx \in Nat /\ etx \in Nat /\ 1 <= stx /\ stx < etx /\ Len(t) = etx + 1
    /\ t[1] \in {SOH, STX} /\ t[stx] = STX /\ t[etx] = ETX
    /\ \A i \in 1 .. stx - 1 : t[i] # STX
    /\ \A i \in 1 .. etx - 1 : t[i] # ETX
    /\ h = IF stx > 1 THEN SubSeq(t, 2, stx - 1) ELSE <<>>
    /\ b = SubSeq(t, stx + 1, etx - 1)
    /\ etx - 1 <= MaxMessageLen

\* The bytes that to_string writes for an information message with check byte k.
InfoText(h, b, k) ==
    (<<>> \o <<IF h = <<>> THEN STX ELSE SOH>>)
       \o Append((IF h = <<>> THEN <<>> ELSE Append(h, STX)) \o Append(b, ETX), k)

\* The delimiters are where they belong.
LEMMA InfoLaid ==
    ASSUME NEW h \in Octets, NEW b \in Octets, NEW k \in Nat,
           \A i \in 1 .. Len(h) : h[i] \notin {STX, ETX},
           \A i \in 1 .. Len(b) : b[i] # ETX,
           Len(h) + Len(b) + (IF h = <<>> THEN 1 ELSE 2) <= MaxMessageLen
    PROVE  \E stx, etx : Laid(InfoText(h, b, k), h, b, stx, etx)
<1> DEFINE front == IF h = <<>> THEN <<>> ELSE Append(h, STX)
           text == front \o Append(b, ETX)
           lead == <<IF h = <<>> THEN STX ELSE SOH>>
           t == InfoText(h, b, k)
           H == Len(h)
           B == Len(b)
<1>2. t = (<<>> \o lead) \o Append(text, k)
  BY DEF InfoText
<1>3. t \in Octets
  <2>1. front \in Seq(Nat) /\ Append(b, ETX) \in Seq(Nat) /\ lead \in Seq(Nat)
    BY DEF Octets
  <2>2. text \in Seq(Nat)
    BY <2>1
  <2> HIDE DEF text, lead
  <2>3. Append(text, k) \in Seq(Nat) /\ <<>> \o lead \in Seq(Nat)
    BY <2>1, <2>2
  <2> QED
    BY <1>2, <2>3 DEF Octets
<1> HIDE DEF t
<1>4. /\ h \in Seq(Nat) /\ b \in Seq(Nat) /\ H \in Nat /\ B \in Nat
      /\ \A i \in 1 .. H : h[i] \notin {STX, ETX}
      /\ \A i \in 1 .. B : b[i] # ETX
      /\ H + B + (IF h = <<>> THEN 1 ELSE 2) <= MaxMessageLen
      /\ MaxMessageLen \in Nat
  BY FramingAssumption DEF Octets
<1>5. CASE h = <<>>
  <2>1. H = 0 /\ lead = <<STX>> /\ text = <<>> \o Append(b, ETX)
    BY <1>5
  <2>2. /\ text \in Seq(Nat) /\ Len(text) = B + 1 /\ text[B + 1] = ETX
        /\ \A i \in 1 .. B : text[i] = b[i]
    BY <1>4, <2>1
  <2> HIDE DEF text, lead, H, B
  <2>3. /\ Len(t) = B + 3 /\ t[1] = STX /\ t[B + 2] = ETX
        /\ \A i \in 1 .. B : t[i + 1] = b[i]
    BY <1>2, <1>4, <2>1, <2>2, SMTT(60)
  <2>4. SubSeq(t, 2, (B + 2) - 1) = b
    <3>1. /\ SubSeq(t, 2, B + 1) \in Seq(Nat) /\ Len(SubSeq(t, 2, B + 1)) = B
          /\ \A i \in 1 .. B : SubSeq(t, 2, B + 1)[i] = t[i + 1]
      BY <1>3, <1>4, <2>3, SMTT(60) DEF Octets
    <3> QED
      BY <1>4, <2>3, <3>1 DEF B
  <2>5. \A i \in 1 .. (B + 2) - 1 : t[i] # ETX
    <3> SUFFICES ASSUME NEW i \in 1 .. (B + 2) - 1 PROVE t[i] # ETX
      OBVIOUS
    <3>1. CASE i = 1
      BY <2>3, <3>1
    <3>2. CASE i # 1
      <4>1. i - 1 \in 1 .. B /\ (i - 1) + 1 = i
        BY <1>4, <3>2
      <4>2. t[(i - 1) + 1] = b[i - 1]
        BY <2>3, <4>1
      <4> QED
        BY <1>4, <4>1, <4>2
    <3> QED
      BY <3>1, <3>2
  <2>6. (B + 2) - 1 <= MaxMessageLen
    BY <1>4, <1>5, <2>1
  <2>7. Laid(t, h, b, 1, B + 2)
    BY <1>4, <1>5, <2>3, <2>4, <2>5, <2>6, SMTT(60) DEF Laid
  <2> QED
    BY <2>7 DEF t
<1>6. CASE h # <<>>
  <2>1. lead = <<SOH>> /\ text = Append(h, STX) \o Append(b, ETX)
    BY <1>6, SMTT(60)
  <2>2. t = (<<>> \o <<SOH>>) \o Append(Append(h, STX) \o Append(b, ETX), k)
    BY <1>2, <2>1, Zenon
  <2>3. SOH \in Nat /\ STX \in Nat /\ ETX \in Nat /\ h \in Seq(Nat) /\ b \in Seq(Nat)
    BY <1>4
  <2>11. FramedAs(t, SOH, h, STX, b, ETX)
    BY <2>2, <2>3, FramedBytes
  <2>4. /\ Len(t) = H + B + 4 /\ t[1] = SOH
        /\ t[H + 2] = STX /\ t[H + B + 3] = ETX
        /\ \A i \in 1 .. H : t[i + 1] = h[i]
        /\ \A i \in 1 .. B : t[(H + 2) + i] = b[i]
    BY <2>11 DEF FramedAs
  <2> HIDE DEF text, lead, H, B
  <2>5. SubSeq(t, (H + 2) + 1, (H + B + 3) - 1) = b
    <3> DEFINE s == SubSeq(t, (H + 2) + 1, (H + B + 3) - 1)
    <3>1. /\ s \in Seq(Nat) /\ Len(s) = B
          /\ \A i \in 1 .. B : s[i] = t[(H + 2) + i]
      <4>1. /\ t \in Seq(Nat) /\ H + 2 \in Nat /\ B \in Nat /\ (H + 2) + B <= Len(t)
            /\ (H + B + 3) - 1 = (H + 2) + B
        BY <1>3, <1>4, <2>4 DEF Octets
      <4> DEFINE q == H + 2
      <4>2. q \in Nat /\ q + B <= Len(t) /\ s = SubSeq(t, q + 1, q + B)
        BY <4>1, Zenon
      <4> HIDE DEF s, q
      <4>3. /\ s \in Seq(Nat) /\ Len(s) = B
            /\ \A i \in 1 .. B : s[i] = t[q + i]
        BY <4>1, <4>2, Piece, SMTT(60)
      <4> QED
        BY <4>3 DEF q
    <3> HIDE DEF s
    <3>2. s = b
      BY <1>4, <2>4, <3>1, SameElements, SMTT(60) DEF B
    <3> QED
      BY <3>2 DEF s
  <2>6. SubSeq(t, 2, (H + 2) - 1) = h
    <3> DEFINE s == SubSeq(t, 2, (H + 2) - 1)
    <3>1. /\ s \in Seq(Nat) /\ Len(s) = H
          /\ \A i \in 1 .. H : s[i] = t[i + 1]
      <4>1. /\ t \in Seq(Nat) /\ H \in Nat /\ 1 + H <= Len(t)
            /\ (H + 2) - 1 = 1 + H /\ 1 + 1 = 2
            /\ \A i \in 1 .. H : 1 + i = i + 1
        BY <1>3, <1>4, <2>4 DEF Octets
      <4>2. /\ SubSeq(t, 1 + 1, 1 + H) \in Seq(Nat) /\ Len(SubSeq(t, 1 + 1, 1 + H)) = H
            /\ \A i \in 1 .. H : SubSeq(t, 1 + 1, 1 + H)[i] = t[1 + i]
        BY <4>1, Piece
      <4> QED
        BY <4>1, <4>2, SMTT(60)
    <3> HIDE DEF s
    <3>2. s = h
      BY <1>4, <2>4, <3>1, SameElements, SMTT(60) DEF H
    <3> QED
      BY <3>2 DEF s
  <2>7. \A i \in 1 .. (H + 2) - 1 : t[i] \notin {STX, ETX}
    <3> SUFFICES ASSUME NEW i \in 1 .. (H + 2) - 1 PROVE t[i] \notin {STX, ETX}
      OBVIOUS
    <3>1. CASE i = 1
      BY <2>4, <3>1
    <3>2. CASE i # 1
      <4>1. i - 1 \in 1 .. H /\ (i - 1) + 1 = i
        BY <1>4, <3>2
      <4>2. t[(i - 1) + 1] = h[i - 1]
        BY <2>4, <4>1
      <4> QED
        BY <1>4, <4>1, <4>2
    <3> QED
      BY <3>1, <3>2
  <2>8. \A i \in 1 .. (H + B + 3) - 1 : t[i] # ETX
    <3> SUFFICES ASSUME NEW i \in 1 .. (H + B + 3) - 1 PROVE t[i] # ETX
      OBVIOUS
    <3>1. CASE i <= H + 1
      BY <1>4, <2>7, <3>1
    <3>2. CASE i = H + 2
      BY <2>4, <3>2
    <3>3. CASE i > H + 2
      <4>1. i - (H + 2) \in 1 .. B /\ (H + 2) + (i - (H + 2)) = i
        BY <1>4, <3>3
      <4>2. t[(H + 2) + (i - (H + 2))] = b[i - (H + 2)]
        BY <2>4, <4>1
      <4> QED
        BY <1>4, <4>1, <4>2
    <3> QED
      BY <1>4, <3>1, <3>2, <3>3
  <2>9. (H + B + 3) - 1 <= MaxMessageLen /\ (H + 2 > 1) /\ H + 2 < H + B + 3
        /\ H + 2 \in Nat /\ H + B + 3 \in Nat /\ Len(t) = (H + B + 3) + 1
    BY <1>4, <1>6, <2>4, SMTT(60)
  <2>10. Laid(t, h, b, H + 2, H + B + 3)
    BY <1>4, <2>4, <2>5, <2>6, <2>7, <2>8, <2>9, SMTT(60) DEF Laid
  <2> QED
    BY <2>10 DEF t
<1> QED
  BY <1>5, <1>6

\* Strings that agree have the same pieces.
LEMMA SamePiece ==
    ASSUME NEW t \in Octets, NEW x \in Octets, NEW n \in Nat, Agree(t, x, n),
           NEW i \in 1 .. n + 1, NEW j \in i - 1 .. n
    PROVE  SubSeq(x, i, j) = SubSeq(t, i, j)
<1> DEFINE u == SubSeq(x, i, j)
           v == SubSeq(t, i, j)
           d == i - 1
           k == j - d
<1>1. /\ d \in Nat /\ k \in Nat /\ d + 1 = i /\ d + k = j /\ d + k <= n
      /\ n <= Len(x) /\ n <= Len(t) /\ t \in Seq(Nat) /\ x \in Seq(Nat)
      /\ \A l \in 1 .. n : t[l] = x[l]
  BY DEF Agree, Octets
<1> HIDE DEF u, v, d, k
<1>2. u = SubSeq(x, d + 1, d + k) /\ v = SubSeq(t, d + 1, d + k)
  BY <1>1, SMTT(60) DEF u, v
<1>3. d + k <= Len(x) /\ d + k <= Len(t)
  <2>1. Len(x) \in Nat /\ Len(t) \in Nat
    BY <1>1
  <2> QED
    BY <1>1, <2>1
<1>4. /\ u \in Seq(Nat) /\ Len(u) = k /\ \A l \in 1 .. k : u[l] = x[d + l]
      /\ v \in Seq(Nat) /\ Len(v) = k /\ \A l \in 1 .. k : v[l] = t[d + l]
  BY <1>1, <1>2, <1>3, Piece, Zenon
<1>5. ASSUME NEW l \in 1 .. k PROVE u[l] = v[l]
  <2>1. d + l \in 1 .. n
    BY <1>1
  <2> QED
    BY <1>1, <1>4, <2>1, Zenon
<1>6. u = v
  BY <1>4, <1>5, SameElements
<1> QED
  BY <1>6 DEF u, v

\* Input that begins with SOH or STX is left to parse_info.
LEMMA BeginsText ==
    ASSUME NEW x \in Octets, x # <<>>, x[1] \in {SOH, STX}
    PROVE  parse_input(x) = parse_info(x)
<1> DEFINE pos == find(x, MSG_START_CHARACTERS)
           prefix == SubSeq(x, 1, pos - 1)
<1>1. 1 \in 1 .. Len(x) /\ x[1] \in MSG_START_CHARACTERS
      /\ \A j \in 1 .. 1 - 1 : x[j] \notin MSG_START_CHARACTERS
  <2>1. Len(x) \in Nat /\ Len(x) # 0
    BY DEF Octets
  <2> QED
    BY <2>1 DEF MSG_START_CHARACTERS
<1>2. pos = 1
  BY <1>1, FindIs
<1>3. prefix = <<>>
  BY <1>2
<1>4. x[pos] \notin Range(introducer_of) /\ x[pos] # DLE
  BY <1>2, Introducers
<1>5. ASSUME pos # 0, prefix = <<>>, x[pos] \notin Range(introducer_of), x[pos] # DLE
      PROVE  parse_input(x) = parse_info(x)
  <2>1. ~\E i \in DOMAIN prefix : ~isgraph(prefix[i])
    <3>1. DOMAIN <<>> = {}
      OBVIOUS
    <3> QED
      BY <1>5, <3>1, Zenon
  <2> QED
    BY <1>5, <2>1 DEF parse_input
<1> QED
  BY <1>2, <1>3, <1>4, <1>5

\* Where the first ETX of the whole message is, and where that of a part of it.
LEMMA InfoParsed ==
    ASSUME NEW t \in Octets, NEW h, NEW b, NEW stx, NEW etx, Laid(t, h, b, stx, etx)
    PROVE  Parsed(t, Message("INFO", <<>>, h, b))
<1> DEFINE m == Message("INFO", <<>>, h, b)
<1>1. /\ stx \in Nat /\ etx \in Nat /\ 1 <= stx /\ stx < etx /\ Len(t) = etx + 1
      /\ t[1] \in {SOH, STX} /\ t[stx] = STX /\ t[etx] = ETX
      /\ \A i \in 1 .. stx - 1 : t[i] # STX
      /\ \A i \in 1 .. etx - 1 : t[i] # ETX
      /\ h = IF stx > 1 THEN SubSeq(t, 2, stx - 1) ELSE <<>>
      /\ b = SubSeq(t, stx + 1, etx - 1)
      /\ etx - 1 <= MaxMessageLen
      /\ MaxMessageLen \in Nat /\ MaxPrefixLen \in Nat
  BY FramingAssumption DEF Laid
<1> HIDE DEF m
<1>2. ASSUME NEW x \in Octets, Agree(t, x, etx)
      PROVE  /\ find(x, {STX}) = stx /\ find(x, {ETX}) = etx
             /\ parse_input(x) = parse_info(x)
  <2>1. /\ Len(x) \in Nat /\ etx <= Len(x) /\ \A i \in 1 .. etx : x[i] = t[i]
    BY <1>2 DEF Agree, Octets
  <2>2. stx \in 1 .. etx /\ etx \in 1 .. etx /\ 1 \in 1 .. etx
    BY <1>1
  <2>3. x[stx] = STX /\ x[etx] = ETX /\ x[1] \in {SOH, STX}
    BY <1>1, <2>1, <2>2
  <2>4. \A j \in 1 .. stx - 1 : x[j] # STX
    BY <1>1, <2>1
  <2>5. \A j \in 1 .. etx - 1 : x[j] # ETX
    BY <1>1, <2>1
  <2>6. find(x, {STX}) = stx
    <3>1. stx \in 1 .. Len(x) /\ x[stx] \in {STX}
          /\ \A j \in 1 .. stx - 1 : x[j] \notin {STX}
      BY <1>1, <2>1, <2>3, <2>4
    <3> QED
      BY <3>1, FindIs, SMTT(60)
  <2>7. find(x, {ETX}) = etx
    <3>1. etx \in 1 .. Len(x) /\ x[etx] \in {ETX}
          /\ \A j \in 1 .. etx - 1 : x[j] \notin {ETX}
      BY <1>1, <2>1, <2>3, <2>5
    <3> QED
      BY <3>1, FindIs, SMTT(60)
  <2>8. x # <<>>
    BY <1>1, <2>1
  <2> QED
    BY <2>3, <2>6, <2>7, <2>8, BeginsText
<1>3. ASSUME NEW x \in Octets, Agree(t, x, etx + 1)
      PROVE  parse_input(x) = [msg |-> m, rest |-> Drop(x, etx + 1)]
  <2>1. Agree(t, x, etx) /\ Len(x) # etx /\ Len(x) \in Nat
    <3>1. /\ Len(x) \in Nat /\ etx + 1 <= Len(x) /\ \A i \in 1 .. etx + 1 : t[i] = x[i]
      BY <1>3 DEF Agree, Octets
    <3>2. \A i \in 1 .. etx : i \in 1 .. etx + 1
      BY <1>1
    <3> QED
      BY <1>1, <3>1, <3>2 DEF Agree
  <2>2. find(x, {STX}) = stx /\ find(x, {ETX}) = etx /\ parse_input(x) = parse_info(x)
    BY <1>2, <2>1
  <2>3. SubSeq(x, stx + 1, etx - 1) = b
    <3>1. /\ etx \in Nat /\ stx + 1 \in 1 .. etx + 1
          /\ etx - 1 \in (stx + 1) - 1 .. etx
      BY <1>1
    <3>2. SubSeq(x, stx + 1, etx - 1) = SubSeq(t, stx + 1, etx - 1)
      BY <2>1, <3>1, SamePiece, Zenon
    <3> QED
      BY <1>1, <3>2
  <2>4. (IF stx > 1 THEN SubSeq(x, 2, stx - 1) ELSE <<>>) = h
    <3>1. CASE stx > 1
      <4>1. etx \in Nat /\ 2 \in 1 .. etx + 1 /\ stx - 1 \in 2 - 1 .. etx
        BY <1>1, <3>1
      <4>2. SubSeq(x, 2, stx - 1) = SubSeq(t, 2, stx - 1)
        BY <2>1, <4>1, SamePiece, Zenon
      <4> QED
        BY <1>1, <3>1, <4>2
    <3>2. CASE ~(stx > 1)
      BY <1>1, <3>2
    <3> QED
      BY <3>1, <3>2
  <2>5. parse_info(x) = Found(Message("INFO", <<>>, h, b), x, etx + 1)
    <3>1. etx # 0 /\ ~(stx = 0 \/ stx > etx) /\ ~(etx - 1 > MaxMessageLen)
      BY <1>1
    <3> QED
      BY <2>1, <2>2, <2>3, <2>4, <3>1, Zenon DEF parse_info
  <2> QED
    BY <2>2, <2>5 DEF Found, m
<1>4. ASSUME NEW x \in Octets, Agree(t, x, Len(x)), Len(x) < etx + 1
      PROVE  parse_input(x) = Nothing(x)
  <2>1. /\ Len(x) \in Nat /\ Len(x) <= etx /\ \A i \in 1 .. Len(x) : x[i] = t[i]
    BY <1>1, <1>4, SMTT(60) DEF Agree, Octets
  <2>2. CASE Len(x) = 0
    <3>1. \A j \in 1 .. Len(x) : x[j] \notin MSG_START_CHARACTERS
      BY <2>2
    <3>2. find(x, MSG_START_CHARACTERS) = 0
      BY <3>1, FindNone
    <3>3. ~(Len(x) > MaxPrefixLen)
      BY <1>1, <2>2
    <3> QED
      BY <3>2, <3>3 DEF parse_input
  <2>3. CASE Len(x) = etx
    <3>1. Agree(t, x, etx)
      BY <1>4, <2>3
    <3>2. find(x, {STX}) = stx /\ find(x, {ETX}) = etx /\ parse_input(x) = parse_info(x)
      BY <1>2, <3>1
    <3>3. etx # 0 /\ ~(stx = 0 \/ stx > etx)
      BY <1>1
    <3>4. parse_info(x) = Nothing(x)
      BY <2>3, <3>2, <3>3 DEF parse_info
    <3> QED
      BY <3>2, <3>4
  <2>4. CASE Len(x) # 0 /\ Len(x) < etx
    <3>1. \A j \in 1 .. Len(x) : x[j] \notin {ETX}
      BY <1>1, <2>1, <2>4
    <3>2. find(x, {ETX}) = 0
      BY <3>1, FindNone
    <3>3. x # <<>> /\ x[1] \in {SOH, STX}
      <4>1. 1 \in 1 .. Len(x)
        BY <2>1, <2>4
      <4> QED
        BY <1>1, <2>1, <2>4, <4>1
    <3>4. parse_input(x) = parse_info(x)
      BY <3>3, BeginsText
    <3>5. ~(Len(x) > MaxMessageLen)
      BY <1>1, <2>1, <2>4
    <3>6. parse_info(x) = Nothing(x)
      BY <3>2, <3>5, SMTT(60) DEF parse_info
    <3> QED
      BY <3>4, <3>6
  <2> QED
    BY <1>1, <2>1, <2>2, <2>3, <2>4, SMTT(60)
<1>5. Parsed(t, m)
  BY <1>1, <1>3, <1>4, SMTT(60) DEF Parsed
<1> QED
  BY <1>5 DEF m

\* Every message that to_string writes is parsed for what it is.
LEMMA MessageParsed ==
    ASSUME NEW m, Sendable(m)
    PROVE  /\ Parsed(to_string(m), m) /\ to_string(m) # <<>>
           /\ m \in Msgs /\ m.type \notin {"NONE", "ABORT"}
<1>1. CASE /\ m.type \in DOMAIN introducer_of
           /\ m = Message(m.type, m.prefix, <<>>, <<>>)
           /\ m.prefix \in Seq(Nat) /\ Len(m.prefix) <= MaxPrefixLen
           /\ \A i \in DOMAIN m.prefix : isgraph(m.prefix[i])
  <2> DEFINE typ == m.type
             w == m.prefix
  <2>1. /\ typ \in DOMAIN introducer_of /\ w \in Octets /\ Len(w) <= MaxPrefixLen
        /\ \A i \in 1 .. Len(w) : isgraph(w[i])
        /\ m = Message(typ, w, <<>>, <<>>)
    BY <1>1 DEF Octets
  <2>2. typ \in {"ACK", "NAK", "EOT", "ENQ"}
    BY <2>1, Introducers
  <2>3. to_string(m) = Append(w, introducer_of[typ])
    BY <2>2, Zenon DEF to_string
  <2> HIDE DEF typ, w
  <2>4. Parsed(to_string(m), Message(typ, w, <<>>, <<>>)) /\ to_string(m) # <<>>
    BY <2>1, <2>3, SignalParsed, Zenon
  <2>5. Message(typ, w, <<>>, <<>>) \in Msgs
    <3>1. <<>> \in Octets /\ typ \in Types
      BY <2>2 DEF Octets, Types
    <3> QED
      BY <2>1, <3>1 DEF Message, Msgs
  <2>6. m.type \notin {"NONE", "ABORT"}
    BY <2>2 DEF typ
  <2> QED
    BY <2>1, <2>4, <2>5, <2>6, SMTT(60)
<1>2. CASE /\ m = Message("INFO", <<>>, m.header, m.body)
           /\ m.header \in Seq(Nat) /\ m.body \in Seq(Nat)
           /\ \A i \in DOMAIN m.header : m.header[i] \notin {STX, ETX}
           /\ \A i \in DOMAIN m.body : m.body[i] # ETX
           /\ Len(m.header) + Len(m.body) + (IF m.header = <<>> THEN 1 ELSE 2)
                 <= MaxMessageLen
  <2> DEFINE h == m.header
             b == m.body
             text == (IF h = <<>> THEN <<>> ELSE Append(h, STX)) \o Append(b, ETX)
             k == bcc(text)
  <2>1. /\ h \in Octets /\ b \in Octets /\ m = Message("INFO", <<>>, h, b)
        /\ \A i \in 1 .. Len(h) : h[i] \notin {STX, ETX}
        /\ \A i \in 1 .. Len(b) : b[i] # ETX
        /\ Len(h) + Len(b) + (IF h = <<>> THEN 1 ELSE 2) <= MaxMessageLen
    <3>1. h \in Seq(Nat) /\ b \in Seq(Nat)
      BY <1>2
    <3>2. DOMAIN h = 1 .. Len(h) /\ DOMAIN b = 1 .. Len(b)
      BY <3>1
    <3>3. \A i \in 1 .. Len(h) : h[i] \notin {STX, ETX}
      <4>1. \A i \in DOMAIN h : h[i] \notin {STX, ETX}
        BY <1>2, Zenon
      <4> QED
        BY <3>2, <4>1
    <3>4. \A i \in 1 .. Len(b) : b[i] # ETX
      <4>1. \A i \in DOMAIN b : b[i] # ETX
        BY <1>2, Zenon
      <4> QED
        BY <3>2, <4>1
    <3>5. m = Message("INFO", <<>>, h, b)
      BY <1>2, Zenon
    <3>6. Len(h) + Len(b) + (IF h = <<>> THEN 1 ELSE 2) <= MaxMessageLen
      BY <1>2, Zenon
    <3> QED
      BY <3>1, <3>3, <3>4, <3>5, <3>6, Zenon DEF Octets
  <2>2. m.type = "INFO" /\ m.prefix = <<>>
    BY <1>2 DEF Message
  <2>3. to_string(m) = InfoText(h, b, k)
    BY <2>2 DEF to_string, InfoText
  <2>4. k \in Nat
    <3>1. text \in Octets
      BY <2>1 DEF Octets
    <3> HIDE DEF text
    <3>2. SumOf(text) \in Nat
      BY <3>1, SumTyped
    <3> QED
      BY <3>2 DEF bcc
  <2> HIDE DEF h, b, text, k
  <2>5. PICK stx, etx : Laid(InfoText(h, b, k), h, b, stx, etx)
    BY <2>1, <2>4, InfoLaid
  <2>6. to_string(m) \in Octets
    BY ToStringTyped
  <2>7. Parsed(to_string(m), Message("INFO", <<>>, h, b))
    BY <2>3, <2>5, <2>6, InfoParsed, SMTT(60)
  <2>8. to_string(m) # <<>>
    <3>1. Len(to_string(m)) = etx + 1 /\ etx \in Nat
      BY <2>3, <2>5 DEF Laid
    <3> QED
      BY <3>1
  <2>9. Message("INFO", <<>>, h, b) \in Msgs
    <3>1. <<>> \in Octets /\ "INFO" \in Types
      BY SMTT(60) DEF Octets, Types
    <3> QED
      BY <2>1, <3>1 DEF Message, Msgs
  <2> QED
    BY <2>1, <2>2, <2>7, <2>8, <2>9
<1> QED
  BY <1>1, <1>2, Zenon DEF Sendable

\* An empty input holds no message.
LEMMA EmptyParsed == parse_input(<<>>) = Nothing(<<>>)
<1>1. <<>> \in Octets /\ Len(<<>>) = 0 /\ MaxPrefixLen \in Nat
  BY FramingAssumption DEF Octets
<1>2. \A j \in 1 .. Len(<<>>) : <<>>[j] \notin MSG_START_CHARACTERS
  BY <1>1
<1>3. find(<<>>, MSG_START_CHARACTERS) = 0
  BY <1>1, <1>2, FindNone
<1>4. ~(Len(<<>>) > MaxPrefixLen)
  BY <1>1
<1> QED
  BY <1>3, <1>4 DEF parse_input

-----------------------------------------------------------------------------
(* The bytes of several messages.                                          *)

texts(ms) == [i \in DOMAIN ms |-> to_string(ms[i])]

\* A string for each message.
LEMMA TextsTyped ==
    ASSUME NEW ms \in Seq(Messages)
    PROVE  /\ texts(ms) \in Seq(Octets) /\ Len(texts(ms)) = Len(ms)
           /\ \A i \in 1 .. Len(ms) : texts(ms)[i] = to_string(ms[i])
           /\ bytes_of(ms) = Flatten(texts(ms)) /\ bytes_of(ms) \in Octets
<1>1. \A i \in 1 .. Len(ms) : to_string(ms[i]) \in Octets
  <2> SUFFICES ASSUME NEW i \in 1 .. Len(ms) PROVE to_string(ms[i]) \in Octets
    OBVIOUS
  <2>1. Sendable(ms[i])
    BY FramingAssumption
  <2> QED
    BY <2>1, ToStringTyped
<1>2. DOMAIN ms = 1 .. Len(ms) /\ Len(ms) \in Nat
  OBVIOUS
<1>3. texts(ms) = [i \in 1 .. Len(ms) |-> to_string(ms[i])]
  BY <1>2 DEF texts
<1>4. /\ texts(ms) \in Seq(Octets) /\ Len(texts(ms)) = Len(ms)
      /\ \A i \in 1 .. Len(ms) : texts(ms)[i] = to_string(ms[i])
  BY <1>1, <1>2, <1>3
<1>5. bytes_of(ms) = Flatten(texts(ms))
  BY DEF bytes_of, texts
<1> QED
  BY <1>4, <1>5, FlattenTyped

\* What is left of a sequence of messages.
LEMMA DropMessages ==
    ASSUME NEW S, NEW ms \in Seq(S), NEW k \in 0 .. Len(ms)
    PROVE  /\ Drop(ms, k) \in Seq(S) /\ Len(Drop(ms, k)) = Len(ms) - k
           /\ \A i \in 1 .. Len(ms) - k : Drop(ms, k)[i] = ms[k + i]
BY DEF Drop

\* The bytes of the first message come first.
LEMMA BytesFirst ==
    ASSUME NEW ms \in Seq(Messages), NEW k \in 0 .. Len(ms), k < Len(ms)
    PROVE  bytes_of(Drop(ms, k)) = to_string(ms[k + 1]) \o bytes_of(Drop(ms, k + 1))
<1> DEFINE d == Drop(ms, k)
           e == Drop(ms, k + 1)
           u == texts(d)
           v == texts(e)
           N == Len(ms)
<1>1. N \in Nat /\ k \in 0 .. N /\ k + 1 \in 0 .. N /\ k < N
  OBVIOUS
<1>2. /\ d \in Seq(Messages) /\ Len(d) = N - k /\ \A i \in 1 .. N - k : d[i] = ms[k + i]
      /\ e \in Seq(Messages) /\ Len(e) = N - (k + 1)
      /\ \A i \in 1 .. N - (k + 1) : e[i] = ms[(k + 1) + i]
  BY <1>1, DropMessages, SMTT(60)
<1> HIDE DEF d, e, N
<1>3. /\ u \in Seq(Octets) /\ Len(u) = N - k /\ \A i \in 1 .. N - k : u[i] = to_string(d[i])
      /\ v \in Seq(Octets) /\ Len(v) = N - (k + 1)
      /\ \A i \in 1 .. N - (k + 1) : v[i] = to_string(e[i])
      /\ bytes_of(d) = Flatten(u) /\ bytes_of(e) = Flatten(v)
  BY <1>2, TextsTyped
<1> HIDE DEF u, v
<1>4. u # <<>>
  BY <1>1, <1>3
<1>5. Head(u) = to_string(ms[k + 1])
  <2>1. 1 \in 1 .. N - k /\ Head(u) = u[1]
    BY <1>1, <1>3, <1>4
  <2> QED
    BY <1>2, <1>3, <2>1
<1>6. Tail(u) = v
  <2> DEFINE w == Tail(u)
  <2>1. /\ w \in Seq(Octets) /\ Len(w) = N - (k + 1)
        /\ \A i \in 1 .. N - (k + 1) : w[i] = u[i + 1]
    BY <1>1, <1>3, <1>4
  <2> HIDE DEF w
  <2>2. ASSUME NEW i \in 1 .. N - (k + 1) PROVE w[i] = v[i]
    <3>1. i + 1 \in 1 .. N - k /\ k + (i + 1) = (k + 1) + i
      BY <1>1
    <3>2. u[i + 1] = to_string(ms[k + (i + 1)])
      BY <1>2, <1>3, <3>1, SMTT(60)
    <3>3. v[i] = to_string(ms[(k + 1) + i])
      BY <1>2, <1>3
    <3> QED
      BY <2>1, <3>1, <3>2, <3>3
  <2>3. w = v
    BY <1>3, <2>1, <2>2, SeqEqual, SMTT(60)
  <2> QED
    BY <2>3 DEF w
<1>7. Flatten(u) = Head(u) \o Flatten(Tail(u))
  BY <1>3, <1>4, FlattenFirst, SMTT(60)
<1> QED
  BY <1>3, <1>5, <1>6, <1>7, Zenon DEF d, e

\* The bytes of one message more come last.
LEMMA BytesMore ==
    ASSUME NEW ms \in Seq(Messages), NEW m \in Messages
    PROVE  bytes_of(Append(ms, m)) = bytes_of(ms) \o to_string(m)
<1> DEFINE e == Append(ms, m)
           u == texts(ms)
           v == texts(e)
           w == Append(u, to_string(m))
           N == Len(ms)
<1>1. /\ e \in Seq(Messages) /\ N \in Nat /\ Len(e) = N + 1 /\ e[N + 1] = m
      /\ \A i \in 1 .. N : e[i] = ms[i]
  OBVIOUS
<1>2. to_string(m) \in Octets
  BY FramingAssumption, ToStringTyped
<1> HIDE DEF e
<1>3. /\ u \in Seq(Octets) /\ Len(u) = N /\ \A i \in 1 .. N : u[i] = to_string(ms[i])
      /\ bytes_of(ms) = Flatten(u)
  BY TextsTyped
<1>4. /\ v \in Seq(Octets) /\ Len(v) = N + 1 /\ \A i \in 1 .. N + 1 : v[i] = to_string(e[i])
      /\ bytes_of(e) = Flatten(v)
  BY <1>1, TextsTyped
<1> HIDE DEF u, v, N
<1>5. /\ w \in Seq(Octets) /\ Len(w) = N + 1 /\ w[N + 1] = to_string(m)
      /\ \A i \in 1 .. N : w[i] = u[i]
  BY <1>1, <1>2, <1>3
<1>6. Flatten(w) = Flatten(u) \o to_string(m)
  BY <1>2, <1>3, FlattenAppend
<1> HIDE DEF w
<1>7. ASSUME NEW i \in 1 .. N + 1 PROVE v[i] = w[i]
  <2>1. CASE i = N + 1
    BY <1>1, <1>4, <1>5, <2>1, SMTT(60)
  <2>2. CASE i \in 1 .. N
    BY <1>1, <1>3, <1>4, <1>5, <2>2, SMTT(60)
  <2> QED
    BY <1>1, <2>1, <2>2, SMTT(60)
<1>8. v = w
  BY <1>4, <1>5, <1>7, SeqEqual
<1> QED
  BY <1>3, <1>4, <1>6, <1>8 DEF e

\* No messages, no bytes.
LEMMA BytesNone ==
    ASSUME NEW ms \in Seq(Messages)
    PROVE  /\ bytes_of(<<>>) = <<>>
           /\ Drop(ms, Len(ms)) = <<>> /\ Drop(ms, 0) = ms
           /\ SubSeq(ms, 1, 0) = <<>> /\ SubSeq(ms, 1, Len(ms)) = ms
<1>1. <<>> \in Seq(Messages) /\ Len(<<>>) = 0
  OBVIOUS
<1>2. texts(<<>>) \in Seq(Octets) /\ Len(texts(<<>>)) = 0 /\ bytes_of(<<>>) = Flatten(texts(<<>>))
  BY <1>1, TextsTyped, Zenon
<1>3. texts(<<>>) = <<>>
  BY <1>2
<1>4. bytes_of(<<>>) = <<>>
  BY <1>2, <1>3, FlattenEmpty
<1>5. Drop(ms, Len(ms)) = <<>> /\ SubSeq(ms, 1, 0) = <<>>
  BY DEF Drop
<1>6. SubSeq(ms, 1, Len(ms)) = ms
  BY SubSeqFull
<1>7. Drop(ms, 0) = ms
  BY <1>6 DEF Drop
<1> QED
  BY <1>4, <1>5, <1>6, <1>7, SMTT(60)

\* Where a string that is cut in two ways is the same.
LEMMA CutTwice ==
    ASSUME NEW t \in Octets, NEW z \in Octets, NEW x \in Octets, NEW y \in Octets,
           x \o y = t \o z
    PROVE  /\ Len(x) < Len(t) => Agree(t, x, Len(x)) /\ y # <<>>
           /\ Len(t) <= Len(x) => Agree(t, x, Len(t)) /\ Drop(x, Len(t)) \o y = z
                                  /\ Drop(x, Len(t)) \in Octets
<1> DEFINE w == x \o y
<1>1. /\ t \in Seq(Nat) /\ z \in Seq(Nat) /\ x \in Seq(Nat) /\ y \in Seq(Nat)
      /\ Len(t) \in Nat /\ Len(z) \in Nat /\ Len(x) \in Nat /\ Len(y) \in Nat
  BY DEF Octets
<1>2. /\ Len(w) = Len(x) + Len(y) /\ \A i \in 1 .. Len(x) : w[i] = x[i]
  BY <1>1, TwoJoined, SMTT(60)
<1>3. Len(w) = Len(t) + Len(z) /\ \A i \in 1 .. Len(t) : w[i] = t[i]
  <2>1. w = t \o z
    OBVIOUS
  <2>2. Len(t \o z) = Len(t) + Len(z) /\ \A i \in 1 .. Len(t) : (t \o z)[i] = t[i]
    BY <1>1, TwoJoined
  <2> QED
    BY <2>1, <2>2, Zenon
<1> HIDE DEF w
<1>4. ASSUME Len(x) < Len(t) PROVE Agree(t, x, Len(x)) /\ y # <<>>
  <2>1. \A i \in 1 .. Len(x) : t[i] = x[i]
    BY <1>1, <1>2, <1>3, <1>4, SMTT(60)
  <2>2. Len(y) # 0
    BY <1>1, <1>2, <1>3, <1>4, SMTT(60)
  <2> QED
    BY <1>1, <1>4, <2>1, <2>2 DEF Agree
<1>5. ASSUME Len(t) <= Len(x)
      PROVE  Agree(t, x, Len(t)) /\ Drop(x, Len(t)) \o y = z /\ Drop(x, Len(t)) \in Octets
  <2>1. \A i \in 1 .. Len(t) : t[i] = x[i]
    BY <1>1, <1>2, <1>3, <1>5, SMTT(60)
  <2>2. Agree(t, x, Len(t))
    BY <1>1, <1>5, <2>1 DEF Agree
  <2>3. Len(t) \in 0 .. Len(x)
    BY <1>1, <1>5
  <2>4. Drop(x \o y, Len(t)) = Drop(x, Len(t)) \o y /\ Drop(x, Len(t)) \in Octets
    BY <2>3, DropPart, ZenonT(60)
  <2>5. Drop(t \o z, Len(t)) = z
    BY DropConcat
  <2> QED
    BY <2>2, <2>4, <2>5, SMTT(60)
<1> QED
  BY <1>4, <1>5

\* One call of parse_input on the bytes of messages, of which only x have come: it
\* returns the next message, or all the bytes of it are not there yet.
LEMMA OneCall ==
    ASSUME NEW ms \in Seq(Messages), NEW k \in 0 .. Len(ms),
           NEW x \in Octets, NEW y \in Octets, x \o y = bytes_of(Drop(ms, k))
    PROVE  \/ parse_input(x) = Nothing(x) /\ (y = <<>> => k = Len(ms))
           \/ /\ k < Len(ms)
              /\ \E r \in Octets : /\ parse_input(x) = [msg |-> ms[k + 1], rest |-> r]
                                   /\ r \o y = bytes_of(Drop(ms, k + 1))
<1>1. CASE k = Len(ms)
  <2>1. x \o y = <<>>
    BY <1>1, BytesNone
  <2>2. x = <<>>
    BY <2>1, SMTT(60) DEF Octets
  <2> QED
    BY <1>1, <2>2, EmptyParsed
<1>2. CASE k < Len(ms)
  <2> DEFINE m == ms[k + 1]
             t == to_string(m)
             z == bytes_of(Drop(ms, k + 1))
  <2>1. k + 1 \in 1 .. Len(ms) /\ k + 1 \in 0 .. Len(ms)
    BY <1>2
  <2>2. m \in Messages /\ Sendable(m)
    BY <2>1, FramingAssumption
  <2>3. t \in Octets
    BY <2>2, ToStringTyped, SMTT(60)
  <2>4. Drop(ms, k + 1) \in Seq(Messages)
    BY <2>1, DropMessages
  <2>5. z \in Octets
    BY <2>4, TextsTyped
  <2>6. x \o y = t \o z
    BY <1>2, BytesFirst, Zenon
  <2>7. Parsed(t, m)
    BY <2>2, MessageParsed
  <2> HIDE DEF m, t, z
  <2>8. Len(t) \in Nat /\ Len(x) \in Nat
    BY <2>3 DEF Octets
  <2>9. CASE Len(x) < Len(t)
    <3>1. Agree(t, x, Len(x)) /\ y # <<>>
      BY <2>3, <2>5, <2>6, <2>9, CutTwice, Zenon
    <3>2. parse_input(x) = Nothing(x)
      BY <2>7, <2>9, <3>1 DEF Parsed
    <3> QED
      BY <3>1, <3>2
  <2>10. CASE Len(t) <= Len(x)
    <3>1. /\ Agree(t, x, Len(t)) /\ Drop(x, Len(t)) \o y = z
          /\ Drop(x, Len(t)) \in Octets
      BY <2>3, <2>5, <2>6, <2>10, CutTwice, Zenon
    <3>2. parse_input(x) = [msg |-> m, rest |-> Drop(x, Len(t))]
      BY <2>7, <3>1 DEF Parsed
    <3> QED
      BY <1>2, <3>1, <3>2, Zenon DEF m, z
  <2> QED
    BY <2>8, <2>9, <2>10
<1> QED
  BY <1>1, <1>2, SMTT(60)

\* The first messages.
LEMMA FirstPiece ==
    ASSUME NEW S, NEW ms \in Seq(S), NEW k \in 0 .. Len(ms)
    PROVE  /\ SubSeq(ms, 1, k) \in Seq(S) /\ Len(SubSeq(ms, 1, k)) = k
           /\ \A i \in 1 .. k : SubSeq(ms, 1, k)[i] = ms[i]
OBVIOUS

\* Two sequences joined.
LEMMA Joined ==
    ASSUME NEW S, NEW v \in Seq(S), NEW w \in Seq(S)
    PROVE  /\ v \o w \in Seq(S) /\ Len(v \o w) = Len(v) + Len(w)
           /\ \A i \in 1 .. Len(v) : (v \o w)[i] = v[i]
           /\ \A i \in 1 .. Len(w) : (v \o w)[Len(v) + i] = w[i]
OBVIOUS

\* Pieces of a sequence, one behind the other.
LEMMA Pieces ==
    ASSUME NEW S, NEW ms \in Seq(S), NEW k \in 0 .. Len(ms), NEW j \in 0 .. Len(ms) - k
    PROVE  /\ k + j \in 0 .. Len(ms)
           /\ Drop(Drop(ms, k), j) = Drop(ms, k + j)
           /\ SubSeq(ms, 1, k) \o SubSeq(Drop(ms, k), 1, j) = SubSeq(ms, 1, k + j)
<1> DEFINE N == Len(ms)
           d == Drop(ms, k)
           u == Drop(d, j)
           v == Drop(ms, k + j)
<1>1. N \in Nat /\ k + j \in 0 .. N /\ k \in Nat /\ j \in Nat /\ k <= N /\ j <= N - k
  OBVIOUS
<1>2. d \in Seq(S) /\ Len(d) = N - k /\ \A i \in 1 .. N - k : d[i] = ms[k + i]
  BY DropMessages, Zenon
<1>3. /\ v \in Seq(S) /\ Len(v) = N - (k + j)
      /\ \A i \in 1 .. N - (k + j) : v[i] = ms[(k + j) + i]
  BY <1>1, DropMessages, Zenon
<1> HIDE DEF d, N
<1>4. /\ u \in Seq(S) /\ Len(u) = (N - k) - j
      /\ \A i \in 1 .. (N - k) - j : u[i] = d[j + i]
  <2>1. j \in 0 .. Len(d)
    BY <1>1, <1>2
  <2>2. d \in Seq(S)
    BY <1>2
  <2>3. /\ u \in Seq(S) /\ Len(u) = Len(d) - j
        /\ \A i \in 1 .. Len(d) - j : u[i] = d[j + i]
    BY <2>1, <2>2, DropMessages, SMTT(60)
  <2> QED
    BY <1>2, <2>3, Zenon
<1> HIDE DEF u, v
<1>5. u = v
  <2>1. N - (k + j) = (N - k) - j
    BY <1>1
  <2>2. ASSUME NEW i \in 1 .. N - (k + j) PROVE u[i] = v[i]
    <3>1. j + i \in 1 .. N - k /\ k + (j + i) = (k + j) + i
      BY <1>1
    <3>2. i \in 1 .. (N - k) - j
      BY <2>1
    <3>3. u[i] = d[j + i]
      BY <1>4, <3>2, Zenon
    <3>4. d[j + i] = ms[k + (j + i)]
      BY <1>2, <3>1, Zenon
    <3>5. v[i] = ms[(k + j) + i]
      BY <1>3, Zenon
    <3> QED
      BY <3>1, <3>3, <3>4, <3>5, Zenon
  <2> QED
    BY <1>3, <1>4, <2>1, <2>2, SeqEqual, Zenon
<1> DEFINE a == SubSeq(ms, 1, k)
           b == SubSeq(d, 1, j)
           c == SubSeq(ms, 1, k + j)
           w == a \o b
<1>6. a \in Seq(S) /\ Len(a) = k /\ \A i \in 1 .. k : a[i] = ms[i]
  BY <1>1 DEF N
<1>7. b \in Seq(S) /\ Len(b) = j /\ \A i \in 1 .. j : b[i] = d[i]
  BY <1>1, <1>2
<1>8. c \in Seq(S) /\ Len(c) = k + j /\ \A i \in 1 .. k + j : c[i] = ms[i]
  <2>1. k + j \in 0 .. Len(ms)
    BY <1>1 DEF N
  <2> QED
    BY <2>1, FirstPiece
<1> HIDE DEF a, b, c
<1>9. /\ w \in Seq(S) /\ Len(w) = k + j /\ \A i \in 1 .. k : w[i] = a[i]
      /\ \A i \in 1 .. j : w[k + i] = b[i]
  <2>1. a \in Seq(S) /\ b \in Seq(S)
    BY <1>6, <1>7
  <2>2. /\ w \in Seq(S) /\ Len(w) = Len(a) + Len(b)
        /\ \A i \in 1 .. Len(a) : w[i] = a[i]
        /\ \A i \in 1 .. Len(b) : w[Len(a) + i] = b[i]
    BY <2>1, Joined
  <2>3. Len(a) = k /\ Len(b) = j
    BY <1>6, <1>7
  <2> HIDE DEF w
  <2> QED
    BY <2>2, <2>3, Zenon
<1> HIDE DEF w
<1>10. w = c
  <2>1. ASSUME NEW i \in 1 .. k + j PROVE w[i] = c[i]
    <3>1. CASE i <= k
      <4>1. i \in 1 .. k
        BY <1>1, <3>1
      <4> QED
        BY <1>6, <1>8, <1>9, <4>1, Zenon
    <3>2. CASE i > k
      <4>1. i - k \in 1 .. j /\ k + (i - k) = i /\ i - k \in 1 .. N - k
        BY <1>1, <3>2
      <4>2. w[k + (i - k)] = b[i - k]
        BY <1>9, <4>1, Zenon
      <4>3. b[i - k] = d[i - k]
        BY <1>7, <4>1, Zenon
      <4>4. d[i - k] = ms[k + (i - k)]
        BY <1>2, <4>1, Zenon
      <4>5. c[i] = ms[i]
        BY <1>8, Zenon
      <4> QED
        BY <4>1, <4>2, <4>3, <4>4, <4>5, Zenon
    <3> QED
      BY <1>1, <3>1, <3>2
  <2> QED
    BY <1>8, <1>9, <2>1, SeqEqual, SMTT(60)
<1> QED
  BY <1>1, <1>5, <1>10 DEF u, v, d, w, a, b, c, N

\* One message more.
LEMMA Grows ==
    ASSUME NEW S, NEW ms \in Seq(S), NEW m \in S, NEW k \in 0 .. Len(ms)
    PROVE  /\ Drop(Append(ms, m), k) = Append(Drop(ms, k), m)
           /\ SubSeq(Append(ms, m), 1, k) = SubSeq(ms, 1, k)
<1> DEFINE N == Len(ms)
           e == Append(ms, m)
           d == Drop(ms, k)
           u == Drop(e, k)
           v == Append(d, m)
<1>1. N \in Nat /\ k \in Nat /\ k <= N
  OBVIOUS
<1>2. e \in Seq(S) /\ Len(e) = N + 1 /\ e[N + 1] = m /\ \A i \in 1 .. N : e[i] = ms[i]
  OBVIOUS
<1>3. d \in Seq(S) /\ Len(d) = N - k /\ \A i \in 1 .. N - k : d[i] = ms[k + i]
  BY DropMessages
<1> HIDE DEF e, d, N
<1>4. u \in Seq(S) /\ Len(u) = (N + 1) - k /\ \A i \in 1 .. (N + 1) - k : u[i] = e[k + i]
  <2>1. k \in 0 .. Len(e)
    BY <1>1, <1>2
  <2>2. e \in Seq(S)
    BY <1>2
  <2>3. /\ u \in Seq(S) /\ Len(u) = Len(e) - k
        /\ \A i \in 1 .. Len(e) - k : u[i] = e[k + i]
    BY <2>1, <2>2, DropMessages, SMTT(60)
  <2> QED
    BY <1>2, <2>3, Zenon
<1>5. /\ v \in Seq(S) /\ Len(v) = (N - k) + 1 /\ v[(N - k) + 1] = m
      /\ \A i \in 1 .. N - k : v[i] = d[i]
  BY <1>1, <1>3
<1> HIDE DEF u, v
<1>6. (N + 1) - k = (N - k) + 1
  BY <1>1
<1>7. ASSUME NEW i \in 1 .. (N + 1) - k PROVE u[i] = v[i]
  <2>1. CASE i = (N - k) + 1
    <3>1. k + i = N + 1
      BY <1>1, <2>1
    <3> QED
      BY <1>2, <1>4, <1>5, <2>1, <3>1, SMTT(60)
  <2>2. CASE i \in 1 .. N - k
    <3>1. k + i \in 1 .. N
      BY <1>1, <2>2
    <3> QED
      BY <1>2, <1>3, <1>4, <1>5, <2>2, <3>1, Zenon
  <2> QED
    BY <1>1, <2>1, <2>2, SMTT(60)
<1>8. u = v
  BY <1>4, <1>5, <1>6, <1>7, SeqEqual, Zenon
<1>9. SubSeq(e, 1, k) = SubSeq(ms, 1, k)
  <2> DEFINE a == SubSeq(e, 1, k)
             b == SubSeq(ms, 1, k)
  <2>1. a \in Seq(S) /\ Len(a) = k /\ \A i \in 1 .. k : a[i] = e[i]
    <3>1. e \in Seq(S) /\ k \in 0 .. Len(e)
      BY <1>1, <1>2
    <3> QED
      BY <3>1, FirstPiece
  <2>2. b \in Seq(S) /\ Len(b) = k /\ \A i \in 1 .. k : b[i] = ms[i]
    BY <1>1 DEF N
  <2> HIDE DEF a, b
  <2>3. \A i \in 1 .. k : a[i] = b[i]
    <3>1. \A i \in 1 .. k : i \in 1 .. N
      BY <1>1
    <3> QED
      BY <1>2, <2>1, <2>2, <3>1, Zenon
  <2>4. a = b
    BY <2>1, <2>2, <2>3, SeqEqual, SMTT(60)
  <2> QED
    BY <2>4 DEF a, b
<1> QED
  BY <1>8, <1>9 DEF u, v, e, d

\* The next message is put behind the ones before it.
LEMMA NextPiece ==
    ASSUME NEW S, NEW ms \in Seq(S), NEW k \in 0 .. Len(ms), k < Len(ms)
    PROVE  Append(SubSeq(ms, 1, k), ms[k + 1]) = SubSeq(ms, 1, k + 1)
<1> DEFINE a == SubSeq(ms, 1, k)
           b == SubSeq(ms, 1, k + 1)
           c == Append(a, ms[k + 1])
<1>1. a \in Seq(S) /\ Len(a) = k /\ \A i \in 1 .. k : a[i] = ms[i]
  OBVIOUS
<1>2. b \in Seq(S) /\ Len(b) = k + 1 /\ \A i \in 1 .. k + 1 : b[i] = ms[i]
  OBVIOUS
<1>3. ms[k + 1] \in S
  OBVIOUS
<1> HIDE DEF a, b
<1>4. c \in Seq(S) /\ Len(c) = k + 1 /\ c[k + 1] = ms[k + 1] /\ \A i \in 1 .. k : c[i] = a[i]
  BY <1>1, <1>3
<1> HIDE DEF c
<1>5. \A i \in 1 .. k + 1 : c[i] = b[i]
  BY <1>1, <1>2, <1>4, SMTT(60)
<1>6. c = b
  BY <1>2, <1>4, <1>5, SeqEqual, SMTT(60)
<1> QED
  BY <1>6 DEF a, b, c

-----------------------------------------------------------------------------
(* The loop on the bytes of messages.                                      *)

\* What the loop has made of the first bytes, x, of the messages ms, when y are the
\* bytes to come.
Halfway(s, ms, y) ==
    /\ s.alive = TRUE
    /\ \E k \in 0 .. Len(ms) : /\ s.msgs = SubSeq(ms, 1, k)
                               /\ s.rest \o y = bytes_of(Drop(ms, k))

\* A turn of the loop takes the next message or changes nothing.
LEMMA TurnHalfway ==
    ASSUME NEW ms \in Seq(Messages), NEW y \in Octets, NEW s \in ParseStates,
           Halfway(s, ms, y)
    PROVE  Halfway(parse_turn(s), ms, y)
<1> DEFINE p == parse_input(s.rest)
           q == IF p.msg.type \in {"NONE", "ABORT"} THEN s.msgs ELSE Append(s.msgs, p.msg)
<1>1. PICK k \in 0 .. Len(ms) : /\ s.msgs = SubSeq(ms, 1, k)
                                /\ s.rest \o y = bytes_of(Drop(ms, k))
  BY DEF Halfway
<1>2. s.alive = TRUE /\ s.rest \in Octets /\ s.msgs \in Seq(Msgs)
  BY DEF Halfway, ParseStates
<1>3. parse_turn(s) = [msgs |-> q, rest |-> p.rest, alive |-> p.msg.type # "ABORT"]
  BY <1>2 DEF parse_turn
<1>4. CASE p = Nothing(s.rest)
  <2>1. p.msg.type = "NONE" /\ p.rest = s.rest
    BY <1>2, <1>4, MadeUp
  <2>2. (p.msg.type # "ABORT") = TRUE /\ q = s.msgs
    BY <2>1, SMTT(60)
  <2>3. parse_turn(s) = [msgs |-> s.msgs, rest |-> s.rest, alive |-> TRUE]
    BY <1>3, <2>1, <2>2, Zenon
  <2>4. /\ parse_turn(s).msgs = s.msgs /\ parse_turn(s).rest = s.rest
        /\ parse_turn(s).alive = TRUE
    BY <2>3
  <2> QED
    BY <1>1, <2>4, SMTT(60) DEF Halfway
<1>5. ASSUME k < Len(ms), NEW r \in Octets, p = [msg |-> ms[k + 1], rest |-> r],
             r \o y = bytes_of(Drop(ms, k + 1))
      PROVE  Halfway(parse_turn(s), ms, y)
  <2>1. k + 1 \in 1 .. Len(ms) /\ k + 1 \in 0 .. Len(ms)
    BY <1>5
  <2> DEFINE m == ms[k + 1]
  <2>2. m \in Messages /\ Sendable(m)
    BY <2>1, FramingAssumption, SMTT(60)
  <2>3. m.type \notin {"NONE", "ABORT"}
    BY <2>2, MessageParsed, SMTT(60)
  <2>4. p.msg = m /\ p.rest = r
    BY <1>5, SMTT(60)
  <2> HIDE DEF m, p
  <2>5. (p.msg.type # "ABORT") = TRUE /\ q = Append(s.msgs, m)
    BY <2>3, <2>4, SMTT(60)
  <2>6. Append(s.msgs, m) = SubSeq(ms, 1, k + 1)
    BY <1>1, <1>5, NextPiece, SMTT(60) DEF m
  <2>7. parse_turn(s) = [msgs |-> SubSeq(ms, 1, k + 1), rest |-> r, alive |-> TRUE]
    BY <1>3, <2>4, <2>5, <2>6, Zenon
  <2>8. /\ parse_turn(s).msgs = SubSeq(ms, 1, k + 1) /\ parse_turn(s).rest = r
        /\ parse_turn(s).alive = TRUE
    BY <2>7
  <2> QED
    BY <1>5, <2>1, <2>8, SMTT(60) DEF Halfway
<1> QED
  BY <1>1, <1>2, <1>4, <1>5, OneCall, ZenonT(60)

\* parse_input has taken all it could.
LEMMA NothingLeft ==
    ASSUME NEW ms \in Seq(Messages), NEW k \in 0 .. Len(ms), NEW x \in Octets,
           x \o <<>> = bytes_of(Drop(ms, k)), parse_input(x) = Nothing(x)
    PROVE  k = Len(ms)
<1>1. <<>> \in Octets
  BY DEF Octets
<1>2. ASSUME k < Len(ms), NEW r \in Octets, parse_input(x) = [msg |-> ms[k + 1], rest |-> r]
      PROVE  FALSE
  <2> DEFINE m == ms[k + 1]
  <2>1. m \in Messages /\ Sendable(m)
    BY <1>2, FramingAssumption, SMTT(60)
  <2>2. m.type # "NONE"
    BY <2>1, MessageParsed
  <2> HIDE DEF m
  <2>3. Nothing(x) = [msg |-> m, rest |-> r]
    BY <1>2 DEF m
  <2>4. Nothing(x).msg.type = "NONE"
    BY MadeUp
  <2> QED
    BY <2>2, <2>3, <2>4, SMTT(60)
<1> QED
  BY <1>1, <1>2, OneCall, ZenonT(60)

\* The loop returns the messages whose bytes have all come, and keeps the others.
LEMMA LoopParses ==
    ASSUME NEW ms \in Seq(Messages), NEW x \in Octets, NEW y \in Octets,
           x \o y = bytes_of(ms)
    PROVE  /\ parse_all(x).alive = TRUE
           /\ parse_input(parse_all(x).rest) = Nothing(parse_all(x).rest)
           /\ \E k \in 0 .. Len(ms) :
                 /\ parse_all(x).msgs = SubSeq(ms, 1, k)
                 /\ parse_all(x).rest \o y = bytes_of(Drop(ms, k))
<1> DEFINE I == {s \in ParseStates : Halfway(s, ms, y)}
<1>1. Begin(x) \in I
  <2>1. /\ Begin(x).msgs = <<>> /\ Begin(x).rest = x /\ Begin(x).alive = TRUE
    BY DEF Begin
  <2>2. Begin(x) \in ParseStates
    BY DEF Begin, ParseStates
  <2>3. SubSeq(ms, 1, 0) = <<>> /\ Drop(ms, 0) = ms /\ 0 \in 0 .. Len(ms)
    BY BytesNone
  <2> QED
    BY <2>1, <2>2, <2>3, Zenon DEF Halfway
<1>2. ASSUME NEW s \in ParseStates, s \in I PROVE parse_turn(s) \in I
  BY <1>2, TurnHalfway, TurnTyped, SMTT(60)
<1>3. parse_all(x) \in I
  <2> HIDE DEF I
  <2> QED
    BY <1>1, <1>2, ParseAllInvariant
<1>4. Settled(parse_all(x))
  BY ParseAllSettles, SMTT(60)
<1> QED
  BY <1>3, <1>4, Zenon DEF Halfway, Settled

-----------------------------------------------------------------------------
(* Before the first fault.                                                 *)

\* The inductive invariant: the messages not returned yet are exactly in the bytes
\* not used yet, and parse_input has taken all it could.
StepInv ==
    /\ TypeInv /\ faults \in Nat
    /\ faults = 0 =>
          /\ alive = TRUE
          /\ parse_input(input_unprocessed) = Nothing(input_unprocessed)
          /\ \E k \in 0 .. Len(written) :
                /\ received = SubSeq(written, 1, k)
                /\ input_unprocessed \o line = bytes_of(Drop(written, k))

\* A read of bytes that are those of the messages from the (k + 1)-st on.
LEMMA ReadInStep ==
    ASSUME TypeInv, NEW n, read_handler(n), NEW k \in 0 .. Len(written),
           input_unprocessed \o line = bytes_of(Drop(written, k))
    PROVE  /\ alive' = TRUE /\ parse_input(input_unprocessed') = Nothing(input_unprocessed')
           /\ \E j \in 0 .. Len(written) - k :
                 /\ received' = received \o SubSeq(Drop(written, k), 1, j)
                 /\ input_unprocessed' \o line' = bytes_of(Drop(written, k + j))
<1> DEFINE z == SubSeq(line, 1, n)
           x == input_unprocessed \o z
           y == Drop(line, n)
           p == parse_all(x)
           ms == Drop(written, k)
<1>1. /\ n \in 1 .. Len(line) /\ z \in Octets /\ x \in Octets
      /\ input_unprocessed' = p.rest /\ received' = received \o p.msgs
      /\ alive' = p.alive /\ line' = y /\ y \in Octets
  BY ReadParses
<1>2. line \in Octets /\ input_unprocessed \in Octets /\ written \in Seq(Messages)
  BY DEF TypeInv
<1>3. z \o y = line
  <2>1. n \in 0 .. Len(line)
    BY <1>1
  <2> QED
    BY <1>2, <2>1, DropPart, ConcatEmpty, SMTT(60)
<1>4. ms \in Seq(Messages) /\ Len(ms) = Len(written) - k
  BY <1>2, DropMessages
<1> HIDE DEF z, y, ms
<1>5. x \o y = bytes_of(ms)
  <2>1. (input_unprocessed \o z) \o y = input_unprocessed \o (z \o y)
    BY <1>1, <1>2, Reassoc, ZenonT(60)
  <2> QED
    BY <1>3, <2>1, SMTT(60) DEF ms
<1> HIDE DEF x
<1>6. /\ p.alive = TRUE /\ parse_input(p.rest) = Nothing(p.rest)
      /\ \E j \in 0 .. Len(ms) : p.msgs = SubSeq(ms, 1, j) /\ p.rest \o y = bytes_of(Drop(ms, j))
  BY <1>1, <1>4, <1>5, LoopParses, Zenon
<1> HIDE DEF p
<1>7. PICK j \in 0 .. Len(ms) : p.msgs = SubSeq(ms, 1, j) /\ p.rest \o y = bytes_of(Drop(ms, j))
  BY <1>6
<1>8. j \in 0 .. Len(written) - k
  BY <1>4
<1>9. Drop(ms, j) = Drop(written, k + j)
  BY <1>2, <1>8, Pieces, SMTT(60) DEF ms
<1>10. /\ received' = received \o SubSeq(Drop(written, k), 1, j)
       /\ input_unprocessed' \o line' = bytes_of(Drop(written, k + j))
  BY <1>1, <1>7, <1>9, SMTT(60) DEF ms
<1> QED
  BY <1>1, <1>6, <1>8, <1>10, Zenon

\* Every step keeps the invariant.
LEMMA StepInvKept ==
    ASSUME StepInv, [Next]_vars
    PROVE  StepInv'
<1>1. TypeInv /\ faults \in Nat
  BY DEF StepInv
<1>2. TypeInv'
  BY <1>1, TypeKept
<1>3. /\ line \in Octets /\ input_unprocessed \in Octets /\ written \in Seq(Messages)
  BY <1>1, SMTT(60) DEF TypeInv
<1>4. ASSUME NEW m \in Messages, write(m) PROVE StepInv'
  <2>1. /\ line' = line \o to_string(m) /\ written' = Append(written, m)
        /\ input_unprocessed' = input_unprocessed /\ alive' = alive
        /\ received' = received /\ faults' = faults
    BY <1>4 DEF write
  <2>2. ASSUME faults = 0, NEW k \in 0 .. Len(written), received = SubSeq(written, 1, k),
               input_unprocessed \o line = bytes_of(Drop(written, k))
        PROVE  \E j \in 0 .. Len(written') :
                  /\ received' = SubSeq(written', 1, j)
                  /\ input_unprocessed' \o line' = bytes_of(Drop(written', j))
    <3>1. k \in 0 .. Len(written')
      BY <1>3, <2>1
    <3>2. SubSeq(written', 1, k) = SubSeq(written, 1, k)
          /\ Drop(written', k) = Append(Drop(written, k), m)
      BY <1>3, <2>1, Grows, SMTT(60)
    <3>3. Drop(written, k) \in Seq(Messages)
      BY <1>3, DropMessages, SMTT(60)
    <3>4. bytes_of(Append(Drop(written, k), m)) = bytes_of(Drop(written, k)) \o to_string(m)
      BY <3>3, BytesMore
    <3>5. to_string(m) \in Octets
      BY FramingAssumption, ToStringTyped
    <3>6. (input_unprocessed \o line) \o to_string(m)
             = input_unprocessed \o (line \o to_string(m))
      BY <1>3, <3>5, Reassoc, SMTT(60)
    <3>7. input_unprocessed' \o line' = bytes_of(Drop(written', k))
      BY <2>1, <2>2, <3>2, <3>4, <3>6, SMTT(60)
    <3>8. received' = SubSeq(written', 1, k)
      BY <2>1, <2>2, <3>2
    <3> QED
      BY <3>1, <3>7, <3>8
  <2>3. (faults = 0) => /\ alive = TRUE
                        /\ parse_input(input_unprocessed) = Nothing(input_unprocessed)
    BY DEF StepInv
  <2>4. (faults' = 0) => /\ alive' = TRUE
                         /\ parse_input(input_unprocessed') = Nothing(input_unprocessed')
    BY <2>1, <2>3, SMTT(60)
  <2>5. (faults' = 0) => \E j \in 0 .. Len(written') :
                  /\ received' = SubSeq(written', 1, j)
                  /\ input_unprocessed' \o line' = bytes_of(Drop(written', j))
    BY <2>1, <2>2, Zenon DEF StepInv
  <2> QED
    BY <1>1, <1>2, <2>1, <2>4, <2>5, Zenon DEF StepInv
<1>5. ASSUME NEW n \in 1 .. Len(line), read_handler(n) PROVE StepInv'
  <2>1. written' = written /\ faults' = faults
    BY <1>5 DEF read_handler
  <2>2. CASE faults = 0
    <3>1. PICK k \in 0 .. Len(written) :
              /\ received = SubSeq(written, 1, k)
              /\ input_unprocessed \o line = bytes_of(Drop(written, k))
      BY <2>2, Zenon DEF StepInv
    <3>2. /\ alive' = TRUE /\ parse_input(input_unprocessed') = Nothing(input_unprocessed')
          /\ \E j \in 0 .. Len(written) - k :
                /\ received' = received \o SubSeq(Drop(written, k), 1, j)
                /\ input_unprocessed' \o line' = bytes_of(Drop(written, k + j))
      BY <1>1, <1>5, <3>1, ReadInStep, Zenon
    <3>3. PICK j \in 0 .. Len(written) - k :
                /\ received' = received \o SubSeq(Drop(written, k), 1, j)
                /\ input_unprocessed' \o line' = bytes_of(Drop(written, k + j))
      BY <3>2, Zenon
    <3>4. /\ k + j \in 0 .. Len(written)
          /\ SubSeq(written, 1, k) \o SubSeq(Drop(written, k), 1, j) = SubSeq(written, 1, k + j)
      BY <1>3, Pieces
    <3>5. received' = SubSeq(written', 1, k + j) /\ k + j \in 0 .. Len(written')
          /\ input_unprocessed' \o line' = bytes_of(Drop(written', k + j))
      BY <2>1, <3>1, <3>3, <3>4, SMTT(60)
    <3> QED
      BY <1>1, <1>2, <2>1, <3>2, <3>5, Zenon DEF StepInv
  <2>3. CASE faults # 0
    BY <1>1, <1>2, <2>1, <2>3, SMTT(60) DEF StepInv
  <2> QED
    BY <2>2, <2>3
<1>6. ASSUME NEW i \in DOMAIN line, LoseByte(i) \/ ChangeByte(i) PROVE StepInv'
  <2>1. faults' = faults + 1
    BY <1>6 DEF LoseByte, ChangeByte
  <2>2. faults' \in Nat /\ faults' # 0
    BY <1>1, <2>1
  <2> QED
    BY <1>2, <2>2 DEF StepInv
<1>7. CASE UNCHANGED vars
  <2>1. /\ line' = line /\ input_unprocessed' = input_unprocessed /\ alive' = alive
        /\ written' = written /\ received' = received /\ faults' = faults
    BY <1>7 DEF vars
  <2> QED
    BY <1>2, <2>1 DEF StepInv
<1> QED
  BY <1>4, <1>5, <1>6, <1>7, SMTT(60) DEF Next

\* The bytes of the first messages and those of the others.
LEMMA BytesSplit ==
    ASSUME NEW ms \in Seq(Messages), NEW k \in 0 .. Len(ms)
    PROVE  bytes_of(SubSeq(ms, 1, k)) \o bytes_of(Drop(ms, k)) = bytes_of(ms)
<1> DEFINE T == {n \in 0 .. Len(ms) :
                   bytes_of(SubSeq(ms, 1, n)) \o bytes_of(Drop(ms, n)) = bytes_of(ms)}
<1>1. Len(ms) \in Nat
  OBVIOUS
<1>2. 0 \in T
  <2>1. bytes_of(ms) \in Octets
    BY TextsTyped
  <2>2. <<>> \o bytes_of(ms) = bytes_of(ms)
    BY <2>1, ConcatEmpty
  <2>3. SubSeq(ms, 1, 0) = <<>> /\ Drop(ms, 0) = ms /\ bytes_of(<<>>) = <<>> /\ 0 \in 0 .. Len(ms)
    BY <1>1, BytesNone
  <2> QED
    BY <2>2, <2>3, Zenon
<1>3. ASSUME NEW n \in 1 .. Len(ms), n - 1 \in T PROVE n \in T
  <2> DEFINE l == n - 1
             a == SubSeq(ms, 1, l)
             m == ms[n]
             d == Drop(ms, n)
  <2>1. l \in 0 .. Len(ms) /\ l < Len(ms) /\ l + 1 = n /\ n \in 0 .. Len(ms)
    BY <1>1
  <2>2. Append(a, m) = SubSeq(ms, 1, n)
    <3>1. Append(SubSeq(ms, 1, l), ms[l + 1]) = SubSeq(ms, 1, l + 1)
      BY <2>1, NextPiece, SMTT(60)
    <3> QED
      BY <2>1, <3>1
  <2>3. a \in Seq(Messages) /\ d \in Seq(Messages) /\ m \in Messages
    BY <2>1, FirstPiece, DropMessages, SMTT(60)
  <2>4. bytes_of(Append(a, m)) = bytes_of(a) \o to_string(m)
    BY <2>3, BytesMore, Zenon
  <2>5. bytes_of(Drop(ms, l)) = to_string(m) \o bytes_of(d)
    <3>1. bytes_of(Drop(ms, l)) = to_string(ms[l + 1]) \o bytes_of(Drop(ms, l + 1))
      BY <2>1, BytesFirst
    <3> QED
      BY <2>1, <3>1
  <2>6. bytes_of(a) \o bytes_of(Drop(ms, l)) = bytes_of(ms)
    BY <1>3, SMTT(60)
  <2>7. bytes_of(a) \in Octets /\ bytes_of(d) \in Octets /\ to_string(m) \in Octets
    BY <2>3, TextsTyped, ToStringTyped, FramingAssumption, Zenon
  <2> HIDE DEF a, m, d, l
  <2>8. (bytes_of(a) \o to_string(m)) \o bytes_of(d) = bytes_of(a) \o (to_string(m) \o bytes_of(d))
    BY <2>7, Reassoc, Zenon
  <2>9. bytes_of(SubSeq(ms, 1, n)) \o bytes_of(d) = bytes_of(ms)
    BY <2>2, <2>4, <2>5, <2>6, <2>8, Zenon
  <2> QED
    BY <2>1, <2>9 DEF d
<1>4. \A n \in 0 .. Len(ms) : n \in T
  <2> HIDE DEF T
  <2> QED
    BY <1>1, <1>2, <1>3, BoundedInduction, Zenon
<1> QED
  BY <1>4

\* The invariant holds at the start.
LEMMA StepInvAtFirst ==
    ASSUME Init
    PROVE  StepInv
<1>1. TypeInv
  BY BoundAtFirst DEF BoundInv
<1>2. /\ line = <<>> /\ input_unprocessed = <<>> /\ alive = TRUE
      /\ written = <<>> /\ received = <<>> /\ faults = 0
  BY DEF Init
<1>3. <<>> \in Seq(Messages) /\ Len(<<>>) = 0 /\ <<>> \o <<>> = <<>>
  OBVIOUS
<1>4. bytes_of(<<>>) = <<>> /\ Drop(<<>>, 0) = <<>> /\ SubSeq(<<>>, 1, 0) = <<>>
  BY <1>3, BytesNone, Zenon
<1>5. 0 \in 0 .. Len(written) /\ received = SubSeq(written, 1, 0)
      /\ input_unprocessed \o line = bytes_of(Drop(written, 0))
  BY <1>2, <1>3, <1>4, SMTT(60)
<1>6. parse_input(input_unprocessed) = Nothing(input_unprocessed)
  BY <1>2, EmptyParsed
<1> QED
  BY <1>1, <1>2, <1>5, <1>6, SMTT(60) DEF StepInv

\* The invariant says what the reader of the line may rely on.
LEMMA StepInvShows ==
    ASSUME StepInv
    PROVE  ReadsMayCutAnywhere
<1> SUFFICES ASSUME faults = 0
             PROVE  /\ \E n \in 0 .. Len(written) : received = SubSeq(written, 1, n)
                    /\ bytes_of(received) \o input_unprocessed \o line = bytes_of(written)
                    /\ line = <<>> => received = written
  BY DEF ReadsMayCutAnywhere
<1>1. /\ line \in Octets /\ input_unprocessed \in Octets /\ written \in Seq(Messages)
      /\ parse_input(input_unprocessed) = Nothing(input_unprocessed)
  BY DEF StepInv, TypeInv
<1>2. PICK k \in 0 .. Len(written) :
          /\ received = SubSeq(written, 1, k)
          /\ input_unprocessed \o line = bytes_of(Drop(written, k))
  BY DEF StepInv
<1>3. bytes_of(received) \o (input_unprocessed \o line) = bytes_of(written)
  BY <1>1, <1>2, BytesSplit, SMTT(60)
<1>4. received \in Seq(Messages)
  BY <1>1, <1>2, FirstPiece, SMTT(60)
<1>5. bytes_of(received) \in Octets
  BY <1>4, TextsTyped, SMTT(60)
<1>6. (bytes_of(received) \o input_unprocessed) \o line
         = bytes_of(received) \o (input_unprocessed \o line)
  BY <1>1, <1>5, Reassoc, Zenon
<1>7. ASSUME line = <<>> PROVE received = written
  <2>1. k = Len(written)
    BY <1>1, <1>2, <1>7, NothingLeft, SMTT(60)
  <2> QED
    BY <1>1, <1>2, <2>1, BytesNone, SMTT(60)
<1> QED
  BY <1>2, <1>3, <1>6, <1>7, Zenon

\* However the reads cut the bytes on the line, read_handler takes from them the
\* messages that to_string wrote, each with the read that brings its last byte,
\* until the line damages a byte.
THEOREM FramingIsRight == Spec => []ReadsMayCutAnywhere
<1>1. StepInv /\ [Next]_vars => StepInv'
  BY StepInvKept
<1>2. StepInv => ReadsMayCutAnywhere
  BY StepInvShows, SMTT(60)
<1> QED
  BY <1>1, <1>2, StepInvAtFirst, PTL DEF Spec

\* One step from a state in step.
LEMMA InStepKept ==
    ASSUME StepInv, Next, NEW k \in 0 .. Len(written), InStep(k), faults' = faults
    PROVE  /\ \E j \in 0 .. Len(written)' : InStep(j)'
           /\ \A i \in DOMAIN received' \ DOMAIN received : received'[i] \in Range(written)
<1> DEFINE N == Len(written)
           l == N - k
<1>1. /\ TypeInv /\ faults \in Nat /\ line \in Octets /\ input_unprocessed \in Octets
      /\ written \in Seq(Messages) /\ received \in Seq(Msgs)
  BY DEF StepInv, TypeInv
<1>2. /\ N \in Nat /\ l \in 0 .. N /\ N - l = k
      /\ input_unprocessed \o line = bytes_of(Drop(written, l))
  BY <1>1 DEF InStep
<1>3. ASSUME NEW m \in Messages, write(m)
      PROVE  /\ \E j \in 0 .. Len(written)' : InStep(j)'
             /\ \A i \in DOMAIN received' \ DOMAIN received : received'[i] \in Range(written)
  <2>1. /\ line' = line \o to_string(m) /\ written' = Append(written, m)
        /\ input_unprocessed' = input_unprocessed /\ received' = received
    BY <1>3 DEF write
  <2>2. Drop(written', l) = Append(Drop(written, l), m)
    BY <1>1, <1>2, <2>1, Grows, SMTT(60)
  <2>3. Drop(written, l) \in Seq(Messages)
    BY <1>1, <1>2, DropMessages, SMTT(60)
  <2>4. bytes_of(Append(Drop(written, l), m)) = bytes_of(Drop(written, l)) \o to_string(m)
    BY <2>3, BytesMore, SMTT(60)
  <2>5. to_string(m) \in Octets
    BY FramingAssumption, ToStringTyped
  <2>6. (input_unprocessed \o line) \o to_string(m)
           = input_unprocessed \o (line \o to_string(m))
    BY <1>1, <2>5, Reassoc, Zenon
  <2>7. input_unprocessed' \o line' = bytes_of(Drop(written', l))
    BY <1>2, <2>1, <2>2, <2>4, <2>6, ZenonT(60)
  <2>8. Len(written') = N + 1
    BY <1>1, <2>1, SMTT(60)
  <2> HIDE DEF N
  <2>9. k + 1 \in 0 .. Len(written') /\ Len(written') - (k + 1) = l
    BY <1>2, <2>8, SMTT(60)
  <2>10. InStep(k + 1)'
    BY <2>7, <2>9, SMTT(60) DEF InStep
  <2> QED
    BY <2>1, <2>9, <2>10, SMTT(60)
<1>4. ASSUME NEW n \in 1 .. Len(line), read_handler(n)
      PROVE  /\ \E j \in 0 .. Len(written)' : InStep(j)'
             /\ \A i \in DOMAIN received' \ DOMAIN received : received'[i] \in Range(written)
  <2>1. written' = written
    BY <1>4, SMTT(60) DEF read_handler
  <2> HIDE DEF l
  <2>2. PICK j \in 0 .. N - l :
            /\ received' = received \o SubSeq(Drop(written, l), 1, j)
            /\ input_unprocessed' \o line' = bytes_of(Drop(written, l + j))
    BY <1>1, <1>2, <1>4, ReadInStep, Zenon
  <2>3. N - (l + j) \in 0 .. N /\ N - (N - (l + j)) = l + j
    BY <1>2
  <2>10. PICK r \in 0 .. N : r = N - (l + j)
    BY <2>3, SMTT(60)
  <2>11. r \in 0 .. Len(written)' /\ Len(written') - r = l + j
    BY <2>1, <2>3, <2>10, SMTT(60)
  <2>4. InStep(r)'
    <3>1. input_unprocessed' \o line' = bytes_of(Drop(written', Len(written') - r))
      BY <2>1, <2>2, <2>11, SMTT(60)
    <3> QED
      BY <3>1, SMTT(60) DEF InStep
  <2> DEFINE d == Drop(written, l)
             s == SubSeq(d, 1, j)
             R == Len(received)
  <2>5. d \in Seq(Messages) /\ Len(d) = N - l /\ \A i \in 1 .. N - l : d[i] = written[l + i]
    BY <1>1, <1>2, DropMessages, Zenon
  <2> HIDE DEF d
  <2>6. s \in Seq(Messages) /\ Len(s) = j /\ \A i \in 1 .. j : s[i] = d[i]
    <3>1. j \in 0 .. Len(d)
      BY <2>5
    <3> QED
      BY <2>5, <3>1, FirstPiece, SMTT(60)
  <2>7. s \in Seq(Msgs)
    <3>1. \A i \in 1 .. j : s[i] \in Msgs
      <4> SUFFICES ASSUME NEW i \in 1 .. j PROVE s[i] \in Msgs
        OBVIOUS
      <4>1. s[i] \in Messages
        BY <2>6, SMTT(60)
      <4> QED
        BY <4>1, FramingAssumption, MessageParsed, SMTT(60)
    <3> HIDE DEF s
    <3> QED
      BY <2>6, <3>1, SMTT(60)
  <2> HIDE DEF s
  <2>8. /\ R \in Nat /\ DOMAIN received = 1 .. R /\ DOMAIN received' = 1 .. R + j
        /\ \A i \in 1 .. j : received'[R + i] = s[i]
    <3>1. received' = received \o s
      BY <2>2 DEF s, d
    <3>2. /\ received' \in Seq(Msgs) /\ Len(received') = R + j
          /\ \A i \in 1 .. j : received'[R + i] = s[i]
      <4>1. received \in Seq(Msgs) /\ s \in Seq(Msgs) /\ Len(s) = j
        BY <1>1, <2>6, <2>7, SMTT(60)
      <4>2. /\ received \o s \in Seq(Msgs) /\ Len(received \o s) = Len(received) + Len(s)
            /\ \A i \in 1 .. Len(s) : (received \o s)[Len(received) + i] = s[i]
        <5> DEFINE u == received
        <5>1. u \in Seq(Msgs) /\ s \in Seq(Msgs)
          BY <4>1
        <5> HIDE DEF u
        <5>2. /\ u \o s \in Seq(Msgs) /\ Len(u \o s) = Len(u) + Len(s)
              /\ \A i \in 1 .. Len(s) : (u \o s)[Len(u) + i] = s[i]
          BY <5>1, Joined, SMTT(60)
        <5> QED
          BY <5>2 DEF u
      <4> QED
        BY <3>1, <4>1, <4>2, Zenon
    <3> QED
      BY <1>1, <3>2, SMTT(60)
  <2>9. ASSUME NEW i \in DOMAIN received' \ DOMAIN received
        PROVE  received'[i] \in Range(written)
    <3>1. i - R \in 1 .. j /\ R + (i - R) = i
      BY <2>8, SMTT(60)
    <3>2. received'[i] = s[i - R]
      BY <2>8, <3>1, SMTT(60)
    <3>3. i - R \in 1 .. N - l
      BY <1>2, <3>1, SMTT(60)
    <3>4. s[i - R] = written[l + (i - R)]
      BY <2>5, <2>6, <3>1, <3>3, SMTT(60)
    <3>5. l + (i - R) \in DOMAIN written
      BY <1>1, <1>2, <3>3, SMTT(60)
    <3> QED
      BY <3>2, <3>4, <3>5, SMTT(60) DEF Range
  <2> QED
    BY <2>4, <2>9, <2>11, SMTT(60)
<1>5. ASSUME NEW i \in DOMAIN line, LoseByte(i) \/ ChangeByte(i) PROVE FALSE
  <2>1. faults' = faults + 1
    BY <1>5 DEF LoseByte, ChangeByte
  <2> QED
    BY <1>1, <2>1, SMTT(60)
<1> QED
  BY <1>3, <1>4, <1>5, SMTT(60) DEF Next

\* Once the bytes not used yet are whole messages again, as they are before the
\* first fault and may be after a loss, no read loses the step, and every message
\* that parse_input returns was written.
THEOREM StepNotLost == Spec => StepIsKept
<1> DEFINE Kept == \A k \in 0 .. Len(written) :
                      InStep(k) /\ faults' = faults =>
                          /\ \E j \in 0 .. Len(written)' : InStep(j)'
                          /\ \A i \in DOMAIN received' \ DOMAIN received :
                                received'[i] \in Range(written)
<1>1. StepInv /\ [Next]_vars => StepInv'
  BY StepInvKept
<1>2. StepInv /\ [Next]_vars => [Kept]_vars
  BY InStepKept
<1> QED
  BY <1>1, <1>2, StepInvAtFirst, PTL DEF Spec, StepIsKept

=============================================================================
