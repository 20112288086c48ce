-------------------------- MODULE HalfDuplexFraming --------------------------
(***************************************************************************)
(* The byte level of the half-duplex link: to_string(Msg) puts messages on *)
(* the line, read_handler collects whatever bytes async_read_some returns  *)
(* and has parse_input cut messages from them.  The state machine that     *)
(* answers the messages is module HalfDuplex.                              *)
(***************************************************************************)
EXTENDS ByteStrings, Functions

CONSTANTS
    Messages,        \* the messages the other station may write
    MaxMessages,     \* bound: messages written
    MaxPrefixLen,    \* MAX_PREFIX_LEN
    MaxMessageLen,   \* MAX_MESSAGE_LEN
    ReadSize,        \* RAW_READ_BUFFER_SIZE
    MaxFaults,       \* bound: bytes the line loses or changes
    Noise            \* the values a changed byte may take

SOH == 1
STX == 2
ETX == 3
EOT == 4
ENQ == 5
ACK == 6
DLE == 16
NAK == 21

MSG_START_CHARACTERS == {SOH, STX, EOT, ENQ, ACK, DLE, NAK}

introducer_of == [ACK |-> ACK, NAK |-> NAK, EOT |-> EOT, ENQ |-> ENQ]

\* isgraph in the C locale.
isgraph(c) == c \in 33 .. 126

Message(typ, prefix, header, body) ==
    [type |-> typ, prefix |-> prefix, header |-> header, body |-> body]

\* The messages the protocol allows: a name in front of a supervisory character,
\* or a text of at most MaxMessageLen bytes before its ETX whose header and body
\* do not hold the characters that end them.
Sendable(m) ==
    \/ /\ m.type \in DOMAIN introducer_of
       /\ m = Message(m.type, m.prefix, <<>>, <<>>)
       /\ m.prefix \in Seq(Nat) /\ Len(m.prefix) <= MaxPrefixLen
       /\ \A i \in DOMAIN m.prefix : isgraph(m.prefix[i])
    \/ /\ m = Message("INFO", <<>>, m.header, m.body)
       /\ m.header \in Seq(Nat) /\ m.body \in Seq(Nat)
       /\ \A i \in DOMAIN m.header : m.header[i] \notin {STX, ETX}
       /\ \A i \in DOMAIN m.body : m.body[i] # ETX
       /\ Len(m.header) + Len(m.body) + (IF m.header = <<>> THEN 1 ELSE 2)
             <= MaxMessageLen

ASSUME FramingAssumption ==
    /\ MaxPrefixLen \in Nat /\ MaxMessageLen \in Nat /\ ReadSize \in Nat
    /\ MaxPrefixLen <= MaxMessageLen
    /\ Noise \subseteq Nat
    /\ \A m \in Messages : Sendable(m)

VARIABLES
    line,               \* bytes written and not yet read
    input_unprocessed,
    alive,              \* FALSE once parse_input has called abort()
    written,            \* the messages written, oldest first
    received,           \* what parse_input returned, NONE left out
    faults

vars == <<line, input_unprocessed, alive, written, received, faults>>

-----------------------------------------------------------------------------
(* Writing.                                                                *)

\* Sum of the bytes from bcc_start_pos on, plus one, modulo 256.
bcc(bytes) == (SumOf(bytes) + 1) % 256

\* to_string(Msg&).
to_string(m) ==
    IF m.type # "INFO" THEN Append(m.prefix, introducer_of[m.type])
    ELSE LET text == (IF m.header = <<>> THEN <<>> ELSE Append(m.header, STX))
                         \o Append(m.body, ETX)
         IN m.prefix \o <<IF m.header = <<>> THEN STX ELSE SOH>>
                \o Append(text, bcc(text))

\* write_simple_msg, write_output_queue_msg, retransmit: asio::write returns
\* when the whole message has been written.
write(m) ==
    /\ Len(written) < MaxMessages
    /\ line' = line \o to_string(m)
    /\ written' = Append(written, m)
    /\ UNCHANGED <<input_unprocessed, alive, received, faults>>

-----------------------------------------------------------------------------
(* Reading.  A parse is the message found and the input that is left.      *)

Nothing(input) == [msg |-> Message("NONE", <<>>, <<>>, <<>>), rest |-> input]

Malformed == [msg |-> Message("MALFORMED", <<>>, <<>>, <<>>), rest |-> <<>>]

Found(m, input, used) ==
    [msg |-> m, rest |-> Drop(input, used)]

\* find_first_of, counted from 1; 0 is npos.
find(input, chars) ==
    LET at == {i \in DOMAIN input : input[i] \in chars}
    IN IF at = {} THEN 0 ELSE Min(at)

\* Mutant: the check byte is left in the input.
parse_info_keep_bcc(input) ==
    LET stx == find(input, {STX})
        etx == find(input, {ETX})
        header == IF stx > 1 THEN SubSeq(input, 2, stx - 1) ELSE <<>>
        body == SubSeq(input, stx + 1, etx - 1)
    IN IF etx = 0
       THEN IF Len(input) > MaxMessageLen THEN Malformed ELSE Nothing(input)
       ELSE IF stx = 0 \/ stx > etx THEN Malformed
       ELSE IF Len(input) = etx THEN Nothing(input)
       ELSE IF etx - 1 > MaxMessageLen THEN Malformed
       ELSE Found(Message("INFO", <<>>, header, body), input, etx)

\* Mutant: a text without ETX is never given up.
parse_info_for_ever(input) ==
    LET stx == find(input, {STX})
        etx == find(input, {ETX})
        header == IF stx > 1 THEN SubSeq(input, 2, stx - 1) ELSE <<>>
        body == SubSeq(input, stx + 1, etx - 1)
    IN IF etx = 0 THEN Nothing(input)
       ELSE IF stx = 0 \/ stx > etx THEN Malformed
       ELSE IF Len(input) = etx THEN Nothing(input)
       ELSE IF etx - 1 > MaxMessageLen THEN Malformed
       ELSE Found(Message("INFO", <<>>, header, body), input, etx + 1)

\* An information message: SOH header STX body ETX check, or STX body ETX
\* check.  The comparison of the check byte is compiled out.
parse_info(input) ==
    LET stx == find(input, {STX})
        etx == find(input, {ETX})
        header == IF stx > 1 THEN SubSeq(input, 2, stx - 1) ELSE <<>>
        body == SubSeq(input, stx + 1, etx - 1)
    IN IF etx = 0
       THEN IF Len(input) > MaxMessageLen THEN Malformed ELSE Nothing(input)
       ELSE IF stx = 0 \/ stx > etx THEN Malformed
       ELSE IF Len(input) = etx THEN Nothing(input)
       ELSE IF etx - 1 > MaxMessageLen THEN Malformed
       ELSE Found(Message("INFO", <<>>, header, body), input, etx + 1)

\* The types of the messages that are one introducer after a prefix.
type_of(c) == CHOOSE t \in DOMAIN introducer_of : introducer_of[t] = c

\* One call; the type ABORT stands for the call of abort().
parse_input(input) ==
    LET pos == find(input, MSG_START_CHARACTERS)
        prefix == SubSeq(input, 1, pos - 1)
    IN IF pos = 0
       THEN IF Len(input) > MaxPrefixLen THEN Malformed ELSE Nothing(input)
       ELSE IF \E i \in DOMAIN prefix : ~isgraph(prefix[i]) THEN Malformed
       ELSE IF input[pos] \in Range(introducer_of)
       THEN Found(Message(type_of(input[pos]), prefix, <<>>, <<>>), input, pos)
       ELSE IF input[pos] = DLE
       THEN Found(Message("ABORT", <<>>, <<>>, <<>>), input, pos)
       ELSE IF prefix # <<>> THEN Malformed ELSE parse_info(input)

\* One turn of the loop of read_handler, which goes on until parse_input returns
\* NONE and leaves the input as it is.
parse_turn(s) ==
    LET p == parse_input(s.rest)
    IN IF ~s.alive THEN s
       ELSE [msgs |-> IF p.msg.type \in {"NONE", "ABORT"} THEN s.msgs
                      ELSE Append(s.msgs, p.msg),
             rest |-> p.rest,
             alive |-> p.msg.type # "ABORT"]

\* The loop.  A message uses up at least one byte of the input, so that there
\* are no more turns than bytes.
parse_all(input) ==
    LET after[n \in 0 .. Len(input)] ==
            IF n = 0 THEN [msgs |-> <<>>, rest |-> input, alive |-> TRUE]
            ELSE parse_turn(after[n - 1])
    IN after[Len(input)]

\* A read returns any number of the bytes that have arrived.
read_handler(n) ==
    /\ alive
    /\ n \in 1 .. Min({ReadSize, Len(line)})
    /\ LET p == parse_all(input_unprocessed \o SubSeq(line, 1, n)) IN
       /\ input_unprocessed' = p.rest
       /\ received' = received \o p.msgs
       /\ alive' = p.alive
    /\ line' = Drop(line, n)
    /\ UNCHANGED <<written, faults>>

-----------------------------------------------------------------------------
(* The line.                                                               *)

LoseByte(i) ==
    /\ faults < MaxFaults
    /\ line' = SubSeq(line, 1, i - 1) \o Drop(line, i)
    /\ faults' = faults + 1
    /\ UNCHANGED <<input_unprocessed, alive, written, received>>

ChangeByte(i) ==
    /\ faults < MaxFaults
    /\ \E c \in Noise : line' = [line EXCEPT ![i] = c]
    /\ faults' = faults + 1
    /\ UNCHANGED <<input_unprocessed, alive, written, received>>

Init ==
    /\ line = <<>> /\ input_unprocessed = <<>>
    /\ alive = TRUE
    /\ written = <<>> /\ received = <<>>
    /\ faults = 0

Next ==
    \/ \E m \in Messages : write(m)
    \/ \E n \in 1 .. Len(line) : read_handler(n)
    \/ \E i \in DOMAIN line : LoseByte(i) \/ ChangeByte(i)

Spec == Init /\ [][Next]_vars

-----------------------------------------------------------------------------
(* Properties.                                                             *)

bytes_of(msgs) == Flatten([i \in DOMAIN msgs |-> to_string(msgs[i])])

\* Before the first fault, however the reads cut the byte stream, parse_input
\* returns the messages the peer's to_string wrote, prefix, header and body
\* included, each with the read that brings its last byte, and the bytes it has
\* not used yet are those of the messages it has not returned yet.
ReadsMayCutAnywhere ==
    faults = 0 =>
        /\ \E n \in 0 .. Len(written) : received = SubSeq(written, 1, n)
        /\ bytes_of(received) \o input_unprocessed \o line = bytes_of(written)
        /\ line = <<>> => received = written

\* Whatever bytes arrive, the unprocessed input stays within the longest
\* message and one read.
BufferBounded == Len(input_unprocessed) <= MaxMessageLen + ReadSize

\* The unused bytes are exactly those of the last k messages written.
InStep(k) ==
    input_unprocessed \o line
        = bytes_of(Drop(written, Len(written) - k))

\* Noise puts parse_input out of step only until the unused bytes are whole
\* messages again: from there no read loses the step, and every message it
\* returns was written.
StepIsKept ==
    [][\A k \in 0 .. Len(written) :
          InStep(k) /\ faults' = faults =>
              /\ \E j \in 0 .. Len(written)' : InStep(j)'
              /\ \A i \in DOMAIN received' \ DOMAIN received :
                    received'[i] \in Range(written)]_vars

=============================================================================
