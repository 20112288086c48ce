----------------------------- MODULE PacketText -----------------------------
(***************************************************************************)
(* The text form of a packet on the serial line (parser.c) and the buffer  *)
(* it is sent from (sendbuf of queue.c):                                   *)
(*                                                                         *)
(*    [ protocol input-port output-port | length base64 crc ] CR LF        *)
(*                                                                         *)
(* pack_message writes the text over the front of sendbuf without ending   *)
(* it, so that what an earlier, longer message left behind is sent again   *)
(* after it.  The receiver calls unpack_message on the bytes it has read;  *)
(* main.c only announces that loop in a comment, so it is taken from what  *)
(* unpack_message documents of its results.                                *)
(*                                                                         *)
(* A token is a character, except that the ports and the length, which     *)
(* every message has at the same place, are one token each.  A character   *)
(* of base64 is the group of up to three bytes it encodes and its place in *)
(* it; a digit of the CRC is the text the CRC was computed from and its    *)
(* place, so that different texts have different CRCs.                     *)
(***************************************************************************)
EXTENDS Integers, Sequences, SequencesExt, FiniteSetsExt

CONSTANTS
    Payloads,      \* the payloads of packets: sequences of bytes
    MaxMessages,   \* bound: packets sent
    MaxFaults,     \* bound: tokens changed, and writes cut short
    ReadSize,      \* bound: tokens of one read
    MaxLen         \* PACKED_MSG_MAX_LEN

Char(c) == <<"char", c>>

Hex(n) == <<"hex", n>>

B64(group, k) == <<"b64", group, k>>

Crc(text, k) == <<"crc", text, k>>

START_OF_HEADER == Char("[")
START_OF_TEXT   == Char("|")
END_OF_TEXT     == Char("]")

\* In tokens: [ protocol port port, and that with | length, one group, crc, ].
HeaderLen == 4

MinLen == HeaderLen + 11

VARIABLES
    sendbuf,     \* up to its first NUL
    line,        \* tokens on the serial line
    input,       \* what the receiver has read and not processed
    sent,        \* the payloads sent, in order
    received,    \* the valid messages unpacked, in order
    faults

vars == <<sendbuf, line, input, sent, received, faults>>

-----------------------------------------------------------------------------
(* Sending.                                                                *)

groups(payload) ==
    [g \in 1 .. (Len(payload) + 2) \div 3 |->
        SubSeq(payload, 3 * g - 2, Min({3 * g, Len(payload)}))]

base64_encode(payload) ==
    [i \in 1 .. 4 * Len(groups(payload)) |->
        B64(groups(payload)[(i + 3) \div 4], ((i - 1) % 4) + 1)]

crc16(text) == [k \in 1 .. 4 |-> Crc(text, k)]

\* Everything up to the CRC; the ports are those of the one connection.
packed(payload) ==
    <<START_OF_HEADER, Char("U"), Hex(1), Hex(2), START_OF_TEXT,
      Hex(Len(base64_encode(payload)))>> \o base64_encode(payload)

\* pack_message: strncpy of the text, not of a NUL, over the front of buf.
pack_message(payload, buf) ==
    LET text == packed(payload) \o crc16(packed(payload))
                    \o <<END_OF_TEXT, Char("CR"), Char("LF")>>
    IN text \o SubSeq(buf, Len(text) + 1, Len(buf))

\* The end of pkt_queue_send, with strlen(sendbuf) as the length.  A write that
\* takes only n tokens is not continued.
pkt_queue_send(payload, n) ==
    /\ Len(sent) < MaxMessages
    /\ sendbuf' = pack_message(payload, sendbuf)
    /\ n \in 0 .. Len(sendbuf')
    /\ \/ n = Len(sendbuf') /\ UNCHANGED faults
       \/ n < Len(sendbuf') /\ faults < MaxFaults /\ faults' = faults + 1
    /\ line' = line \o SubSeq(sendbuf', 1, n)
    /\ sent' = Append(sent, payload)
    /\ UNCHANGED <<input, received>>

-----------------------------------------------------------------------------
(* Receiving.                                                              *)

\* The first place of the token, or the end of the buffer.
First(buf, from, token) ==
    CHOOSE i \in from .. Max({from, Len(buf) + 1}) :
        /\ i > Len(buf) \/ buf[i] = token
        /\ \A j \in from .. i - 1 : buf[j] # token

\* Mutant: the CRC is not compared.
wellformed_any_crc(buf, soh, etx) ==
    LET stx == First(buf, soh, START_OF_TEXT) IN
    /\ etx - soh + 1 >= MinLen
    /\ stx < etx
    /\ stx - soh = HeaderLen
    /\ buf[soh + 1] \in {Char("U"), Char("T")}
    /\ buf[soh + 2][1] = "hex" /\ buf[soh + 3][1] = "hex"
    /\ buf[stx + 1] = Hex(etx - stx - 6)
    /\ \A k \in 1 .. 4 : buf[etx - k][1] = "crc"

\* "paranoid error checking": the text from soh to etx is a whole message.
\* Each conjunct is one of unpack_message's early returns.
wellformed(buf, soh, etx) ==
    LET stx == First(buf, soh, START_OF_TEXT) IN
    /\ etx - soh + 1 >= MinLen
    /\ stx < etx
    /\ stx - soh = HeaderLen
    /\ buf[soh + 1] \in {Char("U"), Char("T")}
    /\ buf[soh + 2][1] = "hex" /\ buf[soh + 3][1] = "hex"
    /\ buf[stx + 1] = Hex(etx - stx - 6)
    /\ SubSeq(buf, etx - 4, etx - 1) = crc16(SubSeq(buf, soh, etx - 5))

\* Four characters give back their group; four that are not of one group give
\* bytes that nobody sent.
decoded(four) ==
    IF \A k \in 1 .. 4 : four[k] = B64(four[1][2], k) THEN four[1][2] ELSE <<four>>

\* Characters that are not base64 are skipped; <<>> is NULL.
base64_decode(text) ==
    LET known == SelectSeq(text, LAMBDA t : t[1] = "b64")
    IN IF Len(known) % 4 # 0 THEN <<>>
       ELSE FlattenSeq([g \in 1 .. Len(known) \div 4 |->
                           decoded(SubSeq(known, 4 * g - 3, 4 * g))])

\* What is stored of the text between the length and the CRC.  The len of the
\* message is that of the text; the length base64_decode returns is dropped.
message(buf, soh, etx) ==
    LET text == SubSeq(buf, First(buf, soh, START_OF_TEXT) + 2, etx - 5)
    IN [len |-> Len(text), data |-> base64_decode(text)]

\* Mutant: junk before a message is not dropped, but spoils the message.
unpack_and_stay(buf) ==
    LET soh == First(buf, 1, START_OF_HEADER)
        etx == First(buf, soh + 1, END_OF_TEXT)
    IN IF soh > Len(buf) \/ etx > Len(buf)
       THEN [used |-> 0, msgs |-> <<>>]
       ELSE [used |-> etx, msgs |-> IF soh = 1 /\ wellformed(buf, soh, etx)
                                    THEN <<message(buf, soh, etx)>> ELSE <<>>]

\* The number of tokens returned as processed, and the message if VALID.
unpack_message(buf) ==
    LET soh == First(buf, 1, START_OF_HEADER)
        etx == First(buf, soh + 1, END_OF_TEXT)
        missing == etx > Len(buf)
    IN CASE soh > Len(buf) -> [used |-> Len(buf), msgs |-> <<>>]
         [] soh <= Len(buf) /\ missing ->
              [used |-> IF etx - soh + 1 > MaxLen THEN etx ELSE soh - 1,
               msgs |-> <<>>]
         [] soh <= Len(buf) /\ ~missing ->
              [used |-> etx,
               msgs |-> IF wellformed(buf, soh, etx)
                        THEN <<message(buf, soh, etx)>> ELSE <<>>]

\* The loop that unpack_message is written for: read, then take messages
\* while something is processed.
RECURSIVE unpack_all(_)
unpack_all(buf) ==
    LET u == unpack_message(buf)
    IN IF buf = <<>> \/ u.used = 0
       THEN [msgs |-> <<>>, rest |-> buf]
       ELSE LET more == unpack_all(SubSeq(buf, u.used + 1, Len(buf)))
            IN [msgs |-> u.msgs \o more.msgs, rest |-> more.rest]

read(n) ==
    /\ n \in 1 .. Min({ReadSize, Len(line)})
    /\ LET u == unpack_all(input \o SubSeq(line, 1, n)) IN
       /\ input' = u.rest
       /\ received' = received \o u.msgs
    /\ line' = SubSeq(line, n + 1, Len(line))
    /\ UNCHANGED <<sendbuf, sent, faults>>

\* What a changed token may become: a delimiter, or another base64 character.
Noise == {START_OF_HEADER, START_OF_TEXT, END_OF_TEXT, B64(<<0>>, 1)}

Change(i) ==
    /\ faults < MaxFaults
    /\ \E c \in Noise : line' = [line EXCEPT ![i] = c]
    /\ faults' = faults + 1
    /\ UNCHANGED <<sendbuf, input, sent, received>>

Init ==
    /\ sendbuf = <<>> /\ line = <<>> /\ input = <<>>
    /\ sent = <<>> /\ received = <<>>
    /\ faults = 0

Next ==
    \/ \E p \in Payloads : \E n \in 0 .. Len(sendbuf) + MaxLen :
          pkt_queue_send(p, n)
    \/ \E n \in 1 .. Len(line) : read(n)
    \/ \E i \in DOMAIN line : Change(i)

Spec == Init /\ [][Next]_vars

-----------------------------------------------------------------------------
(* Properties.                                                             *)

Data(msgs) == [i \in DOMAIN msgs |-> msgs[i].data]

\* The rest of an earlier message that follows a shorter one on the line, CRC
\* and delimiter included, does no harm: until the first fault the receiver
\* unpacks the payloads sent, in order and no others, however the line is read,
\* and each of them as soon as its text is complete.  The length that comes with
\* them is that of the base64 text.
StaleTextIsHarmless ==
    faults = 0 =>
        /\ IsPrefix(Data(received), sent)
        /\ line = <<>> => Data(received) = sent
        /\ \A i \in DOMAIN received :
              received[i].len = Len(base64_encode(sent[i]))

\* q is r with some elements left out.
IsSubsequence(q, r) ==
    \E kept \in SUBSET (DOMAIN r) :
        q = [k \in 1 .. Cardinality(kept) |->
                r[SetToSortSeq(kept, LAMBDA a, b : a < b)[k]]]

\* On a noisy line nothing is unpacked that was not sent, nothing twice or out
\* of order, and each fault costs at most the packet it hits and the next one.
DamageIsLocal ==
    /\ IsSubsequence(Data(received), sent)
    /\ line = <<>> => Len(received) + 2 * faults >= Len(sent)

=============================================================================
