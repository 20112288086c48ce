------------------------------- MODULE Base64 -------------------------------
(***************************************************************************)
(* src/udptoserial/base64.c, which turns payloads into the text that goes  *)
(* over the serial line.  A character of base64_table is represented by    *)
(* its index, '=' by Pad, and any other character by Foreign: dtable tells *)
(* no more of them apart.                                                  *)
(***************************************************************************)
EXTENDS ByteStrings

CONSTANTS PayloadBytes, \* the bytes payloads are made of
          MaxLen,       \* length of a payload
          MaxForeign    \* characters slipped into the text on its way

ASSUME PayloadAssumption == PayloadBytes \subseteq 0 .. 255

VARIABLES src,         \* the payload, growing
          text         \* its encoding, with foreign characters in it

textVars == <<src, text>>

Pad == 64
Foreign == 128
Failure == <<256>>   \* NULL: not a sequence of bytes

\* Mutant: the two low bits of the second byte are shifted out.
block_dropping_bits(a, b, c) ==
    <<a \div 4, (a % 4) * 16 + (b \div 16), ((b % 16) * 4) % 64, c % 64>>

\* The four characters for three bytes.
block_of(a, b, c) ==
    <<a \div 4, (a % 4) * 16 + (b \div 16), (b % 16) * 4 + (c \div 64), c % 64>>

\* Mutant: the padding of one and of two left-over bytes are exchanged.
swapped_last_block(rest) ==
    CASE Len(rest) = 0 -> <<>>
      [] Len(rest) = 1 -> SubSeq(block_of(rest[1], 0, 0), 1, 3) \o <<Pad>>
      [] Len(rest) = 2 -> SubSeq(block_of(rest[1], rest[2], 0), 1, 2) \o <<Pad, Pad>>

last_block(rest) ==
    CASE Len(rest) = 0 -> <<>>
      [] Len(rest) = 1 -> SubSeq(block_of(rest[1], 0, 0), 1, 2) \o <<Pad, Pad>>
      [] Len(rest) = 2 -> SubSeq(block_of(rest[1], rest[2], 0), 1, 3) \o <<Pad>>

base64_encode(s) ==
    LET full == Len(s) \div 3
    IN  Flatten([k \in 1 .. full |->
                        block_of(s[3 * k - 2], s[3 * k - 1], s[3 * k])])
        \o last_block(SubSeq(s, 3 * full + 1, Len(s)))

\* The size of the buffer base64_encode allocates.
encode_alloc(len) ==
    LET olen == (len * 4) \div 3 + 4
    IN  olen + (olen \div 72) + 1

value(c) == IF c = Pad THEN 0 ELSE c

\* The three bytes for the block of four characters that starts after n.
bytes_at(t, n) ==
    LET b == [i \in 1 .. 4 |-> value(t[n + i])]
    IN  <<(b[1] * 4 + (b[2] \div 16)) % 256,
          (b[2] * 16 + (b[3] \div 4)) % 256,
          (b[3] * 64 + b[4]) % 256>>

\* The characters that dtable knows.
Known(txt) ==
    Flatten([i \in DOMAIN txt |-> IF txt[i] = Foreign THEN <<>> ELSE <<txt[i]>>])

\* Foreign characters are skipped; decoding stops after the first block with
\* padding, and more than two pad characters in it are an error.
base64_decode(txt) ==
    LET t      == Known(txt)
        blocks == Len(t) \div 4
        padded == {k \in 1 .. blocks : \E i \in 1 .. 4 : t[4 * (k - 1) + i] = Pad}
        last   == IF padded = {} THEN blocks
                  ELSE CHOOSE k \in padded : \A j \in padded : k <= j
        pad    == SumOf([i \in 1 .. 4 |-> IF t[4 * (last - 1) + i] = Pad THEN 1 ELSE 0])
        out    == Flatten([k \in 1 .. last |-> bytes_at(t, 4 * (k - 1))])
    IN  IF Len(t) = 0 \/ Len(t) % 4 # 0 \/ pad > 2 THEN Failure
        ELSE SubSeq(out, 1, Len(out) - pad)

\* A longer payload is encoded.
Extend(b) ==
    /\ Len(src) < MaxLen
    /\ src' = Append(src, b)
    /\ text' = base64_encode(src')

\* A character that is not of the alphabet, a line feed for instance, gets in.
Insert(n) ==
    /\ Len(text) < Len(base64_encode(src)) + MaxForeign
    /\ text' = SubSeq(text, 1, n - 1) \o <<Foreign>> \o Drop(text, n - 1)
    /\ UNCHANGED src

TextInit == src = <<>> /\ text = <<>>
TextNext == \/ \E b \in PayloadBytes : Extend(b)
            \/ \E n \in 1 .. Len(text) + 1 : Insert(n)
TextSpec == TextInit /\ [][TextNext]_textVars

(***************************************************************************)
(* Properties.                                                             *)
(***************************************************************************)
\* The reference: bit i of a string of characters or bytes, each written with
\* the highest of its width bits first.
Power == <<1, 2, 4, 8, 16, 32, 64, 128>>
BitOf(s, width, i) ==
    (s[(i - 1) \div width + 1] \div Power[width - ((i - 1) % width)]) % 2

\* base64_encode lays out the payload's bits, six to a character, followed by
\* zero bits and by one pad character for every byte missing from the last
\* group of three; the text and its terminating zero fit the buffer that it
\* allocates.
EncodesBits ==
    LET t    == base64_encode(src)
        pads == (3 - (Len(src) % 3)) % 3
        body == SubSeq(t, 1, Len(t) - pads)
    IN  /\ Len(t) = 4 * ((Len(src) + 2) \div 3)
        /\ \A i \in DOMAIN t : (t[i] = Pad) <=> (i > Len(body))
        /\ \A i \in 1 .. 6 * Len(body) :
              BitOf(body, 6, i) =
                 (IF i <= 8 * Len(src) THEN BitOf(src, 8, i) ELSE 0)
        /\ Len(t) + 1 <= encode_alloc(Len(src))

\* base64_decode gives back the payload base64_encode was given, whatever
\* foreign characters got into the text and wherever; only the empty payload
\* does not come back, it decodes to NULL.
TextRoundTrip ==
    base64_decode(text) = (IF src = <<>> THEN Failure ELSE src)
=============================================================================
