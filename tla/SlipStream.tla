----------------------------- MODULE SlipStream -----------------------------
(***************************************************************************)
(* slip_encode and slip_decode over all short streams of packets.          *)
(***************************************************************************)
EXTENDS Slip

CONSTANTS
    Bytes,         \* the byte values in packets
    MaxBytes,      \* bound: bytes in all packets together
    MaxSlipPackets \* bound: packets

ASSUME StreamAssumption == Bytes \subseteq Nat /\ MaxBytes \in Nat

VARIABLES
    packets,     \* the packets encoded so far
    source,      \* the encoded bytes not yet decoded
    received     \* the packets decoded so far

streamVars == <<packets, source, received>>

StreamInit == packets = <<>> /\ source = <<>> /\ received = <<>>

\* slip_encode appends one more packet to the bytes.
Encode ==
    /\ Len(packets) < MaxSlipPackets
    /\ \E n \in 1 .. MaxBytes - Len(Flatten(packets)) :
       \E p \in [1 .. n -> Bytes], introduce \in BOOLEAN :
          /\ packets' = Append(packets, p)
          /\ source' = source \o slip_encode(p, introduce)
    /\ UNCHANGED received

\* slip_decode, the bytes it used erased, and an empty message ignored.
Decode ==
    /\ slip_decode(source).used > 0
    /\ source' = Drop(source, slip_decode(source).used)
    /\ received' = IF slip_decode(source).msg = <<>> THEN received
                   ELSE Append(received, slip_decode(source).msg)
    /\ UNCHANGED packets

StreamNext == Encode \/ Decode

StreamSpec == StreamInit /\ [][StreamNext]_streamVars

\* Decoding undoes encoding, packet by packet and in order, whatever bytes the
\* packets hold and whether or not they are introduced by END; once
\* slip_decode finds no more message, none is left.
StreamRoundTrip ==
    /\ \E n \in 0 .. Len(packets) : received = SubSeq(packets, 1, n)
    /\ slip_decode(source).used = 0 => received = packets

=============================================================================
