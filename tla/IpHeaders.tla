----------------------------- MODULE IpHeaders -----------------------------
(***************************************************************************)
(* The IPv4, UDP and TCP headers that src/libhorizr/ip.cpp, and its copy   *)
(* src/udptoserial/IPv4.cpp that Tcp_server_handler calls, put in front of *)
(* a payload, and how serial_read_handler takes them off again.            *)
(*                                                                         *)
(* A header is the sequence of the 16-bit words a little-endian host sees  *)
(* in memory, which is what the checksum loops add up; an address is two   *)
(* of them.  A payload is a sequence of bytes.  It is a C string for the   *)
(* caller in Tcp_server_handler, so the byte the checksum reads past an    *)
(* odd length is the terminating zero.                                     *)
(***************************************************************************)
EXTENDS ByteStrings

CONSTANTS Addresses,  \* pairs of words
          PortWords,  \* ports, in network order
          Payloads,   \* sequences of bytes
          MaxBuilt    \* bound: packets built in a behaviour

VARIABLES id,         \* the static counter of ip_headers_default_set
          asked,      \* the arguments of the last call
          packet      \* the headers it filled in, and the payload

headerVars == <<id, asked, packet>>

Word == 65536
Words == 0 .. Word - 1
IPV4_PROTOCOL_UDP == 17
IPV4_PROTOCOL_TCP == 6
SizeofIpHdr  == 20
SizeofUdpHdr == 8
SizeofTcpHdr == 20
SizeofPointer == 8    \* sizeof(udp_hdr) where udp_hdr names the parameter

ASSUME HeaderAssumption ==
    /\ Addresses \subseteq Words \X Words
    /\ PortWords \subseteq Words
    /\ Payloads \subseteq Seq(0 .. 255)
    /\ MaxBuilt \in Nat

htons(w) == (w % 256) * 256 + (w \div 256)

\* The payload as the checksum loop sees it, an odd length rounded up.
u16(bytes) ==
    [i \in 1 .. (Len(bytes) + 1) \div 2 |->
        bytes[2 * i - 1] + 256 * (IF 2 * i <= Len(bytes) THEN bytes[2 * i] ELSE 0)]

\* Mutant: the complement is forgotten.
cksum_not_complemented(words) == SumOf(words) % Word

\* ip_cksum and ip_cksum_multi: the parts of the latter are one sequence.  The
\* upper half of the sum is shifted down by 8 bits.  The 32-bit sum of the at
\* most 2^15 words of a packet does not wrap.
ip_cksum_multi(words) ==
    LET sum == SumOf(words)
    IN  (Word - 1) - (((sum % Word) + (sum \div Word) * 256) % Word)

NeverZero(w) == IF w = 0 THEN Word - 1 ELSE w

\* The words udp_hdr_cksum_set and tcp_hdr_cksum_set add up: a pseudo header
\* and the payload.  For TCP the TCP header itself is not among them.
udp_summed(a, len) ==
    a.saddr \o a.daddr
    \o <<256 * IPV4_PROTOCOL_UDP, SizeofUdpHdr + Len(a.data),
         a.sport, a.dport, len, 0>> \o u16(a.data)

tcp_summed(a) ==
    a.saddr \o a.daddr
    \o <<256 * IPV4_PROTOCOL_TCP, SizeofTcpHdr + Len(a.data)>> \o u16(a.data)

\* Fill in default values into an IPv4 packet header.  The header checksum is
\* computed by ip_hdr_cksum_set and thrown away: the field stays zero.
ip_headers_default_set(protocol, saddr, daddr, data_len) ==
    <<69,                                             \* ihl 5, version 4
      (SizeofIpHdr + SizeofUdpHdr + data_len) % Word, \* total_length
      htons(id), 0, 64 + 256 * protocol, 0>> \o saddr \o daddr

udp_headers(a) ==
    LET len == Len(a.data) + SizeofPointer
    IN  <<a.sport, a.dport, len, NeverZero(ip_cksum_multi(udp_summed(a, len)))>>

tcp_headers(a) ==
    <<a.sport, a.dport, 0, 0, 0, 0, 0, Word - 1,
      NeverZero(ip_cksum_multi(tcp_summed(a))), 0>>

\* ip_udp_headers_default_set and ip_tcp_headers_default_set.  Both hand on the
\* payload's length plus sizeof(udp_hdr), the size of a pointer in one and of
\* the type in the other, which agree.
headers(a) ==
    ip_headers_default_set(a.protocol, a.saddr, a.daddr, Len(a.data) + SizeofUdpHdr)
    \o (IF a.protocol = IPV4_PROTOCOL_UDP THEN udp_headers(a) ELSE tcp_headers(a))

Args == [protocol : {IPV4_PROTOCOL_UDP, IPV4_PROTOCOL_TCP},
         saddr : Addresses, daddr : Addresses,
         sport : PortWords, dport : PortWords, data : Payloads]

Build(a) ==
    /\ id < MaxBuilt
    /\ Len(a.data) + SizeofUdpHdr + SizeofIpHdr < Word   \* or it throws
    /\ asked' = <<a>>
    /\ packet' = <<[hdr |-> headers(a), data |-> a.data]>>
    /\ id' = (id + 1) % Word

HeaderInit == id = 0 /\ asked = <<>> /\ packet = <<>>
HeaderNext == \E a \in Args : Build(a)
HeaderSpec == HeaderInit /\ [][HeaderNext]_headerVars

(***************************************************************************)
(* The receiving side.  hdr and data are adjacent in the bytes it is given.*)
(***************************************************************************)
ByteOf(words, i) ==
    IF i % 2 = 1 THEN words[(i + 1) \div 2] % 256 ELSE words[i \div 2] \div 256

bytes_of(p) ==
    [i \in 1 .. 2 * Len(p.hdr) |-> ByteOf(p.hdr, i)] \o p.data

ip_bytevector_validate(bv) == Len(bv) >= SizeofIpHdr
protocol_of(bv) == bv[10]

\* Mutant: the offset of the UDP payload for every protocol.
data_start_udp_only(bv) == SizeofIpHdr + SizeofUdpHdr

ip_bytevector_data_start(bv) ==
    SizeofIpHdr + (IF protocol_of(bv) = IPV4_PROTOCOL_UDP THEN SizeofUdpHdr
                                                          ELSE SizeofTcpHdr)

\* The word at byte offset n (from 0).
word_at(bv, n) == bv[n + 1] + 256 * bv[n + 2]

\* What serial_read_handler makes of a message: the key of the connection and
\* the payload it sends there.
taken_apart(bv) ==
    [protocol |-> protocol_of(bv),
     saddr |-> <<word_at(bv, 12), word_at(bv, 14)>>,
     daddr |-> <<word_at(bv, 16), word_at(bv, 18)>>,
     sport |-> word_at(bv, 20), dport |-> word_at(bv, 22),
     data  |-> SubSeq(bv, ip_bytevector_data_start(bv) + 1, Len(bv))]

(***************************************************************************)
(* Properties.                                                             *)
(***************************************************************************)
\* The addresses, ports and payload that serial_read_handler recovers from a
\* packet are the ones it was built from, for both protocols: the offsets of
\* the writer and of the reader agree although each side hard-codes its own.
HeadersRoundTrip ==
    \A i \in DOMAIN packet :
        /\ ip_bytevector_validate(bytes_of(packet[i]))
        /\ taken_apart(bytes_of(packet[i])) = asked[i]

\* The reference of RFC 768, from the bytes as they travel: the words are most
\* significant byte first, an odd end is padded, the pseudo header is the two
\* addresses, the protocol and the length field, and carries are added back in.
NetworkWords(bytes) ==
    [i \in 1 .. (Len(bytes) + 1) \div 2 |->
        256 * bytes[2 * i - 1] + (IF 2 * i <= Len(bytes) THEN bytes[2 * i] ELSE 0)]

Folded(s) == (s % Word) + (s \div Word)

Accepted(bv) ==
    LET pseudo == SubSeq(bv, 13, 20) \o <<0, protocol_of(bv)>> \o SubSeq(bv, 25, 26)
        sum == SumOf(NetworkWords(pseudo \o SubSeq(bv, 21, Len(bv))))
    IN  Folded(Folded(sum)) = Word - 1

\* A receiver that follows RFC 768 accepts the checksum of udp_hdr_cksum_set
\* exactly when the words that it added up needed no carry: the host's byte order
\* and the odd last byte do no harm, and the carry that is shifted by 8 bits
\* instead of 16 spoils the checksum (of sums below 257 * 2^16) every time.
ChecksumNeedsNoCarry ==
    \A i \in DOMAIN packet :
        asked[i].protocol = IPV4_PROTOCOL_UDP
            => (Accepted(bytes_of(packet[i]))
                   <=> SumOf(udp_summed(asked[i], Len(asked[i].data) + SizeofUdpHdr)) < Word)
=============================================================================
