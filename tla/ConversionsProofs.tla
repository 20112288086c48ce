------------------------- MODULE ConversionsProofs -------------------------
(***************************************************************************)
(* Proofs about the conversions of the TCP daemon: the headers put in      *)
(* front of a payload, for all addresses, ports and payloads, and the      *)
(* configuration file, for all files.                                      *)
(***************************************************************************)
EXTENDS IpHeaders, IniConfiguration, SequenceFacts, FiniteSetTheorems

-----------------------------------------------------------------------------
(* The headers.                                                            *)

\* The byte strings of a host.
LEMMA BytesAreNumbers ==
    ASSUME NEW S, S \subseteq Nat, NEW q \in Seq(S)
    PROVE  q \in Octets
<1>1. Len(q) \in Nat /\ q \in [1 .. Len(q) -> S]
  BY LenProperties
<1>2. q \in [1 .. Len(q) -> Nat]
  BY <1>1, Zenon
<1> QED
  BY <1>1, <1>2, SeqDef DEF Octets

\* An address.
LEMMA PairTyped ==
    ASSUME NEW x \in Nat, NEW y \in Nat
    PROVE  /\ <<x, y>> \in Octets /\ Len(<<x, y>>) = 2
           /\ <<x, y>>[1] = x /\ <<x, y>>[2] = y
BY DEF Octets

\* Words are natural numbers.
LEMMA WordsAreNumbers == Words \subseteq Nat
BY DEF Words, Word

\* An address is two words.
LEMMA AddressTyped ==
    ASSUME NEW s \in Addresses
    PROVE  /\ s \in Octets /\ Len(s) = 2 /\ s[1] \in Words /\ s[2] \in Words
           /\ s = <<s[1], s[2]>>
<1>1. s \in Words \X Words
  BY HeaderAssumption
<1>2. PICK x \in Words, y \in Words : s = <<x, y>>
  BY <1>1
<1>3. x \in Nat /\ y \in Nat
  BY WordsAreNumbers, Zenon
<1> QED
  BY <1>2, <1>3, PairTyped

\* What a packet is built from.
LEMMA ArgsTyped ==
    ASSUME NEW a \in Args
    PROVE  /\ a.protocol \in {IPV4_PROTOCOL_UDP, IPV4_PROTOCOL_TCP}
           /\ a.sport \in Words /\ a.dport \in Words
           /\ a.data \in Octets /\ Len(a.data) \in Nat
           /\ a.saddr \in Addresses /\ a.daddr \in Addresses
           /\ a = [protocol |-> a.protocol, saddr |-> a.saddr, daddr |-> a.daddr,
                   sport |-> a.sport, dport |-> a.dport, data |-> a.data]
<1>1. /\ a.protocol \in {IPV4_PROTOCOL_UDP, IPV4_PROTOCOL_TCP}
      /\ a.saddr \in Addresses /\ a.daddr \in Addresses
      /\ a.sport \in PortWords /\ a.dport \in PortWords /\ a.data \in Payloads
      /\ a = [protocol |-> a.protocol, saddr |-> a.saddr, daddr |-> a.daddr,
              sport |-> a.sport, dport |-> a.dport, data |-> a.data]
  BY DEF Args
<1>2. a.data \in Seq(0 .. 255)
  BY <1>1, HeaderAssumption
<1>3. a.data \in Octets
  <2>1. 0 .. 255 \subseteq Nat
    OBVIOUS
  <2> QED
    BY <1>2, <2>1, BytesAreNumbers, Zenon
<1>4. Len(a.data) \in Nat
  BY <1>3 DEF Octets
<1>5. a.sport \in Words /\ a.dport \in Words
  BY <1>1, HeaderAssumption
<1> QED
  BY <1>1, <1>3, <1>4, <1>5

\* Two sequences of numbers one after the other.
LEMMA OneThenOther ==
    ASSUME NEW u \in Seq(Nat), NEW v \in Seq(Nat)
    PROVE  /\ u \o v \in Seq(Nat) /\ Len(u \o v) = Len(u) + Len(v)
           /\ \A i \in 1 .. Len(u) : (u \o v)[i] = u[i]
           /\ \A i \in 1 .. Len(v) : (u \o v)[Len(u) + i] = v[i]
OBVIOUS

\* An IPv4 header, of which s and d are the addresses, before the header of the
\* protocol above it.
HeaderAs(u, s, d, v) == ((u \o s) \o d) \o v

\* h has the words of the two headers in their places.
HeaderLaid(h, u, s, d, v) ==
    /\ h \in Seq(Nat) /\ Len(h) = 10 + Len(v) /\ h[5] = u[5]
    /\ h[7] = s[1] /\ h[8] = s[2] /\ h[9] = d[1] /\ h[10] = d[2]
    /\ \A i \in 1 .. Len(v) : h[10 + i] = v[i]

\* Where the words of the two headers are.
LEMMA HeaderWords ==
    ASSUME NEW u \in Seq(Nat), NEW s \in Seq(Nat), NEW d \in Seq(Nat), NEW v \in Seq(Nat),
           Len(u) = 6, Len(s) = 2, Len(d) = 2
    PROVE  HeaderLaid(HeaderAs(u, s, d, v), u, s, d, v)
<1> DEFINE w == u \o s
           x == w \o d
           h == x \o v
<1>1. /\ w \in Seq(Nat) /\ Len(w) = Len(u) + Len(s) /\ \A i \in 1 .. Len(u) : w[i] = u[i]
      /\ \A i \in 1 .. Len(s) : w[Len(u) + i] = s[i]
  BY OneThenOther, Zenon
<1> HIDE DEF w
<1>2. /\ x \in Seq(Nat) /\ Len(x) = Len(w) + Len(d) /\ \A i \in 1 .. Len(w) : x[i] = w[i]
      /\ \A i \in 1 .. Len(d) : x[Len(w) + i] = d[i]
  BY <1>1, OneThenOther, ZenonT(60)
<1> HIDE DEF x
<1>3. /\ h \in Seq(Nat) /\ Len(h) = Len(x) + Len(v)
      /\ \A i \in 1 .. Len(x) : h[i] = x[i]
      /\ \A i \in 1 .. Len(v) : h[Len(x) + i] = v[i]
  BY <1>2, OneThenOther, Zenon
<1> HIDE DEF h
<1>4. Len(w) = 8 /\ Len(x) = 10 /\ w[5] = u[5] /\ w[7] = s[1] /\ w[8] = s[2]
  BY <1>1, <1>2
<1>5. x[5] = u[5] /\ x[7] = s[1] /\ x[8] = s[2] /\ x[9] = d[1] /\ x[10] = d[2]
  BY <1>2, <1>4
<1>6. h[5] = x[5] /\ h[7] = x[7] /\ h[8] = x[8] /\ h[9] = x[9] /\ h[10] = x[10]
  BY <1>3, <1>4
<1>7. h = HeaderAs(u, s, d, v)
  BY DEF HeaderAs, h, x, w
<1> QED
  BY <1>3, <1>4, <1>5, <1>6, <1>7 DEF HeaderLaid

\* The payload in words.
LEMMA WordsTyped ==
    ASSUME NEW q \in Octets
    PROVE  u16(q) \in Octets
<1>1. Len(q) \in Nat /\ \A i \in 1 .. Len(q) : q[i] \in Nat
  BY DEF Octets
<1>2. (Len(q) + 1) \div 2 \in Nat
  BY <1>1
<1>3. ASSUME NEW i \in 1 .. (Len(q) + 1) \div 2
      PROVE  q[2 * i - 1] + 256 * (IF 2 * i <= Len(q) THEN q[2 * i] ELSE 0) \in Nat
  <2>1. 2 * i - 1 \in 1 .. Len(q) /\ (2 * i <= Len(q) => 2 * i \in 1 .. Len(q))
    BY <1>1, <1>3
  <2>2. q[2 * i - 1] \in Nat /\ (2 * i <= Len(q) => q[2 * i] \in Nat)
    BY <1>1, <2>1
  <2> QED
    BY <2>2, SMTT(60)
<1> QED
  BY <1>2, <1>3 DEF u16, Octets

\* Parts that are added up.
LEMMA PartsTyped ==
    \A w, x, y, z \in Octets : ((w \o x) \o y) \o z \in Octets
<1>1. \A p, q \in Octets : p \o q \in Octets
  BY OneThenOther DEF Octets
<1> QED
  BY <1>1, Zenon

\* The words of a pseudo header.
LEMMA PseudoTyped ==
    ASSUME NEW n \in Nat, NEW x \in Nat, NEW y \in Nat
    PROVE  /\ <<256 * IPV4_PROTOCOL_UDP, SizeofUdpHdr + n, x, y, n + SizeofUdpHdr, 0>> \in Octets
           /\ <<256 * IPV4_PROTOCOL_TCP, SizeofTcpHdr + n>> \in Octets
BY DEF Octets, IPV4_PROTOCOL_UDP, IPV4_PROTOCOL_TCP, SizeofUdpHdr, SizeofTcpHdr

\* What the checksums of both protocols add up.
LEMMA SummedTyped ==
    ASSUME NEW a \in Args
    PROVE  /\ udp_summed(a, Len(a.data) + SizeofUdpHdr) \in Octets
           /\ tcp_summed(a) \in Octets
<1> DEFINE n == Len(a.data)
           x == <<256 * IPV4_PROTOCOL_UDP, SizeofUdpHdr + n, a.sport, a.dport, n + SizeofUdpHdr, 0>>
           y == <<256 * IPV4_PROTOCOL_TCP, SizeofTcpHdr + n>>
<1>1. a.data \in Octets /\ n \in Nat /\ a.sport \in Nat /\ a.dport \in Nat
  BY ArgsTyped, WordsAreNumbers
<1>2. a.saddr \in Octets /\ a.daddr \in Octets
  BY ArgsTyped, AddressTyped
<1>3. u16(a.data) \in Octets
  BY <1>1, WordsTyped
<1>4. x \in Octets /\ y \in Octets
  BY <1>1, PseudoTyped
<1> DEFINE s == a.saddr
           d == a.daddr
           w == u16(a.data)
<1>5. /\ udp_summed(a, n + SizeofUdpHdr) = ((s \o d) \o x) \o w
      /\ tcp_summed(a) = ((s \o d) \o y) \o w
  BY DEF udp_summed, tcp_summed
<1>6. s \in Octets /\ d \in Octets /\ w \in Octets /\ x \in Octets /\ y \in Octets
  BY <1>2, <1>3, <1>4
<1> HIDE DEF x, y, s, d, w
<1>7. ((s \o d) \o x) \o w \in Octets /\ ((s \o d) \o y) \o w \in Octets
  BY <1>6, PartsTyped, Zenon
<1> QED
  BY <1>5, <1>7, Zenon

\* A checksum is a word.
LEMMA ChecksumTyped ==
    ASSUME NEW q \in Octets
    PROVE  ip_cksum_multi(q) \in Nat /\ NeverZero(ip_cksum_multi(q)) \in Nat
<1>1. SumOf(q) \in Nat
  BY SumTyped
<1>2. ip_cksum_multi(q) \in Nat
  BY <1>1 DEF ip_cksum_multi, Word
<1> QED
  BY <1>2 DEF NeverZero, Word

\* The words of p tell what a asked for, each at its place.
Carries(p, a) ==
    /\ p.hdr \in Octets /\ p.data = a.data
    /\ Len(p.hdr) = IF a.protocol = IPV4_PROTOCOL_UDP THEN 14 ELSE 20
    /\ p.hdr[5] = 64 + 256 * a.protocol
    /\ p.hdr[7] = a.saddr[1] /\ p.hdr[8] = a.saddr[2]
    /\ p.hdr[9] = a.daddr[1] /\ p.hdr[10] = a.daddr[2]
    /\ p.hdr[11] = a.sport /\ p.hdr[12] = a.dport

\* The fixed words of the three headers.
LEMMA FixedWords ==
    ASSUME NEW x \in Nat, NEW y \in Nat, NEW n \in Nat, NEW c \in Nat
    PROVE  /\ <<69, x, y, 0, n, 0>> \in Seq(Nat) /\ Len(<<69, x, y, 0, n, 0>>) = 6
           /\ <<69, x, y, 0, n, 0>>[5] = n
           /\ <<x, y, n, c>> \in Seq(Nat) /\ Len(<<x, y, n, c>>) = 4
           /\ <<x, y, n, c>>[1] = x /\ <<x, y, n, c>>[2] = y
           /\ <<x, y, 0, 0, 0, 0, 0, n, c, 0>> \in Seq(Nat)
           /\ Len(<<x, y, 0, 0, 0, 0, 0, n, c, 0>>) = 10
           /\ <<x, y, 0, 0, 0, 0, 0, n, c, 0>>[1] = x
           /\ <<x, y, 0, 0, 0, 0, 0, n, c, 0>>[2] = y
OBVIOUS

\* The header above the IPv4 header.
Upper(a) == IF a.protocol = IPV4_PROTOCOL_UDP THEN udp_headers(a) ELSE tcp_headers(a)

\* Its ports.
LEMMA UpperWords ==
    ASSUME NEW a \in Args
    PROVE  /\ Upper(a) \in Seq(Nat)
           /\ Len(Upper(a)) = IF a.protocol = IPV4_PROTOCOL_UDP THEN 4 ELSE 10
           /\ Upper(a)[1] = a.sport /\ Upper(a)[2] = a.dport
<1> DEFINE n == Len(a.data)
           c == NeverZero(ip_cksum_multi(udp_summed(a, n + SizeofUdpHdr)))
           d == NeverZero(ip_cksum_multi(tcp_summed(a)))
<1>1. n + SizeofPointer \in Nat /\ Word - 1 \in Nat /\ a.sport \in Nat /\ a.dport \in Nat
  <2>1. n \in Nat /\ a.sport \in Nat /\ a.dport \in Nat
    BY ArgsTyped, WordsAreNumbers
  <2> HIDE DEF n
  <2> QED
    BY <2>1 DEF SizeofPointer, Word
<1>2. c \in Nat /\ d \in Nat
  BY SummedTyped, ChecksumTyped
<1>3. CASE a.protocol = IPV4_PROTOCOL_UDP
  <2>1. Upper(a) = <<a.sport, a.dport, n + SizeofPointer, c>>
    BY <1>3 DEF Upper, udp_headers, SizeofPointer, SizeofUdpHdr
  <2> HIDE DEF n, c, d
  <2>2. /\ Upper(a) \in Seq(Nat) /\ Len(Upper(a)) = 4
        /\ Upper(a)[1] = a.sport /\ Upper(a)[2] = a.dport
    BY <1>1, <1>2, <2>1, FixedWords
  <2> QED
    BY <1>3, <2>2
<1>4. CASE a.protocol # IPV4_PROTOCOL_UDP
  <2>1. Upper(a) = <<a.sport, a.dport, 0, 0, 0, 0, 0, Word - 1, d, 0>>
    BY <1>4 DEF Upper, tcp_headers
  <2> HIDE DEF n, c, d
  <2>2. /\ Upper(a) \in Seq(Nat) /\ Len(Upper(a)) = 10
        /\ Upper(a)[1] = a.sport /\ Upper(a)[2] = a.dport
    BY <1>1, <1>2, <2>1, FixedWords
  <2> QED
    BY <1>4, <2>2
<1> QED
  BY <1>3, <1>4

\* Both headers together.
LEMMA WordsCarry ==
    ASSUME NEW a \in Args, NEW x \in Nat, NEW y \in Nat, NEW p,
           p.hdr = HeaderAs(<<69, x, y, 0, 64 + 256 * a.protocol, 0>>, a.saddr, a.daddr, Upper(a)),
           p.data = a.data
    PROVE  Carries(p, a)
<1> DEFINE z == 64 + 256 * a.protocol
           u == <<69, x, y, 0, z, 0>>
           v == Upper(a)
           s == a.saddr
           d == a.daddr
           h == HeaderAs(u, s, d, v)
<1>1. z \in Nat
  BY ArgsTyped, SMTT(60) DEF IPV4_PROTOCOL_UDP, IPV4_PROTOCOL_TCP
<1>2. s \in Seq(Nat) /\ Len(s) = 2 /\ d \in Seq(Nat) /\ Len(d) = 2
  BY ArgsTyped, AddressTyped DEF Octets
<1>3. /\ v \in Seq(Nat) /\ Len(v) = IF a.protocol = IPV4_PROTOCOL_UDP THEN 4 ELSE 10
      /\ v[1] = a.sport /\ v[2] = a.dport
  BY UpperWords
<1>4. p.hdr = h
  OBVIOUS
<1> HIDE DEF z
<1>5. u \in Seq(Nat) /\ Len(u) = 6 /\ u[5] = z
  BY <1>1, FixedWords
<1> HIDE DEF u, v, s, d
<1>6. /\ h \in Seq(Nat) /\ Len(h) = 10 + Len(v) /\ h[5] = u[5]
      /\ h[7] = s[1] /\ h[8] = s[2] /\ h[9] = d[1] /\ h[10] = d[2]
      /\ \A i \in 1 .. Len(v) : h[10 + i] = v[i]
  <2>1. /\ u \in Seq(Nat) /\ s \in Seq(Nat) /\ d \in Seq(Nat) /\ v \in Seq(Nat)
        /\ Len(u) = 6 /\ Len(s) = 2 /\ Len(d) = 2
    BY <1>2, <1>3, <1>5, Zenon
  <2>2. HeaderLaid(h, u, s, d, v)
    BY <2>1, HeaderWords, Zenon
  <2> QED
    BY <2>2 DEF HeaderLaid
<1> HIDE DEF h
<1>7. /\ h[11] = a.sport /\ h[12] = a.dport
      /\ Len(h) = IF a.protocol = IPV4_PROTOCOL_UDP THEN 14 ELSE 20
  <2>1. CASE a.protocol = IPV4_PROTOCOL_UDP
    <3>1. Len(v) = 4 /\ v[1] = a.sport /\ v[2] = a.dport
      BY <1>3, <2>1
    <3>2. h[11] = v[1] /\ h[12] = v[2] /\ Len(h) = 14
      BY <1>6, <3>1
    <3> QED
      BY <2>1, <3>1, <3>2
  <2>2. CASE a.protocol # IPV4_PROTOCOL_UDP
    <3>1. Len(v) = 10 /\ v[1] = a.sport /\ v[2] = a.dport
      BY <1>3, <2>2
    <3>2. h[11] = v[1] /\ h[12] = v[2] /\ Len(h) = 20
      BY <1>6, <3>1
    <3> QED
      BY <2>2, <3>1, <3>2
  <2> QED
    BY <2>1, <2>2
<1> QED
  BY <1>4, <1>5, <1>6, <1>7, Zenon DEF Carries, Octets, s, d, z

\* The words that ip_udp_headers_default_set and ip_tcp_headers_default_set
\* write.
LEMMA HeadersCarry ==
    ASSUME id \in Nat, NEW a \in Args, NEW p, p.hdr = headers(a), p.data = a.data
    PROVE  Carries(p, a)
<1> DEFINE n == Len(a.data)
           x == (SizeofIpHdr + SizeofUdpHdr + (n + SizeofUdpHdr)) % Word
           y == htons(id)
<1>1. x \in Nat /\ y \in Nat
  <2>1. n \in Nat
    BY ArgsTyped
  <2> HIDE DEF n
  <2> QED
    BY <2>1 DEF SizeofIpHdr, SizeofUdpHdr, Word, htons
<1>2. headers(a) = HeaderAs(<<69, x, y, 0, 64 + 256 * a.protocol, 0>>, a.saddr, a.daddr, Upper(a))
  BY DEF headers, ip_headers_default_set, HeaderAs, Upper
<1> HIDE DEF x, y
<1> QED
  BY <1>1, <1>2, WordsCarry

\* The bytes of a packet, each word with its low byte first.
LEMMA BytesLaid ==
    ASSUME NEW p, p.hdr \in Octets, p.data \in Octets
    PROVE  /\ bytes_of(p) \in Octets
           /\ Len(bytes_of(p)) = 2 * Len(p.hdr) + Len(p.data)
           /\ \A j \in 1 .. Len(p.hdr) : /\ bytes_of(p)[2 * j - 1] = p.hdr[j] % 256
                                         /\ bytes_of(p)[2 * j] = p.hdr[j] \div 256
           /\ Drop(bytes_of(p), 2 * Len(p.hdr)) = p.data
<1> DEFINE h == p.hdr
           d == p.data
           N == Len(h)
           w == [i \in 1 .. 2 * N |-> ByteOf(h, i)]
<1>1. h \in Seq(Nat) /\ d \in Seq(Nat) /\ N \in Nat
  BY DEF Octets
<1> HIDE DEF h, d
<1>2. ASSUME NEW i \in 1 .. 2 * N PROVE ByteOf(h, i) \in Nat
  <2>1. CASE i % 2 = 1
    <3>1. (i + 1) \div 2 \in 1 .. N
      BY <1>1, <2>1
    <3>2. h[(i + 1) \div 2] \in Nat
      BY <1>1, <3>1
    <3> QED
      BY <2>1, <3>2 DEF ByteOf
  <2>2. CASE i % 2 # 1
    <3>1. i \div 2 \in 1 .. N
      BY <1>1, <2>2
    <3>2. h[i \div 2] \in Nat
      BY <1>1, <3>1
    <3> QED
      BY <2>2, <3>2 DEF ByteOf
  <2> QED
    BY <2>1, <2>2
<1>3. w \in Seq(Nat) /\ Len(w) = 2 * N
  BY <1>1, <1>2
<1>4. ASSUME NEW j \in 1 .. N
      PROVE  w[2 * j - 1] = h[j] % 256 /\ w[2 * j] = h[j] \div 256
  <2>1. /\ 2 * j - 1 \in 1 .. 2 * N /\ 2 * j \in 1 .. 2 * N
        /\ (2 * j - 1) % 2 = 1 /\ ((2 * j - 1) + 1) \div 2 = j
        /\ (2 * j) % 2 = 0 /\ (2 * j) \div 2 = j
    BY <1>1
  <2>2. w[2 * j - 1] = ByteOf(h, 2 * j - 1) /\ w[2 * j] = ByteOf(h, 2 * j)
    BY <2>1
  <2> QED
    BY <2>1, <2>2 DEF ByteOf
<1> HIDE DEF w
<1>5. bytes_of(p) = w \o d
  BY DEF bytes_of, w, h, d
<1>6. /\ w \o d \in Seq(Nat) /\ Len(w \o d) = Len(w) + Len(d)
      /\ \A i \in 1 .. Len(w) : (w \o d)[i] = w[i]
  BY <1>1, <1>3, OneThenOther, Zenon
<1>7. ASSUME NEW j \in 1 .. N
      PROVE  (w \o d)[2 * j - 1] = h[j] % 256 /\ (w \o d)[2 * j] = h[j] \div 256
  <2>1. 2 * j - 1 \in 1 .. Len(w) /\ 2 * j \in 1 .. Len(w)
    BY <1>1, <1>3
  <2> QED
    BY <1>4, <1>6, <2>1, SMTT(60)
<1>8. Drop(w \o d, Len(w)) = d
  BY <1>1, <1>3, DropConcat, Zenon DEF Octets
<1>9. bytes_of(p) \in Octets
  BY <1>5, <1>6, Zenon DEF Octets
<1>10. Len(bytes_of(p)) = 2 * N + Len(d)
  BY <1>3, <1>5, <1>6, Zenon
<1>11. \A j \in 1 .. N : bytes_of(p)[2 * j - 1] = h[j] % 256 /\ bytes_of(p)[2 * j] = h[j] \div 256
  BY <1>5, <1>7, ZenonT(60)
<1>12. Drop(bytes_of(p), 2 * N) = d
  BY <1>3, <1>5, <1>8, Zenon
<1> QED
  <2>1. Len(bytes_of(p)) = 2 * Len(p.hdr) + Len(p.data)
    BY <1>10, Zenon DEF N, h, d
  <2>2. Drop(bytes_of(p), 2 * Len(p.hdr)) = p.data
    BY <1>12, Zenon DEF N, h, d
  <2>3. \A j \in 1 .. Len(p.hdr) : /\ bytes_of(p)[2 * j - 1] = p.hdr[j] % 256
                                   /\ bytes_of(p)[2 * j] = p.hdr[j] \div 256
    BY <1>11, Zenon DEF N, h, d
  <2> QED
    BY <1>9, <2>1, <2>2, <2>3, Zenon

\* A word is put together again from its two bytes.
LEMMA TwoBytes ==
    ASSUME NEW w \in Nat
    PROVE  (w % 256) + 256 * (w \div 256) = w
OBVIOUS

\* serial_read_handler finds what the packet carries.
LEMMA CarriedFound ==
    ASSUME NEW a \in Args, NEW p, Carries(p, a)
    PROVE  /\ ip_bytevector_validate(bytes_of(p))
           /\ taken_apart(bytes_of(p)) = a
<1> DEFINE b == bytes_of(p)
           h == p.hdr
<1>1. a.protocol \in {17, 6} /\ IPV4_PROTOCOL_UDP = 17 /\ a.data \in Octets /\ Len(a.data) \in Nat
  BY ArgsTyped DEF IPV4_PROTOCOL_UDP, IPV4_PROTOCOL_TCP
<1>2. h \in Octets /\ p.data = a.data /\ Len(h) = IF a.protocol = 17 THEN 14 ELSE 20
  BY <1>1 DEF Carries
<1>3. /\ b \in Octets /\ Len(b) = 2 * Len(h) + Len(a.data)
      /\ \A j \in 1 .. Len(h) : b[2 * j - 1] = h[j] % 256 /\ b[2 * j] = h[j] \div 256
      /\ Drop(b, 2 * Len(h)) = a.data
  <2>1. /\ b \in Octets /\ Len(b) = 2 * Len(h) + Len(p.data)
        /\ \A j \in 1 .. Len(h) : b[2 * j - 1] = h[j] % 256 /\ b[2 * j] = h[j] \div 256
        /\ Drop(b, 2 * Len(h)) = p.data
    <3>1. p.hdr \in Octets /\ p.data \in Octets
      BY <1>1, <1>2, Zenon
    <3> QED
      BY <3>1, BytesLaid, ZenonT(60)
  <2> HIDE DEF b, h
  <2> QED
    BY <1>2, <2>1, Zenon
<1>4. /\ h[5] = 64 + 256 * a.protocol
      /\ h[7] = a.saddr[1] /\ h[8] = a.saddr[2] /\ h[9] = a.daddr[1] /\ h[10] = a.daddr[2]
      /\ h[11] = a.sport /\ h[12] = a.dport
  BY <1>1 DEF Carries
<1> HIDE DEF b, h
<1>5. Len(h) \in Nat /\ Len(h) >= 12 /\ Len(b) >= 28
  <2>1. CASE a.protocol = 17
    <3>1. Len(h) = 14 /\ Len(b) = 2 * Len(h) + Len(a.data)
      BY <1>2, <1>3, <2>1
    <3> QED
      BY <1>1, <3>1
  <2>2. CASE a.protocol # 17
    <3>1. Len(h) = 20 /\ Len(b) = 2 * Len(h) + Len(a.data)
      BY <1>2, <1>3, <2>2
    <3> QED
      BY <1>1, <3>1
  <2> QED
    BY <2>1, <2>2
<1>6. ASSUME NEW j \in 1 .. 12
      PROVE  /\ b[2 * j - 1] = h[j] % 256 /\ b[2 * j] = h[j] \div 256
             /\ h[j] \in Nat
  <2>1. j \in 1 .. Len(h)
    BY <1>5, SMTT(30)
  <2>2. h[j] \in Nat
    BY <1>2, <2>1, SMTT(60) DEF Octets
  <2> QED
    BY <1>3, <2>1, <2>2, ZenonT(60)
<1>7. b[10] = a.protocol
  <2>1. b[10] = h[5] \div 256
    <3>1. 5 \in 1 .. 12 /\ 2 * 5 = 10
      OBVIOUS
    <3> HIDE <1>6
    <3>2. b[2 * 5] = h[5] \div 256
      BY <1>6, <3>1
    <3> QED
      BY <3>1, <3>2
  <2> QED
    BY <1>1, <1>4, <2>1
<1>8. ASSUME NEW j \in 1 .. 12
      PROVE  word_at(b, 2 * j - 2) = h[j]
  <2>1. (2 * j - 2) + 1 = 2 * j - 1 /\ (2 * j - 2) + 2 = 2 * j
    OBVIOUS
  <2>2. word_at(b, 2 * j - 2) = b[2 * j - 1] + 256 * b[2 * j]
    BY <2>1 DEF word_at
  <2>3. b[2 * j - 1] = h[j] % 256 /\ b[2 * j] = h[j] \div 256 /\ h[j] \in Nat
    BY <1>6, Zenon
  <2>4. (h[j] % 256) + 256 * (h[j] \div 256) = h[j]
    BY <2>3, TwoBytes, ZenonT(60)
  <2> QED
    BY <2>2, <2>3, <2>4, Zenon
<1>9. /\ word_at(b, 12) = h[7] /\ word_at(b, 14) = h[8]
      /\ word_at(b, 16) = h[9] /\ word_at(b, 18) = h[10]
      /\ word_at(b, 20) = h[11] /\ word_at(b, 22) = h[12]
  BY <1>8
<1>10. ip_bytevector_data_start(b) = 2 * Len(h)
  BY <1>1, <1>2, <1>7 DEF ip_bytevector_data_start, protocol_of, SizeofIpHdr,
     SizeofUdpHdr, SizeofTcpHdr
<1>11. SubSeq(b, ip_bytevector_data_start(b) + 1, Len(b)) = a.data
  BY <1>3, <1>10, Zenon DEF Drop
<1>12. a.saddr = <<a.saddr[1], a.saddr[2]>> /\ a.daddr = <<a.daddr[1], a.daddr[2]>>
  BY ArgsTyped, AddressTyped
<1>13. /\ <<word_at(b, 12), word_at(b, 14)>> = a.saddr
       /\ <<word_at(b, 16), word_at(b, 18)>> = a.daddr
       /\ word_at(b, 20) = a.sport /\ word_at(b, 22) = a.dport
       /\ protocol_of(b) = a.protocol
  BY <1>4, <1>7, <1>9, <1>12 DEF protocol_of
<1>14. taken_apart(b) = [protocol |-> a.protocol, saddr |-> a.saddr, daddr |-> a.daddr,
                         sport |-> a.sport, dport |-> a.dport, data |-> a.data]
  BY <1>11, <1>13, Zenon DEF taken_apart
<1>15. taken_apart(b) = a
  BY <1>14, ArgsTyped, Zenon
<1>16. ip_bytevector_validate(b)
  BY <1>5 DEF ip_bytevector_validate, SizeofIpHdr
<1> QED
  BY <1>15, <1>16 DEF b

\* Nothing has been built, or the last packet carries what was asked for.
HeaderInv ==
    /\ id \in Nat
    /\ \/ asked = <<>> /\ packet = <<>>
       \/ \E a \in Args : \E p : asked = <<a>> /\ packet = <<p>> /\ Carries(p, a)

\* Every call of ip_udp_headers_default_set or ip_tcp_headers_default_set leaves
\* such a packet.
LEMMA HeaderInvariance == HeaderSpec => []HeaderInv
<1>1. HeaderInit => HeaderInv
  BY DEF HeaderInit, HeaderInv
<1>2. HeaderInv /\ [HeaderNext]_headerVars => HeaderInv'
  <2> SUFFICES ASSUME HeaderInv, [HeaderNext]_headerVars PROVE HeaderInv'
    OBVIOUS
  <2>1. CASE UNCHANGED headerVars
    BY <2>1 DEF HeaderInv, headerVars
  <2>2. ASSUME NEW a \in Args, Build(a) PROVE HeaderInv'
    <3>1. /\ asked' = <<a>> /\ packet' = <<[hdr |-> headers(a), data |-> a.data]>>
          /\ id' = (id + 1) % Word /\ id \in Nat
      BY <2>2 DEF Build, HeaderInv
    <3>2. PICK p : p = [hdr |-> headers(a), data |-> a.data]
      BY Zenon
    <3>3. Carries(p, a)
      BY <3>1, <3>2, HeadersCarry
    <3>4. id' \in Nat
      BY <3>1 DEF Word
    <3> QED
      BY <3>1, <3>2, <3>3, <3>4 DEF HeaderInv
  <2> QED
    BY <2>1, <2>2 DEF HeaderNext
<1> QED
  BY <1>1, <1>2, PTL DEF HeaderSpec

\* For all addresses, ports and payloads, serial_read_handler recovers from the
\* bytes of a packet the protocol, the addresses, the ports and the payload it
\* was built from.
THEOREM HeadersRecovered == HeaderSpec => []HeadersRoundTrip
<1>1. HeaderInv => HeadersRoundTrip
  <2> SUFFICES ASSUME HeaderInv, NEW i \in DOMAIN packet
               PROVE  /\ ip_bytevector_validate(bytes_of(packet[i]))
                      /\ taken_apart(bytes_of(packet[i])) = asked[i]
    BY DEF HeadersRoundTrip
  <2>0. PICK a \in Args : \E p : asked = <<a>> /\ packet = <<p>> /\ Carries(p, a)
    BY DEF HeaderInv
  <2>1. PICK p : asked = <<a>> /\ packet = <<p>> /\ Carries(p, a)
    BY <2>0, Zenon
  <2>2. asked[i] = a /\ packet[i] = p
    BY <2>1
  <2> QED
    BY <2>1, <2>2, CarriedFound
<1> QED
  BY <1>1, HeaderInvariance, PTL

-----------------------------------------------------------------------------
(* The configuration file.                                                 *)

\* The greatest element.
LEMMA MaxIs ==
    ASSUME NEW S, NEW n \in S, S \subseteq Int, \A i \in S : i <= n
    PROVE  Max(S) = n
<1>1. ASSUME NEW x \in S, \A y \in S : x >= y PROVE x = n
  BY <1>1
<1>2. \A y \in S : n >= y
  OBVIOUS
<1> QED
  BY <1>1, <1>2, Zenon DEF Max

\* A set of line numbers has a greatest element.
LEMMA MaxGreatest ==
    ASSUME NEW N \in Nat, NEW S, S \subseteq 1 .. N, S # {}
    PROVE  Max(S) \in S /\ \A i \in S : i <= Max(S)
<1> DEFINE T == {N - i : i \in S}
<1>1. T \subseteq Nat /\ T # {}
  <2>1. ASSUME NEW i \in S PROVE N - i \in Nat
    <3>1. i \in 1 .. N
      OBVIOUS
    <3> QED
      BY <3>1
  <2> QED
    BY <2>1, Zenon
<1>2. PICK x \in T : \A y \in T : x <= y
  BY <1>1, LeastNumber, Zenon
<1>3. PICK n \in S : x = N - n
  OBVIOUS
<1>4. ASSUME NEW i \in S PROVE i <= n
  <2>1. N - i \in T
    OBVIOUS
  <2>2. N - n <= N - i
    BY <1>2, <1>3, <2>1
  <2>3. n \in Int /\ i \in Int
    OBVIOUS
  <2> QED
    BY <2>2, <2>3
<1>5. S \subseteq Int
  OBVIOUS
<1>6. Max(S) = n
  BY <1>4, <1>5, MaxIs, Zenon
<1> QED
  BY <1>4, <1>6

\* A file and the file with one line more.
Longer(f, g, ln) ==
    /\ Len(f) \in Nat /\ Len(g) = Len(f) + 1
    /\ DOMAIN f = 1 .. Len(f) /\ DOMAIN g = 1 .. Len(f) + 1
    /\ \A i \in 1 .. Len(f) : g[i] = f[i]
    /\ g[Len(f) + 1] = ln

\* ini_parse_stream reads one line more.
LEMMA LongerFile ==
    ASSUME NEW S, NEW f \in Seq(S), NEW ln \in S
    PROVE  Longer(f, Append(f, ln), ln)
<1> DEFINE g == Append(f, ln)
<1>1. /\ g \in Seq(S) /\ Len(f) \in Nat /\ Len(g) = Len(f) + 1
      /\ \A i \in 1 .. Len(f) : g[i] = f[i]
      /\ g[Len(f) + 1] = ln
  OBVIOUS
<1>2. DOMAIN f = 1 .. Len(f) /\ DOMAIN g = 1 .. Len(g)
  BY <1>1, LenProperties
<1> HIDE DEF g
<1>3. Longer(f, g, ln)
  BY <1>1, <1>2 DEF Longer
<1> QED
  BY <1>3 DEF g

\* The section headers before line i.
Heads(f, i) == {k \in 1 .. i - 1 : f[k].kind = "section" /\ f[k].closed}

\* The section in force at the lines there were, and at the next one.
LEMMA SectionGrows ==
    ASSUME NEW f, NEW g, NEW ln, Longer(f, g, ln)
    PROVE  /\ \A i \in 1 .. Len(f) + 1 : SectionAt(g, i) = SectionAt(f, i)
           /\ SectionAt(g, Len(g) + 1) = IF ln.kind = "section" /\ ln.closed THEN ln.name
                                         ELSE SectionAt(f, Len(f) + 1)
<1> DEFINE N == Len(f)
<1>1. N \in Nat /\ Len(g) = N + 1 /\ (\A i \in 1 .. N : g[i] = f[i]) /\ g[N + 1] = ln
  BY DEF Longer
<1>2. /\ \A i : SectionAt(f, i) = IF Heads(f, i) = {} THEN "" ELSE f[Max(Heads(f, i))].name
      /\ \A i : SectionAt(g, i) = IF Heads(g, i) = {} THEN "" ELSE g[Max(Heads(g, i))].name
  BY DEF SectionAt, Heads
<1> HIDE DEF N
<1>3. ASSUME NEW i \in 1 .. N + 1
      PROVE  Heads(g, i) = Heads(f, i) /\ Heads(f, i) \subseteq 1 .. N
  <2>1. \A k \in 1 .. i - 1 : k \in 1 .. N /\ g[k] = f[k]
    BY <1>1
  <2> QED
    BY <2>1 DEF Heads
<1>4. ASSUME NEW i \in 1 .. N + 1 PROVE SectionAt(g, i) = SectionAt(f, i)
  <2>1. CASE Heads(f, i) = {}
    BY <1>2, <1>3, <2>1, Zenon
  <2>2. CASE Heads(f, i) # {}
    <3>1. Max(Heads(f, i)) \in 1 .. N
      BY <1>1, <1>3, <2>2, MaxGreatest
    <3> QED
      BY <1>1, <1>2, <1>3, <2>2, <3>1, Zenon
  <2> QED
    BY <2>1, <2>2
<1>5. Heads(g, N + 2) = IF ln.kind = "section" /\ ln.closed
                        THEN Heads(g, N + 1) \cup {N + 1} ELSE Heads(g, N + 1)
  <2>1. 1 .. (N + 2) - 1 = (1 .. (N + 1) - 1) \cup {N + 1}
    BY <1>1
  <2> QED
    BY <1>1, <2>1 DEF Heads
<1>6. N + 1 \in 1 .. N + 1 /\ Len(g) + 1 = N + 2
  BY <1>1
<1>7. CASE ln.kind = "section" /\ ln.closed
  <2>1. Heads(g, N + 2) = Heads(g, N + 1) \cup {N + 1} /\ Heads(g, N + 1) \subseteq 1 .. N
    BY <1>3, <1>5, <1>6, <1>7
  <2>2. Max(Heads(g, N + 2)) = N + 1
    <3>1. /\ N + 1 \in Heads(g, N + 2) /\ Heads(g, N + 2) \subseteq Int
          /\ \A i \in Heads(g, N + 2) : i <= N + 1
      BY <1>1, <2>1
    <3> QED
      BY <3>1, MaxIs
  <2>3. SectionAt(g, N + 2) = ln.name
    BY <1>1, <1>2, <2>1, <2>2, Zenon
  <2> QED
    BY <1>4, <1>6, <1>7, <2>3 DEF N
<1>8. CASE ~(ln.kind = "section" /\ ln.closed)
  <2>1. Heads(g, N + 2) = Heads(g, N + 1)
    BY <1>5, <1>8
  <2>2. SectionAt(g, N + 2) = SectionAt(g, N + 1)
    BY <1>2, <2>1, Zenon
  <2>3. SectionAt(g, N + 2) = SectionAt(f, N + 1)
    BY <1>4, <1>6, <2>2
  <2> QED
    BY <1>4, <1>6, <1>8, <2>3 DEF N
<1> QED
  BY <1>7, <1>8

\* One line more for the setting it gives, and for no other.
LEMMA LinesGrow ==
    ASSUME NEW f, NEW g, NEW ln, Longer(f, g, ln), NEW sec, NEW names
    PROVE  /\ LinesFor(f, sec, names) \subseteq 1 .. Len(f)
           /\ LinesFor(g, sec, names)
                = IF /\ ln.kind = "pair" /\ ln.name \in names
                     /\ SectionAt(f, Len(f) + 1) = sec
                  THEN LinesFor(f, sec, names) \cup {Len(f) + 1}
                  ELSE LinesFor(f, sec, names)
<1> DEFINE N == Len(f)
           Of(h, i) == h[i].kind = "pair" /\ h[i].name \in names /\ SectionAt(h, i) = sec
<1>1. /\ N \in Nat /\ DOMAIN f = 1 .. N /\ DOMAIN g = 1 .. N + 1
      /\ (\A i \in 1 .. N : g[i] = f[i]) /\ g[N + 1] = ln
  BY DEF Longer
<1>2. \A i \in 1 .. N + 1 : SectionAt(g, i) = SectionAt(f, i)
  BY SectionGrows
<1>3. LinesFor(f, sec, names) = {i \in 1 .. N : Of(f, i)}
  BY <1>1 DEF LinesFor
<1>4. LinesFor(g, sec, names) = {i \in 1 .. N + 1 : Of(g, i)}
  BY <1>1 DEF LinesFor
<1>5. \A i \in 1 .. N : Of(g, i) <=> Of(f, i)
  BY <1>1, <1>2
<1>6. Of(g, N + 1) <=> /\ ln.kind = "pair" /\ ln.name \in names
                       /\ SectionAt(f, N + 1) = sec
  BY <1>1, <1>2
<1>7. 1 .. N + 1 = (1 .. N) \cup {N + 1}
  BY <1>1
<1> HIDE DEF N, Of
<1>8. CASE Of(g, N + 1)
  BY <1>3, <1>4, <1>5, <1>6, <1>7, <1>8, SMTT(60) DEF N
<1>9. CASE ~Of(g, N + 1)
  BY <1>3, <1>4, <1>5, <1>6, <1>7, <1>9, SMTT(60) DEF N
<1> QED
  BY <1>8, <1>9

\* The last value is the one of the new line, if that line gives the setting.
LEMMA LastGrows ==
    ASSUME NEW f, NEW g, NEW ln, Longer(f, g, ln), NEW sec, NEW name
    PROVE  LastValue(g, sec, name)
             = IF /\ ln.kind = "pair" /\ ln.name = name
                  /\ SectionAt(f, Len(f) + 1) = sec
               THEN ln.value ELSE LastValue(f, sec, name)
<1> DEFINE N == Len(f)
           P == LinesFor(f, sec, {name})
           W == LinesFor(g, sec, {name})
           gives == ln.kind = "pair" /\ ln.name = name /\ SectionAt(f, Len(f) + 1) = sec
<1>1. N \in Nat /\ (\A i \in 1 .. N : g[i] = f[i]) /\ g[N + 1] = ln
  BY DEF Longer
<1>2. P \subseteq 1 .. N /\ W = IF gives THEN P \cup {N + 1} ELSE P
  <2>1. PICK names : names = {name}
    BY Zenon
  <2>2. /\ LinesFor(f, sec, names) \subseteq 1 .. Len(f)
        /\ LinesFor(g, sec, names)
             = IF /\ ln.kind = "pair" /\ ln.name \in names
                  /\ SectionAt(f, Len(f) + 1) = sec
               THEN LinesFor(f, sec, names) \cup {Len(f) + 1}
               ELSE LinesFor(f, sec, names)
    BY LinesGrow
  <2>3. ln.name \in names <=> ln.name = name
    BY <2>1
  <2>4. P = LinesFor(f, sec, names) /\ W = LinesFor(g, sec, names)
    BY <2>1
  <2> HIDE DEF P, W
  <2>5. CASE gives
    BY <2>2, <2>3, <2>4, <2>5
  <2>6. CASE ~gives
    BY <2>2, <2>3, <2>4, <2>6, SMTT(60)
  <2> QED
    BY <2>5, <2>6
<1>3. /\ LastValue(f, sec, name) = IF P = {} THEN NoText ELSE f[Max(P)].value
      /\ LastValue(g, sec, name) = IF W = {} THEN NoText ELSE g[Max(W)].value
  BY DEF LastValue
<1> HIDE DEF N, P, W, gives
<1>4. CASE gives
  <2>1. N + 1 \in W /\ W \subseteq Int /\ \A i \in W : i <= N + 1
    BY <1>1, <1>2, <1>4
  <2>2. Max(W) = N + 1
    BY <2>1, MaxIs, Zenon
  <2>3. LastValue(g, sec, name) = ln.value
    BY <1>1, <1>3, <2>1, <2>2
  <2> QED
    BY <1>4, <2>3 DEF gives
<1>5. CASE ~gives
  <2>1. W = P
    BY <1>2, <1>5, SMTT(60)
  <2>2. CASE P = {}
    BY <1>3, <1>5, <2>1, <2>2, SMTT(60) DEF gives
  <2>3. CASE P # {}
    <3>1. Max(P) \in 1 .. N
      BY <1>1, <1>2, <2>3, MaxGreatest, Zenon
    <3>2. LastValue(g, sec, name) = LastValue(f, sec, name)
      BY <1>1, <1>3, <2>1, <2>3, <3>1, SMTT(60)
    <3> QED
      BY <1>5, <3>2 DEF gives
  <2> QED
    BY <2>2, <2>3
<1> QED
  BY <1>4, <1>5

\* q holds the numbers of the first MaxPorts of the given lines of f.
PortsOf(f, lines, q) ==
    /\ Len(q) = Min({MaxPorts, Cardinality(lines)})
    /\ \A i \in lines : Rank(lines, i) <= MaxPorts
          => q[Rank(lines, i)] = f[i].value.number

\* The smaller of two numbers.
LEMMA MinOfTwo ==
    ASSUME NEW a \in Int, NEW b \in Int
    PROVE  Min({a, b}) = IF a <= b THEN a ELSE b
<1>1. ASSUME NEW x \in {a, b}, \A y \in {a, b} : x <= y
      PROVE  x = IF a <= b THEN a ELSE b
  <2>1. x \in Int /\ x <= a /\ x <= b /\ (x = a \/ x = b)
    BY <1>1
  <2> QED
    BY <2>1
<1>2. \E x \in {a, b} : \A y \in {a, b} : x <= y
  <2>1. CASE a <= b
    BY <2>1
  <2>2. CASE ~(a <= b)
    BY <2>2
  <2> QED
    BY <2>1, <2>2
<1> QED
  BY <1>1, <1>2 DEF Min

\* The places of the lines among themselves, with one line more at the end.
LEMMA RankGrows ==
    ASSUME NEW n \in Nat, NEW S, S \subseteq 1 .. n
    PROVE  /\ Cardinality(S) \in Nat
           /\ Cardinality(S \cup {n + 1}) = Cardinality(S) + 1
           /\ \A i \in S : /\ Rank(S, i) \in 1 .. Cardinality(S)
                           /\ Rank(S \cup {n + 1}, i) = Rank(S, i)
           /\ Rank(S \cup {n + 1}, n + 1) = Cardinality(S) + 1
<1> DEFINE T == S \cup {n + 1}
<1>1. IsFiniteSet(S)
  <2>1. IsFiniteSet(1 .. n)
    BY FS_Interval
  <2>2. S \in SUBSET (1 .. n)
    OBVIOUS
  <2> QED
    BY <2>1, <2>2, FS_Subset, Zenon
<1>2. n + 1 \notin S
  OBVIOUS
<1>3. Cardinality(S) \in Nat
  BY <1>1, FS_CardinalityType
<1>4. Cardinality(T) = Cardinality(S) + 1
  BY <1>1, <1>2, FS_AddElement
<1>5. {k \in T : k <= n + 1} = T
  <2>1. \A k \in T : k <= n + 1
    OBVIOUS
  <2> QED
    BY <2>1, Zenon
<1>6. ASSUME NEW i \in S
      PROVE  Rank(S, i) \in 1 .. Cardinality(S) /\ Rank(T, i) = Rank(S, i)
  <2> DEFINE L == {k \in S : k <= i}
  <2>1. {k \in T : k <= i} = L
    OBVIOUS
  <2>2. L \subseteq S /\ i \in L
    OBVIOUS
  <2> HIDE DEF L
  <2>3. IsFiniteSet(L) /\ Cardinality(L) <= Cardinality(S)
    BY <1>1, <2>2, FS_Subset, Zenon
  <2>4. Cardinality(L) \in Nat /\ Cardinality(L) # 0
    BY <2>2, <2>3, FS_CardinalityType, FS_EmptySet, SMTT(60)
  <2>5. Cardinality(L) \in 1 .. Cardinality(S)
    BY <1>3, <2>3, <2>4
  <2>6. Rank(S, i) = Cardinality(L) /\ Rank(T, i) = Cardinality(L)
    BY <2>1 DEF Rank, L
  <2> QED
    BY <2>5, <2>6
<1>7. Rank(T, n + 1) = Cardinality(S) + 1
  BY <1>4, <1>5 DEF Rank
<1> QED
  BY <1>3, <1>4, <1>6, <1>7

\* The ports of the lines there were stay the ports of those lines.
LEMMA PortsStay ==
    ASSUME NEW f, NEW g, NEW ln, Longer(f, g, ln), NEW S, S \subseteq 1 .. Len(f),
           NEW q, PortsOf(f, S, q)
    PROVE  PortsOf(g, S, q)
<1>1. \A i \in S : g[i] = f[i]
  BY DEF Longer
<1> QED
  BY <1>1, Zenon DEF PortsOf

\* A port line more: its number is stored if there is room.
LEMMA PortsGrow ==
    ASSUME NEW f, NEW g, NEW ln, Longer(f, g, ln), NEW S, S \subseteq 1 .. Len(f),
           NEW q \in Seq(Int), PortsOf(f, S, q), NEW x \in Int, x = ln.value.number
    PROVE  PortsOf(g, S \cup {Len(f) + 1}, IF Len(q) < MaxPorts THEN Append(q, x) ELSE q)
<1> DEFINE n == Len(f)
           T == S \cup {n + 1}
           c == Cardinality(S)
           r == IF Len(q) < MaxPorts THEN Append(q, x) ELSE q
<1>1. /\ n \in Nat /\ S \subseteq 1 .. n /\ MaxPorts \in Nat
      /\ (\A i \in S : g[i] = f[i]) /\ g[n + 1] = ln
  BY FileAssumption DEF Longer
<1>2. /\ c \in Nat /\ Cardinality(T) = c + 1
      /\ \A i \in S : Rank(S, i) \in 1 .. c /\ Rank(T, i) = Rank(S, i)
      /\ Rank(T, n + 1) = c + 1
  BY <1>1, RankGrows, Zenon
<1>3. /\ Len(q) = Min({MaxPorts, c})
      /\ \A i \in S : Rank(S, i) <= MaxPorts => q[Rank(S, i)] = f[i].value.number
  BY Zenon DEF PortsOf
<1>4. /\ Min({MaxPorts, c}) = IF MaxPorts <= c THEN MaxPorts ELSE c
      /\ Min({MaxPorts, c + 1}) = IF MaxPorts <= c + 1 THEN MaxPorts ELSE c + 1
  BY <1>1, <1>2, MinOfTwo, SMTT(60)
<1>5. /\ Len(Append(q, x)) = Len(q) + 1
      /\ Append(q, x)[Len(q) + 1] = x
      /\ \A i \in 1 .. Len(q) : Append(q, x)[i] = q[i]
  OBVIOUS
<1>6. T = S \cup {n + 1}
  OBVIOUS
<1> HIDE DEF n, T, c
<1>7. Len(r) = Min({MaxPorts, Cardinality(T)})
  BY <1>1, <1>2, <1>3, <1>4, <1>5, SMTT(60)
<1>8. ASSUME NEW i \in T, Rank(T, i) <= MaxPorts
      PROVE  r[Rank(T, i)] = g[i].value.number
  <2>1. CASE i \in S
    <3>1. Rank(T, i) = Rank(S, i) /\ Rank(S, i) \in 1 .. c /\ Rank(S, i) <= MaxPorts
      BY <1>2, <1>8, <2>1
    <3>2. q[Rank(S, i)] = f[i].value.number /\ g[i] = f[i]
      BY <1>1, <1>3, <2>1, <3>1, Zenon
    <3>3. Rank(S, i) \in 1 .. Len(q)
      BY <1>1, <1>2, <1>3, <1>4, <3>1, SMTT(60)
    <3>4. r[Rank(S, i)] = q[Rank(S, i)]
      BY <1>5, <3>3, SMTT(60)
    <3> QED
      BY <3>1, <3>2, <3>4, Zenon
  <2>2. CASE i = n + 1
    <3>1. Rank(T, i) = c + 1 /\ c + 1 <= MaxPorts
      BY <1>2, <1>8, <2>2, SMTT(60)
    <3>2. Len(q) = c /\ Len(q) < MaxPorts
      BY <1>1, <1>2, <1>3, <1>4, <3>1, SMTT(60)
    <3>3. r[c + 1] = x
      BY <1>5, <3>2, SMTT(60)
    <3> QED
      BY <1>1, <2>2, <3>1, <3>3, ZenonT(60)
  <2> QED
    BY <1>6, <2>1, <2>2, Zenon
<1> HIDE DEF r
<1>9. PortsOf(g, T, r)
  BY <1>7, <1>8, SMTT(60) DEF PortsOf
<1> QED
  BY <1>9 DEF T, n, r
\* configuration_tmp as the handler finds and leaves it.
TmpShape(t) ==
    /\ t = [baud_rate |-> t.baud_rate, throttle_baud_rate |-> t.throttle_baud_rate,
            serial_port_name |-> t.serial_port_name, udp_port |-> t.udp_port,
            localIP |-> t.localIP, remoteIP |-> t.remoteIP]
    /\ t.udp_port \in Seq(Int) /\ Len(t.udp_port) <= MaxPorts

\* The settings stored are the last ones of the file, and the first ports.
Stored(t, f) ==
    /\ t.baud_rate = LastValue(f, "serial port", "baudrate").number
    /\ t.throttle_baud_rate = LastValue(f, "serial port", "throttle").number
    /\ t.serial_port_name = LastValue(f, "serial port", "name")
    /\ t.localIP = LastValue(f, "network", "local_ip")
    /\ t.remoteIP = LastValue(f, "network", "remote_ip")
    /\ PortsOf(f, LinesFor(f, "udp ports", PortNames), t.udp_port)

\* The inductive invariant of reading the file.
FileInv ==
    /\ file \in Seq(Lines)
    /\ TmpShape(tmp)
    /\ NoneIndented(file) => /\ section = SectionAt(file, Len(file) + 1)
                             /\ Stored(tmp, file)
    /\ result # <<>> => /\ result[1].serial_port_name = tmp.serial_port_name.id
                        /\ result[1].remote_ip = tmp.remoteIP.id
                        /\ result[1].local_ip = tmp.localIP.id
                        /\ result[1].baud_rate = tmp.baud_rate
                        /\ result[1].throttle_baud_rate = tmp.throttle_baud_rate

\* What the handler makes of t: the one setting the section and the name call
\* for has the value, and nothing else is touched.
HandlerMade(t, u, sec, name, value) ==
    /\ u.baud_rate = IF sec = "serial port" /\ name = "baudrate"
                     THEN value.number ELSE t.baud_rate
    /\ u.throttle_baud_rate = IF sec = "serial port" /\ name = "throttle"
                              THEN value.number ELSE t.throttle_baud_rate
    /\ u.serial_port_name = IF sec = "serial port" /\ name = "name"
                            THEN value ELSE t.serial_port_name
    /\ u.localIP = IF sec = "network" /\ name = "local_ip" THEN value ELSE t.localIP
    /\ u.remoteIP = IF sec = "network" /\ name = "remote_ip" THEN value ELSE t.remoteIP
    /\ u.udp_port = IF sec = "udp ports" /\ name \in PortNames
                    THEN IF Len(t.udp_port) < MaxPorts
                         THEN Append(t.udp_port, value.number) ELSE t.udp_port
                    ELSE t.udp_port

\* The handler, case by case.
LEMMA HandlerSets ==
    ASSUME NEW t, TmpShape(t), NEW sec, NEW name, NEW value, value.number \in Int,
           NEW u, u = handler(t, sec, name, value).tmp
    PROVE  TmpShape(u) /\ HandlerMade(t, u, sec, name, value)
<1> USE DEF HandlerMade
<1>1. /\ t = [baud_rate |-> t.baud_rate, throttle_baud_rate |-> t.throttle_baud_rate,
              serial_port_name |-> t.serial_port_name, udp_port |-> t.udp_port,
              localIP |-> t.localIP, remoteIP |-> t.remoteIP]
      /\ t.udp_port \in Seq(Int) /\ Len(t.udp_port) <= MaxPorts /\ MaxPorts \in Nat
  BY FileAssumption DEF TmpShape
<1>2. CASE sec = "serial port" /\ name = "baudrate"
  <2>1. u = [t EXCEPT !.baud_rate = value.number]
    BY <1>2, Zenon DEF handler, atoi
  <2> QED
    BY <1>1, <1>2, <2>1, Zenon DEF TmpShape
<1>3. CASE sec = "serial port" /\ name = "throttle"
  <2>1. u = [t EXCEPT !.throttle_baud_rate = value.number]
    BY <1>3, Zenon DEF handler, atoi
  <2> QED
    BY <1>1, <1>3, <2>1, Zenon DEF TmpShape
<1>4. CASE sec = "serial port" /\ name = "name"
  <2>1. u = [t EXCEPT !.serial_port_name = value]
    BY <1>4, Zenon DEF handler, atoi
  <2> QED
    BY <1>1, <1>4, <2>1, Zenon DEF TmpShape
<1>5. CASE sec = "network" /\ name = "local_ip"
  <2>1. u = [t EXCEPT !.localIP = value]
    BY <1>5 DEF handler, atoi
  <2> QED
    BY <1>1, <1>5, <2>1 DEF TmpShape
<1>6. CASE sec = "network" /\ name = "remote_ip"
  <2>1. u = [t EXCEPT !.remoteIP = value]
    BY <1>6, SMTT(60) DEF handler, atoi
  <2> QED
    BY <1>1, <1>6, <2>1 DEF TmpShape
<1>7. CASE sec = "udp ports" /\ name \in PortNames
  <2>1. u = IF Len(t.udp_port) < MaxPorts
            THEN [t EXCEPT !.udp_port = Append(@, value.number)] ELSE t
    BY <1>7, Zenon DEF handler, atoi, room_for_port
  <2>2. CASE Len(t.udp_port) < MaxPorts
    <3>1. PICK q : q = Append(t.udp_port, value.number)
      BY Zenon
    <3>2. q \in Seq(Int) /\ Len(q) = Len(t.udp_port) + 1 /\ Len(t.udp_port) \in Nat
      BY <1>1, <3>1
    <3>3. Len(q) <= MaxPorts
      BY <1>1, <2>2, <3>2
    <3>4. u = [t EXCEPT !.udp_port = q]
      BY <2>1, <2>2, <3>1
    <3>5. u = [baud_rate |-> t.baud_rate, throttle_baud_rate |-> t.throttle_baud_rate,
               serial_port_name |-> t.serial_port_name, udp_port |-> q,
               localIP |-> t.localIP, remoteIP |-> t.remoteIP]
      BY <1>1, <3>4, SMTT(60)
    <3>6. /\ u.baud_rate = t.baud_rate /\ u.throttle_baud_rate = t.throttle_baud_rate
          /\ u.serial_port_name = t.serial_port_name /\ u.udp_port = q
          /\ u.localIP = t.localIP /\ u.remoteIP = t.remoteIP
      BY <3>5
    <3>7. TmpShape(u)
      BY <3>2, <3>3, <3>5, <3>6, Zenon DEF TmpShape
    <3>8. sec # "serial port" /\ sec # "network"
      BY <1>7, Zenon
    <3> QED
      BY <1>7, <2>2, <3>1, <3>6, <3>7, <3>8, Zenon
  <2>3. CASE ~(Len(t.udp_port) < MaxPorts)
    BY <1>1, <1>7, <2>1, <2>3, ZenonT(60) DEF TmpShape
  <2> QED
    BY <2>2, <2>3, Zenon
<1>8. CASE /\ ~(sec = "serial port" /\ name = "baudrate")
           /\ ~(sec = "serial port" /\ name = "throttle")
           /\ ~(sec = "serial port" /\ name = "name")
           /\ ~(sec = "network" /\ name = "local_ip")
           /\ ~(sec = "network" /\ name = "remote_ip")
           /\ ~(sec = "udp ports" /\ name \in PortNames)
  <2>1. u = t
    BY <1>8, ZenonT(60) DEF handler
  <2> QED
    BY <1>8, <2>1, Zenon
<1> QED
  BY <1>2, <1>3, <1>4, <1>5, <1>6, <1>7, <1>8, ZenonT(60)

\* A line that gives no setting leaves what the file says as it was.
LEMMA StoredStays ==
    ASSUME NEW f, NEW g, NEW ln, Longer(f, g, ln), ln.kind # "pair",
           NEW t, Stored(t, f)
    PROVE  Stored(t, g)
<1>1. \A sec, name : LastValue(g, sec, name) = LastValue(f, sec, name)
  BY LastGrows
<1>2. PICK S : S = LinesFor(f, "udp ports", PortNames)
  BY Zenon
<1>3. S \subseteq 1 .. Len(f) /\ LinesFor(g, "udp ports", PortNames) = S
  <2>1. PICK sec, names : sec = "udp ports" /\ names = PortNames
    BY Zenon
  <2>2. /\ LinesFor(f, sec, names) \subseteq 1 .. Len(f)
        /\ LinesFor(g, sec, names) = LinesFor(f, sec, names)
    BY LinesGrow
  <2> QED
    BY <1>2, <2>1, <2>2, Zenon
<1>4. PortsOf(g, S, t.udp_port)
  BY <1>2, <1>3, PortsStay, ZenonT(60) DEF Stored
<1> QED
  BY <1>1, <1>3, <1>4, ZenonT(60) DEF Stored

\* A line that gives a setting, and the handler called with it.
LEMMA StoredGrows ==
    ASSUME NEW f, NEW g, NEW ln, Longer(f, g, ln), ln.kind = "pair",
           ln.value.number \in Int, NEW t, TmpShape(t), Stored(t, f),
           NEW u, u = handler(t, SectionAt(f, Len(f) + 1), ln.name, ln.value).tmp
    PROVE  Stored(u, g)
<1>1. PICK sec : sec = SectionAt(f, Len(f) + 1)
  OBVIOUS
<1>2. PICK x : x = ln.value.number
  BY SMTT(60)
<1>3. \A s, n : LastValue(g, s, n) = IF ln.name = n /\ sec = s
                                     THEN ln.value ELSE LastValue(f, s, n)
  BY <1>1, LastGrows, SMTT(60)
<1>4. /\ u.baud_rate = IF sec = "serial port" /\ ln.name = "baudrate"
                       THEN ln.value.number ELSE t.baud_rate
      /\ u.throttle_baud_rate = IF sec = "serial port" /\ ln.name = "throttle"
                                THEN ln.value.number ELSE t.throttle_baud_rate
      /\ u.serial_port_name = IF sec = "serial port" /\ ln.name = "name"
                              THEN ln.value ELSE t.serial_port_name
      /\ u.localIP = IF sec = "network" /\ ln.name = "local_ip"
                     THEN ln.value ELSE t.localIP
      /\ u.remoteIP = IF sec = "network" /\ ln.name = "remote_ip"
                      THEN ln.value ELSE t.remoteIP
      /\ u.udp_port = IF sec = "udp ports" /\ ln.name \in PortNames
                      THEN IF Len(t.udp_port) < MaxPorts
                           THEN Append(t.udp_port, ln.value.number) ELSE t.udp_port
                      ELSE t.udp_port
  <2>1. HandlerMade(t, u, sec, ln.name, ln.value)
    BY <1>1, HandlerSets, ZenonT(60)
  <2> QED
    BY <2>1, Zenon DEF HandlerMade
<1>5. PICK S : S = LinesFor(f, "udp ports", PortNames)
  BY Zenon
<1>6. /\ S \subseteq 1 .. Len(f)
      /\ LinesFor(g, "udp ports", PortNames)
           = IF ln.name \in PortNames /\ sec = "udp ports" THEN S \cup {Len(f) + 1} ELSE S
  <2>1. PICK ports, names : ports = "udp ports" /\ names = PortNames
    BY ZenonT(60)
  <2>2. /\ LinesFor(f, ports, names) \subseteq 1 .. Len(f)
        /\ LinesFor(g, ports, names)
             = IF ln.name \in names /\ sec = ports
               THEN LinesFor(f, ports, names) \cup {Len(f) + 1} ELSE LinesFor(f, ports, names)
    BY <1>1, LinesGrow, SMTT(60)
  <2> QED
    BY <1>5, <2>1, <2>2, Zenon
<1>7. t.udp_port \in Seq(Int) /\ PortsOf(f, S, t.udp_port)
  BY <1>5, ZenonT(60) DEF Stored, TmpShape
<1>8. PortsOf(g, LinesFor(g, "udp ports", PortNames), u.udp_port)
  <2>1. CASE ln.name \in PortNames /\ sec = "udp ports"
    <3>1. PICK q : q = t.udp_port
      BY SMTT(60)
    <3>2. PortsOf(g, S \cup {Len(f) + 1}, IF Len(q) < MaxPorts THEN Append(q, x) ELSE q)
      BY <1>2, <1>6, <1>7, <3>1, PortsGrow, ZenonT(60)
    <3>3. u.udp_port = IF Len(q) < MaxPorts THEN Append(q, x) ELSE q
      BY <1>2, <1>4, <2>1, <3>1, ZenonT(60)
    <3> QED
      BY <1>6, <2>1, <3>2, <3>3, ZenonT(60)
  <2>2. CASE ~(ln.name \in PortNames /\ sec = "udp ports")
    <3>1. PortsOf(g, S, t.udp_port)
      BY <1>6, <1>7, PortsStay, ZenonT(60)
    <3> QED
      BY <1>4, <1>6, <2>2, <3>1, ZenonT(60)
  <2> QED
    BY <2>1, <2>2, ZenonT(60)
<1>9. /\ t.baud_rate = LastValue(f, "serial port", "baudrate").number
      /\ t.throttle_baud_rate = LastValue(f, "serial port", "throttle").number
      /\ t.serial_port_name = LastValue(f, "serial port", "name")
      /\ t.localIP = LastValue(f, "network", "local_ip")
      /\ t.remoteIP = LastValue(f, "network", "remote_ip")
  BY ZenonT(60) DEF Stored
<1>10. u.baud_rate = LastValue(g, "serial port", "baudrate").number
  BY <1>3, <1>4, <1>9, ZenonT(60)
<1>11. u.throttle_baud_rate = LastValue(g, "serial port", "throttle").number
  BY <1>3, <1>4, <1>9, ZenonT(60)
<1>12. u.serial_port_name = LastValue(g, "serial port", "name")
  BY <1>3, <1>4, <1>9, ZenonT(60)
<1>13. u.localIP = LastValue(g, "network", "local_ip")
  BY <1>3, <1>4, <1>9, ZenonT(60)
<1>14. u.remoteIP = LastValue(g, "network", "remote_ip")
  BY <1>3, <1>4, <1>9, ZenonT(60)
<1> QED
  BY <1>8, <1>10, <1>11, <1>12, <1>13, <1>14, ZenonT(60) DEF Stored

\* No indented line in a file, and none in the file before its last line.
LEMMA IndentGrows ==
    ASSUME NEW f, NEW g, NEW ln, Longer(f, g, ln), NoneIndented(g)
    PROVE  NoneIndented(f) /\ (ln.kind = "comment" \/ ~ln.indent)
<1>1. /\ Len(f) \in Nat /\ DOMAIN f = 1 .. Len(f) /\ DOMAIN g = 1 .. Len(f) + 1
      /\ (\A i \in 1 .. Len(f) : g[i] = f[i]) /\ g[Len(f) + 1] = ln
  BY DEF Longer
<1>2. \A i \in 1 .. Len(f) + 1 : g[i].kind = "comment" \/ ~g[i].indent
  BY <1>1 DEF NoneIndented
<1>3. Len(f) + 1 \in 1 .. Len(f) + 1 /\ \A i \in 1 .. Len(f) : i \in 1 .. Len(f) + 1
  BY <1>1
<1>4. ln.kind = "comment" \/ ~ln.indent
  BY <1>1, <1>2, <1>3, SMTT(60)
<1>5. \A i \in DOMAIN f : f[i].kind = "comment" \/ ~f[i].indent
  BY <1>1, <1>2, <1>3, SMTT(60)
<1> QED
  BY <1>4, <1>5, SMTT(60) DEF NoneIndented

\* An empty file says nothing.
LEMMA NothingStored ==
    /\ SectionAt(<<>>, 1) = ""
    /\ Stored([baud_rate |-> 0, throttle_baud_rate |-> 0, serial_port_name |-> NoText,
               udp_port |-> <<>>, localIP |-> NoText, remoteIP |-> NoText], <<>>)
<1>1. PICK f : f = <<>>
  OBVIOUS
<1>2. DOMAIN f = {} /\ Len(f) = 0
  BY <1>1
<1>3. \A sec, names : LinesFor(f, sec, names) = {}
  BY <1>2 DEF LinesFor
<1>4. \A sec, name : LastValue(f, sec, name) = NoText
  BY <1>3, Zenon DEF LastValue
<1>5. Cardinality({}) = 0
  BY FS_EmptySet
<1>6. Min({MaxPorts, 0}) = 0
  BY FileAssumption, MinOfTwo, SMTT(60)
<1>7. PortsOf(f, {}, f)
  BY <1>2, <1>5, <1>6, SMTT(60) DEF PortsOf
<1>8. SectionAt(f, 1) = ""
  <2>1. 1 .. 1 - 1 = {}
    OBVIOUS
  <2> QED
    BY <2>1 DEF SectionAt
<1>9. NoText.number = 0
  BY DEF NoText
<1> HIDE DEF NoText
<1>10. PICK t : t = [baud_rate |-> 0, throttle_baud_rate |-> 0, serial_port_name |-> NoText,
                     udp_port |-> f, localIP |-> NoText, remoteIP |-> NoText]
  BY ZenonT(60)
<1>11. /\ t.baud_rate = 0 /\ t.throttle_baud_rate = 0 /\ t.serial_port_name = NoText
       /\ t.udp_port = f /\ t.localIP = NoText /\ t.remoteIP = NoText
  BY <1>10
<1>12. Stored(t, f)
  BY <1>3, <1>4, <1>7, <1>9, <1>11, Zenon DEF Stored
<1> QED
  BY <1>1, <1>8, <1>10, <1>12, Zenon

\* One call of the handler keeps the shape of configuration_tmp.
LEMMA SettingKeepsShape ==
    ASSUME TmpShape(tmp), NEW name, NEW value, value.number \in Int, Setting(name, value)
    PROVE  TmpShape(tmp')
<1>1. PICK t, u, sec : t = tmp /\ u = tmp' /\ sec = section
  OBVIOUS
<1>2. TmpShape(t) /\ u = handler(t, sec, name, value).tmp
  BY <1>1 DEF Setting
<1>3. TmpShape(u)
  BY <1>2, HandlerSets, Zenon
<1> QED
  BY <1>1, <1>3, SMTT(60)

\* The invariant survives every line of the file and the end of it.
LEMMA FileStep ==
    ASSUME FileInv, [FileNext]_fileVars
    PROVE  FileInv'
<1>1. /\ file \in Seq(Lines) /\ TmpShape(tmp)
      /\ NoneIndented(file) => section = SectionAt(file, Len(file) + 1) /\ Stored(tmp, file)
  BY SMTT(60) DEF FileInv
<1>2. ASSUME NEW ln \in Lines, read_line(ln) PROVE FileInv'
  <2>1. PICK f, g, t, u : f = file /\ g = file' /\ t = tmp /\ u = tmp'
    OBVIOUS
  <2>2. result = <<>> /\ result' = <<>> /\ g = Append(f, ln)
    BY <1>2, <2>1, Zenon DEF read_line
  <2>3. f \in Seq(Lines) /\ g \in Seq(Lines)
    BY <1>1, <2>1, <2>2, SMTT(60)
  <2>4. Longer(f, g, ln)
    BY <2>2, <2>3, LongerFile, SMTT(60)
  <2>5. WholeLine.number \in Int
    BY SMTT(60) DEF WholeLine
  <2>6. TmpShape(u)
    <3>1. CASE tmp' = tmp
      BY <1>1, <2>1, <3>1, SMTT(60)
    <3>2. CASE Setting(prev_name, WholeLine)
      BY <1>1, <2>1, <2>5, <3>2, SettingKeepsShape, SMTT(60)
    <3>3. CASE ln.kind = "pair" /\ Setting(ln.name, ln.value)
      <4>1. ln.value.number \in Int
        BY <3>3, FileAssumption, SMTT(60)
      <4> QED
        BY <1>1, <2>1, <3>3, <4>1, SettingKeepsShape, SMTT(60)
    <3> QED
      BY <1>2, <3>1, <3>2, <3>3, ZenonT(60) DEF read_line
  <2>7. ASSUME NoneIndented(g)
        PROVE  section' = SectionAt(g, Len(g) + 1) /\ Stored(u, g)
    <3>1. NoneIndented(f) /\ (ln.kind = "comment" \/ ~ln.indent)
      BY <2>4, <2>7, IndentGrows, SMTT(60)
    <3>2. section = SectionAt(f, Len(f) + 1) /\ Stored(t, f) /\ TmpShape(t)
      BY <1>1, <2>1, <3>1, SMTT(60)
    <3>3. SectionAt(g, Len(g) + 1) = IF ln.kind = "section" /\ ln.closed THEN ln.name
                                     ELSE SectionAt(f, Len(f) + 1)
      BY <2>4, SectionGrows, SMTT(60)
    <3>4. CASE ln.kind # "pair" /\ tmp' = tmp
               /\ section' = IF ln.kind = "section" /\ ln.closed
                             THEN ln.name ELSE section
      <4>1. Stored(t, g)
        BY <2>4, <3>2, <3>4, StoredStays, SMTT(60)
      <4> QED
        BY <2>1, <3>2, <3>3, <3>4, <4>1, SMTT(60)
    <3>5. CASE ln.kind = "pair" /\ Setting(ln.name, ln.value) /\ section' = section
      <4>1. ln.value.number \in Int
        BY <3>5, FileAssumption, SMTT(60)
      <4>2. u = handler(t, SectionAt(f, Len(f) + 1), ln.name, ln.value).tmp
        BY <2>1, <3>2, <3>5, SMTT(60) DEF Setting
      <4>3. Stored(u, g)
        BY <2>4, <3>2, <3>5, <4>1, <4>2, StoredGrows, SMTT(60)
      <4> QED
        BY <3>2, <3>3, <3>5, <4>3, SMTT(60)
    <3>6. \/ ln.kind # "pair" /\ tmp' = tmp
             /\ section' = IF ln.kind = "section" /\ ln.closed
                           THEN ln.name ELSE section
          \/ ln.kind = "pair" /\ Setting(ln.name, ln.value) /\ section' = section
      BY <1>2, <3>1, ZenonT(60) DEF read_line, IsContinuation
    <3> QED
      BY <3>4, <3>5, <3>6, SMTT(60)
  <2> QED
    BY <2>1, <2>2, <2>3, <2>6, <2>7, SMTT(60) DEF FileInv
<1>3. CASE Configuration
  <2>1. UNCHANGED <<file, section, tmp>>
    BY <1>3, SMTT(60) DEF Configuration
  <2>2. PICK r : r = [serial_port_name |-> tmp.serial_port_name.id,
                      local_ip |-> tmp.localIP.id, remote_ip |-> tmp.remoteIP.id,
                      baud_rate |-> tmp.baud_rate,
                      throttle_baud_rate |-> tmp.throttle_baud_rate,
                      port_numbers |-> [i \in DOMAIN tmp.udp_port |->
                                           tmp.udp_port[i] % 2 ^ 16]]
    BY ZenonT(60)
  <2>3. /\ r.serial_port_name = tmp.serial_port_name.id
        /\ r.remote_ip = tmp.remoteIP.id /\ r.local_ip = tmp.localIP.id
        /\ r.baud_rate = tmp.baud_rate /\ r.throttle_baud_rate = tmp.throttle_baud_rate
    BY <2>2, SMTT(60)
  <2>4. result' = <<r>>
    BY <1>3, <2>2 DEF Configuration
  <2>5. result'[1] = r
    BY <2>4, SMTT(60)
  <2> QED
    BY <2>1, <2>3, <2>5, SMTT(60) DEF FileInv
<1>4. CASE UNCHANGED fileVars
  BY <1>4, SMTT(60) DEF FileInv, fileVars
<1> QED
  BY <1>2, <1>3, <1>4, SMTT(60) DEF FileNext

\* The invariant of reading the file.
THEOREM FileInvariance == FileSpec => []FileInv
<1>1. FileInit => FileInv
  <2> SUFFICES ASSUME FileInit PROVE FileInv
    BY SMTT(60)
  <2>1. /\ file = <<>> /\ section = "" /\ result = <<>>
        /\ tmp = [baud_rate |-> 0, throttle_baud_rate |-> 0, serial_port_name |-> NoText,
                  udp_port |-> <<>>, localIP |-> NoText, remoteIP |-> NoText]
    BY Zenon DEF FileInit
  <2>2. file \in Seq(Lines) /\ Len(file) + 1 = 1
    <3>1. file = <<>>
      BY <2>1, Zenon
    <3> QED
      BY <3>1
  <2>3. section = SectionAt(file, 1) /\ Stored(tmp, file)
    BY <2>1, NothingStored, Zenon
  <2>4. TmpShape(tmp)
    <3>1. PICK none, q : none = NoText /\ q = <<>>
      OBVIOUS
    <3>2. q \in Seq(Int) /\ Len(q) <= MaxPorts
      BY <3>1, FileAssumption
    <3>3. tmp = [baud_rate |-> 0, throttle_baud_rate |-> 0, serial_port_name |-> none,
                 udp_port |-> q, localIP |-> none, remoteIP |-> none]
      BY <2>1, <3>1, Zenon
    <3>4. /\ tmp.baud_rate = 0 /\ tmp.throttle_baud_rate = 0 /\ tmp.serial_port_name = none
          /\ tmp.udp_port = q /\ tmp.localIP = none /\ tmp.remoteIP = none
      BY <3>3, SMTT(60)
    <3> QED
      BY <3>2, <3>3, <3>4, Zenon DEF TmpShape
  <2> QED
    BY <2>1, <2>2, <2>3, <2>4, Zenon DEF FileInv
<1>2. FileInv /\ [FileNext]_fileVars => FileInv'
  BY FileStep
<1> QED
  BY <1>1, <1>2, PTL DEF FileSpec

\* Whatever the file is: without indented lines, every setting of the finished
\* Configuration is the one of the last line that gives it.
THEOREM LastLinesWin == FileSpec => []LastLineWins
<1>1. FileInv => LastLineWins
  BY ZenonT(60) DEF FileInv, Stored, LastLineWins
<1> QED
  BY <1>1, FileInvariance, PTL

\* Whatever the file is: the array of ports is never written past its end, and
\* without indented lines it holds the first MaxPorts ports, in their order.
THEOREM PortsAreFirst == FileSpec => []FirstPortsKept
<1>1. FileInv => FirstPortsKept
  <2> SUFFICES ASSUME FileInv PROVE FirstPortsKept
    OBVIOUS
  <2>1. Len(tmp.udp_port) <= MaxPorts
    BY SMTT(60) DEF FileInv, TmpShape
  <2>2. NoneIndented(file) => PortsOf(file, LinesFor(file, "udp ports", PortNames), tmp.udp_port)
    BY Zenon DEF FileInv, Stored
  <2> QED
    BY <2>1, <2>2, Zenon DEF PortsOf, FirstPortsKept
<1> QED
  BY <1>1, FileInvariance, PTL

=============================================================================
