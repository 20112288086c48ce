-------------------------- MODULE SerialForwardProofs --------------------------
(***************************************************************************)
(* SlipStream: what slip_decode takes out of a stream of frames is what    *)
(* slip_encode put in.  SerialForward: the words of a client reach the     *)
(* server in order and without a gap.                                      *)
(***************************************************************************)
EXTENDS SerialForward, SlipStream, SequenceFacts

\* The first of two sequences comes first.
LEMMA PrefixOfConcat ==
    ASSUME NEW S, NEW s \in Seq(S), NEW t \in Seq(S)
    PROVE  \E n \in 0 .. Len(s \o t) : s = SubSeq(s \o t, 1, n)
<1> DEFINE p == SubSeq(s \o t, 1, Len(s))
<1>1. /\ Len(s) \in Nat /\ Len(t) \in Nat /\ Len(s \o t) = Len(s) + Len(t)
      /\ p \in Seq(S) /\ Len(p) = Len(s) /\ \A i \in 1 .. Len(s) : p[i] = s[i]
  OBVIOUS
<1>2. p = s
  <2> HIDE DEF p
  <2> QED
    BY <1>1, SeqEqual
<1>3. Len(s) \in 0 .. Len(s \o t)
  BY <1>1
<1> QED
  BY <1>2, <1>3, Zenon

-----------------------------------------------------------------------------
(* slip_encode and slip_decode, byte by byte.                              *)

\* Whether slip_decode takes a byte for the second of a pair depends on the byte before
\* it, and on whether that one was the second of a pair.
LEMMA EscapeUnfolds ==
    ASSUME NEW q \in Seq(Nat)
    PROVE  /\ ~is_escaped(q, 1)
           /\ \A i \in 1 .. Len(q) :
                 is_escaped(q, i + 1) <=> q[i] = SLIP_ESC /\ ~is_escaped(q, i)
<1> DEFINE N == Len(q)
           Step(n, b) == q[n] = SLIP_ESC /\ ~b
           G == [n \in 1 .. N |-> [b \in BOOLEAN |-> Step(n, b)]]
           Unfolds(f) ==
              f = [n \in 0 .. N |-> IF n = 0 THEN FALSE ELSE Step(n, f[n - 1])]
           open == CHOOSE h : Unfolds(h)
<1>0. N \in Nat /\ FALSE \in BOOLEAN
  OBVIOUS
<1>1. ASSUME NEW n \in 1 .. N, NEW b \in BOOLEAN PROVE Step(n, b) \in BOOLEAN
  OBVIOUS
<1>2. \A i : is_escaped(q, i) = open[i - 1]
  BY DEF is_escaped
<1> HIDE DEF N, Step
<1>3. G \in [1 .. N -> [BOOLEAN -> BOOLEAN]]
  BY <1>1
<1>4. PICK f : Loop(f, N, BOOLEAN, FALSE, G)
  <2> HIDE DEF G
  <2> QED
    BY <1>0, <1>3, LoopExists, Zenon
<1>5. Unfolds(f)
  <2>1. f \in [0 .. N -> BOOLEAN] /\ f[0] = FALSE
    BY <1>4 DEF Loop
  <2>2. ASSUME NEW n \in 0 .. N, n # 0 PROVE f[n] = Step(n, f[n - 1])
    <3>1. n \in 1 .. N /\ n - 1 \in 0 .. N
      BY <1>0, <2>2
    <3>2. f[n] = G[n][f[n - 1]] /\ f[n - 1] \in BOOLEAN
      BY <1>4, <2>1, <3>1 DEF Loop
    <3> QED
      BY <3>1, <3>2
  <2> QED
    BY <2>1, <2>2, Zenon
<1>6. Unfolds(open)
  BY <1>5, Zenon
<1> HIDE DEF G, open
<1>7. /\ open[0] = FALSE
      /\ \A n \in 1 .. N : open[n] = Step(n, open[n - 1])
  <2>1. 0 \in 0 .. N /\ \A n \in 1 .. N : n \in 0 .. N /\ n # 0
    BY <1>0
  <2> QED
    BY <1>6, <2>1, Zenon
<1>8. ~is_escaped(q, 1)
  <2>1. 1 - 1 = 0
    OBVIOUS
  <2> QED
    BY <1>2, <1>7, <2>1
<1>9. ASSUME NEW i \in 1 .. N
      PROVE  is_escaped(q, i + 1) <=> q[i] = SLIP_ESC /\ ~is_escaped(q, i)
  <2>1. (i + 1) - 1 = i
    BY <1>0
  <2>2. open[i] = (q[i] = SLIP_ESC /\ ~open[i - 1])
    BY <1>7 DEF Step
  <2>3. is_escaped(q, i + 1) = open[(i + 1) - 1] /\ is_escaped(q, i) = open[i - 1]
    BY <1>2
  <2> QED
    BY <2>1, <2>2, <2>3, Zenon
<1> QED
  BY <1>8, <1>9 DEF N

\* What slip_decode takes for the second byte of a pair depends on the bytes before
\* it only.
LEMMA EscapedAgree ==
    ASSUME NEW p \in Octets, NEW q \in Octets, NEW k \in Nat, Agree(p, q, k)
    PROVE  \A i \in 0 .. k : is_escaped(p, i + 1) <=> is_escaped(q, i + 1)
<1> DEFINE T == {i \in 0 .. k : is_escaped(p, i + 1) <=> is_escaped(q, i + 1)}
<1>1. 0 \in T
  <2>1. 0 + 1 = 1 /\ 0 \in 0 .. k
    OBVIOUS
  <2> QED
    BY <2>1, EscapeUnfolds DEF Octets
<1>2. ASSUME NEW n \in 1 .. k, n - 1 \in T PROVE n \in T
  <2>1. /\ (n - 1) + 1 = n /\ n \in 1 .. Len(p) /\ n \in 1 .. Len(q) /\ n \in 0 .. k
        /\ p[n] = q[n]
    BY SMTT(60) DEF Agree, Octets
  <2>2. is_escaped(p, n) <=> is_escaped(q, n)
    BY <1>2, <2>1
  <2>3. /\ is_escaped(p, n + 1) <=> p[n] = SLIP_ESC /\ ~is_escaped(p, n)
        /\ is_escaped(q, n + 1) <=> q[n] = SLIP_ESC /\ ~is_escaped(q, n)
    BY <2>1, EscapeUnfolds DEF Octets
  <2> QED
    BY <2>1, <2>2, <2>3
<1>3. \A i \in 0 .. k : i \in T
  <2> HIDE DEF T
  <2> QED
    BY <1>1, <1>2, BoundedInduction
<1> QED
  BY <1>3

\* So does what a byte adds to DEST.
LEMMA UnpackedAgree ==
    ASSUME NEW p \in Octets, NEW q \in Octets, NEW k \in Nat, Agree(p, q, k),
           NEW i \in 1 .. k
    PROVE  unpacked(p, i) = unpacked(q, i)
<1>1. i - 1 \in 0 .. k /\ (i - 1) + 1 = i /\ p[i] = q[i]
  BY DEF Agree
<1>2. is_escaped(p, i) <=> is_escaped(q, i)
  BY <1>1, EscapedAgree
<1> QED
  BY <1>1, <1>2 DEF unpacked

\* A byte of the source adds bytes to DEST.
LEMMA UnpackedTyped ==
    ASSUME NEW q \in Octets, NEW i \in 1 .. Len(q)
    PROVE  unpacked(q, i) \in Octets
<1>1. q[i] \in Nat /\ SLIP_END \in Nat /\ SLIP_ESC \in Nat
  BY DEF Octets, SLIP_END, SLIP_ESC
<1>2. unpacked(q, i) \in {<<SLIP_END>>, <<SLIP_ESC>>, <<>>, <<q[i]>>}
  BY DEF unpacked
<1>3. /\ <<SLIP_END>> \in Octets /\ <<SLIP_ESC>> \in Octets
      /\ <<>> \in Octets /\ <<q[i]>> \in Octets
  BY <1>1 DEF Octets
<1> QED
  BY <1>2, <1>3

\* One more byte of the source appends what it stands for to DEST.
LEMMA DecodedNext ==
    ASSUME NEW q \in Octets
    PROVE  /\ decoded(q, 1) = <<>>
           /\ \A i \in 1 .. Len(q) : decoded(q, i + 1) = decoded(q, i) \o unpacked(q, i)
<1>1. decoded(q, 1) = <<>>
  <2>1. [i \in 1 .. 1 - 1 |-> unpacked(q, i)] = <<>>
    OBVIOUS
  <2> QED
    BY <2>1, FlattenEmpty DEF decoded
<1>2. ASSUME NEW n \in 1 .. Len(q)
      PROVE  decoded(q, n + 1) = decoded(q, n) \o unpacked(q, n)
  <2> DEFINE s == [i \in 1 .. n - 1 |-> unpacked(q, i)]
             t == [i \in 1 .. (n + 1) - 1 |-> unpacked(q, i)]
             e == unpacked(q, n)
  <2>1. n \in Nat /\ n - 1 \in Nat /\ (n + 1) - 1 = n /\ \A i \in 1 .. n : i \in 1 .. Len(q)
    BY DEF Octets
  <2>2. \A i \in 1 .. n : unpacked(q, i) \in Octets
    BY <2>1, UnpackedTyped
  <2>3. s \in Seq(Octets) /\ Len(s) = n - 1 /\ \A i \in 1 .. n - 1 : s[i] = unpacked(q, i)
    BY <2>1, <2>2
  <2>4. t \in Seq(Octets) /\ Len(t) = n /\ \A i \in 1 .. n : t[i] = unpacked(q, i)
    BY <2>1, <2>2
  <2>5. e \in Octets /\ e = unpacked(q, n)
    BY <2>1, <2>2
  <2>6. decoded(q, n + 1) = Flatten(t) /\ decoded(q, n) = Flatten(s)
    BY DEF decoded
  <2> HIDE DEF s, t, e
  <2>7. t = Append(s, e)
    BY <2>1, <2>3, <2>4, <2>5
  <2> QED
    BY <2>3, <2>5, <2>6, <2>7, FlattenAppend, Zenon
<1> QED
  BY <1>1, <1>2

\* What slip_decode has written depends on the bytes it has seen only.
LEMMA DecodedAgree ==
    ASSUME NEW p \in Octets, NEW q \in Octets, NEW k \in Nat, Agree(p, q, k),
           NEW n \in 1 .. k + 1
    PROVE  decoded(p, n) = decoded(q, n)
<1>1. \A i \in 1 .. n - 1 : unpacked(p, i) = unpacked(q, i)
  BY UnpackedAgree
<1>2. [i \in 1 .. n - 1 |-> unpacked(p, i)] = [i \in 1 .. n - 1 |-> unpacked(q, i)]
  BY <1>1
<1> QED
  BY <1>2 DEF decoded

-----------------------------------------------------------------------------
(* A packet between two ENDs.                                              *)

\* What slip_encode makes of the bytes of m.
Body(m) == Flatten([i \in DOMAIN m |-> escaped(m[i])])

\* What slip_encode writes for each byte.
LEMMA EscapedByte ==
    ASSUME NEW x \in Nat
    PROVE  /\ escaped(x) \in Octets
           /\ x = SLIP_END => escaped(x) = <<SLIP_ESC, SLIP_ESC_END>>
           /\ x = SLIP_ESC => escaped(x) = <<SLIP_ESC, SLIP_ESC_ESC>>
           /\ x # SLIP_END /\ x # SLIP_ESC => escaped(x) = <<x>>
<1>1. SLIP_END # SLIP_ESC
  BY DEF SLIP_END, SLIP_ESC
<1>2. /\ x = SLIP_END => escaped(x) = <<SLIP_ESC, SLIP_ESC_END>>
      /\ x = SLIP_ESC => escaped(x) = <<SLIP_ESC, SLIP_ESC_ESC>>
      /\ x # SLIP_END /\ x # SLIP_ESC => escaped(x) = <<x>>
  BY <1>1 DEF escaped
<1>3. /\ <<SLIP_ESC, SLIP_ESC_END>> \in Octets /\ <<SLIP_ESC, SLIP_ESC_ESC>> \in Octets
      /\ <<x>> \in Octets
  BY DEF Octets, SLIP_ESC, SLIP_ESC_END, SLIP_ESC_ESC
<1> QED
  BY <1>2, <1>3

\* slip_encode appends what each byte becomes to what it has written.
LEMMA BodyNext ==
    /\ Body(<<>>) = <<>>
    /\ \A m \in Octets : Body(m) \in Octets
    /\ \A m \in Octets, x \in Nat : Body(Append(m, x)) = Body(m) \o escaped(x)
<1>1. Body(<<>>) = <<>>
  <2>1. [i \in DOMAIN <<>> |-> escaped(<<>>[i])] = <<>>
    OBVIOUS
  <2> QED
    BY <2>1, FlattenEmpty DEF Body
<1>2. ASSUME NEW m \in Octets
      PROVE  /\ [i \in DOMAIN m |-> escaped(m[i])] \in Seq(Octets)
             /\ Len([i \in DOMAIN m |-> escaped(m[i])]) = Len(m)
             /\ \A i \in 1 .. Len(m) :
                   [j \in DOMAIN m |-> escaped(m[j])][i] = escaped(m[i])
  <2>1. DOMAIN m = 1 .. Len(m) /\ Len(m) \in Nat /\ \A i \in 1 .. Len(m) : m[i] \in Nat
    BY DEF Octets
  <2>2. \A i \in 1 .. Len(m) : escaped(m[i]) \in Octets
    BY <2>1, EscapedByte
  <2> QED
    BY <2>1, <2>2
<1>3. ASSUME NEW m \in Octets PROVE Body(m) \in Octets
  BY <1>2, FlattenTyped DEF Body
<1>4. ASSUME NEW m \in Octets, NEW x \in Nat
      PROVE  Body(Append(m, x)) = Body(m) \o escaped(x)
  <2> DEFINE w == Append(m, x)
             s == [i \in DOMAIN m |-> escaped(m[i])]
             t == [i \in DOMAIN w |-> escaped(w[i])]
             e == escaped(x)
  <2>1. /\ w \in Octets /\ Len(w) = Len(m) + 1 /\ w[Len(m) + 1] = x /\ Len(m) \in Nat
        /\ \A i \in 1 .. Len(m) : w[i] = m[i]
    BY DEF Octets
  <2> HIDE DEF w
  <2>2. s \in Seq(Octets) /\ Len(s) = Len(m) /\ \A i \in 1 .. Len(m) : s[i] = escaped(m[i])
    BY <1>2
  <2>3. t \in Seq(Octets) /\ Len(t) = Len(w) /\ \A i \in 1 .. Len(w) : t[i] = escaped(w[i])
    BY <1>2, <2>1, Zenon
  <2>4. e \in Octets /\ e = escaped(x)
    BY EscapedByte
  <2>5. Body(m) = Flatten(s) /\ Body(w) = Flatten(t)
    BY DEF Body
  <2> HIDE DEF s, t, e
  <2>6. t = Append(s, e)
    BY <2>1, <2>2, <2>3, <2>4
  <2>7. Body(w) = Body(m) \o escaped(x)
    BY <2>2, <2>4, <2>5, <2>6, FlattenAppend, Zenon
  <2> QED
    BY <2>7 DEF w
<1> QED
  BY <1>1, <1>3, <1>4, Zenon

\* q decodes to m with nothing left over, and holds no END but an initiator.
Decodes(q, m) ==
    /\ q \in Octets
    /\ ~is_escaped(q, Len(q) + 1)
    /\ decoded(q, Len(q) + 1) = m
    /\ \A i \in 2 .. Len(q) : q[i] # SLIP_END

\* One more byte, as slip_encode writes it.
LEMMA DecodesMore ==
    ASSUME NEW q, NEW m \in Octets, NEW x \in Nat, Decodes(q, m)
    PROVE  Decodes(q \o escaped(x), Append(m, x))
<1> DEFINE N == Len(q)
<1>0. q \in Octets /\ N \in Nat
  BY DEF Decodes, Octets
<1>1. ASSUME NEW y \in Nat
      PROVE  LET w == Append(q, y) IN
             /\ w \in Octets /\ Len(w) = N + 1 /\ w[N + 1] = y
             /\ \A i \in 1 .. N : w[i] = q[i]
             /\ ~is_escaped(w, N + 1)
             /\ is_escaped(w, N + 2) <=> y = SLIP_ESC
             /\ decoded(w, N + 2) = m \o unpacked(w, N + 1)
  <2> DEFINE w == Append(q, y)
  <2>1. /\ w \in Octets /\ Len(w) = N + 1 /\ w[N + 1] = y
        /\ \A i \in 1 .. N : w[i] = q[i]
    BY <1>0 DEF Octets
  <2> HIDE DEF w
  <2>2. Agree(q, w, N) /\ N \in 0 .. N /\ N + 1 \in 1 .. N + 1 /\ (N + 1) + 1 = N + 2
    BY <1>0, <2>1 DEF Agree
  <2>3. is_escaped(w, N + 1) <=> is_escaped(q, N + 1)
    BY <1>0, <2>1, <2>2, EscapedAgree
  <2>4. decoded(w, N + 1) = m
    BY <1>0, <2>1, <2>2, DecodedAgree DEF Decodes
  <2>5. is_escaped(w, N + 2) <=> w[N + 1] = SLIP_ESC /\ ~is_escaped(w, N + 1)
    BY <2>1, <2>2, EscapeUnfolds DEF Octets
  <2>6. decoded(w, N + 2) = decoded(w, N + 1) \o unpacked(w, N + 1)
    BY <2>1, <2>2, DecodedNext, Zenon
  <2>7. ~is_escaped(q, N + 1)
    BY DEF Decodes
  <2>8. /\ ~is_escaped(w, N + 1)
        /\ is_escaped(w, N + 2) <=> y = SLIP_ESC
        /\ decoded(w, N + 2) = m \o unpacked(w, N + 1)
    BY <2>1, <2>3, <2>4, <2>5, <2>6, <2>7
  <2> QED
    BY <2>1, <2>8 DEF w
<1>2. CASE x # SLIP_END /\ x # SLIP_ESC
  <2> DEFINE w == Append(q, x)
  <2>1. /\ w \in Octets /\ Len(w) = N + 1 /\ w[N + 1] = x
        /\ \A i \in 1 .. N : w[i] = q[i]
        /\ ~is_escaped(w, N + 1)
        /\ is_escaped(w, N + 2) <=> x = SLIP_ESC
        /\ decoded(w, N + 2) = m \o unpacked(w, N + 1)
    BY <1>1, Zenon
  <2>2. q \o escaped(x) = w
    BY <1>0, <1>2, EscapedByte, AppendIsConcat, Zenon DEF Octets
  <2> HIDE DEF w
  <2>3. unpacked(w, N + 1) = <<x>>
    BY <1>2, <2>1 DEF unpacked
  <2>4. m \o <<x>> = Append(m, x)
    BY AppendIsConcat DEF Octets
  <2>5. ASSUME NEW i \in 2 .. Len(w) PROVE w[i] # SLIP_END
    <3>1. i = N + 1 \/ (i \in 1 .. N /\ i \in 2 .. N)
      BY <1>0, <2>1
    <3> QED
      BY <1>2, <2>1, <3>1 DEF Decodes
  <2>6. Len(w) + 1 = N + 2
    BY <1>0, <2>1
  <2>7. Decodes(w, Append(m, x))
    BY <1>2, <2>1, <2>3, <2>4, <2>5, <2>6, Zenon DEF Decodes
  <2> QED
    BY <2>2, <2>7
<1>3. ASSUME NEW y \in Nat, escaped(x) = <<SLIP_ESC, y>>,
             y \in {SLIP_ESC_END, SLIP_ESC_ESC},
             x = IF y = SLIP_ESC_END THEN SLIP_END ELSE SLIP_ESC
      PROVE  Decodes(q \o escaped(x), Append(m, x))
  <2> DEFINE v == Append(q, SLIP_ESC)
             w == Append(v, y)
  <2>0. SLIP_ESC \in Nat /\ y # SLIP_ESC /\ y # SLIP_END /\ SLIP_ESC # SLIP_END
    BY <1>3 DEF SLIP_ESC, SLIP_ESC_END, SLIP_ESC_ESC, SLIP_END
  <2>1. /\ v \in Octets /\ Len(v) = N + 1 /\ v[N + 1] = SLIP_ESC
        /\ \A i \in 1 .. N : v[i] = q[i]
        /\ ~is_escaped(v, N + 1)
        /\ is_escaped(v, N + 2)
        /\ decoded(v, N + 2) = m \o unpacked(v, N + 1)
    BY <1>1, <2>0, Zenon
  <2>2. q \o escaped(x) = w
    BY <1>0, <1>3, <2>0 DEF Octets
  <2> HIDE DEF v
  <2>3. unpacked(v, N + 1) = <<>>
    BY <2>0, <2>1 DEF unpacked
  <2>4. decoded(v, N + 2) = m
    BY <2>1, <2>3, SMTT(60) DEF Octets
  <2>5. /\ w \in Octets /\ Len(w) = N + 2 /\ w[N + 2] = y
        /\ \A i \in 1 .. N + 1 : w[i] = v[i]
    BY <1>0, <2>1 DEF Octets
  <2> HIDE DEF w
  <2>6. /\ Agree(v, w, N + 1) /\ N + 1 \in 0 .. N + 1 /\ (N + 1) + 1 = N + 2
        /\ N + 2 \in 1 .. (N + 1) + 1 /\ N + 2 \in 1 .. Len(w) /\ N + 1 \in Nat
        /\ Len(w) + 1 = (N + 2) + 1
    BY <1>0, <2>1, <2>5 DEF Agree
  <2>7. is_escaped(w, N + 2)
    BY <2>1, <2>5, <2>6, EscapedAgree, SMTT(60)
  <2>8. decoded(w, N + 2) = m
    BY <2>1, <2>4, <2>5, <2>6, DecodedAgree
  <2>9. ~is_escaped(w, (N + 2) + 1)
    BY <2>0, <2>5, <2>6, EscapeUnfolds, Zenon DEF Octets
  <2>10. decoded(w, (N + 2) + 1) = m \o unpacked(w, N + 2)
    BY <2>5, <2>6, <2>8, DecodedNext, Zenon
  <2>11. unpacked(w, N + 2) = <<x>>
    BY <1>3, <2>5, <2>7 DEF unpacked, SLIP_ESC_END, SLIP_ESC_ESC
  <2>12. m \o <<x>> = Append(m, x)
    BY AppendIsConcat DEF Octets
  <2>13. ASSUME NEW i \in 2 .. Len(w) PROVE w[i] # SLIP_END
    <3>1. i = N + 2 \/ (i \in 1 .. N + 1 /\ (i = N + 1 \/ (i \in 1 .. N /\ i \in 2 .. N)))
      BY <1>0, <2>5
    <3> QED
      BY <2>0, <2>1, <2>5, <3>1, SMTT(60) DEF Decodes
  <2>14. Decodes(w, Append(m, x))
    BY <2>5, <2>6, <2>9, <2>10, <2>11, <2>12, <2>13, Zenon DEF Decodes
  <2> QED
    BY <2>2, <2>14
<1>4. SLIP_ESC_END \in Nat /\ SLIP_ESC_ESC \in Nat /\ SLIP_ESC_END # SLIP_ESC_ESC
  BY DEF SLIP_ESC_END, SLIP_ESC_ESC
<1> QED
  BY <1>2, <1>3, <1>4, EscapedByte

\* The bytes of a packet decode to the packet, whether END goes before them or
\* not.
LEMMA BodyDecodes ==
    ASSUME NEW lead \in {<<>>, <<SLIP_END>>}, NEW m \in Octets
    PROVE  Decodes(lead \o Body(m), m)
<1> DEFINE T == {w \in Octets : Decodes(lead \o Body(w), w)}
<1>0. SLIP_END \in Nat /\ SLIP_END # SLIP_ESC
  BY DEF SLIP_END, SLIP_ESC
<1>1. lead \in Octets /\ Len(lead) \in 0 .. 1 /\ <<>> \in Octets
  <2>1. /\ <<>> \in Octets /\ Len(<<>>) \in 0 .. 1
        /\ <<SLIP_END>> \in Octets /\ Len(<<SLIP_END>>) \in 0 .. 1
    BY <1>0 DEF Octets
  <2> QED
    BY <2>1
<1>2. <<>> \in T
  <2>1. lead \o Body(<<>>) = lead
    BY <1>1, BodyNext, ConcatEmptySeq, Zenon DEF Octets
  <2>2. \A i \in 2 .. Len(lead) : lead[i] # SLIP_END
    BY <1>1
  <2>3. ~is_escaped(lead, Len(lead) + 1) /\ decoded(lead, Len(lead) + 1) = <<>>
    <3>1. CASE lead = <<>>
      <4>1. Len(lead) + 1 = 1
        BY <3>1
      <4> QED
        BY <1>1, <4>1, EscapeUnfolds, DecodedNext DEF Octets
    <3>2. CASE lead = <<SLIP_END>>
      <4>1. 1 \in 1 .. Len(lead) /\ Len(lead) + 1 = 1 + 1 /\ lead[1] = SLIP_END
        BY <3>2
      <4>2. ~is_escaped(lead, 1) /\ ~is_escaped(lead, 1 + 1)
        BY <1>0, <1>1, <4>1, EscapeUnfolds DEF Octets
      <4>3. unpacked(lead, 1) = <<>>
        BY <1>0, <4>1, <4>2 DEF unpacked, SLIP_ESC_END, SLIP_ESC_ESC
      <4>4. decoded(lead, 1 + 1) = <<>> \o <<>>
        BY <1>1, <4>1, <4>3, DecodedNext
      <4> QED
        BY <4>1, <4>2, <4>4
    <3> QED
      BY <3>1, <3>2
  <2>4. Decodes(lead, <<>>)
    BY <1>1, <2>2, <2>3 DEF Decodes
  <2> QED
    BY <1>1, <2>1, <2>4, Zenon
<1>3. ASSUME NEW w \in Octets, NEW x \in Nat, w \in T PROVE Append(w, x) \in T
  <2> DEFINE b == Body(w)
             e == escaped(x)
  <2>1. b \in Octets /\ e \in Octets /\ Body(Append(w, x)) = b \o e
    BY BodyNext, EscapedByte, Zenon
  <2>2. Decodes(lead \o b, w)
    BY <1>3
  <2>3. Decodes((lead \o b) \o e, Append(w, x))
    BY <2>2, DecodesMore
  <2> HIDE DEF b, e
  <2>4. (lead \o b) \o e = lead \o (b \o e)
    BY <1>1, <2>1, NatConcat, ZenonT(60) DEF Octets
  <2>5. Append(w, x) \in Octets
    BY DEF Octets
  <2> QED
    BY <2>1, <2>3, <2>4, <2>5, Zenon
<1>4. Seq(Nat) \subseteq T
  <2> HIDE DEF T
  <2> QED
    BY <1>2, <1>3, SeqInduction DEF Octets
<1> QED
  BY <1>4 DEF Octets

\* slip_decode finds the packet up to its terminator, whatever comes after it,
\* and leaves the terminator.
LEMMA FrameDecoded ==
    ASSUME NEW lead \in {<<>>, <<SLIP_END>>}, NEW m \in Octets, NEW rest \in Octets,
           lead \o Body(m) # <<>>
    PROVE  LET q == lead \o Body(m)
           IN  slip_decode(q \o (<<SLIP_END>> \o rest)) = [msg |-> m, used |-> Len(q)]
<1> DEFINE q == lead \o Body(m)
           N == Len(q)
           w == q \o (<<SLIP_END>> \o rest)
<1>1. Decodes(q, m)
  BY BodyDecodes, Zenon
<1> HIDE DEF q
<1>2. q \in Octets /\ N \in Nat /\ N >= 1
  BY <1>1 DEF Decodes, Octets, q
<1>3. /\ w \in Octets /\ Len(w) = N + 1 + Len(rest) /\ w[N + 1] = SLIP_END
      /\ \A i \in 1 .. N : w[i] = q[i]
  BY <1>2 DEF Octets, SLIP_END
<1> HIDE DEF w
<1>4. /\ Agree(q, w, N) /\ N \in 0 .. N /\ N + 1 \in 1 .. N + 1 /\ Len(rest) \in Nat
      /\ DOMAIN w = 1 .. Len(w) /\ N + 1 \in DOMAIN w
  BY <1>2, <1>3, SMTT(60) DEF Agree, Octets
<1>5. ~is_escaped(w, N + 1) /\ decoded(w, N + 1) = m
  <2>1. ~is_escaped(q, N + 1) /\ decoded(q, N + 1) = m
    BY <1>1 DEF Decodes
  <2>2. is_escaped(q, N + 1) <=> is_escaped(w, N + 1)
    BY <1>2, <1>3, <1>4, EscapedAgree
  <2>3. decoded(q, N + 1) = decoded(w, N + 1)
    BY <1>2, <1>3, <1>4, DecodedAgree
  <2> QED
    BY <2>1, <2>2, <2>3
<1>6. N + 1 \in terminators(w)
  BY <1>2, <1>3, <1>4, <1>5 DEF terminators
<1>7. ASSUME NEW i \in terminators(w) PROVE i \in Nat /\ N + 1 <= i
  <2>1. i \in 1 .. Len(w) /\ i > 1 /\ w[i] = SLIP_END
    BY <1>4 DEF terminators
  <2>2. ASSUME i <= N PROVE FALSE
    <3>1. i \in 1 .. N /\ i \in 2 .. N
      BY <1>2, <2>1, <2>2
    <3>2. q[i] # SLIP_END
      BY <1>1, <3>1 DEF Decodes
    <3> QED
      BY <1>3, <2>1, <3>1, <3>2
  <2> QED
    BY <1>2, <2>1, <2>2
<1>8. Min(terminators(w)) = N + 1
  BY <1>6, <1>7, MinIs
<1>9. slip_decode(w) = [msg |-> m, used |-> (N + 1) - 1]
  BY <1>5, <1>6, <1>8 DEF slip_decode
<1> QED
  BY <1>2, <1>9 DEF q, w

\* Without a terminator there is no message.
LEMMA NoFrame ==
    slip_decode(<<>>).used = 0 /\ slip_decode(<<SLIP_END>>).used = 0
<1>1. terminators(<<>>) = {} /\ terminators(<<SLIP_END>>) = {}
  BY DEF terminators
<1> QED
  BY <1>1 DEF slip_decode

\* What has been read so far may end anywhere: a message found in it is the one
\* found in all there is to come.
LEMMA DecodedEarly ==
    ASSUME NEW p \in Octets, NEW q \in Octets, Agree(p, q, Len(p)),
           slip_decode(p).used > 0
    PROVE  slip_decode(q) = slip_decode(p) /\ slip_decode(p).used \in 1 .. Len(p)
<1> DEFINE N == Len(p)
           n == Min(terminators(p))
<1>0. N \in Nat /\ Len(q) \in Nat /\ N <= Len(q) /\ DOMAIN p = 1 .. N /\ DOMAIN q = 1 .. Len(q)
  BY DEF Octets, Agree
<1>1. terminators(p) # {}
  BY DEF slip_decode
<1>2. \A i \in 1 .. N : i \in terminators(p) <=> i \in terminators(q)
  <2> TAKE i \in 1 .. N
  <2>1. i \in 1 .. Len(q) /\ i - 1 \in 0 .. N /\ (i - 1) + 1 = i /\ p[i] = q[i]
    BY <1>0 DEF Agree
  <2>2. is_escaped(p, i) <=> is_escaped(q, i)
    BY <1>0, <2>1, EscapedAgree, SMTT(60)
  <2> QED
    BY <1>0, <2>1, <2>2 DEF terminators
<1>3. terminators(p) \subseteq 1 .. N /\ terminators(q) \subseteq Nat
  BY <1>0 DEF terminators
<1>4. n \in terminators(p) /\ \A i \in terminators(p) : n <= i
  <2>1. PICK k \in terminators(p) : \A i \in terminators(p) : k <= i
    BY <1>1, <1>3, LeastNumber, SMTT(60)
  <2>2. n = k
    BY <1>3, <2>1, MinIs
  <2> QED
    BY <2>1, <2>2
<1> HIDE DEF n
<1>5. n \in terminators(q) /\ \A i \in terminators(q) : n <= i
  <2>1. n \in 1 .. N /\ n \in terminators(q)
    BY <1>2, <1>3, <1>4
  <2>2. ASSUME NEW i \in terminators(q) PROVE n <= i
    <3>1. i \in Nat /\ i >= 1
      BY <1>0 DEF terminators
    <3>2. CASE i \in 1 .. N
      BY <1>2, <1>4, <3>2
    <3>3. CASE i \notin 1 .. N
      BY <1>0, <2>1, <3>1, <3>3
    <3> QED
      BY <3>2, <3>3
  <2> QED
    BY <2>1, <2>2
<1>6. Min(terminators(q)) = n
  BY <1>3, <1>5, MinIs
<1>7. n \in 1 .. N /\ n > 1 /\ n \in 1 .. N + 1
  BY <1>0, <1>3, <1>4 DEF terminators
<1>8. decoded(p, n) = decoded(q, n)
  BY <1>0, <1>7, DecodedAgree
<1>9. slip_decode(p) = [msg |-> decoded(p, n), used |-> n - 1]
  BY <1>1 DEF slip_decode, n
<1>10. slip_decode(q) = [msg |-> decoded(q, n), used |-> n - 1]
  BY <1>5, <1>6 DEF slip_decode
<1> QED
  BY <1>0, <1>7, <1>8, <1>9, <1>10

-----------------------------------------------------------------------------
(* Frames one after the other.                                             *)

\* What slip_decode may find in front of a frame: nothing, or the terminator of the
\* frame before, which it leaves in the source.
Leads == {<<>>, <<SLIP_END>>}

\* f is packet p as slip_encode frames it.
Frame(f, p) == \E introduce \in BOOLEAN : f = slip_encode(p, introduce)

\* The same with an END in front.
LEMMA AssocEnd ==
    \A b, c \in Octets :
       /\ (<<SLIP_END>> \o b) \o c = <<SLIP_END>> \o (b \o c)
       /\ b \o c \in Octets
BY Assoc DEF Octets, SLIP_END

\* Nothing and END are strings of bytes.
LEMMA LeadsTyped ==
    /\ <<SLIP_END>> \in Octets /\ <<>> \in Octets
    /\ \A lead \in Leads : lead \in Octets
<1>1. <<SLIP_END>> \in Octets /\ <<>> \in Octets
  BY DEF Octets, SLIP_END
<1> QED
  BY <1>1 DEF Leads

\* A non-empty packet has a non-empty body.
LEMMA BodyNonEmpty ==
    ASSUME NEW m \in Octets, m # <<>>
    PROVE  Body(m) # <<>>
<1>1. PICK w \in Octets, x \in Nat : m = Append(w, x)
  BY SequenceEmptyOrAppend DEF Octets
<1>2. Body(w) \in Octets /\ escaped(x) \in Octets /\ Body(m) = Body(w) \o escaped(x)
  BY <1>1, BodyNext, EscapedByte, Zenon
<1>3. Len(escaped(x)) >= 1
  BY EscapedByte, SMTT(60)
<1>4. Len(Body(m)) >= 1
  BY <1>2, <1>3 DEF Octets
<1> QED
  BY <1>4

\* slip_encode writes the body between an END, if asked for, and an END.
LEMMA FrameParts ==
    ASSUME NEW p \in Octets, p # <<>>, NEW f, Frame(f, p)
    PROVE  \E lead \in Leads : f = (lead \o Body(p)) \o <<SLIP_END>>
<1>1. PICK introduce \in BOOLEAN : f = slip_encode(p, introduce)
  BY DEF Frame
<1>2. f = ((IF introduce THEN <<SLIP_END>> ELSE <<>>) \o Body(p)) \o <<SLIP_END>>
  BY <1>1 DEF slip_encode, Body
<1> QED
  BY <1>2, Zenon DEF Leads

\* A frame is a string of bytes.
LEMMA FrameTyped ==
    ASSUME NEW p \in Octets, p # <<>>, NEW f, Frame(f, p)
    PROVE  f \in Octets
<1>1. PICK lead \in Leads : f = (lead \o Body(p)) \o <<SLIP_END>>
  BY FrameParts
<1>2. lead \in Octets /\ Body(p) \in Octets /\ <<SLIP_END>> \in Octets
  BY LeadsTyped, BodyNext
<1> QED
  BY <1>1, <1>2, Assoc

\* slip_decode on a stream of frames, the terminator of the frame before
\* perhaps still in front: it takes the first packet, or nothing but that
\* terminator.
LEMMA DecodeFirst ==
    ASSUME NEW lead \in Leads, NEW fs \in Seq(Octets), NEW ps \in Seq(Octets),
           Len(ps) = Len(fs), \A i \in 1 .. Len(ps) : ps[i] # <<>> /\ Frame(fs[i], ps[i]),
           fs # <<>>
    PROVE  LET q == lead \o Flatten(fs)
               d == slip_decode(q)
           IN  /\ d.used > 0
               /\ \E rest \in Leads :
                     \/ d.msg = <<>> /\ Drop(q, d.used) = rest \o Flatten(fs)
                     \/ d.msg = ps[1] /\ Drop(q, d.used) = rest \o Flatten(Tail(fs))
<1> DEFINE q == lead \o Flatten(fs)
           d == slip_decode(q)
           E == <<SLIP_END>>
<1>1. lead \in Octets /\ Flatten(fs) \in Octets /\ q \in Octets /\ E \in Octets /\ <<>> \in Octets
  BY LeadsTyped, FlattenTyped, Assoc
<1>2. slip_decode(q) = d
  OBVIOUS
<1>3. fs # <<>>
  OBVIOUS
<1> DEFINE p == ps[1]
           R == Flatten(Tail(fs))
<1>4. p \in Octets /\ p # <<>> /\ Frame(Head(fs), p)
  <2>1. 1 \in 1 .. Len(ps) /\ Head(fs) = fs[1]
    BY <1>3
  <2> QED
    BY <2>1
<1>5. Flatten(fs) = Head(fs) \o R /\ R \in Octets
  <2>1. Tail(fs) \in Seq(Octets)
    BY <1>3
  <2> QED
    BY <1>3, <2>1, FlattenFirst, FlattenTyped, Zenon
<1> HIDE DEF p, R, d
<1>6. PICK mine \in Leads : Head(fs) = (mine \o Body(p)) \o E
  BY <1>4, FrameParts, Zenon
<1>7. mine \in Octets /\ Body(p) \in Octets /\ mine \o Body(p) \in Octets /\ E \o R \in Octets
  BY <1>1, <1>4, <1>5, LeadsTyped, BodyNext, Assoc, Zenon
<1> HIDE DEF E
<1>8. Flatten(fs) = (mine \o Body(p)) \o (E \o R)
  <2> DEFINE mb == mine \o Body(p)
  <2>1. mb \in Octets
    BY <1>7
  <2> HIDE DEF mb
  <2>2. (mb \o E) \o R = mb \o (E \o R)
    BY <1>1, <1>5, <2>1, Assoc, ZenonT(60)
  <2>3. Head(fs) = mb \o E
    BY <1>6 DEF mb
  <2>4. Flatten(fs) = mb \o (E \o R)
    BY <1>5, <2>2, <2>3, Zenon
  <2> QED
    BY <2>4 DEF mb
<1>9. CASE lead = E /\ mine = E
  <2> DEFINE X == Body(p) \o (E \o R)
  <2>1. X \in Octets /\ Flatten(fs) = E \o X
    <3> DEFINE er == E \o R
               bp == Body(p)
    <3>1. er \in Octets /\ bp \in Octets
      BY <1>7
    <3> HIDE DEF er, bp
    <3>2. (E \o bp) \o er = E \o (bp \o er) /\ bp \o er \in Octets
      BY <3>1, AssocEnd, Zenon DEF E
    <3>3. Flatten(fs) = (E \o bp) \o er
      BY <1>8, <1>9 DEF er, bp
    <3>4. Flatten(fs) = E \o (bp \o er)
      BY <3>2, <3>3, Zenon
    <3> QED
      BY <3>2, <3>4 DEF er, bp
  <2> HIDE DEF X
  <2>2. Body(<<>>) = <<>> /\ E \o <<>> = E /\ E # <<>>
    BY <1>1, BodyNext, ConcatEmpty DEF E
  <2>3. slip_decode((E \o Body(<<>>)) \o (E \o X)) = [msg |-> <<>>, used |-> Len(E \o Body(<<>>))]
    <3>1. E \o Body(<<>>) # <<>>
      BY <2>2
    <3> QED
      BY <1>1, <2>1, <3>1, FrameDecoded, Zenon DEF E
  <2>4. d = [msg |-> <<>>, used |-> Len(E)] /\ q = E \o Flatten(fs)
    BY <1>2, <1>9, <2>1, <2>2, <2>3, Zenon
  <2>5. Drop(q, d.used) = Flatten(fs)
    BY <1>1, <2>4, DropConcat
  <2>6. Flatten(fs) = <<>> \o Flatten(fs)
    BY <1>1, ConcatEmpty
  <2>7. d.used > 0 /\ d.msg = <<>>
    BY <2>2, <2>4
  <2> QED
    BY <2>5, <2>6, <2>7 DEF Leads, d
<1>10. ASSUME NEW L \in Leads, q = (L \o Body(p)) \o (E \o R)
       PROVE  d.msg = p /\ d.used > 0 /\ Drop(q, d.used) = E \o R
  <2>1. L \in Octets /\ L \o Body(p) \in Octets /\ L \o Body(p) # <<>>
    <3>1. L \in Octets /\ L \o Body(p) \in Octets
      BY <1>7, LeadsTyped, Assoc
    <3>2. Body(p) # <<>>
      BY <1>4, BodyNonEmpty
    <3> QED
      BY <1>7, <3>1, <3>2 DEF Octets
  <2>2. slip_decode((L \o Body(p)) \o (E \o R)) = [msg |-> p, used |-> Len(L \o Body(p))]
    BY <1>4, <1>5, <2>1, FrameDecoded, Zenon DEF E, Leads
  <2>3. d = [msg |-> p, used |-> Len(L \o Body(p))]
    BY <1>2, <1>10, <2>2
  <2> QED
    <3>1. d.msg = p /\ d.used = Len(L \o Body(p))
      BY <2>3
    <3> QED
      <4> DEFINE lb == L \o Body(p)
                 er == E \o R
      <4>1. lb \in Octets /\ er \in Octets
        BY <1>7, <2>1
      <4> HIDE DEF lb, er
      <4>2. Drop(lb \o er, Len(lb)) = er
        BY <4>1, DropConcat
      <4>3. q = lb \o er /\ d.used = Len(lb)
        BY <1>10, <3>1 DEF lb, er
      <4>4. Drop(q, d.used) = er
        BY <4>2, <4>3, Zenon
      <4>5. Len(lb) > 0
        BY <2>1, <4>1 DEF lb, Octets
      <4> QED
        BY <3>1, <4>3, <4>4, <4>5 DEF er
<1>11. CASE ~(lead = E /\ mine = E)
  <2>1. \E L \in Leads : q = (L \o Body(p)) \o (E \o R)
    <3>1. CASE lead = <<>>
      BY <1>1, <1>8, <3>1, ConcatEmpty, Zenon
    <3>2. CASE lead = E /\ mine = <<>>
      <4>1. mine \o Body(p) = Body(p)
        BY <1>7, <3>2, ConcatEmpty
      <4>2. q = (E \o Body(p)) \o (E \o R)
        <5> DEFINE er == E \o R
                   bp == Body(p)
        <5>1. er \in Octets /\ bp \in Octets
          BY <1>7
        <5>2. Flatten(fs) = bp \o er
          BY <1>8, <4>1
        <5> HIDE DEF er, bp
        <5>3. (E \o bp) \o er = E \o (bp \o er)
          BY <5>1, AssocEnd, Zenon DEF E
        <5>4. q = E \o (bp \o er)
          BY <3>2, <5>2
        <5>5. q = (E \o bp) \o er
          BY <5>3, <5>4
        <5> QED
          BY <5>5 DEF er, bp
      <4> QED
        BY <3>2, <4>2, Zenon
    <3> QED
      BY <1>11, <3>1, <3>2, Zenon DEF Leads, E
  <2>2. d.msg = p /\ d.used > 0 /\ Drop(q, d.used) = E \o R
    <3> HIDE DEF q
    <3> QED
      BY <1>10, <2>1, Zenon
  <2> QED
    BY <2>2 DEF Leads, E, d, p, R
<1> QED
  BY <1>9, <1>11, Zenon

\* One call of slip_decode on what has come of a stream of frames, the
\* terminator of the frame before perhaps still in front: it takes the first
\* packet, or nothing but that terminator.
LEMMA DecodeStep ==
    ASSUME NEW lead \in Leads, NEW fs \in Seq(Octets), NEW ps \in Seq(Octets),
           Len(ps) = Len(fs), \A i \in 1 .. Len(ps) : ps[i] # <<>> /\ Frame(fs[i], ps[i]),
           NEW buf \in Octets, Agree(buf, lead \o Flatten(fs), Len(buf)),
           slip_decode(buf).used > 0
    PROVE  LET q == lead \o Flatten(fs)
               d == slip_decode(buf)
           IN  /\ fs # <<>> /\ d.used \in 1 .. Len(buf)
               /\ \E rest \in Leads :
                     \/ d.msg = <<>> /\ Drop(q, d.used) = rest \o Flatten(fs)
                     \/ d.msg = ps[1] /\ Drop(q, d.used) = rest \o Flatten(Tail(fs))
<1> DEFINE q == lead \o Flatten(fs)
           d == slip_decode(buf)
<1>1. lead \in Octets /\ Flatten(fs) \in Octets /\ q \in Octets
  BY LeadsTyped, FlattenTyped, Assoc
<1>2. slip_decode(q) = d /\ d.used \in 1 .. Len(buf)
  BY <1>1, DecodedEarly
<1>3. fs # <<>>
  <2> SUFFICES ASSUME fs = <<>> PROVE FALSE
    OBVIOUS
  <2>1. q = lead
    BY <1>1, FlattenEmpty, ConcatEmpty, Zenon
  <2> QED
    <3>1. slip_decode(<<>>).used = 0 /\ slip_decode(<<SLIP_END>>).used = 0
      BY NoFrame
    <3>2. slip_decode(lead).used # 0
      <4>1. d.used # 0
        BY <1>2
      <4> QED
        BY <1>2, <2>1, <4>1, Zenon
    <3>3. lead = <<>> \/ lead = <<SLIP_END>>
      BY DEF Leads
    <3> QED
      BY <3>1, <3>2, <3>3, Zenon
<1>4. /\ slip_decode(q).used > 0
      /\ \E rest \in Leads :
            \/ slip_decode(q).msg = <<>>
               /\ Drop(q, slip_decode(q).used) = rest \o Flatten(fs)
            \/ slip_decode(q).msg = ps[1]
               /\ Drop(q, slip_decode(q).used) = rest \o Flatten(Tail(fs))
  BY <1>3, DecodeFirst, Zenon
<1> QED
  BY <1>2, <1>3, <1>4, Zenon

-----------------------------------------------------------------------------
(* What a stream of bytes carries.                                         *)

\* What slip_encode is given: not empty.
NonemptyOctets == Octets \ {<<>>}

\* The bytes are the frames of the messages ms, perhaps with the terminator of
\* the frame before in front.
Carries(bytes, ms) ==
    \E lead \in Leads, fs \in Seq(Octets) :
        /\ Len(fs) = Len(ms)
        /\ \A i \in 1 .. Len(ms) : Frame(fs[i], ms[i])
        /\ bytes = lead \o Flatten(fs)

\* What carries messages is a string of bytes.
LEMMA CarriesTyped ==
    ASSUME NEW q, NEW ms, Carries(q, ms)
    PROVE  q \in Octets
BY LeadsTyped, FlattenTyped, Assoc DEF Carries

\* An empty buffer carries no messages.
LEMMA CarriesNone == Carries(<<>>, <<>>)
<1>1. <<>> \in Leads /\ <<>> \in Seq(Octets) /\ Len(<<>>) = 0
  BY DEF Leads
<1>2. <<>> = <<>> \o Flatten(<<>>)
  BY FlattenEmpty, LeadsTyped, ConcatEmpty
<1>3. \A i \in 1 .. Len(<<>>) : Frame(<<>>[i], <<>>[i])
  BY <1>1
<1> QED
  BY <1>1, <1>2, <1>3, Zenon DEF Carries

\* One more frame behind the others.
LEMMA CarriesMore ==
    ASSUME NEW q, NEW ms \in Seq(NonemptyOctets), Carries(q, ms),
           NEW p \in NonemptyOctets, NEW f, Frame(f, p)
    PROVE  f \in Octets /\ Carries(q \o f, Append(ms, p))
<1>1. PICK lead \in Leads, fs \in Seq(Octets) :
          /\ Len(fs) = Len(ms)
          /\ \A i \in 1 .. Len(ms) : Frame(fs[i], ms[i])
          /\ q = lead \o Flatten(fs)
  BY Zenon DEF Carries
<1>2. f \in Octets
  BY FrameTyped DEF NonemptyOctets
<1> DEFINE gs == Append(fs, f)
           ns == Append(ms, p)
<1>3. /\ gs \in Seq(Octets) /\ Len(gs) = Len(ns) /\ Len(ms) \in Nat
      /\ Len(ns) = Len(ms) + 1 /\ gs[Len(ms) + 1] = f /\ ns[Len(ms) + 1] = p
      /\ \A i \in 1 .. Len(ms) : gs[i] = fs[i] /\ ns[i] = ms[i]
  BY <1>1, <1>2, AppendProperties
<1>4. Flatten(gs) = Flatten(fs) \o f
  BY <1>2, FlattenAppend
<1> HIDE DEF gs, ns
<1>5. \A i \in 1 .. Len(ns) : Frame(gs[i], ns[i])
  BY <1>1, <1>3
<1>6. q \o f = lead \o Flatten(gs)
  <2>1. lead \in Octets /\ Flatten(fs) \in Octets
    BY LeadsTyped, FlattenTyped
  <2>2. (lead \o Flatten(fs)) \o f = lead \o (Flatten(fs) \o f)
    BY <1>2, <2>1, Assoc, ZenonT(60)
  <2> QED
    BY <1>1, <1>4, <2>2, Zenon
<1>7. Carries(q \o f, ns)
  BY <1>3, <1>5, <1>6, Zenon DEF Carries
<1> QED
  BY <1>2, <1>7 DEF ns

\* slip_decode on the first part of what carries the messages.
LEMMA CarriesStep ==
    ASSUME NEW buf \in Octets, NEW rest \in Octets, NEW ms \in Seq(NonemptyOctets),
           Carries(buf \o rest, ms), slip_decode(buf).used > 0
    PROVE  LET d == slip_decode(buf)
           IN  /\ ms # <<>> /\ d.used \in 1 .. Len(buf)
               /\ \/ d.msg = <<>> /\ Carries(Drop(buf, d.used) \o rest, ms)
                  \/ d.msg = Head(ms) /\ Carries(Drop(buf, d.used) \o rest, Tail(ms))
<1> DEFINE d == slip_decode(buf)
           q == buf \o rest
<1>1. PICK lead \in Leads, fs \in Seq(Octets) :
          /\ Len(fs) = Len(ms)
          /\ \A i \in 1 .. Len(ms) : Frame(fs[i], ms[i])
          /\ q = lead \o Flatten(fs)
  BY Zenon DEF Carries
<1>2. /\ ms \in Seq(Octets) /\ Len(ms) = Len(fs)
      /\ \A i \in 1 .. Len(ms) : ms[i] # <<>> /\ Frame(fs[i], ms[i])
  BY <1>1, ElementOfSeq, SeqMonotonic DEF NonemptyOctets
<1>3. Agree(buf, q, Len(buf))
  BY DEF Agree, Octets
<1>4. /\ fs # <<>> /\ d.used \in 1 .. Len(buf)
      /\ \E lead2 \in Leads :
            \/ d.msg = <<>> /\ Drop(q, d.used) = lead2 \o Flatten(fs)
            \/ d.msg = ms[1] /\ Drop(q, d.used) = lead2 \o Flatten(Tail(fs))
  <2>1. Agree(buf, lead \o Flatten(fs), Len(buf))
    BY <1>1, <1>3, Zenon
  <2>2. /\ fs # <<>> /\ d.used \in 1 .. Len(buf)
        /\ \E lead2 \in Leads :
              \/ /\ d.msg = <<>>
                 /\ Drop(lead \o Flatten(fs), d.used) = lead2 \o Flatten(fs)
              \/ /\ d.msg = ms[1]
                 /\ Drop(lead \o Flatten(fs), d.used) = lead2 \o Flatten(Tail(fs))
    BY <1>2, <2>1, DecodeStep, Zenon
  <2> QED
    BY <1>1, <2>2, Zenon
<1>5. ms # <<>> /\ Head(ms) = ms[1]
  BY <1>1, <1>4
<1>6. Drop(q, d.used) = Drop(buf, d.used) \o rest
  <2>1. d.used \in 0 .. Len(buf)
    BY <1>4
  <2> QED
    BY <2>1, DropPart, Zenon
<1> HIDE DEF d, q
<1>7. PICK lead2 \in Leads :
          \/ d.msg = <<>> /\ Drop(q, d.used) = lead2 \o Flatten(fs)
          \/ d.msg = ms[1] /\ Drop(q, d.used) = lead2 \o Flatten(Tail(fs))
  BY <1>4, Zenon
<1>8. CASE d.msg = <<>> /\ Drop(q, d.used) = lead2 \o Flatten(fs)
  <2>1. Carries(Drop(q, d.used), ms)
    BY <1>1, <1>8, Zenon DEF Carries
  <2> QED
    BY <1>4, <1>5, <1>6, <1>8, <2>1 DEF d
<1>9. CASE d.msg = ms[1] /\ Drop(q, d.used) = lead2 \o Flatten(Tail(fs))
  <2> DEFINE gs == Tail(fs)
             ns == Tail(ms)
  <2>1. /\ gs \in Seq(Octets) /\ Len(gs) = Len(ns) /\ Len(ns) = Len(ms) - 1 /\ Len(ms) \in Nat
        /\ \A i \in 1 .. Len(ns) : gs[i] = fs[i + 1] /\ ns[i] = ms[i + 1]
    BY <1>1, <1>4, <1>5
  <2> HIDE DEF gs, ns
  <2>2. \A i \in 1 .. Len(ns) : Frame(gs[i], ns[i])
    <3> SUFFICES ASSUME NEW i \in 1 .. Len(ns) PROVE Frame(gs[i], ns[i])
      OBVIOUS
    <3>1. i + 1 \in 1 .. Len(ms) /\ gs[i] = fs[i + 1] /\ ns[i] = ms[i + 1]
      BY <2>1
    <3> QED
      BY <1>1, <3>1, Zenon
  <2>3. Drop(q, d.used) = lead2 \o Flatten(gs)
    BY <1>9 DEF gs
  <2>4. Carries(Drop(q, d.used), ns)
    BY <2>1, <2>2, <2>3, Zenon DEF Carries
  <2> QED
    BY <1>4, <1>5, <1>6, <1>9, <2>4, SMTT(60) DEF d, ns
<1> QED
  BY <1>7, <1>8, <1>9, SMTT(60)

\* As long as a message is carried slip_decode finds something.
LEMMA CarriesFound ==
    ASSUME NEW q, NEW ms \in Seq(NonemptyOctets), Carries(q, ms), slip_decode(q).used = 0
    PROVE  ms = <<>>
<1> SUFFICES ASSUME ms # <<>> PROVE slip_decode(q).used > 0
  OBVIOUS
<1>1. PICK lead \in Leads, fs \in Seq(Octets) :
          /\ Len(fs) = Len(ms)
          /\ \A i \in 1 .. Len(ms) : Frame(fs[i], ms[i])
          /\ q = lead \o Flatten(fs)
  BY Zenon DEF Carries
<1>2. /\ ms \in Seq(Octets) /\ Len(ms) = Len(fs) /\ fs # <<>>
      /\ \A i \in 1 .. Len(ms) : ms[i] # <<>> /\ Frame(fs[i], ms[i])
  BY <1>1, ElementOfSeq, SeqMonotonic DEF NonemptyOctets
<1>3. slip_decode(lead \o Flatten(fs)).used > 0
  BY <1>2, DecodeFirst, Zenon
<1> QED
  BY <1>1, <1>3, Zenon

-----------------------------------------------------------------------------
(* SlipStream: decoding undoes encoding.                                   *)

\* What has been encoded is what has been decoded and what the bytes still
\* carry.
StreamInv ==
    /\ received \in Seq(NonemptyOctets)
    /\ \E left \in Seq(NonemptyOctets) :
          packets = received \o left /\ Carries(source, left)

\* slip_encode adds its packet to those the bytes carry.
LEMMA EncodeKeeps ==
    ASSUME StreamInv, Encode
    PROVE  StreamInv'
<1>1. PICK left \in Seq(NonemptyOctets) : packets = received \o left /\ Carries(source, left)
  BY DEF StreamInv
<1>2. PICK n \in 1 .. MaxBytes - Len(Flatten(packets)) :
      \E p \in [1 .. n -> Bytes], introduce \in BOOLEAN :
         /\ packets' = Append(packets, p)
         /\ source' = source \o slip_encode(p, introduce)
  BY Zenon DEF Encode
<1>3. PICK p \in [1 .. n -> Bytes], introduce \in BOOLEAN :
         /\ packets' = Append(packets, p)
         /\ source' = source \o slip_encode(p, introduce)
  BY <1>2, Zenon
<1>4. p \in NonemptyOctets
  <2>1. n \in Nat /\ n > 0
    <3>1. packets \in Seq(NonemptyOctets)
      BY <1>1 DEF StreamInv
    <3>2. packets \in Seq(Octets)
      BY <3>1, SeqMonotonic DEF NonemptyOctets
    <3>3. Len(Flatten(packets)) \in Nat
      BY <3>2, FlattenTyped DEF Octets
    <3>4. MaxBytes - Len(Flatten(packets)) \in Int
      BY <3>3, StreamAssumption
    <3> QED
      BY <3>4
  <2>2. p \in Seq(Nat) /\ Len(p) = n
    <3>1. p \in [1 .. n -> Nat]
      BY StreamAssumption, Zenon
    <3> QED
      BY <2>1, <3>1
  <2> QED
    BY <2>1, <2>2 DEF NonemptyOctets, Octets
<1>5. Frame(slip_encode(p, introduce), p)
  BY DEF Frame
<1>6. Carries(source', Append(left, p))
  BY <1>1, <1>3, <1>4, <1>5, CarriesMore
<1>7. packets' = received \o Append(left, p) /\ Append(left, p) \in Seq(NonemptyOctets)
  BY <1>1, <1>3, <1>4, ConcatAppend, SMTT(60) DEF StreamInv
<1> QED
  BY <1>6, <1>7, Zenon DEF StreamInv, Encode

\* slip_decode takes the first packet that the bytes carry, or only the terminator
\* in front of it.
LEMMA DecodeKeeps ==
    ASSUME StreamInv, Decode
    PROVE  StreamInv'
<1> DEFINE d == slip_decode(source)
<1>1. PICK left \in Seq(NonemptyOctets) : packets = received \o left /\ Carries(source, left)
  BY DEF StreamInv
<1>2. /\ d.used > 0 /\ source' = Drop(source, d.used) /\ packets' = packets
      /\ received' = IF d.msg = <<>> THEN received ELSE Append(received, d.msg)
  BY DEF Decode, Drop
<1>3. source \in Octets /\ source \o <<>> = source /\ <<>> \in Octets
  BY <1>1, CarriesTyped, ConcatEmpty, LeadsTyped, SMTT(60)
<1>4. /\ left # <<>> /\ d.used \in 1 .. Len(source)
      /\ \/ d.msg = <<>> /\ Carries(Drop(source, d.used) \o <<>>, left)
         \/ d.msg = Head(left) /\ Carries(Drop(source, d.used) \o <<>>, Tail(left))
  BY <1>1, <1>2, <1>3, CarriesStep, Zenon
<1>5. Drop(source, d.used) \o <<>> = Drop(source, d.used)
  <2>1. d.used \in 0 .. Len(source)
    BY <1>4
  <2>2. Drop(source, d.used) \in Octets
    BY <1>3, <2>1, DropPart
  <2> QED
    BY <2>2, ConcatEmpty
<1> HIDE DEF d
<1>6. Head(left) \in NonemptyOctets /\ Head(left) # <<>> /\ Tail(left) \in Seq(NonemptyOctets)
  BY <1>4 DEF NonemptyOctets
<1>7. CASE d.msg = <<>>
  BY <1>1, <1>2, <1>4, <1>5, <1>6, <1>7, Zenon DEF StreamInv
<1>8. CASE d.msg # <<>>
  <2>1. /\ received' = Append(received, Head(left))
        /\ Carries(source', Tail(left))
    BY <1>2, <1>4, <1>5, <1>8
  <2>2. Append(received, Head(left)) \o Tail(left) = received \o left
    BY <1>4, Moved, Zenon DEF StreamInv
  <2>3. received' \in Seq(NonemptyOctets)
    BY <1>6, <2>1 DEF StreamInv
  <2>4. packets' = received' \o Tail(left)
    BY <1>1, <1>2, <2>1, <2>2, Zenon
  <2> QED
    BY <1>6, <2>1, <2>3, <2>4, Zenon DEF StreamInv
<1> QED
  BY <1>7, <1>8

\* What slip_decode takes out of a stream of slip_encode's frames is the packets
\* that went in, in order, whatever bytes they hold, however many they are and
\* whichever of them are introduced by END; and it finds nothing more only when
\* it has found them all.
THEOREM StreamCorrect == StreamSpec => []StreamRoundTrip
<1>1. StreamInit => StreamInv
  <2> SUFFICES ASSUME StreamInit PROVE StreamInv
    OBVIOUS
  <2>1. received = <<>> /\ packets = <<>> /\ source = <<>> /\ <<>> \in Seq(NonemptyOctets)
    BY DEF StreamInit
  <2>2. packets = received \o <<>> /\ Carries(source, <<>>)
    BY <2>1, CarriesNone, ConcatEmpty, LeadsTyped
  <2> QED
    BY <2>1, <2>2, Zenon DEF StreamInv
<1>2. StreamInv /\ [StreamNext]_streamVars => StreamInv'
  <2> SUFFICES ASSUME StreamInv, [StreamNext]_streamVars PROVE StreamInv'
    OBVIOUS
  <2>1. CASE Encode
    BY <2>1, EncodeKeeps
  <2>2. CASE Decode
    BY <2>2, DecodeKeeps
  <2>3. CASE UNCHANGED streamVars
    BY <2>3 DEF streamVars, StreamInv
  <2> QED
    BY <2>1, <2>2, <2>3 DEF StreamNext
<1>3. StreamInv => StreamRoundTrip
  <2> SUFFICES ASSUME StreamInv PROVE StreamRoundTrip
    OBVIOUS
  <2>1. PICK left \in Seq(NonemptyOctets) : packets = received \o left /\ Carries(source, left)
    BY DEF StreamInv
  <2>2. \E n \in 0 .. Len(packets) : received = SubSeq(packets, 1, n)
    BY <2>1, PrefixOfConcat DEF StreamInv
  <2>3. ASSUME slip_decode(source).used = 0 PROVE received = packets
    <3>1. left = <<>>
      BY <2>1, <2>3, CarriesFound
    <3> QED
      BY <2>1, <3>1, ConcatEmptySeq DEF StreamInv
  <2> QED
    BY <2>2, <2>3 DEF StreamRoundTrip
<1> QED
  BY <1>1, <1>2, <1>3, PTL DEF StreamSpec

-----------------------------------------------------------------------------
(* SerialForward: types, and what the queues hold.                         *)

\* What the buffers and queues of the two programs hold.
ForwardTypes ==
    /\ stream \in [Conns -> Octets] /\ in_packet \in [Conns -> Octets]
    /\ posted \in [Conns -> Seq(Octets)]
    /\ send_packet_queue \in [Conns -> Seq(Octets)]
    /\ unwritten \in [Conns -> Octets] /\ writing \in [Conns -> BOOLEAN]
    /\ line \in Octets /\ unprocessed \in Octets /\ running \in BOOLEAN
    /\ ephemeral \subseteq Conns /\ forwarded \in [Conns -> Octets]
    /\ taken \in [Conns -> Seq(Octets)] /\ failures \in Nat

\* A write in progress is that of the front message; a queue without a write is
\* empty unless something has failed.
QueueWritten ==
    \A c \in Conns :
        /\ writing[c] => send_packet_queue[c] # <<>>
        /\ failures = 0 /\ send_packet_queue[c] # <<>> => writing[c]

\* The word that read_packet_done finds: bytes of the buffer.
LEMMA WordEnds ==
    ASSUME NEW buf \in Octets
    PROVE  /\ word_end(buf).first \in 1 .. Len(buf) + 1
           /\ word_end(buf).after \in word_end(buf).first .. Len(buf) + 1
           /\ \A i \in 1 .. word_end(buf).first - 1 : buf[i] = SPACE
           /\ \A i \in word_end(buf).first .. word_end(buf).after - 1 : buf[i] # SPACE
<1> DEFINE N == Len(buf)
           A == {i \in DOMAIN buf : buf[i] # SPACE} \cup {N + 1}
           first == Min(A)
           B == {i \in DOMAIN buf : i > first /\ buf[i] = SPACE} \cup {N + 1}
           after == Min(B)
<1>1. N \in Nat /\ DOMAIN buf = 1 .. N
  BY DEF Octets
<1>2. first \in A /\ \A i \in A : first <= i
  <2>1. A \subseteq Nat /\ A # {}
    BY <1>1
  <2> QED
    BY <2>1, MinLeast
<1>3. after \in B /\ \A i \in B : after <= i
  <2>1. B \subseteq Nat /\ B # {}
    BY <1>1
  <2> QED
    BY <2>1, MinLeast, Zenon
<1>4. word_end(buf) = [first |-> first, after |-> after]
  BY DEF word_end
<1> HIDE DEF first, after
<1>5. first \in 1 .. N + 1 /\ after \in first .. N + 1
  BY <1>1, <1>2, <1>3
<1>6. \A i \in 1 .. first - 1 : buf[i] = SPACE
  BY <1>1, <1>2, <1>5
<1>7. \A i \in first .. after - 1 : buf[i] # SPACE
  BY <1>1, <1>2, <1>3, <1>5
<1> QED
  BY <1>4, <1>5, <1>6, <1>7

\* The message of a word, and its frame.
LEMMA FrameOf ==
    ASSUME NEW c \in Nat, NEW w \in Octets
    PROVE  /\ <<c>> \o w \in NonemptyOctets /\ Frame(slip_encode(<<c>> \o w, TRUE), <<c>> \o w)
           /\ slip_encode(<<c>> \o w, TRUE) \in Octets
<1>1. <<c>> \o w \in Octets /\ <<c>> \o w # <<>>
  BY DEF Octets
<1>2. Frame(slip_encode(<<c>> \o w, TRUE), <<c>> \o w)
  BY Zenon DEF Frame
<1> QED
  BY <1>1, <1>2, FrameTyped, Zenon DEF NonemptyOctets

\* What read_packet_done takes, and what it leaves.
LEMMA ReadParts ==
    ASSUME ForwardTypes, NEW c \in Conns, read_packet_done(c)
    PROVE  \E n \in 0 .. Len(stream[c]) :
              LET buf == in_packet[c] \o SubSeq(stream[c], 1, n)
                  w == extract(buf)
              IN /\ buf \in Octets /\ w \in Octets
                 /\ Drop(stream[c], n) \in Octets
                 /\ Drop(buf, word_end(buf).after - 1) \in Octets
                 /\ stream' = [stream EXCEPT ![c] = Drop(@, n)]
                 /\ in_packet' = [in_packet EXCEPT ![c] = Drop(buf, word_end(buf).after - 1)]
                 /\ posted' = [posted EXCEPT ![c] = Append(@, slip_encode(<<c>> \o w, TRUE))]
                 /\ taken' = [taken EXCEPT ![c] = Append(@, w)]
                 /\ UNCHANGED <<queueVars, line, receiverVars, failures>>
<1>1. stream[c] \in Octets /\ in_packet[c] \in Octets
  BY DEF ForwardTypes
<1>2. PICK n \in Completions(c) :
        LET buf == in_packet[c] \o SubSeq(stream[c], 1, n)
            packet == <<c>> \o extract(buf)
        IN /\ sending /\ reading[c] /\ connected[c]
           /\ stream' = [stream EXCEPT ![c] = Drop(@, n)]
           /\ in_packet' = [in_packet EXCEPT
                                ![c] = Drop(buf, word_end(buf).after - 1)]
           /\ posted' = [posted EXCEPT
                            ![c] = Append(@, slip_encode(packet, TRUE))]
           /\ taken' = [taken EXCEPT ![c] = Append(@, extract(buf))]
           /\ UNCHANGED <<clientVars, queueVars, line, receiverVars, failures>>
  BY Zenon DEF read_packet_done
<1>3. n \in 0 .. Len(stream[c])
  BY <1>1 DEF Completions, Octets
<1> DEFINE buf == in_packet[c] \o SubSeq(stream[c], 1, n)
<1>4. buf \in Octets /\ Drop(stream[c], n) \in Octets
  BY <1>1, <1>3, DropPart, Assoc, SMTT(60)
<1>5. extract(buf) \in Octets /\ Drop(buf, word_end(buf).after - 1) \in Octets
  <2> HIDE DEF buf
  <2> DEFINE f == word_end(buf).first
             a == word_end(buf).after
  <2>1. f \in 1 .. Len(buf) + 1 /\ a \in f .. Len(buf) + 1 /\ Len(buf) \in Nat
    BY <1>4, WordEnds DEF Octets
  <2> HIDE DEF f, a
  <2>2. SubSeq(buf, f, a - 1) \in Octets /\ Drop(buf, a - 1) \in Octets
    BY <1>4, <2>1, SMTT(60) DEF Octets, Drop
  <2> QED
    BY <2>2 DEF extract, f, a
<1>6. UNCHANGED <<queueVars, line, receiverVars, failures>>
  BY DEF read_packet_done
<1> QED
  BY <1>2, <1>3, <1>4, <1>5, <1>6, Zenon

\* A client that goes away leaves what has been taken from it alone.
ClientGoes(c) == read_packet_failed(c) \/ read_packet_throws(c) \/ client_resets(c)

\* Of what the invariants speak of, only the failures change.
LEMMA ClientSteps ==
    ASSUME NEW c \in Conns, ClientGoes(c)
    PROVE  /\ UNCHANGED <<senderVars, queueVars, line, receiverVars>>
           /\ failures' = failures \/ failures' = failures + 1
<1>1. CASE read_packet_failed(c)
  BY <1>1 DEF read_packet_failed
<1>2. CASE read_packet_throws(c)
  BY <1>2 DEF read_packet_throws
<1>3. CASE client_resets(c)
  BY <1>3 DEF client_resets
<1> QED
  BY <1>1, <1>2, <1>3, Zenon DEF ClientGoes

\* One read takes bytes that are there.
LEMMA ReadSize ==
    ASSUME ForwardTypes, NEW n \in 1 .. Min({MaxReadSize, Len(line)})
    PROVE  n \in 1 .. Len(line)
<1>1. Len(line) \in Nat
  BY DEF ForwardTypes, Octets
<1>2. {MaxReadSize, Len(line)} \subseteq Nat
  BY <1>1, ForwardAssumption
<1>3. Min({MaxReadSize, Len(line)}) \in Nat /\ Min({MaxReadSize, Len(line)}) <= Len(line)
  BY <1>2, MinLeast
<1> QED
  BY <1>1, <1>3

\* slip_decode takes no more than there is.
LEMMA DecodeBounds ==
    ASSUME NEW buf \in Octets
    PROVE  slip_decode(buf).used \in 0 .. Len(buf)
<1>1. CASE terminators(buf) = {}
  BY <1>1 DEF slip_decode, Octets
<1>2. CASE terminators(buf) # {}
  <2>1. terminators(buf) \subseteq 2 .. Len(buf)
    BY DEF terminators, Octets
  <2>2. Min(terminators(buf)) \in terminators(buf)
    <3>1. terminators(buf) \subseteq Nat
      BY <2>1
    <3> QED
      BY <1>2, <3>1, MinLeast
  <2>3. slip_decode(buf).used = Min(terminators(buf)) - 1
    BY <1>2 DEF slip_decode
  <2> QED
    BY <2>1, <2>2, <2>3 DEF Octets
<1> QED
  BY <1>1, <1>2

\* What serial_read_handler reads and leaves.
LEMMA HandlerParts ==
    ASSUME ForwardTypes, NEW n \in 1 .. Len(line), serial_read_handler(n)
    PROVE  LET buf == unprocessed \o SubSeq(line, 1, n)
               d == slip_decode(buf)
           IN /\ buf \in Octets /\ d.used \in 0 .. Len(buf)
              /\ line' \in Octets /\ unprocessed' \in Octets
              /\ unprocessed \o line = buf \o line'
              /\ unprocessed' = Drop(buf, d.used)
              /\ \/ d.used > 0 /\ handle_message(d.msg)
                 \/ d.used = 0 /\ UNCHANGED <<running, ephemeral, forwarded, failures>>
              /\ running /\ UNCHANGED <<senderVars, queueVars>>
<1> DEFINE r == SubSeq(line, 1, n)
           buf == unprocessed \o r
           d == slip_decode(buf)
<1>1. line \in Octets /\ unprocessed \in Octets /\ n \in 0 .. Len(line)
  BY DEF ForwardTypes, Octets
<1>2. r \in Octets /\ line' \in Octets /\ r \o line' = line /\ line' = Drop(line, n)
  BY <1>1, DropPart, Zenon DEF serial_read_handler
<1>3. buf \in Octets
  BY <1>1, <1>2, Assoc
<1>4. d.used \in 0 .. Len(buf)
  BY <1>3, DecodeBounds, Zenon
<1>5. unprocessed' = Drop(buf, d.used) /\ unprocessed' \in Octets
  <2>1. unprocessed' = Drop(buf, d.used)
    BY DEF serial_read_handler
  <2> HIDE DEF d, buf
  <2>2. Drop(buf, d.used) \in Octets
    BY <1>3, <1>4, DropPart
  <2> QED
    BY <2>1, <2>2
<1>6. unprocessed \o line = buf \o line'
  <2> HIDE DEF r
  <2>1. (unprocessed \o r) \o line' = unprocessed \o (r \o line')
    BY <1>1, <1>2, Reassoc, ZenonT(60)
  <2> QED
    BY <1>2, <2>1, Zenon
<1>7. \/ d.used > 0 /\ handle_message(d.msg)
      \/ d.used = 0 /\ UNCHANGED <<running, ephemeral, forwarded, failures>>
  <2>1. d.used > 0 \/ d.used = 0
    BY <1>4
  <2> QED
    BY <2>1, Zenon DEF serial_read_handler
<1>8. running /\ UNCHANGED <<senderVars, queueVars>>
  BY DEF serial_read_handler
<1> QED
  BY <1>2, <1>3, <1>4, <1>5, <1>6, <1>7, <1>8, Zenon

\* A message that is handled is sent, or dropped by a failure.
LEMMA HandledTypes ==
    ASSUME ForwardTypes, NEW msg \in Octets, handle_message(msg)
    PROVE  /\ ephemeral' \subseteq Conns /\ forwarded' \in [Conns -> Octets]
           /\ running' \in BOOLEAN /\ failures' \in Nat
           /\ failures' = failures \/ failures' = failures + 1
<1>1. ASSUME NEW c \in Conns, ForConnection(msg, c), forward(msg, c)
      PROVE  /\ forwarded' \in [Conns -> Octets] /\ running' \in BOOLEAN
             /\ failures' = failures \/ failures' = failures + 1
  <2>1. Tail(msg) \in Octets
    BY <1>1 DEF ForConnection, Octets
  <2>2. forwarded[c] \in Octets
    BY DEF ForwardTypes
  <2>3. forwarded[c] \o Tail(msg) \in Octets
    BY <2>1, <2>2, Assoc
  <2> QED
    BY <1>1, <2>3, Zenon DEF forward, ForwardTypes
<1>2. failures' = failures \/ failures' = failures + 1 => failures' \in Nat
  BY DEF ForwardTypes
<1>3. CASE \A c \in Conns : ~ForConnection(msg, c)
  BY <1>3 DEF handle_message, ForwardTypes
<1>4. CASE \E c \in Conns : ForConnection(msg, c)
  <2>1. \E c \in Conns : 
           /\ ForConnection(msg, c)
           /\ \/ forward(msg, c)
              \/ failures' = failures + 1 /\ UNCHANGED <<running, ephemeral, forwarded>>
           /\ ephemeral' \subseteq Conns
    BY <1>4 DEF handle_message, ForwardTypes
  <2> QED
    BY <1>1, <1>2, <2>1, SMTT(60) DEF ForwardTypes
<1> QED
  BY <1>3, <1>4

\* What slip_decode returns is a string of bytes.
LEMMA DecodedMessage ==
    ASSUME NEW buf \in Octets
    PROVE  slip_decode(buf).msg \in Octets
<1>1. CASE terminators(buf) = {}
  BY <1>1, LeadsTyped DEF slip_decode
<1>2. CASE terminators(buf) # {}
  <2> DEFINE n == Min(terminators(buf))
             us == [i \in 1 .. n - 1 |-> unpacked(buf, i)]
  <2>1. n \in 1 .. Len(buf)
    <3>1. terminators(buf) \subseteq 1 .. Len(buf) /\ terminators(buf) \subseteq Nat
      BY DEF terminators, Octets
    <3>2. n \in terminators(buf)
      BY <1>2, <3>1, MinLeast, Zenon
    <3> QED
      BY <3>1, <3>2
  <2>2. slip_decode(buf).msg = Flatten(us)
    BY <1>2 DEF slip_decode, decoded
  <2> HIDE DEF n
  <2>3. us \in Seq(Octets)
    <3>1. \A i \in 1 .. n - 1 : unpacked(buf, i) \in Octets
      BY <2>1, UnpackedTyped
    <3>2. n - 1 \in Nat
      BY <2>1 DEF Octets
    <3> QED
      BY <3>1, <3>2
  <2> QED
    BY <2>2, <2>3, FlattenTyped
<1> QED
  BY <1>1, <1>2, Zenon

\* How the programs start.
LEMMA ForwardInit ==
    ASSUME Init
    PROVE  ForwardTypes /\ QueueWritten
<1>1. stream \in [Conns -> Octets]
  BY ForwardAssumption DEF Init, Octets
<1>2. <<>> \in Octets /\ <<>> \in Seq(Octets)
  BY LeadsTyped
<1> QED
  BY <1>1, <1>2 DEF Init, ForwardTypes, QueueWritten

\* Every handler keeps the types.
LEMMA TypesKept ==
    ASSUME ForwardTypes, QueueWritten, [Next]_vars
    PROVE  ForwardTypes'
<1>1. CASE UNCHANGED vars
  BY <1>1, Zenon DEF vars, senderVars, queueVars, receiverVars, ForwardTypes
<1>2. ASSUME NEW c \in Conns, read_packet_done(c) PROVE ForwardTypes'
  <2>1. PICK n \in 0 .. Len(stream[c]) :
              LET buf == in_packet[c] \o SubSeq(stream[c], 1, n)
                  w == extract(buf)
              IN /\ buf \in Octets /\ w \in Octets
                 /\ Drop(stream[c], n) \in Octets
                 /\ Drop(buf, word_end(buf).after - 1) \in Octets
                 /\ stream' = [stream EXCEPT ![c] = Drop(@, n)]
                 /\ in_packet' = [in_packet EXCEPT ![c] = Drop(buf, word_end(buf).after - 1)]
                 /\ posted' = [posted EXCEPT ![c] = Append(@, slip_encode(<<c>> \o w, TRUE))]
                 /\ taken' = [taken EXCEPT ![c] = Append(@, w)]
                 /\ UNCHANGED <<queueVars, line, receiverVars, failures>>
    BY <1>2, ReadParts, Zenon
  <2> DEFINE buf == in_packet[c] \o SubSeq(stream[c], 1, n)
             w == extract(buf)
             f == slip_encode(<<c>> \o w, TRUE)
             left == Drop(stream[c], n)
             kept == Drop(buf, word_end(buf).after - 1)
  <2>2. f \in Octets /\ w \in Octets
    BY <2>1, FrameOf, ForwardAssumption, Zenon
  <2>3. /\ stream' = [stream EXCEPT ![c] = left] /\ left \in Octets
        /\ in_packet' = [in_packet EXCEPT ![c] = kept] /\ kept \in Octets
        /\ posted' = [posted EXCEPT ![c] = Append(@, f)]
        /\ taken' = [taken EXCEPT ![c] = Append(@, w)]
        /\ UNCHANGED <<queueVars, line, receiverVars, failures>>
    BY <2>1
  <2> HIDE DEF w, f, left, kept
  <2> QED
    BY <2>2, <2>3, SMTT(60) DEF ForwardTypes, queueVars, receiverVars
<1>3. ASSUME NEW c \in Conns, queue_message(c) PROVE ForwardTypes'
  <2>1. posted[c] \in Seq(Octets) /\ posted[c] # <<>> /\ send_packet_queue[c] \in Seq(Octets)
    BY <1>3 DEF queue_message, ForwardTypes
  <2>2. Head(posted[c]) \in Octets /\ Tail(posted[c]) \in Seq(Octets)
    BY <2>1
  <2> DEFINE q == Append(send_packet_queue[c], Head(posted[c]))
  <2>3. q \in Seq(Octets) /\ Head(q) \in Octets
    BY <2>1, <2>2
  <2>4. /\ posted' = [posted EXCEPT ![c] = Tail(@)]
        /\ send_packet_queue' = [send_packet_queue EXCEPT ![c] = q]
        /\ \/ /\ unwritten' = [unwritten EXCEPT ![c] = Head(q)]
              /\ writing' = [writing EXCEPT ![c] = TRUE]
           \/ UNCHANGED <<unwritten, writing>>
        /\ UNCHANGED <<stream, in_packet, taken, line, receiverVars, failures>>
    BY <1>3 DEF queue_message, start_packet_send, ForwardTypes
  <2> HIDE DEF q
  <2> QED
    BY <2>2, <2>3, <2>4, ZenonT(60) DEF ForwardTypes, receiverVars
<1>4. ASSUME NEW c \in Conns, write_some(c) PROVE ForwardTypes'
  <2>1. PICK n \in 1 .. Len(unwritten[c]) :
          /\ line' = line \o SubSeq(unwritten[c], 1, n)
          /\ unwritten' = [unwritten EXCEPT ![c] = Drop(@, n)]
    BY <1>4, Zenon DEF write_some
  <2>2. unwritten[c] \in Octets /\ line \in Octets
    BY DEF ForwardTypes
  <2>3. SubSeq(unwritten[c], 1, n) \in Octets /\ Drop(unwritten[c], n) \in Octets
    <3>1. n \in 0 .. Len(unwritten[c])
      BY <2>2 DEF Octets
    <3> QED
      BY <2>2, <3>1, DropPart
  <2>4. line' \in Octets
    BY <2>1, <2>2, <2>3, Assoc
  <2>5. UNCHANGED <<senderVars, send_packet_queue, writing, receiverVars, failures>>
    BY <1>4, SMTT(60) DEF write_some
  <2> QED
    BY <2>1, <2>3, <2>4, <2>5, SMTT(60) DEF ForwardTypes, senderVars, receiverVars
<1>5. ASSUME NEW c \in Conns, packet_send_done(c) PROVE ForwardTypes'
  <2>1. send_packet_queue[c] \in Seq(Octets) /\ send_packet_queue[c] # <<>>
    BY <1>5 DEF packet_send_done, ForwardTypes, QueueWritten
  <2> DEFINE q == Tail(send_packet_queue[c])
  <2>2. q \in Seq(Octets) /\ (q # <<>> => Head(q) \in Octets)
    BY <2>1
  <2>3. /\ send_packet_queue' = [send_packet_queue EXCEPT ![c] = q]
        /\ \/ writing' = [writing EXCEPT ![c] = FALSE] /\ UNCHANGED unwritten
           \/ /\ q # <<>>
              /\ unwritten' = [unwritten EXCEPT ![c] = Head(q)]
              /\ writing' = [writing EXCEPT ![c] = TRUE]
        /\ UNCHANGED <<senderVars, line, receiverVars, failures>>
    BY <1>5 DEF packet_send_done, start_packet_send, ForwardTypes
  <2> HIDE DEF q
  <2> QED
    BY <2>2, <2>3, ZenonT(60) DEF ForwardTypes, senderVars, receiverVars
<1>6. ASSUME NEW c \in Conns, packet_send_failed(c) PROVE ForwardTypes'
  BY <1>6, LeadsTyped, SMTT(60) DEF packet_send_failed, ForwardTypes, senderVars, receiverVars
<1>7. ASSUME NEW n \in 1 .. Min({MaxReadSize, Len(line)}), serial_read_handler(n)
      PROVE  ForwardTypes'
  <2> DEFINE buf == unprocessed \o SubSeq(line, 1, n)
             d == slip_decode(buf)
  <2>1. n \in 1 .. Len(line)
    BY ReadSize, SMTT(60)
  <2>2. /\ buf \in Octets
        /\ line' \in Octets /\ unprocessed' \in Octets
        /\ \/ d.used > 0 /\ handle_message(d.msg)
           \/ d.used = 0 /\ UNCHANGED <<running, ephemeral, forwarded, failures>>
        /\ UNCHANGED <<senderVars, queueVars>>
    BY <1>7, <2>1, HandlerParts, SMTT(60)
  <2>3. d.msg \in Octets
    BY <2>2, DecodedMessage
  <2> HIDE DEF d, buf
  <2>4. /\ ephemeral' \subseteq Conns /\ forwarded' \in [Conns -> Octets]
        /\ running' \in BOOLEAN /\ failures' \in Nat
    <3>1. CASE handle_message(d.msg)
      BY <2>3, <3>1, HandledTypes, SMTT(60)
    <3>2. CASE UNCHANGED <<running, ephemeral, forwarded, failures>>
      BY <3>2, SMTT(60) DEF ForwardTypes
    <3> QED
      BY <2>2, <3>1, <3>2
  <2> QED
    BY <2>2, <2>4 DEF ForwardTypes, senderVars, queueVars
<1>8. ASSUME NEW c \in Conns, ClientGoes(c) PROVE ForwardTypes'
  <2>1. /\ UNCHANGED <<senderVars, queueVars, line, receiverVars>>
        /\ failures' = failures \/ failures' = failures + 1
    BY <1>8, ClientSteps, Zenon
  <2>2. failures' \in Nat
    BY <2>1 DEF ForwardTypes
  <2> QED
    BY <2>1, <2>2, ZenonT(60) DEF senderVars, queueVars, receiverVars, ForwardTypes
<1> QED
  BY <1>1, <1>2, <1>3, <1>4, <1>5, <1>6, <1>7, <1>8, ZenonT(60) DEF Next, ClientGoes

\* queue_message and packet_send_done start a write whenever they leave a message
\* in the queue, unless the one before has failed.
LEMMA QueueKept ==
    ASSUME ForwardTypes, QueueWritten, [Next]_vars
    PROVE  QueueWritten'
<1> USE DEF QueueWritten
<1>1. CASE UNCHANGED vars
  BY <1>1, SMTT(60) DEF vars, queueVars
<1>2. ASSUME NEW c \in Conns, read_packet_done(c) PROVE QueueWritten'
  BY <1>2 DEF read_packet_done, queueVars
<1>3. ASSUME NEW c \in Conns, queue_message(c) PROVE QueueWritten'
  <2>1. send_packet_queue[c] \in Seq(Octets) /\ Head(posted[c]) \in Octets
    BY <1>3 DEF queue_message, ForwardTypes
  <2> DEFINE q == Append(send_packet_queue[c], Head(posted[c]))
  <2>2. q # <<>>
    BY <2>1
  <2>3. /\ send_packet_queue' = [send_packet_queue EXCEPT ![c] = q] /\ failures' = failures
        /\ \/ writing' = [writing EXCEPT ![c] = TRUE]
           \/ send_packet_queue[c] # <<>> /\ UNCHANGED writing
    BY <1>3 DEF queue_message, start_packet_send
  <2> HIDE DEF q
  <2> QED
    BY <2>2, <2>3 DEF ForwardTypes
<1>4. ASSUME NEW c \in Conns, write_some(c) PROVE QueueWritten'
  BY <1>4, SMTT(60) DEF write_some
<1>5. ASSUME NEW c \in Conns, packet_send_done(c) PROVE QueueWritten'
  <2> DEFINE q == Tail(send_packet_queue[c])
  <2>1. /\ send_packet_queue' = [send_packet_queue EXCEPT ![c] = q] /\ failures' = failures
        /\ \/ q = <<>> /\ writing' = [writing EXCEPT ![c] = FALSE]
           \/ q # <<>> /\ writing' = [writing EXCEPT ![c] = TRUE]
    BY <1>5 DEF packet_send_done, start_packet_send, ForwardTypes
  <2> HIDE DEF q
  <2> QED
    BY <2>1, SMTT(60) DEF ForwardTypes
<1>6. ASSUME NEW c \in Conns, packet_send_failed(c) PROVE QueueWritten'
  BY <1>6 DEF packet_send_failed, ForwardTypes
<1>7. ASSUME NEW n \in 1 .. Min({MaxReadSize, Len(line)}), serial_read_handler(n)
      PROVE  QueueWritten'
  <2> DEFINE buf == unprocessed \o SubSeq(line, 1, n)
             d == slip_decode(buf)
  <2>1. n \in 1 .. Len(line)
    BY ReadSize, Zenon
  <2>2. /\ buf \in Octets
        /\ \/ handle_message(d.msg)
           \/ UNCHANGED <<running, ephemeral, forwarded, failures>>
        /\ UNCHANGED <<senderVars, queueVars>>
    BY <1>7, <2>1, HandlerParts
  <2>3. d.msg \in Octets
    BY <2>2, DecodedMessage, SMTT(60)
  <2> HIDE DEF d, buf
  <2>4. failures' = failures \/ failures' = failures + 1
    BY <2>2, <2>3, HandledTypes, SMTT(60)
  <2> QED
    BY <2>2, <2>4 DEF queueVars, ForwardTypes
<1>8. ASSUME NEW c \in Conns, ClientGoes(c) PROVE QueueWritten'
  <2>1. /\ UNCHANGED <<senderVars, queueVars, line, receiverVars>>
        /\ failures' = failures \/ failures' = failures + 1
    BY <1>8, ClientSteps, Zenon
  <2> QED
    BY <2>1 DEF queueVars, ForwardTypes
<1> QED
  BY <1>1, <1>2, <1>3, <1>4, <1>5, <1>6, <1>7, <1>8, ZenonT(60) DEF Next, ClientGoes

\* With any number of connections: until something fails a handler has a write
\* in progress exactly while its queue holds a message, so queue_message may
\* take a non-empty queue for one.
THEOREM QueuesServed == Spec => []QueueIsServed
<1>1. Init => ForwardTypes /\ QueueWritten
  BY ForwardInit
<1>2. ForwardTypes /\ QueueWritten /\ [Next]_vars => ForwardTypes' /\ QueueWritten'
  BY TypesKept, QueueKept
<1>3. ForwardTypes /\ QueueWritten => QueueIsServed
  BY DEF QueueWritten, QueueIsServed, ForwardTypes
<1> QED
  BY <1>1, <1>2, <1>3, PTL DEF Spec

-----------------------------------------------------------------------------
(* SerialForward: the words of one connection.                             *)

\* The messages of the words ws of connection c.
Packed(c, ws) == [i \in 1 .. Len(ws) |-> <<c>> \o ws[i]]

\* The messages of one more word, and of all but the first.
LEMMA PackedFacts ==
    ASSUME NEW c \in Nat, NEW ws \in Seq(Octets)
    PROVE  /\ Packed(c, ws) \in Seq(NonemptyOctets) /\ Len(Packed(c, ws)) = Len(ws)
           /\ \A w \in Octets : Packed(c, Append(ws, w)) = Append(Packed(c, ws), <<c>> \o w)
           /\ ws # <<>> => /\ Packed(c, ws) # <<>>
                           /\ Head(Packed(c, ws)) = <<c>> \o Head(ws)
                           /\ Tail(Packed(c, ws)) = Packed(c, Tail(ws))
<1>1. ASSUME NEW us \in Seq(Octets)
      PROVE  /\ Packed(c, us) \in Seq(NonemptyOctets) /\ Len(Packed(c, us)) = Len(us)
             /\ \A i \in 1 .. Len(us) : Packed(c, us)[i] = <<c>> \o us[i]
  <2>1. \A i \in 1 .. Len(us) : <<c>> \o us[i] \in NonemptyOctets
    <3> SUFFICES ASSUME NEW i \in 1 .. Len(us) PROVE <<c>> \o us[i] \in NonemptyOctets
      OBVIOUS
    <3>1. us[i] \in Octets
      OBVIOUS
    <3> QED
      BY <3>1, FrameOf, Zenon
  <2> QED
    BY <2>1 DEF Packed
<1>2. ASSUME NEW w \in Octets
      PROVE  Packed(c, Append(ws, w)) = Append(Packed(c, ws), <<c>> \o w)
  <2> DEFINE us == Append(ws, w)
             m == <<c>> \o w
             ps == Packed(c, ws)
             qs == Packed(c, us)
             rs == Append(ps, m)
  <2>1. /\ us \in Seq(Octets) /\ Len(us) = Len(ws) + 1 /\ us[Len(ws) + 1] = w /\ Len(ws) \in Nat
        /\ \A i \in 1 .. Len(ws) : us[i] = ws[i]
    OBVIOUS
  <2>2. m \in NonemptyOctets
    BY FrameOf, Zenon
  <2>3. /\ ps \in Seq(NonemptyOctets) /\ Len(ps) = Len(ws)
        /\ \A i \in 1 .. Len(ws) : ps[i] = <<c>> \o ws[i]
    BY <1>1
  <2> HIDE DEF us
  <2>4. /\ qs \in Seq(NonemptyOctets) /\ Len(qs) = Len(us)
        /\ \A i \in 1 .. Len(us) : qs[i] = <<c>> \o us[i]
    BY <1>1, <2>1, Zenon
  <2>5. qs[Len(ws) + 1] = m
    <3>1. Len(ws) + 1 \in 1 .. Len(us)
      BY <2>1
    <3> QED
      BY <2>1, <2>4, <3>1, Zenon
  <2>6. \A i \in 1 .. Len(ws) : qs[i] = ps[i]
    <3> SUFFICES ASSUME NEW i \in 1 .. Len(ws) PROVE qs[i] = ps[i]
      OBVIOUS
    <3>1. i \in 1 .. Len(us)
      BY <2>1
    <3> QED
      BY <2>1, <2>3, <2>4, <3>1, Zenon
  <2> HIDE DEF ps, qs, m
  <2>7. /\ rs \in Seq(NonemptyOctets) /\ Len(rs) = Len(ws) + 1 /\ rs[Len(ws) + 1] = m
        /\ \A i \in 1 .. Len(ws) : rs[i] = ps[i]
    BY <2>2, <2>3, AppendProperties, SMTT(60)
  <2> HIDE DEF rs
  <2>8. \A i \in 1 .. Len(qs) : qs[i] = rs[i]
    BY <2>1, <2>4, <2>5, <2>6, <2>7, SMTT(60)
  <2>9. qs = rs
    BY <2>1, <2>4, <2>7, <2>8, SeqEqual, Zenon
  <2> QED
    BY <2>9 DEF qs, rs, us, ps, m
<1>3. ASSUME ws # <<>>
      PROVE  /\ Packed(c, ws) # <<>>
             /\ Head(Packed(c, ws)) = <<c>> \o Head(ws)
             /\ Tail(Packed(c, ws)) = Packed(c, Tail(ws))
  <2> DEFINE us == Tail(ws)
             ps == Packed(c, ws)
             qs == Packed(c, us)
             rs == Tail(ps)
  <2>1. /\ us \in Seq(Octets) /\ Len(us) = Len(ws) - 1 /\ Head(ws) = ws[1] /\ Len(ws) \in Nat
        /\ Len(ws) > 0 /\ \A i \in 1 .. Len(us) : us[i] = ws[i + 1]
    BY <1>3
  <2>2. /\ ps \in Seq(NonemptyOctets) /\ Len(ps) = Len(ws)
        /\ \A i \in 1 .. Len(ws) : ps[i] = <<c>> \o ws[i]
    BY <1>1, SMTT(60)
  <2> HIDE DEF us
  <2>3. /\ qs \in Seq(NonemptyOctets) /\ Len(qs) = Len(us)
        /\ \A i \in 1 .. Len(us) : qs[i] = <<c>> \o us[i]
    BY <1>1, <2>1
  <2> HIDE DEF ps, qs
  <2>4. ps # <<>> /\ Head(ps) = ps[1]
    BY <2>1, <2>2
  <2>5. /\ rs \in Seq(NonemptyOctets) /\ Len(rs) = Len(us)
        /\ \A i \in 1 .. Len(us) : rs[i] = ps[i + 1]
    BY <2>1, <2>2, <2>4, SMTT(60)
  <2> HIDE DEF rs
  <2>6. \A i \in 1 .. Len(us) : qs[i] = rs[i]
    <3> SUFFICES ASSUME NEW i \in 1 .. Len(us) PROVE qs[i] = rs[i]
      OBVIOUS
    <3>1. i + 1 \in 1 .. Len(ws)
      BY <2>1, SMTT(60)
    <3>2. rs[i] = <<c>> \o ws[i + 1]
      BY <2>2, <2>5, <3>1, Zenon
    <3> QED
      BY <2>1, <2>3, <3>2, SMTT(60)
  <2>7. qs = rs
    BY <2>3, <2>5, <2>6, SeqEqual, Zenon
  <2>8. ps[1] = <<c>> \o Head(ws)
    BY <2>1, <2>2, SMTT(60)
  <2> QED
    BY <2>4, <2>7, <2>8 DEF ps, qs, rs, us
<1> QED
  BY <1>1, <1>2, <1>3

\* The frames of c that are not yet on the line, or not whole.
Behind(c) ==
    (IF writing[c] THEN unwritten[c] \o Flatten(Tail(send_packet_queue[c])) ELSE <<>>)
        \o Flatten(posted[c])

\* No write of c has failed.
Alive(c) == writing[c] \/ send_packet_queue[c] = <<>>

\* What the receiver has not decoded are the frames of the words ws, up to where
\* a write failed.
OnTheWay(c, ws) ==
    \E rest \in Octets :
        /\ Carries((unprocessed \o line) \o rest, Packed(c, ws))
        /\ Alive(c) => rest = Behind(c)

\* The words of c: dropped by failed connects, then sent, then on the way.
Delivered(c) ==
    \E skipped, sent, ws \in Seq(Octets) :
        /\ taken[c] = (skipped \o sent) \o ws
        /\ forwarded[c] = Flatten(sent)
        /\ failures = 0 => skipped = <<>>
        /\ c \notin ephemeral => sent = <<>>
        /\ running => OnTheWay(c, ws)

\* Types and queues.
ForwardInv == ForwardTypes /\ QueueWritten

\* The parts of Behind.
LEMMA BehindParts ==
    ASSUME ForwardInv, NEW c \in Conns
    PROVE  /\ Behind(c) \in Octets /\ Flatten(posted[c]) \in Octets
           /\ writing[c] => Flatten(Tail(send_packet_queue[c])) \in Octets
           /\ unwritten[c] \in Octets /\ send_packet_queue[c] \in Seq(Octets)
           /\ posted[c] \in Seq(Octets)
           /\ unprocessed \in Octets /\ line \in Octets /\ unprocessed \o line \in Octets
<1>1. /\ unwritten[c] \in Octets /\ send_packet_queue[c] \in Seq(Octets)
      /\ posted[c] \in Seq(Octets) /\ unprocessed \in Octets /\ line \in Octets
  BY DEF ForwardInv, ForwardTypes
<1>2. Flatten(posted[c]) \in Octets
  BY <1>1, FlattenTyped
<1>3. writing[c] => Flatten(Tail(send_packet_queue[c])) \in Octets
  <2>1. writing[c] => Tail(send_packet_queue[c]) \in Seq(Octets)
    BY <1>1 DEF ForwardInv, QueueWritten
  <2> QED
    BY <2>1, FlattenTyped, Zenon
<1>4. <<>> \in Octets
  BY LeadsTyped
<1>5. Behind(c) \in Octets
  <2>1. CASE writing[c]
    BY <1>1, <1>2, <1>3, <2>1, Assoc, SMTT(60) DEF Behind
  <2>2. CASE ~writing[c]
    BY <1>2, <1>4, <2>2, Assoc, SMTT(60) DEF Behind
  <2> QED
    BY <2>1, <2>2
<1> QED
  BY <1>1, <1>2, <1>3, <1>5, Assoc, SMTT(60)

\* Steps that neither take a word nor touch the line.
LEMMA SameWay ==
    ASSUME NEW c \in Conns, NEW ws, OnTheWay(c, ws), unprocessed' = unprocessed, line' = line,
           Alive(c)' => Alive(c) /\ Behind(c)' = Behind(c)
    PROVE  OnTheWay(c, ws)'
<1>1. PICK rest \in Octets :
        /\ Carries((unprocessed \o line) \o rest, Packed(c, ws))
        /\ Alive(c) => rest = Behind(c)
  BY DEF OnTheWay
<1> QED
  BY <1>1 DEF OnTheWay

\* queue_message puts the frame behind the others, or starts to write it.
LEMMA QueueMessageWay ==
    ASSUME ForwardInv, NEW c \in Conns, queue_message(c), NEW ws, OnTheWay(c, ws)
    PROVE  OnTheWay(c, ws)'
<1> DEFINE Q == send_packet_queue[c]
           h == Head(posted[c])
           R == Flatten(Tail(posted[c]))
<1>1. /\ posted[c] # <<>> /\ posted'[c] = Tail(posted[c])
      /\ send_packet_queue'[c] = Append(Q, h)
      /\ unprocessed' = unprocessed /\ line' = line
  BY SMTT(60) DEF queue_message, receiverVars, ForwardInv, ForwardTypes
<1>2. /\ Q \in Seq(Octets) /\ h \in Octets /\ R \in Octets /\ <<>> \in Octets
      /\ Flatten(posted[c]) = h \o R
  <2>1. posted[c] \in Seq(Octets) /\ Q \in Seq(Octets)
    BY BehindParts, SMTT(60)
  <2>2. h \in Octets /\ Tail(posted[c]) \in Seq(Octets)
    BY <1>1, <2>1, SMTT(60)
  <2> QED
    BY <1>1, <2>1, <2>2, FlattenFirst, FlattenTyped, LeadsTyped, ZenonT(60)
<1>3. Append(Q, h) # <<>> /\ Head(Append(Q, h)) = (IF Q = <<>> THEN h ELSE Head(Q))
      /\ Tail(Append(Q, h)) = IF Q = <<>> THEN <<>> ELSE Append(Tail(Q), h)
  BY <1>2, HeadTailAppend, AppendProperties, SMTT(60)
<1>4. CASE Q = <<>>
  <2>1. ~writing[c] /\ writing'[c] /\ unwritten'[c] = h
    BY <1>1, <1>3, <1>4, SMTT(60) DEF queue_message, start_packet_send, ForwardInv, ForwardTypes, QueueWritten
  <2> HIDE DEF h, R
  <2>2. Behind(c) = h \o R
    BY <1>2, <2>1, Assoc, ConcatEmpty, Zenon DEF Behind
  <2>3. Behind(c)' = (h \o <<>>) \o R
    BY <1>1, <1>3, <1>4, <2>1, FlattenEmpty, Zenon DEF Behind, R
  <2>4. h \o <<>> = h
    BY <1>2, ConcatEmpty, SMTT(60)
  <2> QED
    BY <1>1, <1>4, <2>2, <2>3, <2>4, SameWay, Zenon DEF Alive
<1>5. CASE Q # <<>>
  <2>1. writing' = writing /\ unwritten' = unwritten
    BY <1>5, Zenon DEF queue_message
  <2>2. CASE ~writing[c]
    BY <1>1, <1>3, <2>1, <2>2, SameWay, SMTT(60) DEF Alive
  <2>3. CASE writing[c]
    <3> DEFINE T == Flatten(Tail(Q))
               u == unwritten[c]
    <3>1. Tail(Q) \in Seq(Octets) /\ u \in Octets
      BY <1>2, <1>5, BehindParts
    <3>2. Flatten(Tail(Append(Q, h))) = T \o h /\ T \in Octets
      BY <1>2, <1>3, <1>5, <3>1, FlattenAppend, FlattenTyped, Zenon
    <3>3. Behind(c) = (u \o T) \o (h \o R)
      BY <1>2, <2>3, Zenon DEF Behind
    <3>4. Behind(c)' = (u \o (T \o h)) \o R
      BY <1>1, <2>1, <2>3, <3>2, Zenon DEF Behind
    <3> HIDE DEF T, u, h, R
    <3>5. (u \o T) \o (h \o R) = (u \o (T \o h)) \o R
      <4>1. u \o T \in Octets
        BY <3>1, <3>2, Assoc, SMTT(60)
      <4>2. ((u \o T) \o h) \o R = (u \o T) \o (h \o R)
        BY <1>2, <4>1, Reassoc, Zenon
      <4>3. (u \o T) \o h = u \o (T \o h)
        BY <1>2, <3>1, <3>2, Reassoc, ZenonT(60)
      <4> QED
        BY <4>2, <4>3, Zenon
    <3> QED
      BY <1>1, <2>3, <3>3, <3>4, <3>5, SameWay, ZenonT(60) DEF Alive
  <2> QED
    BY <2>2, <2>3
<1> QED
  BY <1>4, <1>5, SMTT(60)

\* A partial write moves bytes from the handler to the line.
LEMMA WriteWay ==
    ASSUME ForwardInv, NEW c \in Conns, write_some(c), NEW ws, OnTheWay(c, ws)
    PROVE  OnTheWay(c, ws)'
<1> DEFINE T == Flatten(Tail(send_packet_queue[c]))
           P == Flatten(posted[c])
           v == unwritten'[c]
           b == unprocessed \o line
<1>1. /\ writing[c] /\ writing' = writing /\ posted' = posted
      /\ send_packet_queue' = send_packet_queue /\ unprocessed' = unprocessed
  BY DEF write_some, senderVars, receiverVars
<1>2. /\ unwritten[c] \in Octets /\ T \in Octets /\ P \in Octets /\ b \in Octets
      /\ line \in Octets /\ unprocessed \in Octets
  BY <1>1, BehindParts
<1>3. PICK n \in 1 .. Len(unwritten[c]) :
        /\ line' = line \o SubSeq(unwritten[c], 1, n)
        /\ unwritten' = [unwritten EXCEPT ![c] = Drop(@, n)]
  BY Zenon DEF write_some
<1> DEFINE s == SubSeq(unwritten[c], 1, n)
<1>4. s \in Octets /\ v \in Octets /\ s \o v = unwritten[c] /\ line' = line \o s
  <2>1. v = Drop(unwritten[c], n)
    BY <1>3, ZenonT(60) DEF ForwardInv, ForwardTypes
  <2>2. n \in 0 .. Len(unwritten[c])
    BY <1>2, SMTT(60) DEF Octets
  <2>3. unwritten[c] \in Octets
    BY <1>2
  <2>4. /\ SubSeq(unwritten[c], 1, n) \in Octets /\ Drop(unwritten[c], n) \in Octets
        /\ SubSeq(unwritten[c], 1, n) \o Drop(unwritten[c], n) = unwritten[c]
    BY <2>2, <2>3, DropPart, Zenon
  <2> QED
    BY <1>3, <2>1, <2>4, ZenonT(60)
<1>5. Behind(c) = ((s \o v) \o T) \o P /\ Behind(c)' = (v \o T) \o P
  BY <1>1, <1>4, ZenonT(60) DEF Behind
<1>6. Alive(c) /\ unprocessed' \o line' = unprocessed \o (line \o s)
  BY <1>1, <1>4 DEF Alive
<1>7. PICK rest \in Octets :
        /\ Carries(b \o rest, Packed(c, ws))
        /\ Alive(c) => rest = Behind(c)
  BY DEF OnTheWay
<1> DEFINE B == (v \o T) \o P
<1>8. B \in Octets /\ v \o T \in Octets
  BY <1>2, <1>4, Assoc, Zenon
<1>9. rest = s \o B
  <2> HIDE DEF T, P, v, s
  <2>0. s \in Octets /\ v \in Octets /\ T \in Octets /\ P \in Octets
    BY <1>2, <1>4
  <2>1. (s \o v) \o T = s \o (v \o T)
    BY <2>0, Reassoc, SMTT(60)
  <2> DEFINE vt == v \o T
  <2>2. vt \in Octets
    BY <1>8
  <2> HIDE DEF vt
  <2>3. (s \o vt) \o P = s \o (vt \o P)
    BY <2>0, <2>2, Reassoc, SMTT(60)
  <2> QED
    BY <1>5, <1>6, <1>7, <2>1, <2>3, ZenonT(60) DEF vt
<1>10. b \o rest = (unprocessed' \o line') \o B
  <2> HIDE DEF B, s
  <2>0. unprocessed \in Octets /\ line \in Octets /\ s \in Octets
    BY <1>2, <1>4
  <2>1. (unprocessed \o line) \o s = unprocessed \o (line \o s)
    BY <2>0, Reassoc, ZenonT(60)
  <2>2. (b \o s) \o B = b \o (s \o B)
    <3> HIDE DEF b
    <3>1. b \in Octets /\ s \in Octets /\ B \in Octets
      BY <1>2, <1>4, <1>8, SMTT(60)
    <3> QED
      BY <3>1, Reassoc, ZenonT(60)
  <2> QED
    BY <1>6, <1>9, <2>1, <2>2
<1>11. Carries((unprocessed' \o line') \o B, Packed(c, ws))
  BY <1>7, <1>10
<1> QED
  BY <1>5, <1>8, <1>11, Zenon DEF OnTheWay

\* packet_send_done goes on with the next frame of the queue.
LEMMA SentWay ==
    ASSUME ForwardInv, NEW c \in Conns, packet_send_done(c), NEW ws, OnTheWay(c, ws)
    PROVE  OnTheWay(c, ws)'
<1> DEFINE q == Tail(send_packet_queue[c])
           P == Flatten(posted[c])
<1>1. /\ writing[c] /\ unwritten[c] = <<>> /\ send_packet_queue'[c] = q /\ posted' = posted
      /\ unprocessed' = unprocessed /\ line' = line
  BY Zenon DEF packet_send_done, senderVars, receiverVars, ForwardInv, ForwardTypes
<1>2. /\ Flatten(q) \in Octets /\ P \in Octets /\ <<>> \in Octets /\ q \in Seq(Octets)
  <2>1. send_packet_queue[c] \in Seq(Octets) /\ send_packet_queue[c] # <<>>
    BY <1>1, BehindParts, ZenonT(60) DEF ForwardInv, QueueWritten
  <2> QED
    BY <1>1, <2>1, BehindParts, LeadsTyped, SMTT(60)
<1> HIDE DEF q
<1>3. Behind(c) = (<<>> \o Flatten(q)) \o P /\ <<>> \o Flatten(q) = Flatten(q)
  BY <1>1, <1>2, ConcatEmpty, SMTT(60) DEF Behind, q
<1>4. CASE q = <<>>
  <2>1. ~writing'[c]
    BY <1>1, <1>4 DEF packet_send_done, ForwardInv, ForwardTypes
  <2>2. Behind(c)' = <<>> \o P
    BY <1>1, <2>1, SMTT(60) DEF Behind
  <2> QED
    BY <1>1, <1>3, <1>4, <2>2, FlattenEmpty, SameWay, Zenon DEF Alive
<1>5. CASE q # <<>>
  <2>1. writing'[c] /\ unwritten'[c] = Head(q)
    BY <1>1, <1>5, Zenon DEF packet_send_done, start_packet_send, ForwardInv, ForwardTypes
  <2>2. Behind(c)' = (Head(q) \o Flatten(Tail(q))) \o P
    BY <1>1, <2>1, Zenon DEF Behind
  <2>3. Flatten(q) = Head(q) \o Flatten(Tail(q))
    BY <1>2, <1>5, FlattenFirst, SMTT(60)
  <2> QED
    BY <1>1, <1>3, <2>2, <2>3, SameWay, ZenonT(60) DEF Alive
<1> QED
  BY <1>4, <1>5, Zenon

\* After a failed write the handler writes nothing more.
LEMMA FailedWay ==
    ASSUME ForwardInv, NEW c \in Conns, packet_send_failed(c), NEW ws, OnTheWay(c, ws)
    PROVE  OnTheWay(c, ws)'
<1>1. ~Alive(c)'
  BY DEF packet_send_failed, Alive, ForwardInv, ForwardTypes, QueueWritten
<1>2. unprocessed' = unprocessed /\ line' = line
  BY SMTT(60) DEF packet_send_failed, receiverVars
<1> QED
  BY <1>1, <1>2, SameWay, SMTT(60)

\* read_packet_done adds a word to the ones on the way.
LEMMA TakenWay ==
    ASSUME ForwardInv, NEW c \in Conns, read_packet_done(c),
           NEW ws \in Seq(Octets), OnTheWay(c, ws)
    PROVE  \E w \in Octets :
              taken'[c] = Append(taken[c], w) /\ OnTheWay(c, Append(ws, w))'
<1>1. PICK n \in 0 .. Len(stream[c]) :
              LET buf == in_packet[c] \o SubSeq(stream[c], 1, n)
                  w == extract(buf)
              IN /\ buf \in Octets /\ w \in Octets
                 /\ Drop(stream[c], n) \in Octets
                 /\ Drop(buf, word_end(buf).after - 1) \in Octets
                 /\ stream' = [stream EXCEPT ![c] = Drop(@, n)]
                 /\ in_packet' = [in_packet EXCEPT ![c] = Drop(buf, word_end(buf).after - 1)]
                 /\ posted' = [posted EXCEPT ![c] = Append(@, slip_encode(<<c>> \o w, TRUE))]
                 /\ taken' = [taken EXCEPT ![c] = Append(@, w)]
                 /\ UNCHANGED <<queueVars, line, receiverVars, failures>>
  BY ReadParts, Zenon DEF ForwardInv
<1>2. PICK w \in Octets :
          /\ taken'[c] = Append(taken[c], w)
          /\ posted'[c] = Append(posted[c], slip_encode(<<c>> \o w, TRUE))
          /\ UNCHANGED <<send_packet_queue, unwritten, writing, line, unprocessed>>
  BY <1>1, Zenon DEF queueVars, receiverVars, ForwardInv, ForwardTypes
<1> DEFINE m == <<c>> \o w
           f == slip_encode(m, TRUE)
           P == Flatten(posted[c])
           X == IF writing[c] THEN unwritten[c] \o Flatten(Tail(send_packet_queue[c])) ELSE <<>>
           b == unprocessed \o line
<1>3. m \in NonemptyOctets /\ f \in Octets /\ Frame(f, m)
  BY <1>2, FrameOf, ForwardAssumption, Zenon
<1> HIDE DEF m, f
<1>4. P \in Octets /\ posted[c] \in Seq(Octets) /\ b \in Octets /\ X \in Octets
  <2>1. /\ P \in Octets /\ posted[c] \in Seq(Octets) /\ b \in Octets /\ unwritten[c] \in Octets
        /\ writing[c] => Flatten(Tail(send_packet_queue[c])) \in Octets
    BY BehindParts, SMTT(60)
  <2> QED
    BY <2>1, LeadsTyped, Assoc, ZenonT(60)
<1>5. Behind(c) = X \o P /\ Behind(c)' = X \o (P \o f)
  <2>1. Flatten(Append(posted[c], f)) = P \o f
    BY <1>3, <1>4, FlattenAppend, Zenon
  <2>2. posted'[c] = Append(posted[c], f)
    BY <1>2 DEF f, m
  <2> QED
    BY <1>2, <2>1, <2>2, Zenon DEF Behind
<1>6. X \o (P \o f) = (X \o P) \o f
  <2> HIDE DEF X, P
  <2>1. (X \o P) \o f = X \o (P \o f)
    BY <1>3, <1>4, Reassoc, ZenonT(60)
  <2> QED
    BY <2>1
<1>7. PICK rest \in Octets :
        Carries(b \o rest, Packed(c, ws)) /\ (Alive(c) => rest = Behind(c))
  BY DEF OnTheWay
<1>8. Carries((b \o rest) \o f, Packed(c, Append(ws, w)))
  <2>1. Packed(c, ws) \in Seq(NonemptyOctets) /\ Packed(c, Append(ws, w)) = Append(Packed(c, ws), m)
    BY <1>2, PackedFacts, ForwardAssumption, ZenonT(60) DEF m
  <2>2. Carries((b \o rest) \o f, Append(Packed(c, ws), m))
    BY <1>3, <1>7, <2>1, CarriesMore, SMTT(60)
  <2> QED
    BY <2>1, <2>2
<1>9. (b \o rest) \o f = b \o (rest \o f) /\ rest \o f \in Octets
  <2> HIDE DEF b
  <2>1. b \in Octets /\ f \in Octets
    BY <1>3, <1>4
  <2>2. (b \o rest) \o f = b \o (rest \o f)
    BY <2>1, Reassoc, ZenonT(60)
  <2> QED
    BY <2>1, <2>2, Assoc, ZenonT(60)
<1>10. Alive(c)' => rest \o f = Behind(c)'
  BY <1>2, <1>5, <1>6, <1>7, ZenonT(60) DEF Alive
<1>11. Carries((unprocessed' \o line') \o (rest \o f), Packed(c, Append(ws, w)))
  BY <1>2, <1>8, <1>9, ZenonT(60)
<1>12. OnTheWay(c, Append(ws, w))'
  BY <1>9, <1>10, <1>11, Zenon DEF OnTheWay
<1> QED
  BY <1>2, <1>12, SMTT(60)

\* How a step shows Delivered.
LEMMA DeliveredNow ==
    ASSUME NEW c, NEW skipped \in Seq(Octets), NEW sent \in Seq(Octets),
           NEW ws \in Seq(Octets), taken'[c] = (skipped \o sent) \o ws,
           forwarded'[c] = Flatten(sent), failures' = 0 => skipped = <<>>,
           c \notin ephemeral' => sent = <<>>, running' => OnTheWay(c, ws)'
    PROVE  Delivered(c)'
BY Zenon DEF Delivered

\* The steps of the queue leave the words where they are.
LEMMA QueueSteps ==
    ASSUME NEW c \in Conns, Delivered(c), failures \in Nat,
           failures' = failures \/ failures' = failures + 1,
           UNCHANGED <<taken, forwarded, ephemeral, running>>,
           \A ws \in Seq(Octets) : OnTheWay(c, ws) => OnTheWay(c, ws)'
    PROVE  Delivered(c)'
<1>1. PICK skipped, sent, ws \in Seq(Octets) :
        /\ taken[c] = (skipped \o sent) \o ws
        /\ forwarded[c] = Flatten(sent)
        /\ failures = 0 => skipped = <<>>
        /\ c \notin ephemeral => sent = <<>>
        /\ running => OnTheWay(c, ws)
  BY Zenon DEF Delivered
<1>2. failures' = 0 => failures = 0
  BY SMTT(60)
<1>3. running' => OnTheWay(c, ws)'
  BY <1>1
<1> QED
  BY <1>1, <1>2, <1>3, Zenon DEF Delivered

\* serial_read_handler delivers the first of the words on the way, or drops it
\* where that leaves no gap.
LEMMA ReadDelivers ==
    ASSUME ForwardInv, NEW c \in Conns, \A d \in Conns : d = c, Delivered(c),
           NEW n \in 1 .. Len(line), serial_read_handler(n)
    PROVE  Delivered(c)'
<1> DEFINE buf == unprocessed \o SubSeq(line, 1, n)
           d == slip_decode(buf)
<1>1. /\ buf \in Octets /\ d.used \in 0 .. Len(buf)
      /\ line' \in Octets /\ unprocessed' \in Octets
      /\ unprocessed \o line = buf \o line'
      /\ unprocessed' = Drop(buf, d.used)
      /\ \/ d.used > 0 /\ handle_message(d.msg)
         \/ d.used = 0 /\ UNCHANGED <<running, ephemeral, forwarded, failures>>
      /\ running /\ UNCHANGED <<senderVars, queueVars>>
  BY HandlerParts, ZenonT(60) DEF ForwardInv
<1> HIDE DEF buf, d
<1>2. /\ UNCHANGED <<taken, writing, send_packet_queue>> /\ Behind(c)' = Behind(c)
      /\ Alive(c)' <=> Alive(c)
  BY <1>1, SMTT(60) DEF senderVars, queueVars, Behind, Alive
<1>3. PICK skipped, sent, ws \in Seq(Octets) :
        /\ taken[c] = (skipped \o sent) \o ws
        /\ forwarded[c] = Flatten(sent)
        /\ failures = 0 => skipped = <<>>
        /\ c \notin ephemeral => sent = <<>>
        /\ OnTheWay(c, ws)
  BY <1>1, ZenonT(60) DEF Delivered
<1>4. PICK rest \in Octets :
        /\ Carries((unprocessed \o line) \o rest, Packed(c, ws))
        /\ Alive(c) => rest = Behind(c)
  BY <1>3 DEF OnTheWay
<1> DEFINE more == line' \o rest
<1>5. more \in Octets /\ Carries(buf \o more, Packed(c, ws))
  <2>1. (buf \o line') \o rest = buf \o (line' \o rest)
    BY <1>1, Reassoc, ZenonT(60)
  <2> QED
    BY <1>1, <1>4, <2>1, Assoc, SMTT(60)
<1>6. ASSUME NEW vs, Carries(Drop(buf, d.used) \o more, Packed(c, vs))
      PROVE  OnTheWay(c, vs)'
  <2>1. (unprocessed' \o line') \o rest = unprocessed' \o (line' \o rest)
    BY <1>1, Reassoc, ZenonT(60)
  <2>2. Carries((unprocessed' \o line') \o rest, Packed(c, vs))
    BY <1>1, <1>6, <2>1, SMTT(60)
  <2> QED
    BY <1>2, <1>4, <2>2 DEF OnTheWay
<1>7. CASE d.used = 0
  <2>1. Drop(buf, d.used) = buf
    BY <1>1, <1>7, SubSeqFull DEF Drop, Octets
  <2>2. OnTheWay(c, ws)'
    BY <1>5, <1>6, <2>1
  <2>3. UNCHANGED <<running, ephemeral, forwarded, failures>>
    BY <1>1, <1>7
  <2> QED
    BY <1>2, <1>3, <2>2, <2>3, ZenonT(60) DEF Delivered
<1>8. CASE d.used > 0
  <2>0. handle_message(d.msg) /\ c \in Nat
    <3>1. c \in Nat
      BY ForwardAssumption
    <3>2. d.used # 0
      BY <1>1, <1>8, SMTT(60)
    <3> QED
      BY <1>1, <3>1, <3>2, Zenon
  <2>1. /\ Packed(c, ws) # <<>>
        /\ \/ d.msg = <<>> /\ Carries(Drop(buf, d.used) \o more, Packed(c, ws))
           \/ d.msg = Head(Packed(c, ws)) /\ Carries(Drop(buf, d.used) \o more, Tail(Packed(c, ws)))
    <3>1. Packed(c, ws) \in Seq(NonemptyOctets)
      BY <2>0, PackedFacts, ZenonT(60)
    <3> HIDE DEF more
    <3> QED
      BY <1>1, <1>5, <1>8, <3>1, CarriesStep, ZenonT(60) DEF d
  <2>2. CASE d.msg = <<>> /\ Carries(Drop(buf, d.used) \o more, Packed(c, ws))
    <3>1. OnTheWay(c, ws)'
      BY <1>6, <2>2
    <3>2. UNCHANGED <<running, ephemeral, forwarded, failures>>
      <4>1. \A e : ~ForConnection(d.msg, e)
        BY <2>2, SMTT(60) DEF ForConnection
      <4> QED
        BY <2>0, <4>1, SMTT(60) DEF handle_message
    <3> QED
      BY <1>2, <1>3, <3>1, <3>2, Zenon DEF Delivered
  <2>3. CASE d.msg = Head(Packed(c, ws)) /\ Carries(Drop(buf, d.used) \o more, Tail(Packed(c, ws)))
    <3> DEFINE w == Head(ws)
               vs == Tail(ws)
    <3>1. /\ ws # <<>> /\ w \in Octets /\ vs \in Seq(Octets)
          /\ d.msg = <<c>> \o w /\ Tail(Packed(c, ws)) = Packed(c, vs)
      <4>1. ws # <<>>
        <5>1. Len(Packed(c, ws)) = Len(ws) /\ Packed(c, ws) \in Seq(NonemptyOctets)
          BY <2>0, PackedFacts, Zenon
        <5> QED
          BY <2>1, <5>1, SMTT(60)
      <4>2. /\ Head(Packed(c, ws)) = <<c>> \o Head(ws)
            /\ Tail(Packed(c, ws)) = Packed(c, Tail(ws))
        BY <2>0, <4>1, PackedFacts, Zenon
      <4>3. Head(ws) \in Octets /\ Tail(ws) \in Seq(Octets)
        BY <4>1
      <4> QED
        BY <2>3, <4>1, <4>2, <4>3, ZenonT(60)
    <3>2. OnTheWay(c, vs)'
      BY <1>6, <2>3, <3>1, Zenon
    <3>3. ForConnection(d.msg, c) /\ Tail(d.msg) = w
      <4>1. /\ <<c>> \o w # <<>> /\ Head(<<c>> \o w) = c /\ Tail(<<c>> \o w) = w
        <5>1. w \in Seq(Nat)
          BY <3>1 DEF Octets
        <5> HIDE DEF w
        <5> QED
          BY <2>0, <5>1, HeadTailOne, Zenon
      <4>2. Head(<<c>> \o w) = (<<c>> \o w)[1]
        <5> DEFINE q == <<c>> \o w
        <5>1. q \in Seq(Nat) /\ q # <<>>
          BY <2>0, <3>1, <4>1, SMTT(60) DEF Octets
        <5> HIDE DEF q
        <5>2. Head(q) = q[1]
          BY <5>1
        <5> QED
          BY <5>2 DEF q
      <4> QED
        BY <3>1, <4>1, <4>2, Zenon DEF ForConnection
    <3>4. /\ (skipped \o Append(sent, w)) \o vs = taken[c] /\ Append(sent, w) \in Seq(Octets)
          /\ sent = <<>> => (Append(skipped, w) \o sent) \o vs = taken[c]
          /\ Append(skipped, w) \in Seq(Octets)
      <4> HIDE DEF w, vs
      <4>1. Append(skipped \o sent, w) \o vs = (skipped \o sent) \o ws
        <5>1. skipped \o sent \in Seq(Octets)
          OBVIOUS
        <5> QED
          BY <3>1, <5>1, Moved, Zenon DEF w, vs
      <4>2. skipped \o Append(sent, w) = Append(skipped \o sent, w)
        BY <3>1, ConcatAppend, SMTT(60)
      <4>3. sent = <<>> => Append(skipped, w) \o sent = Append(skipped \o sent, w)
        BY <3>1, ConcatEmptySeq
      <4>4. Append(sent, w) \in Seq(Octets) /\ Append(skipped, w) \in Seq(Octets)
        BY <3>1, SMTT(60)
      <4> QED
        BY <1>3, <4>1, <4>2, <4>3, <4>4, ZenonT(60)
    <3>5. \/ /\ forwarded'[c] = forwarded[c] \o w /\ c \in ephemeral'
             /\ failures' = failures
          \/ /\ ~running' /\ forwarded' = forwarded /\ c \in ephemeral' /\ failures' = failures + 1
             /\ c \in ephemeral' 
          \/ /\ c \notin ephemeral /\ UNCHANGED <<running, ephemeral, forwarded>>
             /\ failures' = failures + 1
      BY <2>0, <3>3, ZenonT(60) DEF handle_message, forward, ForwardInv, ForwardTypes
    <3> HIDE DEF w, vs
    <3>6. CASE /\ forwarded'[c] = forwarded[c] \o w /\ c \in ephemeral'
               /\ failures' = failures
      <4>1. forwarded'[c] = Flatten(Append(sent, w))
        BY <1>3, <3>1, <3>6, FlattenAppend, Zenon
      <4> QED
        BY <1>2, <1>3, <3>1, <3>2, <3>4, <3>6, <4>1, Zenon DEF Delivered
    <3>7. CASE /\ ~running' /\ forwarded' = forwarded /\ c \in ephemeral'
               /\ failures' = failures + 1
      <4>1. failures' # 0
        BY <3>7 DEF ForwardInv, ForwardTypes
      <4>2. taken'[c] = (skipped \o sent) \o ws /\ forwarded'[c] = Flatten(sent)
        BY <1>2, <1>3, <3>7, Zenon
      <4> QED
        BY <3>7, <4>1, <4>2, DeliveredNow, ZenonT(60)
    <3>8. CASE /\ c \notin ephemeral /\ UNCHANGED <<running, ephemeral, forwarded>>
               /\ failures' = failures + 1
      <4>1. failures' # 0
        BY <3>8, SMTT(60) DEF ForwardInv, ForwardTypes
      <4> QED
        BY <1>2, <1>3, <3>1, <3>2, <3>4, <3>8, <4>1, ZenonT(60) DEF Delivered
    <3> QED
      BY <3>5, <3>6, <3>7, <3>8, SMTT(60)
  <2> QED
    BY <2>1, <2>2, <2>3
<1> QED
  BY <1>1, <1>7, <1>8, SMTT(60)

-----------------------------------------------------------------------------
(* SerialForward: white space.                                             *)

\* What NonSpace keeps of one byte.
Kept(x) == IF x = SPACE THEN <<>> ELSE <<x>>

\* White space is left out byte by byte.
LEMMA NonSpaceNext ==
    ASSUME NEW q \in Octets, NEW x \in Nat
    PROVE  NonSpace(Append(q, x)) = NonSpace(q) \o Kept(x) /\ NonSpace(q) \in Octets
<1> DEFINE ks == [i \in 1 .. Len(q) |-> Kept(q[i])]
           r == Append(q, x)
           ls == [i \in 1 .. Len(r) |-> Kept(r[i])]
<1>1. /\ r \in Seq(Nat) /\ Len(r) = Len(q) + 1 /\ r[Len(q) + 1] = x /\ Len(q) \in Nat
      /\ q \in Seq(Nat) /\ \A i \in 1 .. Len(q) : r[i] = q[i] /\ q[i] \in Nat
  BY DEF Octets
<1>2. \A y \in Nat : Kept(y) \in Octets
  BY DEF Kept, Octets
<1>3. ks \in Seq(Octets) /\ Len(ks) = Len(q) /\ \A i \in 1 .. Len(q) : ks[i] = Kept(q[i])
  BY <1>1, <1>2
<1> HIDE DEF r
<1>4. ls = Append(ks, Kept(x))
  <2> DEFINE ms == Append(ks, Kept(x))
  <2>1. /\ ls \in Seq(Octets) /\ Len(ls) = Len(q) + 1
        /\ \A i \in 1 .. Len(q) + 1 : ls[i] = Kept(r[i])
    <3>1. \A i \in 1 .. Len(r) : r[i] \in Nat
      BY <1>1, SMTT(60)
    <3> QED
      BY <1>1, <1>2, <3>1, SMTT(60)
  <2>2. /\ ms \in Seq(Octets) /\ Len(ms) = Len(q) + 1 /\ ms[Len(q) + 1] = Kept(x)
        /\ \A i \in 1 .. Len(q) : ms[i] = ks[i]
    BY <1>2, <1>3, AppendProperties, SMTT(60)
  <2> HIDE DEF ls, ks, ms
  <2>3. \A i \in 1 .. Len(ls) : ls[i] = ms[i]
    <3> SUFFICES ASSUME NEW i \in 1 .. Len(ls) PROVE ls[i] = ms[i]
      OBVIOUS
    <3>1. ls[i] = Kept(r[i])
      BY <2>1, SMTT(60)
    <3>2. CASE i \in 1 .. Len(q)
      BY <1>1, <1>3, <2>2, <3>1, <3>2, Zenon
    <3>3. CASE i = Len(q) + 1
      BY <1>1, <2>2, <3>1, <3>3, ZenonT(60)
    <3> QED
      BY <1>1, <2>1, <3>2, <3>3, SMTT(60)
  <2>4. ls = ms
    BY <2>1, <2>2, <2>3, SeqEqual, SMTT(60)
  <2> QED
    BY <2>4 DEF ms
<1>5. NonSpace(q) = Flatten(ks) /\ NonSpace(r) = Flatten(ls)
  <2>1. DOMAIN q = 1 .. Len(q) /\ DOMAIN r = 1 .. Len(r)
    BY <1>1
  <2>2. ks = [i \in DOMAIN q |-> IF q[i] = SPACE THEN <<>> ELSE <<q[i]>>]
    BY <2>1 DEF Kept
  <2>3. ls = [i \in DOMAIN r |-> IF r[i] = SPACE THEN <<>> ELSE <<r[i]>>]
    BY <2>1 DEF Kept
  <2> QED
    BY <2>2, <2>3, Zenon DEF NonSpace
<1> QED
  BY <1>2, <1>3, <1>4, <1>5, FlattenAppend, FlattenTyped, Zenon DEF r

\* Nothing to leave out of nothing.
LEMMA NonSpaceEmpty == NonSpace(<<>>) = <<>>
<1>1. [i \in DOMAIN <<>> |-> IF <<>>[i] = SPACE THEN <<>> ELSE <<<<>>[i]>>] = <<>>
  OBVIOUS
<1> QED
  BY <1>1, FlattenEmpty DEF NonSpace

\* What is kept is a string of bytes.
LEMMA NonSpaceTyped ==
    ASSUME NEW q \in Octets
    PROVE  NonSpace(q) \in Octets
BY NonSpaceNext

\* White space is left out of two strings separately.
LEMMA NonSpaceConcat ==
    ASSUME NEW p \in Octets, NEW q \in Octets
    PROVE  NonSpace(p \o q) = NonSpace(p) \o NonSpace(q)
<1> DEFINE T == {t \in Octets : NonSpace(p \o t) = NonSpace(p) \o NonSpace(t)}
<1>1. <<>> \in T
  BY NonSpaceEmpty, NonSpaceTyped, ConcatEmpty, LeadsTyped, Zenon
<1>2. ASSUME NEW s \in Octets, NEW x \in Nat, s \in T PROVE Append(s, x) \in T
  <2>1. p \o Append(s, x) = Append(p \o s, x) /\ Append(s, x) \in Octets
    BY ConcatAppend, SMTT(60) DEF Octets
  <2>2. p \o s \in Octets
    BY Assoc
  <2>3. NonSpace(Append(p \o s, x)) = NonSpace(p \o s) \o Kept(x)
    BY <2>2, NonSpaceNext
  <2>4. NonSpace(Append(s, x)) = NonSpace(s) \o Kept(x)
    BY NonSpaceNext, SMTT(60)
  <2>5. (NonSpace(p) \o NonSpace(s)) \o Kept(x) = NonSpace(p) \o (NonSpace(s) \o Kept(x))
    <3>1. NonSpace(p) \in Octets /\ NonSpace(s) \in Octets
      BY NonSpaceTyped
    <3>2. Kept(x) \in Octets
      BY DEF Kept, Octets
    <3> QED
      BY <3>1, <3>2, Reassoc, SMTT(60)
  <2> QED
    BY <1>2, <2>1, <2>3, <2>4, <2>5, Zenon
<1>3. Seq(Nat) \subseteq T
  <2>1. \A s \in Seq(Nat), x \in Nat : s \in T => Append(s, x) \in T
    BY <1>2, Zenon DEF Octets
  <2> HIDE DEF T
  <2> QED
    BY <1>1, <2>1, SeqInduction
<1> QED
  BY <1>3 DEF Octets

\* White space only, and none at all.
LEMMA NonSpaceOf ==
    ASSUME NEW q \in Octets
    PROVE  /\ (\A i \in 1 .. Len(q) : q[i] = SPACE) => NonSpace(q) = <<>>
           /\ (\A i \in 1 .. Len(q) : q[i] # SPACE) => NonSpace(q) = q
<1> DEFINE T == {t \in Octets :
                   /\ (\A i \in 1 .. Len(t) : t[i] = SPACE) => NonSpace(t) = <<>>
                   /\ (\A i \in 1 .. Len(t) : t[i] # SPACE) => NonSpace(t) = t}
<1>1. <<>> \in T
  BY NonSpaceEmpty, LeadsTyped
<1>2. ASSUME NEW s \in Octets, NEW x \in Nat, s \in T PROVE Append(s, x) \in T
  <2> DEFINE r == Append(s, x)
  <2>1. /\ r \in Octets /\ r[Len(s) + 1] = x /\ Len(r) = Len(s) + 1 /\ Len(s) \in Nat
        /\ (\A i \in 1 .. Len(s) : r[i] = s[i]) /\ r = s \o <<x>>
    BY SMTT(60) DEF Octets
  <2>2. NonSpace(r) = NonSpace(s) \o Kept(x)
    BY NonSpaceNext, SMTT(60)
  <2> HIDE DEF r
  <2>3. ASSUME \A i \in 1 .. Len(r) : r[i] = SPACE PROVE NonSpace(r) = <<>>
    <3>1. x = SPACE /\ \A i \in 1 .. Len(s) : s[i] = SPACE
      BY <2>1, <2>3, SMTT(60)
    <3>2. NonSpace(s) = <<>> /\ Kept(x) = <<>>
      BY <1>2, <3>1, SMTT(60) DEF Kept
    <3> QED
      BY <2>2, <3>2, ConcatEmpty, LeadsTyped, SMTT(60)
  <2>4. ASSUME \A i \in 1 .. Len(r) : r[i] # SPACE PROVE NonSpace(r) = r
    <3>1. x # SPACE /\ \A i \in 1 .. Len(s) : s[i] # SPACE
      BY <2>1, <2>4
    <3>2. NonSpace(s) = s /\ Kept(x) = <<x>>
      BY <1>2, <3>1 DEF Kept
    <3> QED
      BY <2>1, <2>2, <3>2, SMTT(60)
  <2> QED
    BY <2>1, <2>3, <2>4, Zenon DEF r
<1>3. Seq(Nat) \subseteq T
  <2>1. \A s \in Seq(Nat), x \in Nat : s \in T => Append(s, x) \in T
    BY <1>2, Zenon DEF Octets
  <2> HIDE DEF T
  <2> QED
    BY <1>1, <2>1, SeqInduction, SMTT(60)
<1> QED
  BY <1>3 DEF Octets

\* The words the client of c has sent: taken, or still to come.
Words(c) ==
    Flatten(taken[c]) \o NonSpace(in_packet[c] \o stream[c]) = NonSpace(Stream[c])

\* extract takes the first word and leaves what comes after it.
LEMMA ExtractWord ==
    ASSUME NEW buf \in Octets
    PROVE  LET w == extract(buf)
               kept == Drop(buf, word_end(buf).after - 1)
           IN  w \in Octets /\ kept \in Octets /\ NonSpace(buf) = w \o NonSpace(kept)
<1> DEFINE f == word_end(buf).first
           a == word_end(buf).after
           N == Len(buf)
           x == SubSeq(buf, 1, f - 1)
           w == SubSeq(buf, f, a - 1)
           v == SubSeq(buf, 1, a - 1)
           k == Drop(buf, a - 1)
<1>1. /\ f \in 1 .. N + 1 /\ a \in f .. N + 1 /\ N \in Nat /\ buf \in Seq(Nat)
      /\ \A i \in 1 .. f - 1 : buf[i] = SPACE
      /\ \A i \in f .. a - 1 : buf[i] # SPACE
  BY WordEnds, SMTT(60) DEF Octets
<1> HIDE DEF f, a
<1>2. /\ x \in Octets /\ Len(x) = f - 1 /\ \A i \in 1 .. f - 1 : x[i] = buf[i]
      /\ w \in Octets /\ Len(w) = a - f /\ \A i \in 1 .. a - f : w[i] = buf[f + i - 1]
  BY <1>1, SMTT(60) DEF Octets
<1>3. v \in Octets /\ k \in Octets /\ v \o k = buf
  <2>1. a - 1 \in 0 .. Len(buf)
    BY <1>1
  <2> QED
    BY <2>1, DropPart, Zenon
<1>4. v = x \o w
  <2>1. /\ 1 \in 1 .. Len(buf) + 1 /\ f - 1 \in 1 - 1 .. Len(buf)
        /\ a - 1 \in f - 1 .. Len(buf) /\ (f - 1) + 1 = f
    BY <1>1
  <2>2. SubSeq(buf, 1, f - 1) \o SubSeq(buf, (f - 1) + 1, a - 1) = SubSeq(buf, 1, a - 1)
    BY <1>1, <2>1, ConcatAdjacentSubSeq, SMTT(60)
  <2> QED
    BY <2>1, <2>2, Zenon
<1> HIDE DEF x, w, v, k, N
<1>5. NonSpace(x) = <<>>
  BY <1>1, <1>2, NonSpaceOf, Zenon
<1>6. NonSpace(w) = w
  <2>1. \A i \in 1 .. Len(w) : w[i] # SPACE
    <3> SUFFICES ASSUME NEW i \in 1 .. Len(w) PROVE w[i] # SPACE
      OBVIOUS
    <3>1. f + i - 1 \in f .. a - 1 /\ i \in 1 .. a - f
      BY <1>1, <1>2, SMTT(60)
    <3> QED
      BY <1>1, <1>2, <3>1, SMTT(60)
  <2> QED
    BY <1>2, <2>1, NonSpaceOf, SMTT(60)
<1>7. NonSpace(buf) = NonSpace(v) \o NonSpace(k) /\ NonSpace(v) = NonSpace(x) \o NonSpace(w)
  BY <1>2, <1>3, <1>4, NonSpaceConcat, ZenonT(60)
<1>8. NonSpace(buf) = w \o NonSpace(k)
  BY <1>2, <1>5, <1>6, <1>7, ConcatEmpty, SMTT(60)
<1> QED
  BY <1>2, <1>3, <1>8, Zenon DEF extract, w, k, f, a

\* read_packet_done takes a whole word, and no other handler takes any.
LEMMA WordsKept ==
    ASSUME ForwardInv, [Next]_vars, NEW c \in Conns, Words(c)
    PROVE  Words(c)'
<1>1. ASSUME taken'[c] = taken[c], in_packet'[c] = in_packet[c], stream'[c] = stream[c]
      PROVE  Words(c)'
  BY <1>1, SMTT(60) DEF Words
<1>2. CASE UNCHANGED <<stream, in_packet, taken>>
  BY <1>1, <1>2
<1>3. ASSUME NEW d \in Conns, read_packet_done(d) PROVE Words(c)'
  <2>1. CASE d # c
    BY <1>1, <1>3, <2>1, ZenonT(60) DEF read_packet_done, ForwardInv, ForwardTypes
  <2>2. CASE d = c
    <3>1. PICK n \in 0 .. Len(stream[c]) :
              LET buf == in_packet[c] \o SubSeq(stream[c], 1, n)
                  w == extract(buf)
              IN /\ buf \in Octets /\ w \in Octets
                 /\ Drop(stream[c], n) \in Octets
                 /\ Drop(buf, word_end(buf).after - 1) \in Octets
                 /\ stream' = [stream EXCEPT ![c] = Drop(@, n)]
                 /\ in_packet' = [in_packet EXCEPT ![c] = Drop(buf, word_end(buf).after - 1)]
                 /\ posted' = [posted EXCEPT ![c] = Append(@, slip_encode(<<c>> \o w, TRUE))]
                 /\ taken' = [taken EXCEPT ![c] = Append(@, w)]
                 /\ UNCHANGED <<queueVars, line, receiverVars, failures>>
      BY <1>3, <2>2, ReadParts, ZenonT(60) DEF ForwardInv
    <3> DEFINE i == in_packet[c]
               r == SubSeq(stream[c], 1, n)
               s == Drop(stream[c], n)
               buf == i \o r
               w == extract(buf)
               k == Drop(buf, word_end(buf).after - 1)
               F == Flatten(taken[c])
    <3>2. stream'[c] = s /\ in_packet'[c] = k /\ taken'[c] = Append(taken[c], w)
      BY <3>1 DEF ForwardInv, ForwardTypes
    <3>3. /\ i \in Octets /\ r \in Octets /\ s \in Octets /\ buf \in Octets /\ r \o s = stream[c]
          /\ taken[c] \in Seq(Octets) /\ F \in Octets
      <4>1. stream[c] \in Octets /\ i \in Octets /\ taken[c] \in Seq(Octets)
        BY ZenonT(60) DEF ForwardInv, ForwardTypes
      <4> QED
        BY <3>1, <4>1, DropPart, FlattenTyped, ZenonT(60)
    <3>4. w \in Octets /\ k \in Octets /\ NonSpace(buf) = w \o NonSpace(k)
      BY <3>3, ExtractWord, SMTT(60)
    <3>5. i \o stream[c] = buf \o s
      <4> HIDE DEF i, r, s
      <4>1. (i \o r) \o s = i \o (r \o s)
        BY <3>3, Reassoc, ZenonT(60)
      <4> QED
        BY <3>3, <4>1, SMTT(60)
    <3>6. Flatten(Append(taken[c], w)) = F \o w
      BY <3>3, <3>4, FlattenAppend, SMTT(60)
    <3>7. F \o NonSpace(buf \o s) = NonSpace(Stream[c])
      BY <3>5, SMTT(60) DEF Words
    <3> HIDE DEF w, k, s, buf, F
    <3>8. NonSpace(buf \o s) = NonSpace(buf) \o NonSpace(s) /\ NonSpace(k \o s) = NonSpace(k) \o NonSpace(s)
      BY <3>3, <3>4, NonSpaceConcat, Zenon
    <3> DEFINE K == NonSpace(k)
               S == NonSpace(s)
    <3>9. K \in Octets /\ S \in Octets /\ K \o S \in Octets
      BY <3>3, <3>4, NonSpaceTyped, Assoc, Zenon
    <3> HIDE DEF K, S
    <3>10. (w \o K) \o S = w \o (K \o S)
      BY <3>4, <3>9, Reassoc, Zenon
    <3> DEFINE KS == K \o S
    <3>11. (F \o w) \o KS = F \o (w \o KS)
      <4> HIDE DEF KS
      <4>1. KS \in Octets /\ F \in Octets /\ w \in Octets
        BY <3>3, <3>4, <3>9, ZenonT(60) DEF KS
      <4> QED
        BY <4>1, Reassoc, Zenon
    <3>12. (F \o w) \o NonSpace(k \o s) = NonSpace(Stream[c])
      BY <3>4, <3>7, <3>8, <3>10, <3>11, SMTT(60) DEF K, S
    <3> QED
      BY <3>2, <3>6, <3>12, SMTT(60) DEF Words
  <2> QED
    BY <2>1, <2>2, SMTT(60)
<1>4. ASSUME NEW d \in Conns, ClientGoes(d) PROVE UNCHANGED <<stream, in_packet, taken>>
  BY <1>4, ClientSteps DEF senderVars
<1>5. \/ UNCHANGED <<stream, in_packet, taken>>
      \/ \E d \in Conns : read_packet_done(d)
  BY <1>4, ZenonT(60) DEF Next, vars, senderVars, queue_message, write_some, packet_send_done,
         packet_send_failed, serial_read_handler, ClientGoes
<1> QED
  BY <1>2, <1>3, <1>5

\* Every handler leaves the words in order: dropped, sent, on the way.
LEMMA DeliveredKept ==
    ASSUME ForwardInv, [Next]_vars, NEW c \in Conns, \A d \in Conns : d = c, Delivered(c)
    PROVE  Delivered(c)'
<1>0. failures \in Nat
  BY DEF ForwardInv, ForwardTypes
<1>1. CASE UNCHANGED vars
  <2>1. /\ UNCHANGED <<taken, forwarded, ephemeral, running, failures, unprocessed, line>>
        /\ Behind(c)' = Behind(c) /\ (Alive(c)' <=> Alive(c))
    BY <1>1, SMTT(60) DEF vars, senderVars, queueVars, receiverVars, Behind, Alive
  <2>2. \A ws \in Seq(Octets) : OnTheWay(c, ws) => OnTheWay(c, ws)'
    BY <2>1, SameWay, SMTT(60)
  <2> QED
    BY <1>0, <2>1, <2>2, QueueSteps, ZenonT(60)
<1>2. CASE read_packet_done(c)
  <2>1. PICK skipped, sent, ws \in Seq(Octets) :
          /\ taken[c] = (skipped \o sent) \o ws
          /\ forwarded[c] = Flatten(sent)
          /\ failures = 0 => skipped = <<>>
          /\ c \notin ephemeral => sent = <<>>
          /\ running => OnTheWay(c, ws)
    BY ZenonT(60) DEF Delivered
  <2>2. UNCHANGED <<forwarded, ephemeral, running, failures>>
    BY <1>2 DEF read_packet_done, receiverVars
  <2>3. PICK w \in Octets : /\ taken'[c] = Append(taken[c], w)
                            /\ running => OnTheWay(c, Append(ws, w))'
    <3>1. CASE running
      BY <1>2, <2>1, <3>1, TakenWay, ZenonT(60)
    <3>2. CASE ~running
      <4>1. \E w \in Octets : taken'[c] = Append(taken[c], w)
        BY <1>2, ReadParts, ZenonT(60) DEF ForwardInv, ForwardTypes
      <4> QED
        BY <3>2, <4>1
    <3> QED
      BY <3>1, <3>2
  <2>4. taken'[c] = (skipped \o sent) \o Append(ws, w) /\ Append(ws, w) \in Seq(Octets)
    <3> DEFINE x == skipped \o sent
    <3>1. x \in Seq(Octets)
      OBVIOUS
    <3>2. taken'[c] = Append(x \o ws, w)
      BY <2>1, <2>3, Zenon
    <3> HIDE DEF x
    <3>3. x \o Append(ws, w) = Append(x \o ws, w)
      BY <3>1, ConcatAppend
    <3> QED
      BY <3>2, <3>3 DEF x
  <2> QED
    BY <2>1, <2>2, <2>3, <2>4, DeliveredNow, Zenon
<1>3. CASE queue_message(c)
  <2>1. UNCHANGED <<taken, forwarded, ephemeral, running, failures>>
    BY <1>3, Zenon DEF queue_message, receiverVars
  <2> QED
    BY <1>0, <1>3, <2>1, QueueMessageWay, QueueSteps, ZenonT(60)
<1>4. CASE write_some(c)
  <2>1. UNCHANGED <<taken, forwarded, ephemeral, running, failures>>
    BY <1>4, SMTT(60) DEF write_some, senderVars, receiverVars
  <2> QED
    BY <1>0, <1>4, <2>1, WriteWay, QueueSteps, SMTT(60)
<1>5. CASE packet_send_done(c)
  <2>1. UNCHANGED <<taken, forwarded, ephemeral, running, failures>>
    BY <1>5, SMTT(60) DEF packet_send_done, senderVars, receiverVars
  <2> QED
    BY <1>0, <1>5, <2>1, SentWay, QueueSteps
<1>6. CASE packet_send_failed(c)
  <2>1. UNCHANGED <<taken, forwarded, ephemeral, running>> /\ failures' = failures + 1
    BY <1>6 DEF packet_send_failed, senderVars, receiverVars
  <2> QED
    BY <1>0, <1>6, <2>1, FailedWay, QueueSteps, ZenonT(60)
<1>7. ASSUME NEW n \in 1 .. Min({MaxReadSize, Len(line)}), serial_read_handler(n)
      PROVE  Delivered(c)'
  BY <1>7, ReadSize, ReadDelivers, SMTT(60) DEF ForwardInv
<1>8. CASE ClientGoes(c)
  <2>1. /\ UNCHANGED <<senderVars, queueVars, line, receiverVars>>
        /\ failures' = failures \/ failures' = failures + 1
    BY <1>8, ClientSteps, Zenon
  <2>2. /\ UNCHANGED <<taken, forwarded, ephemeral, running, unprocessed, line>>
        /\ Behind(c)' = Behind(c) /\ (Alive(c)' => Alive(c))
    BY <2>1 DEF senderVars, queueVars, receiverVars, Behind, Alive
  <2>3. \A ws \in Seq(Octets) : OnTheWay(c, ws) => OnTheWay(c, ws)'
    BY <2>2, SameWay, SMTT(60)
  <2> QED
    BY <1>0, <2>1, <2>2, <2>3, QueueSteps, ZenonT(60)
<1> QED
  BY <1>1, <1>2, <1>3, <1>4, <1>5, <1>6, <1>7, <1>8, ZenonT(60) DEF Next, ClientGoes

\* At the start every word is still to come.
LEMMA ForwardStarts ==
    ASSUME Init, NEW c \in Conns
    PROVE  Words(c) /\ Delivered(c)
<1>1. Words(c)
  <2>1. Stream[c] \in Octets /\ <<>> \in Octets
    BY ForwardAssumption, LeadsTyped DEF Octets
  <2>2. taken[c] = <<>> /\ in_packet[c] = <<>> /\ stream[c] = Stream[c]
    BY DEF Init
  <2> QED
    BY <2>1, <2>2, FlattenEmpty, NonSpaceTyped, ConcatEmpty, Zenon DEF Words
<1>2. Delivered(c)
  <2> DEFINE e == <<>>
  <2>1. /\ taken[c] = e /\ forwarded[c] = e /\ ephemeral = {} /\ unprocessed = e /\ line = e
        /\ ~writing[c] /\ posted[c] = e
    BY DEF Init
  <2>2. e \in Octets /\ e \in Seq(Octets) /\ e \o e = e /\ Flatten(e) = e
    BY LeadsTyped, ConcatEmpty, FlattenEmpty
  <2>3. Behind(c) = e
    BY <2>1, <2>2 DEF Behind
  <2>4. Packed(c, e) = e
    BY DEF Packed
  <2>5. Carries((unprocessed \o line) \o e, Packed(c, e))
    BY <2>1, <2>2, <2>4, CarriesNone, SMTT(60)
  <2>6. OnTheWay(c, e)
    BY <2>2, <2>3, <2>5, Zenon DEF OnTheWay
  <2> HIDE DEF e
  <2>7. taken[c] = (e \o e) \o e /\ forwarded[c] = Flatten(e)
    BY <2>1, <2>2
  <2> QED
    BY <2>2, <2>6, <2>7, Zenon DEF Delivered, e
<1> QED
  BY <1>1, <1>2, SMTT(60)

\* The second of three sequences.
LEMMA MiddleOf ==
    ASSUME NEW x \in Seq(Octets), NEW y \in Seq(Octets), NEW z \in Seq(Octets)
    PROVE  SubSeq((x \o y) \o z, Len(x) + 1, Len(x) + Len(y)) = y
<1> DEFINE q == (x \o y) \o z
           m == SubSeq(q, Len(x) + 1, Len(x) + Len(y))
<1>1. /\ Len(x) \in Nat /\ Len(y) \in Nat /\ Len(z) \in Nat /\ q \in Seq(Octets)
      /\ Len(q) = Len(x) + Len(y) + Len(z)
      /\ \A i \in 1 .. Len(y) : q[Len(x) + i] = y[i]
  OBVIOUS
<1> HIDE DEF q
<1>2. /\ m \in Seq(Octets) /\ Len(m) = Len(y)
      /\ \A i \in 1 .. Len(y) : m[i] = q[Len(x) + i]
  BY <1>1, SMTT(60)
<1> HIDE DEF m
<1>3. \A i \in 1 .. Len(m) : m[i] = y[i]
  BY <1>1, <1>2, SMTT(60)
<1>4. m = y
  BY <1>2, <1>3, SeqEqual, SMTT(60)
<1> QED
  BY <1>4 DEF m, q

\* One client at a time.
OneClient == \A c, d \in Conns : c = d

\* The inductive invariant for one client.
LEMMA OneClientInvariant ==
    ASSUME OneClient
    PROVE  Spec => [](ForwardInv /\ \A c \in Conns : Words(c) /\ Delivered(c))
<1> DEFINE Inv == ForwardInv /\ \A c \in Conns : Words(c) /\ Delivered(c)
<1>1. Init => Inv
  BY ForwardInit, ForwardStarts, SMTT(60) DEF ForwardInv
<1>2. Inv /\ [Next]_vars => Inv'
  <2> SUFFICES ASSUME Inv, [Next]_vars PROVE Inv'
    BY SMTT(60)
  <2>1. ForwardInv'
    BY TypesKept, QueueKept, SMTT(60) DEF ForwardInv
  <2>2. ASSUME NEW c \in Conns PROVE Words(c)' /\ Delivered(c)'
    <3>1. \A d \in Conns : d = c
      BY DEF OneClient
    <3> QED
      BY <3>1, WordsKept, DeliveredKept, SMTT(60)
  <2> QED
    BY <2>1, <2>2
<1> QED
  BY <1>1, <1>2, PTL DEF Spec

\* With one client, whatever it sends and however reads and writes cut the
\* bytes: until something fails its words reach the server in order, none
\* missing in between and none twice, and those that have not been taken yet are
\* still to come.
THEOREM WordsInOrder ==
    ASSUME OneClient
    PROVE  Spec => []ForwardedInOrder
<1>1. (ForwardInv /\ \A c \in Conns : Words(c) /\ Delivered(c)) => ForwardedInOrder
  <2> SUFFICES ASSUME ForwardInv, NEW c \in Conns, Words(c), Delivered(c), failures = 0
               PROVE  \E n \in 0 .. Len(taken[c]) :
                         forwarded[c] = Flatten(SubSeq(taken[c], 1, n))
    BY SMTT(60) DEF ForwardedInOrder, Words
  <2>1. PICK skipped, sent, ws \in Seq(Octets) :
          /\ taken[c] = (skipped \o sent) \o ws
          /\ forwarded[c] = Flatten(sent)
          /\ skipped = <<>>
    BY Zenon DEF Delivered
  <2>2. taken[c] = sent \o ws
    BY <2>1, ConcatEmptySeq
  <2>3. \E n \in 0 .. Len(taken[c]) : sent = SubSeq(taken[c], 1, n)
    BY <2>2, PrefixOfConcat, SMTT(60)
  <2> QED
    BY <2>1, <2>3, Zenon
<1> QED
  BY <1>1, OneClientInvariant, PTL

\* With one client, whichever writes, connects and sends fail: what the server
\* gets is a contiguous part of the words, each of them whole.
THEOREM NoGap ==
    ASSUME OneClient
    PROVE  Spec => []FailuresLeaveNoGap
<1>1. (ForwardInv /\ \A c \in Conns : Words(c) /\ Delivered(c)) => FailuresLeaveNoGap
  <2> SUFFICES ASSUME NEW c \in Conns, Delivered(c)
               PROVE  \E a, b \in 0 .. Len(taken[c]) :
                         forwarded[c] = Flatten(SubSeq(taken[c], a + 1, b))
    BY DEF FailuresLeaveNoGap
  <2>1. PICK skipped, sent, ws \in Seq(Octets) :
          taken[c] = (skipped \o sent) \o ws /\ forwarded[c] = Flatten(sent)
    BY Zenon DEF Delivered
  <2> DEFINE a == Len(skipped)
             b == Len(skipped) + Len(sent)
  <2>2. SubSeq(taken[c], a + 1, b) = sent
    BY <2>1, MiddleOf
  <2>3. a \in 0 .. Len(taken[c]) /\ b \in 0 .. Len(taken[c])
    BY <2>1
  <2> QED
    BY <2>1, <2>2, <2>3, Zenon
<1> QED
  BY <1>1, OneClientInvariant, PTL

=============================================================================
