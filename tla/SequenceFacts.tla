----------------------------- MODULE SequenceFacts -----------------------------
(***************************************************************************)
(* Facts about numbers, sequences and strings of bytes for the proofs of   *)
(* the other modules.  Induction and recursion are stated about a set      *)
(* rather than about a predicate, and with a function for the step rather  *)
(* than an operator, so that the provers can instantiate them.             *)
(***************************************************************************)
EXTENDS ByteStrings, SequenceTheorems, WellFoundedInduction, TLAPS

\* A non-empty set of natural numbers has a least element.
LEMMA LeastNumber ==
    ASSUME NEW T, T \subseteq Nat, T # {}
    PROVE  \E x \in T : \A y \in T : x <= y
<1>1. PICK x \in T : \A y \in T : ~(<<y, x>> \in OpToRel(<, Nat))
  BY NatLessThanWellFounded, WFMin, Zenon
<1>2. \A y \in T : ~(y < x)
  BY <1>1, Zenon DEF OpToRel
<1> QED
  BY <1>2

\* A set that holds 0, and with a number the next one, holds every number: the
\* loops over lists and buffers of the programs reach everything they should.
THEOREM SetInduction ==
    ASSUME NEW S, 0 \in S, \A n \in Nat : n \in S => n + 1 \in S
    PROVE  Nat \subseteq S
<1> DEFINE T == {n \in Nat : n \notin S}
<1>1. CASE T = {}
  BY <1>1
<1>2. CASE T # {}
  <2>1. PICK x \in T : \A y \in T : x <= y
    BY <1>2, LeastNumber, Zenon
  <2>2. x # 0 /\ x \in Nat /\ x \notin S
    OBVIOUS
  <2>3. x - 1 \in Nat /\ x - 1 \notin S /\ x - 1 \in T
    BY <2>2
  <2> QED
    BY <2>1, <2>3
<1> QED
  BY <1>1, <1>2

\* Induction along a loop of N steps.
LEMMA BoundedInduction ==
    ASSUME NEW N \in Nat, NEW T, 0 \in T, \A n \in 1 .. N : n - 1 \in T => n \in T
    PROVE  \A n \in 0 .. N : n \in T
<1> DEFINE S == {n \in Nat : n <= N => n \in T}
<1>1. 0 \in S
  OBVIOUS
<1>2. ASSUME NEW n \in Nat, n \in S PROVE n + 1 \in S
  <2> SUFFICES ASSUME n + 1 <= N PROVE n + 1 \in T
    OBVIOUS
  <2>1. n + 1 \in 1 .. N /\ (n + 1) - 1 = n /\ n \in T
    BY <1>2
  <2> QED
    BY <2>1
<1>3. Nat \subseteq S
  <2> HIDE DEF S
  <2> QED
    BY <1>1, <1>2, SetInduction
<1> QED
  BY <1>3

-----------------------------------------------------------------------------
(* Recursive functions on 0 .. N.                                          *)

\* f is what a loop of N steps computes in S: a at first, then G[n] of what
\* the step before has left.
Loop(f, N, S, a, G) ==
    /\ f \in [0 .. N -> S]
    /\ f[0] = a
    /\ \A n \in 1 .. N : f[n] = G[n][f[n - 1]]

\* A loop whose steps stay within S has an outcome: what the recursive
\* functions of the models are defined to be does exist.
THEOREM LoopExists ==
    ASSUME NEW N, N \in Nat, NEW S, NEW a, a \in S, NEW G, G \in [1 .. N -> [S -> S]]
    PROVE  \E f : Loop(f, N, S, a, G)
<1> DEFINE T == {n \in Nat : \E f : Loop(f, n, S, a, G)}
<1>1. 0 \in T
  <2>1. Loop([m \in 0 .. 0 |-> a], 0, S, a, G)
    BY DEF Loop
  <2> QED
    BY <2>1
<1>2. ASSUME NEW n \in 1 .. N, n - 1 \in T PROVE n \in T
  <2>1. PICK f : Loop(f, n - 1, S, a, G)
    BY <1>2
  <2> DEFINE g == [m \in 0 .. n |-> IF m = n THEN G[n][f[n - 1]] ELSE f[m]]
  <2>2. f[n - 1] \in S /\ G[n][f[n - 1]] \in S
    BY <2>1 DEF Loop
  <2>3. g \in [0 .. n -> S] /\ g[0] = a
    BY <2>1, <2>2 DEF Loop
  <2>4. ASSUME NEW m \in 1 .. n PROVE g[m] = G[m][g[m - 1]]
    <3>1. g[m - 1] = f[m - 1]
      OBVIOUS
    <3>2. CASE m = n
      <4>1. g[n] = G[n][f[n - 1]]
        OBVIOUS
      <4> HIDE DEF g
      <4> QED
        BY <3>1, <3>2, <4>1
    <3>3. CASE m # n
      <4>1. m \in 1 .. n - 1 /\ g[m] = f[m]
        BY <3>3
      <4> HIDE DEF g
      <4> QED
        BY <2>1, <3>1, <4>1 DEF Loop
    <3> QED
      BY <3>2, <3>3
  <2> HIDE DEF g
  <2>5. Loop(g, n, S, a, G)
    BY <2>3, <2>4 DEF Loop
  <2> QED
    BY <2>5
<1>3. \A n \in 0 .. N : n \in T
  <2> HIDE DEF T
  <2> QED
    BY <1>1, <1>2, BoundedInduction, Zenon
<1> QED
  BY <1>3

-----------------------------------------------------------------------------
(* Sequences.                                                              *)

\* A set that holds the empty sequence, and with a sequence the ones that are
\* longer by one element, holds every sequence.
THEOREM SeqInduction ==
    ASSUME NEW S, NEW T, <<>> \in T,
           \A s \in Seq(S), e \in S : s \in T => Append(s, e) \in T
    PROVE  Seq(S) \subseteq T
<1> DEFINE U == {n \in Nat : \A s \in Seq(S) : Len(s) = n => s \in T}
<1>1. 0 \in U
  OBVIOUS
<1>2. ASSUME NEW n \in Nat, n \in U PROVE n + 1 \in U
  <2> SUFFICES ASSUME NEW s \in Seq(S), Len(s) = n + 1 PROVE s \in T
    OBVIOUS
  <2>1. PICK r \in Seq(S), e \in S : s = Append(r, e)
    BY SequenceEmptyOrAppend
  <2>2. r \in T
    BY <1>2, <2>1
  <2> QED
    BY <2>1, <2>2
<1>3. Nat \subseteq U
  <2> HIDE DEF U
  <2> QED
    BY <1>1, <1>2, SetInduction
<1> QED
  BY <1>3

\* Appending at the end of the second of two stretches.
LEMMA ConcatAppend ==
    ASSUME NEW S, NEW s \in Seq(S), NEW t \in Seq(S), NEW e \in S
    PROVE  s \o Append(t, e) = Append(s \o t, e)
<1>1. /\ Append(t, e) = t \o <<e>> /\ <<e>> \in Seq(S) /\ s \o t \in Seq(S)
      /\ Append(s \o t, e) = (s \o t) \o <<e>>
  BY AppendIsConcat
<1> QED
  BY <1>1, ConcatAssociative

\* A sequence around one of its elements.
LEMMA SplitAt ==
    ASSUME NEW S, NEW q \in Seq(S), NEW i \in 1 .. Len(q)
    PROVE  q = SubSeq(q, 1, i - 1) \o (<<q[i]>> \o SubSeq(q, i + 1, Len(q)))
<1>1. /\ Len(q) \in Nat /\ 1 \in 1 .. Len(q) + 1 /\ i - 1 \in 1 - 1 .. Len(q)
      /\ Len(q) \in i - 1 .. Len(q) /\ Len(q) \in i .. Len(q) /\ (i - 1) + 1 = i
  OBVIOUS
<1>2. SubSeq(q, 1, i - 1) \o SubSeq(q, (i - 1) + 1, Len(q)) = SubSeq(q, 1, Len(q))
  BY <1>1, ConcatAdjacentSubSeq, Zenon
<1>3. SubSeq(q, i, Len(q)) = <<q[i]>> \o SubSeq(q, i + 1, Len(q))
  BY <1>1, SubSeqRecursiveFirst, Zenon
<1>4. SubSeq(q, 1, Len(q)) = q
  BY SubSeqFull, Zenon
<1> QED
  BY <1>1, <1>2, <1>3, <1>4, Zenon

\* The oldest element moves from one queue to the end of another.
LEMMA Moved ==
    ASSUME NEW S, NEW a \in Seq(S), NEW q \in Seq(S), q # <<>>
    PROVE  /\ (a \o <<Head(q)>>) \o Tail(q) = a \o q
           /\ Append(a, Head(q)) \o Tail(q) = a \o q
<1>1. /\ Head(q) \in S /\ <<Head(q)>> \in Seq(S) /\ Tail(q) \in Seq(S)
      /\ <<Head(q)>> \o Tail(q) = q
  OBVIOUS
<1>2. (a \o <<Head(q)>>) \o Tail(q) = a \o (<<Head(q)>> \o Tail(q))
  <2> DEFINE h == <<Head(q)>>
             t == Tail(q)
  <2>1. h \in Seq(S) /\ t \in Seq(S)
    BY <1>1
  <2> HIDE DEF h, t
  <2>2. (a \o h) \o t = a \o (h \o t)
    BY <2>1, ConcatAssociative, SMTT(60)
  <2> QED
    BY <2>2 DEF h, t
<1>3. Append(a, Head(q)) = a \o <<Head(q)>>
  BY <1>1, AppendIsConcat, Zenon
<1> QED
  BY <1>1, <1>2, <1>3, Zenon

\* A single element in front of a sequence is its head.
LEMMA HeadTailOne ==
    ASSUME NEW S, NEW x \in S, NEW p \in Seq(S)
    PROVE  <<x>> \o p # <<>> /\ Head(<<x>> \o p) = x /\ Tail(<<x>> \o p) = p
<1> DEFINE q == <<x>> \o p
<1>1. /\ q \in Seq(S) /\ Len(p) \in Nat /\ Len(q) = 1 + Len(p) /\ q[1] = x
      /\ \A i \in 1 .. Len(p) : q[i + 1] = p[i]
  OBVIOUS
<1> HIDE DEF q
<1>2. q # <<>> /\ Head(q) = x
  BY <1>1
<1>3. /\ Tail(q) \in Seq(S) /\ Len(Tail(q)) = Len(p)
      /\ \A i \in 1 .. Len(p) : Tail(q)[i] = p[i]
  BY <1>1, <1>2
<1>4. Tail(q) = p
  BY <1>3
<1> QED
  BY <1>2, <1>4 DEF q

\* Three sequences of numbers one after the other.
LEMMA NatConcat == \A x, y, z \in Seq(Nat) : (x \o y) \o z = x \o (y \o z)
BY SMTT(60)

\* r is p without one of its elements.
Removed(p, r) ==
    \E i \in 1 .. Len(p) : r = SubSeq(p, 1, i - 1) \o SubSeq(p, i + 1, Len(p))

\* Leaving out an element in the middle.
LEMMA RemovedConcat ==
    ASSUME NEW S, NEW a \in Seq(S), NEW x \in S, NEW c \in Seq(S)
    PROVE  Removed(a \o (<<x>> \o c), a \o c)
<1> DEFINE p == a \o (<<x>> \o c)
           i == Len(a) + 1
           before == SubSeq(p, 1, i - 1)
           after == SubSeq(p, i + 1, Len(p))
<1>1. /\ Len(a) \in Nat /\ Len(c) \in Nat /\ p \in Seq(S) /\ i \in 1 .. Len(p)
      /\ Len(p) = Len(a) + 1 + Len(c)
      /\ \A k \in 1 .. Len(a) : p[k] = a[k]
      /\ \A k \in 1 .. Len(c) : p[i + k] = c[k]
  OBVIOUS
<1>2. before = a
  <2>1. before \in Seq(S) /\ Len(before) = Len(a) /\ \A k \in 1 .. Len(a) : before[k] = a[k]
    BY <1>1
  <2> HIDE DEF before
  <2> QED
    BY <2>1
<1>3. after = c
  <2>1. after \in Seq(S) /\ Len(after) = Len(c) /\ \A k \in 1 .. Len(c) : after[k] = c[k]
    BY <1>1, SMTT(60)
  <2> HIDE DEF after
  <2> QED
    BY <2>1
<1> HIDE DEF p, i
<1>4. Removed(p, a \o c)
  BY <1>1, <1>2, <1>3, Zenon DEF Removed
<1> QED
  BY <1>4 DEF p

-----------------------------------------------------------------------------
(* Strings of bytes.                                                       *)

\* Strings of bytes.
Octets == Seq(Nat)

\* p and q have the same first k bytes.
Agree(p, q, k) ==
    k <= Len(p) /\ k <= Len(q) /\ \A i \in 1 .. k : p[i] = q[i]

\* Flatten appends the parts one after the other, as the loops of slip.cpp append
\* to DEST.
LEMMA FlattenUnfolds ==
    ASSUME NEW s \in Seq(Octets)
    PROVE  \E f \in [0 .. Len(s) -> Octets] :
              /\ f[0] = <<>>
              /\ \A n \in 1 .. Len(s) : f[n] = f[n - 1] \o s[n]
              /\ Flatten(s) = f[Len(s)]
<1> DEFINE N == Len(s)
           G == [n \in 1 .. N |-> [b \in Octets |-> b \o s[n]]]
           Unfolds(h) == h = [n \in 0 .. N |-> IF n = 0 THEN <<>> ELSE h[n - 1] \o s[n]]
           upTo == CHOOSE h : Unfolds(h)
<1>0. N \in Nat /\ <<>> \in Octets /\ \A n \in 1 .. N : s[n] \in Octets
  BY DEF Octets
<1>1. ASSUME NEW a \in Octets, NEW b \in Octets PROVE a \o b \in Octets
  BY DEF Octets
<1>2. Flatten(s) = upTo[N]
  BY DEF Flatten
<1> HIDE DEF N
<1>3. G \in [1 .. N -> [Octets -> Octets]]
  BY <1>0, <1>1
<1>4. PICK f : Loop(f, N, Octets, <<>>, G)
  <2> HIDE DEF G
  <2> QED
    BY <1>0, <1>3, LoopExists
<1>5. /\ f \in [0 .. N -> Octets] /\ f[0] = <<>>
      /\ \A n \in 1 .. N : f[n] = f[n - 1] \o s[n]
  <2>1. f \in [0 .. N -> Octets] /\ f[0] = <<>>
    BY <1>4 DEF Loop
  <2>2. ASSUME NEW n \in 1 .. N PROVE f[n] = f[n - 1] \o s[n]
    <3>1. n - 1 \in 0 .. N /\ f[n - 1] \in Octets
      BY <1>0, <2>1
    <3>2. f[n] = G[n][f[n - 1]]
      BY <1>4, SMTT(60) DEF Loop
    <3> QED
      BY <3>1, <3>2, Zenon
  <2> QED
    BY <2>1, <2>2, Zenon
<1> HIDE DEF G
<1>6. Unfolds(f)
  <2>1. \A n \in 0 .. N : f[n] = IF n = 0 THEN <<>> ELSE f[n - 1] \o s[n]
    BY <1>0, <1>5, SMTT(60)
  <2> QED
    BY <1>5, <2>1, Zenon
<1>7. Unfolds(upTo)
  BY <1>6, Zenon
<1> HIDE DEF upTo
<1>8. \A n \in 0 .. N : upTo[n] = IF n = 0 THEN <<>> ELSE upTo[n - 1] \o s[n]
  BY <1>7, Zenon
<1> DEFINE T == {n \in 0 .. N : upTo[n] = f[n]}
<1>9. 0 \in T
  BY <1>0, <1>5, <1>8
<1>10. ASSUME NEW n \in 1 .. N, n - 1 \in T PROVE n \in T
  <2>1. n \in 0 .. N /\ n # 0 /\ upTo[n - 1] = f[n - 1]
    BY <1>0, <1>10
  <2>2. upTo[n] = upTo[n - 1] \o s[n]
    BY <1>8, <2>1, Zenon
  <2>3. f[n] = f[n - 1] \o s[n]
    BY <1>5, Zenon
  <2> QED
    BY <2>1, <2>2, <2>3, Zenon
<1>11. \A n \in 0 .. N : n \in T
  <2> HIDE DEF T
  <2> QED
    BY <1>0, <1>9, <1>10, BoundedInduction, Zenon
<1> QED
  BY <1>0, <1>2, <1>5, <1>11 DEF N

\* The sum of natural numbers is one, and one more number is added to it.
LEMMA SumUnfolds ==
    ASSUME NEW s \in Octets
    PROVE  \E f \in [0 .. Len(s) -> Nat] :
              /\ f[0] = 0
              /\ \A n \in 1 .. Len(s) : f[n] = f[n - 1] + s[n]
              /\ SumOf(s) = f[Len(s)]
<1> DEFINE N == Len(s)
           G == [n \in 1 .. N |-> [b \in Nat |-> b + s[n]]]
           Unfolds(h) == h = [n \in 0 .. N |-> IF n = 0 THEN 0 ELSE h[n - 1] + s[n]]
           upTo == CHOOSE h : Unfolds(h)
<1>0. N \in Nat /\ \A n \in 1 .. N : s[n] \in Nat
  BY DEF Octets
<1>2. SumOf(s) = upTo[N]
  BY DEF SumOf
<1> HIDE DEF N
<1>3. G \in [1 .. N -> [Nat -> Nat]]
  BY <1>0
<1>4. PICK f : Loop(f, N, Nat, 0, G)
  <2> HIDE DEF G
  <2> QED
    BY <1>0, <1>3, LoopExists, Zenon
<1>5. /\ f \in [0 .. N -> Nat] /\ f[0] = 0
      /\ \A n \in 1 .. N : f[n] = f[n - 1] + s[n]
  <2>1. f \in [0 .. N -> Nat] /\ f[0] = 0
    BY <1>4 DEF Loop
  <2>2. ASSUME NEW n \in 1 .. N PROVE f[n] = f[n - 1] + s[n]
    <3>1. n - 1 \in 0 .. N /\ f[n - 1] \in Nat
      BY <1>0, <2>1
    <3>2. f[n] = G[n][f[n - 1]]
      BY <1>4 DEF Loop
    <3> QED
      BY <3>1, <3>2
  <2> QED
    BY <2>1, <2>2
<1> HIDE DEF G
<1>6. Unfolds(f)
  <2>1. \A n \in 0 .. N : f[n] = IF n = 0 THEN 0 ELSE f[n - 1] + s[n]
    BY <1>0, <1>5, SMTT(60)
  <2> QED
    BY <1>5, <2>1
<1>7. Unfolds(upTo)
  BY <1>6, Zenon
<1> HIDE DEF upTo
<1>8. \A n \in 0 .. N : upTo[n] = IF n = 0 THEN 0 ELSE upTo[n - 1] + s[n]
  BY <1>7, Zenon
<1> DEFINE T == {n \in 0 .. N : upTo[n] = f[n]}
<1>9. 0 \in T
  BY <1>0, <1>5, <1>8
<1>10. ASSUME NEW n \in 1 .. N, n - 1 \in T PROVE n \in T
  <2>1. n \in 0 .. N /\ n # 0 /\ upTo[n - 1] = f[n - 1]
    BY <1>0, <1>10
  <2>2. upTo[n] = upTo[n - 1] + s[n]
    BY <1>8, <2>1
  <2>3. f[n] = f[n - 1] + s[n]
    BY <1>5
  <2> QED
    BY <2>1, <2>2, <2>3
<1>11. \A n \in 0 .. N : n \in T
  <2> HIDE DEF T
  <2> QED
    BY <1>0, <1>9, <1>10, BoundedInduction
<1> QED
  BY <1>0, <1>2, <1>5, <1>11, SMTT(60) DEF N

\* A sum of natural numbers is one.
LEMMA SumTyped ==
    ASSUME NEW s \in Octets
    PROVE  SumOf(s) \in Nat
<1>1. PICK f \in [0 .. Len(s) -> Nat] : SumOf(s) = f[Len(s)]
  BY SumUnfolds
<1>2. Len(s) \in 0 .. Len(s)
  BY DEF Octets
<1> QED
  BY <1>1, <1>2

\* Parts that are strings of bytes make a string of bytes.
LEMMA FlattenTyped ==
    ASSUME NEW s \in Seq(Octets)
    PROVE  Flatten(s) \in Octets
<1>1. PICK f \in [0 .. Len(s) -> Octets] : Flatten(s) = f[Len(s)]
  BY FlattenUnfolds, Zenon
<1>2. Len(s) \in 0 .. Len(s)
  OBVIOUS
<1> QED
  BY <1>1, <1>2

\* No parts, no bytes.
LEMMA FlattenEmpty == Flatten(<<>>) = <<>>
<1>1. <<>> \in Seq(Octets) /\ Len(<<>>) = 0
  OBVIOUS
<1>2. PICK f \in [0 .. Len(<<>>) -> Octets] : f[0] = <<>> /\ Flatten(<<>>) = f[Len(<<>>)]
  BY <1>1, FlattenUnfolds, Zenon
<1> QED
  BY <1>1, <1>2

\* One more part goes behind what the others made.
LEMMA FlattenAppend ==
    ASSUME NEW s \in Seq(Octets), NEW e \in Octets
    PROVE  Flatten(Append(s, e)) = Flatten(s) \o e
<1> DEFINE t == Append(s, e)
           N == Len(s)
<1>1. /\ t \in Seq(Octets) /\ N \in Nat /\ Len(t) = N + 1 /\ t[N + 1] = e
      /\ \A n \in 1 .. N : t[n] = s[n]
  OBVIOUS
<1> HIDE DEF t
<1>2. PICK f \in [0 .. N -> Octets] :
          /\ f[0] = <<>>
          /\ \A n \in 1 .. N : f[n] = f[n - 1] \o s[n]
          /\ Flatten(s) = f[N]
  BY FlattenUnfolds, Zenon
<1>3. PICK g \in [0 .. N + 1 -> Octets] :
          /\ g[0] = <<>>
          /\ \A n \in 1 .. N + 1 : g[n] = g[n - 1] \o t[n]
          /\ Flatten(t) = g[N + 1]
  BY <1>1, FlattenUnfolds
<1> HIDE DEF N
<1> DEFINE T == {n \in 0 .. N : g[n] = f[n]}
<1>4. 0 \in T
  BY <1>1, <1>2, <1>3
<1>5. ASSUME NEW n \in 1 .. N, n - 1 \in T PROVE n \in T
  <2>1. n \in 0 .. N /\ n \in 1 .. N + 1 /\ g[n - 1] = f[n - 1]
    BY <1>1, <1>5
  <2>2. g[n] = g[n - 1] \o t[n] /\ f[n] = f[n - 1] \o s[n]
    BY <1>2, <1>3, <2>1, Zenon
  <2>3. t[n] = s[n]
    BY <1>1
  <2> QED
    BY <2>1, <2>2, <2>3, Zenon
<1>6. \A n \in 0 .. N : n \in T
  <2> HIDE DEF T
  <2> QED
    BY <1>1, <1>4, <1>5, BoundedInduction, Zenon
<1>7. g[N] = f[N] /\ N + 1 \in 1 .. N + 1 /\ (N + 1) - 1 = N
  BY <1>1, <1>6
<1>8. Flatten(t) = Flatten(s) \o e
  BY <1>1, <1>2, <1>3, <1>7, Zenon
<1> QED
  BY <1>8 DEF t

\* A single part is itself.
LEMMA FlattenOne ==
    ASSUME NEW e \in Octets
    PROVE  Flatten(<<e>>) = e
<1>1. Append(<<>>, e) = <<e>> /\ <<>> \in Seq(Octets)
  OBVIOUS
<1>2. Flatten(Append(<<>>, e)) = Flatten(<<>>) \o e
  BY <1>1, FlattenAppend, Zenon
<1>3. <<>> \o e = e
  BY DEF Octets
<1> QED
  BY <1>1, <1>2, <1>3, FlattenEmpty, Zenon

\* Two runs of parts, one behind the other.
LEMMA FlattenConcat ==
    ASSUME NEW s \in Seq(Octets), NEW t \in Seq(Octets)
    PROVE  Flatten(s \o t) = Flatten(s) \o Flatten(t)
<1> DEFINE T == {u \in Seq(Octets) : Flatten(s \o u) = Flatten(s) \o Flatten(u)}
<1>1. <<>> \in T
  <2>1. s \o <<>> = s /\ <<>> \in Seq(Octets) /\ Flatten(s) \o <<>> = Flatten(s)
    BY FlattenTyped DEF Octets
  <2> QED
    BY <2>1, FlattenEmpty, Zenon
<1>2. ASSUME NEW u \in Seq(Octets), NEW e \in Octets, u \in T PROVE Append(u, e) \in T
  <2> DEFINE x == Flatten(s)
             y == Flatten(u)
  <2>1. s \o Append(u, e) = Append(s \o u, e) /\ s \o u \in Seq(Octets) /\ Append(u, e) \in Seq(Octets)
    BY ConcatAppend
  <2>2. Flatten(Append(s \o u, e)) = Flatten(s \o u) \o e
    BY <2>1, FlattenAppend, Zenon
  <2>3. x \in Octets /\ y \in Octets
    BY FlattenTyped
  <2>4. Flatten(Append(u, e)) = y \o e /\ Flatten(s \o u) = x \o y
    BY <1>2, FlattenAppend, SMTT(60)
  <2> HIDE DEF x, y
  <2>5. (x \o y) \o e = x \o (y \o e)
    BY <2>3, NatConcat, Zenon DEF Octets
  <2> QED
    BY <2>1, <2>2, <2>4, <2>5, Zenon DEF x
<1>3. Seq(Octets) \subseteq T
  <2> HIDE DEF T
  <2> QED
    BY <1>1, <1>2, SeqInduction
<1> QED
  BY <1>3

\* Three strings one after the other.
LEMMA Assoc ==
    ASSUME NEW a \in Octets, NEW b \in Octets, NEW c \in Octets
    PROVE  (a \o b) \o c = a \o (b \o c) /\ a \o b \in Octets
BY NatConcat, SMTT(60) DEF Octets

\* The same, to rewrite with.
LEMMA Reassoc ==
    \A x, y, z \in Octets : (x \o y) \o z = x \o (y \o z)
BY NatConcat, SMTT(60) DEF Octets

\* Nothing added, nothing changed.
LEMMA ConcatEmpty ==
    ASSUME NEW a \in Octets
    PROVE  a \o <<>> = a /\ <<>> \o a = a
BY ConcatEmptySeq DEF Octets

\* The first of a sequence of frames.
LEMMA FlattenFirst ==
    ASSUME NEW fs \in Seq(Octets), fs # <<>>
    PROVE  Flatten(fs) = Head(fs) \o Flatten(Tail(fs))
<1> DEFINE h == Head(fs)
           t == Tail(fs)
<1>1. h \in Octets /\ t \in Seq(Octets) /\ <<h>> \in Seq(Octets) /\ <<h>> \o t = fs
  OBVIOUS
<1> HIDE DEF h, t
<1>2. Flatten(<<h>> \o t) = Flatten(<<h>>) \o Flatten(t)
  <2> DEFINE s == <<h>>
  <2>1. s \in Seq(Octets)
    BY <1>1
  <2> HIDE DEF s
  <2>2. Flatten(s \o t) = Flatten(s) \o Flatten(t)
    BY <1>1, <2>1, FlattenConcat
  <2> QED
    BY <2>2, Zenon DEF s
<1>3. Flatten(<<h>>) = h
  BY <1>1, FlattenOne
<1> QED
  BY <1>1, <1>2, <1>3, Zenon DEF h, t

\* Erasing the first of two strings leaves the second.
LEMMA DropConcat ==
    ASSUME NEW a \in Octets, NEW b \in Octets
    PROVE  Drop(a \o b, Len(a)) = b
<1> DEFINE w == a \o b
           d == Drop(w, Len(a))
<1>1. /\ w \in Seq(Nat) /\ Len(w) = Len(a) + Len(b) /\ Len(a) \in Nat /\ Len(b) \in Nat
      /\ \A i \in 1 .. Len(b) : w[Len(a) + i] = b[i]
  BY DEF Octets
<1> HIDE DEF w
<1>2. /\ d \in Seq(Nat) /\ Len(d) = Len(b)
      /\ \A i \in 1 .. Len(b) : d[i] = w[Len(a) + i]
  BY <1>1, SMTT(60) DEF Drop
<1> HIDE DEF d
<1>3. \A i \in 1 .. Len(b) : d[i] = b[i]
  BY <1>1, <1>2
<1>4. b \in Seq(Nat) /\ DOMAIN b = 1 .. Len(b) /\ DOMAIN d = 1 .. Len(b)
  BY <1>1, <1>2 DEF Octets
<1>5. d = b
  BY <1>2, <1>3, <1>4, SeqEqual, Zenon
<1> QED
  BY <1>5 DEF d, w

\* What is left of two parts when the first loses bytes.
LEMMA DropPart ==
    ASSUME NEW a \in Octets, NEW b \in Octets, NEW n \in 0 .. Len(a)
    PROVE  /\ Drop(a \o b, n) = Drop(a, n) \o b
           /\ Drop(a, n) \in Octets /\ SubSeq(a, 1, n) \in Octets
           /\ SubSeq(a, 1, n) \o Drop(a, n) = a
<1> DEFINE u == SubSeq(a, 1, n)
           v == Drop(a, n)
<1>1. u \in Octets /\ v \in Octets /\ Len(u) = n
  BY DEF Octets, Drop
<1>2. u \o v = a
  <2>1. /\ Len(a) \in Nat /\ 1 \in 1 .. Len(a) + 1 /\ n \in 1 - 1 .. Len(a)
        /\ Len(a) \in n .. Len(a) /\ a \in Seq(Nat)
    BY DEF Octets
  <2>2. SubSeq(a, 1, n) \o SubSeq(a, n + 1, Len(a)) = SubSeq(a, 1, Len(a))
    BY <2>1, ConcatAdjacentSubSeq, Zenon
  <2>3. SubSeq(a, 1, Len(a)) = a
    BY <2>1, SubSeqFull
  <2> QED
    BY <2>2, <2>3, Zenon DEF Drop
<1> HIDE DEF u, v
<1>3. Drop(u \o (v \o b), Len(u)) = v \o b
  BY <1>1, Assoc, DropConcat, Zenon
<1>4. (u \o v) \o b = u \o (v \o b)
  BY <1>1, Reassoc, ZenonT(60)
<1>5. Drop(a \o b, n) = v \o b
  BY <1>1, <1>2, <1>3, <1>4, Zenon
<1> QED
  BY <1>1, <1>2, <1>5 DEF u, v

\* The least number of a set of numbers.
LEMMA MinIs ==
    ASSUME NEW S, NEW n \in S, S \subseteq Nat, \A i \in S : n <= i
    PROVE  Min(S) = n
<1>1. \A y \in S : n <= y
  OBVIOUS
<1>2. ASSUME NEW x \in S, \A y \in S : x <= y PROVE x = n
  BY <1>2
<1> QED
  BY <1>1, <1>2, Zenon DEF Min

\* A non-empty set of numbers has a minimum.
LEMMA MinLeast ==
    ASSUME NEW S, S \subseteq Nat, S # {}
    PROVE  Min(S) \in S /\ \A i \in S : Min(S) <= i
<1>1. PICK n \in S : \A i \in S : n <= i
  BY LeastNumber, Zenon
<1> QED
  BY <1>1, MinIs, Zenon

=============================================================================
