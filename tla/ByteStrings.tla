----------------------------- MODULE ByteStrings -----------------------------
(***************************************************************************)
(* What the models do with strings of bytes.  They are recursive functions *)
(* rather than the operators of SequencesExt, which would bring the rest of*)
(* that module into the context of every proof.                            *)
(***************************************************************************)
EXTENDS Integers, Sequences, FiniteSetsExt

\* The parts one after the other.
Flatten(parts) ==
    LET upTo[n \in 0 .. Len(parts)] ==
            IF n = 0 THEN <<>> ELSE upTo[n - 1] \o parts[n]
    IN upTo[Len(parts)]

\* The bytes added up.
SumOf(bytes) ==
    LET upTo[n \in 0 .. Len(bytes)] ==
            IF n = 0 THEN 0 ELSE upTo[n - 1] + bytes[n]
    IN upTo[Len(bytes)]

\* What is left when the first n elements are erased.
Drop(q, n) == SubSeq(q, n + 1, Len(q))

=============================================================================
