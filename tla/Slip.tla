-------------------------------- MODULE Slip --------------------------------
(***************************************************************************)
(* SLIP framing as in src/libhorizr/slip.cpp.                              *)
(***************************************************************************)
EXTENDS ByteStrings

SLIP_END     == 192
SLIP_ESC     == 219
SLIP_ESC_END == 220
SLIP_ESC_ESC == 221

\* Mutant: ESC itself is not escaped.
escaped_end_only(x) ==
    IF x = SLIP_END THEN <<SLIP_ESC, SLIP_ESC_END>> ELSE <<x>>

escaped(x) ==
    CASE x = SLIP_END -> <<SLIP_ESC, SLIP_ESC_END>>
      [] x = SLIP_ESC -> <<SLIP_ESC, SLIP_ESC_ESC>>
      [] OTHER -> <<x>>

\* What slip_encode appends to DEST; it returns the length of SOURCE.
slip_encode(source, introduce) ==
    IF source = <<>> THEN <<SLIP_END>>
    ELSE (IF introduce THEN <<SLIP_END>> ELSE <<>>)
            \o Flatten([i \in DOMAIN source |-> escaped(source[i])])
            \o <<SLIP_END>>

\* The byte at i follows an ESC that is not itself the second byte of a pair.
is_escaped(source, i) ==
    LET open[n \in 0 .. Len(source)] ==
            IF n = 0 THEN FALSE ELSE source[n] = SLIP_ESC /\ ~open[n - 1]
    IN open[i - 1]

\* What the byte at i adds to DEST.  An END or ESC is the initiator or the first
\* byte of a pair; the second byte of a pair that is neither ESC_END nor ESC_ESC
\* passes through (the callers do not ask for STRICT).
unpacked(source, i) ==
    CASE is_escaped(source, i) /\ source[i] = SLIP_ESC_END -> <<SLIP_END>>
      [] is_escaped(source, i) /\ source[i] = SLIP_ESC_ESC -> <<SLIP_ESC>>
      [] ~is_escaped(source, i) /\ source[i] \in {SLIP_END, SLIP_ESC} -> <<>>
      [] OTHER -> <<source[i]>>

\* The bytes of the message that ends before position n, decoded.
decoded(source, n) == Flatten([i \in 1 .. n - 1 |-> unpacked(source, i)])

\* An unescaped END ends the message, unless it is the first byte.
terminators(source) ==
    {i \in DOMAIN source : i > 1 /\ source[i] = SLIP_END
                                 /\ ~is_escaped(source, i)}

\* The message appended to DEST and the number of bytes slip_decode returns:
\* those before the terminator, which stays in the source.
slip_decode(source) ==
    IF terminators(source) = {} THEN [msg |-> <<>>, used |-> 0]
    ELSE LET n == Min(terminators(source))
         IN [msg |-> decoded(source, n), used |-> n - 1]

=============================================================================
