------------------------------ MODULE IniLines ------------------------------
(***************************************************************************)
(* The lines of an ini file as ini_parse_stream tells them apart; stripping*)
(* and splitting a line is left out.  A text is a pair of an identity and  *)
(* the number atoi makes of it.                                            *)
(***************************************************************************)
NoText == [id |-> "", number |-> 0]

Comment == [kind |-> "comment"]
Section(name, closed) == [kind |-> "section", name |-> name, closed |-> closed,
                          indent |-> FALSE]
Pair(name, id, number) == [kind |-> "pair", name |-> name, indent |-> FALSE,
                           value |-> [id |-> id, number |-> number]]
Junk == [kind |-> "junk", indent |-> FALSE]
Indented(line) == [line EXCEPT !.indent = TRUE]

=============================================================================
