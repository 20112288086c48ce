--------------------------- MODULE MCSerialTick ---------------------------
(* Small streams for SerialTick: more input than one read takes, and more  *)
(* output than one write takes.                                            *)
EXTENDS SerialTick

MCIncoming == <<1, 2, 3, 4, 5>>
MCOutgoing == <<<<1, 2, 3>>, <<4, 5>>>>
=============================================================================
