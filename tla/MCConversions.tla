---------------------------- MODULE MCConversions ----------------------------
(***************************************************************************)
(* The conversions of the daemon over all short inputs: a behaviour takes  *)
(* one of them as its subject, and the others stay in their initial state. *)
(***************************************************************************)
EXTENDS SlipStream, Base64, IpHeaders, IniConfiguration

VARIABLE subject

vars == <<subject, streamVars, textVars, headerVars, fileVars>>

\* END, ESC, the two bytes that follow ESC in an escape, and another one.
MCBytes == {97, 192, 219, 220, 221}

MCPayloadBytes == {0, 1, 99, 170, 255}

\* Addresses and ports whose words add up below 2^16 and beyond it, and
\* payloads of even, odd and zero length.
MCAddresses == {<<10, 256>>, <<43200, 51713>>}

MCPortWords == {47137, 20480, 7}

MCPayloads == {<<>>, <<65>>, <<65, 66>>, <<255, 255, 255>>}

\* Settings of all three sections, comments, malformed and indented lines, and
\* a port number beyond 16 bits.
MCLines ==
    {Comment, Junk, Section("network", TRUE), Section("udp ports", TRUE),
     Section("udp ports", FALSE), Section("serial port", TRUE),
     Pair("remote_ip", "a", 10), Pair("remote_ip", "b", 11),
     Pair("local_ip", "c", 12), Pair("baudrate", "115200", 115200),
     Pair("throttle", "9600", 9600), Pair("name", "COM3", 0),
     Pair("port1", "4000", 4000), Pair("port2", "70000", 70000),
     Indented(Pair("port2", "4001", 4001))}

Init ==
    /\ subject \in {"slip", "base64", "headers", "ini"}
    /\ StreamInit /\ TextInit /\ HeaderInit /\ FileInit

Next ==
    /\ \/ subject = "slip" /\ StreamNext /\ UNCHANGED <<textVars, headerVars, fileVars>>
       \/ subject = "base64" /\ TextNext /\ UNCHANGED <<streamVars, headerVars, fileVars>>
       \/ subject = "headers" /\ HeaderNext /\ UNCHANGED <<streamVars, textVars, fileVars>>
       \/ subject = "ini" /\ FileNext /\ UNCHANGED <<streamVars, textVars, headerVars>>
    /\ UNCHANGED subject

Spec == Init /\ [][Next]_vars

==============================================================================
