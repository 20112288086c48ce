---------------------------- MODULE MCPacketText ----------------------------
EXTENDS PacketText

\* A packet of one base64 group and one of three, so that the rest of the long
\* text behind the short one is a base64 character, the CRC, ] and CR LF.
MCPayloads == {<<1>>, <<1, 2, 3, 1, 2, 3, 1>>}

=============================================================================
