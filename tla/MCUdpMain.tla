------------------------------ MODULE MCUdpMain ------------------------------
EXTENDS UdpMain

\* A rate that speed_to_bps does not know, and the slowest one it knows.
MCBauds == {-1, 50}

=============================================================================
