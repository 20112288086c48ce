-------------------------- MODULE MCSerialForward --------------------------
EXTENDS SerialForward, TLC

\* One client: words with the bytes that SLIP escapes, and white space between
\* them, doubled.
OneStream == 1 :> <<120, SPACE, SPACE, SLIP_ESC, SLIP_END>>

\* Two clients served at once.
TwoStreams == (1 :> <<120, SPACE, SLIP_END>>) @@ (2 :> <<121, SPACE, 122>>)

MCConns == {1}

MCTwoConns == {1, 2}

=============================================================================
