------------------------ MODULE MCHalfDuplexFraming ------------------------
EXTENDS HalfDuplexFraming

\* 97 is a one-letter name of a station; 104 is header text, 120
\* and 121 are body text.
MCMessages ==
    {Message("EOT", <<>>, <<>>, <<>>),
     Message("ENQ", <<97>>, <<>>, <<>>),
     Message("INFO", <<>>, <<104>>, <<120, 121>>),
     Message("INFO", <<>>, <<>>, <<>>)}

\* A letter, the character that ends a text, and DLE, on which parse_input
\* aborts.
MCNoise == {121, ETX, DLE}

=============================================================================
