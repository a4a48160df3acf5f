------------------------------ MODULE MCDriver -------------------------------
EXTENDS Driver

\* Every pair of bytes at the edges of the conversions, and the registers around
\* the thresholds of the program: 0x1450, a full pack's 8 V, 127 degrees.
EdgeBytes == {0, 1, 20, 127, 128, 129, 255}
EdgeRaws  == {hi * 256 + lo : hi \in EdgeBytes, lo \in EdgeBytes}
             \cup {5199, 5201, 6399, 6400, 51200, 4000, 4009, 4010}
=============================================================================
