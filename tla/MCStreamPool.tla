---------------------------- MODULE MCStreamPool ----------------------------
EXTENDS StreamPool

CONSTANTS w1, w2

MCWorkers == {w1, w2}
MCMaxStreams == 1
MCNChunks == 5
=============================================================================
