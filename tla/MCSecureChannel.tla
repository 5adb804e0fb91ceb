--------------------------- MODULE MCSecureChannel ---------------------------
EXTENDS SecureChannel

MCW == 2
MCMaxGeneration == 3
MCMaxSkip == 1
=============================================================================
