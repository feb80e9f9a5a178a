------------------------------- MODULE MCMemIo -------------------------------
EXTENDS MemIo
=============================================================================
