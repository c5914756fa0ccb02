---------------------------- MODULE MCMicTurns ----------------------------
\* Model-checking instance of MicTurns.
EXTENDS MicTurns
=============================================================================
