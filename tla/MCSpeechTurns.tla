--------------------------- MODULE MCSpeechTurns ---------------------------
\* Model-checking instance of SpeechTurns.
EXTENDS SpeechTurns
=============================================================================
