---------------------------- MODULE MCPageMode ----------------------------
\* Model-checking instance of PageMode.
EXTENDS PageMode
=============================================================================
