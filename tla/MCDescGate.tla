----------------------------- MODULE MCDescGate -----------------------------
\* Instance of DescGate for TLC: two concurrent callers and a clock long
\* enough for three starts at the floor.
EXTENDS DescGate
=============================================================================
