---------------------------- MODULE MCStreamHub -----------------------------
\* Instance of StreamHub for TLC.
EXTENDS StreamHub
=============================================================================
