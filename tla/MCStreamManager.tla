-------------------------- MODULE MCStreamManager ---------------------------
\* Instance of StreamManager for TLC.
EXTENDS StreamManager
=============================================================================
