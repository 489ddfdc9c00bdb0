---------------------------- MODULE MCRecording -----------------------------
\* Instance of Recording for TLC.
EXTENDS Recording
=============================================================================
