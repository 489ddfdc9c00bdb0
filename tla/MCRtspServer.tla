---- MODULE MCRtspServer ----
\* Instance of RtspServer for TLC.
EXTENDS RtspServer
====
