---- MODULE MCAwayMode ----
\* Instance of AwayMode for TLC.
EXTENDS AwayMode
====
