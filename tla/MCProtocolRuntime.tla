------------------------- MODULE MCProtocolRuntime --------------------------
\* Instance of ProtocolRuntime for TLC: PUT bodies of one and two sections.
EXTENDS ProtocolRuntime

CONSTANTS s1, s2

Sec(p, on, secret) == [p |-> p, enabled |-> on, secret |-> secret, bad |-> FALSE]
Refused(p) == [p |-> p, enabled |-> TRUE, secret |-> Redacted, bad |-> TRUE]

MCSecrets == {s1, s2}
MCRows == {[p \in Proto |-> [enabled |-> on, secret |-> s1]] : on \in BOOLEAN}
MCBodies == {<<Sec("onvif", TRUE, Redacted)>>,
             <<Sec("gb28181", TRUE, s2)>>,
             <<Sec("gb28181", FALSE, Redacted), Sec("onvif", FALSE, Redacted)>>,
             <<Sec("gb28181", TRUE, Redacted), Refused("onvif")>>}
=============================================================================
