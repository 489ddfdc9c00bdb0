------------------------------ MODULE DescGate ------------------------------
(***************************************************************************)
(* Admission control for the VLM alarm-frame description                   *)
(* (src/desc_gate.rs): a single-flight flag plus a start-to-start floor,   *)
(* over three separate atomics.  Each atomic access of try_admit is a step *)
(* of its own, so concurrent callers and a lease dropped on another thread *)
(* interleave at the granularity the SeqCst atomics give them.             *)
(***************************************************************************)
EXTENDS Integers, Sequences

CONSTANTS
    Callers,       \* threads that may ask for a description
    MinInterval,   \* min_interval_ms
    MaxClock       \* bound on the wall clock

\* A floor of zero would let a clock step back admit a run "earlier" than the
\* last one; the product uses 120 000 ms.
ASSUME MinIntervalAssumption == MinInterval \in Nat \ {0}
ASSUME MaxClockAssumption    == MaxClock \in Nat

VARIABLES
    inFlight,      \* in_flight
    lastStart,     \* last_start_ms
    hasStarted,    \* has_started
    pc,            \* pc[c]: where caller c is in try_admit or in its run
    req,           \* req[c]: the now_ms caller c passed in
    clock,         \* wall clock; it may be stepped either way
    starts         \* history: the now_ms of every admitted run, in order

vars == <<inFlight, lastStart, hasStarted, pc, req, clock, starts>>

Times == 0 .. MaxClock

Steps == {"idle", "swap", "loadStarted", "loadLast", "undo",
          "storeLast", "storeStarted", "running"}

TypeOK ==
    /\ inFlight \in BOOLEAN
    /\ lastStart \in Times
    /\ hasStarted \in BOOLEAN
    /\ pc \in [Callers -> Steps]
    /\ req \in [Callers -> Times]
    /\ clock \in Times
    /\ starts \in Seq(Times)

Init ==
    /\ inFlight = FALSE
    /\ lastStart = 0
    /\ hasStarted = FALSE
    /\ pc = [c \in Callers |-> "idle"]
    /\ req = [c \in Callers |-> 0]
    /\ clock \in Times
    /\ starts = <<>>

-----------------------------------------------------------------------------

\* now_ms is read once, before the gate is asked; it can be stale later.
Arrive(c) ==
    /\ pc[c] = "idle"
    /\ req' = [req EXCEPT ![c] = clock]
    /\ pc' = [pc EXCEPT ![c] = "swap"]
    /\ UNCHANGED <<inFlight, lastStart, hasStarted, clock, starts>>

\* Mutant: a refused call falls into the throttle branch and clears the flag.
SwapThenUndo(c) ==
    /\ pc[c] = "swap"
    /\ inFlight' = TRUE
    /\ pc' = [pc EXCEPT ![c] = IF inFlight THEN "undo" ELSE "loadStarted"]
    /\ UNCHANGED <<lastStart, hasStarted, req, clock, starts>>

\* in_flight.swap(true): Busy returns at once and changes nothing.
Swap(c) ==
    /\ pc[c] = "swap"
    /\ inFlight' = TRUE
    /\ pc' = [pc EXCEPT ![c] = IF inFlight THEN "idle" ELSE "loadStarted"]
    /\ UNCHANGED <<lastStart, hasStarted, req, clock, starts>>

\* has_started is loaded first; when it is false the floor cannot close, so
\* the value loaded from last_start_ms next does not matter.
LoadStarted(c) ==
    /\ pc[c] = "loadStarted"
    /\ pc' = [pc EXCEPT ![c] = IF hasStarted THEN "loadLast" ELSE "storeLast"]
    /\ UNCHANGED <<inFlight, lastStart, hasStarted, req, clock, starts>>

\* Mutant: wrapping_sub, so a clock step back looks like a long time.
WrappingSub(a, b) == IF a < b THEN MinInterval ELSE a - b

SaturatingSub(a, b) == IF a < b THEN 0 ELSE a - b

\* since_last < min_interval_ms
InsideFloor(now, last) == SaturatingSub(now, last) < MinInterval

LoadLast(c) ==
    /\ pc[c] = "loadLast"
    /\ pc' = [pc EXCEPT ![c] = IF InsideFloor(req[c], lastStart)
                               THEN "undo" ELSE "storeLast"]
    /\ UNCHANGED <<inFlight, lastStart, hasStarted, req, clock, starts>>

\* Throttled: give back this call's own acquisition.
Undo(c) ==
    /\ pc[c] = "undo"
    /\ inFlight' = FALSE
    /\ pc' = [pc EXCEPT ![c] = "idle"]
    /\ UNCHANGED <<lastStart, hasStarted, req, clock, starts>>

StoreLast(c) ==
    /\ pc[c] = "storeLast"
    /\ lastStart' = req[c]
    /\ pc' = [pc EXCEPT ![c] = "storeStarted"]
    /\ UNCHANGED <<inFlight, hasStarted, req, clock, starts>>

\* The last store of try_admit; Admitted is returned with the lease.
StoreStarted(c) ==
    /\ pc[c] = "storeStarted"
    /\ hasStarted' = TRUE
    /\ starts' = Append(starts, req[c])
    /\ pc' = [pc EXCEPT ![c] = "running"]
    /\ UNCHANGED <<inFlight, lastStart, req, clock>>

\* Mutant: the flag is cleared after the call instead of by Drop, so a
\* panicking inference never clears it.
FinishWithoutDrop(c) ==
    /\ pc[c] = "running"
    /\ inFlight' \in BOOLEAN
    /\ pc' = [pc EXCEPT ![c] = "idle"]
    /\ UNCHANGED <<lastStart, hasStarted, req, clock, starts>>

\* The blocking closure ends (returns or unwinds) and drops the lease.
DropLease(c) ==
    /\ pc[c] = "running"
    /\ inFlight' = FALSE
    /\ pc' = [pc EXCEPT ![c] = "idle"]
    /\ UNCHANGED <<lastStart, hasStarted, req, clock, starts>>

\* SystemTime is not monotonic: NTP or an operator may step it.
ClockStep ==
    /\ \E t \in Times \ {clock} : clock' = t
    /\ UNCHANGED <<inFlight, lastStart, hasStarted, pc, req, starts>>

TryAdmit(c) ==
    \/ Swap(c)
    \/ LoadStarted(c)
    \/ LoadLast(c)
    \/ Undo(c)
    \/ StoreLast(c)
    \/ StoreStarted(c)

Next ==
    \/ \E c \in Callers : Arrive(c) \/ TryAdmit(c) \/ DropLease(c)
    \/ ClockStep

\* A call of try_admit runs to its end and every run ends (or unwinds).
Fairness == \A c \in Callers : WF_vars(TryAdmit(c)) /\ WF_vars(DropLease(c))

Spec == Init /\ [][Next]_vars /\ Fairness

-----------------------------------------------------------------------------

\* Callers that own the in-flight flag: they won the swap and have not
\* given it back.
Holds(c) == pc[c] \in Steps \ {"idle", "swap"}

\* Single flight: two descriptions never run, and no two callers are past
\* the swap, at the same time (the stacking desc_gate.rs exists to prevent).
SingleFlight == \A c, d \in Callers : Holds(c) /\ Holds(d) => c = d

\* The flag is neither leaked nor cleared under a run: it is set exactly
\* while some caller owns it, so no throttled or finished call releases a
\* lease that belongs to somebody else.
FlagIsOwned == inFlight <=> \E c \in Callers : Holds(c)

\* The floor: any two admitted runs started at least MinInterval apart in
\* the caller's own timestamps, whatever the wall clock did in between and
\* however late a caller reached the gate with its timestamp.
StartsSpaced ==
    \A i, j \in DOMAIN starts : i < j => starts[j] - starts[i] >= MinInterval

\* A gate that is taken is given back again: no run wedges the feature for
\* the life of the process.
GateReopens == inFlight ~> ~inFlight
=============================================================================
