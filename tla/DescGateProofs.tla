--------------------------- MODULE DescGateProofs ---------------------------
(***************************************************************************)
(* The description gate is single-flight and keeps its floor for every     *)
(* number of callers, every MinInterval and any behaviour of the clock.    *)
(***************************************************************************)
EXTENDS DescGate, TLAPS

\* What the three atomics and the history say of each other at each step of
\* the caller that owns the flag.
OwnerView(c) ==
    /\ pc[c] = "loadLast" => hasStarted
    /\ pc[c] = "storeLast" =>
          (hasStarted => req[c] - lastStart >= MinInterval)
    /\ pc[c] = "storeStarted" =>
          /\ lastStart = req[c]
          /\ \A i \in DOMAIN starts : req[c] - starts[i] >= MinInterval

\* Outside the window between the two stores, last_start_ms dominates the
\* history, and has_started tells whether there is one.
History ==
    (\A c \in Callers : pc[c] # "storeStarted") =>
        /\ DOMAIN starts # {} => hasStarted
        /\ \A i \in DOMAIN starts : starts[i] <= lastStart

IInv ==
    /\ TypeOK
    /\ SingleFlight
    /\ FlagIsOwned
    /\ StartsSpaced
    /\ History
    /\ \A c \in Callers : OwnerView(c)

\* A new gate has the types.
LEMMA InitTypeOK == Init => TypeOK
<1>1. Init => inFlight \in BOOLEAN /\ hasStarted \in BOOLEAN
  BY Zenon DEF Init
<1>2. QED
  BY <1>1, MaxClockAssumption
  DEF MaxClockAssumption, Init, TypeOK, Steps, Times

\* No atomic access leaves the types.
LEMMA StepTypeOK == TypeOK /\ [Next]_vars => TypeOK'
<1> SUFFICES ASSUME TypeOK, [Next]_vars PROVE TypeOK'
  OBVIOUS
<1>1. inFlight' \in BOOLEAN /\ hasStarted' \in BOOLEAN
  BY Zenon DEF TypeOK, Next, vars, TryAdmit, Arrive, Swap, LoadStarted,
     LoadLast, Undo, StoreLast, StoreStarted, DropLease, ClockStep
<1>2. QED
  BY <1>1
  DEF TypeOK, Next, vars, TryAdmit, Arrive, Swap, LoadStarted, LoadLast,
      Undo, StoreLast, StoreStarted, DropLease, ClockStep, Steps

\* Type correctness: every atomic, program counter and history entry keeps
\* its type through every step of try_admit and of the runs.
THEOREM Typing == Spec => []TypeOK
  BY InitTypeOK, StepTypeOK, PTL DEF Spec

\* A new gate is free and has no starts.
LEMMA InitIInv == Init => IInv
<1>1. Init => SingleFlight /\ FlagIsOwned
  BY Zenon DEF Init, SingleFlight, FlagIsOwned, Holds
<1>2. QED
  BY <1>1, InitTypeOK DEF Init, IInv, StartsSpaced, History, OwnerView

\* One step per action: the caller that moves owns the flag, so no other
\* caller is between the swap and the release.
LEMMA StepIInv == IInv /\ [Next]_vars => IInv'
<1> SUFFICES ASSUME IInv, [Next]_vars PROVE IInv'
  OBVIOUS
<1> USE MaxClockAssumption, MinIntervalAssumption DEF MaxClockAssumption, MinIntervalAssumption
<1>t. TypeOK'
  BY StepTypeOK DEF IInv
<1>1. ASSUME NEW c \in Callers, Arrive(c) PROVE IInv'
  BY <1>t, <1>1
  DEF Arrive, IInv, TypeOK, SingleFlight, FlagIsOwned, StartsSpaced, History,
      OwnerView, Holds, Steps
<1>2. ASSUME NEW c \in Callers, Swap(c) PROVE IInv'
  BY <1>t, <1>2
  DEF Swap, IInv, TypeOK, SingleFlight, FlagIsOwned, StartsSpaced, History,
      OwnerView, Holds, Steps
<1>3. ASSUME NEW c \in Callers, LoadStarted(c) PROVE IInv'
  BY <1>t, <1>3
  DEF LoadStarted, IInv, TypeOK, SingleFlight, FlagIsOwned, StartsSpaced,
      History, OwnerView, Holds, Steps
<1>4. ASSUME NEW c \in Callers, LoadLast(c) PROVE IInv'
  <2>1. ~InsideFloor(req[c], lastStart) => req[c] - lastStart >= MinInterval
    BY DEF InsideFloor, SaturatingSub, IInv, TypeOK, Times
  <2>2. SingleFlight' /\ FlagIsOwned' /\ StartsSpaced' /\ History'
    BY <1>t, <1>4
    DEF LoadLast, IInv, TypeOK, SingleFlight, FlagIsOwned, StartsSpaced,
        History, Holds, Steps
  <2>3. ASSUME NEW d \in Callers PROVE OwnerView(d)'
    BY <1>4, <2>1 DEF LoadLast, IInv, TypeOK, OwnerView, Steps
  <2>4. QED
    BY <1>t, <2>2, <2>3 DEF IInv
<1>5. ASSUME NEW c \in Callers, Undo(c) PROVE IInv'
  BY <1>t, <1>5
  DEF Undo, IInv, TypeOK, SingleFlight, FlagIsOwned, StartsSpaced, History,
      OwnerView, Holds, Steps
<1>6. ASSUME NEW c \in Callers, StoreLast(c) PROVE IInv'
  <2>1. SingleFlight' /\ FlagIsOwned' /\ StartsSpaced' /\ History'
    BY <1>t, <1>6
    DEF StoreLast, IInv, TypeOK, SingleFlight, FlagIsOwned, StartsSpaced,
        History, Holds, Steps
  <2>2. \A d \in Callers : pc[d] # "storeStarted"
    BY <1>6 DEF StoreLast, IInv, SingleFlight, Holds, Steps
  <2>3. ASSUME NEW i \in DOMAIN starts PROVE req[c] - starts[i] >= MinInterval
    <3>1. hasStarted /\ starts[i] <= lastStart
      BY <2>2 DEF IInv, History
    <3>2. req[c] - lastStart >= MinInterval
      BY <1>6, <3>1 DEF StoreLast, IInv, OwnerView
    <3>3. starts[i] \in Times
      BY DEF IInv, TypeOK
    <3>4. QED
      BY <3>1, <3>2, <3>3 DEF IInv, TypeOK, Times
  <2>4. ASSUME NEW d \in Callers PROVE OwnerView(d)'
    BY <1>6, <2>3 DEF StoreLast, IInv, TypeOK, SingleFlight, Holds, OwnerView, Steps
  <2>5. QED
    BY <1>t, <2>1, <2>4 DEF IInv
<1>7. ASSUME NEW c \in Callers, StoreStarted(c) PROVE IInv'
  <2>1. SingleFlight' /\ FlagIsOwned'
    BY <1>7 DEF StoreStarted, IInv, TypeOK, SingleFlight, FlagIsOwned, Holds, Steps
  <2>2. /\ DOMAIN starts' = 1 .. Len(starts) + 1
        /\ DOMAIN starts = 1 .. Len(starts)
        /\ \A i \in DOMAIN starts : starts'[i] = starts[i]
        /\ starts'[Len(starts) + 1] = req[c]
    BY <1>7 DEF StoreStarted, IInv, TypeOK
  <2>3. lastStart' = req[c] /\ \A i \in DOMAIN starts : req[c] - starts[i] >= MinInterval
    BY <1>7 DEF StoreStarted, IInv, OwnerView
  <2>4. req[c] \in Times /\ Len(starts) \in Nat /\ \A i \in DOMAIN starts : starts[i] \in Times
    BY DEF IInv, TypeOK
  <2>5. StartsSpaced'
    BY <2>2, <2>3, <2>4 DEF IInv, StartsSpaced, Times
  <2>6. History'
    <3>1. hasStarted'
      BY <1>7, Zenon DEF StoreStarted
    <3>2. \A i \in DOMAIN starts' : starts'[i] <= lastStart'
      BY <2>2, <2>3, <2>4 DEF Times
    <3>3. QED
      BY <3>1, <3>2 DEF History
  <2>7. ASSUME NEW d \in Callers PROVE OwnerView(d)'
    BY <1>7 DEF StoreStarted, IInv, TypeOK, SingleFlight, Holds, OwnerView, Steps
  <2>8. QED
    BY <1>t, <2>1, <2>5, <2>6, <2>7 DEF IInv
<1>8. ASSUME NEW c \in Callers, DropLease(c) PROVE IInv'
  BY <1>t, <1>8
  DEF DropLease, IInv, TypeOK, SingleFlight, FlagIsOwned, StartsSpaced,
      History, OwnerView, Holds, Steps
<1>9. CASE ClockStep
  BY <1>t, <1>9
  DEF ClockStep, IInv, TypeOK, SingleFlight, FlagIsOwned, StartsSpaced,
      History, OwnerView, Holds
<1>10. CASE UNCHANGED vars
  BY <1>t, <1>10
  DEF vars, IInv, TypeOK, SingleFlight, FlagIsOwned, StartsSpaced, History,
      OwnerView, Holds
<1>11. QED
  BY <1>1, <1>2, <1>3, <1>4, <1>5, <1>6, <1>7, <1>8, <1>9, <1>10
  DEF Next, TryAdmit

\* The invariant holds in every behaviour.
LEMMA IInvHolds == Spec => []IInv
  BY InitIInv, StepIInv, PTL DEF Spec

\* Two callers are never past the swap together, so two descriptions never
\* run side by side, for any number of callers.
THEOREM SingleFlightHolds == Spec => []SingleFlight
<1>1. IInv => SingleFlight
  BY DEF IInv
<1>2. QED
  BY <1>1, IInvHolds, PTL

\* The flag is set exactly while a caller owns it: neither the throttle
\* branch nor the end of a run clears a flag that belongs to another call.
THEOREM FlagIsOwnedHolds == Spec => []FlagIsOwned
<1>1. IInv => FlagIsOwned
  BY DEF IInv
<1>2. QED
  BY <1>1, IInvHolds, PTL

\* Any two admitted runs are at least min_interval_ms apart, although the
\* wall clock may step backwards and callers may arrive with old timestamps.
THEOREM StartsSpacedHolds == Spec => []StartsSpaced
<1>1. IInv => StartsSpaced
  BY DEF IInv
<1>2. QED
  BY <1>1, IInvHolds, PTL
=============================================================================
