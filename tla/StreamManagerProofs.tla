------------------------ MODULE StreamManagerProofs -------------------------
(***************************************************************************)
(* The manager never loses a permit and never loses the last reference to  *)
(* a running pipeline, for any number of cameras and concurrent calls.     *)
(***************************************************************************)
EXTENDS StreamManager, FiniteSetTheorems, TLAPS

\* TypeOK without the upper bound of permits, which follows from the accounting.
Shape ==
    /\ pc \in [Calls -> CallSteps]
    /\ cam \in [Calls -> Cameras \cup {None}]
    /\ \A c \in Calls : pc[c] \in Creating \cup Stopping \cup {"created"} => cam[c] \in Cameras
    /\ streams \in [Cameras -> Handles]
    /\ mounts \in [Cameras -> Handles]
    /\ slots \in [Cameras -> Handles]
    /\ permits \in Nat
    /\ pipe \in [Calls -> {"none", "queued", "running", "ended"}]
    /\ stopTx \in [Calls -> {"none", "live", "gone"}]
    /\ victim \in [Calls -> Handles]
    /\ \A c \in Calls : pc[c] \in Stopping => victim[c] \in Calls
    /\ todo \in [Calls -> SUBSET Cameras]

\* A tracked pipeline belongs to a create call that has returned, under the
\* camera of that call.
TrackedIsCreated ==
    \A k \in Cameras : streams[k] \in Calls =>
        pc[streams[k]] = "created" /\ cam[streams[k]] = k

\* A handle a stop call has taken is out of the map and with that call only.
VictimIsTaken ==
    \A c \in Calls : pc[c] \in Unsignalled =>
        /\ pc[victim[c]] = "created"
        /\ \A k \in Cameras : streams[k] # victim[c]
        /\ \A d \in Calls : pc[d] \in Unsignalled /\ victim[d] = victim[c] => d = c

\* A sender that was not used is held by somebody.
LiveIsHeld ==
    \A p \in Calls : stopTx[p] = "live" =>
        \/ pc[p] = "store"
        \/ \E k \in Cameras : streams[k] = p
        \/ \E c \in Calls : pc[c] \in Unsignalled /\ victim[c] = p

HoldInv == TrackedIsCreated /\ VictimIsTaken /\ LiveIsHeld

\* A mount of a camera that is not tracked belongs to a call on that camera:
\* a create between its mount and its store, a stop before its unmount, or a
\* create that was dropped.
MountIsExplained ==
    \A k \in Cameras : mounts[k] # None =>
        \/ streams[k] # None
        \/ \E c \in Calls : cam[c] = k /\
            pc[c] \in {"slot", "run", "store", "unslot", "unmount", "cancelled"}

\* The same of a recording slot.
SlotIsExplained ==
    \A k \in Cameras : slots[k] # None =>
        \/ streams[k] # None
        \/ \E c \in Calls : cam[c] = k /\ pc[c] \in {"run", "store", "unslot", "cancelled"}

IInv == Shape /\ PermitAccounting /\ HoldInv /\ MountIsExplained /\ SlotIsExplained

-----------------------------------------------------------------------------

\* A new manager has all its permits and no pipelines.
LEMMA InitIInv == Init => IInv
<1> SUFFICES ASSUME Init PROVE IInv
  OBVIOUS
<1>1. Shape
  BY ManagerAssumption
  DEF ManagerAssumption, Init, Shape, CallSteps, Creating, Stopping, Ended, Handles
<1>2. PermitAccounting
  <2>1. CreateCalls = {}
    BY DEF Init, CreateCalls, Creating
  <2>2. QED
    BY <2>1, FS_EmptySet, ManagerAssumption DEF ManagerAssumption, Init, PermitAccounting
<1>3. HoldInv
  BY ManagerAssumption
  DEF ManagerAssumption, Init, HoldInv, TrackedIsCreated, VictimIsTaken,
      LiveIsHeld, Unsignalled
<1>4. MountIsExplained /\ SlotIsExplained
  BY DEF Init, MountIsExplained, SlotIsExplained
<1>5. QED
  BY <1>1, <1>2, <1>3, <1>4 DEF IInv

\* No step of a call leaves the types; the permit count is only an integer here.
LEMMA StepShape == Shape /\ [Next]_vars => Shape'
<1> SUFFICES ASSUME Shape, [Next]_vars PROVE Shape'
  OBVIOUS
<1> USE ManagerAssumption
    DEF ManagerAssumption, Shape, CallSteps, Creating, Stopping, Ended, Handles, Goto,
        pipeVars, callVars
<1>1. ASSUME NEW c \in Calls, NEW k \in Cameras, CreateBegin(c, k) PROVE Shape'
  BY <1>1 DEF CreateBegin
<1>2. ASSUME NEW c \in Calls, NEW k \in Cameras, StopBegin(c, k) PROVE Shape'
  BY <1>2 DEF StopBegin, StopTake
<1>3. ASSUME NEW c \in Calls, ShutdownBegin(c) PROVE Shape'
  BY <1>3 DEF ShutdownBegin
<1>4. ASSUME NEW c \in Calls, CreateStep(c) PROVE Shape'
  <2>1. CASE CreateDup(c) \/ CreateSource(c) \/ CreateMount(c) \/ CreateSlot(c)
    BY <2>1 DEF CreateDup, CreateSource, CreateMount, CreateSlot
  <2>2. CASE CreateRun(c) \/ CreateStore(c)
    BY <2>2 DEF CreateRun, CreateStore, Dropped
  <2>3. QED
    BY <1>4, <2>1, <2>2 DEF CreateStep
<1>5. ASSUME NEW c \in Calls, CreateCancel(c) PROVE Shape'
  BY <1>5 DEF CreateCancel, Dropped
<1>6. ASSUME NEW c \in Calls, StopStep(c) PROVE Shape'
  <2>1. CASE ShutdownNext(c)
    BY <2>1 DEF ShutdownNext, StopTake
  <2>2. CASE StopUnslot(c) \/ StopUnmount(c) \/ StopSignal(c) \/ StopReturn(c)
    BY <2>2 DEF StopUnslot, StopUnmount, StopSignal, StopReturn
  <2>3. QED
    BY <1>6, <2>1, <2>2 DEF StopStep
<1>7. ASSUME NEW c \in Calls, PipeOpen(c) \/ PipeFails(c) \/ PipeStops(c) PROVE Shape'
  BY <1>7 DEF PipeOpen, PipeFails, PipeStops
<1>8. CASE UNCHANGED vars
  BY <1>8 DEF vars
<1>9. QED
  BY <1>1, <1>2, <1>3, <1>4, <1>5, <1>6, <1>7, <1>8 DEF Next

-----------------------------------------------------------------------------

\* The three ways a step can move a call across the boundary of Creating.
LEMMA PermitMoves ==
    ASSUME NEW c \in Calls, Shape, Shape', PermitAccounting,
           \/ CreateCalls' = CreateCalls /\ permits' = permits
           \/ /\ c \notin CreateCalls /\ CreateCalls' = CreateCalls \cup {c}
              /\ permits' = permits - 1
           \/ /\ c \in CreateCalls /\ CreateCalls' = CreateCalls \ {c}
              /\ permits' = permits + 1
    PROVE  PermitAccounting'
<1>1. IsFiniteSet(CreateCalls)
  <2>1. CreateCalls \in SUBSET Calls
    BY DEF CreateCalls
  <2>2. QED
    BY <2>1, FS_Subset, ManagerAssumption DEF ManagerAssumption
<1>2. Cardinality(CreateCalls) \in Nat
  BY <1>1, FS_CardinalityType
<1>3. /\ Cardinality(CreateCalls \cup {c}) =
             IF c \in CreateCalls THEN Cardinality(CreateCalls) ELSE Cardinality(CreateCalls) + 1
      /\ Cardinality(CreateCalls \ {c}) =
             IF c \in CreateCalls THEN Cardinality(CreateCalls) - 1 ELSE Cardinality(CreateCalls)
  BY <1>1, FS_AddElement, FS_RemoveElement
<1>4. permits \in Int /\ MaxStreams \in Int
  BY ManagerAssumption DEF ManagerAssumption, Shape
<1>5. CASE CreateCalls' = CreateCalls /\ permits' = permits
  BY <1>5 DEF PermitAccounting
<1>6. CASE /\ c \notin CreateCalls /\ CreateCalls' = CreateCalls \cup {c}
           /\ permits' = permits - 1
  <2>1. Cardinality(CreateCalls') = Cardinality(CreateCalls) + 1
    BY <1>3, <1>6
  <2>2. QED
    BY <1>2, <1>4, <1>6, <2>1 DEF PermitAccounting
<1>7. CASE /\ c \in CreateCalls /\ CreateCalls' = CreateCalls \ {c}
           /\ permits' = permits + 1
  <2>1. Cardinality(CreateCalls') = Cardinality(CreateCalls) - 1
    BY <1>3, <1>7
  <2>2. QED
    BY <1>2, <1>4, <1>7, <2>1 DEF PermitAccounting
<1>8. QED
  BY <1>5, <1>6, <1>7

\* A call whose step stays on its side of the boundary.
LEMMA StepPermits == Shape /\ Shape' /\ PermitAccounting /\ [Next]_vars => PermitAccounting'
<1> SUFFICES ASSUME Shape, Shape', PermitAccounting, [Next]_vars PROVE PermitAccounting'
  OBVIOUS
<1> USE DEF CreateCalls, Creating, Goto
<1>s. ASSUME NEW c \in Calls, NEW s,
             pc' = [pc EXCEPT ![c] = s],
             s \in Creating <=> pc[c] \in Creating
      PROVE  CreateCalls' = CreateCalls
  BY <1>s DEF Shape
<1>e. ASSUME CreateCalls' = CreateCalls, permits' = permits PROVE PermitAccounting'
  BY <1>e DEF PermitAccounting
<1>1. ASSUME NEW c \in Calls, NEW k \in Cameras, CreateBegin(c, k) PROVE PermitAccounting'
  <2>1. \/ /\ c \notin CreateCalls /\ CreateCalls' = CreateCalls \cup {c}
           /\ permits' = permits - 1
        \/ CreateCalls' = CreateCalls /\ permits' = permits
    BY <1>1 DEF CreateBegin, Shape
  <2>2. QED
    BY <2>1, PermitMoves
<1>2. ASSUME NEW c \in Calls, CreateStep(c) \/ CreateCancel(c) PROVE PermitAccounting'
  <2>1. \/ CreateCalls' = CreateCalls /\ permits' = permits
        \/ /\ c \in CreateCalls /\ CreateCalls' = CreateCalls \ {c}
           /\ permits' = permits + 1
    BY <1>2
    DEF CreateStep, CreateDup, CreateSource, CreateMount, CreateSlot, CreateRun,
        CreateStore, CreateCancel, Shape
  <2>2. QED
    BY <2>1, PermitMoves
<1>3. ASSUME NEW c \in Calls, NEW k \in Cameras, StopBegin(c, k) PROVE PermitAccounting'
  BY <1>3, <1>s, <1>e DEF StopBegin, StopTake
<1>4. ASSUME NEW c \in Calls, ShutdownBegin(c) \/ StopStep(c) PROVE PermitAccounting'
  BY <1>4, <1>s, <1>e
  DEF ShutdownBegin, StopStep, ShutdownNext, StopTake, StopUnslot, StopUnmount,
      StopSignal, StopReturn
<1>5. ASSUME NEW c \in Calls, PipeOpen(c) \/ PipeFails(c) \/ PipeStops(c)
      PROVE PermitAccounting'
  BY <1>5, <1>e DEF PipeOpen, PipeFails, PipeStops, callVars
<1>6. CASE UNCHANGED vars
  BY <1>6, <1>e DEF vars, callVars
<1>7. QED
  BY <1>1, <1>2, <1>3, <1>4, <1>5, <1>6 DEF Next

-----------------------------------------------------------------------------

\* Reachability of the stop senders.  A pipeline changes hands in three
\* steps (stored, taken, replaced); each removes one holder as it adds one
\* or retires the sender.
LEMMA StepHold == Shape /\ Shape' /\ HoldInv /\ [Next]_vars => HoldInv'
<1> SUFFICES ASSUME Shape, Shape', HoldInv, [Next]_vars PROVE HoldInv'
  OBVIOUS
<1> USE ManagerAssumption
    DEF ManagerAssumption, HoldInv, TrackedIsCreated, VictimIsTaken, LiveIsHeld,
        Unsignalled, Goto
<1>1. ASSUME NEW c \in Calls, NEW s, pc[c] \notin {"store", "created"} \cup Unsignalled,
             s \notin {"store", "created"} \cup Unsignalled,
             pc' = [pc EXCEPT ![c] = s],
             \A d \in Calls : d # c => cam'[d] = cam[d] /\ victim'[d] = victim[d],
             UNCHANGED <<streams, stopTx>>
      PROVE  HoldInv'
  BY <1>1 DEF Shape, Handles
<1>2. ASSUME NEW c \in Calls, NEW k \in Cameras, CreateBegin(c, k) PROVE HoldInv'
  BY <1>1, <1>2 DEF CreateBegin, Shape, pipeVars
<1>3. ASSUME NEW c \in Calls,
             \/ CreateDup(c) \/ CreateSource(c) \/ CreateMount(c) \/ CreateSlot(c)
      PROVE  HoldInv'
  <2>1. PICK s \in {"failed", "source", "mount", "slot", "run"} : pc' = [pc EXCEPT ![c] = s]
    BY <1>3 DEF CreateDup, CreateSource, CreateMount, CreateSlot
  <2>2. /\ pc[c] \in {"dup", "source", "mount", "slot"}
        /\ UNCHANGED <<cam, victim, streams, stopTx>>
    BY <1>3 DEF CreateDup, CreateSource, CreateMount, CreateSlot, pipeVars
  <2>3. QED
    BY <1>1, <2>1, <2>2
<1>4. ASSUME NEW c \in Calls, CreateRun(c) PROVE HoldInv'
  BY <1>4 DEF CreateRun, Shape, Handles
<1>5. ASSUME NEW c \in Calls, CreateStore(c) PROVE HoldInv'
  <2>1. cam[c] \in Cameras
    BY <1>5 DEF CreateStore, Shape, Creating
  <2>2. \A k \in Cameras : streams[k] # c
    BY <1>5 DEF CreateStore
  <2>3. TrackedIsCreated'
    BY <1>5, <2>1 DEF CreateStore, Shape, Handles
  <2>4. VictimIsTaken'
    BY <1>5, <2>1 DEF CreateStore, Shape, Handles, Stopping
  <2>5. LiveIsHeld'
    BY <1>5, <2>1, <2>2 DEF CreateStore, Dropped, Shape, Handles
  <2>6. QED
    BY <2>3, <2>4, <2>5
<1>6. ASSUME NEW c \in Calls, CreateCancel(c) PROVE HoldInv'
  BY <1>6 DEF CreateCancel, Dropped, Shape, Handles, Creating
<1>7. ASSUME NEW c \in Calls, NEW k \in Cameras, pc[c] \in {"idle", "next"},
             StopTake(c, k), UNCHANGED stopTx
      PROVE  HoldInv'
  <2>1. CASE streams[k] = None
    <3>1. streams' = streams
      BY <1>7, <2>1 DEF StopTake, Shape
    <3>2. pc' = [pc EXCEPT ![c] = IF pc[c] = "idle" THEN "missing" ELSE "next"]
      BY <1>7, <2>1 DEF StopTake
    <3>3. \A d \in Calls : d # c => cam'[d] = cam[d] /\ victim'[d] = victim[d]
      BY <1>7 DEF StopTake, Shape
    <3>4. QED
      BY <1>1, <1>7, <3>1, <3>2, <3>3
  <2>2. CASE streams[k] # None
    <3>1. /\ streams[k] \in Calls /\ pc[streams[k]] = "created" /\ cam[streams[k]] = k
          /\ streams[k] # c
      BY <1>7, <2>2 DEF Shape, Handles
    <3>2. /\ pc' = [pc EXCEPT ![c] = "unslot"] /\ victim'[c] = streams[k]
          /\ \A d \in Calls : d # c => victim'[d] = victim[d] /\ cam'[d] = cam[d]
          /\ \A j \in Cameras : streams'[j] = IF j = k THEN None ELSE streams[j]
      BY <1>7, <2>2 DEF StopTake, Shape
    <3>3. TrackedIsCreated'
      BY <1>7, <3>1, <3>2 DEF Shape, Handles
    <3>4. VictimIsTaken'
      <4>1. \A d \in Calls : pc[d] \in Unsignalled =>
                /\ d # c /\ victim[d] \in Calls /\ victim[d] # streams[k] /\ victim[d] # c
        BY <1>7, <3>1 DEF Shape, Stopping
      <4>2. \A j \in Cameras : streams'[j] # streams[k]
        BY <3>1, <3>2 DEF Shape, Handles
      <4>3. \A d \in Calls : pc'[d] = IF d = c THEN "unslot" ELSE pc[d]
        BY <3>2 DEF Shape
      <4>4. ASSUME NEW d \in Calls, pc'[d] \in Unsignalled
            PROVE  /\ pc'[victim'[d]] = "created"
                   /\ \A j \in Cameras : streams'[j] # victim'[d]
        <5>1. CASE d = c
          BY <3>1, <3>2, <4>2, <4>3, <5>1
        <5>2. CASE d # c
          <6>1. pc[d] \in Unsignalled /\ victim'[d] = victim[d]
            BY <3>2, <4>3, <4>4, <5>2
          <6>2. \A j \in Cameras : streams[j] # victim[d]
            BY <6>1
          <6>3. QED
            BY <3>2, <4>1, <4>3, <6>1, <6>2
        <5>3. QED
          BY <5>1, <5>2
      <4>5. ASSUME NEW d \in Calls, NEW e \in Calls, pc'[d] \in Unsignalled,
                   pc'[e] \in Unsignalled, victim'[e] = victim'[d]
            PROVE  e = d
        <5>1. CASE d # c /\ e # c
          BY <3>2, <4>3, <4>5, <5>1
        <5>2. CASE d = c \/ e = c
          BY <3>2, <4>1, <4>3, <4>5, <5>2
        <5>3. QED
          BY <5>1, <5>2
      <4>6. QED
        BY <4>4, <4>5
    <3>5. LiveIsHeld'
      BY <1>7, <3>1, <3>2 DEF Shape, Handles
    <3>6. QED
      BY <3>3, <3>4, <3>5
  <2>3. QED
    BY <2>1, <2>2
<1>8. ASSUME NEW c \in Calls, NEW k \in Cameras, StopBegin(c, k) PROVE HoldInv'
  BY <1>7, <1>8 DEF StopBegin, pipeVars
<1>9. ASSUME NEW c \in Calls, ShutdownBegin(c) \/ StopReturn(c) PROVE HoldInv'
  BY <1>1, <1>9 DEF ShutdownBegin, StopReturn, pipeVars
<1>10. ASSUME NEW c \in Calls, ShutdownNext(c) PROVE HoldInv'
  <2>1. CASE todo[c] = {} /\ Goto(c, "stopped") /\ UNCHANGED <<cam, victim, todo, streams>>
    BY <1>1, <1>10, <2>1 DEF ShutdownNext, pipeVars
  <2>2. ASSUME NEW k \in todo[c], StopTake(c, k) PROVE HoldInv'
    BY <1>7, <1>10, <2>2 DEF ShutdownNext, pipeVars, Shape
  <2>3. QED
    BY <1>10, <2>1, <2>2 DEF ShutdownNext
<1>11. ASSUME NEW c \in Calls, StopUnslot(c) \/ StopUnmount(c) PROVE HoldInv'
  <2>1. /\ pc[c] \in Unsignalled
        /\ UNCHANGED <<cam, victim, streams, stopTx>>
    BY <1>11 DEF StopUnslot, StopUnmount, pipeVars
  <2>2. PICK s \in {"unmount", "signal"} : pc' = [pc EXCEPT ![c] = s]
    BY <1>11 DEF StopUnslot, StopUnmount
  <2>3. \A d \in Calls : /\ pc'[d] \in Unsignalled <=> pc[d] \in Unsignalled
                         /\ pc[d] \in {"created", "store"} => pc'[d] = pc[d]
    BY <2>1, <2>2 DEF Shape
  <2>4. TrackedIsCreated'
    BY <2>1, <2>3
  <2>5. VictimIsTaken'
    <3>1. \A d \in Calls : pc[d] \in Unsignalled => victim[d] \in Calls
      BY DEF Shape, Stopping
    <3>2. QED
      BY <2>1, <2>3, <3>1
  <2>6. LiveIsHeld'
    BY <2>1, <2>3
  <2>7. QED
    BY <2>4, <2>5, <2>6
<1>12. ASSUME NEW c \in Calls, StopSignal(c) PROVE HoldInv'
  BY <1>12 DEF StopSignal, Shape, Handles, Stopping
<1>13. CASE UNCHANGED <<pc, cam, victim, streams, stopTx>>
  BY <1>13
<1>14. QED
  BY <1>2, <1>3, <1>4, <1>5, <1>6, <1>8, <1>9, <1>10, <1>11, <1>12, <1>13
  DEF Next, CreateStep, StopStep, PipeOpen, PipeFails, PipeStops, vars, callVars, pipeVars

-----------------------------------------------------------------------------

\* The mounts.  Whoever takes the last explanation away from a mount removes
\* the mount itself, or hands it on in the same step.
LEMMA StepMount == Shape /\ Shape' /\ MountIsExplained /\ [Next]_vars => MountIsExplained'
<1> SUFFICES ASSUME Shape, Shape', MountIsExplained, [Next]_vars PROVE MountIsExplained'
  OBVIOUS
<1> DEFINE Why == {"slot", "run", "store", "unslot", "unmount", "cancelled"}
<1> USE DEF Goto
<1>1. ASSUME NEW c \in Calls, NEW s, pc' = [pc EXCEPT ![c] = s], pc[c] \notin Why \/ s \in Why,
             \A d \in Calls : pc[d] \in Why => cam'[d] = cam[d],
             UNCHANGED <<streams, mounts>>
      PROVE  MountIsExplained'
  BY <1>1 DEF MountIsExplained, Shape
<1>2. ASSUME NEW c \in Calls, NEW k \in Cameras, CreateBegin(c, k) PROVE MountIsExplained'
  BY <1>1, <1>2 DEF CreateBegin, Shape
<1>3. ASSUME NEW c \in Calls, CreateDup(c) \/ CreateSource(c) \/ CreateSlot(c) \/ CreateRun(c)
      PROVE  MountIsExplained'
  BY <1>1, <1>3 DEF CreateDup, CreateSource, CreateSlot, CreateRun
<1>4. ASSUME NEW c \in Calls, CreateMount(c) PROVE MountIsExplained'
  BY <1>4 DEF CreateMount, MountIsExplained, Shape, Creating
<1>5. ASSUME NEW c \in Calls, CreateStore(c) PROVE MountIsExplained'
  <2>1. cam[c] \in Cameras /\ c # None
    BY <1>5, ManagerAssumption DEF CreateStore, Shape, Creating, ManagerAssumption
  <2>2. QED
    BY <1>5, <2>1 DEF CreateStore, MountIsExplained, Shape
<1>6. ASSUME NEW c \in Calls, CreateCancel(c) PROVE MountIsExplained'
  BY <1>1, <1>6 DEF CreateCancel
<1>7. ASSUME NEW c \in Calls, NEW k \in Cameras, pc[c] \in {"idle", "next"}, StopTake(c, k),
             UNCHANGED mounts
      PROVE  MountIsExplained'
  <2>1. /\ \A d \in Calls : d # c => pc'[d] = pc[d] /\ cam'[d] = cam[d]
        /\ \A j \in Cameras : j # k => streams'[j] = streams[j]
        /\ cam'[c] = k /\ (streams[k] # None => pc'[c] = "unslot")
    BY <1>7 DEF StopTake, Shape
  <2>2. QED
    BY <1>7, <2>1 DEF MountIsExplained
<1>8. ASSUME NEW c \in Calls, NEW k \in Cameras, StopBegin(c, k) PROVE MountIsExplained'
  BY <1>7, <1>8 DEF StopBegin
<1>9. ASSUME NEW c \in Calls, ShutdownBegin(c) \/ StopReturn(c) \/ StopSignal(c) \/ StopUnslot(c)
      PROVE  MountIsExplained'
  BY <1>1, <1>9 DEF ShutdownBegin, StopReturn, StopSignal, StopUnslot
<1>10. ASSUME NEW c \in Calls, ShutdownNext(c) PROVE MountIsExplained'
  <2>1. CASE todo[c] = {} /\ Goto(c, "stopped") /\ UNCHANGED <<cam, victim, todo, streams>>
    BY <1>1, <1>10, <2>1 DEF ShutdownNext
  <2>2. ASSUME NEW k \in todo[c], StopTake(c, k) PROVE MountIsExplained'
    BY <1>7, <1>10, <2>2 DEF ShutdownNext, Shape
  <2>3. QED
    BY <1>10, <2>1, <2>2 DEF ShutdownNext
<1>11. ASSUME NEW c \in Calls, StopUnmount(c) PROVE MountIsExplained'
  BY <1>11 DEF StopUnmount, MountIsExplained, Shape
<1>12. CASE UNCHANGED <<pc, cam, streams, mounts>>
  BY <1>12 DEF MountIsExplained
<1>13. QED
  BY <1>2, <1>3, <1>4, <1>5, <1>6, <1>8, <1>9, <1>10, <1>11, <1>12
  DEF Next, CreateStep, StopStep, PipeOpen, PipeFails, PipeStops, vars, callVars

\* The recording slots, by the same argument.
LEMMA StepSlot == Shape /\ Shape' /\ SlotIsExplained /\ [Next]_vars => SlotIsExplained'
<1> SUFFICES ASSUME Shape, Shape', SlotIsExplained, [Next]_vars PROVE SlotIsExplained'
  OBVIOUS
<1> DEFINE Why == {"run", "store", "unslot", "cancelled"}
<1> USE DEF Goto
<1>1. ASSUME NEW c \in Calls, NEW s, pc' = [pc EXCEPT ![c] = s], pc[c] \notin Why \/ s \in Why,
             \A d \in Calls : pc[d] \in Why => cam'[d] = cam[d],
             UNCHANGED <<streams, slots>>
      PROVE  SlotIsExplained'
  BY <1>1 DEF SlotIsExplained, Shape
<1>2. ASSUME NEW c \in Calls, NEW k \in Cameras, CreateBegin(c, k) PROVE SlotIsExplained'
  BY <1>1, <1>2 DEF CreateBegin, Shape
<1>3. ASSUME NEW c \in Calls, CreateDup(c) \/ CreateSource(c) \/ CreateMount(c) \/ CreateRun(c)
      PROVE  SlotIsExplained'
  BY <1>1, <1>3 DEF CreateDup, CreateSource, CreateMount, CreateRun
<1>4. ASSUME NEW c \in Calls, CreateSlot(c) PROVE SlotIsExplained'
  BY <1>4 DEF CreateSlot, SlotIsExplained, Shape, Creating
<1>5. ASSUME NEW c \in Calls, CreateStore(c) PROVE SlotIsExplained'
  <2>1. cam[c] \in Cameras /\ c # None
    BY <1>5, ManagerAssumption DEF CreateStore, Shape, Creating, ManagerAssumption
  <2>2. QED
    BY <1>5, <2>1 DEF CreateStore, SlotIsExplained, Shape
<1>6. ASSUME NEW c \in Calls, CreateCancel(c) PROVE SlotIsExplained'
  BY <1>1, <1>6 DEF CreateCancel
<1>7. ASSUME NEW c \in Calls, NEW k \in Cameras, pc[c] \in {"idle", "next"}, StopTake(c, k),
             UNCHANGED slots
      PROVE  SlotIsExplained'
  <2>1. /\ \A d \in Calls : d # c => pc'[d] = pc[d] /\ cam'[d] = cam[d]
        /\ \A j \in Cameras : j # k => streams'[j] = streams[j]
        /\ cam'[c] = k /\ (streams[k] # None => pc'[c] = "unslot")
    BY <1>7 DEF StopTake, Shape
  <2>2. QED
    BY <1>7, <2>1 DEF SlotIsExplained
<1>8. ASSUME NEW c \in Calls, NEW k \in Cameras, StopBegin(c, k) PROVE SlotIsExplained'
  BY <1>7, <1>8 DEF StopBegin
<1>9. ASSUME NEW c \in Calls, ShutdownBegin(c) \/ StopReturn(c) \/ StopSignal(c) \/ StopUnmount(c)
      PROVE  SlotIsExplained'
  BY <1>1, <1>9 DEF ShutdownBegin, StopReturn, StopSignal, StopUnmount
<1>10. ASSUME NEW c \in Calls, ShutdownNext(c) PROVE SlotIsExplained'
  <2>1. CASE todo[c] = {} /\ Goto(c, "stopped") /\ UNCHANGED <<cam, victim, todo, streams>>
    BY <1>1, <1>10, <2>1 DEF ShutdownNext
  <2>2. ASSUME NEW k \in todo[c], StopTake(c, k) PROVE SlotIsExplained'
    BY <1>7, <1>10, <2>2 DEF ShutdownNext, Shape
  <2>3. QED
    BY <1>10, <2>1, <2>2 DEF ShutdownNext
<1>11. ASSUME NEW c \in Calls, StopUnslot(c) PROVE SlotIsExplained'
  BY <1>11 DEF StopUnslot, SlotIsExplained, Shape
<1>12. CASE UNCHANGED <<pc, cam, streams, slots>>
  BY <1>12 DEF SlotIsExplained
<1>13. QED
  BY <1>2, <1>3, <1>4, <1>5, <1>6, <1>8, <1>9, <1>10, <1>11, <1>12
  DEF Next, CreateStep, StopStep, PipeOpen, PipeFails, PipeStops, vars, callVars

\* The invariant holds in every behaviour.
LEMMA IInvHolds == Spec => []IInv
<1>1. IInv /\ [Next]_vars => IInv'
  BY StepShape, StepPermits, StepHold, StepMount, StepSlot DEF IInv
<1>2. QED
  BY InitIInv, <1>1, PTL DEF Spec

-----------------------------------------------------------------------------

\* Every permit is free or with one create call that is under way, whatever
\* way the calls end.
THEOREM PermitAccountingHolds == Spec => []PermitAccounting
<1>1. IInv => PermitAccounting
  BY DEF IInv
<1>2. QED
  BY <1>1, IInvHolds, PTL

\* The number of free permits stays between 0 and MaxStreams, and the shared
\* maps and the calls keep their types.
THEOREM Typing == Spec => []TypeOK
<1>1. IInv => TypeOK
  <2> SUFFICES ASSUME IInv PROVE TypeOK
    OBVIOUS
  <2>1. CreateCalls \in SUBSET Calls
    BY DEF CreateCalls
  <2>2. Cardinality(CreateCalls) \in Nat
    BY <2>1, FS_Subset, FS_CardinalityType, ManagerAssumption DEF ManagerAssumption
  <2>3. permits \in 0 .. MaxStreams
    BY <2>2, ManagerAssumption DEF ManagerAssumption, IInv, Shape, PermitAccounting
  <2>4. QED
    BY <2>3 DEF IInv, Shape, TypeOK
<1>2. QED
  BY <1>1, IInvHolds, PTL

\* A pipeline whose stop sender is unused has exactly one holder: it can be
\* stopped, and no two stop_stream calls work on the same pipeline.
THEOREM OneHolderHolds == Spec => []OneHolder
<1>1. IInv => OneHolder
  <2> SUFFICES ASSUME IInv, NEW p \in Calls, stopTx[p] = "live"
               PROVE  \E h \in Holders(p) : Holders(p) = {h}
    BY DEF OneHolder
  <2> USE DEF IInv, HoldInv, TrackedIsCreated, VictimIsTaken
  <2>1. CASE pc[p] = "store"
    <3>1. \A k \in Cameras : streams[k] # p
      BY <2>1
    <3>2. \A c \in Calls : ~(victim[c] = p /\ pc[c] \in Unsignalled)
      BY <2>1
    <3>3. Holders(p) = {<<"create", p>>}
      BY <2>1, <3>1, <3>2 DEF Holders
    <3>4. QED
      BY <3>3
  <2>2. ASSUME NEW k \in Cameras, streams[k] = p
        PROVE  \E h \in Holders(p) : Holders(p) = {h}
    <3>1. pc[p] = "created" /\ \A j \in Cameras : streams[j] = p <=> j = k
      BY <2>2
    <3>2. \A c \in Calls : ~(victim[c] = p /\ pc[c] \in Unsignalled)
      BY <2>2
    <3>3. Holders(p) = {<<"map", k>>}
      BY <3>1, <3>2 DEF Holders
    <3>4. QED
      BY <3>3
  <2>3. ASSUME NEW c \in Calls, pc[c] \in Unsignalled, victim[c] = p
        PROVE  \E h \in Holders(p) : Holders(p) = {h}
    <3>1. pc[p] = "created" /\ \A k \in Cameras : streams[k] # p
      BY <2>3
    <3>2. \A d \in Calls : (victim[d] = p /\ pc[d] \in Unsignalled) <=> d = c
      BY <2>3
    <3>3. Holders(p) = {<<"stop", c>>}
      BY <3>1, <3>2 DEF Holders
    <3>4. QED
      BY <3>3
  <2>4. QED
    BY <2>1, <2>2, <2>3 DEF LiveIsHeld
<1>2. QED
  BY <1>1, IInvHolds, PTL

\* With no call under way for it and no dropped create, a camera without a
\* tracked stream has neither an RTSP mount nor a recording slot.
THEOREM NoStaleMountHolds == Spec => []NoStaleMount
<1>1. IInv => NoStaleMount
  BY DEF IInv, MountIsExplained, SlotIsExplained, NoStaleMount, InProgress, Creating, Stopping
<1>2. QED
  BY <1>1, IInvHolds, PTL
=============================================================================
