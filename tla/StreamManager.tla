--------------------------- MODULE StreamManager ----------------------------
(***************************************************************************)
(* The stream manager (crates/web/src/stream_manager.rs): concurrent       *)
(* create_stream, stop_stream and shutdown_all calls over the shared map   *)
(* of stream handles, the RTSP mounts, the recording slots and the permits *)
(* of the ResourceController.                                              *)
(*                                                                         *)
(* A create call owns the pipeline it builds, so pipelines are named by    *)
(* their call.  Each step of a call ends at an await or before an access   *)
(* to state that other threads share.  An HTTP client that goes away drops *)
(* the future of its call at an await.                                     *)
(***************************************************************************)
EXTENDS Integers, FiniteSets

CONSTANTS
    Cameras,     \* camera ids
    Calls,       \* calls of the manager, each made once
    MaxStreams,  \* DEFAULT_MAX_STREAMS
    None

ASSUME ManagerAssumption ==
    /\ MaxStreams \in Nat
    /\ None \notin Calls
    /\ None \notin Cameras
    /\ IsFiniteSet(Calls)

VARIABLES
    pc,        \* pc[c]: where call c is
    cam,       \* cam[c]: the camera call c is working on
    streams,   \* streams[k]: the pipeline whose handle is tracked
    mounts,    \* mounts[k]: the pipeline behind the RTSP path live/{k}
    slots,     \* slots[k]: the pipeline behind the recording slot of k
    permits,   \* free permits
    pipe,      \* pipe[c]: the source task of the pipeline built by c
    stopTx,    \* stopTx[c]: its stop sender
    victim,    \* victim[c]: the handle a stop call has taken
    todo       \* todo[c]: cameras a shutdown_all call has left to stop

callVars == <<pc, cam, victim, todo>>
pipeVars == <<pipe, stopTx>>
vars == <<callVars, streams, mounts, slots, permits, pipeVars>>

Creating  == {"dup", "source", "mount", "slot", "run", "store"}
Stopping  == {"unslot", "unmount", "signal", "await"}
Ended     == {"created", "failed", "cancelled", "stopped", "missing"}
CallSteps == Creating \cup Stopping \cup Ended \cup {"idle", "next"}

Handles == Calls \cup {None}

TypeOK ==
    /\ pc \in [Calls -> CallSteps]
    /\ cam \in [Calls -> Cameras \cup {None}]
    /\ \A c \in Calls : pc[c] \in Creating \cup Stopping \cup {"created"} => cam[c] \in Cameras
    /\ streams \in [Cameras -> Handles]
    /\ mounts \in [Cameras -> Handles]
    /\ slots \in [Cameras -> Handles]
    /\ permits \in 0 .. MaxStreams
    /\ pipe \in [Calls -> {"none", "queued", "running", "ended"}]
    /\ stopTx \in [Calls -> {"none", "live", "gone"}]
    /\ victim \in [Calls -> Handles]
    /\ \A c \in Calls : pc[c] \in Stopping => victim[c] \in Calls
    /\ todo \in [Calls -> SUBSET Cameras]

Init ==
    /\ pc = [c \in Calls |-> "idle"]
    /\ cam = [c \in Calls |-> None]
    /\ streams = [k \in Cameras |-> None]
    /\ mounts = [k \in Cameras |-> None]
    /\ slots = [k \in Cameras |-> None]
    /\ permits = MaxStreams
    /\ pipe = [c \in Calls |-> "none"]
    /\ stopTx = [c \in Calls |-> "none"]
    /\ victim = [c \in Calls |-> None]
    /\ todo = [c \in Calls |-> {}]

Goto(c, step) == pc' = [pc EXCEPT ![c] = step]

-----------------------------------------------------------------------------
(* create_stream                                                           *)

\* try_acquire: the permit is bound to the call and comes back when it ends.
CreateBegin(c, k) ==
    /\ pc[c] = "idle"
    /\ cam' = [cam EXCEPT ![c] = k]
    /\ IF permits > 0
       THEN permits' = permits - 1 /\ Goto(c, "dup")
       ELSE UNCHANGED permits /\ Goto(c, "failed")
    /\ UNCHANGED <<victim, todo, streams, mounts, slots, pipeVars>>

\* Mutant: the duplicate path forgets its permit.
DupKeepsPermit(c) ==
    /\ pc[c] = "dup"
    /\ Goto(c, IF streams[cam[c]] # None THEN "failed" ELSE "source")
    /\ UNCHANGED <<cam, victim, todo, streams, mounts, slots, permits, pipeVars>>

\* The duplicate check, under a read lock that is released again.
CreateDup(c) ==
    /\ pc[c] = "dup"
    /\ IF streams[cam[c]] # None
       THEN permits' = permits + 1 /\ Goto(c, "failed")
       ELSE UNCHANGED permits /\ Goto(c, "source")
    /\ UNCHANGED <<cam, victim, todo, streams, mounts, slots, pipeVars>>

\* The source is built from the configuration; a bad one ends the call.
CreateSource(c) ==
    /\ pc[c] = "source"
    /\ \/ UNCHANGED permits /\ Goto(c, "mount")
       \/ permits' = permits + 1 /\ Goto(c, "failed")
    /\ UNCHANGED <<cam, victim, todo, streams, mounts, slots, pipeVars>>

\* register_live_stream replaces whatever is mounted at the path.
CreateMount(c) ==
    /\ pc[c] = "mount"
    /\ mounts' = [mounts EXCEPT ![cam[c]] = c]
    /\ Goto(c, "slot")
    /\ UNCHANGED <<cam, victim, todo, streams, slots, permits, pipeVars>>

\* The recording slot, when recording is enabled; it replaces another one.
CreateSlot(c) ==
    /\ pc[c] = "slot"
    /\ \/ slots' = [slots EXCEPT ![cam[c]] = c]
       \/ UNCHANGED slots
    /\ Goto(c, "run")
    /\ UNCHANGED <<cam, victim, todo, streams, mounts, permits, pipeVars>>

\* hub.run and the monitor task that waits for the stop sender.
CreateRun(c) ==
    /\ pc[c] = "run"
    /\ pipe' = [pipe EXCEPT ![c] = "queued"]
    /\ stopTx' = [stopTx EXCEPT ![c] = "live"]
    /\ Goto(c, "store")
    /\ UNCHANGED <<cam, victim, todo, streams, mounts, slots, permits>>

\* The sender of a handle that is dropped without a send.
Dropped(senders, h) ==
    IF h \in Calls THEN [senders EXCEPT ![h] = "gone"] ELSE senders

\* Mutant: the replaced handle is kept alive somewhere, its sender unused.
StoreLeaksReplaced(c) ==
    /\ pc[c] = "store"
    /\ streams' = [streams EXCEPT ![cam[c]] = c]
    /\ permits' = permits + 1
    /\ Goto(c, "created")
    /\ UNCHANGED <<cam, victim, todo, mounts, slots, pipeVars>>

\* The handle is stored; one that was there is dropped, and its sender with it.
CreateStore(c) ==
    /\ pc[c] = "store"
    /\ streams' = [streams EXCEPT ![cam[c]] = c]
    /\ stopTx' = Dropped(stopTx, streams[cam[c]])
    /\ permits' = permits + 1
    /\ Goto(c, "created")
    /\ UNCHANGED <<cam, victim, todo, mounts, slots, pipe>>

\* Mutant: the stop sender outlives the dropped future.
CancelKeepsSender(c) ==
    /\ pc[c] \in Creating \ {"mount"}
    /\ permits' = permits + 1
    /\ Goto(c, "cancelled")
    /\ UNCHANGED <<cam, victim, todo, streams, mounts, slots, pipeVars>>

\* The future is dropped at an await: its locals go, the registrations stay.
CreateCancel(c) ==
    /\ pc[c] \in Creating \ {"mount"}
    /\ permits' = permits + 1
    /\ stopTx' = IF pc[c] = "store" THEN Dropped(stopTx, c) ELSE stopTx
    /\ Goto(c, "cancelled")
    /\ UNCHANGED <<cam, victim, todo, streams, mounts, slots, pipe>>

CreateStep(c) ==
    \/ CreateDup(c) \/ CreateSource(c) \/ CreateMount(c)
    \/ CreateSlot(c) \/ CreateRun(c) \/ CreateStore(c)

-----------------------------------------------------------------------------
(* stop_stream and shutdown_all                                            *)

\* The handle is removed from the map under the write lock.
StopTake(c, k) ==
    /\ victim' = [victim EXCEPT ![c] = streams[k]]
    /\ streams' = [streams EXCEPT ![k] = None]
    /\ cam' = [cam EXCEPT ![c] = k]
    /\ Goto(c, IF streams[k] # None THEN "unslot"
               ELSE IF pc[c] = "idle" THEN "missing" ELSE "next")

StopBegin(c, k) ==
    /\ pc[c] = "idle"
    /\ StopTake(c, k)
    /\ UNCHANGED <<todo, mounts, slots, permits, pipeVars>>

\* shutdown_all: a snapshot of the keys, then stop_stream one by one.
ShutdownBegin(c) ==
    /\ pc[c] = "idle"
    /\ todo' = [todo EXCEPT ![c] = {k \in Cameras : streams[k] # None}]
    /\ Goto(c, "next")
    /\ UNCHANGED <<cam, victim, streams, mounts, slots, permits, pipeVars>>

ShutdownNext(c) ==
    /\ pc[c] = "next"
    /\ \/ /\ todo[c] = {}
          /\ Goto(c, "stopped")
          /\ UNCHANGED <<cam, victim, todo, streams>>
       \/ \E k \in todo[c] :
             /\ todo' = [todo EXCEPT ![c] = @ \ {k}]
             /\ StopTake(c, k)
    /\ UNCHANGED <<mounts, slots, permits, pipeVars>>

StopUnslot(c) ==
    /\ pc[c] = "unslot"
    /\ slots' = [slots EXCEPT ![cam[c]] = None]
    /\ Goto(c, "unmount")
    /\ UNCHANGED <<cam, victim, todo, streams, mounts, permits, pipeVars>>

\* Mutant: the mounts are left registered.
StopKeepsMount(c) ==
    /\ pc[c] = "unmount"
    /\ Goto(c, "signal")
    /\ UNCHANGED <<cam, victim, todo, streams, mounts, slots, permits, pipeVars>>

\* unregister_live_stream goes by path, whoever registered it.
StopUnmount(c) ==
    /\ pc[c] = "unmount"
    /\ mounts' = [mounts EXCEPT ![cam[c]] = None]
    /\ Goto(c, "signal")
    /\ UNCHANGED <<cam, victim, todo, streams, slots, permits, pipeVars>>

StopSignal(c) ==
    /\ pc[c] = "signal"
    /\ stopTx' = [stopTx EXCEPT ![victim[c]] = "gone"]
    /\ Goto(c, "await")
    /\ UNCHANGED <<cam, victim, todo, streams, mounts, slots, permits, pipe>>

\* The pipeline has ended, or five seconds have passed and the handle is
\* abandoned (as it is when the caller goes away here).
StopReturn(c) ==
    /\ pc[c] = "await"
    /\ Goto(c, IF todo[c] = {} THEN "stopped" ELSE "next")
    /\ UNCHANGED <<cam, victim, todo, streams, mounts, slots, permits, pipeVars>>

StopStep(c) ==
    \/ StopUnslot(c) \/ StopUnmount(c) \/ StopSignal(c) \/ StopReturn(c)
    \/ ShutdownNext(c)

-----------------------------------------------------------------------------
(* The pipelines, as far as the manager sees them (module StreamHub).      *)

\* The source task takes a permit and drops it before it opens the device.
PipeOpen(c) ==
    /\ pipe[c] = "queued"
    /\ permits > 0
    /\ pipe' = [pipe EXCEPT ![c] = "running"]
    /\ UNCHANGED <<callVars, streams, mounts, slots, permits, stopTx>>

\* The device cannot be opened, or the source fails; the handle stays tracked.
PipeFails(c) ==
    /\ \/ pipe[c] = "queued" /\ permits > 0
       \/ pipe[c] = "running"
    /\ pipe' = [pipe EXCEPT ![c] = "ended"]
    /\ UNCHANGED <<callVars, streams, mounts, slots, permits, stopTx>>

\* A sent and a dropped sender both end the monitor's changed().
PipeStops(c) ==
    /\ pipe[c] = "running"
    /\ stopTx[c] = "gone"
    /\ pipe' = [pipe EXCEPT ![c] = "ended"]
    /\ UNCHANGED <<callVars, streams, mounts, slots, permits, stopTx>>

-----------------------------------------------------------------------------

Next ==
    \/ \E c \in Calls, k \in Cameras : CreateBegin(c, k) \/ StopBegin(c, k)
    \/ \E c \in Calls : \/ ShutdownBegin(c)
                        \/ CreateStep(c) \/ CreateCancel(c) \/ StopStep(c)
                        \/ PipeOpen(c) \/ PipeFails(c) \/ PipeStops(c)

\* A call that is not dropped is polled until it returns; tasks run.
Fairness ==
    \A c \in Calls : /\ WF_vars(CreateStep(c)) /\ WF_vars(StopStep(c))
                     /\ WF_vars(PipeOpen(c)) /\ WF_vars(PipeStops(c))

Spec == Init /\ [][Next]_vars /\ Fairness

-----------------------------------------------------------------------------

InProgress(k) == {c \in Calls : cam[c] = k /\ pc[c] \in Creating \cup Stopping}

CreateCalls == {c \in Calls : pc[c] \in Creating}

\* Permits are neither leaked nor returned twice, on success, on each error
\* path and when the caller's future is dropped.
PermitAccounting ==
    permits + Cardinality(CreateCalls) = MaxStreams

Unsignalled == {"unslot", "unmount", "signal"}

\* Who can still stop pipeline p: the map, its own create call, or a stop
\* call that took the handle and has not signalled yet.
Holders(p) ==
    {<<"map", k>> : k \in {k \in Cameras : streams[k] = p}}
      \cup {<<"create", c>> : c \in {c \in Calls : c = p /\ pc[c] = "store"}}
      \cup {<<"stop", c>> : c \in {c \in Calls : victim[c] = p /\ pc[c] \in Unsignalled}}

\* A pipeline that has not been told to stop has exactly one holder: it is
\* never out of everybody's reach, and no two calls can stop it twice.
OneHolder ==
    \A p \in Calls :
        stopTx[p] = "live" => \E h \in Holders(p) : Holders(p) = {h}

\* With no call under way for it, a camera without a tracked stream has no
\* RTSP mount and no recording slot, so clients get a 404 and events do not
\* point at a dead segment - unless the future of a create call was dropped.
NoStaleMount ==
    \A k \in Cameras :
        (/\ InProgress(k) = {}
         /\ streams[k] = None
         /\ ~ \E c \in Calls : cam[c] = k /\ pc[c] = "cancelled")
        => mounts[k] = None /\ slots[k] = None

\* A pipeline nobody tracks ends: replaced by a concurrent create, abandoned
\* by a dropped future or taken by a stop that timed out.
NoOrphanPipeline ==
    \A c \in Calls :
        (pc[c] \in {"created", "cancelled"} /\ (\A k \in Cameras : streams[k] # c))
            ~> (pipe[c] \in {"none", "ended"})

\* The promise of the resource limit: at most MaxStreams tracked streams are
\* active.
ActiveStreamsBounded ==
    Cardinality({k \in Cameras : /\ streams[k] # None
                                 /\ pipe[streams[k]] = "running"}) <= MaxStreams
=============================================================================
