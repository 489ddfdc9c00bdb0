----------------------------- MODULE StreamHub ------------------------------
(***************************************************************************)
(* One media pipeline (crates/streaming/src/hub.rs): a source task that    *)
(* broadcasts frames, one task per output that takes its output out of the *)
(* shared registry and forwards frames to it, the run() call that spawns   *)
(* them, and the HubHandle calls that add and remove outputs meanwhile.    *)
(*                                                                         *)
(* &mut self methods exclude each other and &self methods; `caller` is the *)
(* one in progress.  HubHandle methods only share the registry lock, so    *)
(* they interleave with everything.  A step ends where the code can yield. *)
(***************************************************************************)
EXTENDS Integers, FiniteSets

CONSTANTS
    Outputs,      \* the ids outputs get; each is handed out once
    MaxOutputs,   \* max_outputs
    Capacity,     \* capacity of the broadcast channel
    MaxFrames,    \* bound on the frames broadcast
    MaxStreams,   \* permits of the ResourceController
    None          \* no output

ASSUME HubAssumption ==
    /\ MaxOutputs \in Nat
    /\ Capacity \in Nat \ {0}
    /\ MaxFrames \in Nat
    /\ MaxStreams \in Nat
    /\ None \notin Outputs

VARIABLES
    running,      \* HubInner.running
    registry,     \* keys of HubInner.outputs
    stopTx,       \* keys of HubInner.output_stop
    added,        \* ids handed out so far
    stopSent,     \* the global stop watch was sent (or its sender dropped)
    caller,       \* the &mut self method in progress
    adding,       \* the output try_add_output is about to add
    runIds,       \* ids run() has collected and not spawned yet
    pc,           \* pc[t]: state of output task t
    src,          \* state of the source task
    failed,       \* history: next_frame returned an error
    lifecycle,    \* StreamLifecycle's entry for this stream
    permits,      \* permits left in the ResourceController
    viewer,       \* a subscribe_frames() receiver exists
    sent,         \* frames broadcast so far; frame n is at position n
    rx,           \* rx[o]: last position o's receiver has consumed
    from,         \* history: rx[o] when o subscribed
    got, missed   \* history: positions delivered to o / announced as Lagged

hubVars  == <<running, registry, stopTx, added, stopSent, caller, adding, runIds>>
srcVars  == <<src, failed, lifecycle>>
feedVars == <<sent, rx, from, got, missed>>
vars     == <<hubVars, pc, srcVars, permits, viewer, feedVars>>

\* run() and spawn_output_task() may each have a task for the same output.
Tasks == Outputs \X {"run", "dyn"}

TaskSteps == {"none", "spawned", "starting", "running", "sending",
              "stopping", "done"}

SrcSteps == {"unspawned", "spawned", "acquiring", "opening", "running",
             "closing", "done"}

StreamStates == {"Starting", "Running", "Stopping", "Stopped", "Error"}

TypeOK ==
    /\ running \in BOOLEAN /\ stopSent \in BOOLEAN
    /\ registry \subseteq added /\ stopTx \subseteq added
    /\ added \subseteq Outputs
    /\ caller \in {"free", "trying", "marked", "spawning"}
    /\ IF caller = "trying" THEN adding \in Outputs ELSE adding = None
    /\ runIds \subseteq added
    /\ pc \in [Tasks -> TaskSteps]
    /\ src \in SrcSteps
    /\ failed \in BOOLEAN
    /\ lifecycle \in StreamStates \cup {"absent"}
    /\ permits \in 0 .. MaxStreams
    /\ viewer \in BOOLEAN
    /\ sent \in 0 .. MaxFrames
    /\ rx \in [Outputs -> 0 .. MaxFrames]
    /\ from \in [Outputs -> 0 .. MaxFrames]
    /\ got \in [Outputs -> SUBSET (1 .. MaxFrames)]
    /\ missed \in [Outputs -> SUBSET (1 .. MaxFrames)]

Init ==
    /\ running = FALSE /\ stopSent = FALSE
    /\ registry = {} /\ stopTx = {} /\ added = {}
    /\ caller = "free" /\ adding = None /\ runIds = {}
    /\ pc = [t \in Tasks |-> "none"]
    /\ src = "unspawned" /\ failed = FALSE /\ lifecycle = "absent"
    /\ permits = MaxStreams
    /\ viewer = FALSE
    /\ sent = 0
    /\ rx = [o \in Outputs |-> 0] /\ from = [o \in Outputs |-> 0]
    /\ got = [o \in Outputs |-> {}] /\ missed = [o \in Outputs |-> {}]

-----------------------------------------------------------------------------
(* The callers: StreamHub's methods and HubHandle's.                       *)

\* Insert the output and its stop sender; `spawn` says whether a task follows.
Register(o, spawn) ==
    /\ o \notin added
    /\ added' = added \cup {o}
    /\ registry' = registry \cup {o}
    /\ stopTx' = stopTx \cup {o}
    /\ pc' = IF spawn THEN [pc EXCEPT ![<<o, "dyn">>] = "spawned"] ELSE pc

AddOutput(o) ==
    /\ caller = "free"
    /\ Register(o, running)
    /\ UNCHANGED <<running, stopSent, caller, adding, runIds>>
    /\ UNCHANGED <<srcVars, permits, viewer, feedVars>>

\* try_add_output: both limits are checked, then the lock is taken again.
TryAddCheck(o) ==
    /\ caller = "free"
    /\ o \notin added
    /\ Cardinality(registry) < MaxOutputs
    /\ permits > 0
    /\ caller' = "trying"
    /\ adding' = o
    /\ UNCHANGED <<running, registry, stopTx, added, stopSent, runIds>>
    /\ UNCHANGED <<pc, srcVars, permits, viewer, feedVars>>

TryAddInsert ==
    /\ caller = "trying"
    /\ Register(adding, running)
    /\ caller' = "free"
    /\ adding' = None
    /\ UNCHANGED <<running, stopSent, runIds>>
    /\ UNCHANGED <<srcVars, permits, viewer, feedVars>>

\* HubHandle::add_output_at_runtime always spawns.
AddOutputAtRuntime(o) ==
    /\ o # adding
    /\ Register(o, TRUE)
    /\ UNCHANGED <<running, stopSent, caller, adding, runIds>>
    /\ UNCHANGED <<srcVars, permits, viewer, feedVars>>

\* StreamHub::remove_output and HubHandle::remove_output.
RemoveOutput(o) ==
    /\ o \in stopTx
    /\ registry' = registry \ {o}
    /\ stopTx' = stopTx \ {o}
    /\ UNCHANGED <<running, added, stopSent, caller, adding, runIds>>
    /\ UNCHANGED <<pc, srcVars, permits, viewer, feedVars>>

\* run() takes the source, so it happens once.
RunMark ==
    /\ caller = "free" /\ ~running
    /\ running' = TRUE
    /\ caller' = "marked"
    /\ UNCHANGED <<registry, stopTx, added, stopSent, adding, runIds>>
    /\ UNCHANGED <<pc, srcVars, permits, viewer, feedVars>>

RunCollect ==
    /\ caller = "marked"
    /\ runIds' = registry
    /\ caller' = "spawning"
    /\ UNCHANGED <<running, registry, stopTx, added, stopSent, adding>>
    /\ UNCHANGED <<pc, srcVars, permits, viewer, feedVars>>

RunSpawn(o) ==
    /\ caller = "spawning" /\ o \in runIds
    /\ runIds' = runIds \ {o}
    /\ pc' = [pc EXCEPT ![<<o, "run">>] = "spawned"]
    /\ UNCHANGED <<running, registry, stopTx, added, stopSent, caller, adding>>
    /\ UNCHANGED <<srcVars, permits, viewer, feedVars>>

RunReturn ==
    /\ caller = "spawning" /\ runIds = {}
    /\ caller' = "free"
    /\ src' = "spawned"
    /\ UNCHANGED <<running, registry, stopTx, added, stopSent, adding, runIds>>
    /\ UNCHANGED <<pc, failed, lifecycle, permits, viewer, feedVars>>

Stop ==
    /\ caller = "free" /\ ~stopSent
    /\ stopSent' = TRUE
    /\ UNCHANGED <<running, registry, stopTx, added, caller, adding, runIds>>
    /\ UNCHANGED <<pc, srcVars, permits, viewer, feedVars>>

\* HubHandle::subscribe_frames, and the receiver being dropped again.
SubscribeFrames ==
    /\ viewer' = ~viewer
    /\ UNCHANGED <<hubVars, pc, srcVars, permits, feedVars>>

-----------------------------------------------------------------------------
(* An output task, t = <<o, kind>>; run() and spawn_output_task() have the *)
(* same body.                                                              *)

Owning == {"starting", "running", "sending", "stopping"}

\* Tasks that hold a broadcast receiver: it lives until the task ends.
Receivers == {t \in Tasks : pc[t] \in {"running", "sending", "stopping"}}

\* Mutant: the task looks the output up and leaves it in the registry.
TakeWithoutRemove(t) ==
    /\ pc[t] = "spawned"
    /\ pc' = [pc EXCEPT ![t] = IF t[1] \in registry THEN "starting" ELSE "done"]
    /\ UNCHANGED <<hubVars, srcVars, permits, viewer, feedVars>>

\* Only one of the tasks of an output finds it in the registry.
TakeOutput(t) ==
    /\ pc[t] = "spawned"
    /\ registry' = registry \ {t[1]}
    /\ pc' = [pc EXCEPT ![t] = IF t[1] \in registry THEN "starting" ELSE "done"]
    /\ UNCHANGED <<running, stopTx, added, stopSent, caller, adding, runIds>>
    /\ UNCHANGED <<srcVars, permits, viewer, feedVars>>

\* The task subscribes to the broadcast only after start() has returned.
StartOutput(t) ==
    /\ pc[t] = "starting"
    /\ pc' = [pc EXCEPT ![t] = "running"]
    /\ rx' = [rx EXCEPT ![t[1]] = sent]
    /\ from' = [from EXCEPT ![t[1]] = sent]
    /\ UNCHANGED <<hubVars, srcVars, permits, viewer, sent, got, missed>>

\* start() fails: the output is dropped without a stop().
StartOutputFails(t) ==
    /\ pc[t] = "starting"
    /\ pc' = [pc EXCEPT ![t] = "done"]
    /\ UNCHANGED <<hubVars, srcVars, permits, viewer, feedVars>>

\* Mutants: the loop selects on one of the two stop signals only.
OnlyOwnStop(o) == o \notin stopTx

OnlyGlobalStop(o) == stopSent

\* A removed sender leaves the watch changed (true was sent) or closed: either
\* way changed() is ready, however early the removal came.
StopSignalled(o) == stopSent \/ o \notin stopTx

TakeStopBranch(t) ==
    /\ pc[t] = "running"
    /\ StopSignalled(t[1])
    /\ pc' = [pc EXCEPT ![t] = "stopping"]
    /\ UNCHANGED <<hubVars, srcVars, permits, viewer, feedVars>>

\* recv() of a receiver within the ring: the next position.
RecvFrame(t) ==
    /\ pc[t] = "running"
    /\ rx[t[1]] < sent
    /\ sent - rx[t[1]] <= Capacity
    /\ rx' = [rx EXCEPT ![t[1]] = @ + 1]
    /\ got' = [got EXCEPT ![t[1]] = @ \cup {rx[t[1]] + 1}]
    /\ pc' = [pc EXCEPT ![t] = "sending"]
    /\ UNCHANGED <<hubVars, srcVars, permits, viewer, sent, from, missed>>

\* Mutant: on Lagged the receiver starts over at the newest frame.
ResubscribeOnLag(t) ==
    /\ pc[t] = "running"
    /\ sent - rx[t[1]] > Capacity
    /\ rx' = [rx EXCEPT ![t[1]] = sent]
    /\ missed' = [missed EXCEPT ![t[1]] = @ \cup (rx[t[1]] + 1 .. sent - Capacity)]
    /\ UNCHANGED <<hubVars, pc, srcVars, permits, viewer, sent, from, got>>

\* recv() of a receiver the ring has overtaken: Lagged(n) skips to the oldest
\* position still held; the task logs it and goes on.
RecvLagged(t) ==
    /\ pc[t] = "running"
    /\ sent - rx[t[1]] > Capacity
    /\ rx' = [rx EXCEPT ![t[1]] = sent - Capacity]
    /\ missed' = [missed EXCEPT ![t[1]] = @ \cup (rx[t[1]] + 1 .. sent - Capacity)]
    /\ UNCHANGED <<hubVars, pc, srcVars, permits, viewer, sent, from, got>>

\* send_frame() returns; an error ends the loop.
SendFrame(t) ==
    /\ pc[t] = "sending"
    /\ \E next \in {"running", "stopping"} : pc' = [pc EXCEPT ![t] = next]
    /\ UNCHANGED <<hubVars, srcVars, permits, viewer, feedVars>>

StopOutput(t) ==
    /\ pc[t] = "stopping"
    /\ pc' = [pc EXCEPT ![t] = "done"]
    /\ UNCHANGED <<hubVars, srcVars, permits, viewer, feedVars>>

TaskStep(t) ==
    \/ TakeOutput(t)
    \/ StartOutput(t) \/ StartOutputFails(t)
    \/ RecvFrame(t) \/ RecvLagged(t)
    \/ SendFrame(t)
    \/ StopOutput(t)

-----------------------------------------------------------------------------
(* The source task.                                                        *)

\* Mutant: the cleanup path may leave Error.
CanLeaveError(old, new) ==
    \/ old = "Error" /\ new = "Stopping"
    \/ <<old, new>> \in
        {<<"Starting", "Running">>, <<"Running", "Stopping">>,
         <<"Running", "Error">>, <<"Stopping", "Stopped">>}

\* StreamState::can_transition_to.
CanTransition(old, new) ==
    <<old, new>> \in
        {<<"Starting", "Running">>, <<"Starting", "Error">>,
         <<"Running", "Stopping">>, <<"Running", "Error">>,
         <<"Stopping", "Stopped">>, <<"Stopping", "Error">>,
         <<"Stopped", "Starting">>, <<"Error", "Starting">>}

\* lifecycle.transition(): a refused transition is ignored by the hub.
Transition(old, new) == IF CanTransition(old, new) THEN new ELSE old

SrcRegister ==
    /\ src = "spawned"
    /\ src' = "acquiring"
    /\ lifecycle' = "Starting"
    /\ UNCHANGED <<hubVars, pc, failed, permits, viewer, feedVars>>

\* The permit is bound inside the match arm and dropped at its end, in the
\* same step: the count is as before.
SrcAcquire ==
    /\ src = "acquiring"
    /\ permits > 0
    /\ src' = "opening"
    /\ lifecycle' = Transition(lifecycle, "Running")
    /\ UNCHANGED <<hubVars, pc, failed, permits, viewer, feedVars>>

SrcOpen ==
    /\ src = "opening"
    /\ src' = "running"
    /\ UNCHANGED <<hubVars, pc, failed, lifecycle, permits, viewer, feedVars>>

\* start() fails: Error, and the entry is removed.
SrcOpenFails ==
    /\ src = "opening"
    /\ src' = "done"
    /\ lifecycle' = "absent"
    /\ UNCHANGED <<hubVars, pc, failed, permits, viewer, feedVars>>

\* A frame is broadcast when somebody receives; otherwise it is discarded.
SrcFrame ==
    /\ src = "running"
    /\ sent < MaxFrames
    /\ sent' = IF Receivers # {} \/ viewer THEN sent + 1 ELSE sent
    /\ UNCHANGED <<hubVars, pc, srcVars, permits, viewer, rx, from, got, missed>>

\* next_frame() fails: Error, then the cleanup asks for Stopping.
SrcFails ==
    /\ src = "running"
    /\ src' = "closing"
    /\ failed' = TRUE
    /\ lifecycle' = Transition(Transition(lifecycle, "Error"), "Stopping")
    /\ UNCHANGED <<hubVars, pc, permits, viewer, feedVars>>

SrcStopBranch ==
    /\ src = "running"
    /\ stopSent
    /\ src' = "closing"
    /\ lifecycle' = Transition(lifecycle, "Stopping")
    /\ UNCHANGED <<hubVars, pc, failed, permits, viewer, feedVars>>

\* source.stop() returns; Stopped is asked for.
SrcClosed ==
    /\ src = "closing"
    /\ src' = "done"
    /\ lifecycle' = Transition(lifecycle, "Stopped")
    /\ UNCHANGED <<hubVars, pc, failed, permits, viewer, feedVars>>

\* The other users of the controller: create_stream calls that hold a permit
\* while they build a pipeline.  The semaphore is fair: while this source
\* waits nobody overtakes it.
OtherAcquire ==
    /\ src # "acquiring" /\ permits > 0
    /\ permits' = permits - 1
    /\ UNCHANGED <<hubVars, pc, srcVars, viewer, feedVars>>

OtherRelease ==
    /\ permits < MaxStreams
    /\ permits' = permits + 1
    /\ UNCHANGED <<hubVars, pc, srcVars, viewer, feedVars>>

SrcStep == \/ SrcRegister \/ SrcAcquire
           \/ SrcOpen \/ SrcOpenFails
           \/ SrcFrame \/ SrcFails \/ SrcClosed

-----------------------------------------------------------------------------

Next ==
    \/ \E o \in Outputs : \/ AddOutput(o) \/ TryAddCheck(o)
                          \/ AddOutputAtRuntime(o) \/ RemoveOutput(o)
                          \/ RunSpawn(o)
    \/ TryAddInsert
    \/ RunMark \/ RunCollect \/ RunReturn
    \/ Stop
    \/ SubscribeFrames
    \/ \E t \in Tasks : TaskStep(t) \/ TakeStopBranch(t)
    \/ SrcStep \/ SrcStopBranch
    \/ OtherAcquire \/ OtherRelease

\* Spawned tasks are polled until they end, and start(), send_frame(), stop()
\* and next_frame() return.  select! picks at random among ready branches, so
\* a stop branch that is ready again and again is taken (strong fairness).
\* create_stream calls end, so permits come back.
Fairness ==
    /\ \A t \in Tasks : WF_vars(TaskStep(t)) /\ SF_vars(TakeStopBranch(t))
    /\ WF_vars(SrcStep) /\ SF_vars(SrcStopBranch)
    /\ WF_vars(OtherRelease)

Spec == Init /\ [][Next]_vars /\ Fairness

-----------------------------------------------------------------------------

Owners(o) == {t \in Tasks : t[1] = o /\ pc[t] \in Owning}

\* An output is in the registry or with one task, never with two: run() and
\* a HubHandle call that race may both spawn a task for it, and only one of
\* them may start it, feed it and stop it.
OneOwner ==
    \A o \in Outputs :
        /\ \A t, u \in Owners(o) : t = u
        /\ o \in registry => Owners(o) = {}

\* Every frame broadcast while an output listens reaches it exactly once or
\* is announced to it as Lagged; an output never skips frames unnoticed.
GapsAreAnnounced ==
    \A o \in Outputs :
        /\ got[o] \cup missed[o] = from[o] + 1 .. rx[o]
        /\ got[o] \cap missed[o] = {}

\* A pipeline whose source failed is never reported as having stopped in
\* order: the cleanup code's transitions do not overwrite Error.
FailureStaysVisible ==
    failed => lifecycle = "Error"

Quiet == /\ \A t \in Tasks : pc[t] \in {"none", "done"}
         /\ src \in {"unspawned", "done"}

\* After stop() every task ends, the source's and the outputs', also those
\* spawned by calls that race with the stop.
StopDrains == stopSent ~> []Quiet

\* A removed output's tasks end although the pipeline goes on, however the
\* removal interleaves with run() spawning them.
RemovalEndsTask ==
    \A o \in Outputs :
        o \in added \ stopTx ~> \A t \in Tasks : t[1] = o => pc[t] \in {"none", "done"}
=============================================================================
