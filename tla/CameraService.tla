---------------------------- MODULE CameraService ---------------------------
(***************************************************************************)
(* The camera rows of the database against the streams that run: the       *)
(* start, stop, create, update and delete routes, the hot-plug task, and   *)
(* the boot that discovers devices and resumes the streams of the last     *)
(* run.  A route handler reads a row, awaits, and later writes the whole   *)
(* row back.                                                               *)
(*                                                                         *)
(* create_stream and stop_stream are taken as single steps on the set of   *)
(* tracked cameras (module StreamManager has their inside).  SQL           *)
(* statements succeed; each is atomic.                                     *)
(***************************************************************************)
EXTENDS Integers, Sequences, FiniteSets

CONSTANTS
    Ids,          \* camera ids (UUIDs)
    Devices,      \* video device indices
    Calls,        \* HTTP requests, each made once
    MaxChanges,   \* bound: plug and unplug events in a behaviour
    MaxBoots,     \* bound: boots in a behaviour
    None

ASSUME ServiceAssumption ==
    /\ MaxChanges \in Nat
    /\ MaxBoots \in Nat
    /\ None \notin Ids \cup Devices

VARIABLES
    rows,      \* rows[i]: the row of camera i, or None
    sessions,  \* sessions[i]: open rows of stream_sessions for i
    tracked,   \* cameras with a handle in the stream manager
    plugged,   \* devices that are attached
    uevents,   \* events between the netlink socket and the hot-plug task
    hot,       \* the hot-plug task: what it does and what it has left
    phase,     \* the process: down, discover, autostart, serving
    pending,   \* devices discovery has yet to insert, cameras to autostart
    pc, target, seen,   \* a request: its step, its camera, the row it read
    changes, boots,     \* used up of the bounds
    mixed      \* history: cameras whose operations overlapped, or that a
               \* client deleted or gave a status, since the last boot

hotVars == <<uevents, hot>>
bootVars == <<phase, pending, boots>>
callVars == <<pc, target, seen>>
dbVars == <<rows, sessions>>
vars == <<dbVars, tracked, plugged, hotVars, bootVars, callVars, changes, mixed>>

Statuses == {"stopped", "running", "offline"}
Row      == [status : Statuses, device : Devices \cup {None}, since : BOOLEAN]
Steps    == {"idle", "start_create", "start_session", "start_write", "stop_take",
             "stop_finalize", "stop_write", "update_write", "done"}

Events   == [kind : {"added", "removed"}, device : Devices]
HotTasks == [step : {"recv", "discover", "mark", "stop"}, ids : SUBSET Ids, left : SUBSET Ids]

\* None marks the absence of a row.
ASSUME RowAssumption == None \notin Row

TypeOK ==
    /\ rows \in [Ids -> Row \cup {None}]
    /\ sessions \in [Ids -> Nat]
    /\ tracked \subseteq Ids
    /\ plugged \subseteq Devices
    /\ uevents \in Seq(Events)
    /\ hot \in HotTasks
    /\ hot.left \subseteq hot.ids
    /\ phase \in {"down", "discover", "autostart", "serving"}
    /\ pending \in SUBSET (Ids \cup Devices)
    /\ pc \in [Calls -> Steps]
    /\ target \in [Calls -> Ids \cup {None}]
    /\ seen \in [Calls -> Row \cup {None}]
    /\ changes \in 0 .. MaxChanges
    /\ boots \in 0 .. MaxBoots
    /\ mixed \subseteq Ids

Waiting == [step |-> "recv", ids |-> {}, left |-> {}]

Init ==
    /\ rows = [i \in Ids |-> None]
    /\ sessions = [i \in Ids |-> 0]
    /\ tracked = {}
    /\ plugged \in SUBSET Devices
    /\ uevents = <<>>
    /\ hot = Waiting
    /\ phase = "down"
    /\ pending = {}
    /\ pc = [c \in Calls |-> "idle"]
    /\ target = [c \in Calls |-> None]
    /\ seen = [c \in Calls |-> None]
    /\ changes = 0
    /\ boots = 0
    /\ mixed = {}

Exists(i)  == rows[i] # None
Running    == {i \in Ids : Exists(i) /\ rows[i].status = "running"}
Rows(d)    == {i \in Ids : Exists(i) /\ rows[i].device = d}
Active(c)  == pc[c] \notin {"idle", "done"}
Busy(i)    == i \in hot.ids \/ \E c \in Calls : Active(c) /\ target[c] = i

\* A UUID nothing refers to.
Fresh(i) == ~Exists(i) /\ i \notin tracked \cup mixed /\ ~Busy(i)

NewRow(d) == [status |-> "stopped", device |-> d, since |-> FALSE]

\* update_camera: the whole row goes back; without a row nothing happens.
Write(i, row) == rows' = [rows EXCEPT ![i] = IF Exists(i) THEN row ELSE @]

-----------------------------------------------------------------------------
(* Discovery, at boot and after an "added" event                           *)

\* The attached devices that no row names.
Missing == {d \in plugged : Rows(d) = {}}

\* Mutant: the insert forgets the device index.
InsertWithoutDevice(d, i) == rows' = [rows EXCEPT ![i] = NewRow(None)]

InsertRow(d, i) == rows' = [rows EXCEPT ![i] = NewRow(d)]

\* One insert of auto_discover_cameras; the list of rows is from its start.
DiscoverInsert ==
    /\ \E d \in pending \cap Devices, i \in Ids :
          /\ Fresh(i)
          /\ InsertRow(d, i)
          /\ pending' = pending \ {d}
    /\ phase = "discover" \/ hot.step = "discover"
    /\ UNCHANGED <<sessions, tracked, plugged, hotVars, phase, boots, callVars,
                   changes, mixed>>

-----------------------------------------------------------------------------
(* Boot: discovery, then the streams whose row says "running"              *)

BootDiscover ==
    /\ phase = "down"
    /\ boots < MaxBoots
    /\ phase' = "discover"
    /\ boots' = boots + 1
    /\ pending' = Missing
    /\ UNCHANGED <<dbVars, tracked, plugged, hotVars, callVars, changes, mixed>>

BootList ==
    /\ phase = "discover"
    /\ pending = {}
    /\ phase' = "autostart"
    /\ pending' = Running
    /\ UNCHANGED <<dbVars, tracked, plugged, hotVars, boots, callVars, changes, mixed>>

\* Mutant: a stream that cannot start keeps its row.
AutostartKeepsRow ==
    \E i \in pending :
        /\ pending' = pending \ {i}
        /\ \/ tracked' = tracked \cup {i}
           \/ UNCHANGED tracked
        /\ phase = "autostart"
        /\ UNCHANGED <<rows, sessions, plugged, hotVars, phase, boots, callVars, changes, mixed>>

\* A stream that cannot start is marked as stopped.
Autostart ==
    /\ phase = "autostart"
    /\ \E i \in pending :
          /\ pending' = pending \ {i}
          /\ \/ tracked' = tracked \cup {i} /\ UNCHANGED rows
             \/ Write(i, [rows[i] EXCEPT !.status = "stopped"]) /\ UNCHANGED tracked
    /\ UNCHANGED <<sessions, plugged, hotVars, phase, boots, callVars, changes, mixed>>

BootServe ==
    /\ phase = "autostart"
    /\ pending = {}
    /\ phase' = "serving"
    /\ mixed' = {}
    /\ UNCHANGED <<dbVars, tracked, plugged, hotVars, pending, boots, callVars, changes>>

\* A crash, or a shutdown: shutdown_all stops the streams and leaves the rows.
Down ==
    /\ phase # "down"
    /\ phase' = "down"
    /\ tracked' = {}
    /\ uevents' = <<>>
    /\ hot' = Waiting
    /\ pending' = {}
    /\ pc' = [c \in Calls |-> IF Active(c) THEN "done" ELSE pc[c]]
    /\ UNCHANGED <<dbVars, plugged, boots, target, seen, changes, mixed>>

-----------------------------------------------------------------------------
(* Devices and the hot-plug task                                           *)

\* The kernel tells the monitor, when there is one and it reads in time.
Announce(kind, d) ==
    \/ /\ phase = "serving"
       /\ uevents' = Append(uevents, [kind |-> kind, device |-> d])
    \/ UNCHANGED uevents

Plug(d) ==
    /\ changes < MaxChanges
    /\ changes' = changes + 1
    /\ d \notin plugged
    /\ plugged' = plugged \cup {d}
    /\ Announce("added", d)
    /\ UNCHANGED <<dbVars, tracked, hot, bootVars, callVars, mixed>>

Unplug(d) ==
    /\ changes < MaxChanges
    /\ changes' = changes + 1
    /\ d \in plugged
    /\ plugged' = plugged \ {d}
    /\ Announce("removed", d)
    /\ UNCHANGED <<dbVars, tracked, hot, bootVars, callVars, mixed>>

\* "added": discovery only; a row that is offline stays as it is.
HotAdded ==
    /\ hot.step = "recv"
    /\ uevents # <<>> /\ Head(uevents).kind = "added"
    /\ uevents' = Tail(uevents)
    /\ hot' = [hot EXCEPT !.step = "discover"]
    /\ pending' = Missing
    /\ UNCHANGED <<dbVars, tracked, plugged, phase, boots, callVars, changes, mixed>>

HotDiscovered ==
    /\ hot.step = "discover"
    /\ pending = {}
    /\ hot' = Waiting
    /\ UNCHANGED <<dbVars, tracked, plugged, uevents, bootVars, callVars, changes, mixed>>

\* "removed": the rows of the device that are not offline yet.
Affected(d) == {i \in Rows(d) : rows[i].status # "offline"}

HotRemoved ==
    /\ hot.step = "recv"
    /\ uevents # <<>> /\ Head(uevents).kind = "removed"
    /\ uevents' = Tail(uevents)
    /\ LET ids == Affected(Head(uevents).device)
       IN  /\ hot' = IF ids = {} THEN Waiting
                     ELSE [step |-> "mark", ids |-> ids, left |-> ids]
           /\ mixed' = mixed \cup {i \in ids : Busy(i)}
    /\ UNCHANGED <<dbVars, tracked, plugged, bootVars, callVars, changes>>

\* Only the two columns are set here: the row is the one of this moment.
HotMark ==
    /\ hot.step = "mark"
    /\ \E i \in hot.left :
          /\ Write(i, [rows[i] EXCEPT !.status = "offline", !.since = TRUE])
          /\ hot' = IF hot.left = {i} THEN [hot EXCEPT !.step = "stop", !.left = hot.ids]
                    ELSE [hot EXCEPT !.left = @ \ {i}]
    /\ UNCHANGED <<sessions, tracked, plugged, uevents, bootVars, callVars, changes, mixed>>

\* Mutant: the stream of an unplugged camera is left running.
HotOnlyTells ==
    /\ hot.step = "stop"
    /\ \E i \in hot.left :
          hot' = IF hot.left = {i} THEN Waiting ELSE [hot EXCEPT !.left = @ \ {i}]
    /\ UNCHANGED <<dbVars, tracked, plugged, uevents, bootVars, callVars, changes, mixed>>

HotStop ==
    /\ hot.step = "stop"
    /\ \E i \in hot.left :
          /\ tracked' = tracked \ {i}
          /\ hot' = IF hot.left = {i} THEN Waiting ELSE [hot EXCEPT !.left = @ \ {i}]
    /\ UNCHANGED <<dbVars, plugged, uevents, bootVars, callVars, changes, mixed>>

HotStep == HotAdded \/ HotDiscovered \/ HotRemoved \/ HotMark \/ HotStop

-----------------------------------------------------------------------------
(* The routes                                                              *)

\* The first await of a handler: 404 without a row.
Fetch(c, i, step) ==
    /\ phase = "serving"
    /\ pc[c] = "idle"
    /\ Exists(i)
    /\ pc' = [pc EXCEPT ![c] = step]
    /\ target' = [target EXCEPT ![c] = i]
    /\ seen' = [seen EXCEPT ![c] = rows[i]]
    /\ mixed' = IF Busy(i) THEN mixed \cup {i} ELSE mixed
    /\ UNCHANGED <<dbVars, tracked, plugged, hotVars, bootVars, changes>>

StartFetch(c, i) == Fetch(c, i, "start_create")
StopFetch(c, i) == Fetch(c, i, "stop_take")
UpdateFetch(c, i) == Fetch(c, i, "update_write")

To(c, step) ==
    /\ pc' = [pc EXCEPT ![c] = step]
    /\ UNCHANGED <<target, seen>>

\* A create that fails (limit, duplicate, configuration) ends the request.  One
\* for a camera that is tracked may succeed: the check for it can be overtaken.
StartCreate(c) ==
    /\ pc[c] = "start_create"
    /\ \/ tracked' = tracked \cup {target[c]} /\ To(c, "start_session")
       \/ UNCHANGED tracked /\ To(c, "done")
    /\ UNCHANGED <<dbVars, plugged, hotVars, bootVars, changes, mixed>>

\* Best effort: without a camera the foreign key refuses the session.
StartSession(c) ==
    /\ pc[c] = "start_session"
    /\ sessions' = [sessions EXCEPT ![target[c]] = IF Exists(target[c]) THEN @ + 1 ELSE @]
    /\ To(c, "start_write")
    /\ UNCHANGED <<rows, tracked, plugged, hotVars, bootVars, changes, mixed>>

\* Mutant: the handler answers without writing the status.
StartForgetsStatus(c) ==
    /\ pc[c] = "start_write"
    /\ To(c, "done")
    /\ UNCHANGED <<rows, sessions, tracked, plugged, hotVars, bootVars, changes, mixed>>

\* The row as it was read, with the new status.
StartWrite(c) ==
    /\ pc[c] = "start_write"
    /\ Write(target[c], [seen[c] EXCEPT !.status = "running"])
    /\ To(c, "done")
    /\ UNCHANGED <<sessions, tracked, plugged, hotVars, bootVars, changes, mixed>>

\* "no active stream" is not an error to the client: both ways go on.
StopTake(c) ==
    /\ pc[c] = "stop_take"
    /\ tracked' = tracked \ {target[c]}
    /\ To(c, "stop_finalize")
    /\ UNCHANGED <<dbVars, plugged, hotVars, bootVars, changes, mixed>>

\* finalize_stream_session closes the newest open session, if there is one.
StopFinalize(c) ==
    /\ pc[c] = "stop_finalize"
    /\ sessions' = [sessions EXCEPT ![target[c]] = IF @ > 0 THEN @ - 1 ELSE @]
    /\ To(c, "stop_write")
    /\ UNCHANGED <<rows, tracked, plugged, hotVars, bootVars, changes, mixed>>

StopWrite(c) ==
    /\ pc[c] = "stop_write"
    /\ Write(target[c], [seen[c] EXCEPT !.status = "stopped"])
    /\ To(c, "done")
    /\ UNCHANGED <<sessions, tracked, plugged, hotVars, bootVars, changes, mixed>>

\* A partial update: each field from the body, or from the row that was read;
\* a configuration that is not valid is refused.
UpdateWrite(c) ==
    /\ pc[c] = "update_write"
    /\ \/ UNCHANGED <<rows, mixed>>
       \/ \E d \in Devices \cup {None} :
             \/ /\ Write(target[c], [seen[c] EXCEPT !.device = d])
                /\ UNCHANGED mixed
             \/ /\ \E s \in Statuses :
                      Write(target[c], [seen[c] EXCEPT !.device = d, !.status = s])
                /\ mixed' = mixed \cup {target[c]}
    /\ To(c, "done")
    /\ UNCHANGED <<sessions, tracked, plugged, hotVars, bootVars, changes>>

CreateCamera(c, i) ==
    /\ phase = "serving"
    /\ pc[c] = "idle"
    /\ Fresh(i)
    /\ \E d \in Devices \cup {None} : InsertRow(d, i)
    /\ To(c, "done")
    /\ UNCHANGED <<sessions, tracked, plugged, hotVars, bootVars, changes, mixed>>

\* The sessions go with the row (ON DELETE CASCADE); the stream of the
\* camera, if any, is not stopped.
DeleteCamera(c, i) ==
    /\ phase = "serving"
    /\ pc[c] = "idle"
    /\ Exists(i)
    /\ rows' = [rows EXCEPT ![i] = None]
    /\ sessions' = [sessions EXCEPT ![i] = 0]
    /\ mixed' = mixed \cup {i}
    /\ To(c, "done")
    /\ UNCHANGED <<tracked, plugged, hotVars, bootVars, changes>>

Request(c, i) ==
    \/ StartFetch(c, i) \/ StopFetch(c, i) \/ UpdateFetch(c, i)
    \/ CreateCamera(c, i) \/ DeleteCamera(c, i)

Handle(c) ==
    \/ StartCreate(c) \/ StartSession(c) \/ StartWrite(c)
    \/ StopTake(c) \/ StopFinalize(c) \/ StopWrite(c) \/ UpdateWrite(c)

BootStep == BootDiscover \/ BootList \/ Autostart \/ BootServe

-----------------------------------------------------------------------------

Next ==
    \/ BootStep \/ Down \/ HotStep \/ DiscoverInsert
    \/ \E d \in Devices : Plug(d) \/ Unplug(d)
    \/ \E c \in Calls : Handle(c) \/ \E i \in Ids : Request(c, i)

\* The process runs its own tasks; nobody has to plug, call or crash.
Fairness ==
    /\ WF_vars(HotStep) /\ WF_vars(DiscoverInsert) /\ WF_vars(BootStep)
    /\ \A c \in Calls : WF_vars(Handle(c))

Spec == Init /\ [][Next]_vars /\ Fairness

-----------------------------------------------------------------------------

\* When the routes open, the tracked streams are those of the rows that say
\* "running", whatever the last run (or a boot cut short) left behind.
BootRestoresAgreement ==
    [][phase = "autostart" /\ phase' = "serving" => tracked' = Running']_vars

\* Between operations a row says "running" exactly when its stream is
\* tracked, as long as operations on that camera did not overlap and no
\* client deleted it or set its status by hand.
SerialAgreement ==
    phase = "serving" =>
        \A i \in Ids \ mixed : ~Busy(i) => (i \in tracked <=> i \in Running)

Announced(kind, d) ==
    \E n \in 1 .. Len(uevents) : uevents[n] = [kind |-> kind, device |-> d]

\* A device whose arrival was announced gets a row, from discovery or
\* because there is one, unless it is pulled again or the process ends.
ArrivalIsRecorded ==
    \A d \in Devices :
        Announced("added", d)
            ~> (Rows(d) # {} \/ d \notin plugged \/ phase = "down")

\* A camera whose removal the hot-plug task has marked loses its stream.
RemovalStopsStream ==
    \A i \in Ids :
        (hot.step \in {"mark", "stop"} /\ i \in hot.left) ~> (i \notin tracked)
=============================================================================
