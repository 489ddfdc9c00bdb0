------------------------ MODULE CameraServiceProofs -------------------------
(***************************************************************************)
(* The rows and the streams agree: proofs of SerialAgreement and           *)
(* BootRestoresAgreement for every set of cameras, devices and requests.   *)
(*                                                                         *)
(* SerialAgreement speaks of cameras at rest.  To carry it over an         *)
(* operation, the invariant says where each operation in progress stands:  *)
(* what a request that is alone on its camera has done to the stream and   *)
(* not yet to the row, and how far the hot-plug task is with a device.     *)
(***************************************************************************)
EXTENDS CameraService, TLAPS

\* The parts of TypeOK that the argument uses.
Shape ==
    /\ rows \in [Ids -> Row \cup {None}]
    /\ tracked \subseteq Ids
    /\ hot \in HotTasks
    /\ phase \in {"down", "discover", "autostart", "serving"}
    /\ pc \in [Calls -> Steps]
    /\ target \in [Calls -> Ids \cup {None}]
    /\ seen \in [Calls -> Row \cup {None}]
    /\ \A c \in Calls : Active(c) => target[c] \in Ids /\ seen[c] \in Row

Agree(i) == i \in tracked <=> i \in Running

\* Before the routes open nothing else runs, and the streams grow towards
\* the rows.
BootInv ==
    /\ phase # "serving" =>
          /\ hot = Waiting /\ uevents = <<>>
          /\ \A c \in Calls : ~Active(c)
    /\ phase \in {"down", "discover"} => tracked = {}
    /\ phase = "autostart" => pending \subseteq Running /\ tracked = Running \ pending

\* A request on a camera outside mixed is alone on it, and its step says what
\* it has done to the stream and not yet to the row.
CallOf(c) ==
    /\ target[c] \notin hot.ids
    /\ \A d \in Calls : Active(d) /\ target[d] = target[c] => d = c
    /\ Exists(target[c])
    /\ pc[c] \in {"start_create", "stop_take", "update_write"} =>
          Agree(target[c]) /\ rows[target[c]] = seen[c]
    /\ pc[c] \in {"start_session", "start_write"} => target[c] \in tracked
    /\ pc[c] \in {"stop_finalize", "stop_write"} => target[c] \notin tracked

CallInv ==
    \A c \in Calls : Active(c) /\ target[c] \notin mixed => CallOf(c)

\* The hot-plug task marks first and stops then.
HotInv ==
    /\ hot.left \subseteq hot.ids
    /\ hot.step \in {"recv", "discover"} => hot.ids = {}
    /\ hot.step = "mark" =>
          \A i \in hot.ids \ (hot.left \cup mixed) : rows[i].status = "offline"
    /\ hot.step = "stop" =>
          \A i \in hot.ids \ mixed :
              /\ rows[i].status = "offline"
              /\ i \notin hot.left => i \notin tracked
    /\ \A i \in hot.ids \ mixed : Exists(i)

IInv == Shape /\ BootInv /\ CallInv /\ HotInv /\ SerialAgreement

-----------------------------------------------------------------------------

\* An empty database and a process that is down satisfy the invariant.
LEMMA InitIInv == Init => IInv
<1> SUFFICES ASSUME Init PROVE IInv
  OBVIOUS
<1> USE DEF Init
<1>1. Shape
  BY DEF Shape, HotTasks, Waiting, Steps, Active
<1>2. BootInv
  BY DEF BootInv, Active
<1>3. CallInv /\ HotInv /\ SerialAgreement
  BY DEF CallInv, HotInv, SerialAgreement, Active, Waiting
<1>4. QED
  BY <1>1, <1>2, <1>3 DEF IInv

\* What the edits of the routes and of the hot-plug task make of a row.
LEMMA StatusEdit ==
    ASSUME NEW r \in Row, NEW s \in Statuses
    PROVE  [r EXCEPT !.status = s] \in Row /\ [r EXCEPT !.status = s].status = s
  BY DEF Row, Statuses

\* A new configuration keeps the status.
LEMMA DeviceEdit ==
    ASSUME NEW r \in Row, NEW d \in Devices \cup {None}
    PROVE  [r EXCEPT !.device = d] \in Row /\ [r EXCEPT !.device = d].status = r.status
  BY DEF Row, Statuses

\* An update of both is a row too.
LEMMA BothEdit ==
    ASSUME NEW r \in Row, NEW d \in Devices \cup {None}, NEW s \in Statuses
    PROVE  [r EXCEPT !.device = d, !.status = s] \in Row
  BY DEF Row, Statuses

MarkedRow(r) == [r EXCEPT !.status = "offline", !.since = TRUE]

\* A marked row (mark_cameras_offline_by_device_index) is offline.
LEMMA MarkEdit ==
    ASSUME NEW r \in Row
    PROVE  MarkedRow(r) \in Row /\ MarkedRow(r).status = "offline"
  BY DEF Row, Statuses, MarkedRow

\* No step leaves the types.
LEMMA StepShape == Shape /\ BootInv /\ [Next]_vars => Shape'
<1> SUFFICES ASSUME Shape, BootInv, [Next]_vars PROVE Shape'
  OBVIOUS
<1> USE ServiceAssumption, RowAssumption
    DEF ServiceAssumption, RowAssumption, Shape, Active, Row, Statuses, Steps
<1>1. CASE UNCHANGED vars
  BY <1>1 DEF vars, dbVars, hotVars, bootVars, callVars
<1>2. CASE BootDiscover \/ BootList \/ BootServe
  BY <1>2 DEF BootDiscover, BootList, BootServe, dbVars, hotVars, callVars
<1>3. CASE Autostart
  BY <1>3 DEF Autostart, BootInv, Write, Exists, Running, hotVars, callVars
<1>4. CASE Down
  BY <1>4 DEF Down, dbVars, Waiting, HotTasks
<1>5. CASE DiscoverInsert
  BY <1>5 DEF DiscoverInsert, InsertRow, NewRow, hotVars, callVars
<1>6. CASE \E d \in Devices : Plug(d) \/ Unplug(d)
  BY <1>6 DEF Plug, Unplug, dbVars, bootVars, callVars
<1>7. CASE HotAdded \/ HotDiscovered \/ HotStop
  BY <1>7 DEF HotAdded, HotDiscovered, HotStop, Waiting, HotTasks, dbVars, bootVars, callVars
<1>8. CASE HotRemoved
  BY <1>8 DEF HotRemoved, Affected, Rows, Exists, Waiting, HotTasks, dbVars, bootVars, callVars
<1>9. CASE HotMark
  <2> HIDE DEF Row, Statuses
  <2>1. PICK i \in hot.left :
          /\ Write(i, MarkedRow(rows[i]))
          /\ \/ hot' = [hot EXCEPT !.step = "stop", !.left = hot.ids]
             \/ hot' = [hot EXCEPT !.left = @ \ {i}]
    BY <1>9 DEF HotMark, MarkedRow
  <2>2. i \in Ids
    BY DEF HotTasks
  <2>3. rows' \in [Ids -> Row \cup {None}]
    BY <2>1, <2>2, MarkEdit DEF Write, Exists
  <2>4. hot' \in HotTasks
    <3>1. CASE hot' = [hot EXCEPT !.step = "stop", !.left = hot.ids]
      BY <3>1 DEF HotTasks
    <3>2. CASE hot' = [hot EXCEPT !.left = @ \ {i}]
      BY <3>2 DEF HotTasks
    <3>3. QED
      BY <2>1, <3>1, <3>2
  <2>5. QED
    BY <1>9, <2>3, <2>4 DEF HotMark, bootVars, callVars
<1>10. ASSUME NEW c \in Calls, NEW i \in Ids, Request(c, i) PROVE Shape'
  <2>1. CASE StartFetch(c, i) \/ StopFetch(c, i) \/ UpdateFetch(c, i)
    BY <2>1 DEF StartFetch, StopFetch, UpdateFetch, Fetch, Exists, dbVars, hotVars, bootVars
  <2>2. CASE CreateCamera(c, i)
    BY <2>2 DEF CreateCamera, InsertRow, NewRow, To, hotVars, bootVars
  <2>3. CASE DeleteCamera(c, i)
    BY <2>3 DEF DeleteCamera, To, hotVars, bootVars
  <2>4. QED
    BY <1>10, <2>1, <2>2, <2>3 DEF Request
<1>11. ASSUME NEW c \in Calls, Handle(c) PROVE Shape'
  <2> USE DEF To, hotVars, bootVars
  <2>1. CASE StartCreate(c) \/ StopTake(c)
    BY <2>1 DEF StartCreate, StopTake, dbVars
  <2>2. CASE StartSession(c) \/ StopFinalize(c)
    BY <2>2 DEF StartSession, StopFinalize
  <2>3. CASE StartWrite(c) \/ StopWrite(c)
    BY <2>3 DEF StartWrite, StopWrite, Write, Exists
  <2>4. CASE UpdateWrite(c)
    <3> HIDE DEF Row, Statuses
    <3>1. target[c] \in Ids /\ seen[c] \in Row
      BY <2>4 DEF UpdateWrite
    <3>2. \/ rows' = rows
          \/ \E r \in Row : Write(target[c], r)
      BY <2>4, <3>1, DeviceEdit, BothEdit DEF UpdateWrite
    <3>3. rows' \in [Ids -> Row \cup {None}]
      BY <3>1, <3>2 DEF Write, Exists
    <3>4. QED
      BY <2>4, <3>3 DEF UpdateWrite
  <2>5. QED
    BY <1>11, <2>1, <2>2, <2>3, <2>4 DEF Handle
<1>12. QED
  BY <1>1, <1>2, <1>3, <1>4, <1>5, <1>6, <1>7, <1>8, <1>9, <1>10, <1>11
  DEF Next, BootStep, HotStep

-----------------------------------------------------------------------------
(* The boot                                                                *)

\* The boot brings the streams to the rows, and nothing runs beside it.
LEMMA StepBoot == Shape /\ BootInv /\ [Next]_vars => BootInv'
<1> SUFFICES ASSUME Shape, BootInv, [Next]_vars PROVE BootInv'
  OBVIOUS
<1> USE DEF BootInv, Active
<1>1. CASE UNCHANGED vars
  BY <1>1 DEF vars, dbVars, hotVars, bootVars, callVars, Running, Exists
<1>2. CASE BootDiscover
  BY <1>2 DEF BootDiscover, dbVars, hotVars, callVars
<1>3. CASE BootList
  BY <1>3 DEF BootList, Running, Exists, dbVars, hotVars, callVars
<1>4. CASE Autostart
  <2>1. PICK i \in pending :
          /\ pending' = pending \ {i}
          /\ \/ tracked' = tracked \cup {i} /\ UNCHANGED rows
             \/ Write(i, [rows[i] EXCEPT !.status = "stopped"]) /\ UNCHANGED tracked
    BY <1>4 DEF Autostart
  <2>2. i \in Ids /\ i \in Running /\ rows[i] \in Row
    BY <1>4, RowAssumption DEF RowAssumption, Autostart, Running, Exists, Shape
  <2>3. CASE tracked' = tracked \cup {i} /\ UNCHANGED rows
    <3>1. Running' = Running
      BY <2>3 DEF Running, Exists
    <3>2. QED
      BY <1>4, <2>1, <2>2, <2>3, <3>1 DEF Autostart, hotVars, callVars
  <2>4. CASE Write(i, [rows[i] EXCEPT !.status = "stopped"]) /\ UNCHANGED tracked
    <3>1. [rows[i] EXCEPT !.status = "stopped"].status = "stopped"
      BY <2>2, StatusEdit DEF Statuses
    <3>2. Running' = Running \ {i}
      BY <2>2, <2>4, <3>1 DEF Running, Exists, Write, Shape
    <3>3. QED
      BY <1>4, <2>1, <2>2, <2>4, <3>2 DEF Autostart, hotVars, callVars
  <2>5. QED
    BY <2>1, <2>3, <2>4
<1>5. CASE BootServe
  BY <1>5 DEF BootServe
<1>6. CASE Down
  BY <1>6 DEF Down, Shape
<1>7. CASE DiscoverInsert
  BY <1>7 DEF DiscoverInsert, Waiting, hotVars, callVars
<1>8. CASE \E d \in Devices : Plug(d) \/ Unplug(d)
  BY <1>8 DEF Plug, Unplug, Announce, Running, Exists, dbVars, bootVars, callVars
<1>9. CASE HotAdded \/ HotDiscovered \/ HotRemoved \/ HotMark \/ HotStop
  <2>1. hot.step # "recv" \/ uevents # <<>>
    BY <1>9 DEF HotAdded, HotDiscovered, HotRemoved, HotMark, HotStop
  <2>2. phase = "serving"
    BY <2>1 DEF Waiting
  <2>3. phase' = phase
    BY <1>9 DEF HotAdded, HotDiscovered, HotRemoved, HotMark, HotStop, bootVars
  <2>4. QED
    BY <2>2, <2>3
<1>10. ASSUME NEW c \in Calls, NEW i \in Ids, Request(c, i) PROVE BootInv'
  BY <1>10 DEF Request, StartFetch, StopFetch, UpdateFetch, Fetch, CreateCamera, DeleteCamera, bootVars
<1>11. ASSUME NEW c \in Calls, Handle(c) PROVE BootInv'
  <2>1. Active(c) /\ phase' = phase
    BY <1>11 DEF Handle, StartCreate, StartSession, StartWrite, StopTake, StopFinalize,
                 StopWrite, UpdateWrite, bootVars
  <2>2. QED
    BY <2>1, Zenon
<1>12. QED
  BY <1>1, <1>2, <1>3, <1>4, <1>5, <1>6, <1>7, <1>8, <1>9, <1>10, <1>11
  DEF Next, BootStep, HotStep

\* When the routes open, the tracked streams are those of the rows that say
\* "running" (the autostart of full.rs), whatever was there before the boot.
THEOREM BootRestoresAgreementHolds == Spec => BootRestoresAgreement
<1>1. Init => Shape /\ BootInv
  BY InitIInv DEF IInv
<1>2. Shape /\ BootInv /\ [Next]_vars => (Shape /\ BootInv)'
  BY StepShape, StepBoot
<1>3. Shape /\ BootInv /\ [Next]_vars
        => [phase = "autostart" /\ phase' = "serving" => tracked' = Running']_vars
  <2> SUFFICES ASSUME Shape, BootInv, [Next]_vars, phase = "autostart", phase' = "serving"
               PROVE  tracked' = Running'
    OBVIOUS
  <2>1. BootServe
    BY DEF Next, BootStep, HotStep, BootInv, Active, Waiting, vars, bootVars, hotVars, BootDiscover,
           BootList, Autostart, Down, DiscoverInsert, Plug, Unplug, HotAdded,
           HotDiscovered, HotRemoved, HotMark, HotStop, Request, StartFetch, StopFetch,
           UpdateFetch, Fetch, CreateCamera, DeleteCamera, Handle, StartCreate,
           StartSession, StartWrite, StopTake, StopFinalize, StopWrite, UpdateWrite
  <2>2. QED
    BY <2>1 DEF BootServe, BootInv, Running, Exists, dbVars
<1>4. QED
  BY <1>1, <1>2, <1>3, PTL DEF Spec, BootRestoresAgreement

-----------------------------------------------------------------------------
(* One request alone on its camera                                         *)

\* What is true of a camera depends on its own row and stream only.
LEMMA Untouched ==
    ASSUME NEW i \in Ids, rows'[i] = rows[i], i \in tracked' <=> i \in tracked
    PROVE  (Exists(i)' <=> Exists(i)) /\ (Agree(i)' <=> Agree(i))
  BY DEF Exists, Agree, Running

\* The same of all cameras but one.
LEMMA WriteIsLocal ==
    ASSUME Shape, NEW j \in Ids, NEW row, Write(j, row)
    PROVE  /\ \A i \in Ids \ {j} : rows'[i] = rows[i]
           /\ rows'[j] = IF Exists(j) THEN row ELSE rows[j]
  BY DEF Write, Shape

\* A step of a request in progress touches its own camera only.
LEMMA HandleIsLocal ==
    ASSUME Shape, NEW c \in Calls, Handle(c)
    PROVE  /\ Active(c) /\ target[c] \in Ids /\ seen[c] \in Row
           /\ \A i \in Ids \ {target[c]} : rows'[i] = rows[i] /\ (i \in tracked' <=> i \in tracked)
           /\ \A d \in Calls \ {c} : pc'[d] = pc[d]
           /\ UNCHANGED <<target, seen, hot, phase>>
           /\ mixed \subseteq mixed'
<1> USE DEF To, hotVars, bootVars, dbVars
<1>1. Active(c) /\ target[c] \in Ids /\ seen[c] \in Row
  BY DEF Handle, StartCreate, StartSession, StartWrite, StopTake, StopFinalize,
         StopWrite, UpdateWrite, Active, Shape
<1>2. \A i \in Ids \ {target[c]} : rows'[i] = rows[i]
  <2>1. rows' = rows \/ \E row : Write(target[c], row)
    BY DEF Handle, StartCreate, StartSession, StartWrite, StopTake, StopFinalize,
           StopWrite, UpdateWrite
  <2>2. QED
    BY <1>1, <2>1, WriteIsLocal
<1>3. \A i \in Ids \ {target[c]} : i \in tracked' <=> i \in tracked
  BY DEF Handle, StartCreate, StartSession, StartWrite, StopTake, StopFinalize,
         StopWrite, UpdateWrite
<1>4. /\ \A d \in Calls \ {c} : pc'[d] = pc[d]
      /\ UNCHANGED <<target, seen, hot, phase>>
      /\ mixed \subseteq mixed'
  BY DEF Handle, StartCreate, StartSession, StartWrite, StopTake, StopFinalize,
         StopWrite, UpdateWrite, Shape
<1>5. QED
  BY <1>1, <1>2, <1>3, <1>4

\* What a request that is alone on its camera does to it: it stays in its
\* part of CallInv, or it ends and the row and the stream agree.
LEMMA HandleProgress ==
    ASSUME Shape, CallInv, NEW c \in Calls, Handle(c), target[c] \notin mixed'
    PROVE  /\ Exists(target[c])'
           /\ Active(c)' =>
                /\ pc'[c] \notin {"start_create", "stop_take", "update_write"}
                /\ pc'[c] \in {"start_session", "start_write"} => target[c] \in tracked'
                /\ pc'[c] \in {"stop_finalize", "stop_write"} => target[c] \notin tracked'
           /\ ~Active(c)' => Agree(target[c])'
<1> DEFINE i == target[c]
<1> USE RowAssumption DEF RowAssumption, To, hotVars, bootVars, dbVars
<1>1. /\ target' = target
      /\ i \in Ids /\ i \notin mixed /\ Active(c) /\ seen[c] \in Row
      /\ Exists(i)
      /\ pc[c] \in {"start_create", "stop_take", "update_write"} => Agree(i) /\ rows[i] = seen[c]
      /\ pc[c] \in {"start_session", "start_write"} => i \in tracked
      /\ pc[c] \in {"stop_finalize", "stop_write"} => i \notin tracked
  BY HandleIsLocal DEF CallInv, CallOf
<1>2. CASE StartCreate(c)
  BY <1>1, <1>2, Untouched DEF StartCreate, Shape, Active, Exists
<1>3. CASE StartSession(c) \/ StopFinalize(c)
  BY <1>1, <1>3 DEF StartSession, StopFinalize, Shape, Active, Exists
<1>4. CASE StopTake(c)
  BY <1>1, <1>4 DEF StopTake, Shape, Active, Exists
<1>5. CASE StartWrite(c)
  <2>1. rows'[i] = [seen[c] EXCEPT !.status = "running"]
    BY <1>1, <1>5, WriteIsLocal DEF StartWrite
  <2>2. rows'[i] \in Row /\ rows'[i].status = "running"
    BY <1>1, <2>1, StatusEdit DEF Statuses
  <2>3. i \in tracked' /\ pc'[c] = "done"
    BY <1>1, <1>5 DEF StartWrite, Shape
  <2>4. QED
    BY <1>1, <2>2, <2>3 DEF Exists, Agree, Running, Active
<1>6. CASE StopWrite(c)
  <2>1. rows'[i] = [seen[c] EXCEPT !.status = "stopped"]
    BY <1>1, <1>6, WriteIsLocal DEF StopWrite
  <2>2. rows'[i] \in Row /\ rows'[i].status = "stopped"
    BY <1>1, <2>1, StatusEdit DEF Statuses
  <2>3. i \notin tracked' /\ pc'[c] = "done"
    BY <1>1, <1>6 DEF StopWrite, Shape
  <2>4. QED
    BY <1>1, <2>2, <2>3 DEF Exists, Agree, Running, Active
<1>7. CASE UpdateWrite(c)
  <2>1. \/ rows' = rows
        \/ \E d \in Devices \cup {None} : Write(i, [seen[c] EXCEPT !.device = d])
    BY <1>1, <1>7 DEF UpdateWrite
  <2>2. rows'[i] \in Row /\ rows'[i].status = rows[i].status
    <3>1. CASE rows' = rows
      BY <1>1, <1>7, <3>1 DEF UpdateWrite
    <3>2. ASSUME NEW d \in Devices \cup {None}, Write(i, [seen[c] EXCEPT !.device = d])
          PROVE  rows'[i] \in Row /\ rows'[i].status = rows[i].status
      <4>1. rows'[i] = [seen[c] EXCEPT !.device = d]
        BY <1>1, <3>2, WriteIsLocal
      <4>2. rows[i] = seen[c]
        BY <1>1, <1>7 DEF UpdateWrite
      <4>3. QED
        BY <1>1, <4>1, <4>2, DeviceEdit
    <3>3. QED
      BY <2>1, <3>1, <3>2
  <2>3. tracked' = tracked /\ pc'[c] = "done" /\ Agree(i)
    BY <1>1, <1>7 DEF UpdateWrite, Shape
  <2>4. QED
    BY <1>1, <2>2, <2>3 DEF Exists, Agree, Running, Active
<1>8. QED
  BY <1>2, <1>3, <1>4, <1>5, <1>6, <1>7 DEF Handle

\* A request that a step leaves alone.
LEMMA CallKept ==
    ASSUME Shape, CallInv, NEW c \in Calls, Active(c), target[c] \notin mixed,
           pc'[c] = pc[c], target'[c] = target[c], seen'[c] = seen[c],
           rows'[target[c]] = rows[target[c]],
           target[c] \in tracked' <=> target[c] \in tracked,
           target[c] \notin hot'.ids,
           \A d \in Calls : Active(d)' /\ target'[d] = target[c] => d = c
    PROVE  CallOf(c)'
<1>1. target[c] \in Ids /\ CallOf(c)
  BY DEF Shape, CallInv
<1>2. (Exists(target[c])' <=> Exists(target[c])) /\ (Agree(target[c])' <=> Agree(target[c]))
  BY <1>1 DEF Exists, Agree, Running
<1>3. QED
  BY <1>1, <1>2 DEF CallOf, Active

\* A request alone on its camera stays in its part of the protocol, and every
\* step that disturbs it puts its camera into mixed.
LEMMA StepCall ==
    Shape /\ BootInv /\ CallInv /\ HotInv /\ SerialAgreement /\ [Next]_vars => CallInv'
<1> SUFFICES ASSUME Shape, BootInv, CallInv, HotInv, SerialAgreement, [Next]_vars,
                    NEW c \in Calls, Active(c)', target'[c] \notin mixed'
             PROVE  CallOf(c)'
  BY DEF CallInv
<1> USE DEF Active
<1>0. \A d \in Calls : (Active(c) /\ target[c] \notin mixed) =>
          /\ target[c] \in Ids
          /\ target[c] \notin hot.ids
          /\ Active(d) /\ target[d] = target[c] => d = c
  BY DEF Shape, CallInv, CallOf
<1>1. CASE UNCHANGED vars
  BY <1>0, <1>1, CallKept DEF vars, dbVars, hotVars, bootVars, callVars
<1>2. CASE BootStep
  BY <1>2 DEF BootStep, BootDiscover, BootList, Autostart, BootServe, BootInv, callVars
<1>3. CASE Down
  BY <1>3 DEF Down, Shape
<1>4. CASE DiscoverInsert
  <2>1. PICK d \in Devices, i \in Ids : Fresh(i) /\ InsertRow(d, i)
    BY <1>4 DEF DiscoverInsert
  <2>2. target[c] # i /\ Active(c)
    BY <1>4, <2>1 DEF Fresh, Busy, DiscoverInsert, callVars
  <2>3. rows'[target[c]] = rows[target[c]]
    BY <2>1, <2>2 DEF InsertRow, Shape
  <2>4. QED
    BY <1>0, <1>4, <2>2, <2>3, CallKept DEF DiscoverInsert, callVars, hotVars
<1>5. CASE \E d \in Devices : Plug(d) \/ Unplug(d)
  BY <1>0, <1>5, CallKept DEF Plug, Unplug, dbVars, callVars
<1>6. CASE HotAdded \/ HotDiscovered
  <2>1. hot'.ids = {}
    BY <1>6 DEF HotAdded, HotDiscovered, Waiting, HotInv, Shape, HotTasks
  <2>2. QED
    BY <1>0, <1>6, <2>1, CallKept DEF HotAdded, HotDiscovered, dbVars, callVars
<1>7. CASE HotRemoved
  <2>1. /\ hot'.ids \subseteq Affected(Head(uevents).device)
        /\ mixed' = mixed \cup {i \in Affected(Head(uevents).device) : Busy(i)}
    BY <1>7 DEF HotRemoved, Waiting
  <2>2. Active(c) /\ target[c] \notin mixed /\ Busy(target[c])
    BY <1>7, <2>1 DEF HotRemoved, callVars, Busy
  <2>3. target[c] \notin hot'.ids
    BY <1>7, <2>1, <2>2 DEF HotRemoved, callVars
  <2>4. QED
    BY <1>0, <1>7, <2>2, <2>3, CallKept DEF HotRemoved, dbVars, callVars
<1>8. CASE HotMark
  <2>1. PICK i \in hot.left :
          /\ Write(i, MarkedRow(rows[i]))
          /\ \/ hot' = [hot EXCEPT !.step = "stop", !.left = hot.ids]
             \/ hot' = [hot EXCEPT !.left = @ \ {i}]
    BY <1>8 DEF HotMark, MarkedRow
  <2>2. hot'.ids = hot.ids /\ i \in hot.ids /\ i \in Ids
    BY <2>1 DEF Shape, HotTasks, HotInv
  <2>3. Active(c) /\ target[c] \notin mixed /\ target[c] # i
    BY <1>0, <1>8, <2>2 DEF HotMark, callVars
  <2>4. rows'[target[c]] = rows[target[c]]
    BY <1>0, <2>1, <2>2, <2>3, WriteIsLocal
  <2>5. QED
    BY <1>0, <1>8, <2>2, <2>3, <2>4, CallKept DEF HotMark, callVars
<1>9. CASE HotStop
  <2>1. PICK i \in hot.left :
          /\ tracked' = tracked \ {i}
          /\ hot' = Waiting \/ hot' = [hot EXCEPT !.left = @ \ {i}]
    BY <1>9 DEF HotStop
  <2>2. hot'.ids \subseteq hot.ids /\ i \in hot.ids
    BY <2>1 DEF Shape, HotTasks, HotInv, Waiting
  <2>3. Active(c) /\ target[c] \notin mixed /\ target[c] # i
    BY <1>0, <1>9, <2>2 DEF HotStop, callVars
  <2>4. QED
    BY <1>0, <1>9, <2>1, <2>2, <2>3, CallKept DEF HotStop, callVars, dbVars
<1>10. ASSUME NEW e \in Calls, NEW i \in Ids, Request(e, i) PROVE CallOf(c)'
  <2>1. CASE \E step \in {"start_create", "stop_take", "update_write"} : Fetch(e, i, step)
    <3>1. CASE c = e
      <4>1. ~Busy(i) /\ i \notin mixed /\ target'[c] = i /\ seen'[c] = rows[i]
        BY <2>1, <3>1 DEF Fetch, Shape
      <4>2. Agree(i) /\ Exists(i)
        BY <2>1, <4>1 DEF Fetch, SerialAgreement, Agree
      <4>3. \A d \in Calls : Active(d)' /\ target'[d] = i => d = c
        BY <2>1, <3>1, <4>1 DEF Fetch, Busy, Shape
      <4>4. pc'[c] \in {"start_create", "stop_take", "update_write"}
        BY <2>1, <3>1 DEF Fetch, Shape
      <4>5. rows' = rows /\ tracked' = tracked /\ hot' = hot
        BY <2>1 DEF Fetch, dbVars, hotVars
      <4>6. i \notin hot.ids
        BY <4>1 DEF Busy
      <4>7. QED
        BY <4>1, <4>2, <4>3, <4>4, <4>5, <4>6 DEF CallOf, Exists, Agree, Running
    <3>2. CASE c # e
      <4>1. /\ Active(c) /\ target[c] \notin mixed /\ target[c] # i
            /\ pc'[c] = pc[c] /\ target'[c] = target[c] /\ seen'[c] = seen[c]
        BY <2>1, <3>2 DEF Fetch, Busy, Shape
      <4>2. \A d \in Calls : Active(d)' /\ target'[d] = target[c] => d = c
        BY <1>0, <2>1, <4>1 DEF Fetch, Shape
      <4>3. QED
        BY <1>0, <2>1, <4>1, <4>2, CallKept DEF Fetch, dbVars, hotVars
    <3>3. QED
      BY <3>1, <3>2
  <2>2. CASE CreateCamera(e, i)
    <3>1. c # e /\ Active(c) /\ target[c] # i
      BY <2>2 DEF CreateCamera, To, Fresh, Busy, Shape
    <3>2. rows'[target[c]] = rows[target[c]]
      BY <2>2, <3>1 DEF CreateCamera, InsertRow, Shape
    <3>3. \A d \in Calls : Active(d)' /\ target'[d] = target[c] => d = c
      BY <1>0, <2>2, <3>1 DEF CreateCamera, To, Shape
    <3>4. QED
      BY <1>0, <2>2, <3>1, <3>2, <3>3, CallKept DEF CreateCamera, To, Shape, hotVars
  <2>3. CASE DeleteCamera(e, i)
    <3>1. c # e /\ Active(c) /\ target[c] # i /\ target[c] \notin mixed
      BY <2>3 DEF DeleteCamera, To, Shape
    <3>2. rows'[target[c]] = rows[target[c]]
      BY <1>0, <2>3, <3>1 DEF DeleteCamera, Shape
    <3>3. \A d \in Calls : Active(d)' /\ target'[d] = target[c] => d = c
      BY <1>0, <2>3, <3>1 DEF DeleteCamera, To, Shape
    <3>4. QED
      BY <1>0, <2>3, <3>1, <3>2, <3>3, CallKept DEF DeleteCamera, To, Shape, hotVars
  <2>4. QED
    BY <1>10, <2>1, <2>2, <2>3 DEF Request, StartFetch, StopFetch, UpdateFetch
<1>11. ASSUME NEW e \in Calls, Handle(e) PROVE CallOf(c)'
  <2>1. /\ Active(e) /\ target[e] \in Ids
        /\ \A i \in Ids \ {target[e]} : rows'[i] = rows[i] /\ (i \in tracked' <=> i \in tracked)
        /\ \A d \in Calls \ {e} : pc'[d] = pc[d]
        /\ UNCHANGED <<target, seen, hot>>
        /\ mixed \subseteq mixed'
    BY <1>11, HandleIsLocal
  <2>2. Active(c) /\ target[c] \notin mixed
    BY <2>1
  <2>3. \A d \in Calls : Active(d)' /\ target'[d] = target[c] => d = c
    BY <1>0, <2>1, <2>2
  <2>4. CASE c = e
    <3>1. /\ Exists(target[c])'
          /\ pc'[c] \notin {"start_create", "stop_take", "update_write"}
          /\ pc'[c] \in {"start_session", "start_write"} => target[c] \in tracked'
          /\ pc'[c] \in {"stop_finalize", "stop_write"} => target[c] \notin tracked'
      BY <1>11, <2>1, <2>4, HandleProgress
    <3>2. QED
      BY <1>0, <2>1, <2>2, <2>3, <3>1 DEF CallOf
  <2>5. CASE c # e
    <3>1. target[c] # target[e]
      BY <1>0, <2>1, <2>2, <2>5
    <3>2. QED
      BY <1>0, <2>1, <2>2, <2>3, <2>5, <3>1, CallKept
  <2>6. QED
    BY <2>4, <2>5
<1>12. QED
  BY <1>1, <1>2, <1>3, <1>4, <1>5, <1>6, <1>7, <1>8, <1>9, <1>10, <1>11
  DEF Next, HotStep

-----------------------------------------------------------------------------
(* The hot-plug task                                                       *)

\* A step that leaves the task alone and touches none of its cameras, unless
\* it adds them to mixed.
LEMMA HotKept ==
    ASSUME Shape, HotInv, hot' = hot, mixed \subseteq mixed',
           \A i \in hot.ids \ mixed' :
               rows'[i] = rows[i] /\ (i \in tracked' => i \in tracked)
    PROVE  HotInv'
  BY DEF HotInv, Exists, Shape, HotTasks

\* The hot-plug task marks its rows before it stops their streams, and only
\* steps that put a camera into mixed undo a mark.
LEMMA StepHot ==
    Shape /\ BootInv /\ CallInv /\ HotInv /\ [Next]_vars => HotInv'
<1> SUFFICES ASSUME Shape, BootInv, CallInv, HotInv, [Next]_vars PROVE HotInv'
  OBVIOUS
<1>0. Waiting.step = "recv" /\ Waiting.ids = {} /\ Waiting.left = {}
  BY DEF Waiting
<1>1. CASE UNCHANGED vars
  BY <1>1, HotKept DEF vars, dbVars, hotVars
<1>2. CASE BootDiscover \/ BootList
  BY <1>2, HotKept DEF BootDiscover, BootList, dbVars, hotVars
<1>3. CASE Autostart \/ BootServe \/ Down
  <2>1. hot' = Waiting
    BY <1>3 DEF Autostart, BootServe, Down, BootInv, hotVars
  <2>2. QED
    BY <1>0, <2>1 DEF HotInv
<1>4. CASE DiscoverInsert
  <2>1. PICK d \in Devices, i \in Ids : Fresh(i) /\ InsertRow(d, i)
    BY <1>4 DEF DiscoverInsert
  <2>2. \A j \in hot.ids : rows'[j] = rows[j]
    BY <2>1 DEF Fresh, Busy, InsertRow, Shape, HotTasks
  <2>3. QED
    BY <1>4, <2>2, HotKept DEF DiscoverInsert, hotVars
<1>5. CASE \E d \in Devices : Plug(d) \/ Unplug(d)
  BY <1>5, HotKept DEF Plug, Unplug, dbVars
<1>6. CASE HotAdded \/ HotDiscovered
  <2>1. hot'.step \in {"recv", "discover"} /\ hot'.ids = {} /\ hot'.left = {}
    BY <1>0, <1>6 DEF HotAdded, HotDiscovered, HotInv, Shape, HotTasks
  <2>2. QED
    BY <2>1 DEF HotInv
<1>7. CASE HotRemoved
  <2> DEFINE ids == Affected(Head(uevents).device)
  <2>1. /\ hot' = Waiting \/ hot' = [step |-> "mark", ids |-> ids, left |-> ids]
        /\ \A i \in ids : Exists(i)
    <3>1. \A i \in ids : Exists(i)
      BY DEF Affected, Rows
    <3>2. QED
      BY <1>7, <3>1 DEF HotRemoved
  <2> HIDE DEF ids
  <2>2. CASE hot' = Waiting
    BY <1>0, <2>2 DEF HotInv
  <2>3. CASE hot' = [step |-> "mark", ids |-> ids, left |-> ids]
    BY <1>7, <2>1, <2>3 DEF HotInv, HotRemoved, Exists, dbVars
  <2>4. QED
    BY <2>1, <2>2, <2>3
<1>8. CASE HotMark
  <2>1. PICK i \in hot.left :
          /\ Write(i, MarkedRow(rows[i]))
          /\ \/ hot' = [hot EXCEPT !.step = "stop", !.left = hot.ids] /\ hot.left = {i}
             \/ hot' = [hot EXCEPT !.left = @ \ {i}]
    BY <1>8 DEF HotMark, MarkedRow
  <2>2. i \in Ids /\ i \in hot.ids /\ hot.ids \subseteq Ids
    BY DEF Shape, HotTasks, HotInv
  <2>3. i \notin mixed => rows'[i] \in Row /\ rows'[i].status = "offline"
    BY <2>1, <2>2, WriteIsLocal, MarkEdit DEF HotInv, Exists, Shape
  <2>4. \A j \in hot.ids \ {i} : rows'[j] = rows[j]
    BY <2>1, <2>2, WriteIsLocal
  <2>5. mixed' = mixed /\ hot.step = "mark"
    BY <1>8 DEF HotMark
  <2>6. \A j \in hot.ids \ mixed : Exists(j)'
    BY <2>2, <2>3, <2>4, RowAssumption DEF RowAssumption, Exists, HotInv
  <2>7. CASE hot' = [hot EXCEPT !.step = "stop", !.left = hot.ids] /\ hot.left = {i}
    <3>1. hot'.step = "stop" /\ hot'.ids = hot.ids /\ hot'.left = hot.ids
      BY <2>7 DEF Shape, HotTasks
    <3>2. QED
      BY <2>2, <2>3, <2>4, <2>5, <2>6, <2>7, <3>1 DEF HotInv
  <2>8. CASE hot' = [hot EXCEPT !.left = @ \ {i}]
    <3>1. hot'.step = "mark" /\ hot'.ids = hot.ids /\ hot'.left = hot.left \ {i}
      BY <2>5, <2>8 DEF Shape, HotTasks
    <3>2. QED
      BY <2>2, <2>3, <2>4, <2>5, <2>6, <3>1 DEF HotInv
  <2>9. QED
    BY <2>1, <2>7, <2>8
<1>9. CASE HotStop
  <2>1. PICK i \in hot.left :
          /\ tracked' = tracked \ {i}
          /\ hot' = Waiting \/ hot' = [hot EXCEPT !.left = @ \ {i}]
    BY <1>9 DEF HotStop
  <2>2. CASE hot' = Waiting
    BY <1>0, <2>2 DEF HotInv
  <2>3. CASE hot' = [hot EXCEPT !.left = @ \ {i}]
    <3>1. hot.step = "stop" /\ hot'.step = "stop" /\ hot'.ids = hot.ids /\ hot'.left = hot.left \ {i}
      BY <1>9, <2>3 DEF HotStop, Shape, HotTasks
    <3>2. rows' = rows /\ mixed' = mixed
      BY <1>9 DEF HotStop, dbVars
    <3>3. QED
      BY <2>1, <3>1, <3>2 DEF HotInv, Exists
  <2>4. QED
    BY <2>1, <2>2, <2>3
<1>10. ASSUME NEW c \in Calls, NEW i \in Ids, Request(c, i) PROVE HotInv'
  <2>1. CASE StartFetch(c, i) \/ StopFetch(c, i) \/ UpdateFetch(c, i)
    BY <2>1, HotKept DEF StartFetch, StopFetch, UpdateFetch, Fetch, dbVars, hotVars
  <2>2. CASE CreateCamera(c, i)
    <3>1. \A j \in hot.ids : rows'[j] = rows[j]
      BY <2>2 DEF CreateCamera, Fresh, Busy, InsertRow, Shape, HotTasks
    <3>2. QED
      BY <2>2, <3>1, HotKept DEF CreateCamera, hotVars
  <2>3. CASE DeleteCamera(c, i)
    <3>1. \A j \in hot.ids \ {i} : rows'[j] = rows[j]
      BY <2>3 DEF DeleteCamera, Shape, HotTasks
    <3>2. QED
      BY <2>3, <3>1, HotKept DEF DeleteCamera, hotVars
  <2>4. QED
    BY <1>10, <2>1, <2>2, <2>3 DEF Request
<1>11. ASSUME NEW c \in Calls, Handle(c) PROVE HotInv'
  <2>1. target[c] \in hot.ids => target[c] \in mixed
    BY <1>11, HandleIsLocal DEF CallInv, CallOf
  <2>2. QED
    BY <1>11, <2>1, HandleIsLocal, HotKept DEF Shape, HotTasks
<1>12. QED
  BY <1>1, <1>2, <1>3, <1>4, <1>5, <1>6, <1>7, <1>8, <1>9, <1>10, <1>11
  DEF Next, BootStep, HotStep

-----------------------------------------------------------------------------
(* Cameras at rest                                                         *)

\* A camera that comes to rest outside mixed agrees with its stream.
LEMMA StepSerial ==
    IInv /\ BootInv' /\ [Next]_vars => SerialAgreement'
<1> SUFFICES ASSUME IInv, BootInv', [Next]_vars,
                    phase' = "serving", NEW i \in Ids, i \notin mixed', ~Busy(i)'
             PROVE  Agree(i)'
  BY DEF SerialAgreement, Agree
<1> USE DEF IInv
<1>0. (phase = "serving" /\ i \notin mixed /\ ~Busy(i)) => Agree(i)
  BY DEF SerialAgreement, Agree
<1>1. CASE UNCHANGED vars
  BY <1>0, <1>1 DEF vars, dbVars, hotVars, bootVars, callVars, Busy, Active, Agree, Running, Exists
<1>2. CASE BootStep \/ Down
  <2>1. BootServe
    BY <1>2 DEF BootStep, BootDiscover, BootList, Autostart, Down
  <2>2. QED
    BY <2>1 DEF BootServe, BootInv, Agree, Running, Exists, dbVars
<1>3. CASE DiscoverInsert
  <2>1. PICK d \in Devices, j \in Ids : Fresh(j) /\ InsertRow(d, j)
    BY <1>3 DEF DiscoverInsert
  <2>2. ~Busy(i) /\ i \notin mixed /\ phase = "serving"
    BY <1>3 DEF DiscoverInsert, Busy, Active, hotVars, callVars
  <2>3. CASE i = j
    BY <1>3, <2>1, <2>3 DEF DiscoverInsert, Fresh, InsertRow, NewRow, Agree, Running, Exists, Shape
  <2>4. CASE i # j
    BY <1>0, <1>3, <2>1, <2>2, <2>4 DEF DiscoverInsert, InsertRow, Agree, Running, Exists, Shape
  <2>5. QED
    BY <2>3, <2>4
<1>4. CASE \E d \in Devices : Plug(d) \/ Unplug(d)
  BY <1>0, <1>4 DEF Plug, Unplug, dbVars, bootVars, callVars, Busy, Active, Agree, Running, Exists
<1>5. CASE HotAdded \/ HotDiscovered
  <2>1. hot.ids = {} /\ hot'.ids = {}
    BY <1>5 DEF HotAdded, HotDiscovered, Waiting, HotInv, Shape, HotTasks
  <2>2. QED
    BY <1>0, <1>5, <2>1 DEF HotAdded, HotDiscovered, dbVars, bootVars, callVars, Busy, Active,
                            Agree, Running, Exists
<1>6. CASE HotRemoved
  <2>1. hot.ids = {}
    BY <1>6 DEF HotRemoved, HotInv
  <2>2. ~Busy(i) /\ i \notin mixed /\ phase = "serving"
    BY <1>6, <2>1 DEF HotRemoved, Busy, Active, callVars, bootVars
  <2>3. QED
    BY <1>0, <1>6, <2>2 DEF HotRemoved, dbVars, Agree, Running, Exists
<1>7. CASE HotMark
  <2>1. PICK j \in hot.left :
          /\ Write(j, MarkedRow(rows[j]))
          /\ \/ hot' = [hot EXCEPT !.step = "stop", !.left = hot.ids]
             \/ hot' = [hot EXCEPT !.left = @ \ {j}]
    BY <1>7 DEF HotMark, MarkedRow
  <2>2. hot'.ids = hot.ids /\ j \in hot.ids /\ j \in Ids
    BY <2>1 DEF Shape, HotTasks, HotInv
  <2>3. i # j /\ ~Busy(i) /\ i \notin mixed /\ phase = "serving"
    BY <1>7, <2>2 DEF HotMark, Busy, Active, callVars, bootVars
  <2>4. rows'[i] = rows[i]
    BY <2>1, <2>2, <2>3, WriteIsLocal
  <2>5. QED
    BY <1>0, <1>7, <2>3, <2>4, Untouched DEF HotMark
<1>8. CASE HotStop
  <2>1. PICK j \in hot.left :
          /\ tracked' = tracked \ {j}
          /\ \/ hot' = Waiting /\ hot.left = {j}
             \/ hot' = [hot EXCEPT !.left = @ \ {j}]
    BY <1>8 DEF HotStop
  <2>2. rows' = rows /\ mixed' = mixed /\ hot.step = "stop" /\ phase = "serving" /\ j \in hot.ids
    BY <1>8, <2>1 DEF HotStop, HotInv, dbVars, bootVars
  <2>3. CASE i \in hot.ids
    <3>1. hot.left = {j}
      BY <2>1, <2>3 DEF Busy, Shape, HotTasks
    <3>2. rows[i].status = "offline" /\ i \notin tracked'
      BY <2>1, <2>2, <2>3, <3>1 DEF HotInv
    <3>3. QED
      BY <2>2, <3>2 DEF Agree, Running
  <2>4. CASE i \notin hot.ids
    <3>1. ~Busy(i) /\ i # j
      BY <1>8, <2>2, <2>4 DEF HotStop, Busy, Active, callVars
    <3>2. QED
      BY <1>0, <2>1, <2>2, <3>1, Untouched
  <2>5. QED
    BY <2>3, <2>4
<1>9. ASSUME NEW c \in Calls, NEW j \in Ids, Request(c, j) PROVE Agree(i)'
  <2>1. CASE \E step \in {"start_create", "stop_take", "update_write"} : Fetch(c, j, step)
    <3>1. ~Busy(i) /\ i \notin mixed /\ phase = "serving"
      BY <2>1 DEF Fetch, Busy, Active, hotVars, Shape
    <3>2. QED
      BY <1>0, <2>1, <3>1 DEF Fetch, dbVars, Agree, Running, Exists
  <2>2. CASE CreateCamera(c, j)
    <3>1. ~Busy(i) /\ i \notin mixed /\ phase = "serving"
      BY <2>2 DEF CreateCamera, To, Busy, Active, hotVars, Shape
    <3>2. CASE i = j
      BY <2>2, <3>2 DEF CreateCamera, Fresh, InsertRow, NewRow, Agree, Running, Exists, Shape
    <3>3. CASE i # j
      BY <1>0, <2>2, <3>1, <3>3 DEF CreateCamera, InsertRow, Agree, Running, Exists, Shape
    <3>4. QED
      BY <3>2, <3>3
  <2>3. CASE DeleteCamera(c, j)
    <3>1. i # j /\ ~Busy(i) /\ i \notin mixed /\ phase = "serving"
      BY <2>3 DEF DeleteCamera, To, Busy, Active, hotVars, Shape
    <3>2. QED
      BY <1>0, <2>3, <3>1 DEF DeleteCamera, Agree, Running, Exists, Shape
  <2>4. QED
    BY <1>9, <2>1, <2>2, <2>3 DEF Request, StartFetch, StopFetch, UpdateFetch
<1>10. ASSUME NEW c \in Calls, Handle(c) PROVE Agree(i)'
  <2>1. /\ Active(c) /\ target[c] \in Ids
        /\ \A k \in Ids \ {target[c]} : rows'[k] = rows[k] /\ (k \in tracked' <=> k \in tracked)
        /\ \A d \in Calls \ {c} : pc'[d] = pc[d]
        /\ UNCHANGED <<target, seen, hot, phase>>
        /\ mixed \subseteq mixed'
    BY <1>10, HandleIsLocal
  <2>2. CASE i = target[c]
    <3>1. ~Active(c)'
      BY <2>1, <2>2 DEF Busy
    <3>2. Agree(target[c])'
      BY <1>10, <2>2, <3>1, HandleProgress
    <3>3. QED
      BY <2>1, <2>2, <3>2 DEF Agree
  <2>3. CASE i # target[c]
    <3>1. ~Busy(i)
      BY <2>1, <2>3 DEF Busy, Active
    <3>2. QED
      BY <1>0, <2>1, <2>3, <3>1, Untouched
  <2>4. QED
    BY <2>2, <2>3
<1>11. QED
  BY <1>1, <1>2, <1>3, <1>4, <1>5, <1>6, <1>7, <1>8, <1>9, <1>10 DEF Next, HotStep

\* While the routes are open, a row says "running" exactly when its stream is
\* tracked, for every camera at rest whose operations did not overlap
\* (routes/streams.rs, routes/cameras.rs and the hot-plug task).
THEOREM SerialAgreementHolds == Spec => []SerialAgreement
<1>1. IInv /\ [Next]_vars => IInv'
  BY StepShape, StepBoot, StepCall, StepHot, StepSerial DEF IInv
<1>2. IInv => SerialAgreement
  BY DEF IInv
<1>3. QED
  BY InitIInv, <1>1, <1>2, PTL DEF Spec
=============================================================================
