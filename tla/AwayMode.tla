------------------------------ MODULE AwayMode ------------------------------
(***************************************************************************)
(* Away mode: the engine (crates/web/src/away.rs), the watch task with the *)
(* tasks it spawns per visitor (src/away_monitor.rs), the records          *)
(* (crates/web/src/db.rs) and the callers of set_active: the route, the    *)
(* voice command and the scheduler.                                        *)
(*                                                                         *)
(* Time is relative.  A latch holds how long ago something was, up to a    *)
(* time that also stands for "never"; the listening window and the timers  *)
(* hold the time they have left.  Steps end at awaits.                     *)
(***************************************************************************)
EXTENDS Integers, FiniteSets

CONSTANTS
    Calls,                      \* calls of set_active that may be under way together
    Gap, Cooldown, Interval,    \* person_gap, greeting and activity cooldown, interval_ms
    Listen, Reask, Grace, Late, \* the windows, LISTEN_GRACE_MS, the reaper's three seconds
    Cap,                        \* AWAY_EVENTS_CAP
    MaxEvents, MaxRestarts      \* bounds

ASSUME AwayAssumption ==
    /\ {Gap, Cooldown, Interval, Listen, Reask, Grace} \subseteq Nat
    /\ Late \in Nat \ {0}
    /\ Cap \in Nat \ {0}
    /\ MaxEvents \in Nat \ {0}
    /\ MaxRestarts \in Nat

Ids == 1 .. MaxEvents
\* How long ago counts as never.
Never == [seen |-> Gap + 1, greeted |-> Cooldown + 1, analysis |-> Interval, activity |-> Cooldown + 1]

VARIABLES
    available,  \* the AI engine is active
    armed,      \* AwayEngine::armed
    stored,     \* the setting away.active
    calls,      \* calls[c]: step and wanted state of a set_active
    latch,      \* the camera's latches
    watch,      \* what the watch task is in the middle of
    rows,       \* rows[i]: the record of event i
    nextId,     \* the next row id (AUTOINCREMENT)
    files,      \* snapshot files, by event; 0 for those whose insert failed
    slot,       \* the listening window: event and time left
    task,       \* task[i]: the voice task of event i
    restarts,   \* service restarts so far
    serial,     \* history: no overlap, failure or drop of set_active so far
    voided      \* history: events whose window ended without a verdict

engine == <<available, armed, stored, calls, serial>>
record == <<rows, nextId, files>>
vars   == <<engine, latch, watch, record, slot, task, restarts, voided>>

NoRow  == [kind |-> "none", state |-> "none", reply |-> FALSE, snap |-> FALSE]
NoSlot == [ev |-> 0, left |-> 0]
Idle   == [pc |-> "idle", ev |-> 0]
NoCall == [pc |-> "idle", want |-> FALSE]
NoTask == [pc |-> "none", ev |-> 0, left |-> 0]

Open    == {"greeting", "listening", "reask"}
States  == Open \cup {"none", "known", "no_voice", "answered", "silent", "recorded"}
TaskPcs == {"none", "greet", "known", "mark", "wait", "reask", "wait2", "deter", "end"}
Longest == Listen + Reask + Grace + Late

TypeOK ==
    /\ available \in BOOLEAN
    /\ armed \in BOOLEAN
    /\ stored \in BOOLEAN
    /\ calls \in [Calls -> [pc : {"idle", "summary", "persist"}, want : BOOLEAN]]
    /\ \A f \in DOMAIN Never : latch[f] \in 0 .. Never[f]
    /\ watch \in [pc : {"idle", "visit", "activity", "reply"}, ev : {0} \cup Ids]
    /\ rows \in [Ids -> [kind : {"none", "person", "activity"}, state : States,
                         reply : BOOLEAN, snap : BOOLEAN]]
    /\ nextId \in 1 .. MaxEvents + 1
    /\ files \subseteq {0} \cup Ids
    /\ slot \in [ev : {0} \cup Ids, left : -1 .. Longest]
    /\ task \in [Ids -> [pc : TaskPcs, ev : {0} \cup Ids, left : 0 .. Longest]]
    /\ restarts \in 0 .. MaxRestarts
    /\ serial \in BOOLEAN
    /\ voided \subseteq Ids

Init ==
    /\ available \in BOOLEAN
    /\ stored \in BOOLEAN
    /\ armed = (stored /\ available)
    /\ calls = [c \in Calls |-> NoCall]
    /\ latch = Never
    /\ watch = Idle
    /\ rows = [i \in Ids |-> NoRow]
    /\ nextId = 1
    /\ files = {}
    /\ slot = NoSlot
    /\ task = [i \in Ids |-> NoTask]
    /\ restarts = 0
    /\ serial = (armed = stored)
    /\ voided = {}

-----------------------------------------------------------------------------
(* set_active                                                              *)

Active(c) == calls[c].pc \in {"summary", "persist"}
Alone(c)  == \A d \in Calls \ {c} : ~Active(d)

\* Arming is refused without detection; otherwise the flag is set at once.
Arm(c) ==
    /\ calls[c].pc = "idle"
    /\ available
    /\ armed' = TRUE
    /\ calls' = [calls EXCEPT ![c] = [pc |-> "persist", want |-> TRUE]]
    /\ serial' = (serial /\ Alone(c))
    /\ UNCHANGED <<available, stored, latch, watch, record, slot, task, restarts, voided>>

\* Disarming first writes the summary, with the language model if there is one.
Summarize(c) ==
    /\ calls[c].pc = "idle"
    /\ calls' = [calls EXCEPT ![c] = [pc |-> "summary", want |-> FALSE]]
    /\ serial' = (serial /\ Alone(c))
    /\ UNCHANGED <<available, armed, stored, latch, watch, record, slot, task, restarts, voided>>

\* disarm: the flag, the stamp and the open window.
Disarm(c) ==
    /\ calls[c].pc = "summary"
    /\ armed' = FALSE
    /\ slot' = NoSlot
    /\ voided' = voided \cup ({slot.ev} \ {0})
    /\ calls' = [calls EXCEPT ![c].pc = "persist"]
    /\ UNCHANGED <<available, stored, serial, latch, watch, record, task, restarts>>

\* Mutant: only arming is persisted.
PersistArmed(c) ==
    /\ calls[c].pc = "persist"
    /\ stored' = (stored \/ calls[c].want)
    /\ calls' = [calls EXCEPT ![c] = NoCall]
    /\ UNCHANGED <<available, armed, serial, latch, watch, record, slot, task, restarts, voided>>

Persist(c) ==
    /\ calls[c].pc = "persist"
    /\ stored' = calls[c].want
    /\ calls' = [calls EXCEPT ![c] = NoCall]
    /\ UNCHANGED <<available, armed, serial, latch, watch, record, slot, task, restarts, voided>>

\* The write fails and is logged, or the client is gone and the future dropped.
CallLost(c) ==
    /\ Active(c)
    /\ calls' = [calls EXCEPT ![c] = NoCall]
    /\ serial' = FALSE
    /\ UNCHANGED <<available, armed, stored, latch, watch, record, slot, task, restarts, voided>>

-----------------------------------------------------------------------------
(* The watch task                                                          *)

Throttled == latch.analysis < Interval

\* observe with a person in the picture.  The presence latch always moves; a
\* visitor is someone after a gap, past the cooldown and not throttled.
SeePerson ==
    /\ watch.pc = "idle"
    /\ armed
    /\ IF latch.seen > Gap /\ latch.greeted > Cooldown /\ ~Throttled
       THEN /\ nextId <= MaxEvents
            /\ latch' = [latch EXCEPT !.seen = 0, !.greeted = 0, !.analysis = 0]
            /\ watch' = [pc |-> "visit", ev |-> 0]
       ELSE /\ latch' = [latch EXCEPT !.seen = 0]
            /\ UNCHANGED watch
    /\ UNCHANGED <<engine, record, slot, task, restarts, voided>>

\* observe with an activity label and nobody in the picture.
SeeActivity ==
    /\ watch.pc = "idle"
    /\ armed
    /\ latch.activity > Cooldown
    /\ ~Throttled
    /\ nextId <= MaxEvents
    /\ latch' = [latch EXCEPT !.activity = 0, !.analysis = 0]
    /\ watch' = [pc |-> "activity", ev |-> 0]
    /\ UNCHANGED <<engine, record, slot, task, restarts, voided>>

\* Mutant: the row just inserted is not counted.
KeptOneMore(i) == {j \in Ids : rows[j].kind # "none" /\
                        Cardinality({k \in Ids : k > j /\ rows[k].kind # "none"}) < Cap}

\* The rows an insert of row i keeps: the Cap newest.
Kept(i) == {j \in Ids : rows[j].kind # "none" /\
                        Cardinality({k \in Ids : k > j /\ rows[k].kind # "none"} \cup {i}) < Cap}

\* insert_and_broadcast: insert and prune in one transaction, then the files
\* of the pruned rows go.
Insert(row) ==
    /\ rows' = [j \in Ids |-> IF j = nextId THEN row
                              ELSE IF j \in Kept(nextId) THEN rows[j] ELSE NoRow]
    /\ nextId' = nextId + 1
    /\ files' = (files \ {j \in Ids : rows[j].snap /\ j \notin Kept(nextId)})
                \cup (IF row.snap THEN {nextId} ELSE {})

\* visitor_flow after face match and snapshot: the record, then the voice task.
Visitor(state, snap) ==
    /\ watch.pc = "visit"
    /\ Insert([kind |-> "person", state |-> state, reply |-> FALSE, snap |-> snap])
    /\ task' = [task EXCEPT ![nextId] = IF state = "no_voice" THEN NoTask
                                        ELSE [pc |-> IF state = "known" THEN "known" ELSE "greet",
                                              ev |-> nextId, left |-> 0]]
    /\ watch' = Idle
    /\ UNCHANGED <<engine, latch, slot, restarts, voided>>

\* activity_flow
Activity(snap) ==
    /\ watch.pc = "activity"
    /\ Insert([kind |-> "activity", state |-> "recorded", reply |-> FALSE, snap |-> snap])
    /\ watch' = Idle
    /\ UNCHANGED <<engine, latch, slot, task, restarts, voided>>

\* The insert fails: the flow ends, its snapshot stays as a file without a row.
InsertFails(snap) ==
    /\ watch.pc \in {"visit", "activity"}
    /\ files' = files \cup (IF snap THEN {0} ELSE {})
    /\ watch' = Idle
    /\ UNCHANGED <<engine, latch, rows, nextId, slot, task, restarts, voided>>

\* Mutant: the window stays open after an answer.
HearAndKeep ==
    /\ watch.pc = "idle"
    /\ armed
    /\ slot.ev # 0
    /\ watch' = IF slot.left >= 0 THEN [pc |-> "reply", ev |-> slot.ev] ELSE Idle
    /\ voided' = IF slot.left >= 0 THEN voided ELSE voided \cup {slot.ev}
    /\ UNCHANGED <<engine, latch, record, slot, task, restarts>>

\* A follow-up transcript takes the window; past its deadline it is lost, and
\* the reaper finds nothing.
Hear ==
    /\ watch.pc = "idle"
    /\ armed
    /\ slot.ev # 0
    /\ slot' = NoSlot
    /\ watch' = IF slot.left >= 0 THEN [pc |-> "reply", ev |-> slot.ev] ELSE Idle
    /\ voided' = IF slot.left >= 0 THEN voided ELSE voided \cup {slot.ev}
    /\ UNCHANGED <<engine, latch, record, task, restarts>>

HasRow(i) == rows[i].kind # "none"
SetState(i, state) == rows' = IF HasRow(i) THEN [rows EXCEPT ![i].state = state] ELSE rows

\* update_away_reply
RecordReply ==
    /\ watch.pc = "reply"
    /\ rows' = IF HasRow(watch.ev) THEN [rows EXCEPT ![watch.ev].state = "answered",
                                                     ![watch.ev].reply = TRUE]
               ELSE rows
    /\ watch' = Idle
    /\ UNCHANGED <<engine, latch, nextId, files, slot, task, restarts, voided>>

-----------------------------------------------------------------------------
(* The voice task of a visitor                                             *)

Step(i, pc, ev, left) == task' = [task EXCEPT ![i] = [pc |-> pc, ev |-> ev, left |-> left]]

\* open_listen: one window at a time.
OpenListen(ev, window) ==
    /\ slot.ev = 0
    /\ slot' = [ev |-> ev, left |-> window + Grace]

\* A known face was greeted, or was not: either way nothing else is asked.
GreetKnown(i) ==
    /\ task[i].pc = "known"
    /\ Step(i, "end", 0, 0)
    /\ UNCHANGED <<engine, latch, watch, record, slot, restarts, voided>>

\* The question was asked and the window is free.
StartListening(i) ==
    /\ task[i].pc = "greet"
    /\ OpenListen(i, Listen)
    /\ Step(i, "mark", i, 0)
    /\ UNCHANGED <<engine, latch, watch, record, restarts, voided>>

\* The greeting was not played, speech detection is not there, or the window
\* is taken.
NoListening(i) ==
    /\ task[i].pc = "greet"
    /\ SetState(i, "no_voice")
    /\ Step(i, "end", 0, 0)
    /\ UNCHANGED <<engine, latch, watch, nextId, files, slot, restarts, voided>>

\* Mutant: the reaper wakes at the deadline, not after it.
MarkTight(i) ==
    /\ task[i].pc = "mark"
    /\ SetState(i, "listening")
    /\ voided' = IF slot.ev # i THEN voided \cup {i} ELSE voided
    /\ Step(i, "wait", i, Listen + Grace)
    /\ UNCHANGED <<engine, latch, watch, nextId, files, slot, restarts>>

\* The state is written only now; the answer may already be in.
MarkListening(i) ==
    /\ task[i].pc = "mark"
    /\ SetState(i, "listening")
    /\ voided' = IF slot.ev # i THEN voided \cup {i} ELSE voided
    /\ Step(i, "wait", i, Listen + Grace + Late)
    /\ UNCHANGED <<engine, latch, watch, nextId, files, slot, restarts>>

Due(i, pc) == task[i].pc = pc /\ task[i].left = 0

\* expire_listen: the event of a window past its deadline, 0 if there is none.
Expired(i) == IF slot.ev # 0 /\ slot.left < 0 THEN slot.ev ELSE 0

\* Answered in time, or taken over by a later window that is still open.
Answered(i) ==
    /\ Due(i, "wait") \/ Due(i, "wait2")
    /\ Expired(i) = 0
    /\ Step(i, "end", 0, 0)
    /\ UNCHANGED <<engine, latch, watch, record, slot, restarts, voided>>

\* Unanswered, without deterrence: silent.
Silent(i) ==
    /\ Due(i, "wait")
    /\ Expired(i) # 0
    /\ slot' = NoSlot
    /\ SetState(Expired(i), "silent")
    /\ Step(i, "end", 0, 0)
    /\ UNCHANGED <<engine, latch, watch, nextId, files, restarts, voided>>

\* With deterrence: asked again.
AskAgain(i) ==
    /\ Due(i, "wait")
    /\ Expired(i) # 0
    /\ slot' = NoSlot
    /\ SetState(Expired(i), "reask")
    /\ Step(i, "reask", Expired(i), 0)
    /\ UNCHANGED <<engine, latch, watch, nextId, files, restarts, voided>>

\* The second window opens once the question was spoken, whether or not the
\* playback worked.
ListenAgain(i) ==
    /\ task[i].pc = "reask"
    /\ OpenListen(task[i].ev, Reask)
    /\ Step(i, "wait2", task[i].ev, Reask + Grace + Late)
    /\ UNCHANGED <<engine, latch, watch, record, restarts, voided>>

NoListenAgain(i) ==
    /\ task[i].pc = "reask"
    /\ SetState(task[i].ev, "silent")
    /\ Step(i, "end", 0, 0)
    /\ UNCHANGED <<engine, latch, watch, nextId, files, slot, restarts, voided>>

\* Still no answer: silent, and the deterrence message.
Deter(i) ==
    /\ Due(i, "wait2")
    /\ Expired(i) # 0
    /\ slot' = NoSlot
    /\ SetState(Expired(i), "silent")
    /\ Step(i, "deter", Expired(i), 0)
    /\ UNCHANGED <<engine, latch, watch, nextId, files, restarts, voided>>

Deterred(i) ==
    /\ task[i].pc = "deter"
    /\ Step(i, "end", 0, 0)
    /\ UNCHANGED <<engine, latch, watch, record, slot, restarts, voided>>

-----------------------------------------------------------------------------
(* Records, time, restart                                                  *)

\* DELETE /api/away/events
Clear ==
    /\ \E i \in Ids : HasRow(i)
    /\ rows' = [i \in Ids |-> NoRow]
    /\ files' = {i \in files : i = 0 \/ ~rows[i].snap}
    /\ UNCHANGED <<engine, latch, watch, nextId, slot, task, restarts, voided>>

Tick ==
    /\ latch' = [f \in DOMAIN latch |-> IF latch[f] < Never[f] THEN latch[f] + 1 ELSE latch[f]]
    /\ slot' = IF slot.ev = 0 THEN slot ELSE [slot EXCEPT !.left = IF @ < 0 THEN @ ELSE @ - 1]
    /\ task' = [i \in Ids |-> [task[i] EXCEPT !.left = IF @ = 0 THEN 0 ELSE @ - 1]]
    /\ <<latch', slot', task'>> # <<latch, slot, task>>
    /\ UNCHANGED <<engine, watch, record, restarts, voided>>

\* The service is restarted; the armed state comes back from the setting.
Restart(ai) ==
    /\ restarts < MaxRestarts
    /\ restarts' = restarts + 1
    /\ available' = ai
    /\ armed' = (stored /\ ai)
    /\ serial' = ((stored /\ ai) = stored)
    /\ calls' = [c \in Calls |-> NoCall]
    /\ latch' = Never
    /\ watch' = Idle
    /\ slot' = NoSlot
    /\ task' = [i \in Ids |-> NoTask]
    /\ voided' = voided \cup {i \in Ids : rows[i].state \in Open}
    /\ UNCHANGED <<stored, record>>

-----------------------------------------------------------------------------

WatchStep ==
    \/ \E state \in {"no_voice", "known", "greeting"}, snap \in BOOLEAN : Visitor(state, snap)
    \/ \E snap \in BOOLEAN : Activity(snap) \/ InsertFails(snap)
    \/ RecordReply

VoiceStep(i) ==
    \/ GreetKnown(i) \/ StartListening(i) \/ NoListening(i) \/ MarkListening(i)
    \/ Answered(i) \/ Silent(i) \/ AskAgain(i) \/ ListenAgain(i) \/ NoListenAgain(i)
    \/ Deter(i) \/ Deterred(i)

Next ==
    \/ \E c \in Calls : Arm(c) \/ Summarize(c) \/ Disarm(c) \/ Persist(c) \/ CallLost(c)
    \/ SeePerson \/ SeeActivity \/ Hear \/ WatchStep
    \/ \E i \in Ids : VoiceStep(i)
    \/ Clear \/ Tick
    \/ \E ai \in BOOLEAN : Restart(ai)

\* Time passes, and the tasks are polled; playback and inference return.
Spec ==
    /\ Init /\ [][Next]_vars
    /\ WF_vars(Tick) /\ WF_vars(WatchStep)
    /\ \A i \in Ids : WF_vars(VoiceStep(i))

-----------------------------------------------------------------------------
(* Properties                                                              *)

\* An answer ends the questions: a visitor whose answer was taken in time is
\* neither asked again nor warned off, however answer and reaper interleave,
\* and gives one answer only.
AnswerEndsQuestions ==
    [][\A i \in Ids : (rows[i].reply \/ watch = [pc |-> "reply", ev |-> i]) =>
        /\ rows'[i].state \in {"reask", "silent"} => rows'[i].state = rows[i].state
        /\ slot'.ev = i => slot.ev = i]_vars

\* A visitor's record does not stay in an intermediate state: the greeting
\* ends, and each window is answered or reaped, unless it was voided by a
\* disarm, a restart, or an answer after the deadline or before the state was
\* written.
RecordsSettle ==
    \A i \in Ids : (rows[i].state \in Open) ~> (rows[i].state \notin Open \/ i \in voided)

\* The snapshots are those of the records: a record's file is there, and after
\* pruning or clearing none is left over but those that never had a record; and
\* no more than the newest Cap records are kept.
EvidenceMatchesRecords ==
    /\ files \ {0} = {i \in Ids : rows[i].snap}
    /\ Cardinality({i \in Ids : HasRow(i)}) <= Cap

\* As long as set_active calls do not overlap, fail or get dropped, the armed
\* flag is what a restart will restore.
ArmedIsStored ==
    serial /\ (\A c \in Calls : ~Active(c)) => armed = stored
=============================================================================
