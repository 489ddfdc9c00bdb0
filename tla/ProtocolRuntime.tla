--------------------------- MODULE ProtocolRuntime --------------------------
(***************************************************************************)
(* The hot-toggle runtime of ONVIF and GB28181                             *)
(* (crates/web/src/protocol_runtime.rs) and the calls that drive it: the   *)
(* boot assembly (src/runtime/protocols.rs), PUT /api/config               *)
(* (crates/web/src/routes/config_api.rs) and the final shutdown_all.       *)
(*                                                                         *)
(* A call holds the runtime's mutex from its first protocol section to its *)
(* last.  Each start has a generation of its own: the SOAP task, the       *)
(* discovery task, the SIP server, the frame source and the audio streams  *)
(* are named by it, 0 is "none".  Steps end at awaits.  An HTTP client     *)
(* that goes away drops the future of its call at an await.                *)
(***************************************************************************)
EXTENDS Integers, Sequences

CONSTANTS
    Calls,      \* PUT calls, each made once
    Boot,       \* the boot assembly
    Final,      \* shutdown_all at process exit
    BootRows,   \* the rows the boot may find
    Bodies,     \* the protocol sections a PUT may carry: sequences of sections
    Secrets,    \* values of a stored password
    Redacted,   \* "****"
    MaxGen,     \* bound: starts of a protocol
    None

Proto == {"onvif", "gb28181"}
Gen   == 1 .. MaxGen
Opt   == 0 .. MaxGen

Doc     == [enabled : BOOLEAN, secret : Secrets]
Section == [p : Proto, enabled : BOOLEAN, secret : Secrets \cup {Redacted}, bad : BOOLEAN]

ASSUME RuntimeAssumption ==
    /\ MaxGen \in Nat \ {0}
    /\ Redacted \notin Secrets
    /\ None \notin Calls \cup {Boot, Final}
    /\ Boot \notin Calls /\ Final \notin Calls /\ Boot # Final
    /\ BootRows \subseteq [Proto -> Doc]
    /\ Bodies \subseteq Seq(Section)

Users == Calls \cup {Boot, Final}

VARIABLES
    store,      \* the protocol_configs rows
    lock,       \* who holds the runtime's mutex
    pc, todo,   \* per call: its step, the sections it has left
    gen,        \* generations used
    onvif,      \* handle, discovery handle, shutdown sender, events slot
    soap,       \* soap[g]: the SOAP task
    told,       \* SOAP tasks whose shutdown watch was signalled
    announcing, \* WS-Discovery tasks that run
    gb,         \* server handle, frame source, notifier slot, audio streams, secret
    sip,        \* sip[g]: the SIP server
    mic,        \* audio streams that are open
    bridged,    \* frame sources with a bridge task
    joining,    \* the task the holder of the mutex waits for
    applied,    \* history: how the last toggle of each protocol ended
    dropped     \* history: protocols with a toggle whose call was dropped

callVars  == <<store, lock, pc, todo, gen, joining, applied, dropped>>
onvifVars == <<onvif, soap, told, announcing>>
gbVars    == <<gb, sip, mic, bridged>>
vars      == <<callVars, onvifVars, gbVars>>

Steps == {"idle", "lock", "section", "onvif.stop", "onvif.join", "onvif.start", "onvif.ready",
          "gb.stop", "gb.join", "gb.start", "gb.spawn", "done"}

TypeOK ==
    /\ store \in [Proto -> Doc]
    /\ lock \in Users \cup {None}
    /\ pc \in [Users -> Steps]
    /\ \A c \in Users : todo[c] \in Seq(Section)
    /\ gen \in Opt
    /\ onvif \in [handle : Opt, discovery : Opt, tx : Opt, events : Opt]
    /\ soap \in [Gen -> {"none", "spawned", "up", "failed", "gone"}]
    /\ told \subseteq Gen
    /\ announcing \subseteq Gen
    /\ gb \in [server : Opt, source : Opt, notifier : Opt, audio : Opt, secret : Secrets \cup {None}]
    /\ sip \in [Gen -> {"none", "up", "gone"}]
    /\ mic \subseteq Gen
    /\ bridged \subseteq Gen
    /\ joining \in Opt
    /\ applied \in [Proto -> {"ok", "failed", "dropped"}]
    /\ dropped \subseteq Proto

\* new_with_shares: everything is stopped; the boot assembly owns the runtime.
Init ==
    /\ store \in BootRows
    /\ lock = Boot
    /\ pc = [c \in Users |-> IF c = Boot THEN "section" ELSE "idle"]
    /\ todo = [c \in Users |-> IF c = Boot
                 THEN [i \in 1 .. 2 |-> [p |-> IF i = 1 THEN "onvif" ELSE "gb28181", enabled |-> TRUE,
                                         secret |-> Redacted, bad |-> FALSE]]
                 ELSE <<>>]
    /\ gen = 0
    /\ onvif = [handle |-> 0, discovery |-> 0, tx |-> 0, events |-> 0]
    /\ soap = [g \in Gen |-> "none"]
    /\ told = {}
    /\ announcing = {}
    /\ gb = [server |-> 0, source |-> 0, notifier |-> 0, audio |-> 0, secret |-> None]
    /\ sip = [g \in Gen |-> "none"]
    /\ mic = {}
    /\ bridged = {}
    /\ joining = 0
    /\ applied = [p \in Proto |-> "ok"]
    /\ dropped = {}

Goto(c, step) == pc' = [pc EXCEPT ![c] = step]

-----------------------------------------------------------------------------
(* The callers                                                             *)

PutBegin(c, body) ==
    /\ pc[c] = "idle"
    /\ pc[Boot] = "done"
    /\ pc[Final] = "idle"
    /\ todo' = [todo EXCEPT ![c] = body]
    /\ Goto(c, "lock")
    /\ UNCHANGED <<store, lock, gen, joining, applied, dropped, onvifVars, gbVars>>

\* The web server has ended; what is left of its calls was dropped with it.
FinalBegin ==
    /\ pc[Final] = "idle"
    /\ \A c \in Calls \cup {Boot} : pc[c] \in {"idle", "done"}
    /\ todo' = [todo EXCEPT ![Final] = [i \in 1 .. 2 |->
                  [p |-> IF i = 1 THEN "onvif" ELSE "gb28181", enabled |-> FALSE,
                   secret |-> Redacted, bad |-> FALSE]]]
    /\ Goto(Final, "lock")
    /\ UNCHANGED <<store, lock, gen, joining, applied, dropped, onvifVars, gbVars>>

\* Mutant: the mutex is not awaited.
LockWithoutWaiting(c) ==
    /\ pc[c] = "lock"
    /\ lock' = c
    /\ Goto(c, "section")
    /\ UNCHANGED <<store, todo, gen, joining, applied, dropped, onvifVars, gbVars>>

Lock(c) ==
    /\ pc[c] = "lock"
    /\ lock = None
    /\ lock' = c
    /\ Goto(c, "section")
    /\ UNCHANGED <<store, todo, gen, joining, applied, dropped, onvifVars, gbVars>>

Unlock(c) ==
    /\ lock' = None
    /\ Goto(c, "done")

\* restore_secrets and the merge: "****" keeps the stored secret.
Merged(s, current) ==
    [enabled |-> s.enabled, secret |-> IF s.secret = Redacted THEN current.secret ELSE s.secret]

\* The section with the configuration the toggle is to use.
Resolved(s, doc) == [s EXCEPT !.enabled = doc.enabled, !.secret = doc.secret]

StopStep(p) == IF p = "onvif" THEN "onvif.stop" ELSE "gb.stop"

\* A section that validates is merged, persisted and then applied.
SectionPut(c) ==
    /\ c \in Calls
    /\ pc[c] = "section"
    /\ todo[c] # <<>>
    /\ LET s == Head(todo[c]) IN
        /\ ~s.bad
        /\ store' = [store EXCEPT ![s.p] = Merged(s, @)]
        /\ todo' = [todo EXCEPT ![c][1] = Resolved(s, Merged(s, store[s.p]))]
        /\ Goto(c, StopStep(s.p))
    /\ UNCHANGED <<lock, gen, joining, applied, dropped, onvifVars, gbVars>>

\* A section that is refused ends the call; earlier ones stay applied.
SectionBad(c) ==
    /\ c \in Calls
    /\ pc[c] = "section"
    /\ todo[c] # <<>>
    /\ Head(todo[c]).bad
    /\ Unlock(c)
    /\ UNCHANGED <<store, todo, gen, joining, applied, dropped, onvifVars, gbVars>>

\* boot_protocol_runtime starts what the rows enable.
SectionBoot ==
    /\ pc[Boot] = "section"
    /\ todo[Boot] # <<>>
    /\ LET s == Head(todo[Boot]) IN
        \/ /\ store[s.p].enabled
           /\ todo' = [todo EXCEPT ![Boot][1] = Resolved(s, store[s.p])]
           /\ Goto(Boot, StopStep(s.p))
        \/ /\ ~store[s.p].enabled
           /\ todo' = [todo EXCEPT ![Boot] = Tail(@)]
           /\ UNCHANGED pc
    /\ UNCHANGED <<store, lock, gen, joining, applied, dropped, onvifVars, gbVars>>

SectionFinal ==
    /\ pc[Final] = "section"
    /\ todo[Final] # <<>>
    /\ Goto(Final, StopStep(Head(todo[Final]).p))
    /\ UNCHANGED <<store, lock, todo, gen, joining, applied, dropped, onvifVars, gbVars>>

SectionsDone(c) ==
    /\ pc[c] = "section"
    /\ todo[c] = <<>>
    /\ Unlock(c)
    /\ UNCHANGED <<store, todo, gen, joining, applied, dropped, onvifVars, gbVars>>

\* The toggle of the first section has ended as `how` says.
Toggled(c, how) ==
    /\ applied' = [applied EXCEPT ![Head(todo[c]).p] = how]
    /\ todo' = [todo EXCEPT ![c] = Tail(@)]
    /\ Goto(c, "section")

\* The section asks for a running protocol.
Wanted(c) == Head(todo[c]).enabled

-----------------------------------------------------------------------------
(* ONVIF                                                                   *)

\* Mutant: without a handle there is nothing to stop.
StopWithHandle(c) ==
    /\ pc[c] = "onvif.stop"
    /\ onvif' = [handle |-> 0, discovery |-> 0, tx |-> 0, events |-> 0]
    /\ told' = IF onvif.handle = 0 THEN told ELSE told \cup ({onvif.tx} \ {0})
    /\ announcing' = announcing \ {onvif.discovery}
    /\ joining' = onvif.handle
    /\ Goto(c, IF onvif.handle = 0 THEN "onvif.start" ELSE "onvif.join")
    /\ UNCHANGED <<store, lock, todo, gen, applied, dropped, soap, gbVars>>

\* stop_onvif up to graceful_shutdown: slot, sender and handles are taken,
\* the SOAP task is signalled, the discovery task aborted.
StopOnvif(c) ==
    /\ pc[c] = "onvif.stop"
    /\ onvif' = [handle |-> 0, discovery |-> 0, tx |-> 0, events |-> 0]
    /\ told' = told \cup ({onvif.tx} \ {0})
    /\ announcing' = announcing \ {onvif.discovery}
    /\ joining' = onvif.handle
    /\ Goto(c, IF onvif.handle = 0 THEN "onvif.start" ELSE "onvif.join")
    /\ UNCHANGED <<store, lock, todo, gen, applied, dropped, soap, gbVars>>

\* graceful_shutdown: the task ends by itself, or is aborted after five seconds.
JoinOnvif(c) ==
    /\ pc[c] = "onvif.join"
    /\ soap' = [soap EXCEPT ![joining] = "gone"]
    /\ joining' = 0
    /\ Goto(c, "onvif.start")
    /\ UNCHANGED <<store, lock, todo, gen, applied, dropped, onvif, told, announcing, gbVars>>

\* stop_onvif has returned and nothing is to be started.
OnvifStopped(c) ==
    /\ pc[c] = "onvif.start"
    /\ ~Wanted(c)
    /\ Toggled(c, "ok")
    /\ UNCHANGED <<store, lock, gen, joining, dropped, onvifVars, gbVars>>

\* start_onvif: services are mounted and the tasks spawned.
StartOnvif(c) ==
    /\ pc[c] = "onvif.start"
    /\ Wanted(c)
    /\ gen < MaxGen
    /\ gen' = gen + 1
    /\ onvif' = [onvif EXCEPT !.tx = gen + 1, !.events = gen + 1]
    /\ soap' = [soap EXCEPT ![gen + 1] = "spawned"]
    /\ announcing' = announcing \cup {gen + 1}
    /\ joining' = gen + 1
    /\ Goto(c, "onvif.ready")
    /\ UNCHANGED <<store, lock, todo, applied, dropped, told, gbVars>>

\* mount_onvif_services refuses the identity: only the sender was stored.
MountFails(c) ==
    /\ pc[c] = "onvif.start"
    /\ Wanted(c)
    /\ gen < MaxGen
    /\ gen' = gen + 1
    /\ onvif' = [onvif EXCEPT !.tx = gen + 1]
    /\ Toggled(c, "failed")
    /\ UNCHANGED <<store, lock, joining, dropped, soap, told, announcing, gbVars>>

\* The listener reported in: the handles are stored.
ReadyOk(c) ==
    /\ pc[c] = "onvif.ready"
    /\ soap[joining] \in {"up", "gone"}
    /\ onvif' = [onvif EXCEPT !.handle = joining, !.discovery = joining]
    /\ joining' = 0
    /\ Toggled(c, "ok")
    /\ UNCHANGED <<store, lock, gen, dropped, soap, told, announcing, gbVars>>

\* The bind failed, or ten seconds passed: the SOAP task is aborted, the
\* discovery task keeps running without a handle.
ReadyErr(c) ==
    /\ pc[c] = "onvif.ready"
    /\ soap[joining] \in {"spawned", "failed"}
    /\ soap' = [soap EXCEPT ![joining] = "gone"]
    /\ joining' = 0
    /\ Toggled(c, "failed")
    /\ UNCHANGED <<store, lock, gen, dropped, onvif, told, announcing, gbVars>>

\* One listener per port; a bind may also fail for a reason of its own.
SoapBind(g) ==
    /\ soap[g] = "spawned"
    /\ \/ /\ \A h \in Gen : soap[h] # "up"
          /\ soap' = [soap EXCEPT ![g] = "up"]
       \/ soap' = [soap EXCEPT ![g] = "failed"]
    /\ UNCHANGED <<callVars, onvif, told, announcing, gbVars>>

\* The select of the SOAP task: its shutdown watch, or the server ending.
SoapExit(g) ==
    /\ soap[g] = "up"
    /\ soap' = [soap EXCEPT ![g] = "gone"]
    /\ UNCHANGED <<callVars, onvif, told, announcing, gbVars>>

-----------------------------------------------------------------------------
(* GB28181                                                                 *)

\* stop_gb28181 up to the shutdown: the notifier slot first, then the
\* observer, then the server handle.
StopGb(c) ==
    /\ pc[c] = "gb.stop"
    /\ gb' = [gb EXCEPT !.notifier = 0, !.server = 0, !.secret = None]
    /\ joining' = gb.server
    /\ Goto(c, IF gb.server = 0 THEN "gb.start" ELSE "gb.join")
    /\ UNCHANGED <<store, lock, todo, gen, applied, dropped, onvifVars, sip, mic, bridged>>

\* Mutant: the bridges are left to the library.
JoinWithoutDrain(c) ==
    /\ pc[c] = "gb.join"
    /\ sip' = [sip EXCEPT ![joining] = "gone"]
    /\ mic' = mic \ {gb.audio}
    /\ gb' = [gb EXCEPT !.source = 0, !.audio = 0]
    /\ joining' = 0
    /\ Goto(c, "gb.start")
    /\ UNCHANGED <<store, lock, todo, gen, applied, dropped, onvifVars, bridged>>

\* Deregistration ended, failed or was aborted after eight seconds; then the
\* bridges are drained and the audio streams closed.
JoinGb(c) ==
    /\ pc[c] = "gb.join"
    /\ sip' = [sip EXCEPT ![joining] = "gone"]
    /\ bridged' = bridged \ {gb.source}
    /\ mic' = mic \ {gb.audio}
    /\ gb' = [gb EXCEPT !.source = 0, !.audio = 0]
    /\ joining' = 0
    /\ Goto(c, "gb.start")
    /\ UNCHANGED <<store, lock, todo, gen, applied, dropped, onvifVars>>

GbStopped(c) ==
    /\ pc[c] = "gb.start"
    /\ ~Wanted(c)
    /\ Toggled(c, "ok")
    /\ UNCHANGED <<store, lock, gen, joining, dropped, onvifVars, gbVars>>

\* start_gb28181 up to spawn: frame source, audio streams (which may be off or
\* unavailable), notifier slot.
StartGb(c) ==
    /\ pc[c] = "gb.start"
    /\ Wanted(c)
    /\ gen < MaxGen
    /\ gen' = gen + 1
    /\ gb' = [gb EXCEPT !.source = gen + 1, !.notifier = gen + 1]
    /\ mic' \in {mic, mic \cup {gen + 1}}
    /\ joining' = gen + 1
    /\ Goto(c, "gb.spawn")
    /\ UNCHANGED <<store, lock, todo, applied, dropped, onvifVars, sip, bridged>>

\* build_gb35114_authenticator fails closed, before anything is stored.
AuthenticatorFails(c) ==
    /\ pc[c] = "gb.start"
    /\ Wanted(c)
    /\ Toggled(c, "failed")
    /\ UNCHANGED <<store, lock, gen, joining, dropped, onvifVars, gbVars>>

\* Storing the streams drops the ones that were stored before.
SpawnOk(c) ==
    /\ pc[c] = "gb.spawn"
    /\ sip' = [sip EXCEPT ![joining] = "up"]
    /\ gb' = [gb EXCEPT !.server = joining, !.secret = Head(todo[c]).secret,
                        !.audio = IF joining \in mic THEN joining ELSE 0]
    /\ mic' = mic \ ({gb.audio} \ {joining})
    /\ joining' = 0
    /\ Toggled(c, "ok")
    /\ UNCHANGED <<store, lock, gen, dropped, onvifVars, bridged>>

SpawnErr(c) ==
    /\ pc[c] = "gb.spawn"
    /\ gb' = [gb EXCEPT !.notifier = 0, !.audio = 0]
    /\ mic' = mic \ {joining, gb.audio}
    /\ joining' = 0
    /\ Toggled(c, "failed")
    /\ UNCHANGED <<store, lock, gen, dropped, onvifVars, sip, bridged>>

\* An INVITE subscribes to the frame source of its server: a bridge task that
\* resolves the first active camera again whenever its stream ends.
Invite(g) ==
    /\ sip[g] = "up"
    /\ bridged' = bridged \cup {g}
    /\ UNCHANGED <<callVars, onvifVars, gb, sip, mic>>

\* unsubscribe aborts the bridge.
Bye(g) ==
    /\ sip[g] = "up"
    /\ bridged' = bridged \ {g}
    /\ UNCHANGED <<callVars, onvifVars, gb, sip, mic>>

-----------------------------------------------------------------------------
(* A dropped call                                                          *)

Held == {"section", "onvif.join", "onvif.ready", "gb.join", "gb.spawn", "onvif.stop", "gb.stop"}

\* The locals of the future are dropped: task handles detach, the streams of
\* a start under way close; whether a dropped server handle ends its server
\* is the library's business.
DropCall(c) ==
    /\ c \in Calls
    /\ pc[c] \in Held
    /\ todo[c] # <<>>
    /\ Unlock(c)
    /\ joining' = 0
    /\ applied' = [applied EXCEPT ![Head(todo[c]).p] = "dropped"]
    /\ dropped' = dropped \cup {Head(todo[c]).p}
    /\ mic' = IF pc[c] = "gb.spawn" THEN mic \ {joining} ELSE mic
    /\ \/ UNCHANGED sip
       \/ pc[c] = "gb.join" /\ sip' = [sip EXCEPT ![joining] = "gone"]
    /\ UNCHANGED <<store, todo, gen, onvifVars, gb, bridged>>

DropWaiting(c) ==
    /\ c \in Calls
    /\ pc[c] = "lock"
    /\ Goto(c, "done")
    /\ UNCHANGED <<store, lock, todo, gen, joining, applied, dropped, onvifVars, gbVars>>

-----------------------------------------------------------------------------

Apply(c) ==
    \/ Lock(c) \/ SectionPut(c) \/ SectionBad(c) \/ SectionsDone(c)
    \/ StopOnvif(c) \/ JoinOnvif(c) \/ OnvifStopped(c) \/ StartOnvif(c) \/ MountFails(c)
    \/ ReadyOk(c) \/ ReadyErr(c)
    \/ StopGb(c) \/ JoinGb(c) \/ GbStopped(c) \/ StartGb(c) \/ AuthenticatorFails(c)
    \/ SpawnOk(c) \/ SpawnErr(c)

Next ==
    \/ \E c \in Calls, body \in Bodies : PutBegin(c, body)
    \/ FinalBegin \/ SectionBoot \/ SectionFinal
    \/ \E c \in Users : Apply(c) \/ DropCall(c) \/ DropWaiting(c)
    \/ \E g \in Gen : SoapBind(g) \/ SoapExit(g) \/ Invite(g) \/ Bye(g)

\* A call that is not dropped is polled until it returns, and each of its
\* awaits is bounded by a timeout; spawned tasks are polled.
Fairness ==
    /\ \A c \in Users : WF_vars(Apply(c))
    /\ WF_vars(SectionBoot) /\ WF_vars(SectionFinal)
    /\ \A g \in Gen : /\ WF_vars(SoapBind(g))
                      /\ WF_vars(g \in told /\ SoapExit(g))

Spec == Init /\ [][Next]_vars /\ Fairness

-----------------------------------------------------------------------------
(* Properties                                                              *)

Running(p) == IF p = "onvif" THEN onvif.handle # 0 ELSE gb.server # 0

\* At rest, a protocol whose last toggle neither failed nor was dropped runs
\* exactly when its row enables it, whatever calls overlapped, and the SIP
\* server registers with the stored secret: put_config keeps the runtime's
\* mutex from the write of the row to the end of the toggle.
RunningMatchesStore ==
    lock = None /\ pc[Final] = "idle" =>
        \A p \in Proto : applied[p] = "ok" =>
            /\ Running(p) = store[p].enabled
            /\ p = "gb28181" /\ Running(p) => gb.secret = store[p].secret

\* When GB28181 does not run, nothing of any of its generations is left: no
\* notifier the alarm bridge could fire into, no frame bridge, no open
\* microphone (stop_gb28181 and the error path of start_gb28181).
StoppedIsQuiet ==
    lock = None /\ gb.server = 0 /\ "gb28181" \notin dropped =>
        /\ gb.notifier = 0
        /\ mic = {}
        /\ bridged = {}

\* A SOAP listener whose shutdown sender the runtime no longer holds gives its
\* port back, also when its handle was lost with a dropped call.
LostListenerEnds ==
    \A g \in Gen : (soap[g] = "up" /\ onvif.tx # g) ~> (soap[g] # "up")
=============================================================================
