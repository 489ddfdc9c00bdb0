----------------------- MODULE ProtocolRuntimeProofs ------------------------
(***************************************************************************)
(* The hot-toggle runtime, for any number of overlapping PUT calls with    *)
(* any sections: what runs is what the rows say, and a stopped GB28181     *)
(* leaves nothing behind.                                                  *)
(***************************************************************************)
EXTENDS ProtocolRuntime, SequenceTheorems, TLAPS

OnvifSteps == {"onvif.stop", "onvif.join", "onvif.start", "onvif.ready"}
GbSteps    == {"gb.stop", "gb.join", "gb.start", "gb.spawn"}
Toggling   == OnvifSteps \cup GbSteps
Inside     == Toggling \cup {"section"}

\* TypeOK, with the domain of todo: the calls' part and the protocols' part.
CallTyped ==
    /\ store \in [Proto -> Doc]
    /\ lock \in Users \cup {None}
    /\ pc \in [Users -> Steps]
    /\ todo \in [Users -> Seq(Section)]

DataTyped ==
    /\ gen \in Opt
    /\ onvif \in [handle : Opt, discovery : Opt, tx : Opt, events : Opt]
    /\ soap \in [Gen -> {"none", "spawned", "up", "failed", "gone"}]
    /\ told \subseteq Gen
    /\ announcing \subseteq Gen
    /\ gb \in [server : Opt, source : Opt, notifier : Opt, audio : Opt, secret : Secrets \cup {None}]
    /\ sip \in [Gen -> {"none", "up", "gone"}]
    /\ mic \subseteq Gen
    /\ bridged \subseteq Gen
    /\ joining \in Opt
    /\ applied \in [Proto -> {"ok", "failed", "dropped"}]
    /\ dropped \subseteq Proto

Shape == CallTyped /\ DataTyped

\* The runtime is touched by the holder of its mutex only.
Mutex == \A c \in Users : pc[c] \in Inside <=> lock = c

\* A toggle is the one the call's first section asks for.
TogglesHead ==
    \A c \in Users :
        /\ pc[c] \in Toggling => todo[c] # <<>>
        /\ pc[c] \in OnvifSteps => Head(todo[c]).p = "onvif"
        /\ pc[c] \in GbSteps => Head(todo[c]).p = "gb28181"

\* It applies the stored row; the final shutdown applies none.
TogglesRow ==
    \A c \in Users \ {Final} : pc[c] \in Toggling =>
        LET s == Head(todo[c])
        IN  s.enabled = store[s.p].enabled /\ s.secret = store[s.p].secret

\* The boot has the runtime from the start; the sections it has left.
BootOrder ==
    /\ pc[Boot] \in Inside \cup {"done"}
    /\ lock = Boot =>
        \/ todo[Boot] = <<>>
        \/ Len(todo[Boot]) = 1 /\ todo[Boot][1].p = "gb28181"
        \/ Len(todo[Boot]) = 2 /\ todo[Boot][1].p = "onvif" /\ todo[Boot][2].p = "gb28181"

\* The final shutdown starts nothing.
FinalStops ==
    /\ pc[Final] \notin {"onvif.ready", "gb.spawn"}
    /\ \A i \in 1 .. Len(todo[Final]) : ~todo[Final][i].enabled

\* What is being started was asked for.
StartsWanted == \A c \in Users : pc[c] \in {"onvif.ready", "gb.spawn"} => Wanted(c)

Pending(p) == lock = Boot /\ \E i \in 1 .. Len(todo[Boot]) : todo[Boot][i].p = p

\* What the boot has not come to, and what was stopped, does not run.
Stopped ==
    /\ \A p \in Proto : Pending(p) => ~Running(p)
    /\ \A c \in Users : pc[c] \in {"onvif.join", "onvif.start", "onvif.ready"} => onvif.handle = 0
    /\ \A c \in Users : pc[c] \in {"gb.join", "gb.start", "gb.spawn"} => gb.server = 0
    /\ \A c \in Users : pc[c] \in {"onvif.join", "onvif.ready", "gb.join", "gb.spawn"} => joining # 0

StepsOf(p) == IF p = "onvif" THEN OnvifSteps ELSE GbSteps

Busy(p) == Pending(p) \/ \E c \in Users : pc[c] \in StepsOf(p)

\* RunningMatchesStore, for the protocols nobody is toggling.
RowIsApplied ==
    pc[Final] = "idle" =>
        \A p \in Proto : applied[p] = "ok" /\ ~Busy(p) =>
            /\ Running(p) <=> store[p].enabled
            /\ p = "gb28181" /\ Running(p) => gb.secret = store[p].secret

\* Nothing of GB28181 is left.
GbOff ==
    /\ gb.notifier = 0
    /\ mic = {} /\ bridged = {}
    /\ \A g \in Gen : sip[g] # "up"

\* What is there belongs to generation g.
GbOn(g) ==
    /\ gb.source = g
    /\ mic \subseteq {gb.audio} /\ bridged \subseteq {g}
    /\ \A h \in Gen \ {g} : sip[h] # "up"

GbPhase ==
    "gb28181" \notin dropped =>
        /\ (\A c \in Users : pc[c] \notin {"gb.join", "gb.start", "gb.spawn"}) =>
                IF gb.server = 0 THEN GbOff ELSE GbOn(gb.server)
        /\ \A c \in Users : pc[c] = "gb.join" => gb.notifier = 0 /\ GbOn(joining)
        /\ \A c \in Users : pc[c] = "gb.start" => GbOff
        /\ \A c \in Users : pc[c] = "gb.spawn" =>
                /\ gb.source = joining
                /\ mic \subseteq {joining} /\ bridged = {}
                /\ \A g \in Gen : sip[g] # "up"

CallInv == Mutex /\ TogglesHead /\ TogglesRow /\ BootOrder

IInv == Shape /\ CallInv /\ FinalStops /\ StartsWanted /\ Stopped /\ RowIsApplied /\ GbPhase

-----------------------------------------------------------------------------
(* Sections                                                                *)

\* The merge of a section makes a row.
LEMMA MergedIs ==
  ASSUME NEW s \in Section, NEW d \in Doc
  PROVE  Merged(s, d) \in Doc
  BY DEF Merged, Section, Doc

\* A resolved section asks for what its row says.
LEMMA ResolvedIs ==
  ASSUME NEW s \in Section, NEW d \in Doc
  PROVE  /\ Resolved(s, d) \in Section
         /\ Resolved(s, d).p = s.p
         /\ Resolved(s, d).enabled = d.enabled
         /\ Resolved(s, d).secret = d.secret
  BY DEF Resolved, Section, Doc

\* Replacing the first section.
LEMMA HeadReplaced ==
  ASSUME NEW t \in Seq(Section), t # <<>>, NEW x \in Section
  PROVE  /\ [t EXCEPT ![1] = x] \in Seq(Section)
         /\ [t EXCEPT ![1] = x] # <<>>
         /\ Head([t EXCEPT ![1] = x]) = x
         /\ Len([t EXCEPT ![1] = x]) = Len(t)
         /\ \A i \in 1 .. Len(t) : [t EXCEPT ![1] = x][i] = IF i = 1 THEN x ELSE t[i]
<1>1. Len(t) \in Nat \ {0} /\ 1 \in 1 .. Len(t)
  BY EmptySeq
<1>2. /\ [t EXCEPT ![1] = x] \in Seq(Section) /\ Len([t EXCEPT ![1] = x]) = Len(t)
      /\ \A i \in 1 .. Len(t) : [t EXCEPT ![1] = x][i] = IF i = 1 THEN x ELSE t[i]
  BY <1>1, ExceptSeq
<1>3. PICK u \in Seq(Section) : u = [t EXCEPT ![1] = x] /\ Len(u) = Len(t) /\ u[1] = x
  BY <1>1, <1>2
<1>4. u # <<>>
  BY <1>1, <1>3, EmptySeq
<1>5. Head(u) = u[1]
  BY <1>4
<1>6. QED
  BY <1>2, <1>3, <1>4, <1>5

\* The sections of the boot and of the final shutdown.
Both(on) ==
    [i \in 1 .. 2 |-> [p |-> IF i = 1 THEN "onvif" ELSE "gb28181", enabled |-> on,
                       secret |-> Redacted, bad |-> FALSE]]

LEMMA BothAre ==
  ASSUME NEW on \in BOOLEAN
  PROVE  /\ Both(on) \in Seq(Section) /\ Len(Both(on)) = 2
         /\ Both(on)[1].enabled = on /\ Both(on)[2].enabled = on
         /\ Both(on)[1].p = "onvif" /\ Both(on)[2].p = "gb28181"
<1> DEFINE sec(i) == [p |-> IF i = 1 THEN "onvif" ELSE "gb28181", enabled |-> on,
                      secret |-> Redacted, bad |-> FALSE]
<1>1. \A i \in 1 .. 2 : sec(i) \in Section
  BY DEF Section, Proto
<1>2. sec(1).p = "onvif" /\ sec(2).p = "gb28181" /\ sec(1).enabled = on /\ sec(2).enabled = on
  OBVIOUS
<1>3. Both(on) = [i \in 1 .. 2 |-> sec(i)]
  BY DEF Both
<1> HIDE DEF sec
<1>4. [i \in 1 .. 2 |-> sec(i)] \in Seq(Section)
  BY <1>1, IsASeq
<1>5. QED
  BY <1>2, <1>3, <1>4

\* A toggle begins with the stop of its protocol.
LEMMA StopStepIs ==
  \A p \in Proto : /\ StopStep(p) \in Toggling
                   /\ StopStep(p) \in OnvifSteps <=> p = "onvif"
                   /\ StopStep(p) \in GbSteps <=> p = "gb28181"
  BY DEF StopStep, Toggling, OnvifSteps, GbSteps, Proto

\* The boot's sections, one less.
LEMMA BootTail ==
  ASSUME NEW t \in Seq(Section), t # <<>>,
         \/ Len(t) = 1 /\ t[1].p = "gb28181"
         \/ Len(t) = 2 /\ t[1].p = "onvif" /\ t[2].p = "gb28181"
  PROVE  /\ Tail(t) = <<>> \/ (Len(Tail(t)) = 1 /\ Tail(t)[1].p = "gb28181")
         /\ \A i \in 1 .. Len(Tail(t)) : Tail(t)[i].p # t[1].p
<1>0. /\ Tail(t) \in Seq(Section) /\ Len(Tail(t)) = Len(t) - 1
      /\ \A i \in 1 .. Len(Tail(t)) : Tail(t)[i] = t[i + 1]
  BY HeadTailProperties
<1>1. PICK u \in Seq(Section) : /\ u = Tail(t) /\ Len(u) = Len(t) - 1
                                /\ \A i \in 1 .. Len(u) : u[i] = t[i + 1]
  BY <1>0, Zenon
<1>2. CASE Len(t) = 1
  <2>1. Len(u) = 0
    BY <1>1, <1>2
  <2>2. u = <<>> /\ 1 .. Len(u) = {}
    BY <2>1, EmptySeq
  <2>3. QED
    BY <1>1, <2>2
<1>3. CASE Len(t) = 2
  <2>1. Len(u) = 1 /\ t[1].p = "onvif" /\ t[2].p = "gb28181"
    BY <1>1, <1>3
  <2>2. u[1] = t[2] /\ 1 .. Len(u) = {1}
    BY <2>1, <1>1
  <2>3. QED
    BY <1>1, <2>1, <2>2
<1>4. QED
  BY <1>2, <1>3

-----------------------------------------------------------------------------
(* Types                                                                   *)

LEMMA InitIInv == Init => IInv
<1> SUFFICES ASSUME Init PROVE IInv
  OBVIOUS
<1> USE RuntimeAssumption DEF RuntimeAssumption
<1>1. todo = [c \in Users |-> IF c = Boot THEN Both(TRUE) ELSE <<>>]
  BY DEF Init, Both
<1>2. Both(TRUE) \in Seq(Section) /\ <<>> \in Seq(Section)
  BY BothAre, EmptySeq
<1>3. todo \in [Users -> Seq(Section)] /\ todo[Boot] = Both(TRUE)
  BY <1>1, <1>2 DEF Users
<1>4. Shape
  <2>1. CallTyped
    <3>1. pc \in [Users -> Steps]
      BY DEF Init, Steps
    <3>2. QED
      BY <1>3, <3>1 DEF Init, CallTyped, Users
  <2>2. DataTyped
    <3>1. /\ onvif \in [handle : Opt, discovery : Opt, tx : Opt, events : Opt]
          /\ gb \in [server : Opt, source : Opt, notifier : Opt, audio : Opt, secret : Secrets \cup {None}]
      BY DEF Init, Opt
    <3>2. gen \in Opt /\ joining \in Opt
      BY DEF Init, Opt
    <3>3. /\ soap \in [Gen -> {"none", "spawned", "up", "failed", "gone"}]
          /\ sip \in [Gen -> {"none", "up", "gone"}]
          /\ applied \in [Proto -> {"ok", "failed", "dropped"}]
      BY DEF Init
    <3>4. QED
      BY <3>1, <3>2, <3>3 DEF Init, DataTyped
  <2>3. QED
    BY <2>1, <2>2 DEF Shape
<1>5. CallInv
  BY <1>3, BothAre
  DEF Init, CallInv, Mutex, TogglesHead, TogglesRow, BootOrder, Users, Inside, Toggling, OnvifSteps,
      GbSteps
<1>6. Stopped /\ GbPhase
  BY DEF Init, Stopped, GbPhase, GbOff, Running, Users, Proto
<1>7. RowIsApplied
  <2>1. \A p \in Proto : Pending(p)
    <3>1. lock = Boot /\ Len(todo[Boot]) = 2
      BY <1>3, BothAre DEF Init
    <3>2. todo[Boot][1].p = "onvif" /\ todo[Boot][2].p = "gb28181"
      BY <1>3, BothAre
    <3>3. QED
      BY <3>1, <3>2 DEF Pending, Proto
  <2>2. QED
    BY <2>1 DEF RowIsApplied, Busy
<1>8. FinalStops
  <2>1. todo[Final] = <<>> /\ pc[Final] = "idle"
    BY <1>1 DEF Init, Users
  <2>2. QED
    BY <2>1, EmptySeq DEF FinalStops
<1>9. StartsWanted
  BY DEF Init, StartsWanted
<1>10. QED
  BY <1>4, <1>5, <1>6, <1>7, <1>8, <1>9 DEF IInv

-----------------------------------------------------------------------------
(* What a step does to its call                                            *)

\* A toggle goes on.
Inner(c) ==
    \E x \in Toggling :
        /\ (pc[c] \in OnvifSteps /\ x \in OnvifSteps) \/ (pc[c] \in GbSteps /\ x \in GbSteps)
        /\ x \in {"onvif.ready", "gb.spawn"} => Wanted(c)
        /\ pc' = [pc EXCEPT ![c] = x]
        /\ UNCHANGED <<store, lock, todo>>

\* A toggle ends.
Ends(c) ==
    /\ pc[c] \in Toggling
    /\ pc' = [pc EXCEPT ![c] = "section"]
    /\ todo' = [todo EXCEPT ![c] = Tail(@)]
    /\ UNCHANGED <<store, lock>>

\* The call is over.
Leaves(c) ==
    /\ pc[c] \in Inside
    /\ pc' = [pc EXCEPT ![c] = "done"]
    /\ lock' = None
    /\ UNCHANGED <<store, todo>>

\* The steps in the middle of a toggle.
LEMMA InnerSteps ==
  ASSUME NEW c \in Users,
         \/ StopOnvif(c) \/ JoinOnvif(c) \/ StartOnvif(c)
         \/ StopGb(c) \/ JoinGb(c) \/ StartGb(c)
  PROVE  Inner(c)
<1> USE DEF OnvifSteps, GbSteps, Toggling, Goto
<1>1. CASE StopOnvif(c)
  <2>1. pc' = [pc EXCEPT ![c] = "onvif.start"] \/ pc' = [pc EXCEPT ![c] = "onvif.join"]
    BY <1>1 DEF StopOnvif
  <2>2. pc[c] \in OnvifSteps /\ UNCHANGED <<store, lock, todo>>
    BY <1>1 DEF StopOnvif
  <2>3. QED
    BY <2>1, <2>2 DEF Inner
<1>2. CASE JoinOnvif(c) \/ StartOnvif(c)
  BY <1>2 DEF JoinOnvif, StartOnvif, Inner
<1>3. CASE StopGb(c)
  <2>1. pc' = [pc EXCEPT ![c] = "gb.start"] \/ pc' = [pc EXCEPT ![c] = "gb.join"]
    BY <1>3 DEF StopGb
  <2>2. pc[c] \in GbSteps /\ UNCHANGED <<store, lock, todo>>
    BY <1>3 DEF StopGb
  <2>3. QED
    BY <2>1, <2>2 DEF Inner
<1>4. CASE JoinGb(c) \/ StartGb(c)
  BY <1>4 DEF JoinGb, StartGb, Inner
<1>5. QED
  BY <1>1, <1>2, <1>3, <1>4

\* The steps at the end of a toggle.
LEMMA EndsSteps ==
  ASSUME NEW c \in Users,
         \/ OnvifStopped(c) \/ MountFails(c) \/ ReadyOk(c) \/ ReadyErr(c)
         \/ GbStopped(c) \/ AuthenticatorFails(c) \/ SpawnOk(c) \/ SpawnErr(c)
  PROVE  Ends(c)
<1> USE DEF OnvifSteps, GbSteps, Toggling, Goto, Toggled
<1>1. CASE OnvifStopped(c) \/ MountFails(c) \/ ReadyOk(c) \/ ReadyErr(c)
  BY <1>1 DEF OnvifStopped, MountFails, ReadyOk, ReadyErr, Ends
<1>2. CASE GbStopped(c) \/ AuthenticatorFails(c) \/ SpawnOk(c) \/ SpawnErr(c)
  BY <1>2 DEF GbStopped, AuthenticatorFails, SpawnOk, SpawnErr, Ends
<1>3. QED
  BY <1>1, <1>2

\* The steps at the end of a call.
LEMMA LeavesSteps ==
  ASSUME NEW c \in Users, SectionBad(c) \/ SectionsDone(c) \/ DropCall(c)
  PROVE  Leaves(c)
  BY DEF SectionBad, SectionsDone, DropCall, Held, Leaves, Unlock, Goto, OnvifSteps, GbSteps, Toggling,
         Inside

\* The steps of the calls, with what they do to the call.
LEMMA CallSteps ==
  ASSUME IInv, Next
  PROVE  \/ \E c \in Calls, body \in Bodies : PutBegin(c, body)
         \/ FinalBegin \/ SectionBoot \/ SectionFinal
         \/ \E c \in Users : Lock(c) \/ SectionPut(c) \/ DropWaiting(c)
         \/ \E c \in Users : Inner(c) \/ Ends(c) \/ Leaves(c)
         \/ UNCHANGED <<store, lock, pc, todo>>
<1>1. CASE \E c \in Users : Apply(c) \/ DropCall(c) \/ DropWaiting(c)
  BY <1>1, InnerSteps, EndsSteps, LeavesSteps DEF Apply
<1>2. CASE \E g \in Gen : SoapBind(g) \/ SoapExit(g) \/ Invite(g) \/ Bye(g)
  BY <1>2 DEF SoapBind, SoapExit, Invite, Bye, callVars
<1>3. QED
  BY <1>1, <1>2 DEF Next

\* The calls' types, the mutex, the head of the sections and the boot's order
\* survive every step.
LEMMA StepCall ==
  ASSUME IInv, Next
  PROVE  CallTyped' /\ CallInv'
<1>0. CallTyped /\ Mutex /\ TogglesHead /\ TogglesRow /\ BootOrder
  BY DEF IInv, Shape, CallInv
<1> USE RuntimeAssumption, <1>0 DEF RuntimeAssumption, CallTyped
<1>a. \A t \in Seq(Section) : t # <<>> => Head(t) \in Section /\ Tail(t) \in Seq(Section)
  BY HeadTailProperties
<1>1. ASSUME NEW c \in Calls, NEW body \in Bodies, PutBegin(c, body)
      PROVE  CallTyped' /\ CallInv'
  <2>1. CallTyped'
    BY <1>1 DEF PutBegin, Goto, Steps, Users
  <2>2. Mutex'
    BY <1>1 DEF PutBegin, Goto, Mutex, Inside, Toggling, OnvifSteps, GbSteps, Users
  <2>3. TogglesHead' /\ TogglesRow'
    BY <1>1 DEF PutBegin, Goto, TogglesHead, TogglesRow, Toggling, OnvifSteps, GbSteps, Users
  <2>4. BootOrder'
    BY <1>1 DEF PutBegin, Goto, BootOrder, Users
  <2>5. QED
    BY <2>1, <2>2, <2>3, <2>4 DEF CallInv
<1>2. ASSUME FinalBegin
      PROVE  CallTyped' /\ CallInv'
  <2>0. todo' = [todo EXCEPT ![Final] = Both(FALSE)] /\ Both(FALSE) \in Seq(Section)
    BY <1>2, BothAre DEF FinalBegin, Both
  <2>a. pc' = [pc EXCEPT ![Final] = "lock"] /\ UNCHANGED <<store, lock>>
    BY <1>2 DEF FinalBegin, Goto
  <2>1. CallTyped'
    BY <2>a, <2>0 DEF Steps, Users
  <2>2. Mutex'
    BY <1>2, <2>0 DEF FinalBegin, Goto, Mutex, Inside, Toggling, OnvifSteps, GbSteps, Users
  <2>3. TogglesHead' /\ TogglesRow'
    BY <1>2, <2>0 DEF FinalBegin, Goto, TogglesHead, TogglesRow, Toggling, OnvifSteps, GbSteps, Users
  <2>4. BootOrder'
    BY <1>2, <2>0 DEF FinalBegin, Goto, BootOrder, Users
  <2>5. QED
    BY <2>1, <2>2, <2>3, <2>4 DEF CallInv
<1>3. ASSUME NEW c \in Users, Lock(c) \/ DropWaiting(c)
      PROVE  CallTyped' /\ CallInv'
  <2>1. CallTyped'
    BY <1>3 DEF Lock, DropWaiting, Goto, Steps
  <2>2. Mutex'
    BY <1>3 DEF Lock, DropWaiting, Goto, Mutex, Inside, Toggling, OnvifSteps, GbSteps, Users
  <2>3. TogglesHead' /\ TogglesRow'
    BY <1>3 DEF Lock, DropWaiting, Goto, TogglesHead, TogglesRow, Toggling, OnvifSteps, GbSteps
  <2>4. BootOrder'
    BY <1>3 DEF Lock, DropWaiting, Goto, BootOrder, Inside, Toggling, OnvifSteps, GbSteps, Users
  <2>5. QED
    BY <2>1, <2>2, <2>3, <2>4 DEF CallInv
<1>4. ASSUME NEW c \in Users, SectionPut(c)
      PROVE  CallTyped' /\ CallInv'
  <2>1. PICK s \in Section : s = Head(todo[c])
    BY <1>4, <1>a DEF SectionPut
  <2>2. PICK d \in Doc : d = Merged(s, store[s.p])
    BY <2>1, MergedIs DEF Section
  <2>3. PICK r \in Section : /\ r = Resolved(s, d)
                             /\ r.p = s.p /\ r.enabled = d.enabled /\ r.secret = d.secret
    BY ResolvedIs
  <2>4. PICK t \in Seq(Section) : t = [todo[c] EXCEPT ![1] = r] /\ t # <<>> /\ Head(t) = r
    BY <1>4, HeadReplaced DEF SectionPut
  <2>5. /\ c \in Calls /\ pc[c] = "section" /\ s.p \in Proto
        /\ store' = [store EXCEPT ![s.p] = d]
        /\ todo' = [todo EXCEPT ![c] = t]
        /\ lock' = lock
    BY <1>4, <2>1, <2>2, <2>3, <2>4 DEF SectionPut, Section
  <2>6. PICK x \in Toggling : /\ pc' = [pc EXCEPT ![c] = x]
                              /\ x \in OnvifSteps <=> s.p = "onvif"
                              /\ x \in GbSteps <=> s.p = "gb28181"
    BY <1>4, <2>1, <2>5, StopStepIs DEF SectionPut, Goto
  <2>7. CallTyped'
    BY <2>5, <2>6 DEF Steps, Toggling, OnvifSteps, GbSteps
  <2>8. Mutex'
    BY <2>5, <2>6 DEF Mutex, Inside
  <2>9. \A e \in Users : e # c => pc[e] \notin Toggling /\ pc'[e] = pc[e] /\ todo'[e] = todo[e]
    BY <2>5, <2>6 DEF Mutex, Inside
  <2>10. pc'[c] = x /\ todo'[c] = t /\ store'[s.p] = d
    BY <2>5, <2>6 DEF Users
  <2>11. TogglesHead'
    <3>1. \A e \in Users : e # c => pc'[e] \notin OnvifSteps /\ pc'[e] \notin GbSteps /\ pc'[e] \notin Toggling
      BY <2>9 DEF Toggling
    <3>2. todo'[c] # <<>> /\ Head(todo'[c]).p = s.p
      BY <2>3, <2>4, <2>10
    <3>3. QED
      BY <2>6, <2>10, <3>1, <3>2 DEF TogglesHead
  <2>12. TogglesRow'
    <3>1. \A e \in Users : e # c => pc'[e] \notin Toggling
      BY <2>9
    <3>2. Head(todo'[c]) = r
      BY <2>4, <2>10
    <3>3. QED
      BY <2>3, <2>10, <3>1, <3>2 DEF TogglesRow
  <2>13. BootOrder'
    BY <2>5, <2>6 DEF BootOrder, Mutex, Inside, Users
  <2>14. QED
    BY <2>7, <2>8, <2>11, <2>12, <2>13 DEF CallInv
<1>5. ASSUME SectionBoot
      PROVE  CallTyped' /\ CallInv'
  <2>0. Boot \in Users /\ pc[Boot] = "section" /\ todo[Boot] # <<>> /\ lock = Boot
    BY <1>5 DEF SectionBoot, Users, Mutex, Inside
  <2>1. PICK s \in Section : s = Head(todo[Boot]) /\ s = todo[Boot][1]
    BY <2>0, <1>a
  <2>2. CASE store[s.p].enabled
    <3>1. PICK d \in Doc : d = store[s.p] /\ s.p \in Proto
      BY DEF Section
    <3>2. PICK r \in Section : /\ r = Resolved(s, d)
                               /\ r.p = s.p /\ r.enabled = d.enabled /\ r.secret = d.secret
      BY ResolvedIs
    <3>3. PICK t \in Seq(Section) : /\ t = [todo[Boot] EXCEPT ![1] = r] /\ t # <<>> /\ Head(t) = r
                                    /\ Len(t) = Len(todo[Boot]) /\ t[1].p = todo[Boot][1].p
                                    /\ Len(t) = 2 => t[2] = todo[Boot][2]
      <4>1. todo[Boot] \in Seq(Section) /\ Len(todo[Boot]) \in Nat \ {0}
        BY <2>0, EmptySeq
      <4>a. PICK q \in Seq(Section) : q = todo[Boot]
        BY <4>1
      <4>b. /\ [q EXCEPT ![1] = r] \in Seq(Section) /\ [q EXCEPT ![1] = r] # <<>>
            /\ Head([q EXCEPT ![1] = r]) = r
            /\ Len([q EXCEPT ![1] = r]) = Len(q)
            /\ \A i \in 1 .. Len(q) : [q EXCEPT ![1] = r][i] = IF i = 1 THEN r ELSE q[i]
        BY <4>a, <2>0, HeadReplaced
      <4>c. PICK t \in Seq(Section) :
              /\ t = [q EXCEPT ![1] = r] /\ t # <<>> /\ Head(t) = r
              /\ Len(t) = Len(q)
              /\ \A i \in 1 .. Len(q) : t[i] = IF i = 1 THEN r ELSE q[i]
        BY <4>b, Zenon
      <4>2. /\ t = [todo[Boot] EXCEPT ![1] = r] /\ t # <<>> /\ Head(t) = r
            /\ Len(t) = Len(todo[Boot])
            /\ \A i \in 1 .. Len(todo[Boot]) : t[i] = IF i = 1 THEN r ELSE todo[Boot][i]
        BY <4>a, <4>c
      <4>3. t[1] = r
        BY <4>1, <4>2
      <4>4. Len(t) = 2 => t[2] = todo[Boot][2]
        BY <4>1, <4>2
      <4>5. QED
        BY <4>2, <4>3, <4>4, <2>1, <3>2
    <3>4. store' = store /\ lock' = lock /\ todo' = [todo EXCEPT ![Boot] = t]
      BY <1>5, <2>1, <2>2, <3>1, <3>2, <3>3 DEF SectionBoot
    <3>5. PICK x \in Toggling : /\ pc' = [pc EXCEPT ![Boot] = x]
                                /\ x \in OnvifSteps <=> s.p = "onvif"
                                /\ x \in GbSteps <=> s.p = "gb28181"
      BY <1>5, <2>1, <2>2, <3>1, StopStepIs DEF SectionBoot, Goto
    <3>6. CallTyped'
      BY <2>0, <3>4, <3>5 DEF Steps, Toggling, OnvifSteps, GbSteps
    <3>7. Mutex'
      BY <2>0, <3>4, <3>5 DEF Mutex, Inside
    <3>8. \A e \in Users : e # Boot => pc[e] \notin Toggling /\ pc'[e] = pc[e] /\ todo'[e] = todo[e]
      BY <2>0, <3>4, <3>5 DEF Mutex, Inside
    <3>9. pc'[Boot] = x /\ todo'[Boot] = t
      BY <2>0, <3>4, <3>5
    <3>10. TogglesHead'
      BY <3>2, <3>3, <3>5, <3>8, <3>9 DEF TogglesHead, Toggling
    <3>11. TogglesRow'
      BY <3>1, <3>2, <3>3, <3>4, <3>8, <3>9 DEF TogglesRow
    <3>12. BootOrder'
      BY <2>0, <3>3, <3>4, <3>9 DEF BootOrder, Inside
    <3>13. QED
      BY <3>6, <3>7, <3>10, <3>11, <3>12 DEF CallInv
  <2>3. CASE ~store[s.p].enabled
    <3>1. /\ todo' = [todo EXCEPT ![Boot] = Tail(@)]
          /\ UNCHANGED <<store, lock, pc>>
      BY <1>5, <2>1, <2>3 DEF SectionBoot
    <3>2. CallTyped'
      BY <2>0, <1>a, <3>1
    <3>3. Mutex' /\ TogglesHead' /\ TogglesRow'
      BY <2>0, <3>1 DEF Mutex, TogglesHead, TogglesRow, Toggling, OnvifSteps, GbSteps
    <3>4. BootOrder'
      BY <2>0, <3>1, BootTail DEF BootOrder
    <3>5. QED
      BY <3>2, <3>3, <3>4 DEF CallInv
  <2>4. QED
    BY <2>2, <2>3 DEF CallInv
<1>6. ASSUME SectionFinal
      PROVE  CallTyped' /\ CallInv'
  <2>0. Final \in Users /\ pc[Final] = "section" /\ todo[Final] # <<>> /\ UNCHANGED <<store, lock, todo>>
    BY <1>6 DEF SectionFinal, Users
  <2>1. Head(todo[Final]).p \in Proto
    BY <2>0, <1>a DEF Section
  <2>2. PICK x \in Toggling : /\ pc' = [pc EXCEPT ![Final] = x]
                              /\ x \in OnvifSteps <=> Head(todo[Final]).p = "onvif"
                              /\ x \in GbSteps <=> Head(todo[Final]).p = "gb28181"
    BY <1>6, <2>1, StopStepIs DEF SectionFinal, Goto
  <2>3. CallTyped'
    BY <2>0, <2>2 DEF Steps, Toggling, OnvifSteps, GbSteps
  <2>4. Mutex'
    BY <2>0, <2>2 DEF Mutex, Inside
  <2>5. TogglesHead'
    BY <2>0, <2>2 DEF TogglesHead, Toggling
  <2>6. TogglesRow' /\ BootOrder'
    BY <2>0, <2>2 DEF TogglesRow, BootOrder, Users
  <2>7. QED
    BY <2>3, <2>4, <2>5, <2>6 DEF CallInv
<1>7. ASSUME NEW c \in Users, Inner(c)
      PROVE  CallTyped' /\ CallInv'
  <2>1. PICK x \in Toggling :
          /\ (pc[c] \in OnvifSteps /\ x \in OnvifSteps) \/ (pc[c] \in GbSteps /\ x \in GbSteps)
          /\ pc' = [pc EXCEPT ![c] = x]
          /\ UNCHANGED <<store, lock, todo>>
    BY <1>7 DEF Inner
  <2>2. CallTyped'
    BY <2>1 DEF Steps, Toggling, OnvifSteps, GbSteps
  <2>3. Mutex'
    BY <2>1 DEF Mutex, Inside, Toggling
  <2>4. TogglesHead'
    BY <2>1 DEF TogglesHead, Toggling, OnvifSteps, GbSteps
  <2>5. TogglesRow'
    BY <2>1 DEF TogglesRow, Toggling
  <2>6. BootOrder'
    BY <2>1 DEF BootOrder, Inside, Users
  <2>7. QED
    BY <2>2, <2>3, <2>4, <2>5, <2>6 DEF CallInv
<1>8. ASSUME NEW c \in Users, Ends(c)
      PROVE  CallTyped' /\ CallInv'
  <2>0. todo[c] # <<>> /\ lock = c
    BY <1>8 DEF Ends, TogglesHead, Mutex, Inside
  <2>1. CallTyped'
    BY <1>8, <2>0, <1>a DEF Ends, Steps
  <2>2. Mutex'
    BY <1>8, <2>0 DEF Ends, Mutex, Inside
  <2>3. TogglesHead' /\ TogglesRow'
    BY <1>8 DEF Ends, TogglesHead, TogglesRow, Toggling, OnvifSteps, GbSteps
  <2>4. BootOrder'
    <3>1. CASE c = Boot
      BY <3>1, <1>8, <2>0, BootTail DEF Ends, BootOrder, Inside
    <3>2. CASE c # Boot
      BY <3>2, <1>8, <2>0 DEF Ends, BootOrder, Users
    <3>3. QED
      BY <3>1, <3>2 DEF CallInv
  <2>5. QED
    BY <2>1, <2>2, <2>3, <2>4 DEF CallInv
<1>9. ASSUME NEW c \in Users, Leaves(c)
      PROVE  CallTyped' /\ CallInv'
  <2>1. CallTyped'
    BY <1>9 DEF Leaves, Steps
  <2>2. Mutex'
    BY <1>9 DEF Leaves, Mutex, Inside, Toggling, OnvifSteps, GbSteps, Users
  <2>3. TogglesHead' /\ TogglesRow'
    BY <1>9 DEF Leaves, TogglesHead, TogglesRow, Toggling, OnvifSteps, GbSteps
  <2>4. BootOrder'
    BY <1>9 DEF Leaves, BootOrder, Users
  <2>5. QED
    BY <2>1, <2>2, <2>3, <2>4 DEF CallInv
<1>10. ASSUME UNCHANGED <<store, lock, pc, todo>>
       PROVE  CallTyped' /\ CallInv'
  BY <1>10 DEF CallInv, Mutex, TogglesHead, TogglesRow, BootOrder
<1>11. QED
  BY <1>1, <1>2, <1>3, <1>4, <1>5, <1>6, <1>7, <1>8, <1>9, <1>10, CallSteps

\* The final shutdown still starts nothing.
LEMMA StepFinal ==
  ASSUME IInv, Next
  PROVE  FinalStops'
<1>0. CallTyped /\ Mutex /\ TogglesHead /\ FinalStops
  BY DEF IInv, Shape, CallInv
<1>a. Final \in Users /\ Final \notin Calls /\ Boot # Final
  BY RuntimeAssumption DEF RuntimeAssumption, Users
<1>b. ASSUME pc'[Final] \notin {"onvif.ready", "gb.spawn"}, todo'[Final] = todo[Final]
      PROVE  FinalStops'
  BY <1>0, <1>b DEF FinalStops
<1>1. ASSUME NEW c \in Calls, NEW body \in Bodies, PutBegin(c, body)
      PROVE  FinalStops'
  BY <1>0, <1>a, <1>b, <1>1 DEF PutBegin, Goto, FinalStops, CallTyped, Users
<1>2. ASSUME FinalBegin
      PROVE  FinalStops'
  <2>1. todo' = [todo EXCEPT ![Final] = Both(FALSE)] /\ pc' = [pc EXCEPT ![Final] = "lock"]
    BY <1>2 DEF FinalBegin, Both, Goto
  <2>2. todo'[Final] = Both(FALSE) /\ pc'[Final] = "lock"
    BY <2>1, <1>0, <1>a DEF CallTyped
  <2>3. Len(Both(FALSE)) = 2 /\ ~Both(FALSE)[1].enabled /\ ~Both(FALSE)[2].enabled
    BY BothAre
  <2>4. PICK t \in Seq(Section) : t = Both(FALSE) /\ Len(t) = 2 /\ ~t[1].enabled /\ ~t[2].enabled
    BY <2>3, BothAre
  <2>5. \A i \in 1 .. Len(t) : ~t[i].enabled
    <3>0. \A i \in 1 .. 2 : i = 1 \/ i = 2
      OBVIOUS
    <3>1. \A i \in 1 .. Len(t) : i = 1 \/ i = 2
      BY <2>4, <3>0, Zenon
    <3>2. QED
      BY <2>4, <3>1, Zenon
  <2>6. QED
    BY <2>2, <2>4, <2>5 DEF FinalStops
<1>3. ASSUME SectionBoot
      PROVE  FinalStops'
  <2>1. pc'[Final] = pc[Final] /\ todo'[Final] = todo[Final]
    BY <1>0, <1>a, <1>3 DEF SectionBoot, Goto, CallTyped
  <2>2. QED
    BY <1>0, <1>b, <2>1 DEF FinalStops
<1>4. ASSUME SectionFinal
      PROVE  FinalStops'
  <2>1. pc' = [pc EXCEPT ![Final] = StopStep(Head(todo[Final]).p)] /\ todo' = todo
    BY <1>4 DEF SectionFinal, Goto
  <2>2. pc'[Final] \notin {"onvif.ready", "gb.spawn"}
    BY <1>0, <1>a, <2>1 DEF StopStep, CallTyped
  <2>3. QED
    BY <1>b, <2>1, <2>2
<1>5. ASSUME NEW c \in Users, Lock(c) \/ DropWaiting(c)
      PROVE  FinalStops'
  <2>1. todo'[Final] = todo[Final] /\ pc'[Final] \in {pc[Final], "section", "done"}
    BY <1>0, <1>a, <1>5 DEF Lock, DropWaiting, Goto, CallTyped
  <2>2. QED
    BY <1>0, <1>b, <2>1 DEF FinalStops
<1>6. ASSUME NEW c \in Users, SectionPut(c)
      PROVE  FinalStops'
  <2>1. pc'[Final] = pc[Final] /\ todo'[Final] = todo[Final]
    BY <1>0, <1>a, <1>6 DEF SectionPut, Goto, CallTyped
  <2>2. QED
    BY <1>0, <1>b, <2>1 DEF FinalStops
<1>7. ASSUME NEW c \in Users, Inner(c)
      PROVE  FinalStops'
  <2>1. CASE c # Final
    BY <1>0, <1>a, <1>b, <1>7, <2>1 DEF Inner, CallTyped, FinalStops
  <2>2. CASE c = Final
    <3>1. todo[Final] # <<>>
      BY <1>7, <1>0, <2>2 DEF Inner, TogglesHead, Toggling
    <3>2. ~Wanted(Final)
      BY <1>0, <1>a, <3>1, EmptySeq DEF Wanted, FinalStops, CallTyped
    <3>3. PICK x \in Toggling : x \notin {"onvif.ready", "gb.spawn"} /\ pc' = [pc EXCEPT ![Final] = x] /\ todo' = todo
      BY <1>7, <2>2, <3>2 DEF Inner
    <3>4. QED
      BY <1>0, <1>a, <1>b, <3>3 DEF CallTyped
  <2>3. QED
    BY <2>1, <2>2
<1>8. ASSUME NEW c \in Users, Ends(c)
      PROVE  FinalStops'
  <2>1. CASE c # Final
    BY <1>0, <1>a, <1>b, <1>8, <2>1 DEF Ends, CallTyped, FinalStops
  <2>2. CASE c = Final
    <3>1. PICK t \in Seq(Section) : t = todo[Final] /\ t # <<>>
      BY <1>8, <1>0, <1>a, <2>2 DEF Ends, TogglesHead, CallTyped
    <3>2. /\ Tail(t) \in Seq(Section) /\ Len(Tail(t)) = Len(t) - 1 /\ Len(t) \in Nat
          /\ \A i \in 1 .. Len(Tail(t)) : Tail(t)[i] = t[i + 1]
      BY <3>1, HeadTailProperties
    <3>3. \A i \in 1 .. Len(Tail(t)) : ~Tail(t)[i].enabled
      <4>1. PICK n \in Nat : n = Len(t) /\ Len(Tail(t)) = n - 1
        BY <3>2
      <4>2. \A i \in 1 .. n : ~t[i].enabled
        BY <1>0, <3>1, <4>1 DEF FinalStops
      <4>3. \A i \in 1 .. n - 1 : i + 1 \in 1 .. n
        OBVIOUS
      <4>4. QED
        BY <3>2, <4>1, <4>2, <4>3, Zenon
    <3>4. todo'[Final] = Tail(t) /\ pc'[Final] = "section"
      BY <1>0, <1>a, <1>8, <2>2, <3>1 DEF Ends, CallTyped
    <3>5. QED
      BY <3>3, <3>4 DEF FinalStops
  <2>3. QED
    BY <2>1, <2>2
<1>9. ASSUME NEW c \in Users, Leaves(c)
      PROVE  FinalStops'
  <2>1. todo'[Final] = todo[Final] /\ pc'[Final] \in {pc[Final], "done"}
    BY <1>0, <1>a, <1>9 DEF Leaves, CallTyped
  <2>2. QED
    BY <1>0, <1>b, <2>1 DEF FinalStops
<1>10. ASSUME UNCHANGED <<store, lock, pc, todo>>
       PROVE  FinalStops'
  BY <1>0, <1>b, <1>10 DEF FinalStops
<1>11. QED
  BY <1>1, <1>2, <1>3, <1>4, <1>5, <1>6, <1>7, <1>8, <1>9, <1>10, CallSteps

\* What is being started is still what was asked for.
LEMMA StepWanted ==
  ASSUME IInv, Next
  PROVE  StartsWanted'
<1>0. CallTyped /\ StartsWanted
  BY DEF IInv, Shape
<1>a. Final \in Users /\ Boot \in Users /\ Calls \subseteq Users
  BY DEF Users
<1>b. \A p : StopStep(p) \in {"onvif.stop", "gb.stop"}
  BY DEF StopStep
<1>1. ASSUME NEW c \in Users,
             pc'[c] \in {"onvif.ready", "gb.spawn"} => Wanted(c)',
             \A e \in Users : e # c => pc'[e] = pc[e] /\ todo'[e] = todo[e]
      PROVE  StartsWanted'
  BY <1>0, <1>1 DEF StartsWanted, Wanted
<1>2. ASSUME NEW c \in Calls, NEW body \in Bodies, PutBegin(c, body)
      PROVE  StartsWanted'
  <2>1. pc'[c] = "lock" /\ \A e \in Users : e # c => pc'[e] = pc[e] /\ todo'[e] = todo[e]
    BY <1>0, <1>a, <1>2 DEF PutBegin, Goto, CallTyped
  <2>2. QED
    BY <1>1, <1>a, <2>1
<1>3. ASSUME FinalBegin
      PROVE  StartsWanted'
  <2>1. pc'[Final] = "lock" /\ \A e \in Users : e # Final => pc'[e] = pc[e] /\ todo'[e] = todo[e]
    BY <1>0, <1>a, <1>3 DEF FinalBegin, Goto, CallTyped
  <2>2. QED
    BY <1>1, <1>a, <2>1
<1>4. ASSUME SectionBoot
      PROVE  StartsWanted'
  <2>1. /\ pc'[Boot] \in {"onvif.stop", "gb.stop", "section"}
        /\ \A e \in Users : e # Boot => pc'[e] = pc[e] /\ todo'[e] = todo[e]
    BY <1>0, <1>a, <1>b, <1>4 DEF SectionBoot, Goto, CallTyped
  <2>2. QED
    BY <1>1, <1>a, <2>1
<1>5. ASSUME SectionFinal
      PROVE  StartsWanted'
  <2>1. /\ pc'[Final] \in {"onvif.stop", "gb.stop"}
        /\ \A e \in Users : e # Final => pc'[e] = pc[e] /\ todo'[e] = todo[e]
    BY <1>0, <1>a, <1>b, <1>5 DEF SectionFinal, Goto, CallTyped
  <2>2. QED
    BY <1>1, <1>a, <2>1
<1>6. ASSUME NEW c \in Users, Lock(c) \/ SectionPut(c) \/ DropWaiting(c) \/ Ends(c) \/ Leaves(c)
      PROVE  StartsWanted'
  <2>1. /\ pc'[c] \in {"section", "onvif.stop", "gb.stop", "done"}
        /\ \A e \in Users : e # c => pc'[e] = pc[e] /\ todo'[e] = todo[e]
    BY <1>0, <1>b, <1>6 DEF Lock, SectionPut, DropWaiting, Ends, Leaves, Goto, CallTyped
  <2>2. QED
    BY <1>1, <2>1
<1>7. ASSUME NEW c \in Users, Inner(c)
      PROVE  StartsWanted'
  <2>1. /\ pc'[c] \in {"onvif.ready", "gb.spawn"} => Wanted(c)'
        /\ \A e \in Users : e # c => pc'[e] = pc[e] /\ todo'[e] = todo[e]
    BY <1>0, <1>7 DEF Inner, Wanted, CallTyped
  <2>2. QED
    BY <1>1, <2>1
<1>8. ASSUME UNCHANGED <<store, lock, pc, todo>>
      PROVE  StartsWanted'
  BY <1>0, <1>8 DEF StartsWanted, Wanted
<1>9. QED
  BY <1>2, <1>3, <1>4, <1>5, <1>6, <1>7, <1>8, CallSteps

\* A server is spawned with the secret of the row.
LEMMA SpawnSecret ==
  ASSUME IInv, NEW c \in Users, SpawnOk(c)
  PROVE  /\ Head(todo[c]).secret = store["gb28181"].secret
         /\ Head(todo[c]).secret \in Secrets
<1>1. pc[c] = "gb.spawn" /\ c # Final
  BY DEF SpawnOk, IInv, FinalStops
<1>2. Head(todo[c]).p = "gb28181"
  BY <1>1 DEF IInv, CallInv, TogglesHead, GbSteps
<1>3. Head(todo[c]).secret = store["gb28181"].secret
  BY <1>1, <1>2 DEF IInv, CallInv, TogglesRow, Toggling, GbSteps
<1>4. store["gb28181"] \in Doc
  BY DEF IInv, Shape, CallTyped, Proto
<1>5. QED
  BY <1>3, <1>4 DEF Doc

-----------------------------------------------------------------------------
(* What a step does to the protocols                                       *)

\* A start takes a new generation.
LEMMA NewGen ==
  ASSUME gen \in Opt, gen < MaxGen
  PROVE  gen + 1 \in Gen /\ gen + 1 \in Opt /\ gen + 1 # 0
  BY RuntimeAssumption DEF RuntimeAssumption, Gen, Opt

\* The types of the protocols' state survive every step.
LEMMA StepData ==
  ASSUME IInv, Next
  PROVE  DataTyped'
<1>0. DataTyped /\ CallTyped /\ TogglesHead
  BY DEF IInv, Shape, CallInv
<1>a. 0 \in Opt /\ Gen \subseteq Opt /\ \A x \in Opt : x # 0 => x \in Gen
  BY RuntimeAssumption DEF RuntimeAssumption, Gen, Opt
<1>b. \A c \in Users : todo[c] # <<>> => Head(todo[c]) \in Section
  BY <1>0, HeadTailProperties DEF CallTyped
<1>c. \A c \in Users : todo[c] # <<>> =>
        /\ Head(todo[c]).p \in Proto
        /\ Head(todo[c]).secret \in Secrets \cup {Redacted}
  BY <1>b DEF Section
<1>d. \A c \in Users : pc[c] \in Toggling => todo[c] # <<>>
  BY <1>0 DEF TogglesHead
<1>e. ASSUME NEW c \in Users, pc[c] \in Toggling, NEW how \in {"ok", "failed"}, Toggled(c, how)
      PROVE  applied' \in [Proto -> {"ok", "failed", "dropped"}]
  BY <1>0, <1>c, <1>d, <1>e DEF Toggled, DataTyped
<1> DEFINE Same == UNCHANGED <<gen, joining, applied, dropped, onvifVars, gbVars>>
<1>1. CASE \/ \E c \in Calls, body \in Bodies : PutBegin(c, body)
           \/ FinalBegin \/ SectionBoot \/ SectionFinal
           \/ \E c \in Users : Lock(c) \/ SectionPut(c) \/ DropWaiting(c) \/ SectionBad(c) \/ SectionsDone(c)
  <2>1. Same
    BY <1>1 DEF PutBegin, FinalBegin, SectionBoot, SectionFinal, Lock, SectionPut, DropWaiting,
                SectionBad, SectionsDone
  <2>2. QED
    BY <1>0, <2>1 DEF DataTyped, onvifVars, gbVars
<1>2. ASSUME NEW g \in Gen, SoapBind(g) \/ SoapExit(g) \/ Invite(g) \/ Bye(g)
      PROVE  DataTyped'
  <2>1. UNCHANGED <<gen, joining, applied, dropped, onvif, told, announcing, gb, sip, mic>>
    BY <1>2 DEF SoapBind, SoapExit, Invite, Bye, callVars, onvifVars, gbVars
  <2>2. /\ soap' \in [Gen -> {"none", "spawned", "up", "failed", "gone"}]
        /\ bridged' \subseteq Gen
    BY <1>0, <1>2 DEF DataTyped, SoapBind, SoapExit, Invite, Bye, onvifVars, gbVars
  <2>3. QED
    BY <1>0, <2>1, <2>2 DEF DataTyped
<1>3. ASSUME NEW c \in Users, DropCall(c)
      PROVE  DataTyped'
  <2>1. UNCHANGED <<gen, onvif, soap, told, announcing, gb, bridged>>
    BY <1>3 DEF DropCall, onvifVars
  <2>2. sip' \in [Gen -> {"none", "up", "gone"}] /\ mic' \subseteq Gen /\ joining' \in Opt
    BY <1>0, <1>a, <1>3 DEF DataTyped, DropCall
  <2>3. applied' \in [Proto -> {"ok", "failed", "dropped"}] /\ dropped' \subseteq Proto
    BY <1>0, <1>c, <1>3 DEF DataTyped, DropCall
  <2>4. QED
    BY <1>0, <2>1, <2>2, <2>3 DEF DataTyped
<1>4. ASSUME NEW c \in Users, StopOnvif(c)
      PROVE  DataTyped'
  <2>1. UNCHANGED <<gen, applied, dropped, soap, gb, sip, mic, bridged>>
    BY <1>4 DEF StopOnvif, gbVars
  <2>2. onvif' \in [handle : Opt, discovery : Opt, tx : Opt, events : Opt] /\ joining' \in Opt
    BY <1>0, <1>a, <1>4 DEF DataTyped, StopOnvif
  <2>3. told' \subseteq Gen /\ announcing' \subseteq Gen
    BY <1>0, <1>a, <1>4 DEF DataTyped, StopOnvif
  <2>4. QED
    BY <1>0, <2>1, <2>2, <2>3 DEF DataTyped
<1>5. ASSUME NEW c \in Users, JoinOnvif(c)
      PROVE  DataTyped'
  BY <1>0, <1>a, <1>5 DEF DataTyped, JoinOnvif, gbVars
<1>6. ASSUME NEW c \in Users, OnvifStopped(c) \/ GbStopped(c) \/ AuthenticatorFails(c)
      PROVE  DataTyped'
  <2>1. UNCHANGED <<gen, joining, dropped, onvifVars, gbVars>>
    BY <1>6 DEF OnvifStopped, GbStopped, AuthenticatorFails
  <2>2. applied' \in [Proto -> {"ok", "failed", "dropped"}]
    BY <1>6, <1>e DEF OnvifStopped, GbStopped, AuthenticatorFails, Toggling, OnvifSteps, GbSteps
  <2>3. QED
    BY <1>0, <2>1, <2>2 DEF DataTyped, onvifVars, gbVars
<1>7. ASSUME NEW c \in Users, StartOnvif(c)
      PROVE  DataTyped'
  <2>1. gen + 1 \in Gen /\ gen + 1 \in Opt
    BY <1>0, <1>7, NewGen DEF StartOnvif, DataTyped
  <2>2. UNCHANGED <<applied, dropped, told, gb, sip, mic, bridged>>
    BY <1>7 DEF StartOnvif, gbVars
  <2>3. /\ onvif' \in [handle : Opt, discovery : Opt, tx : Opt, events : Opt]
        /\ soap' \in [Gen -> {"none", "spawned", "up", "failed", "gone"}]
        /\ announcing' \subseteq Gen /\ joining' \in Opt /\ gen' \in Opt
    BY <1>0, <1>7, <2>1 DEF StartOnvif, DataTyped
  <2>4. QED
    BY <1>0, <2>2, <2>3 DEF DataTyped
<1>8. ASSUME NEW c \in Users, MountFails(c)
      PROVE  DataTyped'
  <2>1. gen + 1 \in Opt
    BY <1>0, <1>8, NewGen DEF MountFails, DataTyped
  <2>2. UNCHANGED <<dropped, joining, soap, told, announcing, gb, sip, mic, bridged>>
    BY <1>8 DEF MountFails, gbVars
  <2>3. onvif' \in [handle : Opt, discovery : Opt, tx : Opt, events : Opt] /\ gen' \in Opt
    BY <1>0, <1>8, <2>1 DEF MountFails, DataTyped
  <2>4. applied' \in [Proto -> {"ok", "failed", "dropped"}]
    BY <1>8, <1>e DEF MountFails, Toggling, OnvifSteps
  <2>5. QED
    BY <1>0, <2>2, <2>3, <2>4 DEF DataTyped
<1>9. ASSUME NEW c \in Users, ReadyOk(c) \/ ReadyErr(c)
      PROVE  DataTyped'
  <2>1. UNCHANGED <<gen, dropped, told, announcing, gb, sip, mic, bridged>>
    BY <1>9 DEF ReadyOk, ReadyErr, gbVars
  <2>2. /\ onvif' \in [handle : Opt, discovery : Opt, tx : Opt, events : Opt]
        /\ soap' \in [Gen -> {"none", "spawned", "up", "failed", "gone"}]
        /\ joining' \in Opt
    BY <1>0, <1>a, <1>9 DEF ReadyOk, ReadyErr, DataTyped
  <2>3. applied' \in [Proto -> {"ok", "failed", "dropped"}]
    BY <1>9, <1>e DEF ReadyOk, ReadyErr, Toggling, OnvifSteps
  <2>4. QED
    BY <1>0, <2>1, <2>2, <2>3 DEF DataTyped
<1>10. ASSUME NEW c \in Users, StopGb(c) \/ JoinGb(c)
       PROVE  DataTyped'
  <2>1. UNCHANGED <<gen, applied, dropped, onvif, soap, told, announcing>>
    BY <1>10 DEF StopGb, JoinGb, onvifVars
  <2>2. gb' \in [server : Opt, source : Opt, notifier : Opt, audio : Opt, secret : Secrets \cup {None}]
    BY <1>0, <1>a, <1>10 DEF StopGb, JoinGb, DataTyped
  <2>3. sip' \in [Gen -> {"none", "up", "gone"}] /\ mic' \subseteq Gen /\ bridged' \subseteq Gen /\ joining' \in Opt
    BY <1>0, <1>a, <1>10 DEF StopGb, JoinGb, DataTyped
  <2>4. QED
    BY <1>0, <2>1, <2>2, <2>3 DEF DataTyped
<1>11. ASSUME NEW c \in Users, StartGb(c)
       PROVE  DataTyped'
  <2>1. gen + 1 \in Gen /\ gen + 1 \in Opt
    BY <1>0, <1>11, NewGen DEF StartGb, DataTyped
  <2>2. UNCHANGED <<applied, dropped, onvif, soap, told, announcing, sip, bridged>>
    BY <1>11 DEF StartGb, onvifVars
  <2>3. gb' \in [server : Opt, source : Opt, notifier : Opt, audio : Opt, secret : Secrets \cup {None}]
    BY <1>0, <1>11, <2>1 DEF StartGb, DataTyped
  <2>4. mic' \subseteq Gen /\ joining' \in Opt /\ gen' \in Opt
    BY <1>0, <1>11, <2>1 DEF StartGb, DataTyped
  <2>5. QED
    BY <1>0, <2>2, <2>3, <2>4 DEF DataTyped
<1>12. ASSUME NEW c \in Users, SpawnOk(c)
       PROVE  DataTyped'
  <2>1. UNCHANGED <<gen, dropped, onvif, soap, told, announcing, bridged>>
    BY <1>12 DEF SpawnOk, onvifVars
  <2>2. Head(todo[c]).secret \in Secrets
    BY <1>12, SpawnSecret
  <2>3. gb' \in [server : Opt, source : Opt, notifier : Opt, audio : Opt, secret : Secrets \cup {None}]
    BY <1>0, <1>a, <1>12, <2>2 DEF SpawnOk, DataTyped
  <2>4. sip' \in [Gen -> {"none", "up", "gone"}] /\ mic' \subseteq Gen /\ joining' \in Opt
    BY <1>0, <1>a, <1>12 DEF SpawnOk, DataTyped
  <2>5. applied' \in [Proto -> {"ok", "failed", "dropped"}]
    BY <1>12, <1>e DEF SpawnOk, Toggling, GbSteps
  <2>6. QED
    BY <1>0, <2>1, <2>3, <2>4, <2>5 DEF DataTyped
<1>13. ASSUME NEW c \in Users, SpawnErr(c)
       PROVE  DataTyped'
  <2>1. UNCHANGED <<gen, dropped, onvif, soap, told, announcing, sip, bridged>>
    BY <1>13 DEF SpawnErr, onvifVars
  <2>2. gb' \in [server : Opt, source : Opt, notifier : Opt, audio : Opt, secret : Secrets \cup {None}]
    BY <1>0, <1>a, <1>13 DEF SpawnErr, DataTyped
  <2>3. mic' \subseteq Gen /\ joining' \in Opt
    BY <1>0, <1>a, <1>13 DEF SpawnErr, DataTyped
  <2>4. applied' \in [Proto -> {"ok", "failed", "dropped"}]
    BY <1>13, <1>e DEF SpawnErr, Toggling, GbSteps
  <2>5. QED
    BY <1>0, <2>1, <2>2, <2>3, <2>4 DEF DataTyped
<1>14. QED
  BY <1>1, <1>2, <1>3, <1>4, <1>5, <1>6, <1>7, <1>8, <1>9, <1>10, <1>11, <1>12, <1>13 DEF Next, Apply

-----------------------------------------------------------------------------
(* What runs                                                               *)

\* Whoever is inside is there alone.
LEMMA Alone ==
  ASSUME IInv, NEW c \in Users, pc[c] \in Inside
  PROVE  /\ lock = c
         /\ \A e \in Users : e # c => pc[e] \notin Inside
  BY DEF IInv, CallInv, Mutex

\* A protocol the boot has not come to was never come to before.
LEMMA StepPending ==
  ASSUME IInv, Next
  PROVE  \A p \in Proto : Pending(p)' => Pending(p)
<1>0. CallTyped /\ Mutex /\ TogglesHead /\ BootOrder
  BY DEF IInv, Shape, CallInv
<1>a. Boot \in Users /\ Boot \notin Calls /\ Boot # Final /\ None # Boot
  BY RuntimeAssumption DEF RuntimeAssumption, Users
<1>b. ASSUME lock' = Boot => lock = Boot, todo'[Boot] = todo[Boot]
      PROVE  \A p \in Proto : Pending(p)' => Pending(p)
  BY <1>b DEF Pending
<1>c. ASSUME lock' = lock, todo[Boot] # <<>>, todo'[Boot] = Tail(todo[Boot])
      PROVE  \A p \in Proto : Pending(p)' => Pending(p)
  <2>1. PICK t \in Seq(Section) : t = todo[Boot] /\ t # <<>>
    BY <1>0, <1>a, <1>c DEF CallTyped
  <2>2. /\ Tail(t) \in Seq(Section) /\ Len(Tail(t)) = Len(t) - 1 /\ Len(t) \in Nat
        /\ \A i \in 1 .. Len(Tail(t)) : Tail(t)[i] = t[i + 1]
    BY <2>1, HeadTailProperties
  <2>3. PICK n \in Nat : n = Len(t) /\ Len(Tail(t)) = n - 1
    BY <2>2
  <2>4. \A i \in 1 .. n - 1 : i + 1 \in 1 .. n
    OBVIOUS
  <2>5. ASSUME NEW p \in Proto, NEW i \in 1 .. Len(Tail(t)), Tail(t)[i].p = p
        PROVE  \E j \in 1 .. Len(t) : t[j].p = p
    BY <2>2, <2>3, <2>4, <2>5, Zenon
  <2>6. QED
    BY <1>c, <2>1, <2>5 DEF Pending
<1>1. ASSUME NEW c \in Calls, NEW body \in Bodies, PutBegin(c, body)
      PROVE  \A p \in Proto : Pending(p)' => Pending(p)
  <2>1. lock' = lock /\ todo'[Boot] = todo[Boot]
    BY <1>0, <1>a, <1>1 DEF PutBegin, CallTyped
  <2>2. QED
    BY <1>b, <2>1
<1>2. ASSUME FinalBegin
      PROVE  \A p \in Proto : Pending(p)' => Pending(p)
  <2>1. lock' = lock /\ todo'[Boot] = todo[Boot]
    BY <1>0, <1>a, <1>2 DEF FinalBegin, CallTyped
  <2>2. QED
    BY <1>b, <2>1
<1>3. ASSUME SectionBoot
      PROVE  \A p \in Proto : Pending(p)' => Pending(p)
  <2>1. PICK t \in Seq(Section) : t = todo[Boot] /\ t # <<>>
    BY <1>0, <1>a, <1>3 DEF SectionBoot, CallTyped
  <2>a. PICK s \in Section : s = Head(t) /\ s = t[1]
    BY <2>1, EmptySeq
  <2>2. s = Head(t) /\ s = t[1] /\ s.p \in Proto
    BY <2>a DEF Section
  <2>3. CASE ~store[s.p].enabled
    BY <1>0, <1>a, <1>c, <1>3, <2>1, <2>2, <2>3 DEF SectionBoot, CallTyped
  <2>4. CASE store[s.p].enabled
    <3>1. PICK r \in Section : r = Resolved(s, store[s.p]) /\ r.p = s.p
      BY <1>0, <2>2, ResolvedIs DEF CallTyped
    <3>2. lock' = lock /\ todo'[Boot] = [t EXCEPT ![1] = r]
      BY <1>0, <1>a, <1>3, <2>1, <2>2, <2>4, <3>1 DEF SectionBoot, CallTyped
    <3>3. /\ Len([t EXCEPT ![1] = r]) = Len(t)
          /\ \A i \in 1 .. Len(t) : [t EXCEPT ![1] = r][i] = IF i = 1 THEN r ELSE t[i]
      BY <2>1, HeadReplaced
    <3>4. PICK u : u = todo'[Boot]
      OBVIOUS
    <3>5. Len(u) = Len(t) /\ \A i \in 1 .. Len(t) : u[i].p = t[i].p
      BY <2>2, <3>1, <3>2, <3>3, <3>4
    <3>6. QED
      BY <2>1, <3>2, <3>4, <3>5 DEF Pending
  <2>5. QED
    BY <2>3, <2>4
<1>4. ASSUME SectionFinal
      PROVE  \A p \in Proto : Pending(p)' => Pending(p)
  BY <1>b, <1>4 DEF SectionFinal
<1>5. ASSUME NEW c \in Users, Lock(c) \/ DropWaiting(c)
      PROVE  \A p \in Proto : Pending(p)' => Pending(p)
  <2>1. c # Boot /\ todo' = todo
    BY <1>0, <1>5 DEF Lock, DropWaiting, BootOrder, Inside, Toggling, OnvifSteps, GbSteps
  <2>2. lock' = Boot => lock = Boot
    BY <1>5, <2>1 DEF Lock, DropWaiting
  <2>3. QED
    BY <1>b, <2>1, <2>2
<1>6. ASSUME NEW c \in Users, SectionPut(c)
      PROVE  \A p \in Proto : Pending(p)' => Pending(p)
  <2>1. lock' = lock /\ todo'[Boot] = todo[Boot]
    BY <1>0, <1>a, <1>6 DEF SectionPut, CallTyped
  <2>2. QED
    BY <1>b, <2>1
<1>7. ASSUME NEW c \in Users, Inner(c)
      PROVE  \A p \in Proto : Pending(p)' => Pending(p)
  BY <1>b, <1>7 DEF Inner
<1>8. ASSUME NEW c \in Users, Ends(c)
      PROVE  \A p \in Proto : Pending(p)' => Pending(p)
  <2>1. CASE c = Boot
    BY <1>0, <1>a, <1>c, <1>8, <2>1 DEF Ends, TogglesHead, CallTyped
  <2>2. CASE c # Boot
    BY <1>0, <1>a, <1>b, <1>8, <2>2 DEF Ends, CallTyped
  <2>3. QED
    BY <2>1, <2>2
<1>9. ASSUME NEW c \in Users, Leaves(c)
      PROVE  \A p \in Proto : Pending(p)' => Pending(p)
  BY <1>a, <1>b, <1>9 DEF Leaves
<1>10. ASSUME UNCHANGED <<store, lock, pc, todo>>
       PROVE  \A p \in Proto : Pending(p)' => Pending(p)
  BY <1>b, <1>10
<1>11. QED
  BY <1>1, <1>2, <1>3, <1>4, <1>5, <1>6, <1>7, <1>8, <1>9, <1>10, CallSteps

\* A protocol whose toggle ended is not one the boot has yet to come to.
LEMMA EndPending ==
  ASSUME IInv, NEW c \in Users, Ends(c)
  PROVE  \A p \in Proto : Pending(p)' => p # Head(todo[c]).p
<1>1. lock = c /\ lock' = c /\ todo[c] # <<>> /\ todo'[c] = Tail(todo[c])
  BY Alone DEF Ends, IInv, Shape, CallTyped, CallInv, TogglesHead, Inside
<1>2. CASE c = Boot
  <2>1. PICK t \in Seq(Section) : t = todo[Boot] /\ t # <<>> /\ todo'[Boot] = Tail(t)
    BY <1>1, <1>2 DEF IInv, Shape, CallTyped
  <2>2. \/ Len(t) = 1 /\ t[1].p = "gb28181"
        \/ Len(t) = 2 /\ t[1].p = "onvif" /\ t[2].p = "gb28181"
    BY <1>1, <1>2, <2>1 DEF IInv, CallInv, BootOrder
  <2>3. \A i \in 1 .. Len(Tail(t)) : Tail(t)[i].p # t[1].p
    BY <2>1, <2>2, BootTail
  <2>4. Head(t) = t[1]
    BY <2>1
  <2>5. QED
    BY <1>2, <2>1, <2>3, <2>4 DEF Pending
<1>3. CASE c # Boot
  BY <1>1, <1>3 DEF Pending
<1>4. QED
  BY <1>2, <1>3

\* What the boot has not come to, and what was stopped, still does not run.
LEMMA StepStopped ==
  ASSUME IInv, Next
  PROVE  Stopped'
<1>0. CallTyped /\ DataTyped /\ Stopped
  BY DEF IInv, Shape
<1>1. \A p \in Proto : Pending(p)' => Pending(p)
  BY StepPending
<1>2. \A p \in Proto : Pending(p) => ~Running(p)
  BY <1>0 DEF Stopped
<1> DEFINE Halted(e) == /\ pc[e] \in {"onvif.join", "onvif.start", "onvif.ready"} => onvif.handle = 0
                        /\ pc[e] \in {"gb.join", "gb.start", "gb.spawn"} => gb.server = 0
                        /\ pc[e] \in {"onvif.join", "onvif.ready", "gb.join", "gb.spawn"} => joining # 0
<1>3. \A e \in Users : Halted(e)
  BY <1>0 DEF Stopped
<1>4. ASSUME \A p \in Proto : Pending(p)' => ~Running(p)', \A e \in Users : Halted(e)'
      PROVE  Stopped'
  BY <1>4 DEF Stopped
\* A step that stops and starts nothing.
<1>5. ASSUME UNCHANGED <<onvif, gb, joining>>,
             \A e \in Users : pc'[e] = pc[e] \/ pc'[e] \in {"idle", "lock", "section", "onvif.stop", "gb.stop", "done"}
      PROVE  Stopped'
  <2>1. \A p \in Proto : Pending(p)' => ~Running(p)'
    BY <1>1, <1>2, <1>5 DEF Running
  <2>2. \A e \in Users : Halted(e)'
    BY <1>3, <1>5
  <2>3. QED
    BY <1>4, <2>1, <2>2
\* A step of a toggle.
<1>6. ASSUME NEW c \in Users, pc[c] \in Toggling, NEW x, pc' = [pc EXCEPT ![c] = x], Halted(c)',
             \A p \in Proto : Pending(p)' /\ Running(p)' => Running(p)
      PROVE  Stopped'
  <2>1. \A e \in Users : e # c => pc[e] \notin Inside /\ pc'[e] = pc[e]
    BY <1>0, <1>6, Alone DEF CallTyped, Inside
  <2>2. \A e \in Users : e # c => Halted(e)'
    BY <2>1 DEF Inside, Toggling, OnvifSteps, GbSteps
  <2>3. QED
    BY <1>1, <1>2, <1>4, <1>6, <2>2
<1> HIDE DEF Halted
<1>7. CASE \/ \E c \in Calls, body \in Bodies : PutBegin(c, body)
           \/ FinalBegin
           \/ \E c \in Users : Lock(c) \/ DropWaiting(c) \/ SectionBad(c) \/ SectionsDone(c)
  <2>1. UNCHANGED <<onvif, gb, joining>>
    BY <1>7 DEF PutBegin, FinalBegin, Lock, DropWaiting, SectionBad, SectionsDone, onvifVars, gbVars
  <2>2. \A e \in Users : pc'[e] = pc[e] \/ pc'[e] \in {"lock", "section", "done"}
    BY <1>0, <1>7 DEF PutBegin, FinalBegin, Lock, DropWaiting, SectionBad, SectionsDone, Unlock, Goto,
                      CallTyped
  <2>3. QED
    BY <1>5, <2>1, <2>2
<1>8. CASE SectionBoot \/ SectionFinal \/ \E c \in Users : SectionPut(c)
  <2>1. UNCHANGED <<onvif, gb, joining>>
    BY <1>8 DEF SectionBoot, SectionFinal, SectionPut, onvifVars, gbVars
  <2>2. \A p : StopStep(p) \in {"onvif.stop", "gb.stop"}
    BY DEF StopStep
  <2>3. \A e \in Users : pc'[e] = pc[e] \/ pc'[e] \in {"onvif.stop", "gb.stop"}
    BY <1>0, <1>8, <2>2 DEF SectionBoot, SectionFinal, SectionPut, Goto, CallTyped
  <2>4. QED
    BY <1>5, <2>1, <2>3
<1>9. CASE \E g \in Gen : SoapBind(g) \/ SoapExit(g) \/ Invite(g) \/ Bye(g)
  BY <1>5, <1>9 DEF SoapBind, SoapExit, Invite, Bye, callVars, onvifVars, gbVars
<1>10. ASSUME NEW c \in Users, DropCall(c)
       PROVE  Stopped'
  <2>1. pc' = [pc EXCEPT ![c] = "done"] /\ UNCHANGED <<onvif, gb>> /\ pc[c] \in Inside
    BY <1>10 DEF DropCall, Unlock, Goto, onvifVars, Held, Inside, Toggling, OnvifSteps, GbSteps
  <2>2. \A e \in Users : e # c => pc[e] \notin Inside /\ pc'[e] = pc[e]
    BY <1>0, <2>1, Alone DEF CallTyped
  <2>3. pc'[c] = "done"
    BY <1>0, <2>1 DEF CallTyped
  <2>4. \A e \in Users : Halted(e)'
    BY <2>2, <2>3 DEF Halted, Inside, Toggling, OnvifSteps, GbSteps
  <2>5. QED
    BY <1>1, <1>2, <1>4, <2>1, <2>4 DEF Running
<1>11. ASSUME NEW c \in Users, StopOnvif(c)
       PROVE  Stopped'
  <2>1. pc[c] \in Toggling /\ onvif'.handle = 0 /\ gb' = gb /\ joining' = onvif.handle
    BY <1>11 DEF StopOnvif, gbVars, Toggling, OnvifSteps
  <2>2. PICK x : pc' = [pc EXCEPT ![c] = x] /\ x = IF onvif.handle = 0 THEN "onvif.start" ELSE "onvif.join"
    BY <1>11 DEF StopOnvif, Goto
  <2>3. Halted(c)'
    BY <1>0, <2>1, <2>2 DEF Halted, CallTyped
  <2>4. \A p \in Proto : Running(p)' => Running(p)
    BY <2>1 DEF Running
  <2>5. QED
    BY <1>6, <2>1, <2>2, <2>3, <2>4
<1>12. ASSUME NEW c \in Users, StopGb(c)
       PROVE  Stopped'
  <2>1. pc[c] \in Toggling /\ gb'.server = 0 /\ onvif' = onvif /\ joining' = gb.server
    BY <1>0, <1>12 DEF StopGb, onvifVars, Toggling, GbSteps, DataTyped
  <2>2. PICK x : pc' = [pc EXCEPT ![c] = x] /\ x = IF gb.server = 0 THEN "gb.start" ELSE "gb.join"
    BY <1>12 DEF StopGb, Goto
  <2>3. Halted(c)'
    BY <1>0, <2>1, <2>2 DEF Halted, CallTyped
  <2>4. \A p \in Proto : Running(p)' => Running(p)
    BY <2>1 DEF Running
  <2>5. QED
    BY <1>6, <2>1, <2>2, <2>3, <2>4
<1>13. ASSUME NEW c \in Users, JoinOnvif(c) \/ StartOnvif(c)
       PROVE  Stopped'
  <2>1. pc[c] \in {"onvif.join", "onvif.start"} /\ gb' = gb /\ onvif'.handle = onvif.handle
    BY <1>0, <1>13 DEF JoinOnvif, StartOnvif, gbVars, DataTyped
  <2>a. Halted(c)
    BY <1>3
  <2>2. onvif.handle = 0
    BY <2>1, <2>a DEF Halted
  <2>3. PICK x : pc' = [pc EXCEPT ![c] = x] /\ (x = "onvif.start" \/ (x = "onvif.ready" /\ joining' # 0))
    BY <1>0, <1>13, NewGen DEF JoinOnvif, StartOnvif, Goto, DataTyped
  <2>4. Halted(c)'
    BY <1>0, <2>1, <2>2, <2>3 DEF Halted, CallTyped
  <2>5. QED
    BY <1>6, <2>1, <2>3, <2>4 DEF Running, Toggling, OnvifSteps
<1>14. ASSUME NEW c \in Users, JoinGb(c) \/ StartGb(c)
       PROVE  Stopped'
  <2>1. pc[c] \in {"gb.join", "gb.start"} /\ onvif' = onvif /\ gb'.server = gb.server
    BY <1>0, <1>14 DEF JoinGb, StartGb, onvifVars, DataTyped
  <2>a. Halted(c)
    BY <1>3
  <2>2. gb.server = 0
    BY <2>1, <2>a DEF Halted
  <2>3. PICK x : pc' = [pc EXCEPT ![c] = x] /\ (x = "gb.start" \/ (x = "gb.spawn" /\ joining' # 0))
    BY <1>0, <1>14, NewGen DEF JoinGb, StartGb, Goto, DataTyped
  <2>4. Halted(c)'
    BY <1>0, <2>1, <2>2, <2>3 DEF Halted, CallTyped
  <2>5. QED
    BY <1>6, <2>1, <2>3, <2>4 DEF Running, Toggling, GbSteps
<1>15. ASSUME NEW c \in Users,
              \/ OnvifStopped(c) \/ MountFails(c) \/ ReadyOk(c) \/ ReadyErr(c)
              \/ GbStopped(c) \/ AuthenticatorFails(c) \/ SpawnOk(c) \/ SpawnErr(c)
       PROVE  Stopped'
  <2>1. Ends(c)
    BY <1>15, EndsSteps
  <2>2. pc[c] \in Toggling /\ pc' = [pc EXCEPT ![c] = "section"]
    BY <2>1 DEF Ends
  <2>3. Halted(c)'
    BY <1>0, <2>2 DEF Halted, CallTyped
  <2>4. \A p \in Proto : Pending(p)' => p # Head(todo[c]).p
    BY <2>1, EndPending
  <2>5. CASE OnvifStopped(c) \/ MountFails(c) \/ ReadyOk(c) \/ ReadyErr(c)
    <3>1. pc[c] \in OnvifSteps /\ gb' = gb
      BY <2>5 DEF OnvifStopped, MountFails, ReadyOk, ReadyErr, OnvifSteps, gbVars
    <3>2. Head(todo[c]).p = "onvif"
      BY <3>1 DEF IInv, CallInv, TogglesHead
    <3>3. \A p \in Proto : Pending(p)' /\ Running(p)' => Running(p)
      BY <2>4, <3>1, <3>2 DEF Running
    <3>4. QED
      BY <1>6, <2>2, <2>3, <3>3
  <2>6. CASE GbStopped(c) \/ AuthenticatorFails(c) \/ SpawnOk(c) \/ SpawnErr(c)
    <3>1. pc[c] \in GbSteps /\ onvif' = onvif
      BY <2>6 DEF GbStopped, AuthenticatorFails, SpawnOk, SpawnErr, GbSteps, onvifVars
    <3>2. Head(todo[c]).p = "gb28181"
      BY <3>1 DEF IInv, CallInv, TogglesHead
    <3>3. \A p \in Proto : Pending(p)' /\ Running(p)' => Running(p)
      BY <2>4, <3>1, <3>2 DEF Running, Proto
    <3>4. QED
      BY <1>6, <2>2, <2>3, <3>3
  <2>7. QED
    BY <1>15, <2>5, <2>6
<1>16. QED
  BY <1>7, <1>8, <1>9, <1>10, <1>11, <1>12, <1>13, <1>14, <1>15 DEF Next, Apply

-----------------------------------------------------------------------------
(* The rows                                                                *)

\* The boot still has to come to what is behind its first section.
LEMMA TailPending ==
  ASSUME IInv, todo[Boot] # <<>>, lock' = lock, todo'[Boot] = Tail(todo[Boot])
  PROVE  \A p \in Proto : Pending(p) /\ p # Head(todo[Boot]).p => Pending(p)'
<1>1. PICK t \in Seq(Section) : t = todo[Boot] /\ t # <<>>
  BY DEF IInv, Shape, CallTyped, Users
<1>2. /\ Tail(t) \in Seq(Section) /\ Len(Tail(t)) = Len(t) - 1 /\ Len(t) \in Nat
      /\ \A i \in 1 .. Len(Tail(t)) : Tail(t)[i] = t[i + 1]
  BY <1>1, HeadTailProperties
<1>3. PICK n \in Nat : n = Len(t) /\ Len(Tail(t)) = n - 1
  BY <1>2
<1>4. Head(t) = t[1]
  BY <1>1
<1>5. ASSUME NEW p \in Proto, p # t[1].p, NEW i \in 1 .. n, t[i].p = p
      PROVE  \E j \in 1 .. n - 1 : Tail(t)[j].p = p
  <2>1. i # 1
    BY <1>5
  <2>2. i - 1 \in 1 .. n - 1 /\ (i - 1) + 1 = i
    BY <2>1
  <2>3. Tail(t)[i - 1] = t[i]
    BY <1>2, <1>3, <2>2
  <2>4. QED
    BY <1>5, <2>2, <2>3
<1>6. QED
  BY <1>1, <1>3, <1>4, <1>5 DEF Pending

\* A protocol is busy with the call inside, or the boot has yet to come to it.
LEMMA BusyIs ==
  ASSUME IInv, NEW c \in Users, pc[c] \in Inside
  PROVE  \A p \in Proto : Busy(p) => pc[c] \in StepsOf(p) \/ (c = Boot /\ Pending(p))
<1>1. \A p \in Proto : StepsOf(p) \subseteq Inside
  BY DEF StepsOf, Inside, Toggling
<1>2. QED
  BY <1>1, Alone DEF Busy, Pending

\* What the row of a protocol asks for is there.
RowHolds(p) ==
    /\ Running(p) <=> store[p].enabled
    /\ p = "gb28181" /\ Running(p) => gb.secret = store[p].secret

\* Whoever is not toggled runs as its row says after every step.
LEMMA StepRow ==
  ASSUME IInv, Next
  PROVE  RowIsApplied'
<1>0. CallTyped /\ DataTyped /\ Mutex /\ TogglesHead /\ TogglesRow /\ BootOrder /\ Stopped /\ StartsWanted /\ RowIsApplied
  BY DEF IInv, Shape, CallInv
<1>a. /\ Boot \in Users /\ Final \in Users /\ Boot \notin Calls /\ Final \notin Calls /\ Boot # Final
      /\ Calls \subseteq Users /\ None # Boot
  BY RuntimeAssumption DEF RuntimeAssumption, Users
<1>b. \A p : StopStep(p) \in {"onvif.stop", "gb.stop"}
  BY DEF StopStep
<1> SUFFICES ASSUME pc'[Final] = "idle", NEW p \in Proto, applied'[p] = "ok", ~Busy(p)'
             PROVE  RowHolds(p)'
  BY DEF RowIsApplied, RowHolds
<1>c. pc[Final] = "idle" /\ applied[p] = "ok" /\ ~Busy(p) => RowHolds(p)
  BY <1>0 DEF RowIsApplied, RowHolds
\* A step that leaves the protocol alone.
<1>d. ASSUME pc[Final] = "idle", applied[p] = "ok", Busy(p) => Busy(p)', Running(p)' <=> Running(p),
             store'[p] = store[p], p = "gb28181" => gb'.secret = gb.secret
      PROVE  RowHolds(p)'
  BY <1>c, <1>d DEF RowHolds
\* A step of one user, who is not the final shutdown.
<1>e. ASSUME NEW c \in Users, NEW x, pc' = [pc EXCEPT ![c] = x], x # "idle"
      PROVE  c # Final /\ pc[Final] = "idle" /\ pc'[c] = x
  BY <1>0, <1>a, <1>e DEF CallTyped
<1>1. ASSUME NEW c \in Calls, NEW body \in Bodies, PutBegin(c, body)
      PROVE  RowHolds(p)'
  <2>1. pc' = [pc EXCEPT ![c] = "lock"] /\ pc[c] = "idle" /\ todo'[Boot] = todo[Boot] /\ lock' = lock
    BY <1>0, <1>a, <1>1 DEF PutBegin, Goto, CallTyped
  <2>2. UNCHANGED <<store, applied, onvif, gb>>
    BY <1>1 DEF PutBegin, onvifVars, gbVars
  <2>3. pc[Final] = "idle"
    BY <1>a, <1>e, <2>1
  <2>4. \A e \in Users : pc[e] \in StepsOf(p) => pc'[e] = pc[e]
    BY <1>0, <2>1 DEF CallTyped, StepsOf, OnvifSteps, GbSteps
  <2>5. Busy(p) => Busy(p)'
    BY <2>1, <2>4 DEF Busy, Pending
  <2>6. QED
    BY <1>d, <2>2, <2>3, <2>5 DEF Running
<1>2. ASSUME FinalBegin \/ SectionFinal
      PROVE  RowHolds(p)'
  <2>1. pc'[Final] # "idle"
    BY <1>0, <1>a, <1>b, <1>2 DEF FinalBegin, SectionFinal, Goto, CallTyped
  <2>2. QED
    BY <2>1
<1>3. ASSUME NEW c \in Users, Lock(c) \/ DropWaiting(c)
      PROVE  RowHolds(p)'
  <2>1. pc[c] = "lock" /\ todo' = todo /\ (lock = Boot => lock' = Boot)
    BY <1>a, <1>3 DEF Lock, DropWaiting
  <2>2. PICK x \in {"section", "done"} : pc' = [pc EXCEPT ![c] = x]
    BY <1>3 DEF Lock, DropWaiting, Goto
  <2>3. UNCHANGED <<store, applied, onvif, gb>>
    BY <1>3 DEF Lock, DropWaiting, onvifVars, gbVars
  <2>4. pc[Final] = "idle"
    BY <1>e, <2>2
  <2>5. \A e \in Users : pc[e] \in StepsOf(p) => pc'[e] = pc[e]
    BY <1>0, <2>1, <2>2 DEF CallTyped, StepsOf, OnvifSteps, GbSteps
  <2>6. Busy(p) => Busy(p)'
    BY <2>1, <2>5 DEF Busy, Pending
  <2>7. QED
    BY <1>d, <2>3, <2>4, <2>6 DEF Running
<1>4. ASSUME NEW c \in Users, SectionPut(c)
      PROVE  RowHolds(p)'
  <2>1. c \in Calls /\ pc[c] = "section" /\ todo[c] # <<>> /\ UNCHANGED <<applied, onvif, gb>>
    BY <1>4 DEF SectionPut, onvifVars, gbVars
  <2>2. PICK q : /\ q = Head(todo[c]).p /\ pc' = [pc EXCEPT ![c] = StopStep(q)]
                 /\ \A r \in Proto : r # q => store'[r] = store[r]
    BY <1>0, <1>4 DEF SectionPut, Goto, CallTyped
  <2>3. pc[Final] = "idle" /\ pc'[c] = StopStep(q)
    BY <1>b, <1>e, <2>2
  <2>4. q # p
    <3>1. SUFFICES ASSUME q = p PROVE Busy(p)'
      OBVIOUS
    <3>2. pc'[c] \in StepsOf(p)
      BY <2>3, <3>1 DEF StopStep, StepsOf, OnvifSteps, GbSteps
    <3>3. QED
      BY <3>2 DEF Busy
  <2>5. ~Busy(p)
    BY <1>a, <2>1, BusyIs DEF Inside, StepsOf, OnvifSteps, GbSteps
  <2>6. QED
    BY <1>d, <2>1, <2>2, <2>3, <2>4, <2>5 DEF Running
<1>5. ASSUME SectionBoot
      PROVE  RowHolds(p)'
  <2>1. /\ pc[Boot] = "section" /\ todo[Boot] # <<>> /\ lock = Boot /\ lock' = Boot
        /\ UNCHANGED <<store, applied, onvif, gb>>
    BY <1>0, <1>a, <1>5 DEF SectionBoot, onvifVars, gbVars, Mutex, Inside
  <2>2. pc[Final] = "idle"
    BY <1>0, <1>a, <1>5 DEF SectionBoot, Goto, CallTyped
  <2>3. PICK t \in Seq(Section) : t = todo[Boot] /\ t # <<>>
    BY <1>0, <1>a, <2>1 DEF CallTyped
  <2>4. PICK s \in Section : s = Head(t) /\ s = t[1]
    BY <2>3, EmptySeq
  <2>5. s.p \in Proto
    BY DEF Section
  <2>6. CASE ~store[s.p].enabled
    <3>1. pc' = pc /\ todo'[Boot] = Tail(t)
      BY <1>0, <1>a, <1>5, <2>3, <2>4, <2>6 DEF SectionBoot, CallTyped
    <3>2. CASE p = s.p
      <4>1. 1 \in 1 .. Len(t)
        BY <2>3, EmptySeq
      <4>2. Pending(p)
        BY <2>1, <2>3, <2>4, <3>2, <4>1 DEF Pending
      <4>3. ~Running(p)
        BY <1>0, <4>2 DEF Stopped
      <4>4. QED
        BY <2>1, <2>6, <3>2, <4>3 DEF RowHolds, Running
    <3>3. CASE p # s.p
      <4>1. Pending(p) => Pending(p)'
        BY <2>1, <2>3, <2>4, <3>1, <3>3, TailPending
      <4>2. Busy(p) => Busy(p)'
        BY <3>1, <4>1 DEF Busy
      <4>3. QED
        BY <1>d, <2>1, <2>2, <4>2 DEF Running
    <3>4. QED
      BY <3>2, <3>3
  <2>7. CASE store[s.p].enabled
    <3>1. PICK r \in Section : r = Resolved(s, store[s.p]) /\ r.p = s.p
      BY <1>0, <2>5, ResolvedIs DEF CallTyped
    <3>2. todo'[Boot] = [t EXCEPT ![1] = r] /\ pc'[Boot] = StopStep(s.p)
      BY <1>0, <1>a, <1>5, <2>3, <2>4, <2>7, <3>1 DEF SectionBoot, Goto, CallTyped
    <3>3. /\ Len([t EXCEPT ![1] = r]) = Len(t)
          /\ \A i \in 1 .. Len(t) : [t EXCEPT ![1] = r][i] = IF i = 1 THEN r ELSE t[i]
      BY <2>3, HeadReplaced
    <3>4. PICK u : u = todo'[Boot]
      OBVIOUS
    <3>5. Len(u) = Len(t) /\ \A i \in 1 .. Len(t) : u[i].p = t[i].p
      BY <2>4, <3>1, <3>2, <3>3, <3>4
    <3>6. Pending(p) => Pending(p)'
      BY <2>1, <2>3, <3>4, <3>5 DEF Pending
    <3>7. Busy(p) => Busy(p)'
      BY <1>a, <2>1, <3>6, BusyIs DEF Busy, Inside, StepsOf, OnvifSteps, GbSteps
    <3>8. QED
      BY <1>d, <2>1, <2>2, <3>7 DEF Running
  <2>8. QED
    BY <2>6, <2>7
<1>6. ASSUME NEW c \in Users, SectionBad(c) \/ SectionsDone(c)
      PROVE  RowHolds(p)'
  <2>1. /\ pc[c] = "section" /\ (c \in Calls \/ todo[c] = <<>>)
        /\ pc' = [pc EXCEPT ![c] = "done"] /\ UNCHANGED <<store, applied, onvif, gb>>
    BY <1>6 DEF SectionBad, SectionsDone, Unlock, Goto, onvifVars, gbVars
  <2>2. pc[Final] = "idle"
    BY <1>e, <2>1
  <2>3. c = Boot => ~Pending(p)
    BY <1>a, <2>1 DEF Pending
  <2>4. ~Busy(p)
    BY <2>1, <2>3, BusyIs DEF Inside, StepsOf, OnvifSteps, GbSteps
  <2>5. QED
    BY <1>d, <2>1, <2>2, <2>4 DEF Running
<1>7. ASSUME NEW c \in Users, DropCall(c)
      PROVE  RowHolds(p)'
  <2>1. /\ c \in Calls /\ pc[c] \in Inside
        /\ pc' = [pc EXCEPT ![c] = "done"] /\ UNCHANGED <<store, onvif, gb>>
        /\ applied' = [applied EXCEPT ![Head(todo[c]).p] = "dropped"]
    BY <1>7 DEF DropCall, Unlock, Goto, onvifVars, Held, Inside, Toggling, OnvifSteps, GbSteps
  <2>2. pc[Final] = "idle"
    BY <1>e, <2>1
  <2>3. p # Head(todo[c]).p /\ applied[p] = "ok"
    BY <1>0, <2>1 DEF DataTyped
  <2>4. pc[c] \notin StepsOf(p)
    BY <1>0, <2>3 DEF TogglesHead, StepsOf, Proto
  <2>5. ~Busy(p)
    BY <1>a, <2>1, <2>4, BusyIs
  <2>6. QED
    BY <1>d, <2>1, <2>2, <2>3, <2>5 DEF Running
\* A toggle under way.
<1>f. ASSUME NEW c \in Users, Inner(c), pc[c] \notin StepsOf(p), applied' = applied,
             Running(p)' <=> Running(p), p = "gb28181" => gb'.secret = gb.secret
      PROVE  RowHolds(p)'
  <2>1. PICK x \in Toggling : pc' = [pc EXCEPT ![c] = x] /\ pc[c] \in Toggling /\ UNCHANGED <<store, lock, todo>>
    BY <1>f DEF Inner, Toggling
  <2>2. pc[Final] = "idle"
    BY <1>e, <2>1 DEF Toggling, OnvifSteps, GbSteps
  <2>3. Pending(p) => Pending(p)'
    BY <2>1 DEF Pending
  <2>4. Busy(p) => Busy(p)'
    BY <1>f, <2>1, <2>3, BusyIs DEF Busy, Inside
  <2>5. QED
    BY <1>d, <1>f, <2>1, <2>2, <2>4
<1>8. ASSUME NEW c \in Users, StopOnvif(c) \/ JoinOnvif(c) \/ StartOnvif(c)
      PROVE  RowHolds(p)'
  <2>1. Inner(c) /\ pc[c] \in OnvifSteps /\ gb' = gb /\ applied' = applied
    BY <1>8, InnerSteps DEF StopOnvif, JoinOnvif, StartOnvif, OnvifSteps, gbVars
  <2>2. pc'[c] \in OnvifSteps
    BY <1>0, <2>1 DEF Inner, CallTyped, OnvifSteps, GbSteps
  <2>3. p = "gb28181"
    BY <2>2 DEF Busy, StepsOf, Proto
  <2>4. pc[c] \notin StepsOf(p)
    BY <2>1, <2>3 DEF StepsOf, OnvifSteps, GbSteps
  <2>5. QED
    BY <1>f, <2>1, <2>3, <2>4 DEF Running
<1>9. ASSUME NEW c \in Users, StopGb(c) \/ JoinGb(c) \/ StartGb(c)
      PROVE  RowHolds(p)'
  <2>1. Inner(c) /\ pc[c] \in GbSteps /\ onvif' = onvif /\ applied' = applied
    BY <1>9, InnerSteps DEF StopGb, JoinGb, StartGb, GbSteps, onvifVars
  <2>2. pc'[c] \in GbSteps
    BY <1>0, <2>1 DEF Inner, CallTyped, OnvifSteps, GbSteps
  <2>3. p = "onvif"
    BY <2>2 DEF Busy, StepsOf, Proto
  <2>4. pc[c] \notin StepsOf(p)
    BY <2>1, <2>3 DEF StepsOf, OnvifSteps, GbSteps
  <2>5. QED
    BY <1>f, <2>1, <2>3, <2>4 DEF Running
\* A toggle that ends: the other protocol is left alone.
<1>h. ASSUME NEW c \in Users, Ends(c), NEW how, applied' = [applied EXCEPT ![Head(todo[c]).p] = how]
      PROVE  /\ c # Final /\ pc[Final] = "idle" /\ store' = store
             /\ p # Head(todo[c]).p => applied[p] = "ok" /\ (Busy(p) => Busy(p)')
             /\ p = Head(todo[c]).p => how = "ok"
             /\ Head(todo[c]).enabled = store[Head(todo[c]).p].enabled
             /\ Head(todo[c]).secret = store[Head(todo[c]).p].secret
  <2>1. /\ pc[c] \in Toggling /\ pc' = [pc EXCEPT ![c] = "section"] /\ todo[c] # <<>>
        /\ UNCHANGED <<store, lock>>
    BY <1>0, <1>h DEF Ends, TogglesHead
  <2>2. c # Final /\ pc[Final] = "idle"
    BY <1>e, <2>1
  <2>3. p # Head(todo[c]).p => applied[p] = "ok"
    BY <1>0, <1>h DEF DataTyped
  <2>4. p = Head(todo[c]).p => how = "ok"
    BY <1>0, <1>h DEF DataTyped
  <2>5. ASSUME p # Head(todo[c]).p, Busy(p)
        PROVE  Busy(p)'
    <3>1. pc[c] \notin StepsOf(p)
      BY <1>0, <2>5 DEF TogglesHead, StepsOf, Proto
    <3>2. c = Boot /\ Pending(p)
      BY <2>1, <2>5, <3>1, BusyIs DEF Inside
    <3>3. todo'[Boot] = Tail(todo[Boot])
      BY <1>0, <1>h, <3>2 DEF Ends, CallTyped
    <3>4. QED
      BY <2>1, <2>5, <3>2, <3>3, TailPending DEF Busy
  <2>6. /\ Head(todo[c]).enabled = store[Head(todo[c]).p].enabled
        /\ Head(todo[c]).secret = store[Head(todo[c]).p].secret
    BY <1>0, <2>1, <2>2 DEF TogglesRow
  <2>7. QED
    BY <2>1, <2>2, <2>3, <2>4, <2>5, <2>6
<1>10. ASSUME NEW c \in Users, OnvifStopped(c) \/ MountFails(c) \/ ReadyOk(c) \/ ReadyErr(c)
       PROVE  RowHolds(p)'
  <2>1. Ends(c) /\ pc[c] \in OnvifSteps /\ gb' = gb
    BY <1>10, EndsSteps DEF OnvifStopped, MountFails, ReadyOk, ReadyErr, OnvifSteps, gbVars
  <2>2. PICK how \in {"ok", "failed"} :
          /\ applied' = [applied EXCEPT ![Head(todo[c]).p] = how]
          /\ how = "ok" => OnvifStopped(c) \/ ReadyOk(c)
    BY <1>10 DEF OnvifStopped, MountFails, ReadyOk, ReadyErr, Toggled
  <2>3. Head(todo[c]).p = "onvif"
    BY <1>0, <2>1 DEF TogglesHead
  <2>4. CASE p # "onvif"
    BY <1>d, <1>h, <2>1, <2>2, <2>3, <2>4 DEF Running
  <2>5. CASE p = "onvif"
    <3>1. OnvifStopped(c) \/ ReadyOk(c)
      BY <1>h, <2>1, <2>2, <2>3, <2>5
    <3>2. Head(todo[c]).enabled = store["onvif"].enabled /\ store' = store
      BY <1>h, <2>1, <2>2, <2>3
    <3>3. CASE OnvifStopped(c)
      <4>1. onvif'.handle = 0 /\ ~Head(todo[c]).enabled
        BY <1>0, <3>3 DEF OnvifStopped, onvifVars, Stopped, Wanted
      <4>2. QED
        BY <2>5, <3>2, <4>1 DEF RowHolds, Running
    <3>4. CASE ReadyOk(c)
      <4>1. onvif'.handle = joining /\ joining # 0
        BY <1>0, <3>4 DEF ReadyOk, Stopped, DataTyped
      <4>2. Head(todo[c]).enabled
        BY <1>0, <3>4 DEF ReadyOk, StartsWanted, Wanted
      <4>3. QED
        BY <2>5, <3>2, <4>1, <4>2 DEF RowHolds, Running
    <3>5. QED
      BY <3>1, <3>3, <3>4
  <2>6. QED
    BY <2>4, <2>5
<1>11. ASSUME NEW c \in Users, GbStopped(c) \/ AuthenticatorFails(c) \/ SpawnOk(c) \/ SpawnErr(c)
       PROVE  RowHolds(p)'
  <2>1. Ends(c) /\ pc[c] \in GbSteps /\ onvif' = onvif
    BY <1>11, EndsSteps DEF GbStopped, AuthenticatorFails, SpawnOk, SpawnErr, GbSteps, onvifVars
  <2>2. PICK how \in {"ok", "failed"} :
          /\ applied' = [applied EXCEPT ![Head(todo[c]).p] = how]
          /\ how = "ok" => GbStopped(c) \/ SpawnOk(c)
    BY <1>11 DEF GbStopped, AuthenticatorFails, SpawnOk, SpawnErr, Toggled
  <2>3. Head(todo[c]).p = "gb28181"
    BY <1>0, <2>1 DEF TogglesHead
  <2>4. CASE p # "gb28181"
    <3>1. p = "onvif"
      BY <2>4 DEF Proto
    <3>2. QED
      BY <1>d, <1>h, <2>1, <2>2, <2>3, <3>1 DEF Running
  <2>5. CASE p = "gb28181"
    <3>1. GbStopped(c) \/ SpawnOk(c)
      BY <1>h, <2>1, <2>2, <2>3, <2>5
    <3>2. /\ Head(todo[c]).enabled = store["gb28181"].enabled /\ store' = store
          /\ Head(todo[c]).secret = store["gb28181"].secret
      BY <1>h, <2>1, <2>2, <2>3
    <3>3. CASE GbStopped(c)
      <4>1. gb'.server = 0 /\ ~Head(todo[c]).enabled
        BY <1>0, <3>3 DEF GbStopped, gbVars, Stopped, Wanted
      <4>2. QED
        BY <2>5, <3>2, <4>1 DEF RowHolds, Running
    <3>4. CASE SpawnOk(c)
      <4>1. gb'.server = joining /\ joining # 0 /\ gb'.secret = Head(todo[c]).secret
        BY <1>0, <3>4 DEF SpawnOk, Stopped, DataTyped
      <4>2. Head(todo[c]).enabled
        BY <1>0, <3>4 DEF SpawnOk, StartsWanted, Wanted
      <4>3. QED
        BY <2>5, <3>2, <4>1, <4>2 DEF RowHolds, Running
    <3>5. QED
      BY <3>1, <3>3, <3>4
  <2>6. QED
    BY <2>4, <2>5
<1>12. ASSUME NEW g \in Gen, SoapBind(g) \/ SoapExit(g) \/ Invite(g) \/ Bye(g)
       PROVE  RowHolds(p)'
  <2>1. UNCHANGED <<store, lock, pc, todo, applied, onvif, gb>>
    BY <1>12 DEF SoapBind, SoapExit, Invite, Bye, callVars, onvifVars, gbVars
  <2>2. Busy(p) => Busy(p)'
    BY <2>1 DEF Busy, Pending
  <2>3. QED
    BY <1>d, <2>1, <2>2 DEF Running
<1>13. QED
  BY <1>1, <1>2, <1>3, <1>4, <1>5, <1>6, <1>7, <1>8, <1>9, <1>10, <1>11, <1>12 DEF Next, Apply

-----------------------------------------------------------------------------
(* What GB28181 leaves behind                                              *)

\* The steps between the stop and the end of a start.
GbBetween == {"gb.join", "gb.start", "gb.spawn"}

\* GB28181 leaves nothing of an earlier generation behind at any step.
LEMMA StepPhase ==
  ASSUME IInv, Next
  PROVE  GbPhase'
<1>0. CallTyped /\ DataTyped /\ TogglesHead /\ Stopped /\ GbPhase
  BY DEF IInv, Shape, CallInv
<1>a. Boot \in Users /\ Final \in Users /\ Calls \subseteq Users
  BY DEF Users
<1>b. \A p : StopStep(p) \in {"onvif.stop", "gb.stop"}
  BY DEF StopStep
<1> SUFFICES ASSUME "gb28181" \notin dropped'
             PROVE  GbPhase'
  BY DEF GbPhase
<1> DEFINE Resting == IF gb.server = 0 THEN GbOff ELSE GbOn(gb.server)
           Spawning == /\ gb.source = joining
                       /\ mic \subseteq {joining} /\ bridged = {}
                       /\ \A g \in Gen : sip[g] # "up"
           Phase(e) == /\ pc[e] = "gb.join" => gb.notifier = 0 /\ GbOn(joining)
                       /\ pc[e] = "gb.start" => GbOff
                       /\ pc[e] = "gb.spawn" => Spawning
           Nobody == \A e \in Users : pc[e] \notin GbBetween
<1>c. ASSUME "gb28181" \notin dropped
      PROVE  (Nobody => Resting) /\ \A e \in Users : Phase(e)
  BY <1>0, <1>c DEF GbPhase, GbBetween
<1>d. ASSUME Nobody' => Resting', \A e \in Users : Phase(e)'
      PROVE  GbPhase'
  BY <1>d DEF GbPhase, GbBetween
\* A step that touches nothing of GB28181.
<1>1. ASSUME UNCHANGED <<gb, sip, mic, bridged, joining, dropped>>,
             \A e \in Users : pc'[e] = pc[e] \/ (pc[e] \notin GbBetween /\ pc'[e] \notin GbBetween)
      PROVE  GbPhase'
  <2>1. (Nobody => Resting) /\ \A e \in Users : Phase(e)
    BY <1>c, <1>1
  <2>2. Nobody' => Nobody
    BY <1>1
  <2>3. Resting => Resting'
    BY <1>1 DEF GbOff, GbOn
  <2>4. \A e \in Users : Phase(e)'
    BY <1>1, <2>1 DEF GbOff, GbOn, GbBetween
  <2>5. QED
    BY <1>d, <2>1, <2>2, <2>3, <2>4
\* A step inside that is not between.
<1>2. ASSUME NEW c \in Users, UNCHANGED <<gb, sip, mic, bridged>>, "gb28181" \notin dropped,
             pc[c] \in Inside \ GbBetween, NEW x, x \notin GbBetween, pc' = [pc EXCEPT ![c] = x]
      PROVE  GbPhase'
  <2>1. Nobody /\ Nobody'
    BY <1>0, <1>2, Alone DEF CallTyped, GbBetween, Inside, Toggling, GbSteps
  <2>2. Resting'
    BY <1>2, <1>c, <2>1 DEF GbOff, GbOn
  <2>3. \A e \in Users : Phase(e)'
    BY <2>1 DEF GbBetween
  <2>4. QED
    BY <1>d, <2>2, <2>3
\* A step of the call that toggles GB28181.
<1>3. ASSUME NEW c \in Users, pc[c] \in GbSteps, NEW x, pc' = [pc EXCEPT ![c] = x],
             Phase(c)', x \in GbBetween \/ Resting'
      PROVE  GbPhase'
  <2>1. pc'[c] = x /\ \A e \in Users : e # c => pc'[e] \notin Inside
    BY <1>0, <1>3, Alone DEF CallTyped, Inside, Toggling
  <2>2. \A e \in Users : e # c => pc'[e] \notin GbBetween
    BY <2>1 DEF Inside, Toggling, GbSteps, GbBetween
  <2>3. \A e \in Users : Phase(e)'
    BY <1>3, <2>2 DEF GbBetween
  <2>4. QED
    BY <1>3, <1>d, <2>1, <2>3
<1>4. CASE \/ \E c \in Calls, body \in Bodies : PutBegin(c, body)
           \/ FinalBegin \/ SectionBoot \/ SectionFinal
           \/ \E c \in Users : Lock(c) \/ SectionPut(c) \/ DropWaiting(c) \/ SectionBad(c) \/ SectionsDone(c)
  <2>1. UNCHANGED <<gb, sip, mic, bridged, joining, dropped>>
    BY <1>4 DEF PutBegin, FinalBegin, SectionBoot, SectionFinal, Lock, SectionPut, DropWaiting,
                SectionBad, SectionsDone, gbVars
  <2>2. \A e \in Users : \/ pc'[e] = pc[e]
                         \/ /\ pc[e] \in {"idle", "lock", "section"}
                            /\ pc'[e] \in {"lock", "section", "onvif.stop", "gb.stop", "done"}
    BY <1>0, <1>b, <1>4 DEF PutBegin, FinalBegin, SectionBoot, SectionFinal, Lock, SectionPut, DropWaiting,
                SectionBad, SectionsDone, Goto, Unlock, CallTyped
  <2>3. QED
    BY <1>1, <2>1, <2>2 DEF GbBetween
<1>5. CASE \E g \in Gen : SoapBind(g) \/ SoapExit(g)
  BY <1>1, <1>5 DEF SoapBind, SoapExit, callVars, gbVars
<1>6. ASSUME NEW c \in Users,
             \/ StopOnvif(c) \/ JoinOnvif(c) \/ OnvifStopped(c) \/ StartOnvif(c) \/ MountFails(c)
             \/ ReadyOk(c) \/ ReadyErr(c)
      PROVE  GbPhase'
  <2>1. UNCHANGED <<gb, sip, mic, bridged, dropped>> /\ pc[c] \in OnvifSteps
    BY <1>6 DEF StopOnvif, JoinOnvif, OnvifStopped, StartOnvif, MountFails, ReadyOk, ReadyErr, gbVars,
                OnvifSteps
  <2>2. Inner(c) \/ Ends(c)
    BY <1>6, InnerSteps, EndsSteps
  <2>3. PICK x \in OnvifSteps \cup {"section"} : pc' = [pc EXCEPT ![c] = x]
    BY <2>1, <2>2 DEF Inner, Ends, OnvifSteps, GbSteps
  <2>4. QED
    BY <1>2, <2>1, <2>3 DEF Inside, Toggling, OnvifSteps, GbBetween
<1>7. ASSUME NEW c \in Users, DropCall(c)
      PROVE  GbPhase'
  <2>1. /\ pc[c] \in Inside /\ dropped' = dropped \cup {Head(todo[c]).p}
        /\ pc' = [pc EXCEPT ![c] = "done"] /\ gb' = gb /\ bridged' = bridged
    BY <1>7 DEF DropCall, Held, Inside, Toggling, OnvifSteps, GbSteps, Unlock, Goto
  <2>2. pc[c] \notin GbSteps
    BY <1>0, <2>1 DEF TogglesHead
  <2>3. mic' = mic /\ sip' = sip
    BY <1>7, <2>2 DEF DropCall, GbSteps
  <2>4. QED
    BY <1>2, <2>1, <2>2, <2>3 DEF GbSteps, GbBetween
<1>8. ASSUME NEW c \in Users, StopGb(c)
      PROVE  GbPhase'
  <2>1. /\ pc[c] = "gb.stop" /\ UNCHANGED <<sip, mic, bridged, dropped>> /\ joining' = gb.server
        /\ gb'.notifier = 0 /\ gb'.source = gb.source /\ gb'.audio = gb.audio
    BY <1>0, <1>8 DEF StopGb, DataTyped
  <2>2. PICK x : pc' = [pc EXCEPT ![c] = x] /\ x = IF gb.server = 0 THEN "gb.start" ELSE "gb.join"
    BY <1>8 DEF StopGb, Goto
  <2>3. Nobody
    BY <2>1, Alone DEF Inside, Toggling, GbSteps, GbBetween
  <2>4. Resting
    BY <1>c, <2>1, <2>3
  <2>5. pc'[c] = x
    BY <1>0, <2>2 DEF CallTyped
  <2>6. CASE gb.server = 0
    <3>1. GbOff'
      BY <2>1, <2>4, <2>6 DEF GbOff
    <3>2. QED
      <4>1. pc' = [pc EXCEPT ![c] = "gb.start"] /\ pc'[c] = "gb.start"
        BY <2>2, <2>5, <2>6
      <4>2. Phase(c)'
        BY <3>1, <4>1
      <4>3. QED
        BY <1>3, <2>1, <4>1, <4>2 DEF GbSteps, GbBetween
  <2>7. CASE gb.server # 0
    <3>1. gb'.notifier = 0 /\ GbOn(joining)'
      BY <2>1, <2>4, <2>7 DEF GbOn
    <3>2. QED
      <4>1. pc' = [pc EXCEPT ![c] = "gb.join"] /\ pc'[c] = "gb.join"
        BY <2>2, <2>5, <2>7
      <4>2. Phase(c)'
        BY <3>1, <4>1
      <4>3. QED
        BY <1>3, <2>1, <4>1, <4>2 DEF GbSteps, GbBetween
  <2>8. QED
    BY <2>6, <2>7
<1>9. ASSUME NEW c \in Users, JoinGb(c)
      PROVE  GbPhase'
  <2>1. /\ pc[c] = "gb.join" /\ dropped' = dropped /\ pc' = [pc EXCEPT ![c] = "gb.start"]
        /\ sip' = [sip EXCEPT ![joining] = "gone"] /\ bridged' = bridged \ {gb.source}
        /\ mic' = mic \ {gb.audio} /\ gb'.notifier = gb.notifier
    BY <1>0, <1>9 DEF JoinGb, Goto, DataTyped
  <2>2. gb.notifier = 0 /\ GbOn(joining)
    BY <1>c, <2>1
  <2>3. bridged' = {} /\ mic' = {}
    BY <2>1, <2>2 DEF GbOn
  <2>4. \A g \in Gen : sip'[g] # "up"
    BY <1>0, <2>1, <2>2 DEF GbOn, DataTyped
  <2>5. GbOff'
    BY <2>1, <2>2, <2>3, <2>4 DEF GbOff
  <2>6. pc'[c] = "gb.start"
    BY <1>0, <2>1 DEF CallTyped
  <2>7. QED
    BY <1>3, <2>1, <2>5, <2>6 DEF GbSteps, GbBetween
<1>10. ASSUME NEW c \in Users, GbStopped(c) \/ AuthenticatorFails(c)
       PROVE  GbPhase'
  <2>1. /\ pc[c] = "gb.start" /\ UNCHANGED <<dropped, gb, sip, mic, bridged>>
        /\ pc' = [pc EXCEPT ![c] = "section"]
    BY <1>10 DEF GbStopped, AuthenticatorFails, Toggled, Goto, gbVars
  <2>2. GbOff /\ gb.server = 0
    BY <1>0, <1>c, <2>1 DEF Stopped
  <2>3. Resting'
    BY <2>1, <2>2 DEF GbOff
  <2>4. pc'[c] = "section"
    BY <1>0, <2>1 DEF CallTyped
  <2>5. QED
    BY <1>3, <2>1, <2>3, <2>4 DEF GbSteps
<1>11. ASSUME NEW c \in Users, StartGb(c)
       PROVE  GbPhase'
  <2>1. /\ pc[c] = "gb.start" /\ UNCHANGED <<dropped, sip, bridged>> /\ gb'.source = joining'
        /\ mic' \subseteq mic \cup {joining'} /\ pc' = [pc EXCEPT ![c] = "gb.spawn"]
    BY <1>0, <1>11 DEF StartGb, Goto, DataTyped
  <2>2. GbOff
    BY <1>c, <2>1
  <2>3. Spawning'
    BY <2>1, <2>2 DEF GbOff
  <2>4. pc'[c] = "gb.spawn"
    BY <1>0, <2>1 DEF CallTyped
  <2>5. QED
    BY <1>3, <2>1, <2>3, <2>4 DEF GbSteps, GbBetween
<1>12. ASSUME NEW c \in Users, SpawnOk(c)
       PROVE  GbPhase'
  <2>1. /\ pc[c] = "gb.spawn" /\ UNCHANGED <<dropped, bridged>> /\ pc' = [pc EXCEPT ![c] = "section"]
        /\ sip' = [sip EXCEPT ![joining] = "up"] /\ mic' \subseteq mic
    BY <1>12 DEF SpawnOk, Toggled, Goto
  <2>2. /\ gb'.server = joining /\ gb'.source = gb.source
        /\ gb'.audio = IF joining \in mic THEN joining ELSE 0
    BY <1>0, <1>12 DEF SpawnOk, DataTyped
  <2>3. Spawning /\ joining # 0
    BY <1>0, <1>c, <2>1 DEF Stopped
  <2>4. mic' \subseteq {gb'.audio}
    BY <2>1, <2>2, <2>3
  <2>5. \A h \in Gen \ {joining} : sip'[h] # "up"
    BY <1>0, <2>1, <2>3 DEF DataTyped
  <2>6. Resting'
    BY <2>1, <2>2, <2>3, <2>4, <2>5 DEF GbOn
  <2>7. pc'[c] = "section"
    BY <1>0, <2>1 DEF CallTyped
  <2>8. QED
    BY <1>3, <2>1, <2>6, <2>7 DEF GbSteps
<1>13. ASSUME NEW c \in Users, SpawnErr(c)
       PROVE  GbPhase'
  <2>1. /\ pc[c] = "gb.spawn" /\ UNCHANGED <<dropped, bridged, sip>> /\ pc' = [pc EXCEPT ![c] = "section"]
        /\ mic' \subseteq mic \ {joining}
    BY <1>13 DEF SpawnErr, Toggled, Goto
  <2>2. gb'.server = gb.server /\ gb'.notifier = 0
    BY <1>0, <1>13 DEF SpawnErr, DataTyped
  <2>3. Spawning /\ gb.server = 0
    BY <1>0, <1>c, <2>1 DEF Stopped
  <2>4. Resting'
    BY <2>1, <2>2, <2>3 DEF GbOff
  <2>5. pc'[c] = "section"
    BY <1>0, <2>1 DEF CallTyped
  <2>6. QED
    BY <1>3, <2>1, <2>4, <2>5 DEF GbSteps
<1>14. ASSUME NEW g \in Gen, Invite(g) \/ Bye(g)
       PROVE  GbPhase'
  <2>1. /\ UNCHANGED <<pc, joining, dropped, gb, sip, mic>> /\ sip[g] = "up"
        /\ bridged' = bridged \cup {g} \/ bridged' = bridged \ {g}
    BY <1>14 DEF Invite, Bye, callVars
  <2>2. (Nobody => Resting) /\ \A e \in Users : Phase(e)
    BY <1>c, <2>1
  <2>3. ~GbOff /\ ~Spawning
    BY <2>1 DEF GbOff
  <2>4. \A h : GbOn(h) => GbOn(h)'
    BY <2>1 DEF GbOn
  <2>5. Nobody' => Resting'
    BY <2>1, <2>2, <2>3, <2>4
  <2>6. \A e \in Users : Phase(e)'
    BY <2>1, <2>2, <2>3, <2>4
  <2>7. QED
    BY <1>d, <2>5, <2>6
<1>15. QED
  BY <1>4, <1>5, <1>6, <1>7, <1>8, <1>9, <1>10, <1>11, <1>12, <1>13, <1>14 DEF Next, Apply

-----------------------------------------------------------------------------
(* The theorems                                                            *)

\* The invariant survives every step.
LEMMA NextIInv == IInv /\ [Next]_vars => IInv'
<1>1. ASSUME IInv, Next
      PROVE  IInv'
  <2>1. CallTyped' /\ CallInv'
    BY <1>1, StepCall
  <2>2. DataTyped'
    BY <1>1, StepData
  <2>3. FinalStops' /\ StartsWanted'
    BY <1>1, StepFinal, StepWanted
  <2>4. Stopped' /\ RowIsApplied' /\ GbPhase'
    BY <1>1, StepStopped, StepRow, StepPhase
  <2>5. QED
    BY <2>1, <2>2, <2>3, <2>4 DEF IInv, Shape
<1>2. ASSUME IInv, UNCHANGED vars
      PROVE  IInv'
  <2>1. UNCHANGED <<store, lock, pc, todo, gen, joining, applied, dropped>>
    BY <1>2 DEF vars, callVars
  <2>2. UNCHANGED <<onvif, soap, told, announcing, gb, sip, mic, bridged>>
    BY <1>2 DEF vars, onvifVars, gbVars
  <2>3. Shape' /\ CallInv' /\ FinalStops' /\ StartsWanted'
    BY <1>2, <2>1, <2>2 DEF IInv, Shape, CallTyped, DataTyped, CallInv, Mutex, TogglesHead, TogglesRow,
         BootOrder, FinalStops, StartsWanted, Wanted
  <2>4. Stopped'
    BY <1>2, <2>1, <2>2 DEF IInv, Stopped, Pending, Running
  <2>5. RowIsApplied'
    BY <1>2, <2>1, <2>2 DEF IInv, RowIsApplied, Busy, Pending, Running
  <2>6. GbPhase'
    BY <1>2, <2>1, <2>2 DEF IInv, GbPhase, GbOff, GbOn
  <2>7. QED
    BY <2>3, <2>4, <2>5, <2>6 DEF IInv
<1>3. QED
  BY <1>1, <1>2

\* The runtime's state keeps its types: no handle, generation or slot is ever
\* outside the starts that were made, whatever calls are dropped.
THEOREM Typing == Spec => []TypeOK
<1>1. IInv => TypeOK
  BY DEF IInv, Shape, CallTyped, DataTyped, TypeOK
<1>2. QED
  BY <1>1, InitIInv, NextIInv, PTL DEF Spec

\* For any number of overlapping, refused and dropped PUT calls: when nobody
\* holds the mutex, a protocol whose last toggle succeeded runs exactly when
\* its row enables it, and the SIP server uses the stored secret.
THEOREM RunningMatchesStoreHolds == Spec => []RunningMatchesStore
<1>1. IInv => RunningMatchesStore
  <2> SUFFICES ASSUME IInv, lock = None, pc[Final] = "idle", NEW p \in Proto, applied[p] = "ok"
               PROVE  /\ Running(p) = store[p].enabled
                      /\ p = "gb28181" /\ Running(p) => gb.secret = store[p].secret
    BY DEF RunningMatchesStore
  <2>1. None \notin Users /\ Boot \in Users
    BY RuntimeAssumption DEF RuntimeAssumption, Users
  <2>2. \A c \in Users : pc[c] \notin Inside
    BY <2>1 DEF IInv, CallInv, Mutex
  <2>3. ~Busy(p)
    BY <2>1, <2>2 DEF Busy, Pending, StepsOf, Inside, Toggling
  <2>4. /\ Running(p) <=> store[p].enabled
        /\ p = "gb28181" /\ Running(p) => gb.secret = store[p].secret
    BY <2>3 DEF IInv, RowIsApplied
  <2>5. store[p].enabled \in BOOLEAN
    BY DEF IInv, Shape, CallTyped, Doc
  <2>6. Running(p) \in BOOLEAN
    BY DEF Running
  <2>7. QED
    BY <2>4, <2>5, <2>6
<1>2. QED
  BY <1>1, InitIInv, NextIInv, PTL DEF Spec

\* When GB28181 does not run and none of its toggles was dropped, no notifier,
\* no open microphone and no frame bridge of any generation is left.
THEOREM StoppedIsQuietHolds == Spec => []StoppedIsQuiet
<1>1. IInv => StoppedIsQuiet
  <2> SUFFICES ASSUME IInv, lock = None, gb.server = 0, "gb28181" \notin dropped
               PROVE  gb.notifier = 0 /\ mic = {} /\ bridged = {}
    BY DEF StoppedIsQuiet
  <2>1. None \notin Users
    BY RuntimeAssumption DEF RuntimeAssumption, Users
  <2>2. \A c \in Users : pc[c] \notin {"gb.join", "gb.start", "gb.spawn"}
    BY <2>1 DEF IInv, CallInv, Mutex, Inside, Toggling, GbSteps
  <2>3. GbOff
    BY <2>2 DEF IInv, GbPhase
  <2>4. QED
    BY <2>3 DEF GbOff
<1>2. QED
  BY <1>1, InitIInv, NextIInv, PTL DEF Spec
=============================================================================
