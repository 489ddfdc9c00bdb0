-------------------------- MODULE StreamHubProofs ---------------------------
(***************************************************************************)
(* Safety of one pipeline for any set of outputs, any ring capacity and    *)
(* any number of frames.  The inductive invariant has three parts that     *)
(* speak of different variables: who owns an output, what an output has    *)
(* heard, and what the lifecycle entry says of the source.                 *)
(*                                                                         *)
(* The second half is about the output that records, for any cameras,      *)
(* durations, capacities and any clock: what a frame, a pause, a failed    *)
(* rotation and a stop leave in the directory.                             *)
(***************************************************************************)
EXTENDS StreamHub, Recording, NaturalsInduction, WellFoundedInduction, SequenceTheorems, TLAPS

\* A task exists only for an id that was handed out, and ids are handed out
\* once: that is why Register cannot put an owned output back.
TasksAreKnown == \A t \in Tasks : pc[t] # "none" => t[1] \in added

OwnInv == TasksAreKnown /\ OneOwner

\* An output nobody has started yet has heard nothing.
NotStarted(o) ==
    \/ o \notin added
    \/ o \in registry
    \/ \E t \in Tasks : t[1] = o /\ pc[t] = "starting"

FeedInv ==
    /\ GapsAreAnnounced
    /\ \A o \in Outputs : from[o] <= rx[o] /\ rx[o] <= sent
    /\ \A o \in Outputs : NotStarted(o) => got[o] = {} /\ missed[o] = {}

\* The lifecycle entry follows the source task, which run() spawns once.
LifeInv ==
    /\ FailureStaysVisible
    /\ failed => src \in {"closing", "done"}
    /\ src = "acquiring" => lifecycle = "Starting"
    /\ src \in {"opening", "running"} => lifecycle = "Running"
    /\ ~running => src = "unspawned"
    /\ caller \in {"marked", "spawning"} => src = "unspawned" /\ running

-----------------------------------------------------------------------------

\* A new hub has the types.
LEMMA InitTypeOK == Init => TypeOK
<1> SUFFICES ASSUME Init PROVE TypeOK
  OBVIOUS
<1>1. /\ running \in BOOLEAN /\ stopSent \in BOOLEAN
      /\ failed \in BOOLEAN /\ viewer \in BOOLEAN
  BY Zenon DEF Init
<1>2. QED
  BY <1>1, HubAssumption
  DEF HubAssumption, Init, TypeOK, TaskSteps, SrcSteps, StreamStates

\* No step of a caller or task leaves the types.
LEMMA StepTypeOK == TypeOK /\ [Next]_vars => TypeOK'
<1> SUFFICES ASSUME TypeOK, [Next]_vars PROVE TypeOK'
  OBVIOUS
<1> USE HubAssumption DEF HubAssumption, TypeOK, TaskSteps, SrcSteps, StreamStates, Tasks,
        hubVars, srcVars, feedVars
<1>1. ASSUME NEW o \in Outputs, AddOutput(o) PROVE TypeOK'
  BY <1>1 DEF AddOutput, Register
<1>2. ASSUME NEW o \in Outputs, TryAddCheck(o) PROVE TypeOK'
  BY <1>2 DEF TryAddCheck
<1>3. ASSUME NEW o \in Outputs, AddOutputAtRuntime(o) PROVE TypeOK'
  BY <1>3 DEF AddOutputAtRuntime, Register
<1>4. ASSUME NEW o \in Outputs, RemoveOutput(o) PROVE TypeOK'
  BY <1>4 DEF RemoveOutput
<1>5. ASSUME NEW o \in Outputs, RunSpawn(o) PROVE TypeOK'
  BY <1>5 DEF RunSpawn
<1>6. CASE TryAddInsert
  BY <1>6 DEF TryAddInsert, Register
<1>7. CASE RunMark
  BY <1>7 DEF RunMark
<1>8. CASE RunCollect \/ RunReturn
  BY <1>8 DEF RunCollect, RunReturn
<1>9. CASE Stop
  BY <1>9 DEF Stop
<1>10. CASE SubscribeFrames
  BY <1>10 DEF SubscribeFrames
<1>11. ASSUME NEW t \in Tasks, TaskStep(t) PROVE TypeOK'
  <2> t[1] \in Outputs
    OBVIOUS
  <2>1. CASE TakeOutput(t)
    BY <2>1 DEF TakeOutput
  <2>2. CASE StartOutput(t)
    <3>1. pc' \in [Tasks -> TaskSteps]
      BY <2>2 DEF StartOutput
    <3>2. rx' \in [Outputs -> 0 .. MaxFrames] /\ from' \in [Outputs -> 0 .. MaxFrames]
      BY <2>2 DEF StartOutput
    <3>3. QED
      BY <2>2, <3>1, <3>2 DEF StartOutput
  <2>3. CASE RecvFrame(t) \/ StartOutputFails(t)
    BY <2>3 DEF RecvFrame, StartOutputFails
  <2>4. CASE RecvLagged(t)
    <3>1. /\ sent - Capacity \in 0 .. MaxFrames
          /\ rx[t[1]] + 1 .. sent - Capacity \subseteq 1 .. MaxFrames
      BY <2>4 DEF RecvLagged
    <3>2. QED
      BY <2>4, <3>1 DEF RecvLagged
  <2>5. CASE SendFrame(t) \/ StopOutput(t)
    BY <2>5 DEF SendFrame, StopOutput
  <2>6. QED
    BY <1>11, <2>1, <2>2, <2>3, <2>4, <2>5 DEF TaskStep
<1>12. ASSUME NEW t \in Tasks, TakeStopBranch(t) PROVE TypeOK'
  BY <1>12 DEF TakeStopBranch
<1>13. CASE SrcStep \/ SrcStopBranch
  <2>1. CASE SrcFails
    <3>1. failed' \in BOOLEAN
      BY <2>1, Zenon DEF SrcFails
    <3>2. QED
      BY <2>1, <3>1 DEF SrcFails, Transition
  <2>2. CASE SrcFrame
    BY <2>2 DEF SrcFrame
  <2>3. CASE SrcRegister \/ SrcAcquire \/ SrcOpen \/ SrcOpenFails
    BY <2>3 DEF SrcRegister, SrcAcquire, SrcOpen, SrcOpenFails, Transition
  <2>4. CASE SrcClosed \/ SrcStopBranch
    BY <2>4 DEF SrcClosed, SrcStopBranch, Transition
  <2>5. QED
    BY <1>13, <2>1, <2>2, <2>3, <2>4 DEF SrcStep
<1>14. CASE OtherAcquire \/ OtherRelease
  BY <1>14 DEF OtherAcquire, OtherRelease
<1>15. CASE UNCHANGED vars
  BY <1>15 DEF vars
<1>16. QED
  BY <1>1, <1>2, <1>3, <1>4, <1>5, <1>6, <1>7, <1>8, <1>9, <1>10, <1>11,
     <1>12, <1>13, <1>14, <1>15
  DEF Next

\* Type correctness of the hub's shared state, its tasks and its channel.
THEOREM Typing == Spec => []TypeOK
  BY InitTypeOK, StepTypeOK, PTL DEF Spec

-----------------------------------------------------------------------------

\* Ownership.  Only TakeOutput makes an owner, and it empties the registry
\* entry in the same step; only Register fills the registry, for a new id.
LEMMA StepOwn == TypeOK /\ OwnInv /\ [Next]_vars => OwnInv'
<1> SUFFICES ASSUME TypeOK, OwnInv, [Next]_vars PROVE OwnInv'
  OBVIOUS
<1> USE DEF OwnInv, TasksAreKnown, OneOwner, Owners, Owning
<1>1. ASSUME NEW o, NEW s, Register(o, s), o \in Outputs PROVE OwnInv'
  BY <1>1 DEF Register, TypeOK, Tasks
<1>2. ASSUME NEW o \in Outputs, AddOutput(o) \/ AddOutputAtRuntime(o) PROVE OwnInv'
  BY <1>1, <1>2, Zenon DEF AddOutput, AddOutputAtRuntime
<1>3. CASE TryAddInsert
  BY <1>1, <1>3 DEF TryAddInsert, TypeOK
<1>4. ASSUME NEW o \in Outputs, RemoveOutput(o) PROVE OwnInv'
  BY <1>4 DEF RemoveOutput
<1>5. ASSUME NEW o \in Outputs, RunSpawn(o) PROVE OwnInv'
  BY <1>5 DEF RunSpawn, TypeOK, Tasks
<1>6. ASSUME NEW t \in Tasks, TaskStep(t) \/ TakeStopBranch(t) PROVE OwnInv'
  <2>1. CASE TakeOutput(t)
    BY <2>1 DEF TakeOutput, TypeOK, Tasks
  <2>2. CASE pc[t] \in Owning /\ UNCHANGED <<registry, added>>
             /\ \E s \in TaskSteps : pc' = [pc EXCEPT ![t] = s]
    BY <2>2 DEF TypeOK, Tasks, TaskSteps
  <2>3. QED
    BY <1>6, <2>1, <2>2
    DEF TaskStep, TakeStopBranch, StartOutput, StartOutputFails, RecvFrame,
        RecvLagged, SendFrame, StopOutput, TaskSteps, hubVars
<1>7. CASE UNCHANGED <<registry, added, pc>>
  BY <1>7
<1>8. QED
  BY <1>2, <1>3, <1>4, <1>5, <1>6, <1>7
  DEF Next, vars, hubVars, TryAddCheck, RunMark, RunCollect, RunReturn, Stop,
      SubscribeFrames, SrcStep, SrcRegister, SrcAcquire, SrcOpen,
      SrcOpenFails, SrcFrame, SrcFails, SrcClosed, SrcStopBranch,
      OtherAcquire, OtherRelease

\* The lifecycle.
LEMMA StepLife == TypeOK /\ LifeInv /\ [Next]_vars => LifeInv'
<1> SUFFICES ASSUME TypeOK, LifeInv, [Next]_vars PROVE LifeInv'
  OBVIOUS
<1> USE DEF LifeInv, FailureStaysVisible
<1>1. CASE SrcStep \/ SrcStopBranch
  BY <1>1 DEF SrcStep, SrcRegister, SrcAcquire, SrcOpen, SrcOpenFails,
     SrcFrame, SrcFails, SrcClosed, SrcStopBranch, Transition, CanTransition,
     hubVars, srcVars, TypeOK
<1>2. CASE RunMark \/ RunCollect \/ RunReturn
  BY <1>2 DEF RunMark, RunCollect, RunReturn, srcVars, TypeOK
<1>3. CASE /\ UNCHANGED <<src, failed, lifecycle, running>>
           /\ caller' \in {"marked", "spawning"} => caller' = caller
  BY <1>3
<1>4. QED
  BY <1>1, <1>2, <1>3
  DEF Next, vars, hubVars, srcVars, AddOutput, TryAddCheck, TryAddInsert,
      AddOutputAtRuntime, RemoveOutput, RunSpawn, Stop, SubscribeFrames,
      TaskStep, TakeStopBranch, TakeOutput, StartOutput, StartOutputFails,
      RecvFrame, RecvLagged, SendFrame, StopOutput, OtherAcquire, OtherRelease

\* Delivery.  A receiver's history is the interval from its subscription to
\* its cursor; a step either extends both ends together or starts afresh.
LEMMA StepFeed == TypeOK /\ TypeOK' /\ OwnInv /\ FeedInv /\ [Next]_vars => FeedInv'
<1> SUFFICES ASSUME TypeOK, TypeOK', OwnInv, FeedInv, [Next]_vars PROVE FeedInv'
  OBVIOUS
<1> USE HubAssumption DEF HubAssumption
<1>f. ASSUME UNCHANGED feedVars, \A o \in Outputs : NotStarted(o)' => NotStarted(o)
      PROVE  FeedInv'
  BY <1>f DEF FeedInv, GapsAreAnnounced, feedVars
<1>1. ASSUME NEW o, NEW s, Register(o, s), o \in Outputs, UNCHANGED feedVars
      PROVE  FeedInv'
  <2>1. \A q \in Outputs : NotStarted(q)' => NotStarted(q)
    BY <1>1 DEF Register, NotStarted, TypeOK, Tasks
  <2>2. QED
    BY <1>f, <1>1, <2>1
<1>2. ASSUME NEW o \in Outputs, AddOutput(o) \/ AddOutputAtRuntime(o) PROVE FeedInv'
  BY <1>1, <1>2, Zenon DEF AddOutput, AddOutputAtRuntime
<1>3. CASE TryAddInsert
  BY <1>1, <1>3 DEF TryAddInsert, TypeOK
<1>4. ASSUME NEW o \in Outputs, RemoveOutput(o) PROVE FeedInv'
  BY <1>f, <1>4 DEF RemoveOutput, NotStarted
<1>5. ASSUME NEW o \in Outputs, RunSpawn(o) PROVE FeedInv'
  BY <1>f, <1>5 DEF RunSpawn, NotStarted, TypeOK, Tasks
<1>6. ASSUME NEW t \in Tasks, TakeOutput(t) PROVE FeedInv'
  BY <1>f, <1>6 DEF TakeOutput, NotStarted, TypeOK, Tasks
<1>7. ASSUME NEW t \in Tasks, StartOutput(t) PROVE FeedInv'
  <2> DEFINE o == t[1]
  <2>1. o \in Outputs /\ NotStarted(o)
    BY <1>7 DEF StartOutput, NotStarted, Tasks
  <2>2. \A q \in Outputs : NotStarted(q)' => NotStarted(q)
    BY <1>7 DEF StartOutput, NotStarted, TypeOK, Tasks, hubVars
  <2>3. got[o] = {} /\ missed[o] = {}
    BY <2>1 DEF FeedInv
  <2>4. rx'[o] = sent /\ from'[o] = sent /\ sent + 1 .. sent = {}
    BY <1>7, <2>1 DEF StartOutput, TypeOK
  <2>5. QED
    BY <1>7, <2>1, <2>2, <2>3, <2>4 DEF StartOutput, FeedInv, GapsAreAnnounced, TypeOK
<1>8. ASSUME NEW t \in Tasks, RecvFrame(t) PROVE FeedInv'
  <2> DEFINE o == t[1]
  <2>1. o \in Outputs /\ ~NotStarted(o)
    BY <1>8 DEF RecvFrame, NotStarted, OwnInv, OneOwner, TasksAreKnown, Owners, Owning, Tasks
  <2>2. \A q \in Outputs : NotStarted(q)' => NotStarted(q)
    BY <1>8 DEF RecvFrame, NotStarted, TypeOK, Tasks, hubVars
  <2>3. /\ rx'[o] = rx[o] + 1 /\ rx[o] < sent
        /\ got'[o] = got[o] \cup {rx[o] + 1}
    BY <1>8, <2>1 DEF RecvFrame, TypeOK
  <2>4. from[o] + 1 .. rx[o] + 1 = (from[o] + 1 .. rx[o]) \cup {rx[o] + 1}
    BY <2>1 DEF FeedInv, TypeOK
  <2>5. rx[o] + 1 \notin missed[o]
    BY <2>1 DEF FeedInv, GapsAreAnnounced, TypeOK
  <2>6. QED
    BY <1>8, <2>1, <2>2, <2>3, <2>4, <2>5
    DEF RecvFrame, FeedInv, GapsAreAnnounced, TypeOK
<1>9. ASSUME NEW t \in Tasks, RecvLagged(t) PROVE FeedInv'
  <2> DEFINE o == t[1]
             skip == rx[o] + 1 .. sent - Capacity
  <2>1. o \in Outputs /\ ~NotStarted(o)
    BY <1>9 DEF RecvLagged, NotStarted, OwnInv, OneOwner, TasksAreKnown, Owners, Owning, Tasks
  <2>2. \A q \in Outputs : NotStarted(q)' => NotStarted(q)
    BY <1>9 DEF RecvLagged, NotStarted, hubVars
  <2>3. /\ rx'[o] = sent - Capacity /\ rx[o] < sent - Capacity
        /\ missed'[o] = missed[o] \cup skip
    BY <1>9, <2>1 DEF RecvLagged, TypeOK
  <2>4. from[o] + 1 .. sent - Capacity = (from[o] + 1 .. rx[o]) \cup skip
    BY <2>1, <2>3 DEF FeedInv, TypeOK
  <2>5. got[o] \cap skip = {}
    BY <2>1 DEF FeedInv, GapsAreAnnounced, TypeOK
  <2>6. QED
    BY <1>9, <2>1, <2>2, <2>3, <2>4, <2>5
    DEF RecvLagged, FeedInv, GapsAreAnnounced, TypeOK
<1>10. ASSUME NEW t \in Tasks,
              \/ StartOutputFails(t) \/ TakeStopBranch(t)
              \/ SendFrame(t) \/ StopOutput(t)
       PROVE FeedInv'
  BY <1>f, <1>10
  DEF StartOutputFails, TakeStopBranch, SendFrame, StopOutput, NotStarted,
      TypeOK, Tasks, hubVars
<1>11. CASE SrcFrame
  <2>1. sent <= sent' /\ UNCHANGED <<rx, from, got, missed, registry, added, pc>>
    BY <1>11 DEF SrcFrame, TypeOK, hubVars
  <2>2. QED
    BY <2>1 DEF FeedInv, GapsAreAnnounced, NotStarted, TypeOK
<1>12. CASE UNCHANGED <<registry, added, pc, feedVars>>
  BY <1>f, <1>12 DEF NotStarted
<1>13. QED
  BY <1>2, <1>3, <1>4, <1>5, <1>6, <1>7, <1>8, <1>9, <1>10, <1>11, <1>12
  DEF Next, TaskStep, vars, hubVars, TryAddCheck, RunMark, RunCollect,
      RunReturn, Stop, SubscribeFrames, SrcStep, SrcRegister, SrcAcquire,
      SrcOpen, SrcOpenFails, SrcFails, SrcClosed, SrcStopBranch,
      OtherAcquire, OtherRelease

-----------------------------------------------------------------------------

IInv == TypeOK /\ OwnInv /\ FeedInv /\ LifeInv

\* A new hub has no tasks and no receivers.
LEMMA InitIInv == Init => IInv
<1> SUFFICES ASSUME Init PROVE IInv
  OBVIOUS
<1>1. OwnInv
  BY DEF Init, OwnInv, TasksAreKnown, OneOwner, Owners, Owning
<1>2. FeedInv
  BY DEF Init, FeedInv, GapsAreAnnounced
<1>3. LifeInv
  BY Zenon DEF Init, LifeInv, FailureStaysVisible
<1>4. QED
  BY InitTypeOK, <1>1, <1>2, <1>3 DEF IInv

\* The invariant holds in every behaviour.
LEMMA IInvHolds == Spec => []IInv
<1>1. IInv /\ [Next]_vars => IInv'
  BY StepTypeOK, StepOwn, StepFeed, StepLife DEF IInv
<1>2. QED
  BY InitIInv, <1>1, PTL DEF Spec

\* However run() and the handle's calls race, an output is started, fed and
\* stopped by one task only, and never while it is still in the registry.
THEOREM OneOwnerHolds == Spec => []OneOwner
<1>1. IInv => OneOwner
  BY DEF IInv, OwnInv
<1>2. QED
  BY <1>1, IInvHolds, PTL

\* For any ring capacity, every frame broadcast since an output subscribed
\* is delivered to it once or announced as Lagged.
THEOREM GapsAreAnnouncedHolds == Spec => []GapsAreAnnounced
<1>1. IInv => GapsAreAnnounced
  BY DEF IInv, FeedInv
<1>2. QED
  BY <1>1, IInvHolds, PTL

\* The cleanup after a source error never turns Error into Stopped.
THEOREM FailureStaysVisibleHolds == Spec => []FailureStaysVisible
<1>1. IInv => FailureStaysVisible
  BY DEF IInv, LifeInv
<1>2. QED
  BY <1>1, IInvHolds, PTL

-----------------------------------------------------------------------------
(* The archive: what holds of every file                                   *)

\* Consecutive frames; a keyframe after the first came within the duration;
\* the name is the second of the opening.
SoundFile(f) ==
    /\ \A j \in 1 .. Len(f.frames) - 1 : f.frames[j + 1].n = f.frames[j].n + 1
    /\ \A j \in 2 .. Len(f.frames) :
          f.frames[j].key => (f.frames[j].at - f.opened) \div Second < Duration
    /\ f.sec = f.opened \div Second

\* Two files have two names.
OwnNames(files) == \A i, j \in 1 .. Len(files) : SameName(files[i], files[j]) => i = j

\* A directory the code can have left.
Orderly(files) ==
    /\ files \in Seq(File)
    /\ \A i \in 1 .. Len(files) : SoundFile(files[i])
    /\ OwnNames(files)

\* The open segment a of camera k, when n frames have been delivered.
OpenSegment(k, a, n) ==
    /\ a \in File /\ SoundFile(a)
    /\ a.cam = k /\ ~a.done
    /\ Len(a.frames) \in 1 .. n /\ a.frames[Len(a.frames)].n = n

RecorderTyped ==
    /\ clock \in Clock /\ paused \in BOOLEAN
    /\ task \in [Cameras -> {"off", "run"}]
    /\ slot \in [Cameras -> [sec : Clock] \cup {NoSegment}]
    /\ listed \in [Cameras -> BOOLEAN]
    /\ active \in [Cameras -> File \cup {NoSegment}]
    /\ wasPaused \in [Cameras -> BOOLEAN]
    /\ count \in [Cameras -> Nat]
    /\ last \in [Cameras -> 0 .. MaxVideo]
    /\ created \in [Cameras -> 0 .. MaxCreated]

\* An output that recorded its last frame writes the segment it published; one
\* that held it has none.
OutputInv(k) ==
    /\ active[k] # NoSegment => OpenSegment(k, active[k], last[k])
    /\ wasPaused[k] \/ task[k] = "off" => active[k] = NoSegment
    /\ count[k] <= last[k]
    /\ task[k] = "run" /\ slot[k] # NoSegment /\ ~wasPaused[k] =>
          active[k] # NoSegment /\ active[k].sec = slot[k].sec

\* What is not finished in the directory is open in an output.
OpenFiles(files, open) == \A i \in 1 .. Len(files) : ~files[i].done => files[i] = open[files[i].cam]

\* Seen from camera k, whose open segment is f.
Pending(files, open, k, f) ==
    \A i \in 1 .. Len(files) :
        ~files[i].done => files[i] = f \/ (files[i].cam # k /\ files[i] = open[files[i].cam])

RecorderInv == RecorderTyped /\ Orderly(dir) /\ OpenFiles(dir, active) /\ \A k \in Cameras : OutputInv(k)

-----------------------------------------------------------------------------
(* What the operations on the directory keep                               *)

\* A part of a sequence, element by element.
LEMMA PartOf ==
    ASSUME NEW S, NEW s \in Seq(S), NEW a \in Nat \ {0}, NEW b \in Nat, b <= Len(s), a <= b + 1,
           NEW t, t = SubSeq(s, a, b)
    PROVE  /\ t \in Seq(S) /\ Len(t) = b - a + 1
           /\ \A j \in 1 .. b - a + 1 : t[j] = s[a + j - 1]
<1>1. Len(s) \in Nat /\ \A i \in 1 .. Len(s) : s[i] \in S BY LenProperties, ElementOfSeq
<1>2. \A i \in a .. b : i \in 1 .. Len(s) BY <1>1
<1>3. a \in Int /\ b \in Int /\ \A i \in a .. b : s[i] \in S BY <1>1, <1>2
<1>4. /\ t \in Seq(S) /\ Len(t) = IF a <= b THEN b - a + 1 ELSE 0
      /\ \A i \in 1 .. b - a + 1 : t[i] = s[a + i - 1]
  BY <1>3, SubSeqProperties
<1>5. QED BY <1>4

\* RemoveAt, element by element.
LEMMA RemovedAt ==
    ASSUME NEW S, NEW s \in Seq(S), NEW i \in 1 .. Len(s), NEW t, t = RemoveAt(s, i)
    PROVE  /\ t \in Seq(S) /\ Len(t) = Len(s) - 1
           /\ \A j \in 1 .. Len(t) : t[j] = IF j < i THEN s[j] ELSE s[j + 1]
<1>1. PICK n \in Nat : n = Len(s) BY LenProperties
<1>2. PICK a : a = SubSeq(s, 1, i - 1) OBVIOUS
<1>3. PICK b : b = SubSeq(s, i + 1, n) OBVIOUS
<1>a. /\ a \in Seq(S) /\ Len(a) = (i - 1) - 1 + 1
      /\ \A j \in 1 .. (i - 1) - 1 + 1 : a[j] = s[1 + j - 1]
  <2>1. 1 \in Nat \ {0} /\ i - 1 \in Nat /\ i - 1 <= n /\ 1 <= (i - 1) + 1 BY <1>1
  <2>2. QED BY <1>1, <1>2, <2>1, PartOf
<1>b. /\ b \in Seq(S) /\ Len(b) = n - (i + 1) + 1
      /\ \A j \in 1 .. n - (i + 1) + 1 : b[j] = s[(i + 1) + j - 1]
  <2>1. i + 1 \in Nat \ {0} /\ n <= n /\ i + 1 <= n + 1 BY <1>1
  <2>2. QED BY <1>1, <1>3, <2>1, PartOf
<1>4. t = a \o b BY <1>1, <1>2, <1>3 DEF RemoveAt
<1>5. /\ t \in Seq(S) /\ Len(t) = Len(a) + Len(b)
      /\ \A j \in 1 .. Len(a) + Len(b) : t[j] = IF j <= Len(a) THEN a[j] ELSE b[j - Len(a)]
  <2>1. a \in Seq(S) /\ b \in Seq(S) BY <1>a, <1>b
  <2>2. QED BY <1>4, <2>1, ConcatProperties
<1>c. i \in Int /\ i >= 1 /\ i <= n BY <1>1
<1>d. Len(a) = i - 1 /\ Len(b) = n - i BY <1>1, <1>a, <1>b
<1>6. Len(t) = n - 1 BY <1>1, <1>5, <1>d, <1>c
<1>7. ASSUME NEW j \in 1 .. n - 1 PROVE t[j] = IF j < i THEN s[j] ELSE s[j + 1]
  <2>0. t[j] = IF j <= i - 1 THEN a[j] ELSE b[j - (i - 1)] BY <1>1, <1>5, <1>d, <1>c
  <2>1. CASE j < i
    <3>1. j \in 1 .. (i - 1) - 1 + 1 /\ 1 + j - 1 = j BY <2>1, <1>1, <1>c
    <3>2. QED BY <2>0, <2>1, <3>1, <1>1, <1>a, <1>c
  <2>2. CASE ~(j < i)
    <3>1. j - (i - 1) \in 1 .. n - (i + 1) + 1 /\ (i + 1) + (j - (i - 1)) - 1 = j + 1
      BY <2>2, <1>1, <1>c
    <3>2. QED BY <2>0, <2>2, <3>1, <1>1, <1>b, <1>c
  <2>3. QED BY <2>1, <2>2
<1>8. QED BY <1>1, <1>5, <1>6, <1>7

\* A directory without a new file.
Within(new, files) == \A j \in 1 .. Len(new) : \E i \in 1 .. Len(files) : files[i] = new[j]

\* The files left are those of another name.
LEMMA WithoutKeeps ==
    ASSUME NEW files, Orderly(files), NEW f, NEW t, t = Without(files, f)
    PROVE  /\ Orderly(t)
           /\ \A j \in 1 .. Len(t) : ~SameName(f, t[j])
           /\ \A i \in 1 .. Len(files) : ~SameName(f, files[i]) => \E j \in 1 .. Len(t) : t[j] = files[i]
           /\ Within(t, files)
<1>0. files \in Seq(File) /\ DOMAIN files = 1 .. Len(files) BY LenProperties DEF Orderly
<1> PICK n \in Nat : n = Len(files) BY <1>0, LenProperties
<1> DEFINE same == {i \in DOMAIN files : SameName(f, files[i])}
<1>1. CASE same = {}
  <2>1. t = files BY <1>1 DEF Without
  <2>2. QED BY <2>1, <1>1, <1>0 DEF Within
<1>2. CASE same # {}
  <2>1. PICK i \in same : t = RemoveAt(files, i) BY <1>2 DEF Without
  <2>2. i \in 1 .. n /\ SameName(f, files[i]) BY <1>0
  <2>3. /\ t \in Seq(File) /\ Len(t) = n - 1
        /\ \A j \in 1 .. Len(t) : t[j] = IF j < i THEN files[j] ELSE files[j + 1]
    BY <1>0, <2>1, <2>2, RemovedAt
  <2> DEFINE at(j) == IF j < i THEN j ELSE j + 1
  <2>4. \A j \in 1 .. Len(t) : at(j) \in 1 .. n /\ at(j) # i /\ t[j] = files[at(j)]
    BY <2>2, <2>3
  <2>5. \A j, l \in 1 .. Len(t) : at(j) = at(l) => j = l
    BY <2>2, <2>3
  <2>6. \A x \in 1 .. n : x # i => \E j \in 1 .. Len(t) : at(j) = x
    <3> TAKE x \in 1 .. n
    <3> HAVE x # i
    <3>1. CASE x < i BY <3>1, <2>2, <2>3
    <3>2. CASE x > i
      <4>1. x - 1 \in 1 .. Len(t) /\ at(x - 1) = x BY <3>2, <2>2, <2>3
      <4>2. QED BY <4>1
    <3>3. QED BY <3>1, <3>2, <2>2
  <2> HIDE DEF at
  <2>7. OwnNames(files) /\ \A x \in 1 .. n : SoundFile(files[x]) BY DEF Orderly
  <2>8. OwnNames(t)
    <3> SUFFICES ASSUME NEW j \in 1 .. Len(t), NEW l \in 1 .. Len(t), SameName(t[j], t[l])
                 PROVE  j = l
      BY DEF OwnNames
    <3>1. at(j) = at(l) BY <2>4, <2>7 DEF OwnNames
    <3>2. QED BY <3>1, <2>5
  <2>9. Orderly(t) BY <2>3, <2>4, <2>7, <2>8 DEF Orderly
  <2>10. ASSUME NEW j \in 1 .. Len(t) PROVE ~SameName(f, t[j])
    <3>1. SUFFICES ASSUME SameName(f, files[at(j)]) PROVE FALSE BY <2>4
    <3>2. SameName(files[i], files[at(j)]) BY <3>1, <2>2 DEF SameName
    <3>3. at(j) = i BY <3>2, <2>2, <2>4, <2>7 DEF OwnNames
    <3>4. QED BY <3>3, <2>4
  <2>11. ASSUME NEW x \in 1 .. n, ~SameName(f, files[x]) PROVE \E j \in 1 .. Len(t) : t[j] = files[x]
    <3>1. x # i BY <2>11, <2>2
    <3>2. PICK j \in 1 .. Len(t) : at(j) = x BY <3>1, <2>6
    <3>3. QED BY <3>2, <2>4
  <2>12. Within(t, files) BY <2>4 DEF Within
  <2>13. QED BY <2>9, <2>10, <2>11, <2>12
<1>3. QED BY <1>1, <1>2

\* The directory with one more file.
Added(files, g) == Append(files, g)

LEMMA AppendKeeps ==
    ASSUME NEW files, Orderly(files), NEW g \in File, SoundFile(g),
           \A i \in 1 .. Len(files) : ~SameName(g, files[i]),
           NEW t, t = Added(files, g)
    PROVE  /\ Orderly(t)
           /\ \A i \in 1 .. Len(files) : \E j \in 1 .. Len(t) : t[j] = files[i]
           /\ \E j \in 1 .. Len(t) : t[j] = g
           /\ \A j \in 1 .. Len(t) : t[j] = g \/ \E i \in 1 .. Len(files) : files[i] = t[j]
<1>0. files \in Seq(File) BY DEF Orderly
<1> PICK n \in Nat : n = Len(files) BY <1>0, LenProperties
<1>1. /\ t \in Seq(File) /\ Len(t) = n + 1 /\ t[n + 1] = g
      /\ \A i \in 1 .. n : t[i] = files[i]
  BY <1>0, AppendProperties DEF Added
<1>2. \A i \in 1 .. n + 1 : i \in 1 .. n \/ i = n + 1 OBVIOUS
<1>3. \A i \in 1 .. n : i \in 1 .. n + 1 OBVIOUS
<1>4. \A i \in 1 .. n : SoundFile(files[i]) BY DEF Orderly
<1>5. \A i \in 1 .. n + 1 : SoundFile(t[i]) BY <1>1, <1>2, <1>4
<1>6. OwnNames(t)
  <2> SUFFICES ASSUME NEW i \in 1 .. n + 1, NEW j \in 1 .. n + 1, SameName(t[i], t[j])
               PROVE  i = j
    BY <1>1 DEF OwnNames
  <2>1. CASE i \in 1 .. n /\ j \in 1 .. n BY <2>1, <1>1 DEF Orderly, OwnNames
  <2>2. CASE i = n + 1 /\ j \in 1 .. n BY <2>2, <1>1
  <2>3. CASE i \in 1 .. n /\ j = n + 1
    <3>1. SameName(g, files[i]) BY <2>3, <1>1 DEF SameName
    <3>2. QED BY <3>1, <2>3
  <2>4. QED BY <1>2, <2>1, <2>2, <2>3
<1>7. Orderly(t) BY <1>1, <1>5, <1>6 DEF Orderly
<1>8. n + 1 \in 1 .. n + 1 OBVIOUS
<1>9. \A j \in 1 .. n + 1 : t[j] = g \/ \E i \in 1 .. n : files[i] = t[j] BY <1>1, <1>2
<1>10. QED BY <1>1, <1>3, <1>7, <1>8, <1>9

\* The files of t are g, and files other than f.
Comes(files, f, g, t) ==
    \A j \in 1 .. Len(t) : t[j] = g \/ (t[j] # f /\ \E i \in 1 .. Len(files) : files[i] = t[j])

LEMMA PendingMoves ==
    ASSUME NEW files, NEW f, NEW g, NEW t, NEW open, NEW k,
           Pending(files, open, k, f), Comes(files, f, g, t)
    PROVE  Pending(t, open, k, g)
BY DEF Pending, Comes

LEMMA ReplaceKeeps ==
    ASSUME NEW files, Orderly(files), NEW f, NEW g \in File, SoundFile(g), SameName(f, g),
           NEW t, t = ReplaceAll(files, f, g)
    PROVE  /\ Orderly(t)
           /\ \A i \in 1 .. Len(files) : files[i] # f => \E j \in 1 .. Len(t) : t[j] = files[i]
           /\ Comes(files, f, g, t)
<1>0. files \in Seq(File) /\ \A i \in 1 .. Len(files) : files[i] \in File
  BY ElementOfSeq DEF Orderly
<1> PICK n \in Nat : n = Len(files) BY <1>0, LenProperties
<1>1. t = [i \in 1 .. n |-> IF files[i] = f THEN g ELSE files[i]] BY DEF ReplaceAll
<1>2. t \in [1 .. n -> File] BY <1>0, <1>1
<1>3. t \in Seq(File) BY <1>2, IsASeq
<1>4. Len(t) = n BY <1>2, <1>3, LenProperties
<1>5. \A i \in 1 .. n : t[i] = IF files[i] = f THEN g ELSE files[i] BY <1>1
<1>6. \A i \in 1 .. n : SoundFile(files[i]) BY DEF Orderly
<1>7. \A i \in 1 .. n : SoundFile(t[i]) BY <1>5, <1>6
<1>8. \A i \in 1 .. n : t[i].cam = files[i].cam /\ t[i].sec = files[i].sec BY <1>5 DEF SameName
<1>9. \A i, j \in 1 .. n : SameName(t[i], t[j]) => SameName(files[i], files[j]) BY <1>8 DEF SameName
<1>10. OwnNames(t) BY <1>4, <1>9 DEF Orderly, OwnNames
<1>11. Orderly(t) BY <1>3, <1>4, <1>7, <1>10 DEF Orderly
<1>12. Comes(files, f, g, t) BY <1>4, <1>5 DEF Comes
<1>13. QED BY <1>4, <1>5, <1>11, <1>12

LEMMA FlushedKeeps ==
    ASSUME NEW files, Orderly(files), NEW f, NEW g \in File, SoundFile(g), SameName(f, g),
           NEW t, t = Flushed(files, f, g)
    PROVE  /\ Orderly(t)
           /\ \A i \in 1 .. Len(files) : files[i] # f => \E j \in 1 .. Len(t) : t[j] = files[i]
           /\ Comes(files, f, g, t)
<1>0. files \in Seq(File) BY DEF Orderly
<1>1. CASE f \notin ToSet(files)
  <2>1. t = files BY <1>1 DEF Flushed
  <2>2. \A i \in 1 .. Len(files) : files[i] # f BY <1>0, <1>1, LenProperties DEF ToSet
  <2>3. Comes(files, f, g, t) BY <2>1, <2>2 DEF Comes
  <2>4. QED BY <2>1, <2>3
<1>2. CASE f \in ToSet(files)
  <2>1. PICK w : w = Without(files, f) OBVIOUS
  <2>2. /\ Orderly(w)
        /\ \A j \in 1 .. Len(w) : ~SameName(f, w[j])
        /\ \A i \in 1 .. Len(files) : ~SameName(f, files[i]) => \E j \in 1 .. Len(w) : w[j] = files[i]
        /\ Within(w, files)
    BY <2>1, WithoutKeeps
  <2>3. \A j \in 1 .. Len(w) : ~SameName(g, w[j]) BY <2>2 DEF SameName
  <2>4. t = Added(w, g) BY <1>2, <2>1 DEF Flushed, Added
  <2>5. /\ Orderly(t) /\ \A i \in 1 .. Len(w) : \E j \in 1 .. Len(t) : t[j] = w[i]
        /\ \A j \in 1 .. Len(t) : t[j] = g \/ \E i \in 1 .. Len(w) : w[i] = t[j]
    <3>1. Orderly(w) /\ \A j \in 1 .. Len(w) : ~SameName(g, w[j]) BY <2>2, <2>3
    <3>2. QED BY <2>4, <3>1, AppendKeeps
  <2>6. ASSUME NEW i \in 1 .. Len(files), files[i] # f PROVE \E j \in 1 .. Len(t) : t[j] = files[i]
    <3>1. PICK l \in 1 .. Len(files) : files[l] = f BY <1>0, <1>2, LenProperties DEF ToSet
    <3>2. ~SameName(f, files[i])
      <4>1. SUFFICES ASSUME SameName(files[l], files[i]) PROVE FALSE BY <3>1
      <4>2. l = i BY <4>1 DEF Orderly, OwnNames
      <4>3. QED BY <4>2, <3>1, <2>6
    <3>3. PICK j \in 1 .. Len(w) : w[j] = files[i] BY <3>2, <2>2
    <3>4. QED BY <3>3, <2>5
  <2>7. \A j \in 1 .. Len(w) : w[j] # f BY <2>2 DEF SameName
  <2>8. Comes(files, f, g, t)
    <3> SUFFICES ASSUME NEW j \in 1 .. Len(t), t[j] # g
                 PROVE  t[j] # f /\ \E i \in 1 .. Len(files) : files[i] = t[j]
      BY DEF Comes
    <3>1. PICK l \in 1 .. Len(w) : w[l] = t[j] BY <2>5
    <3>2. QED BY <2>2, <2>7, <3>1 DEF Within
  <2>9. QED BY <2>5, <2>6, <2>8
<1>3. QED BY <1>1, <1>2

LEMMA CreatedKeeps ==
    ASSUME NoSegmentAssumption, NEW files, Orderly(files), NEW f \in File, SoundFile(f), NEW t, t = Created(files, f)
    PROVE  /\ Orderly(t)
           /\ \A i \in 1 .. Len(files) :
                 ~SameName(f, files[i]) => \E j \in 1 .. Len(t) : t[j] = files[i]
           /\ Comes(files, NoSegment, f, t)
<1>1. PICK w : w = Without(files, f) OBVIOUS
<1>2. /\ Orderly(w)
      /\ \A j \in 1 .. Len(w) : ~SameName(f, w[j])
      /\ \A i \in 1 .. Len(files) : ~SameName(f, files[i]) => \E j \in 1 .. Len(w) : w[j] = files[i]
      /\ Within(w, files)
  BY <1>1, WithoutKeeps
<1>3. t = Added(w, f) BY <1>1 DEF Created, Added
<1>4. /\ Orderly(t) /\ \A i \in 1 .. Len(w) : \E j \in 1 .. Len(t) : t[j] = w[i]
      /\ \A j \in 1 .. Len(t) : t[j] = f \/ \E i \in 1 .. Len(w) : w[i] = t[j]
  <2>1. Orderly(w) /\ \A j \in 1 .. Len(w) : ~SameName(f, w[j]) BY <1>2
  <2>2. QED BY <2>1, <1>3, AppendKeeps
<1>5. \A i \in 1 .. Len(files) : files[i] # NoSegment BY ElementOfSeq DEF Orderly, NoSegmentAssumption
<1>6. Comes(files, NoSegment, f, t)
  <2> SUFFICES ASSUME NEW j \in 1 .. Len(t), t[j] # f
               PROVE  t[j] # NoSegment /\ \E i \in 1 .. Len(files) : files[i] = t[j]
    BY DEF Comes
  <2>1. PICK l \in 1 .. Len(w) : w[l] = t[j] BY <1>4
  <2>2. PICK i \in 1 .. Len(files) : files[i] = w[l] BY <1>2 DEF Within
  <2>3. QED BY <1>5, <2>1, <2>2
<1>7. QED BY <1>2, <1>4, <1>6

LEMMA FinishedIsSound ==
    ASSUME NEW f \in File, SoundFile(f), Len(f.frames) \in 0 .. MaxVideo, NEW g, g = Finished(f)
    PROVE  g \in File /\ SoundFile(g) /\ SameName(f, g) /\ g.done /\ g.opened = f.opened
<1>1. g \in File BY DEF Finished, File
<1>2. g.cam = f.cam /\ g.sec = f.sec /\ g.opened = f.opened /\ g.frames = f.frames /\ g.done = TRUE
  BY DEF Finished, File
<1>3. QED BY <1>1, <1>2 DEF SoundFile, SameName

\* Nothing that is finished leaves the directory.
Stays(files, new) ==
    \A i \in 1 .. Len(files) : files[i].done => \E j \in 1 .. Len(new) : new[j] = files[i]

LEMMA ClosedKeeps ==
    ASSUME NEW files, Orderly(files), NEW k, NEW n \in 0 .. MaxVideo, MaxVideo \in Nat,
           NEW a, a # NoSegment => OpenSegment(k, a, n),
           NEW open, Pending(files, open, k, a), NEW t, t = Closed(files, a)
    PROVE  Orderly(t) /\ Stays(files, t) /\ Pending(t, open, k, NoSegment)
<1>1. CASE a = NoSegment BY <1>1 DEF Closed, Stays
<1>2. CASE a # NoSegment
  <2>1. a \in File /\ SoundFile(a) /\ Len(a.frames) \in 0 .. MaxVideo /\ ~a.done
    BY <1>2 DEF OpenSegment
  <2>2. PICK g : g = Finished(a) OBVIOUS
  <2>3. g \in File /\ SoundFile(g) /\ SameName(a, g) /\ g.done BY <2>1, <2>2, FinishedIsSound
  <2>4. t = Flushed(files, a, g) BY <1>2, <2>2 DEF Closed
  <2>5. /\ Orderly(t)
        /\ \A i \in 1 .. Len(files) : files[i] # a => \E j \in 1 .. Len(t) : t[j] = files[i]
        /\ Comes(files, a, g, t)
    BY <2>3, <2>4, FlushedKeeps
  <2>6. Stays(files, t) BY <2>1, <2>5 DEF Stays
  <2>7. Pending(t, open, k, g) BY <2>5, PendingMoves
  <2>8. Pending(t, open, k, NoSegment) BY <2>3, <2>7 DEF Pending
  <2>9. QED BY <2>5, <2>6, <2>8
<1>3. QED BY <1>1, <1>2

LEMMA SmallestOf ==
    ASSUME NEW S, S \subseteq Nat, S # {}
    PROVE  Min(S) \in S
<1>1. PICK m \in S : \A k \in S : ~(<<k, m>> \in OpToRel(<, Nat))
  BY NatLessThanWellFounded, WFMin
<1>2. \A k \in S : ~(k < m) BY <1>1 DEF OpToRel
<1>3. \A k \in S : m =< k BY <1>2
<1>4. QED BY <1>3 DEF Min

LEMMA PrunedKeeps ==
    ASSUME NEW files, Orderly(files), NEW t, t = Pruned(files)
    PROVE  Orderly(t) /\ Within(t, files)
<1>0. files \in Seq(File) BY DEF Orderly
<1> PICK n \in Nat : n = Len(files) BY <1>0, LenProperties
<1> DEFINE Drop(j) == SubSeq(files, j + 1, Len(files))
           S == {j \in 0 .. Len(files) : j = Len(files) \/ Total(Drop(j)) <= MaxCapacity}
<1>1. CASE MaxCapacity = 0 BY <1>1 DEF Pruned, Within
<1>2. CASE MaxCapacity # 0
  <2>1. S \subseteq Nat /\ n \in S OBVIOUS
  <2>2. PICK m \in 0 .. n : m = Min(S) BY <2>1, SmallestOf
  <2>3. t = SubSeq(files, m + 1, n) BY <1>2, <2>2 DEF Pruned
  <2>4. m + 1 \in Nat \ {0} /\ n <= n /\ m + 1 <= n + 1 OBVIOUS
  <2>5. /\ t \in Seq(File) /\ Len(t) = n - (m + 1) + 1
        /\ \A j \in 1 .. n - (m + 1) + 1 : t[j] = files[(m + 1) + j - 1]
    BY <1>0, <2>3, <2>4, PartOf
  <2>6. Len(t) = n - m /\ \A j \in 1 .. n - m : m + j \in 1 .. n /\ t[j] = files[m + j]
    BY <2>5
  <2>7. \A j \in 1 .. Len(t) : SoundFile(t[j]) BY <2>6 DEF Orderly
  <2>8. OwnNames(t)
    <3> SUFFICES ASSUME NEW i \in 1 .. n - m, NEW j \in 1 .. n - m, SameName(t[i], t[j])
                 PROVE  i = j
      BY <2>6 DEF OwnNames
    <3>1. m + i = m + j BY <2>6 DEF Orderly, OwnNames
    <3>2. QED BY <3>1
  <2>9. Within(t, files) BY <2>6 DEF Within
  <2>10. QED BY <2>5, <2>7, <2>8, <2>9 DEF Orderly
<1>3. QED BY <1>1, <1>2

-----------------------------------------------------------------------------
(* What a frame does to the segment                                        *)

\* A segment that may take frame number n + 1 now.
Ready(k, f, n, key) ==
    /\ f \in File /\ SoundFile(f) /\ f.cam = k /\ ~f.done
    /\ Len(f.frames) \in 0 .. n
    /\ Len(f.frames) # 0 => /\ f.frames[Len(f.frames)].n = n
                            /\ key => (clock - f.opened) \div Second < Duration

\* The segment f with one more frame, in memory and on the disk.
Taken(f, n, key)   == [f EXCEPT !.frames = Append(@, [n |-> n + 1, key |-> key, at |-> clock])]
Written(f, n, key) == [Taken(f, n, key) EXCEPT !.size = Len(Taken(f, n, key).frames)]

LEMMA StampIsTime ==
    ASSUME RecordingAssumption, clock \in Clock
    PROVE  clock \div Second \in Clock
<1>1. clock \in Nat /\ clock <= MaxClock /\ Second \in Nat /\ Second >= 1 /\ MaxClock \in Nat
  BY DEF RecordingAssumption, Clock
<1>2. clock \div Second \in Nat /\ clock \div Second <= clock
  BY <1>1
<1>3. QED BY <1>1, <1>2 DEF Clock

LEMMA TakenIsOpen ==
    ASSUME RecordingAssumption, clock \in Clock, NEW k, NEW n \in 0 .. MaxVideo, n < MaxVideo,
           NEW key \in BOOLEAN, NEW f, Ready(k, f, n, key),
           NEW g, g = Taken(f, n, key) \/ g = Written(f, n, key)
    PROVE  /\ OpenSegment(k, g, n + 1) /\ SameName(f, g) /\ g.opened = f.opened /\ g.sec = f.sec
<1>0. f \in File /\ SoundFile(f) /\ f.cam = k /\ f.done = FALSE BY DEF Ready, File
<1>1. n \in Nat /\ n + 1 \in 1 .. MaxVideo /\ MaxVideo \in Nat BY DEF RecordingAssumption
<1>2. PICK fr \in Frame : fr = [n |-> n + 1, key |-> key, at |-> clock] BY <1>1 DEF Frame
<1>3. fr.n = n + 1 /\ fr.key = key /\ fr.at = clock BY <1>2
<1>4. PICK p \in Seq(Frame) : p = f.frames BY <1>0 DEF File
<1>5. PICK m \in Nat : m = Len(p) /\ m <= n BY <1>1, <1>4, LenProperties DEF Ready
<1>6. PICK q \in Seq(Frame) : q = Append(p, fr) BY AppendProperties
<1>7. Len(q) = m + 1 /\ q[m + 1] = fr /\ \A i \in 1 .. m : q[i] = p[i]
  BY <1>5, <1>6, AppendProperties
<1>8. Taken(f, n, key) = [f EXCEPT !.frames = q] BY <1>2, <1>4, <1>6 DEF Taken
<1>9. /\ Taken(f, n, key) \in File /\ Taken(f, n, key).frames = q
      /\ Taken(f, n, key).cam = f.cam /\ Taken(f, n, key).sec = f.sec
      /\ Taken(f, n, key).opened = f.opened /\ Taken(f, n, key).done = f.done
  BY <1>0, <1>8 DEF File
<1>10. m + 1 \in 0 .. MaxVideo BY <1>1, <1>5
<1>11. PICK h \in File : h = Taken(f, n, key) BY <1>9
<1>12. Written(f, n, key) = [h EXCEPT !.size = m + 1] BY <1>7, <1>9, <1>11 DEF Written
<1>13. /\ Written(f, n, key) \in File /\ Written(f, n, key).frames = h.frames
       /\ Written(f, n, key).cam = h.cam /\ Written(f, n, key).sec = h.sec
       /\ Written(f, n, key).opened = h.opened /\ Written(f, n, key).done = h.done
  BY <1>10, <1>12 DEF File
<1>14. /\ g \in File /\ g.frames = q /\ g.cam = k /\ g.sec = f.sec
       /\ g.opened = f.opened /\ g.done = FALSE
  BY <1>0, <1>9, <1>11, <1>13
<1>15. \A i \in 1 .. m + 1 : i \in 1 .. m \/ i = m + 1 BY <1>5
<1>16. ASSUME NEW j \in 1 .. (m + 1) - 1 PROVE q[j + 1].n = q[j].n + 1
  <2>1. q[j] = p[j] /\ j \in 1 .. m BY <1>5, <1>7
  <2>2. CASE j = m
    <3>1. p[j].n = n BY <2>2, <2>1, <1>4, <1>5 DEF Ready
    <3>2. QED BY <2>1, <2>2, <3>1, <1>3, <1>7
  <2>3. CASE j # m
    <3>1. j + 1 \in 1 .. m /\ j \in 1 .. m - 1 BY <2>1, <2>3, <1>5
    <3>2. p[j + 1].n = p[j].n + 1 BY <3>1, <1>0, <1>4, <1>5 DEF SoundFile
    <3>3. QED BY <2>1, <3>1, <3>2, <1>7
  <2>4. QED BY <2>2, <2>3
<1>17. ASSUME NEW j \in 2 .. m + 1, q[j].key PROVE (q[j].at - f.opened) \div Second < Duration
  <2>1. j \in 1 .. m + 1 /\ m # 0 BY <1>5
  <2>2. CASE j = m + 1
    <3>1. q[j] = fr /\ key BY <2>2, <1>17, <1>3, <1>7
    <3>2. (clock - f.opened) \div Second < Duration BY <3>1, <2>1, <1>4, <1>5 DEF Ready
    <3>3. QED BY <3>1, <3>2, <1>3
  <2>3. CASE j \in 1 .. m
    <3>1. q[j] = p[j] /\ j \in 2 .. m BY <2>3, <1>5, <1>7
    <3>2. QED BY <3>1, <1>17, <1>0, <1>4, <1>5 DEF SoundFile
  <2>4. QED BY <2>1, <2>2, <2>3, <1>15
<1>18. g.sec = g.opened \div Second BY <1>0, <1>14 DEF SoundFile
<1>19. SoundFile(g) BY <1>7, <1>14, <1>16, <1>17, <1>18 DEF SoundFile
<1>20. Len(g.frames) \in 1 .. n + 1 /\ g.frames[Len(g.frames)].n = n + 1
  BY <1>1, <1>3, <1>5, <1>7, <1>14
<1>21. QED BY <1>0, <1>14, <1>19, <1>20 DEF OpenSegment, SameName

LEMMA NewIsReady ==
    ASSUME RecordingAssumption, clock \in Clock, NEW k \in Cameras, NEW n \in 0 .. MaxVideo,
           NEW key, NEW f, f = NewSegment(k)
    PROVE  Ready(k, f, n, key) /\ f.opened = clock /\ f.sec = clock \div Second
<1>1. clock \div Second \in Clock BY StampIsTime
<1>2. <<>> \in Seq(Frame) /\ 0 \in 0 .. MaxVideo /\ 0 \in 0 .. n BY DEF RecordingAssumption
<1>3. f = [cam |-> k, sec |-> clock \div Second, opened |-> clock,
           frames |-> <<>>, size |-> 0, done |-> FALSE]
  BY DEF NewSegment, Stamp
<1>4. f \in File BY <1>1, <1>2, <1>3 DEF File
<1>5. f.frames = <<>> /\ f.cam = k /\ f.done = FALSE /\ f.opened = clock /\ f.sec = clock \div Second
  BY <1>3
<1>6. Len(f.frames) = 0 BY <1>5
<1>7. SoundFile(f) BY <1>5, <1>6 DEF SoundFile
<1>8. QED BY <1>2, <1>4, <1>5, <1>6, <1>7 DEF Ready

LEMMA StoreKeeps ==
    ASSUME RecordingAssumption, RecorderTyped, NEW k \in Cameras, last[k] < MaxVideo,
           NEW key \in BOOLEAN, NEW files, Orderly(files), NEW f, Ready(k, f, last[k], key),
           Pending(files, active, k, f), Store(k, files, f, key)
    PROVE  /\ Orderly(dir')
           /\ \E g : /\ active' = [active EXCEPT ![k] = g]
                     /\ OpenSegment(k, g, last[k] + 1) /\ g.opened = f.opened /\ g.sec = f.sec
                     /\ Pending(dir', active, k, g)
           /\ (count[k] + 1) % PruneEvery # 0 => Stays(files, dir')
<1>0. clock \in Clock /\ last[k] \in 0 .. MaxVideo BY DEF RecorderTyped
<1>1. PICK g : g = Taken(f, last[k], key) OBVIOUS
<1>2. PICK h : h = Written(f, last[k], key) OBVIOUS
<1>3. /\ OpenSegment(k, g, last[k] + 1) /\ SameName(f, g) /\ g.opened = f.opened /\ g.sec = f.sec
  BY <1>0, <1>1, TakenIsOpen
<1>4. /\ OpenSegment(k, h, last[k] + 1) /\ SameName(f, h) /\ h.opened = f.opened /\ h.sec = f.sec
  BY <1>0, <1>2, TakenIsOpen
<1>5. g \in File /\ SoundFile(g) /\ h \in File /\ SoundFile(h) /\ ~f.done
  BY <1>3, <1>4 DEF OpenSegment, Ready
<1> DEFINE Checked(new) == IF (count[k] + 1) % PruneEvery = 0 THEN Pruned(new) ELSE new
<1>6. \/ active' = [active EXCEPT ![k] = g] /\ dir' = Checked(ReplaceAll(files, f, g))
      \/ active' = [active EXCEPT ![k] = h] /\ dir' = Checked(Flushed(files, f, h))
  BY <1>1, <1>2 DEF Store, Taken, Written
<1>7. ASSUME NEW new, Orderly(new), Stays(files, new), NEW x, Comes(files, f, x, new),
             dir' = Checked(new)
      PROVE  /\ Orderly(dir') /\ ((count[k] + 1) % PruneEvery # 0 => Stays(files, dir'))
             /\ Pending(dir', active, k, x)
  <2>1. Pending(new, active, k, x) BY <1>7, PendingMoves
  <2>2. CASE dir' = new BY <1>7, <2>1, <2>2
  <2>3. CASE (count[k] + 1) % PruneEvery = 0 /\ dir' = Pruned(new)
    <3>1. PICK t : t = Pruned(new) OBVIOUS
    <3>2. Orderly(t) /\ Within(t, new)
      BY <1>7, <3>1, PrunedKeeps
    <3>3. Pending(t, active, k, x) BY <2>1, <3>2 DEF Pending, Within
    <3>4. QED BY <2>3, <3>1, <3>2, <3>3
  <2>4. QED BY <1>7, <2>2, <2>3
<1>8. CASE active' = [active EXCEPT ![k] = g] /\ dir' = Checked(ReplaceAll(files, f, g))
  <2>1. PICK new : new = ReplaceAll(files, f, g) OBVIOUS
  <2>2. /\ Orderly(new)
        /\ \A i \in 1 .. Len(files) : files[i] # f => \E j \in 1 .. Len(new) : new[j] = files[i]
        /\ Comes(files, f, g, new)
    BY <1>3, <1>5, <2>1, ReplaceKeeps
  <2>3. Stays(files, new) BY <1>5, <2>2 DEF Stays
  <2>4. QED BY <1>3, <1>7, <1>8, <2>1, <2>2, <2>3
<1>9. CASE active' = [active EXCEPT ![k] = h] /\ dir' = Checked(Flushed(files, f, h))
  <2>1. PICK new : new = Flushed(files, f, h) OBVIOUS
  <2>2. /\ Orderly(new)
        /\ \A i \in 1 .. Len(files) : files[i] # f => \E j \in 1 .. Len(new) : new[j] = files[i]
        /\ Comes(files, f, h, new)
    BY <1>4, <1>5, <2>1, FlushedKeeps
  <2>3. Stays(files, new) BY <1>5, <2>2 DEF Stays
  <2>4. QED BY <1>4, <1>7, <1>9, <2>1, <2>2, <2>3
<1>10. QED BY <1>6, <1>8, <1>9

-----------------------------------------------------------------------------
(* The steps                                                               *)

\* The step of FinishedIsStable.
StableStep ==
    \A f \in Files : f.done =>
        \/ f \in Files'
        \/ \E k \in Cameras : count'[k] # count[k] /\ count'[k] % PruneEvery = 0
        \/ /\ active'[f.cam] # NoSegment /\ active'[f.cam] # active[f.cam]
           /\ active'[f.cam].opened \div Second = f.opened \div Second

LEMMA StaysIsStable ==
    ASSUME Orderly(dir), Orderly(dir'), Stays(dir, dir')
    PROVE  StableStep
<1> SUFFICES ASSUME NEW f \in Files, f.done PROVE f \in Files' BY DEF StableStep
<1>1. DOMAIN dir = 1 .. Len(dir) /\ DOMAIN dir' = 1 .. Len(dir') BY LenProperties DEF Orderly
<1>2. PICK i \in 1 .. Len(dir) : dir[i] = f BY <1>1 DEF Files, ToSet
<1>3. PICK j \in 1 .. Len(dir') : dir'[j] = f BY <1>2 DEF Stays
<1>4. QED BY <1>1, <1>3 DEF Files, ToSet

LEMMA SameDirIsStable ==
    ASSUME dir' = dir
    PROVE  StableStep
BY DEF StableStep, Files

\* A step of camera k's output leaves the other outputs alone.
LEMMA OneOutput ==
    ASSUME RecorderInv, NEW k \in Cameras, RecorderTyped', Orderly(dir'), OutputInv(k)',
           NoSegmentAssumption, Pending(dir', active, k, active'[k]),
           \A l \in Cameras \ {k} :
              /\ active'[l] = active[l] /\ last'[l] = last[l] /\ wasPaused'[l] = wasPaused[l]
              /\ count'[l] = count[l] /\ task'[l] = task[l] /\ slot'[l] = slot[l]
    PROVE  RecorderInv'
<1>1. \A l \in Cameras \ {k} : OutputInv(l)' BY DEF RecorderInv, OutputInv
<1>2. \A l \in Cameras : OutputInv(l)' BY <1>1
<1>3. OpenFiles(dir', active')
  <2> SUFFICES ASSUME NEW i \in 1 .. Len(dir'), ~dir'[i].done
               PROVE  dir'[i] = active'[dir'[i].cam]
    BY DEF OpenFiles
  <2>1. dir'[i] \in File BY ElementOfSeq DEF Orderly
  <2>2. dir'[i] # NoSegment /\ dir'[i].cam \in Cameras BY <2>1 DEF NoSegmentAssumption, File
  <2>3. CASE dir'[i] = active'[k]
    <3>1. active'[k].cam = k BY <2>2, <2>3 DEF OutputInv, OpenSegment
    <3>2. QED BY <2>3, <3>1
  <2>4. CASE dir'[i].cam # k /\ dir'[i] = active[dir'[i].cam] BY <2>2, <2>4
  <2>5. QED BY <2>3, <2>4 DEF Pending
<1>4. QED BY <1>2, <1>3 DEF RecorderInv

\* What a video frame does before the pause flag is looked at.
LEMMA FrameCounts ==
    ASSUME RecordingAssumption, RecorderInv, NEW k \in Cameras, NEW key \in BOOLEAN, Deliver(k, key)
    PROVE  /\ task[k] = "run" /\ last[k] \in 0 .. MaxVideo /\ last[k] < MaxVideo
           /\ last[k] + 1 \in 0 .. MaxVideo /\ last'[k] = last[k] + 1
           /\ last' \in [Cameras -> 0 .. MaxVideo]
           /\ \A l \in Cameras \ {k} : last'[l] = last[l]
<1>1. last \in [Cameras -> 0 .. MaxVideo] /\ MaxVideo \in Nat
  BY DEF RecorderInv, RecorderTyped, RecordingAssumption
<1>2. last[k] < MaxVideo /\ last' = [last EXCEPT ![k] = last[k] + 1] /\ task[k] = "run"
  BY DEF Deliver
<1>3. last[k] + 1 \in 0 .. MaxVideo BY <1>1, <1>2
<1>4. QED BY <1>1, <1>2, <1>3

LEMMA PendingNow ==
    ASSUME RecorderInv, NEW k \in Cameras
    PROVE  Pending(dir, active, k, active[k])
BY DEF RecorderInv, OpenFiles, Pending

LEMMA ClosedStep ==
    ASSUME RecordingAssumption, RecorderInv, NEW k \in Cameras, NEW t, t = Closed(dir, active[k])
    PROVE  Orderly(t) /\ Stays(dir, t) /\ Pending(t, active, k, NoSegment)
<1>1. OutputInv(k) /\ Orderly(dir) /\ last[k] \in 0 .. MaxVideo BY DEF RecorderInv, RecorderTyped
<1>2. active[k] # NoSegment => OpenSegment(k, active[k], last[k]) BY <1>1 DEF OutputInv
<1>3. MaxVideo \in Nat BY DEF RecordingAssumption
<1>4. PICK a : a = active[k] OBVIOUS
<1> PICK n \in 0 .. MaxVideo : n = last[k] BY <1>1
<1>5. a # NoSegment => OpenSegment(k, a, n) BY <1>2, <1>4
<1>6. t = Closed(dir, a) BY <1>4
<1>7. Orderly(dir) BY <1>1
<1>8. Pending(dir, active, k, a) BY <1>4, PendingNow
<1>9. QED BY <1>3, <1>5, <1>6, <1>7, <1>8, ClosedKeeps

LEMMA HoldKeeps ==
    ASSUME RecordingAssumption, NoSegmentAssumption, RecorderInv, NEW k \in Cameras, NEW key \in BOOLEAN,
           Deliver(k, key), Hold(k), UNCHANGED <<clock, paused, listed, created>>
    PROVE  RecorderInv' /\ StableStep
<1>1. /\ last[k] \in 0 .. MaxVideo /\ last'[k] = last[k] + 1 /\ last' \in [Cameras -> 0 .. MaxVideo]
      /\ \A l \in Cameras \ {k} : last'[l] = last[l]
  BY FrameCounts
<1>2. /\ wasPaused' = [wasPaused EXCEPT ![k] = TRUE] /\ dir' = Closed(dir, active[k])
      /\ active' = [active EXCEPT ![k] = NoSegment] /\ UNCHANGED <<count, slot, task>>
  BY DEF Hold
<1>3. Orderly(dir') /\ Stays(dir, dir') /\ Pending(dir', active, k, NoSegment) BY <1>2, ClosedStep
<1>4. RecorderTyped /\ OutputInv(k) BY DEF RecorderInv
<1>5. RecorderTyped' BY <1>1, <1>2, <1>4 DEF RecorderTyped
<1>6. active'[k] = NoSegment /\ wasPaused'[k] = TRUE BY <1>2, <1>4 DEF RecorderTyped
<1>7. count[k] \in Nat /\ count[k] <= last[k] BY <1>4 DEF RecorderTyped, OutputInv
<1>8. OutputInv(k)' BY <1>1, <1>2, <1>6, <1>7 DEF OutputInv
<1>9. RecorderInv' BY <1>1, <1>2, <1>3, <1>4, <1>5, <1>6, <1>8, OneOutput DEF RecorderTyped
<1>10. QED BY <1>3, <1>9, StaysIsStable DEF RecorderInv

\* A frame that is recorded: f is the segment it goes to.
LEMMA StoredKeeps ==
    ASSUME RecordingAssumption, NoSegmentAssumption, RecorderInv, NEW k \in Cameras, NEW key \in BOOLEAN,
           Deliver(k, key), wasPaused' = [wasPaused EXCEPT ![k] = FALSE],
           NEW files, Orderly(files), NEW f, Ready(k, f, last[k], key),
           Pending(files, active, k, f), Store(k, files, f, key),
           slot' \in [Cameras -> [sec : Clock] \cup {NoSegment}],
           \A l \in Cameras \ {k} : slot'[l] = slot[l],
           slot'[k] # NoSegment => f.sec = slot'[k].sec,
           UNCHANGED <<clock, paused, listed, created, task>>
    PROVE  /\ RecorderInv'
           /\ active'[k] # NoSegment /\ active'[k] # active[k] /\ active'[k].opened = f.opened
           /\ count'[k] = count[k] + 1 /\ count'[k] # count[k]
           /\ (count[k] + 1) % PruneEvery # 0 => Stays(files, dir')
<1>1. /\ last[k] \in 0 .. MaxVideo /\ last[k] < MaxVideo /\ last'[k] = last[k] + 1
      /\ last' \in [Cameras -> 0 .. MaxVideo]
      /\ \A l \in Cameras \ {k} : last'[l] = last[l]
  BY FrameCounts
<1>2. RecorderTyped /\ OutputInv(k) BY DEF RecorderInv
<1>3. PICK g : /\ active' = [active EXCEPT ![k] = g]
               /\ OpenSegment(k, g, last[k] + 1) /\ g.opened = f.opened /\ g.sec = f.sec
               /\ Orderly(dir') /\ Pending(dir', active, k, g)
               /\ (count[k] + 1) % PruneEvery # 0 => Stays(files, dir')
  BY <1>1, <1>2, StoreKeeps
<1>4. g \in File /\ g # NoSegment BY <1>3 DEF OpenSegment, NoSegmentAssumption
<1>5. active'[k] = g /\ wasPaused'[k] = FALSE BY <1>2, <1>3 DEF RecorderTyped
<1>6. count \in [Cameras -> Nat] /\ count[k] \in Nat /\ count[k] <= last[k]
  BY <1>2 DEF RecorderTyped, OutputInv
<1>7. count' = [count EXCEPT ![k] = count[k] + 1] BY DEF Store
<1>8. count'[k] = count[k] + 1 /\ count' \in [Cameras -> Nat] BY <1>6, <1>7
<1>9. RecorderTyped' BY <1>1, <1>2, <1>3, <1>4, <1>8 DEF RecorderTyped
<1>10. OutputInv(k)'
  <2>1. count'[k] <= last'[k] BY <1>1, <1>6, <1>8
  <2>2. task'[k] = "run" BY FrameCounts
  <2>3. QED BY <1>1, <1>3, <1>4, <1>5, <2>1, <2>2 DEF OutputInv
<1>11. \A l \in Cameras \ {k} :
         /\ active'[l] = active[l] /\ last'[l] = last[l] /\ wasPaused'[l] = wasPaused[l]
         /\ count'[l] = count[l] /\ task'[l] = task[l] /\ slot'[l] = slot[l]
  BY <1>1, <1>2, <1>3, <1>7 DEF RecorderTyped
<1>12. RecorderInv' BY <1>3, <1>5, <1>9, <1>10, <1>11, OneOutput
<1>13. g # active[k]
  <2>1. SUFFICES ASSUME g = active[k] PROVE FALSE OBVIOUS
  <2>2. OpenSegment(k, g, last[k]) BY <1>2, <1>4, <2>1 DEF OutputInv
  <2>3. g.frames[Len(g.frames)].n = last[k] /\ g.frames[Len(g.frames)].n = last[k] + 1
    BY <2>2, <1>3 DEF OpenSegment
  <2>4. QED BY <2>3, <1>1
<1>14. count'[k] # count[k] BY <1>6, <1>8
<1>15. QED BY <1>3, <1>4, <1>5, <1>8, <1>12, <1>13, <1>14

LEMMA ContinueKeeps ==
    ASSUME RecordingAssumption, NoSegmentAssumption, RecorderInv, NEW k \in Cameras, NEW key \in BOOLEAN,
           Deliver(k, key), wasPaused' = [wasPaused EXCEPT ![k] = FALSE], Continue(k, key),
           UNCHANGED <<clock, paused, listed, created>>
    PROVE  RecorderInv' /\ StableStep
<1>1. RecorderTyped /\ OutputInv(k) /\ Orderly(dir) BY DEF RecorderInv
<1>2. /\ last[k] \in 0 .. MaxVideo /\ task[k] = "run" BY FrameCounts
<1>3. active[k] # NoSegment /\ (key => ~((clock - active[k].opened) \div Second >= Duration))
  BY DEF Continue, OpenNow, Age
<1>4. OpenSegment(k, active[k], last[k]) BY <1>1, <1>3 DEF OutputInv
<1>5. active[k] \in File /\ clock \in Clock BY <1>1, <1>4 DEF OpenSegment, RecorderTyped
<1>6. active[k].opened \in Clock BY <1>5 DEF File
<1>7. key => (clock - active[k].opened) \div Second < Duration
  <2>1. clock - active[k].opened \in Int /\ Second \in Nat \ {0} /\ Duration \in Nat
    BY <1>5, <1>6 DEF Clock, RecordingAssumption
  <2>2. (clock - active[k].opened) \div Second \in Int BY <2>1
  <2>3. QED BY <1>3, <2>1, <2>2
<1>8. Ready(k, active[k], last[k], key)
  <2>1. Len(active[k].frames) \in 0 .. last[k] BY <1>2, <1>4 DEF OpenSegment
  <2>2. QED BY <1>4, <1>7, <2>1 DEF Ready, OpenSegment
<1>9. Store(k, dir, active[k], key) /\ UNCHANGED <<slot, task>> BY DEF Continue
<1>10. slot[k] # NoSegment => active[k].sec = slot[k].sec BY <1>1, <1>2, <1>3 DEF OutputInv
<1>11. slot \in [Cameras -> [sec : Clock] \cup {NoSegment}] BY <1>1 DEF RecorderTyped
<1>12. /\ RecorderInv'
       /\ count'[k] = count[k] + 1 /\ count'[k] # count[k]
       /\ (count[k] + 1) % PruneEvery # 0 => Stays(dir, dir')
  BY <1>1, <1>8, <1>9, <1>10, <1>11, PendingNow, StoredKeeps
<1>13. CASE (count[k] + 1) % PruneEvery = 0 BY <1>12, <1>13 DEF StableStep
<1>14. CASE (count[k] + 1) % PruneEvery # 0 BY <1>1, <1>12, <1>14, StaysIsStable DEF RecorderInv
<1>15. QED BY <1>12, <1>13, <1>14

LEMMA RotateKeeps ==
    ASSUME RecordingAssumption, NoSegmentAssumption, RecorderInv, NEW k \in Cameras, NEW key \in BOOLEAN,
           Deliver(k, key), wasPaused' = [wasPaused EXCEPT ![k] = FALSE], Rotate(k, key),
           UNCHANGED <<clock, paused, listed, created>>
    PROVE  RecorderInv' /\ StableStep
<1>1. RecorderTyped /\ OutputInv(k) /\ Orderly(dir) BY DEF RecorderInv
<1>2. last[k] \in 0 .. MaxVideo /\ clock \in Clock BY <1>1, FrameCounts DEF RecorderTyped
<1>3. PICK s : s = NewSegment(k) OBVIOUS
<1>4. Ready(k, s, last[k], key) /\ s.opened = clock /\ s.sec = clock \div Second
  BY <1>2, <1>3, NewIsReady
<1>5. s \in File /\ SoundFile(s) /\ s.cam = k BY <1>4 DEF Ready
<1>6. PICK c : c = Closed(dir, active[k]) OBVIOUS
<1>7. Orderly(c) /\ Stays(dir, c) /\ Pending(c, active, k, NoSegment) BY <1>6, ClosedStep
<1>8. PICK files : files = Created(c, s) OBVIOUS
<1>9. /\ Orderly(files)
      /\ \A i \in 1 .. Len(c) : ~SameName(s, c[i]) => \E j \in 1 .. Len(files) : files[j] = c[i]
      /\ Comes(c, NoSegment, s, files)
  BY <1>5, <1>7, <1>8, CreatedKeeps
<1>10. /\ Store(k, files, s, key) /\ task' = task
       /\ slot' = [slot EXCEPT ![k] = [sec |-> clock \div Second]]
  BY <1>3, <1>6, <1>8 DEF Rotate, Publish, Stamp
<1>11. clock \div Second \in Clock BY <1>2, StampIsTime
<1>12. /\ slot' \in [Cameras -> [sec : Clock] \cup {NoSegment}]
       /\ \A l \in Cameras \ {k} : slot'[l] = slot[l]
       /\ slot'[k] # NoSegment => s.sec = slot'[k].sec
  BY <1>1, <1>4, <1>10, <1>11 DEF RecorderTyped
<1>a. Pending(files, active, k, s) BY <1>7, <1>9, PendingMoves
<1>13. /\ RecorderInv'
       /\ active'[k] # NoSegment /\ active'[k] # active[k] /\ active'[k].opened = s.opened
       /\ count'[k] = count[k] + 1 /\ count'[k] # count[k]
       /\ (count[k] + 1) % PruneEvery # 0 => Stays(files, dir')
  BY <1>4, <1>9, <1>a, <1>10, <1>12, StoredKeeps
<1>14. CASE (count[k] + 1) % PruneEvery = 0 BY <1>13, <1>14 DEF StableStep
<1>15. CASE (count[k] + 1) % PruneEvery # 0
  <2>1. SUFFICES ASSUME NEW f \in Files, f.done, f \notin Files'
                 PROVE  f.cam = k /\ clock \div Second = f.opened \div Second
    BY <1>4, <1>13 DEF StableStep
  <2>2. Orderly(dir') BY <1>13 DEF RecorderInv
  <2>3. DOMAIN dir = 1 .. Len(dir) /\ DOMAIN dir' = 1 .. Len(dir') BY <1>1, <2>2, LenProperties DEF Orderly
  <2>4. PICK i \in 1 .. Len(dir) : dir[i] = f BY <2>3 DEF Files, ToSet
  <2>5. PICK j \in 1 .. Len(c) : c[j] = f BY <1>7, <2>1, <2>4 DEF Stays
  <2>6. CASE SameName(s, f)
    <3>1. f.sec = f.opened \div Second BY <1>1, <2>4 DEF Orderly, SoundFile
    <3>2. QED BY <3>1, <2>6, <1>4, <1>5 DEF SameName
  <2>7. CASE ~SameName(s, f)
    <3>1. PICK l \in 1 .. Len(files) : files[l] = f BY <1>9, <2>5, <2>7
    <3>2. PICK m \in 1 .. Len(dir') : dir'[m] = f BY <1>13, <1>15, <2>1, <3>1 DEF Stays
    <3>3. f \in Files' BY <2>3, <3>2 DEF Files, ToSet
    <3>4. QED BY <2>1, <3>3
  <2>8. QED BY <2>6, <2>7
<1>16. QED BY <1>13, <1>14, <1>15

LEMMA RotateFailsKeeps ==
    ASSUME RecordingAssumption, NoSegmentAssumption, RecorderInv, NEW k \in Cameras, NEW key \in BOOLEAN,
           Deliver(k, key), wasPaused' = [wasPaused EXCEPT ![k] = FALSE], RotateFails(k, key),
           UNCHANGED <<clock, paused, listed, created>>
    PROVE  RecorderInv' /\ StableStep
<1>1. RecorderTyped /\ OutputInv(k) /\ Orderly(dir) BY DEF RecorderInv
<1>2. /\ last[k] \in 0 .. MaxVideo /\ last'[k] = last[k] + 1 /\ last' \in [Cameras -> 0 .. MaxVideo]
      /\ \A l \in Cameras \ {k} : last'[l] = last[l]
  BY FrameCounts
<1>3. /\ dir' = Closed(dir, active[k]) /\ active' = [active EXCEPT ![k] = NoSegment]
      /\ task' = [task EXCEPT ![k] = "off"] /\ count' = count
      /\ slot' = [slot EXCEPT ![k] = [sec |-> clock \div Second]]
  BY DEF RotateFails, Publish, Stamp
<1>4. Orderly(dir') /\ Stays(dir, dir') /\ Pending(dir', active, k, NoSegment) BY <1>3, ClosedStep
<1>5. clock \div Second \in Clock BY <1>1, StampIsTime DEF RecorderTyped
<1>6. slot' \in [Cameras -> [sec : Clock] \cup {NoSegment}] BY <1>1, <1>3, <1>5 DEF RecorderTyped
<1>7. RecorderTyped' BY <1>1, <1>2, <1>3, <1>6 DEF RecorderTyped
<1>8. active'[k] = NoSegment /\ task'[k] = "off" BY <1>1, <1>3 DEF RecorderTyped
<1>9. count[k] \in Nat /\ count[k] <= last[k] BY <1>1 DEF RecorderTyped, OutputInv
<1>10. OutputInv(k)' BY <1>2, <1>3, <1>8, <1>9 DEF OutputInv
<1>11. \A l \in Cameras \ {k} :
         /\ active'[l] = active[l] /\ last'[l] = last[l] /\ wasPaused'[l] = wasPaused[l]
         /\ count'[l] = count[l] /\ task'[l] = task[l] /\ slot'[l] = slot[l]
  BY <1>1, <1>2, <1>3 DEF RecorderTyped
<1>12. RecorderInv' BY <1>4, <1>7, <1>8, <1>10, <1>11, OneOutput
<1>13. QED BY <1>1, <1>4, <1>12, StaysIsStable

LEMMA SendFrameKeeps ==
    ASSUME RecordingAssumption, NoSegmentAssumption, RecorderInv, NEW k \in Cameras, NEW key \in BOOLEAN,
           SendVideo(k, key)
    PROVE  RecorderInv' /\ StableStep
<1>1. Deliver(k, key) /\ UNCHANGED <<clock, paused, listed, created>> BY DEF SendVideo
<1>2. CASE Hold(k) BY <1>1, <1>2, HoldKeeps
<1>3. CASE Pass(k, key)
  BY <1>1, <1>3, ContinueKeeps, RotateKeeps, RotateFailsKeeps DEF Pass
<1>4. QED BY <1>2, <1>3 DEF SendVideo

LEMMA AttachKeeps ==
    ASSUME RecordingAssumption, NoSegmentAssumption, RecorderInv, NEW k \in Cameras, Attach(k)
    PROVE  RecorderInv' /\ StableStep
<1>1. RecorderTyped /\ OutputInv(k) /\ Orderly(dir) BY DEF RecorderInv
<1>2. /\ created' = [created EXCEPT ![k] = created[k] + 1] /\ created[k] < MaxCreated
      /\ task' = [task EXCEPT ![k] = "run"] /\ slot' = [slot EXCEPT ![k] = NoSegment]
      /\ listed' = [listed EXCEPT ![k] = TRUE] /\ active' = [active EXCEPT ![k] = NoSegment]
      /\ wasPaused' = [wasPaused EXCEPT ![k] = FALSE] /\ count' = [count EXCEPT ![k] = 0]
      /\ UNCHANGED <<clock, paused, dir, last>> /\ task[k] = "off"
  BY DEF Attach
<1>3. created[k] + 1 \in 0 .. MaxCreated BY <1>1, <1>2 DEF RecorderTyped, RecordingAssumption
<1>4. RecorderTyped' BY <1>1, <1>2, <1>3 DEF RecorderTyped
<1>5. active'[k] = NoSegment /\ slot'[k] = NoSegment /\ wasPaused'[k] = FALSE /\ count'[k] = 0
  BY <1>1, <1>2 DEF RecorderTyped
<1>a. task'[k] = "run" BY <1>1, <1>2 DEF RecorderTyped
<1>6. last[k] \in 0 .. MaxVideo /\ 0 <= last[k] BY <1>1 DEF RecorderTyped
<1>7. OutputInv(k)' BY <1>2, <1>5, <1>6, <1>a DEF OutputInv
<1>8. Orderly(dir') BY <1>1, <1>2
<1>9. \A l \in Cameras \ {k} :
         /\ active'[l] = active[l] /\ last'[l] = last[l] /\ wasPaused'[l] = wasPaused[l]
         /\ count'[l] = count[l] /\ task'[l] = task[l] /\ slot'[l] = slot[l]
  BY <1>1, <1>2 DEF RecorderTyped
<1>b. Pending(dir', active, k, active'[k])
  <2>1. active[k] = NoSegment BY <1>1, <1>2 DEF OutputInv
  <2>2. QED BY <1>2, <1>5, <2>1, PendingNow
<1>10. RecorderInv' BY <1>4, <1>7, <1>8, <1>9, <1>b, OneOutput
<1>11. QED BY <1>2, <1>10, SameDirIsStable

LEMMA StopOutputKeeps ==
    ASSUME RecordingAssumption, NoSegmentAssumption, RecorderInv, NEW k \in Cameras, StopFile(k)
    PROVE  RecorderInv' /\ StableStep
<1>1. RecorderTyped /\ OutputInv(k) /\ Orderly(dir) BY DEF RecorderInv
<1>2. /\ dir' = Closed(dir, active[k]) /\ active' = [active EXCEPT ![k] = NoSegment]
      /\ task' = [task EXCEPT ![k] = "off"]
      /\ UNCHANGED <<clock, paused, wasPaused, count, last, slot, listed, created>>
  BY DEF StopFile
<1>3. Orderly(dir') /\ Stays(dir, dir') /\ Pending(dir', active, k, NoSegment) BY <1>2, ClosedStep
<1>4. RecorderTyped' BY <1>1, <1>2 DEF RecorderTyped
<1>5. active'[k] = NoSegment /\ task'[k] = "off" BY <1>1, <1>2 DEF RecorderTyped
<1>6. OutputInv(k)' BY <1>1, <1>2, <1>5 DEF OutputInv
<1>7. \A l \in Cameras \ {k} :
         /\ active'[l] = active[l] /\ last'[l] = last[l] /\ wasPaused'[l] = wasPaused[l]
         /\ count'[l] = count[l] /\ task'[l] = task[l] /\ slot'[l] = slot[l]
  BY <1>1, <1>2 DEF RecorderTyped
<1>8. RecorderInv' BY <1>3, <1>4, <1>5, <1>6, <1>7, OneOutput
<1>9. QED BY <1>1, <1>3, <1>8, StaysIsStable

\* The platform's pause, the registry and the clock touch no segment.
LEMMA RestKeeps ==
    ASSUME RecordingAssumption, RecorderInv,
           (\E k \in Cameras : Unlist(k)) \/ OnRecord \/ Tick \/ UNCHANGED recorderVars
    PROVE  RecorderInv' /\ StableStep
<1>1. RecorderTyped /\ Orderly(dir) /\ OpenFiles(dir, active) /\ \A k \in Cameras : OutputInv(k) BY DEF RecorderInv
<1>2. UNCHANGED <<dir, task, active, wasPaused, count, last, slot, created>>
  BY DEF Unlist, OnRecord, Tick, recorderVars, outVars
<1>3. clock' \in Clock /\ paused' \in BOOLEAN /\ listed' \in [Cameras -> BOOLEAN]
  <2>1. CASE \E k \in Cameras : Unlist(k) BY <1>1, <2>1 DEF Unlist, RecorderTyped
  <2>2. CASE OnRecord BY <1>1, <2>2 DEF OnRecord, RecorderTyped
  <2>3. CASE Tick BY <1>1, <2>3 DEF Tick, RecorderTyped, Clock, RecordingAssumption
  <2>4. CASE UNCHANGED recorderVars BY <1>1, <2>4 DEF recorderVars, RecorderTyped
  <2>5. QED BY <2>1, <2>2, <2>3, <2>4
<1>4. RecorderTyped' BY <1>1, <1>2, <1>3 DEF RecorderTyped
<1>5. Orderly(dir') /\ OpenFiles(dir', active') /\ \A k \in Cameras : OutputInv(k)' BY <1>1, <1>2 DEF OutputInv
<1>6. QED BY <1>2, <1>4, <1>5, SameDirIsStable DEF RecorderInv

LEMMA RecorderSteps ==
    ASSUME RecordingAssumption, NoSegmentAssumption, RecorderInv, [RecorderNext]_recorderVars
    PROVE  RecorderInv' /\ StableStep
<1>1. ASSUME NEW k \in Cameras, \E key \in BOOLEAN : SendVideo(k, key)
      PROVE  RecorderInv' /\ StableStep
  BY <1>1, SendFrameKeeps
<1>2. ASSUME NEW k \in Cameras, Attach(k) \/ StopFile(k)
      PROVE  RecorderInv' /\ StableStep
  BY <1>2, AttachKeeps, StopOutputKeeps
<1>3. CASE (\E k \in Cameras : Unlist(k)) \/ OnRecord \/ Tick \/ UNCHANGED recorderVars
  BY <1>3, RestKeeps
<1>4. QED BY <1>1, <1>2, <1>3 DEF RecorderNext

LEMMA RecorderStarts ==
    ASSUME RecordingAssumption, RecorderInit
    PROVE  RecorderInv
<1>0. 0 \in Clock /\ 0 \in 0 .. MaxVideo /\ 0 \in 0 .. MaxCreated
  BY DEF Clock, RecordingAssumption
<1>1. RecorderTyped BY <1>0 DEF RecorderInit, RecorderTyped
<1>2. Orderly(dir)
  <2>1. dir = <<>> /\ Len(dir) = 0 BY DEF RecorderInit
  <2>2. QED BY <2>1 DEF Orderly, OwnNames
<1>3. \A k \in Cameras : OutputInv(k) BY DEF RecorderInit, OutputInv
<1>4. OpenFiles(dir, active)
  <2>1. Len(dir) = 0 BY DEF RecorderInit
  <2>2. QED BY <2>1 DEF OpenFiles
<1>5. QED BY <1>1, <1>2, <1>3, <1>4 DEF RecorderInv

LEMMA RecorderInvariant == RecorderSpec => []RecorderInv
<1>1. RecorderInit => RecorderInv BY RecorderStarts, RecordingAssumption, NoSegmentAssumption
<1>2. RecorderInv /\ [RecorderNext]_recorderVars => RecorderInv' BY RecorderSteps, RecordingAssumption, NoSegmentAssumption
<1>3. QED BY <1>1, <1>2, PTL DEF RecorderSpec

-----------------------------------------------------------------------------
(* The theorems about the archive                                          *)

LEMMA FilesAreSound ==
    ASSUME RecorderInv, NEW f \in Files
    PROVE  SoundFile(f)
<1>1. Orderly(dir) /\ DOMAIN dir = 1 .. Len(dir) BY LenProperties DEF RecorderInv, Orderly
<1>2. PICK i \in 1 .. Len(dir) : dir[i] = f BY <1>1 DEF Files, ToSet
<1>3. QED BY <1>1, <1>2 DEF Orderly

\* Every variable of the recorder keeps its type, and no two files of the
\* directory have the same name.
THEOREM RecorderTyping == RecorderSpec => []RecorderTypeOK
<1>1. ASSUME RecorderInv PROVE RecorderTypeOK
  <2>1. RecorderTyped /\ Orderly(dir) /\ \A k \in Cameras : OutputInv(k) BY <1>1 DEF RecorderInv
  <2>2. dir \in Seq(File) /\ DOMAIN dir = 1 .. Len(dir) BY <2>1, LenProperties DEF Orderly
  <2>3. \A f, g \in ToSet(dir) : f.cam = g.cam /\ f.sec = g.sec => f = g
    <3> TAKE f, g \in ToSet(dir)
    <3> HAVE f.cam = g.cam /\ f.sec = g.sec
    <3>1. PICK i \in 1 .. Len(dir) : dir[i] = f BY <2>2 DEF ToSet
    <3>2. PICK j \in 1 .. Len(dir) : dir[j] = g BY <2>2 DEF ToSet
    <3>3. i = j BY <2>1, <3>1, <3>2 DEF Orderly, OwnNames, SameName
    <3>4. QED BY <3>1, <3>2, <3>3
  <2>4. count \in [Cameras -> 0 .. MaxVideo]
    <3>1. \A k \in Cameras : count[k] \in 0 .. MaxVideo
      <4> TAKE k \in Cameras
      <4>1. count[k] \in Nat /\ count[k] <= last[k] /\ last[k] \in 0 .. MaxVideo
        BY <2>1 DEF RecorderTyped, OutputInv
      <4>2. QED BY <4>1, RecordingAssumption
    <3>2. QED BY <2>1, <3>1 DEF RecorderTyped
  <2>5. QED BY <2>1, <2>2, <2>3, <2>4 DEF RecorderTyped, RecorderTypeOK
<1>2. RecorderInv => RecorderTypeOK BY <1>1
<1>3. QED BY <1>2, RecorderInvariant, PTL

\* Every file, finished or open, is a run of consecutive frames, and the open
\* segment of an output ends with the newest frame: a pause closes the segment
\* before the first frame it drops, and nothing else drops one.
THEOREM ArchiveIsGaplessHolds == RecorderSpec => []ArchiveIsGapless
<1>1. ASSUME RecorderInv PROVE ArchiveIsGapless
  <2>1. \A f \in Files : \A j \in 1 .. Len(f.frames) - 1 : f.frames[j + 1].n = f.frames[j].n + 1
    BY <1>1, FilesAreSound DEF SoundFile
  <2>2. ASSUME NEW k \in Cameras, active[k] # NoSegment
        PROVE  active[k].frames # <<>> /\ Last(active[k].frames).n = last[k]
    <3>1. OpenSegment(k, active[k], last[k]) BY <1>1, <2>2 DEF RecorderInv, OutputInv
    <3>2. Len(active[k].frames) # 0 /\ active[k].frames[Len(active[k].frames)].n = last[k]
      BY <3>1 DEF OpenSegment
    <3>3. QED BY <3>2 DEF Last
  <2>3. QED BY <2>1, <2>2 DEF ArchiveIsGapless
<1>2. RecorderInv => ArchiveIsGapless BY <1>1
<1>3. QED BY <1>2, RecorderInvariant, PTL

\* No segment goes on at a keyframe that comes after its duration, whatever
\* pauses, restarts of the stream and failed rotations came before.
THEOREM RotatesAtKeyframesHolds == RecorderSpec => []RotatesAtKeyframes
<1>1. ASSUME RecorderInv PROVE RotatesAtKeyframes
  BY <1>1, FilesAreSound DEF SoundFile, RotatesAtKeyframes
<1>2. RecorderInv => RotatesAtKeyframes BY <1>1
<1>3. QED BY <1>2, RecorderInvariant, PTL

\* The segment an event refers to is the one being written: the slot, which a
\* pause and a failed rotation leave as it is, is never read as current then.
THEOREM MediaRefIsOpenHolds == RecorderSpec => []MediaRefIsOpen
<1>1. ASSUME RecorderInv PROVE MediaRefIsOpen
  <2>1. \A k \in Cameras : OutputInv(k) BY <1>1 DEF RecorderInv
  <2>2. QED BY <2>1 DEF OutputInv, MediaRefIsOpen, SegmentCovering
<1>2. RecorderInv => MediaRefIsOpen BY <1>1
<1>3. QED BY <1>2, RecorderInvariant, PTL

\* Whatever ends a segment - a pause, a rotation, one that fails, the stop of
\* the stream - finishes its file: an unfinished one is still being written by
\* the output of its camera.
THEOREM UnfinishedIsOpenHolds == RecorderSpec => []UnfinishedIsOpen
<1>1. ASSUME RecorderInv PROVE UnfinishedIsOpen
  <2>1. OpenFiles(dir, active) /\ DOMAIN dir = 1 .. Len(dir)
    BY <1>1, LenProperties DEF RecorderInv, Orderly
  <2>2. QED BY <2>1 DEF OpenFiles, UnfinishedIsOpen, Files, ToSet
<1>2. RecorderInv => UnfinishedIsOpen BY <1>1
<1>3. QED BY <1>2, RecorderInvariant, PTL

\* A finished segment goes only by pruning, or by a segment of its camera that
\* is opened in the same second and truncates it: no other close, flush or
\* stop of any output touches it.
THEOREM FinishedIsStableHolds == RecorderSpec => FinishedIsStable
<1>1. RecorderInv /\ [RecorderNext]_recorderVars => [StableStep]_recorderVars BY RecorderSteps, RecordingAssumption, NoSegmentAssumption
<1>2. RecorderSpec => [][StableStep]_recorderVars BY <1>1, RecorderInvariant, PTL DEF RecorderSpec
<1>3. QED BY <1>2 DEF FinishedIsStable, StableStep
=============================================================================
