------------------------------ MODULE Recording -----------------------------
(***************************************************************************)
(* Local recording (crates/streaming/src/output/file.rs): one FileOutput   *)
(* per camera, rolling segments in a directory all cameras share, the      *)
(* pause flag of the GB28181 platform, capacity pruning, and the segment   *)
(* slot that events look up (segment_covering in stream_manager.rs).       *)
(*                                                                         *)
(* The directory is a sequence of files, the one with the oldest mtime     *)
(* first.  Sizes count frames.  What the muxer has handed to the disk      *)
(* before a segment is finished is left open.                              *)
(***************************************************************************)
EXTENDS Integers, Sequences, SequencesExt

CONSTANTS
    Cameras,
    Duration,    \* segment_duration_secs
    MaxCapacity, \* max_capacity_mb
    PruneEvery,  \* frames between two pruning checks (1000 in the code)
    Second,      \* ticks of the clock in a second
    MaxClock,    \* bound: ticks
    MaxVideo,    \* bound: video frames delivered to one output
    MaxCreated,  \* bound: outputs created for one camera
    NoSegment

ASSUME RecordingAssumption ==
    /\ Duration \in Nat /\ MaxCapacity \in Nat
    /\ PruneEvery \in Nat \ {0} /\ Second \in Nat \ {0}
    /\ MaxClock \in Nat /\ MaxVideo \in Nat /\ MaxCreated \in Nat

VARIABLES
    clock,
    paused,    \* the shared pause flag
    dir,       \* the files, by mtime
    task,      \* task[k]: the output task of camera k: off, run
    slot,      \* slot[k]: what the FileOutput published: name and opening time
    listed,    \* listed[k]: its slot is in the manager's registry
    active,    \* active[k]: the open segment, NoSegment without one
    wasPaused, \* wasPaused[k]: the last frame met a pause
    count,     \* count[k]: frame_count
    last,      \* last[k]: frames delivered to the output so far
    created    \* created[k]: outputs created for k so far

outVars == <<task, active, wasPaused, count, last>>
recorderVars == <<clock, paused, dir, outVars, slot, listed, created>>

Clock == 0 .. MaxClock
Frame == [n : 1 .. MaxVideo, key : BOOLEAN, at : Clock]

\* A file: its name is the camera and the second it was opened in.
File == [cam : Cameras, sec : Clock, opened : Clock,
         frames : Seq(Frame), size : 0 .. MaxVideo, done : BOOLEAN]

ASSUME NoSegmentAssumption == NoSegment \notin File

RecorderTypeOK ==
    /\ clock \in Clock
    /\ paused \in BOOLEAN
    /\ dir \in Seq(File)
    /\ \A f, g \in ToSet(dir) : f.cam = g.cam /\ f.sec = g.sec => f = g
    /\ task \in [Cameras -> {"off", "run"}]
    /\ slot \in [Cameras -> [sec : Clock] \cup {NoSegment}]
    /\ listed \in [Cameras -> BOOLEAN]
    /\ active \in [Cameras -> File \cup {NoSegment}]
    /\ wasPaused \in [Cameras -> BOOLEAN]
    /\ count \in [Cameras -> 0 .. MaxVideo]
    /\ last \in [Cameras -> 0 .. MaxVideo]
    /\ created \in [Cameras -> 0 .. MaxCreated]

RecorderInit ==
    /\ clock = 0
    /\ paused = FALSE
    /\ dir = <<>>
    /\ task = [k \in Cameras |-> "off"]
    /\ slot = [k \in Cameras |-> NoSegment]
    /\ listed = [k \in Cameras |-> FALSE]
    /\ active = [k \in Cameras |-> NoSegment]
    /\ wasPaused = [k \in Cameras |-> FALSE]
    /\ count = [k \in Cameras |-> 0]
    /\ last = [k \in Cameras |-> 0]
    /\ created = [k \in Cameras |-> 0]

Age(f) == (clock - f.opened) \div Second

SameName(f, g) == f.cam = g.cam /\ f.sec = g.sec

\* The files but the one of f's name, if there is one.
Without(files, f) ==
    LET same == {i \in DOMAIN files : SameName(f, files[i])}
    IN  IF same = {} THEN files ELSE RemoveAt(files, CHOOSE i \in same : TRUE)

-----------------------------------------------------------------------------
(* Segments                                                                *)

\* The state of file f reaches the disk (mtime is now) - if it still has a
\* name there.
Flushed(files, f, g) ==
    IF f \in ToSet(files) THEN Append(Without(files, f), g) ELSE files

\* finish_with_stats: the whole segment is on the disk.
Finished(f) == [f EXCEPT !.size = Len(f.frames), !.done = TRUE]

\* close_current_segment; the slot keeps its value.
Closed(files, f) ==
    IF f = NoSegment THEN files ELSE Flushed(files, f, Finished(f))

\* Mutant: the name has a granularity of two seconds.
CoarseStamp == clock \div (2 * Second)

\* format_local_timestamp, one name per second.
Stamp == clock \div Second

NewSegment(k) ==
    [cam |-> k, sec |-> Stamp, opened |-> clock,
     frames |-> <<>>, size |-> 0, done |-> FALSE]

\* File::create truncates a file of that name.
Created(files, f) == Append(Without(files, f), f)

Publish(k) == slot' = [slot EXCEPT ![k] = [sec |-> Stamp]]

\* The total size of the files.
Total(files) == FoldSeq(LAMBDA f, sum : f.size + sum, 0, files)

\* prune_oldest_if_needed: the oldest files go until the rest fits.
Pruned(files) ==
    LET Drop(m) == SubSeq(files, m + 1, Len(files))
        m == Min({j \in 0 .. Len(files) : j = Len(files) \/ Total(Drop(j)) <= MaxCapacity})
    IN  IF MaxCapacity = 0 THEN files ELSE Drop(m)

-----------------------------------------------------------------------------
(* The output task: send_frame for a video frame (audio is dropped)        *)

Deliver(k, key) ==
    /\ task[k] = "run"
    /\ last[k] < MaxVideo
    /\ last' = [last EXCEPT ![k] = @ + 1]

\* Mutant: a pause drops the frames and leaves the segment open.
HoldKeepsSegment(k) ==
    /\ paused
    /\ wasPaused' = [wasPaused EXCEPT ![k] = TRUE]
    /\ UNCHANGED <<dir, active, count, slot, task>>

\* PauseAction::CloseAndHold
Hold(k) ==
    /\ paused
    /\ wasPaused' = [wasPaused EXCEPT ![k] = TRUE]
    /\ dir' = Closed(dir, active[k])
    /\ active' = [active EXCEPT ![k] = NoSegment]
    /\ UNCHANGED <<count, slot, task>>

\* The muxer takes the frame; some of the segment may reach the disk.  Each
\* PruneEvery-th frame checks the capacity.
Store(k, files, f, key) ==
    LET g == [f EXCEPT !.frames = Append(@, [n |-> last[k] + 1, key |-> key, at |-> clock])]
        Checked(new) == IF (count[k] + 1) % PruneEvery = 0 THEN Pruned(new) ELSE new
    IN  /\ count' = [count EXCEPT ![k] = @ + 1]
        /\ \/ /\ active' = [active EXCEPT ![k] = g]
              /\ dir' = Checked(ReplaceAll(files, f, g))
           \/ LET h == [g EXCEPT !.size = Len(g.frames)]
              IN  /\ active' = [active EXCEPT ![k] = h]
                  /\ dir' = Checked(Flushed(files, f, h))

\* Mutant: a segment lasts one second longer.
RotatesLate(k, key) == active[k] # NoSegment => key /\ Age(active[k]) > Duration

\* A segment that is old enough ends at a keyframe; without one, any frame
\* opens one.
OpenNow(k, key) ==
    active[k] # NoSegment => key /\ Age(active[k]) >= Duration

Continue(k, key) ==
    /\ ~OpenNow(k, key)
    /\ Store(k, dir, active[k], key)
    /\ UNCHANGED <<slot, task>>

\* Mutant: the slot is written before the first segment only.
RotateKeepsSlot(k, key) ==
    /\ OpenNow(k, key)
    /\ IF slot[k] = NoSegment THEN Publish(k) ELSE UNCHANGED slot
    /\ Store(k, Created(Closed(dir, active[k]), NewSegment(k)), NewSegment(k), key)
    /\ UNCHANGED task

\* open_new_segment: the current segment is closed before the file is created.
Rotate(k, key) ==
    /\ OpenNow(k, key)
    /\ Publish(k)
    /\ Store(k, Created(Closed(dir, active[k]), NewSegment(k)), NewSegment(k), key)
    /\ UNCHANGED task

\* Mutant: the segment is dropped without being finished.
RotateDrops(k, key) ==
    /\ OpenNow(k, key)
    /\ Publish(k)
    /\ active' = [active EXCEPT ![k] = NoSegment]
    /\ task' = [task EXCEPT ![k] = "off"]
    /\ UNCHANGED <<dir, count>>

\* The file cannot be created: there is no segment to continue with, the
\* frame is refused and the hub's output task stops the output.
RotateFails(k, key) ==
    /\ OpenNow(k, key)
    /\ Publish(k)
    /\ dir' = Closed(dir, active[k])
    /\ active' = [active EXCEPT ![k] = NoSegment]
    /\ task' = [task EXCEPT ![k] = "off"]
    /\ UNCHANGED count

Pass(k, key) ==
    /\ ~paused
    /\ wasPaused' = [wasPaused EXCEPT ![k] = FALSE]
    /\ Continue(k, key) \/ Rotate(k, key) \/ RotateFails(k, key)

SendVideo(k, key) ==
    /\ Deliver(k, key)
    /\ Hold(k) \/ Pass(k, key)
    /\ UNCHANGED <<clock, paused, listed, created>>

-----------------------------------------------------------------------------
(* Streams come and go; the platform pauses; time passes                   *)

\* create_stream: a new FileOutput and its slot.  The old output of the
\* camera has ended.
Attach(k) ==
    /\ task[k] = "off" /\ ~listed[k]
    /\ created[k] < MaxCreated
    /\ created' = [created EXCEPT ![k] = @ + 1]
    /\ task' = [task EXCEPT ![k] = "run"]
    /\ slot' = [slot EXCEPT ![k] = NoSegment]
    /\ listed' = [listed EXCEPT ![k] = TRUE]
    /\ active' = [active EXCEPT ![k] = NoSegment]
    /\ wasPaused' = [wasPaused EXCEPT ![k] = FALSE]
    /\ count' = [count EXCEPT ![k] = 0]
    /\ UNCHANGED <<clock, paused, dir, last>>

\* stop_stream: the registry forgets the slot ...
Unlist(k) ==
    /\ listed[k]
    /\ listed' = [listed EXCEPT ![k] = FALSE]
    /\ UNCHANGED <<clock, paused, dir, outVars, slot, created>>

\* Mutant: stop drops the output without the final flush.
StopWithoutFlush(k) ==
    /\ task[k] = "run" /\ ~listed[k]
    /\ active' = [active EXCEPT ![k] = NoSegment]
    /\ task' = [task EXCEPT ![k] = "off"]
    /\ UNCHANGED <<clock, paused, dir, wasPaused, count, last, slot, listed, created>>

\* ... and the output task, told to stop, flushes the segment.
StopFile(k) ==
    /\ task[k] = "run" /\ ~listed[k]
    /\ dir' = Closed(dir, active[k])
    /\ active' = [active EXCEPT ![k] = NoSegment]
    /\ task' = [task EXCEPT ![k] = "off"]
    /\ UNCHANGED <<clock, paused, wasPaused, count, last, slot, listed, created>>

\* RecordCmd of the GB28181 platform.
OnRecord ==
    /\ paused' = ~paused
    /\ UNCHANGED <<clock, dir, outVars, slot, listed, created>>

Tick ==
    /\ clock < MaxClock
    /\ clock' = clock + 1
    /\ UNCHANGED <<paused, dir, outVars, slot, listed, created>>

RecorderNext ==
    \/ \E k \in Cameras : \/ \E key \in BOOLEAN : SendVideo(k, key)
                          \/ Attach(k) \/ Unlist(k) \/ StopFile(k)
    \/ OnRecord \/ Tick

\* An output task that was told to stop does.
RecorderFairness == \A k \in Cameras : WF_recorderVars(StopFile(k))

RecorderSpec == RecorderInit /\ [][RecorderNext]_recorderVars /\ RecorderFairness

-----------------------------------------------------------------------------

\* segment_covering: the segment an event at time ts refers to.
SegmentCovering(k, ts) ==
    IF listed[k] /\ slot[k] # NoSegment /\ ts \div Second >= slot[k].sec
    THEN slot[k].sec ELSE NoSegment

Files == ToSet(dir)

\* The archive has clean boundaries: each file is a run of consecutive
\* frames (a pause never lies inside a segment), and outside a pause the
\* newest frame is the last one of the open segment.
ArchiveIsGapless ==
    /\ \A f \in Files : \A j \in 1 .. Len(f.frames) - 1 :
          f.frames[j + 1].n = f.frames[j].n + 1
    /\ \A k \in Cameras :
          active[k] # NoSegment => active[k].frames # <<>> /\ Last(active[k].frames).n = last[k]

\* No segment goes on at a keyframe that comes after its duration.
RotatesAtKeyframes ==
    \A f \in Files : \A j \in 2 .. Len(f.frames) :
        f.frames[j].key => (f.frames[j].at - f.opened) \div Second < Duration

\* While frames are recorded, an event refers to the segment being written.
MediaRefIsOpen ==
    \A k \in Cameras :
        LET ref == SegmentCovering(k, clock)
        IN  (ref # NoSegment /\ task[k] = "run" /\ ~wasPaused[k])
               => active[k] # NoSegment /\ active[k].sec = ref

\* A file that is not finished is the open segment of its camera: no pause,
\* rotation, failed rotation, stop or new stream leaves one behind.
UnfinishedIsOpen == \A f \in Files : ~f.done => f = active[f.cam]

\* A finished segment is changed or removed only by pruning, or by a segment
\* of its camera that is opened in the very same second.
FinishedIsStable ==
    [][\A f \in Files : f.done =>
          \/ f \in Files'
          \/ \E k \in Cameras : count'[k] # count[k] /\ count'[k] % PruneEvery = 0
          \/ /\ active'[f.cam] # NoSegment /\ active'[f.cam] # active[f.cam]
             /\ active'[f.cam].opened \div Second = f.opened \div Second]_recorderVars

\* Once the stream is gone every segment that still has a name is finished.
SegmentsGetFinished ==
    \A k \in Cameras :
        (task[k] = "run" /\ ~listed[k])
            ~> (task[k] = "off" /\ \A f \in Files : f.cam = k => f.done)
=============================================================================
