----------------------------- MODULE ModelStore -----------------------------
(***************************************************************************)
(* The model store: the download manager of crates/streaming/src/models.rs *)
(* and the activate and delete routes of crates/web/src/routes/            *)
(* models_api.rs, over the files below the models directory.               *)
(*                                                                         *)
(* A download task goes through the files of its model.  Each file is      *)
(* fetched from the mirror and then from the origin into "<name>.part",    *)
(* resumed when the server honours the range, checked, and renamed.  Two   *)
(* catalogue entries may name the same files (the Chinese and the English  *)
(* melo voice), and the check for a running task is not atomic with the    *)
(* registration of the new one, so two tasks may work on one file.  What   *)
(* a file holds is a sequence of chunks: k for the k-th chunk of the       *)
(* catalogue's file, 0 for any other bytes (a hole, another version).  An  *)
(* open descriptor follows its file through renames, as on Linux.          *)
(***************************************************************************)
EXTENDS Sequences, Integers, FiniteSets

CONSTANTS Tasks, Models, Files, Capabilities,
          CapOf,      \* CapOf[m]: the capability model m serves
          Needs,      \* Needs[m]: the sequence of files of model m
          Size,       \* Size[f]: chunks of file f
          Urls,       \* sources of a file: 1 the mirror, 2 the origin
          Stale,      \* the sources that serve another version
          None,       \* no selection
          Default,    \* Default[c]: the selection the configuration names
          MaxStarts, MaxRestarts   \* bounds of the model

FilesOf(m) == {Needs[m][i] : i \in 1..Len(Needs[m])}

\* The catalogue shares files between capabilities only.
ASSUME StoreAssumption ==
  /\ Capabilities # {} /\ Models # {} /\ Tasks # {}
  /\ CapOf \in [Models -> Capabilities]
  /\ \A m \in Models : Needs[m] \in Seq(Files) /\ Needs[m] # <<>>
  /\ Size \in [Files -> Nat \ {0}]
  /\ Urls \in Nat \ {0} /\ Stale \subseteq 1..Urls
  /\ None \notin Models
  /\ Default \in [Capabilities -> Models \cup {None}]
  /\ \A m, n \in Models : m # n /\ CapOf[m] = CapOf[n] => FilesOf(m) \cap FilesOf(n) = {}
  /\ MaxStarts \in Nat /\ MaxRestarts \in Nat

VARIABLES
  part,     \* part[f]: the contents of "<f>.part"
  file,     \* file[f]: the contents under the final name
  task,     \* task[t]: a download task
  sel,      \* sel[c]: the model.<c> settings row
  act,      \* the activation between its check and its write, or None
  del,      \* the deletion between its checks and its last unlink
  suspect,  \* history: files the whole-file promise does not cover
  raced,    \* history: an activation and a deletion were in flight together
  starts, restarts

vars == <<part, file, task, sel, act, del, suspect, raced, starts, restarts>>

\* The contents of a file that does not exist.
Absent == <<-1>>

Whole(f) == [i \in 1..Size[f] |-> i]

Length(c) == IF c = Absent THEN 0 ELSE Len(c)

\* Every declared file exists with the declared size.
Installed(m) == \A f \in FilesOf(m) : file[f] # Absent /\ Len(file[f]) = Size[f]

NoTask(m) == [pc |-> "idle", model |-> m, at |-> 1, url |-> 1, have |-> 0,
              fresh |-> TRUE, fd |-> "none", cancel |-> FALSE]

Finished == {"done", "failed", "canceled"}

\* A task the list shows as downloading or verifying.
Active(t) == task[t].pc \notin Finished \cup {"idle", "probe"}

FileOf(t) == Needs[task[t].model][task[t].at]

InTransfer(t, f) == task[t].pc \in {"wait", "body"} /\ FileOf(t) = f

Init ==
  /\ part = [f \in Files |-> Absent]
  /\ file \in {g \in [Files -> {Absent} \cup {Whole(f) : f \in Files}] :
                 \A f \in Files : g[f] \in {Absent, Whole(f)}}
  /\ \E m \in Models : task = [t \in Tasks |-> NoTask(m)]
  /\ sel = [c \in Capabilities |-> None]
  /\ act = None
  /\ del = [model |-> None, left |-> <<>>]
  /\ suspect = {} /\ raced = FALSE
  /\ starts = 0 /\ restarts = 0

-----------------------------------------------------------------------------
(* The download manager. *)

Disk == <<part, file>>
Routes == <<sel, act, del, raced>>

\* DownloadManager::start, up to the disk probe.
Start(t, m, force) ==
  /\ starts < MaxStarts
  /\ task[t].pc \in Finished \cup {"idle"}
  /\ force \/ ~Installed(m)
  /\ ~\E u \in Tasks : Active(u) /\ task[u].model = m
  /\ starts' = starts + 1
  /\ task' = [task EXCEPT ![t] = [NoTask(m) EXCEPT !.pc = "probe"]]
  /\ UNCHANGED <<Disk, Routes, suspect, restarts>>

\* The probe passes, the task is registered and spawned; or it is refused.
Register(t) ==
  /\ task[t].pc = "probe"
  /\ task' = [task EXCEPT ![t].pc = "files"]
  /\ UNCHANGED <<Disk, Routes, suspect, starts, restarts>>

InsufficientDisk(t) ==
  /\ task[t].pc = "probe"
  /\ task' = [task EXCEPT ![t].pc = "idle"]
  /\ UNCHANGED <<Disk, Routes, suspect, starts, restarts>>

Cancel(t) ==
  /\ Active(t)
  /\ task' = [task EXCEPT ![t].cancel = TRUE]
  /\ UNCHANGED <<Disk, Routes, suspect, starts, restarts>>

Ends(t, verdict) ==
  [task EXCEPT ![t] = [NoTask(@.model) EXCEPT !.pc = verdict, !.cancel = task[t].cancel]]

\* The request to a source, with the range of what the part file holds.
Request(t, url) ==
  [task EXCEPT ![t].pc = "wait", ![t].url = url, ![t].fd = "none",
               ![t].have = Length(part'[FileOf(t)])]

NextUrl(t) ==
  IF task[t].url < Urls THEN Request(t, task[t].url + 1) ELSE Ends(t, "failed")

\* download_model: the loop over the files, a cancel seen before each; then the
\* verification, which nothing cancels.
NextFile(t) ==
  LET more == task[t].at <= Len(Needs[task[t].model]) IN
  /\ task[t].pc = "files"
  /\ UNCHANGED <<Disk, Routes, starts, restarts>>
  /\ \/ more /\ task[t].cancel /\ task' = Ends(t, "canceled") /\ UNCHANGED suspect
     \/ /\ more /\ ~task[t].cancel
        /\ task' = Request(t, 1)
        /\ suspect' = IF \E u \in Tasks \ {t} : InTransfer(u, FileOf(t))
                        THEN suspect \cup {FileOf(t)} ELSE suspect
     \/ /\ ~more
        /\ task' = [task EXCEPT ![t].pc = "verify"]
        /\ UNCHANGED suspect

\* No connection, an HTTP error (a range past the end is one), no file to open.
Refused(t) ==
  /\ task[t].pc = "wait"
  /\ UNCHANGED <<Disk, Routes, suspect, starts, restarts>>
  /\ task' = NextUrl(t)

\* The part file is opened: appended to after a 206, truncated after a 200.
Respond(t, resume) ==
  LET f == FileOf(t) IN
  /\ task[t].pc = "wait"
  /\ resume => task[t].have \in 1..(Size[f] - 1) /\ part[f] # Absent
  /\ part' = [part EXCEPT ![f] = IF resume THEN @ ELSE <<>>]
  /\ task' = [task EXCEPT ![t].pc = "body", ![t].fd = "part",
                          ![t].fresh = ~resume,
                          ![t].have = IF resume THEN @ ELSE 0]
  /\ suspect' = IF resume /\ (task[t].url \in Stale \/ \E i \in DOMAIN part[f] : part[f][i] = 0)
                  THEN suspect \cup {f} ELSE suspect
  /\ UNCHANGED <<file, Routes, starts, restarts>>

\* One chunk written: at the descriptor's offset, or at the end in append mode.
Written(t, c) ==
  LET value == IF task[t].url \in Stale THEN 0 ELSE task[t].have + 1
      place == IF task[t].fresh THEN task[t].have + 1 ELSE Len(c) + 1
      length == IF place > Len(c) THEN place ELSE Len(c)
  IN  [i \in 1..length |-> IF i = place THEN value
                           ELSE IF i <= Len(c) THEN c[i] ELSE 0]

Chunk(t) ==
  LET f == FileOf(t) IN
  /\ task[t].pc = "body" /\ task[t].have < Size[f]
  /\ UNCHANGED <<Routes, suspect, starts, restarts>>
  /\ \/ /\ task[t].cancel
        /\ task' = Ends(t, "canceled")
        /\ UNCHANGED Disk
     \/ /\ ~task[t].cancel
        /\ task' = [task EXCEPT ![t].have = @ + 1]
        /\ part' = IF task[t].fd = "part" THEN [part EXCEPT ![f] = Written(t, @)] ELSE part
        /\ file' = IF task[t].fd = "file" THEN [file EXCEPT ![f] = Written(t, @)] ELSE file

\* The body breaks off or a write fails: the next source resumes.
BodyFails(t) ==
  /\ task[t].pc = "body" /\ ~task[t].cancel
  /\ UNCHANGED <<Disk, Routes, suspect, starts, restarts>>
  /\ task' = NextUrl(t)

\* The descriptors others hold on file f after its names have moved.
Moved(tasks, f, from, to) ==
  [u \in Tasks |->
     IF tasks[u].pc = "body" /\ Needs[tasks[u].model][tasks[u].at] = f /\ tasks[u].fd = from
       THEN [tasks[u] EXCEPT !.fd = to] ELSE tasks[u]]

\* Mutant of Accepted: only the size is checked.
AcceptedBySize(t) == task[t].have = Size[FileOf(t)]

\* The size check, and the hash check of a transfer that was not resumed.
Accepted(t) ==
  /\ task[t].have = Size[FileOf(t)]
  /\ task[t].fresh => task[t].url \notin Stale

EndOfBody(t) ==
  LET f == FileOf(t) IN
  /\ task[t].pc = "body"
  /\ UNCHANGED <<Routes, suspect, starts, restarts>>
  /\ \/ /\ ~Accepted(t)
        /\ part' = [part EXCEPT ![f] = Absent] /\ UNCHANGED file
        /\ task' = Moved(NextUrl(t), f, "part", "gone")
     \/ /\ Accepted(t) /\ part[f] = Absent
        /\ UNCHANGED Disk
        /\ task' = NextUrl(t)
     \/ /\ Accepted(t) /\ part[f] # Absent
        /\ file' = [file EXCEPT ![f] = part[f]]
        /\ part' = [part EXCEPT ![f] = Absent]
        /\ task' = Moved(Moved([task EXCEPT ![t] = [NoTask(@.model) EXCEPT
                                 !.pc = "files", !.at = task[t].at + 1, !.cancel = task[t].cancel]],
                               f, "file", "gone"), f, "part", "file")

\* The whole set is looked at again before the verdict.
Verify(t) ==
  /\ task[t].pc = "verify"
  /\ task' = IF Installed(task[t].model) THEN [task EXCEPT ![t].pc = "verified"]
             ELSE Ends(t, "failed")
  /\ UNCHANGED <<Disk, Routes, suspect, starts, restarts>>

Done(t) ==
  /\ task[t].pc = "verified"
  /\ task' = Ends(t, "done")
  /\ UNCHANGED <<Disk, Routes, suspect, starts, restarts>>

-----------------------------------------------------------------------------
(* The activate and delete routes, for capabilities applied at restart. *)

Downloads == <<part, task, suspect, starts>>

\* activate_model: the model is installed; then its row is written.
ActivateCheck(m) ==
  /\ act = None /\ Installed(m)
  /\ act' = m
  /\ raced' = (raced \/ del.model # None)
  /\ UNCHANGED <<Downloads, file, sel, del, restarts>>

ActivateWrite ==
  /\ act # None
  /\ sel' = [sel EXCEPT ![CapOf[act]] = act]
  /\ act' = None
  /\ UNCHANGED <<Downloads, file, del, raced, restarts>>

\* The settings row wins over the model the configuration names.
Selected(c) == IF sel[c] # None THEN sel[c] ELSE Default[c]

\* Mutant of Deletable: files shared with another capability are not spared.
DeletableAlone(m) == Selected(CapOf[m]) # m

\* No active model, of this or of another capability, has one of m's files.
Deletable(m) ==
  /\ Selected(CapOf[m]) # m
  /\ \A c \in Capabilities \ {CapOf[m]} :
       Selected(c) # None => FilesOf(Selected(c)) \cap FilesOf(m) = {}

DeleteCheck(m) ==
  /\ del.model = None /\ Installed(m) /\ Deletable(m)
  /\ del' = [model |-> m, left |-> Needs[m]]
  /\ raced' = (raced \/ act # None)
  /\ UNCHANGED <<Downloads, file, sel, act, restarts>>

\* The files go one by one; tasks run between.
DeleteFile ==
  /\ del.left # <<>>
  /\ file' = [file EXCEPT ![Head(del.left)] = Absent]
  /\ task' = Moved(task, Head(del.left), "file", "gone")
  /\ del' = IF Tail(del.left) = <<>> THEN [model |-> None, left |-> <<>>]
            ELSE [del EXCEPT !.left = Tail(@)]
  /\ UNCHANGED <<part, suspect, starts, sel, act, raced, restarts>>

\* A crash or restart: files and settings stay, tasks and requests are gone.
Restart ==
  /\ restarts < MaxRestarts
  /\ restarts' = restarts + 1
  /\ task' = [t \in Tasks |-> NoTask(task[t].model)]
  /\ act' = None
  /\ del' = [model |-> None, left |-> <<>>]
  /\ UNCHANGED <<part, file, sel, suspect, raced, starts>>

TaskStep(t) ==
  \/ Register(t) \/ InsufficientDisk(t) \/ Cancel(t) \/ NextFile(t)
  \/ Refused(t) \/ (\E resume \in BOOLEAN : Respond(t, resume))
  \/ Chunk(t) \/ BodyFails(t) \/ EndOfBody(t) \/ Verify(t) \/ Done(t)

Next ==
  \/ \E t \in Tasks : TaskStep(t)
  \/ \E t \in Tasks, m \in Models, force \in BOOLEAN : Start(t, m, force)
  \/ \E m \in Models : ActivateCheck(m) \/ DeleteCheck(m)
  \/ ActivateWrite \/ DeleteFile \/ Restart

Spec == Init /\ [][Next]_vars

-----------------------------------------------------------------------------
(* Properties. *)

TypeOK ==
  /\ \A f \in Files : /\ part[f] \in Seq(0..Size[f]) \cup {Absent}
                       /\ file[f] \in Seq(0..Size[f]) \cup {Absent}
  /\ \A t \in Tasks :
       /\ task[t].pc \in Finished \cup {"idle", "probe", "files", "wait", "body", "verify", "verified"}
       /\ task[t].model \in Models
       /\ task[t].at \in 1..(Len(Needs[task[t].model]) + 1)
       /\ task[t].url \in 1..Urls /\ task[t].have \in Nat
       /\ task[t].fd \in {"none", "part", "file", "gone"}
       /\ task[t].fresh \in BOOLEAN /\ task[t].cancel \in BOOLEAN
  /\ sel \in [Capabilities -> Models \cup {None}]
  /\ act \in Models \cup {None} /\ del.model \in Models \cup {None}
  /\ del.left \in Seq(Files) /\ suspect \subseteq Files /\ raced \in BOOLEAN
  /\ starts \in 0..MaxStarts /\ restarts \in 0..MaxRestarts

\* What the shelf shows of a file and of a task.
Displayed ==
  [f \in Files |-> IF file[f] = Absent THEN "absent"
                  ELSE IF file[f] = Whole(f) THEN "whole" ELSE "damaged"]

Shown ==
  [t \in Tasks |-> IF task[t].pc \in {"idle", "probe"} THEN "idle"
                  ELSE IF task[t].pc \in Finished \cup {"verified"} THEN task[t].pc
                  ELSE "running"]

Wanted == [t \in Tasks |-> task[t].model]
Asked  == {t \in Tasks : task[t].cancel}

Shelf == INSTANCE ModelShelf WITH shelf <- Displayed, st <- Shown, wants <- Wanted, asked <- Asked

\* The store implements the shelf: through cancels, broken transfers, resumes
\* on another source, crashes and deletions, a file takes its final name in one
\* step and whole, unless it is a suspect; no task says "done" without having
\* seen all its files, or "canceled" unasked (models.rs:815, :1100-1113).
ImplementsShelf == Shelf!Spec

\* A model that a capability was switched to keeps its files: no deletion, of
\* it or of a model that shares a file with it, removes them, unless an
\* activation and a deletion were in flight together (models_api.rs:223-224).
SelectionStaysOnDisk ==
  ~raced => \A c \in Capabilities :
              sel[c] # None => \A f \in FilesOf(sel[c]) : file[f] # Absent
=============================================================================
