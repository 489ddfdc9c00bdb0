-------------------------- MODULE ModelStoreProofs --------------------------
(***************************************************************************)
(* The model store implements the shelf, and a model in use keeps its      *)
(* files, for any catalogue whose capabilities do not share files within   *)
(* themselves, any sources, and any number of tasks.                       *)
(***************************************************************************)
EXTENDS ModelStore, SequenceTheorems, TLAPS

Steps    == Finished \cup {"idle", "probe", "files", "wait", "body", "verify", "verified"}
Fds      == {"none", "part", "file", "gone"}
TaskType == [pc : Steps, model : Models, at : Nat \ {0}, url : 1..Urls, have : Nat,
             fresh : BOOLEAN, fd : Fds, cancel : BOOLEAN]

\* What a file may hold.
Contents(f) == Seq(0..Size[f]) \cup {Absent}

DiskTyped ==
  /\ part \in [Files -> Seq(Int)] /\ file \in [Files -> Seq(Int)]
  /\ \A f \in Files : part[f] \in Contents(f) /\ file[f] \in Contents(f)
  /\ suspect \subseteq Files

TasksTyped ==
  /\ task \in [Tasks -> TaskType]
  /\ \A t \in Tasks : /\ task[t].at <= Len(Needs[task[t].model]) + 1
                      /\ task[t].pc \in {"wait", "body"} => task[t].at <= Len(Needs[task[t].model])
  /\ starts \in 0..MaxStarts

RoutesTyped ==
  /\ sel \in [Capabilities -> Models \cup {None}]
  /\ act \in Models \cup {None}
  /\ del \in [model : Models \cup {None}, left : Seq(Files)]
  /\ raced \in BOOLEAN
  /\ restarts \in 0..MaxRestarts

\* An open descriptor is on a file that is there.
Held ==
  \A t \in Tasks : task[t].pc = "body" =>
    /\ task[t].fd = "part" => part[FileOf(t)] # Absent
    /\ task[t].fd = "file" => file[FileOf(t)] # Absent

\* The part file of a file that is no suspect: one transfer at most, which
\* knows its length; each chunk is the catalogue's or of another version, and
\* all are the catalogue's while a transfer the checks may accept goes on.
Own(f)    == \A t, u \in Tasks : InTransfer(t, f) /\ InTransfer(u, f) => t = u
Marked(f) == part[f] # Absent => \A i \in 1..Len(part[f]) : part[f][i] \in {0, i}
Sound(t, f) ==
  InTransfer(t, f) =>
    /\ task[t].have = Length(part[f])
    /\ task[t].pc = "body" =>
         /\ task[t].fd = "part"
         /\ ~task[t].fresh => task[t].url \notin Stale
         /\ task[t].url \notin Stale => \A i \in 1..Len(part[f]) : part[f][i] = i

Clean == \A f \in Files \ suspect : Own(f) /\ Marked(f) /\ \A t \in Tasks : Sound(t, f)

\* A deletion in progress removes no file in use.
Doomed(f) == \E i \in 1..Len(del.left) : del.left[i] = f

Deleting ==
  /\ del.model = None => del.left = <<>>
  /\ \A c \in Capabilities : sel[c] # None => CapOf[sel[c]] = c
  /\ ~raced =>
       /\ act # None => del.model = None /\ \A f \in FilesOf(act) : file[f] # Absent
       /\ \A c \in Capabilities : sel[c] # None => \A f \in FilesOf(sel[c]) : ~Doomed(f)

IInv == DiskTyped /\ TasksTyped /\ RoutesTyped /\ Held /\ Clean /\ Deleting /\ SelectionStaysOnDisk
-----------------------------------------------------------------------------
(* Files and their contents                                                *)

LEMMA Sizes ==
  ASSUME NEW f \in Files
  PROVE  /\ Size[f] \in Nat /\ Size[f] > 0
         /\ Absent \in Seq(Int) /\ Seq(0..Size[f]) \subseteq Seq(Int) /\ Absent \notin Seq(0..Size[f])
         /\ Whole(f) \in Seq(0..Size[f]) /\ Len(Whole(f)) = Size[f]
         /\ <<>> \in Seq(0..Size[f]) /\ Len(<<>>) = 0
<1>1. Size[f] \in Nat /\ Size[f] > 0
  BY StoreAssumption DEF StoreAssumption
<1>2. Absent \in Seq(Int) /\ Len(Absent) = 1 /\ Absent[1] = -1
  BY DEF Absent
<1>3. Absent \notin Seq(0..Size[f])
  <2>1. \A c \in Seq(0..Size[f]) : Len(c) = 1 => c[1] \in 0..Size[f]
    <3>1. ASSUME NEW c \in Seq(0..Size[f]), Len(c) = 1 PROVE 1 \in 1..Len(c)
      BY <3>1
    <3>2. QED
      BY <3>1, ElementOfSeq
  <2>2. ~(-1 \in 0..Size[f])
    BY <1>1
  <2>3. QED
    BY <1>2, <2>1, <2>2
<1>4. Seq(0..Size[f]) \subseteq Seq(Int)
  BY <1>1
<1>5. Whole(f) \in Seq(0..Size[f]) /\ Len(Whole(f)) = Size[f]
  BY <1>1 DEF Whole
<1>6. QED
  BY <1>1, <1>2, <1>3, <1>4, <1>5

\* The file a task is at is one of its model's.
LEMMA FileIn ==
  ASSUME NEW k \in TaskType, k.at <= Len(Needs[k.model])
  PROVE  Needs[k.model][k.at] \in Files /\ Needs[k.model][k.at] \in FilesOf(k.model)
<1>1. k.model \in Models /\ k.at \in Nat /\ k.at > 0
  BY DEF TaskType
<1>2. Needs[k.model] \in Seq(Files)
  BY <1>1, StoreAssumption DEF StoreAssumption
<1>3. Len(Needs[k.model]) \in Nat /\ k.at \in 1..Len(Needs[k.model])
  BY <1>1, <1>2
<1>4. QED
  BY <1>2, <1>3 DEF FilesOf

LEMMA LenNeeds ==
  ASSUME NEW m \in Models
  PROVE  Len(Needs[m]) \in Nat /\ Len(Needs[m]) > 0 /\ Needs[m] \in Seq(Files) /\ Needs[m] # <<>>
<1>1. Needs[m] \in Seq(Files) /\ Needs[m] # <<>>
  BY StoreAssumption DEF StoreAssumption
<1>2. QED
  BY <1>1

\* Writing a chunk: the bytes stay within the file's; a writer that knows the
\* length appends.
LEMMA WrittenIs ==
  ASSUME NEW f \in Files, NEW c \in Seq(0..Size[f]), NEW t \in Tasks, task[t] \in TaskType,
         task[t].have < Size[f]
  PROVE  /\ Written(t, c) \in Seq(0..Size[f])
         /\ task[t].have = Len(c) =>
              /\ Len(Written(t, c)) = Len(c) + 1
              /\ \A i \in 1..Len(c) : Written(t, c)[i] = c[i]
              /\ Written(t, c)[Len(c) + 1] = IF task[t].url \in Stale THEN 0 ELSE Len(c) + 1
<1>1. PICK h \in Nat : h = task[t].have
  BY DEF TaskType
<1>2. Size[f] \in Nat /\ h < Size[f] /\ Len(c) \in Nat
  BY <1>1, Sizes
<1> DEFINE value == IF task[t].url \in Stale THEN 0 ELSE h + 1
           place == IF task[t].fresh THEN h + 1 ELSE Len(c) + 1
           length == IF place > Len(c) THEN place ELSE Len(c)
<1>3. Written(t, c) = [i \in 1..length |-> IF i = place THEN value ELSE IF i <= Len(c) THEN c[i] ELSE 0]
  BY <1>1 DEF Written
<1>4. value \in 0..Size[f] /\ place \in Nat /\ length \in Nat /\ 0 \in 0..Size[f]
  BY <1>2
<1>5. task[t].have = Len(c) => place = Len(c) + 1 /\ length = Len(c) + 1
                               /\ value = IF task[t].url \in Stale THEN 0 ELSE Len(c) + 1
  BY <1>1, <1>2
<1> HIDE DEF value, place, length
<1>6. PICK w : w = Written(t, c)
  OBVIOUS
<1>7. w = [i \in 1..length |-> IF i = place THEN value ELSE IF i <= Len(c) THEN c[i] ELSE 0]
  BY <1>3, <1>6
<1>8. \A i \in 1..length : (IF i = place THEN value ELSE IF i <= Len(c) THEN c[i] ELSE 0) \in 0..Size[f]
  BY <1>2, <1>4
<1>9. w \in Seq(0..Size[f]) /\ Len(w) = length
  BY <1>4, <1>7, <1>8
<1>10. ASSUME task[t].have = Len(c)
       PROVE  /\ Len(w) = Len(c) + 1
              /\ \A i \in 1..Len(c) : w[i] = c[i]
              /\ w[Len(c) + 1] = IF task[t].url \in Stale THEN 0 ELSE Len(c) + 1
  <2>1. Len(w) = Len(c) + 1 /\ place = Len(c) + 1 /\ length = Len(c) + 1
    BY <1>5, <1>9, <1>10
  <2>2. \A i \in 1..Len(c) : w[i] = c[i]
    BY <1>2, <1>7, <2>1
  <2>3. w[Len(c) + 1] = value
    BY <1>2, <1>7, <2>1
  <2>4. QED
    BY <1>5, <1>10, <2>1, <2>2, <2>3
<1>11. QED
  BY <1>6, <1>9, <1>10

-----------------------------------------------------------------------------
(* What a step does to the tasks                                           *)

\* A task that only its descriptor may have moved under.
Stays(u) ==
  /\ task'[u].pc = task[u].pc /\ task'[u].model = task[u].model /\ task'[u].at = task[u].at
  /\ task'[u].url = task[u].url /\ task'[u].have = task[u].have /\ task'[u].fresh = task[u].fresh
  /\ task'[u].cancel = task[u].cancel

LEMMA MovedIs ==
  ASSUME NEW tasks \in [Tasks -> TaskType], NEW f, NEW from, NEW to \in Fds
  PROVE  /\ Moved(tasks, f, from, to) \in [Tasks -> TaskType]
         /\ \A u \in Tasks :
              LET k == Moved(tasks, f, from, to)[u] IN
              /\ k.pc = tasks[u].pc /\ k.model = tasks[u].model /\ k.at = tasks[u].at
              /\ k.url = tasks[u].url /\ k.have = tasks[u].have /\ k.fresh = tasks[u].fresh
              /\ k.cancel = tasks[u].cancel
              /\ k.fd = IF tasks[u].pc = "body" /\ Needs[tasks[u].model][tasks[u].at] = f /\ tasks[u].fd = from
                        THEN to ELSE tasks[u].fd
<1> DEFINE M == Moved(tasks, f, from, to)
<1>1. ASSUME NEW u \in Tasks
      PROVE  /\ M[u] \in TaskType
             /\ M[u].pc = tasks[u].pc /\ M[u].model = tasks[u].model /\ M[u].at = tasks[u].at
             /\ M[u].url = tasks[u].url /\ M[u].have = tasks[u].have /\ M[u].fresh = tasks[u].fresh
             /\ M[u].cancel = tasks[u].cancel
             /\ M[u].fd = IF tasks[u].pc = "body" /\ Needs[tasks[u].model][tasks[u].at] = f /\ tasks[u].fd = from
                          THEN to ELSE tasks[u].fd
  <2>1. PICK k \in TaskType : k = tasks[u]
    OBVIOUS
  <2>2. M[u] = IF k.pc = "body" /\ Needs[k.model][k.at] = f /\ k.fd = from
               THEN [k EXCEPT !.fd = to] ELSE k
    BY <2>1 DEF Moved
  <2>3. PICK j : j = [k EXCEPT !.fd = to]
    OBVIOUS
  <2>4. /\ j \in TaskType /\ j.fd = to /\ j.pc = k.pc /\ j.model = k.model /\ j.at = k.at
        /\ j.url = k.url /\ j.have = k.have /\ j.fresh = k.fresh /\ j.cancel = k.cancel
    BY <2>3 DEF TaskType
  <2>5. QED
    BY <2>1, <2>2, <2>3, <2>4
<1>2. DOMAIN M = Tasks /\ M = [u \in Tasks |-> M[u]]
  BY DEF Moved
<1>3. M \in [Tasks -> TaskType]
  BY <1>1, <1>2
<1>4. QED
  BY <1>1, <1>3
\* The fields of the record a task begins, ends or goes on with.
LEMMA IdleTask ==
  ASSUME NEW m \in Models
  PROVE  /\ NoTask(m) \in TaskType
         /\ NoTask(m).pc = "idle" /\ NoTask(m).at = 1 /\ NoTask(m).model = m /\ NoTask(m).cancel = FALSE
<1>1. 1 \in 1..Urls /\ 0 \in Nat /\ 1 \in Nat \ {0} /\ "idle" \in Steps /\ "none" \in Fds
  BY StoreAssumption DEF StoreAssumption, Steps, Fds
<1>2. QED
  BY <1>1 DEF NoTask, TaskType

Goes(m, at, b) == [NoTask(m) EXCEPT !.pc = "files", !.at = at, !.cancel = b]
Over(m, pc, b) == [NoTask(m) EXCEPT !.pc = pc, !.cancel = b]

LEMMA GoesIs ==
  ASSUME NEW m \in Models, NEW at \in Nat \ {0}, NEW b \in BOOLEAN, NEW k, k = Goes(m, at, b)
  PROVE  k \in TaskType /\ k.pc = "files" /\ k.model = m /\ k.at = at /\ k.cancel = b
<1>1. PICK j \in TaskType : j = NoTask(m) /\ j.model = m
  BY IdleTask
<1>2. k = [j EXCEPT !.pc = "files", !.at = at, !.cancel = b]
  BY <1>1 DEF Goes
<1>3. QED
  BY <1>1, <1>2 DEF TaskType, Steps

LEMMA OverIs ==
  ASSUME NEW m \in Models, NEW pc \in Steps, NEW b \in BOOLEAN, NEW k, k = Over(m, pc, b)
  PROVE  k \in TaskType /\ k.pc = pc /\ k.model = m /\ k.at = 1 /\ k.cancel = b
<1>1. PICK j \in TaskType : j = NoTask(m) /\ j.model = m /\ j.at = 1
  BY IdleTask
<1>2. k = [j EXCEPT !.pc = pc, !.cancel = b]
  BY <1>1 DEF Over
<1>3. QED
  BY <1>1, <1>2 DEF TaskType

\* The step changes one task.
Turns(t, k) == k \in TaskType /\ task'[t] = k /\ \A u \in Tasks \ {t} : task'[u] = task[u]

LEMMA EndsIs ==
  ASSUME TasksTyped, NEW t \in Tasks, NEW v \in Finished, task' = Ends(t, v)
  PROVE  \E k : /\ Turns(t, k) /\ task' \in [Tasks -> TaskType]
                /\ k.pc = v /\ k.model = task[t].model /\ k.at = 1 /\ k.cancel = task[t].cancel
<1>1. PICK m \in Models, b \in BOOLEAN : m = task[t].model /\ b = task[t].cancel
  BY DEF TasksTyped, TaskType
<1>2. v \in Steps
  BY DEF Steps
<1>a. PICK k : k = Over(m, v, b)
  OBVIOUS
<1>3. k \in TaskType /\ k.pc = v /\ k.model = m /\ k.at = 1 /\ k.cancel = b
  BY <1>2, <1>a, OverIs
<1>4. [task EXCEPT ![t] = k] \in [Tasks -> TaskType]
  BY <1>3 DEF TasksTyped
<1>5. task' = [task EXCEPT ![t] = k]
  BY <1>1, <1>a DEF Ends, Over
<1>6. QED
  BY <1>1, <1>3, <1>4, <1>5 DEF Turns, TasksTyped

\* A request: the task waits for an answer about the same file.
Asking(t, k) ==
  /\ k.pc = "wait" /\ k.model = task[t].model /\ k.at = task[t].at /\ k.cancel = task[t].cancel
  /\ k.have = Length(part'[FileOf(t)])

LEMMA RequestIs ==
  ASSUME TasksTyped, NEW t \in Tasks, NEW url \in 1..Urls, Length(part'[FileOf(t)]) \in Nat,
         NEW tasks, tasks = Request(t, url)
  PROVE  \E k \in TaskType : /\ tasks = [task EXCEPT ![t] = k]
                             /\ Asking(t, k)
<1>1. PICK j \in TaskType : j = task[t]
  BY DEF TasksTyped
<1>2. PICK n \in Nat : n = Length(part'[FileOf(t)])
  OBVIOUS
<1>3. PICK k : k = [j EXCEPT !.pc = "wait", !.url = url, !.fd = "none", !.have = n]
  OBVIOUS
<1>4. k \in TaskType /\ k.pc = "wait" /\ k.model = j.model /\ k.at = j.at /\ k.cancel = j.cancel /\ k.have = n
  BY <1>3 DEF TaskType, Steps, Fds
<1>5. tasks = [task EXCEPT ![t] = k]
  BY <1>1, <1>2, <1>3 DEF Request, TasksTyped
<1>6. QED
  BY <1>1, <1>2, <1>4, <1>5 DEF Asking

\* The next source, or the end.
LEMMA NextUrlIs ==
  ASSUME TasksTyped, NEW t \in Tasks, Length(part'[FileOf(t)]) \in Nat, NEW tasks, tasks = NextUrl(t)
  PROVE  \E k \in TaskType :
            /\ tasks = [task EXCEPT ![t] = k]
            /\ \/ Asking(t, k)
               \/ k.pc = "failed" /\ k.model = task[t].model /\ k.at = 1 /\ k.cancel = task[t].cancel
<1>1. CASE task[t].url < Urls
  <2>1. task[t].url + 1 \in 1..Urls
    BY <1>1, StoreAssumption DEF StoreAssumption, TasksTyped, TaskType
  <2>2. tasks = Request(t, task[t].url + 1)
    BY <1>1 DEF NextUrl
  <2>3. QED
    BY <2>1, <2>2, RequestIs
<1>2. CASE ~(task[t].url < Urls)
  <2>1. PICK m \in Models, b \in BOOLEAN : m = task[t].model /\ b = task[t].cancel
    BY DEF TasksTyped, TaskType
  <2>2. PICK v \in Steps : v = "failed"
    BY DEF Steps, Finished
  <2>a. PICK k : k = Over(m, v, b)
    OBVIOUS
  <2>3. k \in TaskType /\ k.pc = v /\ k.model = m /\ k.at = 1 /\ k.cancel = b
    BY <2>a, OverIs
  <2>4. tasks = [task EXCEPT ![t] = k]
    BY <1>2, <2>1, <2>2, <2>a DEF NextUrl, Ends, Over
  <2>5. QED
    BY <2>1, <2>2, <2>3, <2>4
<1>3. QED
  BY <1>1, <1>2
LEMMA LengthIs ==
  ASSUME NEW f \in Files, NEW c \in Contents(f)
  PROVE  /\ Length(c) \in Nat /\ Length(Absent) = 0 /\ c \in Seq(Int)
         /\ c # Absent => c \in Seq(0..Size[f]) /\ Length(c) = Len(c)
<1>1. c \in Seq(0..Size[f]) => Len(c) \in Nat
  OBVIOUS
<1>2. QED
  BY <1>1, Sizes DEF Contents, Length

\* A task that is in no transfer any more; one that asks a source.
Quits(t) ==
  /\ \E k \in TaskType : /\ task' = [task EXCEPT ![t] = k]
                         /\ k.pc \notin {"wait", "body"} /\ k.at <= Len(Needs[k.model]) + 1
  /\ UNCHANGED <<part, file, suspect>>

Asks(t) ==
  /\ task[t].at <= Len(Needs[task[t].model])
  /\ \E k \in TaskType : task' = [task EXCEPT ![t] = k] /\ Asking(t, k)
  /\ UNCHANGED <<part, file>>
  /\ \/ InTransfer(t, FileOf(t)) /\ suspect' = suspect
     \/ suspect' = IF \E u \in Tasks \ {t} : InTransfer(u, FileOf(t)) THEN suspect \cup {FileOf(t)} ELSE suspect

Writes(t)  == Chunk(t) /\ ~task[t].cancel
Rejects(t) == EndOfBody(t) /\ ~Accepted(t)
Renames(t) == EndOfBody(t) /\ Accepted(t) /\ part[FileOf(t)] # Absent

LEMMA NextUrlQuitsOrAsks ==
  ASSUME DiskTyped, TasksTyped, NEW t \in Tasks, task[t].pc \in {"wait", "body"},
         task' = NextUrl(t), UNCHANGED <<part, file, suspect>>
  PROVE  Quits(t) \/ Asks(t)
<1>1. PICK f \in Files : f = FileOf(t) /\ task[t].at <= Len(Needs[task[t].model])
  BY FileIn DEF TasksTyped, FileOf
<1>2. Length(part'[FileOf(t)]) \in Nat
  BY <1>1, LengthIs DEF DiskTyped
<1>3. PICK k \in TaskType :
            /\ task' = [task EXCEPT ![t] = k]
            /\ \/ Asking(t, k)
               \/ k.pc = "failed" /\ k.model = task[t].model /\ k.at = 1
  BY <1>2, NextUrlIs
<1>4. CASE Asking(t, k)
  <2>1. InTransfer(t, FileOf(t))
    BY DEF InTransfer
  <2>2. QED
    BY <1>1, <1>3, <1>4, <2>1 DEF Asks
<1>5. CASE k.pc = "failed" /\ k.at = 1
  <2>1. k.at <= Len(Needs[k.model]) + 1
    BY <1>5, LenNeeds DEF TaskType
  <2>2. QED
    BY <1>3, <1>5, <2>1 DEF Quits
<1>6. QED
  BY <1>3, <1>4, <1>5

LEMMA EndsQuits ==
  ASSUME TasksTyped, NEW t \in Tasks, NEW v \in Finished, task' = Ends(t, v), UNCHANGED <<part, file, suspect>>
  PROVE  Quits(t)
<1>1. PICK k : /\ Turns(t, k) /\ task' \in [Tasks -> TaskType]
               /\ k.pc = v /\ k.at = 1
  BY EndsIs
<1>2. task' = [task EXCEPT ![t] = k]
  BY <1>1 DEF Turns, TasksTyped
<1>3. k.at <= Len(Needs[k.model]) + 1
  BY <1>1, LenNeeds DEF Turns, TaskType
<1>4. QED
  BY <1>1, <1>2, <1>3 DEF Quits, Turns, Finished

LEMMA TaskKinds ==
  ASSUME DiskTyped, TasksTyped, NEW t \in Tasks, TaskStep(t)
  PROVE  \/ Quits(t) \/ Asks(t) \/ Cancel(t) \/ \E resume \in BOOLEAN : Respond(t, resume)
         \/ Writes(t) \/ Rejects(t) \/ Renames(t)
<1>0. PICK j \in TaskType : /\ j = task[t] /\ j.at <= Len(Needs[j.model]) + 1
                            /\ j.pc \in {"wait", "body"} => j.at <= Len(Needs[j.model])
  BY DEF TasksTyped
<1>1. ASSUME NEW pc \in {"files", "idle", "verify", "verified"}, task' = [task EXCEPT ![t].pc = pc],
             UNCHANGED <<part, file, suspect>>
      PROVE  Quits(t)
  <2>1. PICK k : k = [j EXCEPT !.pc = pc]
    OBVIOUS
  <2>2. k \in TaskType /\ k.pc = pc /\ k.model = j.model /\ k.at = j.at
    BY <2>1 DEF TaskType, Steps
  <2>3. task' = [task EXCEPT ![t] = k]
    BY <1>0, <1>1, <2>1
  <2>4. QED
    BY <1>0, <1>1, <2>2, <2>3 DEF Quits
<1>2. CASE Register(t) \/ InsufficientDisk(t)
  <2>1. PICK pc \in {"files", "idle"} : task' = [task EXCEPT ![t].pc = pc]
    BY <1>2 DEF Register, InsufficientDisk
  <2>2. UNCHANGED <<part, file, suspect>>
    BY <1>2 DEF Register, InsufficientDisk, Disk
  <2>3. QED
    BY <1>1, <2>1, <2>2
<1>3. CASE Verify(t) \/ Done(t)
  <2>1. PICK pc \in {"verified"}, v \in Finished : task' = [task EXCEPT ![t].pc = pc] \/ task' = Ends(t, v)
    BY <1>3 DEF Verify, Done, Finished
  <2>2. UNCHANGED <<part, file, suspect>>
    BY <1>3 DEF Verify, Done, Disk
  <2>3. QED
    BY <1>1, <2>1, <2>2, EndsQuits
<1>4. CASE NextFile(t)
  <2>1. UNCHANGED <<part, file>>
    BY <1>4 DEF NextFile, Disk
  <2>2. PICK pc \in {"verify"}, v \in Finished :
           \/ task' = Ends(t, v) /\ suspect' = suspect
           \/ task' = [task EXCEPT ![t].pc = pc] /\ suspect' = suspect
           \/ /\ task[t].at <= Len(Needs[task[t].model])
              /\ task' = Request(t, 1)
              /\ suspect' = IF \E u \in Tasks \ {t} : InTransfer(u, FileOf(t))
                              THEN suspect \cup {FileOf(t)} ELSE suspect
    BY <1>4 DEF NextFile, Finished
  <2>3. ASSUME /\ task[t].at <= Len(Needs[task[t].model])
               /\ task' = Request(t, 1)
               /\ suspect' = IF \E u \in Tasks \ {t} : InTransfer(u, FileOf(t))
                               THEN suspect \cup {FileOf(t)} ELSE suspect
        PROVE  Asks(t)
    <3>1. PICK f \in Files : f = FileOf(t)
      BY <1>0, <2>3, FileIn DEF FileOf
    <3>2. Length(part'[FileOf(t)]) \in Nat
      BY <2>1, <3>1, LengthIs DEF DiskTyped
    <3>3. PICK url \in 1..Urls : url = 1
      BY StoreAssumption DEF StoreAssumption
    <3>4. PICK k \in TaskType : task' = [task EXCEPT ![t] = k] /\ Asking(t, k)
      BY <2>3, <3>2, <3>3, RequestIs
    <3>5. QED
      BY <2>1, <2>3, <3>4 DEF Asks
  <2>4. QED
    BY <1>1, <2>1, <2>2, <2>3, EndsQuits
<1>5. CASE Refused(t) \/ BodyFails(t)
  <2>1. task[t].pc \in {"wait", "body"} /\ task' = NextUrl(t) /\ UNCHANGED <<part, file, suspect>>
    BY <1>5 DEF Refused, BodyFails, Disk
  <2>2. QED
    BY <2>1, NextUrlQuitsOrAsks
<1>6. CASE Chunk(t)
  <2>1. PICK v \in Finished : v = "canceled"
    BY DEF Finished
  <2>2. ~task[t].cancel \/ (task' = Ends(t, v) /\ UNCHANGED <<part, file, suspect>>)
    BY <1>6, <2>1 DEF Chunk, Disk
  <2>3. QED
    BY <1>6, <2>2, EndsQuits DEF Writes
<1>7. CASE EndOfBody(t)
  <2>1. CASE ~Accepted(t) \/ part[FileOf(t)] # Absent
    BY <1>7, <2>1 DEF Rejects, Renames
  <2>2. CASE Accepted(t) /\ part[FileOf(t)] = Absent
    <3>1. task[t].pc \in {"wait", "body"} /\ task' = NextUrl(t) /\ UNCHANGED <<part, file, suspect>>
      BY <1>7, <2>2 DEF EndOfBody, Disk
    <3>2. QED
      BY <3>1, NextUrlQuitsOrAsks
  <2>3. QED
    BY <2>1, <2>2
<1>8. QED
  BY <1>2, <1>3, <1>4, <1>5, <1>6, <1>7 DEF TaskStep
LEMMA RespondIs ==
  ASSUME DiskTyped, TasksTyped, NEW t \in Tasks, NEW resume \in BOOLEAN, Respond(t, resume)
  PROVE  \E f \in Files, k \in TaskType :
           /\ f = FileOf(t) /\ InTransfer(t, f) /\ Turns(t, k) /\ task' \in [Tasks -> TaskType]
           /\ k.pc = "body" /\ k.fd = "part" /\ k.fresh = ~resume /\ k.url = task[t].url
           /\ k.model = task[t].model /\ k.at = task[t].at /\ k.cancel = task[t].cancel
           /\ k.have = (IF resume THEN task[t].have ELSE 0)
           /\ part' = [part EXCEPT ![f] = IF resume THEN part[f] ELSE <<>>]
           /\ resume => part[f] # Absent
           /\ file' = file
           /\ suspect' = IF resume /\ (task[t].url \in Stale \/ \E i \in DOMAIN part[f] : part[f][i] = 0)
                           THEN suspect \cup {f} ELSE suspect
<1>0. PICK j \in TaskType : j = task[t] /\ j.pc = "wait" /\ j.at <= Len(Needs[j.model])
  BY DEF TasksTyped, Respond
<1>1. PICK f \in Files : f = FileOf(t)
  BY <1>0, FileIn DEF FileOf
<1>2. PICK k : k = [j EXCEPT !.pc = "body", !.fd = "part", !.fresh = ~resume,
                             !.have = IF resume THEN j.have ELSE 0]
  OBVIOUS
<1>3. PICK h \in Nat, b \in BOOLEAN : h = (IF resume THEN j.have ELSE 0) /\ b = ~resume
  BY DEF TaskType
<1>4. k = [j EXCEPT !.pc = "body", !.fd = "part", !.fresh = b, !.have = h]
  BY <1>2, <1>3
<1>5. /\ k \in TaskType /\ k.pc = "body" /\ k.fd = "part" /\ k.fresh = b /\ k.url = j.url
      /\ k.model = j.model /\ k.at = j.at /\ k.cancel = j.cancel /\ k.have = h
  BY <1>4 DEF TaskType, Steps, Fds
<1>6. task' = [task EXCEPT ![t] = k]
  BY <1>0, <1>2 DEF Respond, TasksTyped
<1>7. Turns(t, k) /\ task' \in [Tasks -> TaskType]
  BY <1>5, <1>6 DEF Turns, TasksTyped
<1>8. /\ part' = [part EXCEPT ![f] = IF resume THEN part[f] ELSE <<>>]
      /\ resume => part[f] # Absent
      /\ file' = file
      /\ suspect' = IF resume /\ (task[t].url \in Stale \/ \E i \in DOMAIN part[f] : part[f][i] = 0)
                      THEN suspect \cup {f} ELSE suspect
  BY <1>1 DEF Respond
<1>9. InTransfer(t, f)
  BY <1>0, <1>1 DEF InTransfer
<1>10. QED
  BY <1>0, <1>1, <1>3, <1>5, <1>7, <1>8, <1>9

LEMMA WritesIs ==
  ASSUME DiskTyped, TasksTyped, Held, NEW t \in Tasks, Writes(t)
  PROVE  \E f \in Files, k \in TaskType :
           /\ f = FileOf(t) /\ InTransfer(t, f) /\ Turns(t, k) /\ task' \in [Tasks -> TaskType]
           /\ task[t].pc = "body" /\ task[t].have < Size[f]
           /\ k.pc = "body" /\ k.fd = task[t].fd /\ k.fresh = task[t].fresh /\ k.url = task[t].url
           /\ k.model = task[t].model /\ k.at = task[t].at /\ k.cancel = task[t].cancel
           /\ k.have = task[t].have + 1
           /\ IF task[t].fd = "part" THEN part[f] # Absent /\ part' = [part EXCEPT ![f] = Written(t, part[f])]
              ELSE part' = part
           /\ IF task[t].fd = "file" THEN file[f] # Absent /\ file' = [file EXCEPT ![f] = Written(t, file[f])]
              ELSE file' = file
           /\ suspect' = suspect
<1>0. PICK j \in TaskType : j = task[t] /\ j.pc = "body" /\ j.at <= Len(Needs[j.model])
  BY DEF TasksTyped, Writes, Chunk
<1>1. PICK f \in Files : f = FileOf(t)
  BY <1>0, FileIn DEF FileOf
<1>2. PICK k : k = [j EXCEPT !.have = j.have + 1]
  OBVIOUS
<1>3. /\ k \in TaskType /\ k.pc = "body" /\ k.fd = j.fd /\ k.fresh = j.fresh /\ k.url = j.url
      /\ k.model = j.model /\ k.at = j.at /\ k.cancel = j.cancel /\ k.have = j.have + 1
  BY <1>0, <1>2 DEF TaskType
<1>4. task' = [task EXCEPT ![t] = k]
  BY <1>0, <1>2 DEF Writes, Chunk, TasksTyped
<1>5. Turns(t, k) /\ task' \in [Tasks -> TaskType]
  BY <1>3, <1>4 DEF Turns, TasksTyped
<1>6. /\ part' = IF task[t].fd = "part" THEN [part EXCEPT ![f] = Written(t, part[f])] ELSE part
      /\ file' = IF task[t].fd = "file" THEN [file EXCEPT ![f] = Written(t, file[f])] ELSE file
      /\ suspect' = suspect /\ task[t].have < Size[f]
  BY <1>1 DEF Writes, Chunk
<1>7. (task[t].fd = "part" => part[f] # Absent) /\ (task[t].fd = "file" => file[f] # Absent)
  BY <1>0, <1>1 DEF Held
<1>8. InTransfer(t, f)
  BY <1>0, <1>1 DEF InTransfer
<1>9. QED
  BY <1>0, <1>1, <1>3, <1>5, <1>6, <1>7, <1>8

LEMMA RejectsIs ==
  ASSUME DiskTyped, TasksTyped, NEW t \in Tasks, Rejects(t)
  PROVE  \E f \in Files, k \in TaskType :
           /\ f = FileOf(t) /\ InTransfer(t, f) /\ task[t].pc = "body"
           /\ task' \in [Tasks -> TaskType] /\ task'[t] = k
           /\ \/ Asking(t, k)
              \/ k.pc = "failed" /\ k.model = task[t].model /\ k.at = 1 /\ k.cancel = task[t].cancel
           /\ \A u \in Tasks \ {t} :
                Stays(u) /\ task'[u].fd = IF task[u].pc = "body" /\ FileOf(u) = f /\ task[u].fd = "part"
                                          THEN "gone" ELSE task[u].fd
           /\ part' = [part EXCEPT ![f] = Absent] /\ file' = file /\ suspect' = suspect
<1>0. PICK j \in TaskType : j = task[t] /\ j.pc = "body" /\ j.at <= Len(Needs[j.model])
  BY DEF TasksTyped, Rejects, EndOfBody
<1>1. PICK f \in Files : f = FileOf(t)
  BY <1>0, FileIn DEF FileOf
<1>2. part' = [part EXCEPT ![f] = Absent] /\ file' = file /\ suspect' = suspect
      /\ task' = Moved(NextUrl(t), f, "part", "gone")
  BY <1>1 DEF Rejects, EndOfBody
<1>3. part'[f] = Absent /\ Length(part'[FileOf(t)]) \in Nat
  BY <1>1, <1>2 DEF DiskTyped, Length
<1>4. PICK tasks : tasks = NextUrl(t)
  OBVIOUS
<1>5. PICK n \in TaskType :
            /\ tasks = [task EXCEPT ![t] = n]
            /\ \/ Asking(t, n)
               \/ n.pc = "failed" /\ n.model = task[t].model /\ n.at = 1 /\ n.cancel = task[t].cancel
  BY <1>3, <1>4, NextUrlIs
<1>6. tasks \in [Tasks -> TaskType] /\ tasks[t] = n /\ n.pc # "body" /\ \A u \in Tasks \ {t} : tasks[u] = task[u]
  BY <1>5 DEF TasksTyped, Asking
<1>7. PICK to, from \in Fds : to = "gone" /\ from = "part"
  BY DEF Fds
<1>8. task' = Moved(tasks, f, from, to)
  BY <1>2, <1>4, <1>7
<1>9. /\ task' \in [Tasks -> TaskType]
      /\ \A u \in Tasks :
           /\ task'[u].pc = tasks[u].pc /\ task'[u].model = tasks[u].model /\ task'[u].at = tasks[u].at
           /\ task'[u].url = tasks[u].url /\ task'[u].have = tasks[u].have /\ task'[u].fresh = tasks[u].fresh
           /\ task'[u].cancel = tasks[u].cancel
           /\ task'[u].fd = IF tasks[u].pc = "body" /\ Needs[tasks[u].model][tasks[u].at] = f /\ tasks[u].fd = from
                            THEN to ELSE tasks[u].fd
  BY <1>6, <1>8, MovedIs
<1>10. \A u \in Tasks \ {t} :
          Stays(u) /\ task'[u].fd = IF task[u].pc = "body" /\ FileOf(u) = f /\ task[u].fd = "part"
                                    THEN "gone" ELSE task[u].fd
  BY <1>6, <1>7, <1>9 DEF Stays, FileOf
<1>11. \/ Asking(t, task'[t])
       \/ task'[t].pc = "failed" /\ task'[t].model = task[t].model /\ task'[t].at = 1 /\ task'[t].cancel = task[t].cancel
  <2>1. /\ task'[t].pc = n.pc /\ task'[t].model = n.model /\ task'[t].at = n.at /\ task'[t].have = n.have
        /\ task'[t].cancel = n.cancel
    BY <1>6, <1>9
  <2>2. QED
    BY <1>5, <2>1 DEF Asking
<1>12. InTransfer(t, f)
  BY <1>0, <1>1 DEF InTransfer
<1>13. QED
  BY <1>0, <1>1, <1>2, <1>9, <1>10, <1>11, <1>12

LEMMA RenamesIs ==
  ASSUME DiskTyped, TasksTyped, NEW t \in Tasks, Renames(t)
  PROVE  \E f \in Files, k \in TaskType :
           /\ f = FileOf(t) /\ InTransfer(t, f) /\ task[t].pc = "body" /\ part[f] # Absent
           /\ f \in FilesOf(task[t].model)
           /\ task' \in [Tasks -> TaskType] /\ task'[t] = k
           /\ k.pc = "files" /\ k.model = task[t].model /\ k.at = task[t].at + 1 /\ k.cancel = task[t].cancel
           /\ \A u \in Tasks \ {t} :
                /\ Stays(u)
                /\ task'[u].fd = IF task[u].pc = "body" /\ FileOf(u) = f /\ task[u].fd = "file" THEN "gone"
                                 ELSE IF task[u].pc = "body" /\ FileOf(u) = f /\ task[u].fd = "part" THEN "file"
                                 ELSE task[u].fd
           /\ part' = [part EXCEPT ![f] = Absent] /\ file' = [file EXCEPT ![f] = part[f]] /\ suspect' = suspect
<1>0. PICK j \in TaskType : j = task[t] /\ j.pc = "body" /\ j.at <= Len(Needs[j.model])
  BY DEF TasksTyped, Renames, EndOfBody
<1>1. PICK f \in Files : f = FileOf(t) /\ f \in FilesOf(j.model)
  BY <1>0, FileIn DEF FileOf
<1>2. PICK k : k = Goes(j.model, j.at + 1, j.cancel)
  OBVIOUS
<1>3. k \in TaskType /\ k.pc = "files" /\ k.model = j.model /\ k.at = j.at + 1 /\ k.cancel = j.cancel
  <2>1. j.model \in Models /\ j.at + 1 \in Nat \ {0} /\ j.cancel \in BOOLEAN
    BY DEF TaskType
  <2>2. QED
    BY <1>2, <2>1, GoesIs
<1>4. PICK tasks : tasks = [task EXCEPT ![t] = k]
  OBVIOUS
<1>5. tasks \in [Tasks -> TaskType] /\ tasks[t] = k /\ \A u \in Tasks \ {t} : tasks[u] = task[u]
  BY <1>3, <1>4 DEF TasksTyped
<1>6. /\ part' = [part EXCEPT ![f] = Absent] /\ file' = [file EXCEPT ![f] = part[f]] /\ suspect' = suspect
      /\ task' = Moved(Moved([task EXCEPT ![t] = [NoTask(@.model) EXCEPT
                                 !.pc = "files", !.at = task[t].at + 1, !.cancel = task[t].cancel]],
                             f, "file", "gone"), f, "part", "file")
      /\ part[f] # Absent
  BY <1>1 DEF Renames, EndOfBody
<1>7. task' = Moved(Moved(tasks, f, "file", "gone"), f, "part", "file")
  BY <1>0, <1>2, <1>4, <1>6 DEF Goes
<1>8. PICK to1, to2, from1, from2 \in Fds : to1 = "gone" /\ from1 = "file" /\ to2 = "file" /\ from2 = "part"
  BY DEF Fds
<1>9. PICK mid : mid = Moved(tasks, f, from1, to1)
  OBVIOUS
<1>10. task' = Moved(mid, f, from2, to2)
  BY <1>7, <1>8, <1>9
<1>11. /\ mid \in [Tasks -> TaskType]
       /\ \A u \in Tasks :
           /\ mid[u].pc = tasks[u].pc /\ mid[u].model = tasks[u].model /\ mid[u].at = tasks[u].at
           /\ mid[u].url = tasks[u].url /\ mid[u].have = tasks[u].have /\ mid[u].fresh = tasks[u].fresh
           /\ mid[u].cancel = tasks[u].cancel
           /\ mid[u].fd = IF tasks[u].pc = "body" /\ Needs[tasks[u].model][tasks[u].at] = f /\ tasks[u].fd = from1
                          THEN to1 ELSE tasks[u].fd
  BY <1>5, <1>9, MovedIs
<1>12. /\ task' \in [Tasks -> TaskType]
       /\ \A u \in Tasks :
           /\ task'[u].pc = mid[u].pc /\ task'[u].model = mid[u].model /\ task'[u].at = mid[u].at
           /\ task'[u].url = mid[u].url /\ task'[u].have = mid[u].have /\ task'[u].fresh = mid[u].fresh
           /\ task'[u].cancel = mid[u].cancel
           /\ task'[u].fd = IF mid[u].pc = "body" /\ Needs[mid[u].model][mid[u].at] = f /\ mid[u].fd = from2
                            THEN to2 ELSE mid[u].fd
  BY <1>10, <1>11, MovedIs
<1>13. ASSUME NEW u \in Tasks \ {t}
       PROVE  /\ Stays(u)
              /\ task'[u].fd = IF task[u].pc = "body" /\ FileOf(u) = f /\ task[u].fd = "file" THEN "gone"
                               ELSE IF task[u].pc = "body" /\ FileOf(u) = f /\ task[u].fd = "part" THEN "file"
                               ELSE task[u].fd
  <2>1. Stays(u)
    BY <1>5, <1>11, <1>12 DEF Stays
  <2>2. mid[u].fd = IF task[u].pc = "body" /\ FileOf(u) = f /\ task[u].fd = "file" THEN "gone" ELSE task[u].fd
    BY <1>5, <1>8, <1>11 DEF FileOf
  <2>3. task'[u].fd = IF task[u].pc = "body" /\ FileOf(u) = f /\ mid[u].fd = "part" THEN "file" ELSE mid[u].fd
    BY <1>5, <1>8, <1>11, <1>12 DEF FileOf
  <2>4. QED
    BY <2>1, <2>2, <2>3
<1>14. task'[t].pc = "files" /\ task'[t].model = j.model /\ task'[t].at = j.at + 1 /\ task'[t].cancel = j.cancel
  BY <1>3, <1>5, <1>11, <1>12
<1>15. InTransfer(t, f)
  BY <1>0, <1>1 DEF InTransfer
<1>16. QED
  BY <1>0, <1>1, <1>6, <1>12, <1>13, <1>14, <1>15
-----------------------------------------------------------------------------
(* Transfers                                                               *)

Fine(f) == Own(f) /\ Marked(f) /\ \A t \in Tasks : Sound(t, f)

\* A file no transfer of which goes on differently stays as it is.
LEMMA FineStays ==
  ASSUME NEW f \in Files, Fine(f), part'[f] = part[f],
         \A u \in Tasks : InTransfer(u, f)' =>
            /\ InTransfer(u, f) /\ task'[u].pc = task[u].pc /\ task'[u].have = task[u].have
            /\ task[u].pc = "body" => /\ task'[u].fd = task[u].fd /\ task'[u].fresh = task[u].fresh
                                      /\ task'[u].url = task[u].url
  PROVE  Fine(f)'
<1>1. Own(f)'
  BY DEF Fine, Own
<1>2. Marked(f)'
  BY DEF Fine, Marked
<1>3. ASSUME NEW t \in Tasks
      PROVE  Sound(t, f)'
  <2> SUFFICES ASSUME InTransfer(t, f)' PROVE Sound(t, f)'
    BY DEF Sound
  <2>1. InTransfer(t, f) /\ Sound(t, f)
    BY DEF Fine
  <2>2. QED
    BY <2>1 DEF Sound
<1>4. QED
  BY <1>1, <1>2, <1>3 DEF Fine

\* A file with one transfer.
LEMMA FineOne ==
  ASSUME NEW f \in Files, NEW t \in Tasks, \A u \in Tasks \ {t} : ~(InTransfer(u, f)'), Marked(f)', Sound(t, f)'
  PROVE  Fine(f)'
<1>1. Own(f)'
  BY DEF Own
<1>2. ASSUME NEW u \in Tasks \ {t}
      PROVE  Sound(u, f)'
  BY <1>2 DEF Sound
<1>3. QED
  BY <1>1, <1>2 DEF Fine

LEMMA OthersAway ==
  ASSUME NEW f \in Files, Fine(f), NEW t \in Tasks, InTransfer(t, f), \A u \in Tasks \ {t} : Stays(u)
  PROVE  \A u \in Tasks \ {t} : ~(InTransfer(u, f)')
<1>1. \A u \in Tasks \ {t} : ~InTransfer(u, f)
  BY DEF Fine, Own
<1>2. \A u \in Tasks \ {t} : InTransfer(u, f)' <=> InTransfer(u, f)
  BY DEF Stays, InTransfer, FileOf
<1>3. QED
  BY <1>1, <1>2

LEMMA SameStays ==
  ASSUME NEW u, task'[u] = task[u]
  PROVE  Stays(u) /\ task'[u].fd = task[u].fd
  BY DEF Stays

\* What the transfers rely on.
Base == DiskTyped /\ TasksTyped /\ Held /\ Clean

LEMMA CleanIs == Clean <=> \A f \in Files \ suspect : Fine(f)
  BY DEF Clean, Fine

LEMMA QuitsBase ==
  ASSUME Base, NEW t \in Tasks, Quits(t), starts' \in 0..MaxStarts
  PROVE  Base'
<1>0. DiskTyped /\ TasksTyped /\ Held /\ Clean
  BY DEF Base
<1>1. PICK k \in TaskType : /\ task' = [task EXCEPT ![t] = k]
                            /\ k.pc \notin {"wait", "body"} /\ k.at <= Len(Needs[k.model]) + 1
  BY DEF Quits
<1>2. UNCHANGED <<part, file, suspect>>
  BY DEF Quits
<1>3. task'[t] = k /\ task' \in [Tasks -> TaskType] /\ \A u \in Tasks \ {t} : task'[u] = task[u]
  BY <1>0, <1>1 DEF TasksTyped
<1>4. DiskTyped'
  BY <1>0, <1>2 DEF DiskTyped
<1>5. TasksTyped'
  BY <1>0, <1>1, <1>3 DEF TasksTyped
<1>6. Held'
  BY <1>0, <1>1, <1>2, <1>3 DEF Held, FileOf
<1>7. ASSUME NEW f \in Files \ suspect
      PROVE  Fine(f)'
  <2>1. Fine(f) /\ part'[f] = part[f]
    BY <1>0, <1>2, CleanIs
  <2>2. \A u \in Tasks : InTransfer(u, f)' => u # t
    BY <1>1, <1>3 DEF InTransfer
  <2>3. \A u \in Tasks : InTransfer(u, f)' => InTransfer(u, f) /\ task'[u] = task[u]
    BY <1>3, <2>2 DEF InTransfer, FileOf
  <2>4. QED
    BY <2>1, <2>3, FineStays
<1>8. Clean'
  BY <1>2, <1>7 DEF Clean, Fine
<1>9. QED
  BY <1>4, <1>5, <1>6, <1>8 DEF Base

LEMMA AsksBase ==
  ASSUME Base, NEW t \in Tasks, Asks(t), starts' \in 0..MaxStarts
  PROVE  Base'
<1>0. DiskTyped /\ TasksTyped /\ Held /\ Clean
  BY DEF Base
<1>1. PICK k \in TaskType : task' = [task EXCEPT ![t] = k] /\ Asking(t, k)
  BY DEF Asks
<1>2. UNCHANGED <<part, file>> /\ task[t].at <= Len(Needs[task[t].model])
  BY DEF Asks
<1>3. task'[t] = k /\ task' \in [Tasks -> TaskType] /\ \A u \in Tasks \ {t} : task'[u] = task[u]
  BY <1>0, <1>1 DEF TasksTyped
<1>4. PICK g \in Files : g = FileOf(t)
  BY <1>0, <1>2, FileIn DEF FileOf, TasksTyped
<1>5. FileOf(t)' = g /\ k.pc = "wait" /\ k.have = Length(part[g]) /\ k.model = task[t].model /\ k.at = task[t].at
  BY <1>1, <1>2, <1>3, <1>4 DEF FileOf, Asking
<1>6. suspect \subseteq suspect' /\ suspect' \subseteq suspect \cup {g}
  BY <1>4 DEF Asks
<1>7. DiskTyped'
  BY <1>0, <1>2, <1>6 DEF DiskTyped
<1>8. TasksTyped'
  <2>1. k.at <= Len(Needs[k.model])
    BY <1>2, <1>5
  <2>2. k.at \in Nat /\ Len(Needs[k.model]) \in Nat
    BY LenNeeds DEF TaskType
  <2>3. k.at <= Len(Needs[k.model]) + 1
    BY <2>1, <2>2
  <2>4. QED
    BY <1>0, <1>3, <2>1, <2>3 DEF TasksTyped
<1>9. Held'
  BY <1>0, <1>2, <1>3, <1>5 DEF Held, FileOf
<1>10. ASSUME NEW f \in Files \ suspect'
       PROVE  Fine(f)'
  <2>1. Fine(f) /\ part'[f] = part[f]
    BY <1>0, <1>2, <1>6, CleanIs
  <2>2. CASE f # g
    <3>1. \A u \in Tasks : InTransfer(u, f)' => u # t
      BY <1>5, <2>2 DEF InTransfer
    <3>2. \A u \in Tasks : InTransfer(u, f)' => InTransfer(u, f) /\ task'[u] = task[u]
      BY <1>3, <3>1 DEF InTransfer, FileOf
    <3>3. QED
      BY <2>1, <3>2, FineStays
  <2>3. CASE f = g
    <3>1. \A u \in Tasks \ {t} : ~InTransfer(u, f)
      <4>1. CASE InTransfer(t, g)
        BY <2>1, <2>3, <4>1 DEF Fine, Own
      <4>2. CASE suspect' = IF \E u \in Tasks \ {t} : InTransfer(u, FileOf(t)) THEN suspect \cup {FileOf(t)} ELSE suspect
        BY <1>4, <1>10, <2>3, <4>2
      <4>3. QED
        BY <1>4, <4>1, <4>2 DEF Asks
    <3>2. \A u \in Tasks \ {t} : ~(InTransfer(u, f)')
      BY <1>3, <3>1 DEF InTransfer, FileOf
    <3>3. Marked(f)'
      BY <2>1 DEF Fine, Marked
    <3>4. Sound(t, f)'
      BY <1>3, <1>5, <2>1, <2>3 DEF Sound
    <3>5. QED
      BY <3>2, <3>3, <3>4, FineOne
  <2>4. QED
    BY <2>2, <2>3
<1>11. Clean'
  BY <1>10 DEF Clean, Fine
<1>12. QED
  BY <1>7, <1>8, <1>9, <1>11 DEF Base

LEMMA CancelBase ==
  ASSUME Base, NEW t \in Tasks, Cancel(t)
  PROVE  Base'
<1>0. DiskTyped /\ TasksTyped /\ Held /\ Clean
  BY DEF Base
<1>1. UNCHANGED <<part, file, suspect, starts>> /\ task' = [task EXCEPT ![t].cancel = TRUE]
  BY DEF Cancel, Disk
<1>2. PICK j \in TaskType : j = task[t]
  BY <1>0 DEF TasksTyped
<1>3. PICK k : k = [j EXCEPT !.cancel = TRUE]
  OBVIOUS
<1>4. /\ k \in TaskType /\ k.pc = j.pc /\ k.model = j.model /\ k.at = j.at /\ k.url = j.url /\ k.have = j.have
      /\ k.fresh = j.fresh /\ k.fd = j.fd
  BY <1>3 DEF TaskType
<1>5. task' = [task EXCEPT ![t] = k]
  BY <1>1, <1>2, <1>3
<1>6. task'[t] = k /\ task' \in [Tasks -> TaskType] /\ \A u \in Tasks \ {t} : task'[u] = task[u]
  BY <1>0, <1>4, <1>5 DEF TasksTyped
<1>7. \A u \in Tasks : /\ task'[u].pc = task[u].pc /\ task'[u].model = task[u].model /\ task'[u].at = task[u].at
                       /\ task'[u].url = task[u].url /\ task'[u].have = task[u].have
                       /\ task'[u].fresh = task[u].fresh /\ task'[u].fd = task[u].fd
  BY <1>2, <1>4, <1>6
<1>8. \A u \in Tasks : FileOf(u)' = FileOf(u)
  BY <1>7 DEF FileOf
<1>9. DiskTyped' /\ TasksTyped'
  BY <1>0, <1>1, <1>6, <1>7 DEF DiskTyped, TasksTyped
<1>10. Held'
  BY <1>0, <1>1, <1>7, <1>8 DEF Held
<1>11. ASSUME NEW f \in Files \ suspect
       PROVE  Fine(f)'
  <2>1. Fine(f) /\ part'[f] = part[f]
    BY <1>0, <1>1, CleanIs
  <2>2. \A u \in Tasks : InTransfer(u, f)' => InTransfer(u, f)
    BY <1>7, <1>8 DEF InTransfer
  <2>3. QED
    BY <1>7, <2>1, <2>2, FineStays
<1>12. Clean'
  BY <1>1, <1>11 DEF Clean, Fine
<1>13. QED
  BY <1>9, <1>10, <1>12 DEF Base
\* The other tasks, and the other files.
LEMMA OtherFiles ==
  ASSUME Base, NEW t \in Tasks, NEW f \in Files, f \notin suspect, \A u \in Tasks \ {t} : Stays(u),
         \A u \in Tasks \ {t} : task[u].pc = "body" /\ FileOf(u) = f => task'[u].fd = task[u].fd,
         ~(InTransfer(t, f)'), part'[f] = part[f]
  PROVE  Fine(f)'
<1>1. Fine(f)
  BY CleanIs DEF Base
<1>2. \A u \in Tasks : InTransfer(u, f)' => u # t /\ InTransfer(u, f)
  BY DEF InTransfer, FileOf, Stays
<1>3. \A u \in Tasks : InTransfer(u, f) => FileOf(u) = f
  BY DEF InTransfer
<1>4. QED
  BY <1>1, <1>2, <1>3, FineStays DEF Stays

LEMMA TasksStay ==
  ASSUME TasksTyped, task' \in [Tasks -> TaskType], starts' \in 0..MaxStarts, NEW t \in Tasks,
         \A u \in Tasks \ {t} : Stays(u), task'[t].at <= Len(Needs[task'[t].model]) + 1,
         task'[t].pc \in {"wait", "body"} => task'[t].at <= Len(Needs[task'[t].model])
  PROVE  TasksTyped'
  BY DEF TasksTyped, Stays

LEMMA RespondBase ==
  ASSUME Base, NEW t \in Tasks, NEW resume \in BOOLEAN, Respond(t, resume)
  PROVE  Base'
<1>0. DiskTyped /\ TasksTyped /\ Held /\ Clean
  BY DEF Base
<1>1. PICK f \in Files, k \in TaskType :
           /\ f = FileOf(t) /\ InTransfer(t, f) /\ Turns(t, k) /\ task' \in [Tasks -> TaskType]
           /\ k.pc = "body" /\ k.fd = "part" /\ k.fresh = ~resume /\ k.url = task[t].url
           /\ k.model = task[t].model /\ k.at = task[t].at /\ k.cancel = task[t].cancel
           /\ k.have = (IF resume THEN task[t].have ELSE 0)
           /\ part' = [part EXCEPT ![f] = IF resume THEN part[f] ELSE <<>>]
           /\ resume => part[f] # Absent
           /\ file' = file
           /\ suspect' = IF resume /\ (task[t].url \in Stale \/ \E i \in DOMAIN part[f] : part[f][i] = 0)
                           THEN suspect \cup {f} ELSE suspect
  BY <1>0, RespondIs
<1>2. starts' = starts /\ starts \in 0..MaxStarts
  BY <1>0 DEF Respond, TasksTyped
<1>3. /\ task'[t] = k /\ \A u \in Tasks \ {t} : task'[u] = task[u]
      /\ \A u \in Tasks \ {t} : Stays(u)
  BY <1>1 DEF Turns, Stays
<1>4. TasksTyped'
  <2>1. k.at <= Len(Needs[k.model]) /\ k.at <= Len(Needs[k.model]) + 1
    BY <1>0, <1>1 DEF TasksTyped, InTransfer
  <2>2. QED
    BY <1>0, <1>1, <1>2, <1>3, <2>1, TasksStay
<1>5. /\ part'[f] = IF resume THEN part[f] ELSE <<>>
      /\ \A g \in Files \ {f} : part'[g] = part[g]
  BY <1>0, <1>1 DEF DiskTyped
<1>6. part[f] \in Contents(f) /\ part'[f] \in Contents(f) /\ part'[f] \in Seq(Int)
  BY <1>0, <1>5, Sizes, LengthIs DEF DiskTyped, Contents
<1>7. part'[f] # Absent
  BY <1>1, <1>5, Sizes
<1>8. suspect \subseteq suspect' /\ suspect' \subseteq Files
  BY <1>0, <1>1 DEF DiskTyped
<1>9. DiskTyped'
  <2>1. part' \in [Files -> Seq(Int)]
    BY <1>0, <1>1, <1>5, <1>6 DEF DiskTyped
  <2>2. QED
    BY <1>0, <1>1, <1>5, <1>6, <1>8, <2>1 DEF DiskTyped
<1>10. FileOf(t)' = f
  BY <1>1, <1>3 DEF FileOf
<1>11. Held'
  <2>1. \A g \in Files : part[g] # Absent => part'[g] # Absent
    BY <1>5, <1>7
  <2>2. \A u \in Tasks : u # t => FileOf(u)' = FileOf(u)
    BY <1>3 DEF FileOf
  <2>3. \A u \in Tasks : task[u].pc = "body" => FileOf(u) \in Files
    BY <1>0, FileIn DEF TasksTyped, FileOf
  <2>4. ASSUME NEW u \in Tasks, u # t, task'[u].pc = "body"
        PROVE  /\ task'[u].fd = "part" => part'[FileOf(u)'] # Absent
               /\ task'[u].fd = "file" => file'[FileOf(u)'] # Absent
    <3>1. task'[u] = task[u] /\ FileOf(u)' = FileOf(u) /\ FileOf(u) \in Files
      BY <1>3, <2>2, <2>3, <2>4
    <3>2. QED
      BY <1>0, <1>1, <2>1, <2>4, <3>1 DEF Held
  <2>5. /\ task'[t].fd = "part" => part'[FileOf(t)'] # Absent
        /\ task'[t].fd = "file" => file'[FileOf(t)'] # Absent
    BY <1>1, <1>3, <1>7, <1>10
  <2>6. QED
    BY <2>4, <2>5 DEF Held
<1>12. ASSUME NEW g \in Files \ suspect'
       PROVE  Fine(g)'
  <2>1. CASE g # f
    <3>1. ~(InTransfer(t, g)') /\ part'[g] = part[g] /\ g \notin suspect
      BY <1>5, <1>8, <1>10, <2>1 DEF InTransfer
    <3>2. QED
      BY <1>3, <3>1, OtherFiles
  <2>2. CASE g = f
    <3>1. Fine(f)
      BY <1>0, <1>8, <2>2, CleanIs
    <3>2. \A u \in Tasks \ {t} : ~(InTransfer(u, f)')
      BY <1>1, <1>3, <3>1, OthersAway
    <3>3. CASE resume
      <4>1. part'[f] = part[f] /\ part[f] \in Seq(0..Size[f]) /\ DOMAIN part[f] = 1..Len(part[f])
            /\ Length(part[f]) = Len(part[f])
        BY <1>1, <1>5, <1>6, <3>3, LengthIs
      <4>2. task[t].url \notin Stale /\ \A i \in 1..Len(part[f]) : part[f][i] # 0
        BY <1>1, <2>2, <3>3, <4>1
      <4>3. \A i \in 1..Len(part[f]) : part[f][i] = i
        BY <1>1, <3>1, <3>3, <4>2 DEF Fine, Marked
      <4>4. task[t].have = Length(part[f])
        BY <1>1, <3>1 DEF Fine, Sound
      <4>5. Marked(f)'
        BY <4>1, <4>3 DEF Marked
      <4>6. Sound(t, f)'
        BY <1>1, <1>3, <3>3, <4>1, <4>2, <4>3, <4>4 DEF Sound
      <4>7. QED
        BY <2>2, <3>2, <4>5, <4>6, FineOne
    <3>4. CASE ~resume
      <4>1. part'[f] = <<>> /\ Len(<<>>) = 0 /\ Length(part'[f]) = 0 /\ 1..0 = {}
        BY <1>5, <1>7, <3>4 DEF Length
      <4>2. Marked(f)'
        BY <4>1 DEF Marked
      <4>3. Sound(t, f)'
        BY <1>1, <1>3, <3>4, <4>1 DEF Sound
      <4>4. QED
        BY <2>2, <3>2, <4>2, <4>3, FineOne
    <3>5. QED
      BY <3>3, <3>4
  <2>3. QED
    BY <2>1, <2>2
<1>13. Clean'
  BY <1>12 DEF Clean, Fine
<1>14. QED
  BY <1>4, <1>9, <1>11, <1>13 DEF Base

LEMMA WritesBase ==
  ASSUME Base, NEW t \in Tasks, Writes(t)
  PROVE  Base'
<1>0. DiskTyped /\ TasksTyped /\ Held /\ Clean
  BY DEF Base
<1>1. PICK f \in Files, k \in TaskType :
           /\ f = FileOf(t) /\ InTransfer(t, f) /\ Turns(t, k) /\ task' \in [Tasks -> TaskType]
           /\ task[t].pc = "body" /\ task[t].have < Size[f]
           /\ k.pc = "body" /\ k.fd = task[t].fd /\ k.fresh = task[t].fresh /\ k.url = task[t].url
           /\ k.model = task[t].model /\ k.at = task[t].at /\ k.cancel = task[t].cancel
           /\ k.have = task[t].have + 1
           /\ IF task[t].fd = "part" THEN part[f] # Absent /\ part' = [part EXCEPT ![f] = Written(t, part[f])]
              ELSE part' = part
           /\ IF task[t].fd = "file" THEN file[f] # Absent /\ file' = [file EXCEPT ![f] = Written(t, file[f])]
              ELSE file' = file
           /\ suspect' = suspect
  BY <1>0, WritesIs
<1>2. starts' = starts /\ starts \in 0..MaxStarts
  BY <1>0 DEF Writes, Chunk, TasksTyped
<1>3. /\ task'[t] = k /\ \A u \in Tasks \ {t} : task'[u] = task[u]
      /\ \A u \in Tasks \ {t} : Stays(u)
  BY <1>1 DEF Turns, Stays
<1>4. TasksTyped'
  <2>1. k.at <= Len(Needs[k.model]) /\ k.at <= Len(Needs[k.model]) + 1
    BY <1>0, <1>1 DEF TasksTyped, InTransfer
  <2>2. QED
    BY <1>0, <1>1, <1>2, <1>3, <2>1, TasksStay
<1>5. task[t] \in TaskType /\ \A g \in Files \ {f} : part'[g] = part[g] /\ file'[g] = file[g]
  BY <1>0, <1>1 DEF DiskTyped, TasksTyped
<1>6. ASSUME task[t].fd = "part"
      PROVE  /\ part[f] \in Seq(0..Size[f]) /\ part'[f] = Written(t, part[f]) /\ part'[f] \in Seq(0..Size[f])
             /\ part'[f] # Absent
  BY <1>0, <1>1, <1>5, <1>6, WrittenIs, LengthIs, Sizes DEF DiskTyped
<1>7. ASSUME task[t].fd = "file"
      PROVE  file'[f] = Written(t, file[f]) /\ file'[f] \in Seq(0..Size[f]) /\ file'[f] # Absent
  BY <1>0, <1>1, <1>5, <1>7, WrittenIs, LengthIs, Sizes DEF DiskTyped
<1>8. DiskTyped'
  <2>1. part'[f] \in Contents(f) /\ file'[f] \in Contents(f)
    BY <1>0, <1>1, <1>6, <1>7 DEF DiskTyped, Contents
  <2>2. part'[f] \in Seq(Int) /\ file'[f] \in Seq(Int)
    BY <2>1, LengthIs
  <2>3. part' \in [Files -> Seq(Int)] /\ file' \in [Files -> Seq(Int)]
    BY <1>0, <1>1, <1>6, <1>7, <2>2 DEF DiskTyped
  <2>4. QED
    BY <1>0, <1>1, <1>5, <2>1, <2>3 DEF DiskTyped
<1>9. \A g \in Files : (part[g] # Absent => part'[g] # Absent) /\ (file[g] # Absent => file'[g] # Absent)
  BY <1>1, <1>5, <1>6, <1>7
<1>10. FileOf(t)' = f
  BY <1>1, <1>3 DEF FileOf
<1>11. Held'
  <2>1. ASSUME NEW u \in Tasks, task'[u].pc = "body"
        PROVE  /\ task'[u].fd = "part" => part'[FileOf(u)'] # Absent
               /\ task'[u].fd = "file" => file'[FileOf(u)'] # Absent
    <3>1. task[u].pc = "body" /\ task'[u].fd = task[u].fd /\ FileOf(u)' = FileOf(u)
      BY <1>1, <1>3, <1>10, <2>1 DEF FileOf
    <3>2. FileOf(u) \in Files
      BY <1>0, <3>1, FileIn DEF TasksTyped, FileOf
    <3>3. QED
      BY <1>0, <1>9, <3>1, <3>2 DEF Held
  <2>2. QED
    BY <2>1 DEF Held
<1>12. ASSUME NEW g \in Files \ suspect
       PROVE  Fine(g)'
  <2>1. CASE g # f
    <3>1. ~(InTransfer(t, g)') /\ part'[g] = part[g]
      BY <1>5, <1>10, <2>1 DEF InTransfer
    <3>2. QED
      BY <1>3, <3>1, OtherFiles
  <2>2. CASE g = f
    <3>1. Fine(f)
      BY <1>0, <2>2, CleanIs
    <3>2. \A u \in Tasks \ {t} : ~(InTransfer(u, f)')
      BY <1>1, <1>3, <3>1, OthersAway
    <3>3. /\ task[t].have = Length(part[f]) /\ task[t].fd = "part"
          /\ ~task[t].fresh => task[t].url \notin Stale
          /\ task[t].url \notin Stale => \A i \in 1..Len(part[f]) : part[f][i] = i
      BY <1>1, <3>1 DEF Fine, Sound
    <3>4. PICK c \in Seq(0..Size[f]) : c = part[f] /\ c # Absent /\ Length(c) = Len(c)
      BY <1>0, <1>1, <1>6, <3>3, LengthIs DEF DiskTyped
    <3>5. PICK w \in Seq(0..Size[f]) : w = part'[f] /\ w # Absent /\ w = Written(t, c)
      BY <1>6, <3>3, <3>4
    <3>6. /\ Len(w) = Len(c) + 1
          /\ \A i \in 1..Len(c) : w[i] = c[i]
          /\ w[Len(c) + 1] = IF task[t].url \in Stale THEN 0 ELSE Len(c) + 1
      <4>1. task[t] \in TaskType /\ task[t].have < Size[f] /\ task[t].have = Len(c)
        BY <1>1, <1>5, <3>3, <3>4
      <4>2. QED
        BY <3>5, <4>1, WrittenIs
    <3>7. Len(c) \in Nat /\ \A i \in 1..Len(w) : i \in 1..Len(c) \/ i = Len(c) + 1
      BY <3>4, <3>6
    <3>8. Length(w) = Len(c) + 1 /\ \A i \in 1..Len(c) : c[i] \in {0, i}
      BY <3>1, <3>4, <3>5, <3>6 DEF Length, Fine, Marked
    <3>9. Marked(f)'
      BY <3>5, <3>6, <3>7, <3>8 DEF Marked
    <3>10. task[t].url \notin Stale => \A i \in 1..Len(w) : w[i] = i
      BY <3>3, <3>4, <3>6, <3>7
    <3>11. Sound(t, f)'
      BY <1>1, <1>3, <3>3, <3>4, <3>5, <3>8, <3>10 DEF Sound
    <3>12. QED
      BY <2>2, <3>2, <3>9, <3>11, FineOne
  <2>3. QED
    BY <2>1, <2>2
<1>13. Clean'
  BY <1>1, <1>12 DEF Clean, Fine
<1>14. QED
  BY <1>4, <1>8, <1>11, <1>13 DEF Base
LEMMA RejectsBase ==
  ASSUME Base, NEW t \in Tasks, Rejects(t)
  PROVE  Base'
<1>0. DiskTyped /\ TasksTyped /\ Held /\ Clean
  BY DEF Base
<1>1. PICK f \in Files, k \in TaskType :
           /\ f = FileOf(t) /\ InTransfer(t, f) /\ task[t].pc = "body"
           /\ task' \in [Tasks -> TaskType] /\ task'[t] = k
           /\ \/ Asking(t, k)
              \/ k.pc = "failed" /\ k.model = task[t].model /\ k.at = 1 /\ k.cancel = task[t].cancel
           /\ \A u \in Tasks \ {t} :
                Stays(u) /\ task'[u].fd = IF task[u].pc = "body" /\ FileOf(u) = f /\ task[u].fd = "part"
                                          THEN "gone" ELSE task[u].fd
           /\ part' = [part EXCEPT ![f] = Absent] /\ file' = file /\ suspect' = suspect
  BY <1>0, RejectsIs
<1>2. starts' = starts /\ starts \in 0..MaxStarts
  BY <1>0 DEF Rejects, EndOfBody, TasksTyped
<1>3. task[t].at <= Len(Needs[task[t].model]) /\ task[t].at \in Nat /\ Len(Needs[task[t].model]) \in Nat
      /\ Len(Needs[task[t].model]) > 0
  BY <1>0, <1>1, LenNeeds DEF TasksTyped, TaskType
<1>4. TasksTyped'
  <2>1. k.at <= Len(Needs[k.model]) + 1 /\ (k.pc \in {"wait", "body"} => k.at <= Len(Needs[k.model]))
    BY <1>1, <1>3 DEF Asking
  <2>2. QED
    BY <1>0, <1>1, <1>2, <2>1, TasksStay
<1>5. part'[f] = Absent /\ \A g \in Files \ {f} : part'[g] = part[g]
  BY <1>0, <1>1 DEF DiskTyped
<1>6. DiskTyped'
  <2>1. Absent \in Contents(f) /\ Absent \in Seq(Int)
    BY Sizes DEF Contents
  <2>2. part' \in [Files -> Seq(Int)]
    BY <1>0, <1>1, <2>1 DEF DiskTyped
  <2>3. QED
    BY <1>0, <1>1, <1>5, <2>1, <2>2 DEF DiskTyped
<1>7. k.pc # "body"
  BY <1>1 DEF Asking
<1>8. Held'
  <2>1. ASSUME NEW u \in Tasks, task'[u].pc = "body"
        PROVE  /\ task'[u].fd = "part" => part'[FileOf(u)'] # Absent
               /\ task'[u].fd = "file" => file'[FileOf(u)'] # Absent
    <3>1. u # t
      BY <1>1, <1>7, <2>1
    <3>2. task[u].pc = "body" /\ FileOf(u)' = FileOf(u)
      BY <1>1, <2>1, <3>1 DEF FileOf, Stays
    <3>3. FileOf(u) \in Files
      BY <1>0, <3>2, FileIn DEF TasksTyped, FileOf
    <3>4. /\ task[u].fd = "part" => part[FileOf(u)] # Absent
          /\ task[u].fd = "file" => file[FileOf(u)] # Absent
      BY <1>0, <3>2 DEF Held
    <3>5. /\ task'[u].fd = "part" => task[u].fd = "part" /\ FileOf(u) # f
          /\ task'[u].fd = "file" => task[u].fd = "file"
      BY <1>1, <3>1, <3>2
    <3>6. QED
      BY <1>1, <1>5, <3>2, <3>3, <3>4, <3>5
  <2>2. QED
    BY <2>1 DEF Held
<1>9. InTransfer(t, f)' => Asking(t, k)
  BY <1>1 DEF InTransfer
<1>10. \A g \in Files : g # f => ~(InTransfer(t, g)')
  BY <1>1 DEF InTransfer, FileOf, Asking
<1>11. ASSUME NEW g \in Files \ suspect
       PROVE  Fine(g)'
  <2>1. CASE g # f
    <3>1. \A u \in Tasks \ {t} : FileOf(u) = g => task'[u].fd = task[u].fd
      BY <1>1, <2>1
    <3>2. QED
      BY <1>1, <1>5, <1>10, <2>1, <3>1, OtherFiles
  <2>2. CASE g = f
    <3>1. Fine(f)
      BY <1>0, <2>2, CleanIs
    <3>2. \A u \in Tasks \ {t} : ~(InTransfer(u, f)')
      BY <1>1, <3>1, OthersAway
    <3>3. Marked(f)'
      BY <1>5 DEF Marked
    <3>4. Sound(t, f)'
      BY <1>1, <1>7, <1>9 DEF Sound, Asking
    <3>5. QED
      BY <2>2, <3>2, <3>3, <3>4, FineOne
  <2>3. QED
    BY <2>1, <2>2
<1>12. Clean'
  BY <1>1, <1>11 DEF Clean, Fine
<1>13. QED
  BY <1>4, <1>6, <1>8, <1>12 DEF Base

LEMMA RenamesBase ==
  ASSUME Base, NEW t \in Tasks, Renames(t)
  PROVE  Base'
<1>0. DiskTyped /\ TasksTyped /\ Held /\ Clean
  BY DEF Base
<1>1. PICK f \in Files, k \in TaskType :
           /\ f = FileOf(t) /\ InTransfer(t, f) /\ task[t].pc = "body" /\ part[f] # Absent
           /\ task' \in [Tasks -> TaskType] /\ task'[t] = k
           /\ k.pc = "files" /\ k.model = task[t].model /\ k.at = task[t].at + 1
           /\ \A u \in Tasks \ {t} :
                /\ Stays(u)
                /\ task'[u].fd = IF task[u].pc = "body" /\ FileOf(u) = f /\ task[u].fd = "file" THEN "gone"
                                 ELSE IF task[u].pc = "body" /\ FileOf(u) = f /\ task[u].fd = "part" THEN "file"
                                 ELSE task[u].fd
           /\ part' = [part EXCEPT ![f] = Absent] /\ file' = [file EXCEPT ![f] = part[f]] /\ suspect' = suspect
  BY <1>0, RenamesIs
<1>2. starts' = starts /\ starts \in 0..MaxStarts
  BY <1>0 DEF Renames, EndOfBody, TasksTyped
<1>3. task[t].at <= Len(Needs[task[t].model]) /\ task[t].at \in Nat /\ Len(Needs[task[t].model]) \in Nat
  BY <1>0, <1>1, LenNeeds DEF TasksTyped, TaskType
<1>4. TasksTyped'
  <2>1. k.at <= Len(Needs[k.model]) + 1
    BY <1>1, <1>3
  <2>2. QED
    BY <1>0, <1>1, <1>2, <2>1, TasksStay
<1>5. /\ part'[f] = Absent /\ file'[f] = part[f]
      /\ \A g \in Files \ {f} : part'[g] = part[g] /\ file'[g] = file[g]
  BY <1>0, <1>1 DEF DiskTyped
<1>6. DiskTyped'
  <2>1. Absent \in Contents(f) /\ Absent \in Seq(Int) /\ part[f] \in Contents(f) /\ part[f] \in Seq(Int)
    BY <1>0, Sizes DEF Contents, DiskTyped
  <2>2. part' \in [Files -> Seq(Int)] /\ file' \in [Files -> Seq(Int)]
    BY <1>0, <1>1, <2>1 DEF DiskTyped
  <2>3. QED
    BY <1>0, <1>1, <1>5, <2>1, <2>2 DEF DiskTyped
<1>7. Held'
  <2>1. ASSUME NEW u \in Tasks, task'[u].pc = "body"
        PROVE  /\ task'[u].fd = "part" => part'[FileOf(u)'] # Absent
               /\ task'[u].fd = "file" => file'[FileOf(u)'] # Absent
    <3>1. u # t
      BY <1>1, <2>1
    <3>2. task[u].pc = "body" /\ FileOf(u)' = FileOf(u)
      BY <1>1, <2>1, <3>1 DEF FileOf, Stays
    <3>3. FileOf(u) \in Files
      BY <1>0, <3>2, FileIn DEF TasksTyped, FileOf
    <3>4. /\ task[u].fd = "part" => part[FileOf(u)] # Absent
          /\ task[u].fd = "file" => file[FileOf(u)] # Absent
      BY <1>0, <3>2 DEF Held
    <3>5. /\ task'[u].fd = "part" => task[u].fd = "part" /\ FileOf(u) # f
          /\ task'[u].fd = "file" => FileOf(u) = f \/ task[u].fd = "file"
      BY <1>1, <3>1, <3>2
    <3>6. QED
      BY <1>1, <1>5, <3>2, <3>3, <3>4, <3>5
  <2>2. QED
    BY <2>1 DEF Held
<1>8. \A g \in Files : ~(InTransfer(t, g)')
  BY <1>1 DEF InTransfer
<1>9. ASSUME NEW g \in Files \ suspect
      PROVE  Fine(g)'
  <2>1. CASE g # f
    <3>1. \A u \in Tasks \ {t} : FileOf(u) = g => task'[u].fd = task[u].fd
      BY <1>1, <2>1
    <3>2. QED
      BY <1>1, <1>5, <1>8, <2>1, <3>1, OtherFiles
  <2>2. CASE g = f
    <3>1. Fine(f)
      BY <1>0, <2>2, CleanIs
    <3>2. \A u \in Tasks \ {t} : ~(InTransfer(u, f)')
      BY <1>1, <3>1, OthersAway
    <3>3. Marked(f)' /\ Sound(t, f)'
      BY <1>5, <1>8 DEF Marked, Sound
    <3>4. QED
      BY <2>2, <3>2, <3>3, FineOne
  <2>3. QED
    BY <2>1, <2>2
<1>10. Clean'
  BY <1>1, <1>9 DEF Clean, Fine
<1>11. QED
  BY <1>4, <1>6, <1>7, <1>10 DEF Base
LEMMA StartBase ==
  ASSUME Base, NEW t \in Tasks, NEW m \in Models, NEW force, Start(t, m, force)
  PROVE  /\ Base'
         /\ \E k \in TaskType : Turns(t, k) /\ k.pc = "probe" /\ k.model = m /\ k.cancel = FALSE
<1>1. PICK j \in TaskType : j = NoTask(m) /\ j.model = m /\ j.at = 1 /\ j.cancel = FALSE
  BY IdleTask
<1>2. PICK k : k = [j EXCEPT !.pc = "probe"]
  OBVIOUS
<1>3. k \in TaskType /\ k.pc = "probe" /\ k.model = m /\ k.at = 1 /\ k.cancel = FALSE
  BY <1>1, <1>2 DEF TaskType, Steps
<1>4. task' = [task EXCEPT ![t] = k] /\ UNCHANGED <<part, file, suspect>>
  BY <1>1, <1>2 DEF Start, Disk
<1>5. starts' \in 0..MaxStarts
  BY StoreAssumption DEF Start, Base, TasksTyped, StoreAssumption
<1>6. k.at <= Len(Needs[k.model]) + 1
  BY <1>3, LenNeeds
<1>7. Quits(t)
  BY <1>3, <1>4, <1>6 DEF Quits
<1>8. Turns(t, k)
  BY <1>3, <1>4 DEF Turns, Base, TasksTyped
<1>9. QED
  BY <1>3, <1>5, <1>7, <1>8, QuitsBase

LEMMA TaskBase ==
  ASSUME Base, NEW t \in Tasks, TaskStep(t)
  PROVE  Base'
<1>1. starts' \in 0..MaxStarts
  BY DEF Base, TasksTyped, TaskStep, Register, InsufficientDisk, Cancel, NextFile, Refused, Respond, Chunk,
         BodyFails, EndOfBody, Verify, Done
<1>2. \/ Quits(t) \/ Asks(t) \/ Cancel(t) \/ \E resume \in BOOLEAN : Respond(t, resume)
      \/ Writes(t) \/ Rejects(t) \/ Renames(t)
  BY TaskKinds DEF Base
<1>3. QED
  BY <1>1, <1>2, QuitsBase, AsksBase, CancelBase, RespondBase, WritesBase, RejectsBase, RenamesBase

\* An unlink, and the descriptors on the file.
LEMMA DeleteFileIs ==
  ASSUME Base, RoutesTyped, Deleting, DeleteFile
  PROVE  \E f \in Files :
           /\ Doomed(f) /\ del.left # <<>>
           /\ file'[f] = Absent /\ \A g \in Files \ {f} : file'[g] = file[g]
           /\ task' \in [Tasks -> TaskType]
           /\ \A u \in Tasks :
                Stays(u) /\ task'[u].fd = IF task[u].pc = "body" /\ FileOf(u) = f /\ task[u].fd = "file"
                                          THEN "gone" ELSE task[u].fd
           /\ \A g \in Files : Doomed(g)' => Doomed(g)
           /\ del' \in [model : Models \cup {None}, left : Seq(Files)]
           /\ del'.model = None => del'.left = <<>>
           /\ UNCHANGED <<part, suspect, starts, sel, act, raced, restarts>>
<1>0. DiskTyped /\ TasksTyped
  BY DEF Base
<1>1. PICK l \in Seq(Files) : l = del.left /\ l # <<>>
  BY DEF DeleteFile, RoutesTyped
<1>2. PICK f \in Files : f = Head(l) /\ f = l[1] /\ 1 \in 1..Len(l)
  BY <1>1
<1>3. PICK r \in Seq(Files) : r = Tail(l) /\ Len(r) = Len(l) - 1 /\ \A i \in 1..Len(r) : r[i] = l[i + 1]
  BY <1>1, HeadTailProperties
<1>4. /\ file' = [file EXCEPT ![f] = Absent]
      /\ task' = Moved(task, f, "file", "gone")
      /\ del' = IF r = <<>> THEN [model |-> None, left |-> <<>>] ELSE [del EXCEPT !.left = r]
      /\ UNCHANGED <<part, suspect, starts, sel, act, raced, restarts>>
  BY <1>1, <1>2, <1>3 DEF DeleteFile
<1>5. file'[f] = Absent /\ \A g \in Files \ {f} : file'[g] = file[g]
  BY <1>0, <1>4 DEF DiskTyped
<1>6. PICK to, from \in Fds : to = "gone" /\ from = "file"
  BY DEF Fds
<1>7. task' = Moved(task, f, from, to) /\ task \in [Tasks -> TaskType]
  BY <1>0, <1>4, <1>6 DEF TasksTyped
<1>8. /\ task' \in [Tasks -> TaskType]
      /\ \A u \in Tasks :
           /\ task'[u].pc = task[u].pc /\ task'[u].model = task[u].model /\ task'[u].at = task[u].at
           /\ task'[u].url = task[u].url /\ task'[u].have = task[u].have /\ task'[u].fresh = task[u].fresh
           /\ task'[u].cancel = task[u].cancel
           /\ task'[u].fd = IF task[u].pc = "body" /\ Needs[task[u].model][task[u].at] = f /\ task[u].fd = from
                            THEN to ELSE task[u].fd
  BY <1>7, MovedIs
<1>9. \A u \in Tasks :
         Stays(u) /\ task'[u].fd = IF task[u].pc = "body" /\ FileOf(u) = f /\ task[u].fd = "file"
                                   THEN "gone" ELSE task[u].fd
  BY <1>6, <1>8 DEF Stays, FileOf
<1>10. Doomed(f)
  BY <1>1, <1>2 DEF Doomed
<1>11. \A g \in Files : Doomed(g)' => Doomed(g)
  <2>1. del'.left = r
    BY <1>4 DEF RoutesTyped
  <2>2. Len(r) \in Nat /\ Len(l) \in Nat /\ \A i \in 1..Len(r) : i + 1 \in 1..Len(l)
    BY <1>3
  <2>3. QED
    BY <1>1, <1>3, <2>1, <2>2 DEF Doomed
<1>12. /\ del' \in [model : Models \cup {None}, left : Seq(Files)]
       /\ del'.model = None => del'.left = <<>>
  <2>1. CASE r = <<>>
    BY <1>4, <2>1
  <2>2. CASE r # <<>>
    <3>1. del' = [del EXCEPT !.left = r] /\ del'.model = del.model
      BY <1>4, <2>2 DEF RoutesTyped
    <3>2. del' \in [model : Models \cup {None}, left : Seq(Files)]
      BY <3>1 DEF RoutesTyped
    <3>3. del.model # None
      BY <1>1 DEF Deleting
    <3>4. QED
      BY <3>1, <3>2, <3>3
  <2>3. QED
    BY <2>1, <2>2
<1>13. QED
  BY <1>1, <1>4, <1>5, <1>8, <1>9, <1>10, <1>11, <1>12
LEMMA DeleteFileBase ==
  ASSUME Base, RoutesTyped, Deleting, DeleteFile
  PROVE  Base'
<1>0. DiskTyped /\ TasksTyped /\ Held /\ Clean
  BY DEF Base
<1>1. PICK f \in Files :
           /\ file'[f] = Absent /\ \A g \in Files \ {f} : file'[g] = file[g]
           /\ task' \in [Tasks -> TaskType]
           /\ \A u \in Tasks :
                Stays(u) /\ task'[u].fd = IF task[u].pc = "body" /\ FileOf(u) = f /\ task[u].fd = "file"
                                          THEN "gone" ELSE task[u].fd
           /\ UNCHANGED <<part, suspect, starts>>
  BY DeleteFileIs
<1>2. DiskTyped'
  <2>1. Absent \in Contents(f) /\ Absent \in Seq(Int)
    BY Sizes DEF Contents
  <2>2. DOMAIN file' = Files /\ file' = [g \in Files |-> file'[g]]
    BY <1>0 DEF DeleteFile, DiskTyped
  <2>3. file' \in [Files -> Seq(Int)]
    BY <1>0, <1>1, <2>1, <2>2 DEF DiskTyped
  <2>4. QED
    BY <1>0, <1>1, <2>1, <2>3 DEF DiskTyped
<1>3. TasksTyped'
  BY <1>0, <1>1 DEF TasksTyped, Stays
<1>4. \A u \in Tasks : FileOf(u)' = FileOf(u)
  BY <1>1 DEF FileOf, Stays
<1>5. Held'
  <2>1. ASSUME NEW u \in Tasks, task'[u].pc = "body"
        PROVE  /\ task'[u].fd = "part" => part'[FileOf(u)'] # Absent
               /\ task'[u].fd = "file" => file'[FileOf(u)'] # Absent
    <3>1. task[u].pc = "body" /\ FileOf(u) \in Files
      BY <1>0, <1>1, <2>1, FileIn DEF Stays, TasksTyped, FileOf
    <3>2. /\ task'[u].fd = "part" => task[u].fd = "part"
          /\ task'[u].fd = "file" => task[u].fd = "file" /\ FileOf(u) # f
      BY <1>1, <3>1
    <3>3. QED
      BY <1>0, <1>1, <1>4, <3>1, <3>2 DEF Held
  <2>2. QED
    BY <2>1 DEF Held
<1>6. ASSUME NEW g \in Files \ suspect
      PROVE  Fine(g)'
  <2>1. Fine(g) /\ part'[g] = part[g]
    BY <1>0, <1>1, CleanIs
  <2>2. \A u \in Tasks : InTransfer(u, g)' => InTransfer(u, g)
    BY <1>1, <1>4 DEF InTransfer, Stays
  <2>3. \A u \in Tasks : InTransfer(u, g) /\ task[u].pc = "body" => task[u].fd = "part"
    BY <2>1 DEF Fine, Sound
  <2>4. \A u \in Tasks : task[u].fd = "part" => task'[u].fd = task[u].fd
    BY <1>1
  <2>5. QED
    BY <1>1, <2>1, <2>2, <2>3, <2>4, FineStays DEF Stays
<1>7. Clean'
  BY <1>1, <1>6 DEF Clean, Fine
<1>8. QED
  BY <1>2, <1>3, <1>5, <1>7 DEF Base

LEMMA RestartBase ==
  ASSUME Base, Restart
  PROVE  Base'
<1>0. DiskTyped /\ TasksTyped /\ Held /\ Clean
  BY DEF Base
<1>1. task' = [t \in Tasks |-> NoTask(task[t].model)] /\ UNCHANGED <<part, file, suspect, starts>>
  BY DEF Restart
<1>2. \A t \in Tasks : /\ task'[t] = NoTask(task[t].model) /\ task'[t] \in TaskType
                       /\ task'[t].pc = "idle" /\ task'[t].at = 1 /\ task'[t].model \in Models
  BY <1>0, <1>1, IdleTask DEF TasksTyped, TaskType
<1>3. task' \in [Tasks -> TaskType]
  BY <1>1, <1>2
<1>4. DiskTyped' /\ Held'
  BY <1>0, <1>1, <1>2 DEF DiskTyped, Held
<1>5. TasksTyped'
  <2>1. \A t \in Tasks : task'[t].at <= Len(Needs[task'[t].model]) + 1
    BY <1>2, LenNeeds
  <2>2. QED
    BY <1>0, <1>1, <1>2, <1>3, <2>1 DEF TasksTyped
<1>6. ASSUME NEW f \in Files \ suspect
      PROVE  Fine(f)'
  <2>1. Fine(f) /\ part'[f] = part[f]
    BY <1>0, <1>1, CleanIs
  <2>2. \A u \in Tasks : ~(InTransfer(u, f)')
    BY <1>2 DEF InTransfer
  <2>3. QED
    BY <2>1, <2>2, FineStays
<1>7. Clean'
  BY <1>1, <1>6 DEF Clean, Fine
<1>8. QED
  BY <1>4, <1>5, <1>7 DEF Base

\* Every step keeps what the transfers rely on.
LEMMA StepBase ==
  ASSUME Base, RoutesTyped, Deleting, Next
  PROVE  Base'
<1>1. CASE \E t \in Tasks : TaskStep(t)
  BY <1>1, TaskBase
<1>2. CASE \E t \in Tasks, m \in Models, force \in BOOLEAN : Start(t, m, force)
  BY <1>2, StartBase
<1>3. CASE (\E m \in Models : ActivateCheck(m) \/ DeleteCheck(m)) \/ ActivateWrite
  <2>1. UNCHANGED <<part, file, task, suspect, starts>>
    BY <1>3 DEF ActivateCheck, DeleteCheck, ActivateWrite, Downloads
  <2>2. DiskTyped' /\ TasksTyped'
    BY <2>1 DEF Base, DiskTyped, TasksTyped
  <2>3. Held'
    BY <2>1 DEF Base, Held, FileOf
  <2>4. Clean'
    BY <2>1 DEF Base, Clean, Own, Marked, Sound, InTransfer, FileOf
  <2>5. QED
    BY <2>2, <2>3, <2>4 DEF Base
<1>4. CASE DeleteFile
  BY <1>4, DeleteFileBase
<1>5. CASE Restart
  BY <1>5, RestartBase
<1>6. QED
  BY <1>1, <1>2, <1>3, <1>4, <1>5 DEF Next

-----------------------------------------------------------------------------
(* The routes                                                              *)

\* A task takes no file away.
LEMMA TaskKeepsFiles ==
  ASSUME Base, NEW t \in Tasks, TaskStep(t)
  PROVE  /\ \A f \in Files : file[f] # Absent => file'[f] # Absent
         /\ UNCHANGED <<sel, act, del, raced, restarts>>
<1>0. DiskTyped /\ TasksTyped /\ Held
  BY DEF Base
<1>1. UNCHANGED <<sel, act, del, raced, restarts>>
  BY DEF TaskStep, Register, InsufficientDisk, Cancel, NextFile, Refused, Respond, Chunk,
         BodyFails, EndOfBody, Verify, Done, Routes
<1>2. CASE Writes(t)
  <2>1. PICK f \in Files :
           /\ task[t].have < Size[f]
           /\ IF task[t].fd = "file" THEN file[f] # Absent /\ file' = [file EXCEPT ![f] = Written(t, file[f])]
              ELSE file' = file
    BY <1>0, <1>2, WritesIs
  <2>2. CASE file' = file
    BY <1>1, <2>2
  <2>3. CASE file[f] # Absent /\ file' = [file EXCEPT ![f] = Written(t, file[f])]
    <3>1. file[f] \in Seq(0..Size[f]) /\ task[t] \in TaskType
      BY <1>0, <2>3, LengthIs DEF DiskTyped, TasksTyped
    <3>2. Written(t, file[f]) # Absent
      BY <2>1, <3>1, WrittenIs, Sizes
    <3>3. QED
      BY <1>0, <1>1, <2>3, <3>2 DEF DiskTyped
  <2>4. QED
    BY <2>1, <2>2, <2>3
<1>3. CASE Renames(t)
  <2>1. PICK f \in Files : part[f] # Absent /\ file' = [file EXCEPT ![f] = part[f]]
    BY <1>0, <1>3, RenamesIs
  <2>2. QED
    BY <1>0, <1>1, <2>1 DEF DiskTyped
<1>4. CASE ~Writes(t) /\ ~Renames(t)
  <2>1. file' = file
    BY <1>0, <1>4, TaskKinds DEF Quits, Asks, Cancel, Respond, Rejects, EndOfBody, Disk
  <2>2. QED
    BY <1>1, <2>1
<1>5. QED
  BY <1>2, <1>3, <1>4

InUse == RoutesTyped /\ Deleting /\ SelectionStaysOnDisk

LEMMA FilesOfIn ==
  ASSUME NEW m \in Models
  PROVE  FilesOf(m) \subseteq Files
<1>1. Needs[m] \in Seq(Files)
  BY LenNeeds
<1>2. QED
  BY <1>1, ElementOfSeq DEF FilesOf

LEMMA InUseStays ==
  ASSUME InUse, \A f \in Files : file[f] # Absent => file'[f] # Absent, UNCHANGED <<sel, act, del, raced, restarts>>
  PROVE  InUse'
<1>0. RoutesTyped /\ Deleting /\ SelectionStaysOnDisk
  BY DEF InUse
<1>1. RoutesTyped'
  BY <1>0 DEF RoutesTyped
<1>2. act # None => FilesOf(act) \subseteq Files
  BY <1>0, FilesOfIn DEF RoutesTyped
<1>3. \A c \in Capabilities : sel[c] # None => FilesOf(sel[c]) \subseteq Files
  BY <1>0, FilesOfIn DEF RoutesTyped
<1>4. Deleting'
  BY <1>0, <1>2 DEF Deleting, Doomed
<1>5. SelectionStaysOnDisk'
  BY <1>0, <1>3 DEF SelectionStaysOnDisk
<1>6. QED
  BY <1>1, <1>4, <1>5 DEF InUse
\* A deletion that passes its checks has no file of a model in use ahead of it:
\* not of another capability, by the check; not of its own, by the catalogue.
LEMMA DeletableSpares ==
  ASSUME InUse, NEW m \in Models, Deletable(m), NEW c \in Capabilities, sel[c] # None
  PROVE  FilesOf(sel[c]) \cap FilesOf(m) = {}
<1>0. sel[c] \in Models /\ CapOf[sel[c]] = c /\ Selected(c) = sel[c]
  BY DEF InUse, RoutesTyped, Deleting, Selected
<1>1. CASE c = CapOf[m]
  <2>1. sel[c] # m
    BY <1>0, <1>1 DEF Deletable
  <2>2. QED
    BY <1>0, <1>1, <2>1, StoreAssumption DEF StoreAssumption
<1>2. CASE c # CapOf[m]
  BY <1>0, <1>2 DEF Deletable
<1>3. QED
  BY <1>1, <1>2

\* Every step keeps the files of the models in use.
LEMMA StepInUse ==
  ASSUME Base, InUse, Next
  PROVE  InUse'
<1>0. RoutesTyped /\ Deleting /\ SelectionStaysOnDisk
  BY DEF InUse
<1>n. None \notin Models
  BY StoreAssumption DEF StoreAssumption
<1>1. CASE \E t \in Tasks : TaskStep(t)
  BY <1>1, TaskKeepsFiles, InUseStays
<1>2. CASE \E t \in Tasks, m \in Models, force \in BOOLEAN : Start(t, m, force)
  <2>1. UNCHANGED <<file, sel, act, del, raced, restarts>>
    BY <1>2 DEF Start, Disk, Routes
  <2>2. QED
    BY <2>1, InUseStays
<1>3. ASSUME NEW m \in Models, ActivateCheck(m)
      PROVE  InUse'
  <2>1. act' = m /\ raced' = (raced \/ del.model # None) /\ UNCHANGED <<file, sel, del, restarts>>
    BY <1>3 DEF ActivateCheck
  <2>2. \A f \in FilesOf(m) : file[f] # Absent
    BY <1>3 DEF ActivateCheck, Installed
  <2>3. RoutesTyped'
    BY <1>0, <2>1 DEF RoutesTyped
  <2>4. ~raced' => ~raced /\ del.model = None
    BY <2>1
  <2>5. Deleting'
    BY <1>0, <2>1, <2>2, <2>4 DEF Deleting, Doomed
  <2>6. SelectionStaysOnDisk'
    BY <1>0, <2>1, <2>4 DEF SelectionStaysOnDisk
  <2>7. QED
    BY <2>3, <2>5, <2>6 DEF InUse
<1>4. CASE ActivateWrite
  <2>1. PICK m \in Models, c \in Capabilities : m = act /\ c = CapOf[m]
    BY <1>0, <1>4, StoreAssumption DEF ActivateWrite, RoutesTyped, StoreAssumption
  <2>2. sel' = [sel EXCEPT ![c] = m] /\ act' = None /\ UNCHANGED <<file, del, raced, restarts>>
    BY <1>4, <2>1 DEF ActivateWrite
  <2>3. sel'[c] = m /\ \A d \in Capabilities \ {c} : sel'[d] = sel[d]
    BY <1>0, <2>2 DEF RoutesTyped
  <2>4. RoutesTyped'
    BY <1>0, <2>2 DEF RoutesTyped
  <2>5. ~raced => del.left = <<>> /\ \A f \in FilesOf(m) : file[f] # Absent
    BY <1>0, <1>n, <2>1 DEF Deleting
  <2>6. ~raced => \A f : ~(Doomed(f)')
    <3>1. Len(<<>>) = 0 /\ 1..0 = {}
      OBVIOUS
    <3>2. QED
      BY <2>2, <2>5, <3>1 DEF Doomed
  <2>7. Deleting'
    BY <1>0, <1>n, <2>1, <2>2, <2>3, <2>6 DEF Deleting
  <2>8. SelectionStaysOnDisk'
    BY <1>0, <2>2, <2>3, <2>5 DEF SelectionStaysOnDisk
  <2>9. QED
    BY <2>4, <2>7, <2>8 DEF InUse
<1>5. ASSUME NEW m \in Models, DeleteCheck(m)
      PROVE  InUse'
  <2>1. del' = [model |-> m, left |-> Needs[m]] /\ raced' = (raced \/ act # None)
        /\ UNCHANGED <<file, sel, act, restarts>> /\ Deletable(m)
    BY <1>5 DEF DeleteCheck, Downloads
  <2>2. del'.model = m /\ del'.left = Needs[m] /\ m # None
    BY <1>n, <2>1
  <2>3. RoutesTyped'
    <3>1. del' \in [model : Models \cup {None}, left : Seq(Files)]
      BY <2>1, LenNeeds
    <3>2. QED
      BY <1>0, <2>1, <3>1 DEF RoutesTyped
  <2>4. \A f : Doomed(f)' => f \in FilesOf(m)
    BY <2>2 DEF Doomed, FilesOf
  <2>5. \A c \in Capabilities : sel[c] # None => \A f \in FilesOf(sel[c]) : ~(Doomed(f)')
    BY <2>1, <2>4, DeletableSpares
  <2>6. ~raced' => ~raced /\ act = None
    BY <2>1
  <2>7. Deleting'
    BY <1>0, <2>1, <2>2, <2>5, <2>6 DEF Deleting
  <2>8. SelectionStaysOnDisk'
    BY <1>0, <2>1, <2>6 DEF SelectionStaysOnDisk
  <2>9. QED
    BY <2>3, <2>7, <2>8 DEF InUse
<1>6. CASE DeleteFile
  <2>1. PICK f \in Files :
           /\ Doomed(f) /\ del.left # <<>>
           /\ file'[f] = Absent /\ \A g \in Files \ {f} : file'[g] = file[g]
           /\ \A g \in Files : Doomed(g)' => Doomed(g)
           /\ del' \in [model : Models \cup {None}, left : Seq(Files)]
           /\ del'.model = None => del'.left = <<>>
           /\ UNCHANGED <<sel, act, raced, restarts>>
    BY <1>0, <1>6, DeleteFileIs
  <2>2. RoutesTyped'
    BY <1>0, <2>1 DEF RoutesTyped
  <2>3. \A c \in Capabilities : sel[c] # None => FilesOf(sel[c]) \subseteq Files
    BY <1>0, FilesOfIn DEF RoutesTyped
  <2>4. ~raced => act = None
    BY <1>0, <2>1 DEF Deleting
  <2>5. ASSUME ~raced, NEW c \in Capabilities, sel[c] # None, NEW g \in FilesOf(sel[c])
        PROVE  file'[g] # Absent /\ ~(Doomed(g)')
    <3>1. g \in Files /\ ~Doomed(g) /\ file[g] # Absent
      BY <1>0, <2>3, <2>5 DEF Deleting, SelectionStaysOnDisk
    <3>2. QED
      BY <2>1, <3>1
  <2>6. Deleting'
    BY <1>0, <2>1, <2>4, <2>5 DEF Deleting
  <2>7. SelectionStaysOnDisk'
    BY <2>1, <2>5 DEF SelectionStaysOnDisk
  <2>8. QED
    BY <2>2, <2>6, <2>7 DEF InUse
<1>7. CASE Restart
  <2>1. /\ act' = None /\ del' = [model |-> None, left |-> <<>>] /\ restarts' = restarts + 1
        /\ restarts < MaxRestarts /\ UNCHANGED <<file, sel, raced>>
    BY <1>7 DEF Restart
  <2>2. RoutesTyped'
    BY <1>0, <2>1, StoreAssumption DEF RoutesTyped, StoreAssumption
  <2>3. \A f : ~(Doomed(f)')
    <3>1. Len(<<>>) = 0 /\ 1..0 = {} /\ del'.left = <<>>
      BY <2>1
    <3>2. QED
      BY <3>1 DEF Doomed
  <2>4. Deleting'
    BY <1>0, <2>1, <2>3 DEF Deleting
  <2>5. SelectionStaysOnDisk'
    BY <1>0, <2>1 DEF SelectionStaysOnDisk
  <2>6. QED
    BY <2>2, <2>4, <2>5 DEF InUse
<1>8. QED
  BY <1>1, <1>2, <1>3, <1>4, <1>5, <1>6, <1>7 DEF Next

-----------------------------------------------------------------------------
(* The invariant, and what follows                                         *)

LEMMA IInvIs == IInv <=> Base /\ InUse
  BY DEF IInv, Base, InUse

LEMMA InitIInv ==
  ASSUME Init
  PROVE  IInv
<1>a. StoreAssumption
  BY StoreAssumption
<1>1. DiskTyped
  <2>1. \A f \in Files : Absent \in Seq(Int) /\ Whole(f) \in Seq(Int)
    BY Sizes
  <2>2. file \in [Files -> {Absent} \cup {Whole(f) : f \in Files}] /\ \A f \in Files : file[f] \in {Absent, Whole(f)}
    BY DEF Init
  <2>3. \A f \in Files : part[f] = Absent /\ file[f] \in Contents(f) /\ part[f] \in Contents(f)
    BY <2>2, Sizes DEF Init, Contents
  <2>4. part \in [Files -> Seq(Int)] /\ file \in [Files -> Seq(Int)]
    BY <2>1, <2>2 DEF Init
  <2>5. QED
    BY <2>3, <2>4 DEF Init, DiskTyped
<1>2. PICK m \in Models : task = [t \in Tasks |-> NoTask(m)]
  BY DEF Init
<1>3. \A t \in Tasks : task[t] \in TaskType /\ task[t].pc = "idle" /\ task[t].at = 1 /\ task[t].model = m
  BY <1>2, IdleTask
<1>4. TasksTyped
  <2>1. task \in [Tasks -> TaskType]
    BY <1>2, <1>3
  <2>2. \A t \in Tasks : task[t].at <= Len(Needs[task[t].model]) + 1
    BY <1>3, LenNeeds
  <2>3. starts \in 0..MaxStarts
    BY <1>a DEF Init, StoreAssumption
  <2>4. QED
    BY <1>3, <2>1, <2>2, <2>3 DEF TasksTyped
<1>5. Held
  BY <1>3 DEF Held
<1>6. Clean
  <2>1. \A t \in Tasks : \A f : ~InTransfer(t, f)
    BY <1>3 DEF InTransfer
  <2>2. \A f \in Files : part[f] = Absent
    BY DEF Init
  <2>3. QED
    BY <2>1, <2>2 DEF Clean, Own, Marked, Sound
<1>7. RoutesTyped
  <2>1. restarts \in 0..MaxRestarts /\ sel \in [Capabilities -> Models \cup {None}]
    BY <1>a DEF Init, StoreAssumption
  <2>2. del \in [model : Models \cup {None}, left : Seq(Files)]
    BY DEF Init
  <2>3. QED
    BY <2>1, <2>2 DEF Init, RoutesTyped
<1>8. Deleting /\ SelectionStaysOnDisk
  BY DEF Init, Deleting, SelectionStaysOnDisk
<1>9. QED
  BY <1>1, <1>4, <1>5, <1>6, <1>7, <1>8 DEF IInv

LEMMA NextIInv ==
  ASSUME IInv, [Next]_vars
  PROVE  IInv'
<1>1. CASE Next
  <2>1. Base' /\ InUse'
    BY <1>1, IInvIs, StepBase, StepInUse DEF InUse
  <2>2. QED
    BY <2>1 DEF IInv, Base, InUse
<1>2. CASE UNCHANGED vars
  <2>1. UNCHANGED <<part, file, task, sel, act, del, suspect, raced, starts, restarts>>
    BY <1>2 DEF vars
  <2>2. DiskTyped' /\ TasksTyped' /\ RoutesTyped'
    BY <2>1 DEF IInv, DiskTyped, TasksTyped, RoutesTyped
  <2>3. Held' /\ Clean'
    BY <2>1 DEF IInv, Held, Clean, Own, Marked, Sound, InTransfer, FileOf
  <2>4. Deleting' /\ SelectionStaysOnDisk'
    BY <2>1 DEF IInv, Deleting, Doomed, SelectionStaysOnDisk
  <2>5. QED
    BY <2>2, <2>3, <2>4 DEF IInv
<1>3. QED
  BY <1>1, <1>2

LEMMA Invariance == Spec => []IInv
<1>1. Init => IInv
  BY InitIInv
<1>2. IInv /\ [Next]_vars => IInv'
  BY NextIInv
<1>3. QED
  BY <1>1, <1>2, PTL DEF Spec

\* Every variable keeps its type: no transfer writes a byte that is not the
\* file's, whatever the number of tasks at one file.
THEOREM Typing == Spec => []TypeOK
<1>1. IInv => TypeOK
  <2> SUFFICES ASSUME IInv PROVE TypeOK
    OBVIOUS
  <2>1. DiskTyped /\ TasksTyped /\ RoutesTyped
    BY DEF IInv
  <2>2. \A f \in Files : part[f] \in Seq(0..Size[f]) \cup {Absent} /\ file[f] \in Seq(0..Size[f]) \cup {Absent}
    BY <2>1 DEF DiskTyped, Contents
  <2>3. ASSUME NEW t \in Tasks
        PROVE  /\ task[t].pc \in Steps /\ task[t].model \in Models
               /\ task[t].at \in 1..(Len(Needs[task[t].model]) + 1)
               /\ task[t].url \in 1..Urls /\ task[t].have \in Nat /\ task[t].fd \in Fds
               /\ task[t].fresh \in BOOLEAN /\ task[t].cancel \in BOOLEAN
    <3>1. PICK j \in TaskType : j = task[t] /\ j.at <= Len(Needs[j.model]) + 1
      BY <2>1 DEF TasksTyped
    <3>2. j.at \in Nat /\ j.at > 0 /\ j.model \in Models /\ Len(Needs[j.model]) \in Nat
      BY LenNeeds DEF TaskType
    <3>3. j.at \in 1..(Len(Needs[j.model]) + 1)
      BY <3>1, <3>2
    <3>4. QED
      BY <3>1, <3>3 DEF TaskType
  <2>4. QED
    BY <2>1, <2>2, <2>3 DEF TypeOK, DiskTyped, TasksTyped, RoutesTyped, Steps, Fds
<1>2. QED
  BY <1>1, Invariance, PTL

\* The delete route's guards are enough, given the catalogue: a model that was
\* activated keeps every file, for any number of capabilities and models, unless
\* an activation and a deletion were in flight together.
THEOREM SelectionStaysOnDiskHolds == Spec => []SelectionStaysOnDisk
<1>1. IInv => SelectionStaysOnDisk
  BY DEF IInv
<1>2. QED
  BY <1>1, Invariance, PTL
-----------------------------------------------------------------------------
(* The shelf: every step of the store is a step of the shelf, or none      *)

\* What the shelf shows of a task at pc, and of the contents c of file f.
Face(pc) == IF pc \in {"idle", "probe"} THEN "idle"
            ELSE IF pc \in Finished \cup {"verified"} THEN pc ELSE "running"

Look(f, c) == IF c = Absent THEN "absent" ELSE IF c = Whole(f) THEN "whole" ELSE "damaged"

LEMMA FaceIs ==
  /\ Face("idle") = "idle" /\ Face("probe") = "idle" /\ Face("verified") = "verified"
  /\ Face("files") = "running" /\ Face("wait") = "running" /\ Face("body") = "running"
  /\ Face("verify") = "running"
  /\ Face("done") = "done" /\ Face("failed") = "failed" /\ Face("canceled") = "canceled"
  BY DEF Face, Finished

LEMMA ViewIs ==
  /\ Shown = [t \in Tasks |-> Face(task[t].pc)]
  /\ Displayed = [f \in Files |-> Look(f, file[f])]
  /\ Wanted = [t \in Tasks |-> task[t].model]
  BY DEF Shown, Displayed, Wanted, Face, Look

\* One task turns: the shelf sees it turn.
LEMMA TaskView ==
  ASSUME NEW t \in Tasks, \A u \in Tasks \ {t} : Stays(u)
  PROVE  /\ Shown' = [Shown EXCEPT ![t] = Face(task'[t].pc)]
         /\ Wanted' = [Wanted EXCEPT ![t] = task'[t].model]
         /\ \A u \in Tasks \ {t} : u \in Asked' <=> u \in Asked
         /\ t \in Asked' <=> task'[t].cancel
         /\ Asked \subseteq Tasks /\ Asked' \subseteq Tasks
<1>1. Shown' = [u \in Tasks |-> Face(task'[u].pc)] /\ Wanted' = [u \in Tasks |-> task'[u].model]
  BY DEF Shown, Wanted, Face
<1>2. \A u \in Tasks \ {t} : task'[u].pc = task[u].pc /\ task'[u].model = task[u].model /\ task'[u].cancel = task[u].cancel
  BY DEF Stays
<1>3. Shown' = [Shown EXCEPT ![t] = Face(task'[t].pc)]
  BY <1>1, <1>2, ViewIs
<1>4. Wanted' = [Wanted EXCEPT ![t] = task'[t].model]
  BY <1>1, <1>2, ViewIs
<1>5. \A u \in Tasks \ {t} : u \in Asked' <=> u \in Asked
  BY <1>2 DEF Asked
<1>6. QED
  BY <1>3, <1>4, <1>5 DEF Asked

\* A task goes on with the same model and the same request to cancel.
LEMMA GoesOnView ==
  ASSUME NEW t \in Tasks, \A u \in Tasks \ {t} : Stays(u),
         task'[t].model = task[t].model, task'[t].cancel = task[t].cancel
  PROVE  /\ Shown' = [Shown EXCEPT ![t] = Face(task'[t].pc)]
         /\ Wanted' = Wanted /\ Asked' = Asked
<1>1. Wanted' = [Wanted EXCEPT ![t] = task[t].model]
  BY TaskView
<1>2. Wanted' = Wanted
  BY <1>1, ViewIs
<1>3. \A u \in Tasks : u \in Asked' <=> u \in Asked
  BY TaskView DEF Asked
<1>4. Asked' = Asked
  BY <1>3, TaskView
<1>5. QED
  BY <1>2, <1>4, TaskView

LEMMA SameFace ==
  ASSUME NEW t \in Tasks, NEW v, Shown' = [Shown EXCEPT ![t] = v], v = Face(task[t].pc)
  PROVE  Shown' = Shown
  BY ViewIs

LEMMA SameFiles ==
  ASSUME file' = file
  PROVE  Displayed' = Displayed
  BY DEF Displayed

\* One file changes.
LEMMA FileView ==
  ASSUME DiskTyped, NEW f \in Files, \A g \in Files \ {f} : file'[g] = file[g]
  PROVE  Displayed' = [Displayed EXCEPT ![f] = Look(f, file'[f])]
<1>1. Displayed' = [g \in Files |-> Look(g, file'[g])]
  BY DEF Displayed, Look
<1>2. QED
  BY <1>1, ViewIs

ShelfStep == Shelf!Next \/ UNCHANGED <<Displayed, suspect, Shown, Wanted, Asked>>

\* A task that fails, and one that asks the next source.
LEMMA NextUrlShelf ==
  ASSUME NEW t \in Tasks, task[t].pc \in {"wait", "body"}, \A u \in Tasks \ {t} : Stays(u),
         \/ Asking(t, task'[t])
         \/ task'[t].pc = "failed" /\ task'[t].model = task[t].model /\ task'[t].cancel = task[t].cancel,
         file' = file, suspect' = suspect
  PROVE  ShelfStep
<1>1. task'[t].model = task[t].model /\ task'[t].cancel = task[t].cancel
  BY DEF Asking
<1>2. Shown' = [Shown EXCEPT ![t] = Face(task'[t].pc)] /\ Wanted' = Wanted /\ Asked' = Asked /\ Displayed' = Displayed
  BY <1>1, GoesOnView, SameFiles
<1>3. Face(task[t].pc) = "running" /\ Shown[t] = "running"
  BY ViewIs, FaceIs
<1>4. CASE Asking(t, task'[t])
  <2>1. Face(task'[t].pc) = Face(task[t].pc)
    BY <1>3, <1>4, FaceIs DEF Asking
  <2>2. Shown' = Shown
    BY <1>2, <2>1, SameFace
  <2>3. QED
    BY <1>2, <2>2 DEF ShelfStep
<1>5. CASE task'[t].pc = "failed"
  <2>1. Shown' = [Shown EXCEPT ![t] = "failed"]
    BY <1>2, <1>5, FaceIs
  <2>2. Shelf!Conclude(t, "failed")
    BY <1>2, <1>3, <2>1 DEF Shelf!Conclude
  <2>3. QED
    BY <2>2 DEF ShelfStep, Shelf!Next, Shelf!Finished
<1>6. QED
  BY <1>4, <1>5

\* A task that only its step changes.
LEMMA PcStep ==
  ASSUME TasksTyped, NEW t \in Tasks, NEW pc \in Steps, task' = [task EXCEPT ![t].pc = pc]
  PROVE  /\ \A u \in Tasks \ {t} : Stays(u)
         /\ task'[t].pc = pc /\ task'[t].model = task[t].model /\ task'[t].cancel = task[t].cancel
<1>1. PICK j \in TaskType : j = task[t]
  BY DEF TasksTyped
<1>2. PICK k : k = [j EXCEPT !.pc = pc]
  OBVIOUS
<1>3. k.pc = pc /\ k.model = j.model /\ k.cancel = j.cancel
  BY <1>2 DEF TaskType
<1>4. task' = [task EXCEPT ![t] = k]
  BY <1>1, <1>2
<1>5. task'[t] = k /\ \A u \in Tasks \ {t} : task'[u] = task[u]
  BY <1>4 DEF TasksTyped
<1>6. QED
  BY <1>1, <1>3, <1>5 DEF Stays

LEMMA TurnsStays ==
  ASSUME NEW t \in Tasks, NEW k, Turns(t, k)
  PROVE  task'[t] = k /\ \A u \in Tasks \ {t} : Stays(u)
  BY DEF Turns, Stays

\* A verdict.
LEMMA EndsShelf ==
  ASSUME TasksTyped, NEW t \in Tasks, NEW v \in Finished, task' = Ends(t, v), file' = file, suspect' = suspect,
         v = "done" => task[t].pc = "verified",
         v # "done" => task[t].pc \in {"files", "wait", "body", "verify"},
         v = "canceled" => task[t].cancel
  PROVE  ShelfStep
<1>1. PICK k : Turns(t, k) /\ k.pc = v /\ k.model = task[t].model /\ k.cancel = task[t].cancel
  BY EndsIs
<1>2. task'[t] = k /\ \A u \in Tasks \ {t} : Stays(u)
  BY <1>1, TurnsStays
<1>3. Shown' = [Shown EXCEPT ![t] = Face(k.pc)] /\ Wanted' = Wanted /\ Asked' = Asked /\ Displayed' = Displayed
  BY <1>1, <1>2, GoesOnView, SameFiles
<1>4. Face(k.pc) = v
  BY <1>1, FaceIs DEF Finished
<1>5. v = "done" => Shown[t] = "verified"
  BY ViewIs, FaceIs
<1>6. v # "done" => Shown[t] = "running"
  BY ViewIs, FaceIs
<1>7. v = "canceled" => t \in Asked
  BY DEF Asked
<1>8. Shelf!Conclude(t, v)
  BY <1>3, <1>4, <1>5, <1>6, <1>7 DEF Shelf!Conclude
<1>9. QED
  BY <1>8 DEF ShelfStep, Shelf!Next, Shelf!Finished, Finished

LEMMA StartShelf ==
  ASSUME Base, NEW t \in Tasks, NEW m \in Models, NEW force, Start(t, m, force)
  PROVE  ShelfStep
<1>1. PICK k \in TaskType : Turns(t, k) /\ k.pc = "probe" /\ k.model = m /\ k.cancel = FALSE
  BY StartBase
<1>2. task'[t] = k /\ \A u \in Tasks \ {t} : Stays(u)
  BY <1>1, TurnsStays
<1>3. file' = file /\ suspect' = suspect /\ task[t].pc \in Finished \cup {"idle"}
  BY DEF Start, Disk
<1>4. /\ Shown' = [Shown EXCEPT ![t] = "idle"] /\ Wanted' = [Wanted EXCEPT ![t] = m]
      /\ \A u \in Tasks \ {t} : u \in Asked' <=> u \in Asked
      /\ t \notin Asked' /\ Asked \subseteq Tasks /\ Asked' \subseteq Tasks
  BY <1>1, <1>2, TaskView, FaceIs
<1>5. Asked' = Asked \ {t}
  BY <1>4
<1>6. Shown[t] \in Finished \cup {"idle"}
  BY <1>3, ViewIs, FaceIs DEF Finished
<1>7. Displayed' = Displayed
  BY <1>3, SameFiles
<1>8. Shelf!Claim(t, m)
  BY <1>3, <1>4, <1>5, <1>6, <1>7 DEF Shelf!Claim, Shelf!Finished, Finished
<1>9. QED
  BY <1>8 DEF ShelfStep, Shelf!Next

LEMMA ProbeShelf ==
  ASSUME Base, NEW t \in Tasks, Register(t) \/ InsufficientDisk(t)
  PROVE  ShelfStep
<1>1. PICK pc \in Steps : task' = [task EXCEPT ![t].pc = pc] /\ pc \in {"files", "idle"}
  BY DEF Register, InsufficientDisk, Steps
<1>2. file' = file /\ suspect' = suspect /\ task[t].pc = "probe"
  BY DEF Register, InsufficientDisk, Disk
<1>3. TasksTyped
  BY DEF Base
<1>4. /\ \A u \in Tasks \ {t} : Stays(u)
      /\ task'[t].pc = pc /\ task'[t].model = task[t].model /\ task'[t].cancel = task[t].cancel
  BY <1>1, <1>3, PcStep
<1>5. Shown' = [Shown EXCEPT ![t] = Face(pc)] /\ Wanted' = Wanted /\ Asked' = Asked /\ Displayed' = Displayed
  BY <1>2, <1>4, GoesOnView, SameFiles
<1>6. Shown[t] = "idle" /\ Face(task[t].pc) = "idle"
  BY <1>2, ViewIs, FaceIs
<1>7. CASE pc = "files"
  <2>1. Shelf!Begin(t)
    BY <1>2, <1>5, <1>6, <1>7, FaceIs DEF Shelf!Begin
  <2>2. QED
    BY <2>1 DEF ShelfStep, Shelf!Next
<1>8. CASE pc = "idle"
  <2>1. Face(pc) = Face(task[t].pc)
    BY <1>6, <1>8, FaceIs
  <2>2. Shown' = Shown
    BY <1>5, <2>1, SameFace
  <2>3. QED
    BY <1>2, <1>5, <2>2 DEF ShelfStep
<1>9. QED
  BY <1>1, <1>7, <1>8

LEMMA CancelShelf ==
  ASSUME Base, NEW t \in Tasks, Cancel(t)
  PROVE  ShelfStep
<1>1. file' = file /\ suspect' = suspect /\ task' = [task EXCEPT ![t].cancel = TRUE]
  BY DEF Cancel, Disk
<1>2. PICK j \in TaskType : j = task[t]
  BY DEF Base, TasksTyped
<1>3. PICK k : k = [j EXCEPT !.cancel = TRUE]
  OBVIOUS
<1>4. k.pc = j.pc /\ k.model = j.model /\ k.cancel = TRUE
  BY <1>3 DEF TaskType
<1>5. task' = [task EXCEPT ![t] = k]
  BY <1>1, <1>2, <1>3
<1>6. task'[t] = k /\ \A u \in Tasks \ {t} : Stays(u)
  BY <1>5 DEF Base, TasksTyped, Stays
<1>7. /\ Shown' = [Shown EXCEPT ![t] = Face(task[t].pc)]
      /\ Wanted' = [Wanted EXCEPT ![t] = task[t].model]
      /\ \A u \in Tasks \ {t} : u \in Asked' <=> u \in Asked
      /\ t \in Asked' /\ Asked \subseteq Tasks /\ Asked' \subseteq Tasks
  BY <1>2, <1>4, <1>6, TaskView
<1>8. Shown' = Shown /\ Wanted' = Wanted
  BY <1>7, ViewIs
<1>9. Asked' = Asked \cup {t}
  BY <1>7
<1>10. Shelf!Ask(t)
  BY <1>1, <1>8, <1>9, SameFiles DEF Shelf!Ask
<1>11. QED
  BY <1>10 DEF ShelfStep, Shelf!Next

\* A task that stays running, with at most one more suspect.
LEMMA DoubtShelf ==
  ASSUME NEW t \in Tasks, task[t].pc \in {"files", "wait", "body", "verify"},
         \A u \in Tasks \ {t} : Stays(u), task'[t].pc \in {"files", "wait", "body", "verify"},
         task'[t].model = task[t].model, task'[t].cancel = task[t].cancel, file' = file,
         NEW f \in Files, suspect' = suspect \/ suspect' = suspect \cup {f}
  PROVE  ShelfStep
<1>1. Shown' = [Shown EXCEPT ![t] = Face(task'[t].pc)] /\ Wanted' = Wanted /\ Asked' = Asked /\ Displayed' = Displayed
  BY GoesOnView, SameFiles
<1>2. Face(task'[t].pc) = Face(task[t].pc)
  BY FaceIs
<1>3. Shown' = Shown
  BY <1>1, <1>2, SameFace
<1>4. CASE suspect' = suspect
  BY <1>1, <1>3, <1>4 DEF ShelfStep
<1>5. CASE suspect' = suspect \cup {f}
  <2>1. Shelf!Doubt(f)
    BY <1>1, <1>3, <1>5 DEF Shelf!Doubt
  <2>2. QED
    BY <2>1 DEF ShelfStep, Shelf!Next
<1>6. QED
  BY <1>4, <1>5

LEMMA NextFileShelf ==
  ASSUME Base, NEW t \in Tasks, NextFile(t)
  PROVE  ShelfStep
<1>0. DiskTyped /\ TasksTyped
  BY DEF Base
<1>1. UNCHANGED <<part, file>> /\ task[t].pc = "files"
  BY DEF NextFile, Disk
<1>2. PICK j \in TaskType : j = task[t]
  BY <1>0 DEF TasksTyped
<1>3. CASE task[t].cancel /\ task' = Ends(t, "canceled") /\ suspect' = suspect
  <2>1. PICK v \in Finished : v = "canceled"
    BY DEF Finished
  <2>2. QED
    BY <1>0, <1>1, <1>3, <2>1, EndsShelf
<1>4. CASE /\ task[t].at <= Len(Needs[task[t].model]) /\ task' = Request(t, 1)
           /\ suspect' = suspect \/ suspect' = suspect \cup {FileOf(t)}
  <2>1. PICK f \in Files : f = FileOf(t)
    BY <1>2, <1>4, FileIn DEF FileOf
  <2>2. Length(part'[FileOf(t)]) \in Nat
    BY <1>0, <1>1, <2>1, LengthIs DEF DiskTyped
  <2>3. PICK url \in 1..Urls : url = 1
    BY StoreAssumption DEF StoreAssumption
  <2>4. PICK k \in TaskType : task' = [task EXCEPT ![t] = k] /\ Asking(t, k)
    BY <1>0, <1>4, <2>2, <2>3, RequestIs
  <2>5. task'[t] = k /\ \A u \in Tasks \ {t} : Stays(u)
    BY <1>0, <2>4 DEF TasksTyped, Stays
  <2>6. task'[t].pc = "wait" /\ task'[t].model = task[t].model /\ task'[t].cancel = task[t].cancel
    BY <2>4, <2>5 DEF Asking
  <2>7. QED
    BY <1>1, <1>4, <2>1, <2>5, <2>6, DoubtShelf
<1>5. CASE task' = [task EXCEPT ![t].pc = "verify"] /\ suspect' = suspect
  <2>1. PICK pc \in Steps : pc = "verify"
    BY DEF Steps
  <2>2. /\ \A u \in Tasks \ {t} : Stays(u)
        /\ task'[t].pc = "verify" /\ task'[t].model = task[t].model /\ task'[t].cancel = task[t].cancel
    BY <1>0, <1>5, <2>1, PcStep
  <2>3. PICK f \in Files : TRUE
    <3>1. PICK s \in Seq(Files) : s # <<>>
      BY <1>2, LenNeeds DEF TaskType
    <3>2. Head(s) \in Files
      BY <3>1
    <3>3. QED
      BY <3>2
  <2>4. QED
    BY <1>1, <1>5, <2>2, <2>3, DoubtShelf
<1>6. QED
  BY <1>3, <1>4, <1>5 DEF NextFile

LEMMA FailsShelf ==
  ASSUME Base, NEW t \in Tasks, task[t].pc \in {"wait", "body"}, task' = NextUrl(t),
         UNCHANGED <<part, file, suspect>>
  PROVE  ShelfStep
<1>0. DiskTyped /\ TasksTyped
  BY DEF Base
<1>1. PICK f \in Files : f = FileOf(t)
  BY <1>0, FileIn DEF TasksTyped, FileOf
<1>2. Length(part'[FileOf(t)]) \in Nat
  BY <1>0, <1>1, LengthIs DEF DiskTyped
<1>3. PICK k \in TaskType :
            /\ task' = [task EXCEPT ![t] = k]
            /\ \/ Asking(t, k)
               \/ k.pc = "failed" /\ k.model = task[t].model /\ k.cancel = task[t].cancel
  BY <1>0, <1>2, NextUrlIs
<1>4. task'[t] = k /\ \A u \in Tasks \ {t} : Stays(u)
  BY <1>0, <1>3 DEF TasksTyped, Stays
<1>5. QED
  BY <1>3, <1>4, NextUrlShelf

LEMMA RespondShelf ==
  ASSUME Base, NEW t \in Tasks, NEW resume \in BOOLEAN, Respond(t, resume)
  PROVE  ShelfStep
<1>0. DiskTyped /\ TasksTyped
  BY DEF Base
<1>1. PICK f \in Files, k \in TaskType :
           /\ Turns(t, k) /\ k.pc = "body" /\ k.model = task[t].model /\ k.cancel = task[t].cancel
           /\ file' = file /\ (suspect' = suspect \/ suspect' = suspect \cup {f})
  BY <1>0, RespondIs
<1>2. task'[t] = k /\ \A u \in Tasks \ {t} : Stays(u)
  BY <1>1, TurnsStays
<1>3. task[t].pc = "wait"
  BY DEF Respond
<1>4. QED
  BY <1>1, <1>2, <1>3, DoubtShelf

\* A write under the final name: the file is a suspect, and stays there.
LEMMA WritesShelf ==
  ASSUME Base, NEW t \in Tasks, Writes(t)
  PROVE  ShelfStep
<1>0. DiskTyped /\ TasksTyped /\ Held /\ Clean
  BY DEF Base
<1>1. PICK f \in Files, k \in TaskType :
           /\ InTransfer(t, f) /\ Turns(t, k) /\ task[t].pc = "body" /\ task[t].have < Size[f]
           /\ k.pc = "body" /\ k.model = task[t].model /\ k.cancel = task[t].cancel
           /\ IF task[t].fd = "file" THEN file[f] # Absent /\ file' = [file EXCEPT ![f] = Written(t, file[f])]
              ELSE file' = file
           /\ suspect' = suspect
  BY <1>0, WritesIs
<1>2. task'[t] = k /\ \A u \in Tasks \ {t} : Stays(u)
  BY <1>1, TurnsStays
<1>3. CASE task[t].fd # "file"
  BY <1>1, <1>2, <1>3, DoubtShelf
<1>4. CASE task[t].fd = "file"
  <2>1. Shown' = [Shown EXCEPT ![t] = Face(task'[t].pc)] /\ Wanted' = Wanted /\ Asked' = Asked
    BY <1>1, <1>2, GoesOnView
  <2>2. Shown' = Shown
    BY <1>1, <1>2, <2>1, SameFace
  <2>3. f \in suspect
    <3>1. f \notin suspect => Sound(t, f)
      BY <1>0 DEF Clean
    <3>2. QED
      BY <1>1, <1>4, <3>1 DEF Sound
  <2>4. file[f] # Absent /\ file' = [file EXCEPT ![f] = Written(t, file[f])]
    BY <1>1, <1>4
  <2>5. file[f] \in Seq(0..Size[f]) /\ task[t] \in TaskType
    BY <1>0, <2>4, LengthIs DEF DiskTyped, TasksTyped
  <2>6. Written(t, file[f]) # Absent
    BY <1>1, <2>5, WrittenIs, Sizes
  <2>7. file'[f] # Absent /\ \A g \in Files \ {f} : file'[g] = file[g]
    BY <1>0, <2>4, <2>6 DEF DiskTyped
  <2>8. Displayed' = [Displayed EXCEPT ![f] = Look(f, file'[f])] /\ Displayed[f] # "absent"
    BY <1>0, <2>4, <2>7, FileView, ViewIs DEF Look
  <2>9. Look(f, file'[f]) \in {"whole", "damaged"}
    BY <2>7 DEF Look
  <2>10. Shelf!Spoil(f)
    BY <1>1, <2>1, <2>2, <2>3, <2>8, <2>9 DEF Shelf!Spoil
  <2>11. QED
    BY <2>10 DEF ShelfStep, Shelf!Next
<1>5. QED
  BY <1>3, <1>4

LEMMA RejectsShelf ==
  ASSUME Base, NEW t \in Tasks, Rejects(t)
  PROVE  ShelfStep
<1>0. DiskTyped /\ TasksTyped
  BY DEF Base
<1>1. PICK k \in TaskType :
           /\ task[t].pc = "body" /\ task'[t] = k
           /\ \/ Asking(t, k)
              \/ k.pc = "failed" /\ k.model = task[t].model /\ k.cancel = task[t].cancel
           /\ \A u \in Tasks \ {t} : Stays(u)
           /\ file' = file /\ suspect' = suspect
  BY <1>0, RejectsIs
<1>2. QED
  BY <1>1, NextUrlShelf

\* A transfer the checks accept holds the catalogue's file, unless it is a suspect.
LEMMA AcceptedIsWhole ==
  ASSUME Base, NEW t \in Tasks, NEW f \in Files \ suspect, f = FileOf(t), task[t].pc = "body",
         Accepted(t), part[f] # Absent
  PROVE  part[f] = Whole(f)
<1>0. DiskTyped /\ Clean
  BY DEF Base
<1>1. Sound(t, f) /\ InTransfer(t, f)
  BY <1>0 DEF Clean, InTransfer
<1>2. PICK c \in Seq(0..Size[f]) : c = part[f] /\ Length(part[f]) = Len(c)
  BY <1>0, LengthIs DEF DiskTyped
<1>3. Len(c) = Size[f] /\ task[t].url \notin Stale
  BY <1>1, <1>2 DEF Accepted, Sound
<1>4. \A i \in 1..Len(c) : c[i] = i
  BY <1>1, <1>2, <1>3 DEF Sound
<1>5. c = [i \in 1..Len(c) |-> c[i]]
  BY <1>2
<1>6. QED
  BY <1>2, <1>3, <1>4, <1>5 DEF Whole

LEMMA RenamesShelf ==
  ASSUME Base, NEW t \in Tasks, Renames(t)
  PROVE  ShelfStep
<1>0. DiskTyped /\ TasksTyped
  BY DEF Base
<1>1. PICK f \in Files, k \in TaskType :
           /\ f = FileOf(t) /\ task[t].pc = "body" /\ part[f] # Absent
           /\ f \in FilesOf(task[t].model)
           /\ task'[t] = k
           /\ k.pc = "files" /\ k.model = task[t].model /\ k.cancel = task[t].cancel
           /\ \A u \in Tasks \ {t} : Stays(u)
           /\ file' = [file EXCEPT ![f] = part[f]] /\ suspect' = suspect
  BY <1>0, RenamesIs
<1>2. Accepted(t)
  BY DEF Renames
<1>3. Shown' = [Shown EXCEPT ![t] = Face(task'[t].pc)] /\ Wanted' = Wanted /\ Asked' = Asked
  BY <1>1, GoesOnView
<1>4. Face(task'[t].pc) = Face(task[t].pc) /\ Shown[t] = "running"
  BY <1>1, FaceIs, ViewIs
<1>5. Shown' = Shown
  BY <1>3, <1>4, SameFace
<1>6. file'[f] = part[f] /\ \A g \in Files \ {f} : file'[g] = file[g]
  BY <1>0, <1>1 DEF DiskTyped
<1>7. Displayed' = [Displayed EXCEPT ![f] = Look(f, part[f])]
  BY <1>0, <1>6, FileView
<1>8. Look(f, part[f]) \in {"whole", "damaged"}
  BY <1>1 DEF Look
<1>9. Look(f, part[f]) = "damaged" => f \in suspect
  BY <1>1, <1>2, AcceptedIsWhole DEF Look
<1>10. f \in Shelf!FilesOf(Wanted[t])
  BY <1>1, ViewIs DEF Shelf!FilesOf, FilesOf
<1>11. Shelf!Place(t, f)
  BY <1>1, <1>3, <1>4, <1>5, <1>7, <1>8, <1>9, <1>10 DEF Shelf!Place
<1>12. QED
  BY <1>11 DEF ShelfStep, Shelf!Next

LEMMA VerifyShelf ==
  ASSUME Base, NEW t \in Tasks, Verify(t)
  PROVE  ShelfStep
<1>0. DiskTyped /\ TasksTyped
  BY DEF Base
<1>1. file' = file /\ suspect' = suspect /\ task[t].pc = "verify"
  BY DEF Verify, Disk
<1>2. CASE task' = Ends(t, "failed")
  <2>1. PICK v \in Finished : v = "failed"
    BY DEF Finished
  <2>2. QED
    BY <1>0, <1>1, <1>2, <2>1, EndsShelf
<1>3. CASE Installed(task[t].model) /\ task' = [task EXCEPT ![t].pc = "verified"]
  <2>1. PICK pc \in Steps : pc = "verified"
    BY DEF Steps
  <2>2. /\ \A u \in Tasks \ {t} : Stays(u)
        /\ task'[t].pc = pc /\ task'[t].model = task[t].model /\ task'[t].cancel = task[t].cancel
    BY <1>0, <1>3, <2>1, PcStep
  <2>3. Shown' = [Shown EXCEPT ![t] = Face(pc)] /\ Wanted' = Wanted /\ Asked' = Asked /\ Displayed' = Displayed
    BY <1>1, <2>2, GoesOnView, SameFiles
  <2>4. Face(pc) = "verified" /\ Shown[t] = "running" /\ Wanted[t] = task[t].model
    BY <1>1, <2>1, FaceIs, ViewIs
  <2>5. task[t].model \in Models
    BY <1>0 DEF TasksTyped, TaskType
  <2>6. \A f \in FilesOf(task[t].model) : f \in Files /\ file[f] # Absent
    BY <1>3, <2>5, FilesOfIn DEF Installed
  <2>7. \A f \in FilesOf(task[t].model) : Displayed[f] # "absent"
    BY <2>6, ViewIs DEF Look
  <2>8. \A f \in Shelf!FilesOf(Wanted[t]) : Displayed[f] # "absent"
    BY <2>4, <2>7 DEF Shelf!FilesOf, FilesOf
  <2>9. Shelf!Verify(t)
    BY <1>1, <2>3, <2>4, <2>8 DEF Shelf!Verify
  <2>10. QED
    BY <2>9 DEF ShelfStep, Shelf!Next
<1>4. QED
  BY <1>2, <1>3 DEF Verify

LEMMA TaskShelf ==
  ASSUME Base, NEW t \in Tasks, TaskStep(t)
  PROVE  ShelfStep
<1>0. TasksTyped
  BY DEF Base
<1>1. CASE Refused(t) \/ BodyFails(t)
  <2>1. task[t].pc \in {"wait", "body"} /\ task' = NextUrl(t) /\ UNCHANGED <<part, file, suspect>>
    BY <1>1 DEF Refused, BodyFails, Disk
  <2>2. QED
    BY <2>1, FailsShelf
<1>2. CASE Chunk(t)
  <2>1. PICK v \in Finished : v = "canceled"
    BY DEF Finished
  <2>2. CASE task[t].cancel
    <3>1. task' = Ends(t, v) /\ file' = file /\ suspect' = suspect /\ task[t].pc = "body"
      BY <1>2, <2>1, <2>2 DEF Chunk, Disk
    <3>2. QED
      BY <1>0, <2>1, <2>2, <3>1, EndsShelf
  <2>3. CASE ~task[t].cancel
    BY <1>2, <2>3, WritesShelf DEF Writes
  <2>4. QED
    BY <2>2, <2>3
<1>3. CASE EndOfBody(t)
  <2>1. CASE ~Accepted(t)
    BY <1>3, <2>1, RejectsShelf DEF Rejects
  <2>2. CASE Accepted(t) /\ part[FileOf(t)] = Absent
    <3>1. task[t].pc \in {"wait", "body"} /\ task' = NextUrl(t) /\ UNCHANGED <<part, file, suspect>>
      BY <1>3, <2>2 DEF EndOfBody, Disk
    <3>2. QED
      BY <3>1, FailsShelf
  <2>3. CASE Accepted(t) /\ part[FileOf(t)] # Absent
    BY <1>3, <2>3, RenamesShelf DEF Renames
  <2>4. QED
    BY <2>1, <2>2, <2>3
<1>4. CASE Done(t)
  <2>1. PICK v \in Finished : v = "done"
    BY DEF Finished
  <2>2. task' = Ends(t, v) /\ file' = file /\ suspect' = suspect /\ task[t].pc = "verified"
    BY <1>4, <2>1 DEF Done, Disk
  <2>3. QED
    BY <1>0, <2>1, <2>2, EndsShelf
<1>5. QED
  BY <1>1, <1>2, <1>3, <1>4, ProbeShelf, CancelShelf, NextFileShelf, RespondShelf, VerifyShelf DEF TaskStep

LEMMA StepShelf ==
  ASSUME Base, InUse, Next
  PROVE  ShelfStep
<1>0. DiskTyped /\ TasksTyped /\ RoutesTyped /\ Deleting
  BY DEF Base, InUse
<1>1. CASE \E t \in Tasks : TaskStep(t)
  BY <1>1, TaskShelf
<1>2. CASE \E t \in Tasks, m \in Models, force \in BOOLEAN : Start(t, m, force)
  BY <1>2, StartShelf
<1>3. CASE (\E m \in Models : ActivateCheck(m) \/ DeleteCheck(m)) \/ ActivateWrite
  <2>1. UNCHANGED <<file, task, suspect>>
    BY <1>3 DEF ActivateCheck, DeleteCheck, ActivateWrite, Downloads
  <2>2. UNCHANGED <<Displayed, Shown, Wanted, Asked>>
    BY <2>1 DEF Displayed, Shown, Wanted, Asked
  <2>3. QED
    BY <2>1, <2>2 DEF ShelfStep
<1>4. CASE DeleteFile
  <2>1. PICK f \in Files :
           /\ file'[f] = Absent /\ \A g \in Files \ {f} : file'[g] = file[g]
           /\ \A u \in Tasks : Stays(u)
           /\ suspect' = suspect
    BY <1>0, <1>4, DeleteFileIs
  <2>2. UNCHANGED <<Shown, Wanted, Asked>>
    <3>1. \A u \in Tasks : task'[u].pc = task[u].pc /\ task'[u].model = task[u].model /\ task'[u].cancel = task[u].cancel
      BY <2>1 DEF Stays
    <3>2. Shown' = Shown
      BY <3>1 DEF Shown
    <3>3. Wanted' = Wanted
      BY <3>1 DEF Wanted
    <3>4. Asked' = Asked
      BY <3>1 DEF Asked
    <3>5. QED
      BY <3>2, <3>3, <3>4
  <2>3. Displayed' = [Displayed EXCEPT ![f] = "absent"]
    BY <1>0, <2>1, FileView DEF Look
  <2>4. Shelf!Remove(f)
    BY <2>1, <2>2, <2>3 DEF Shelf!Remove
  <2>5. QED
    BY <2>4 DEF ShelfStep, Shelf!Next
<1>5. CASE Restart
  <2>1. task' = [t \in Tasks |-> NoTask(task[t].model)] /\ UNCHANGED <<file, suspect>>
    BY <1>5 DEF Restart
  <2>2. \A t \in Tasks : task'[t].pc = "idle" /\ task'[t].model = task[t].model /\ task'[t].cancel = FALSE
    BY <1>0, <2>1, IdleTask DEF TasksTyped, TaskType
  <2>3. Shown' = [t \in Tasks |-> "idle"]
    BY <2>2 DEF Shown
  <2>4. Wanted' = Wanted
    BY <2>2 DEF Wanted
  <2>5. Asked' = {}
    BY <2>2 DEF Asked
  <2>6. Shelf!Restart
    BY <2>1, <2>3, <2>4, <2>5, SameFiles DEF Shelf!Restart
  <2>7. QED
    BY <2>6 DEF ShelfStep, Shelf!Next
<1>6. QED
  BY <1>1, <1>2, <1>3, <1>4, <1>5 DEF Next

LEMMA InitShelf ==
  ASSUME Init
  PROVE  Shelf!Init
<1>1. PICK m \in Models : task = [t \in Tasks |-> NoTask(m)]
  BY DEF Init
<1>2. \A t \in Tasks : task[t].pc = "idle" /\ task[t].model = m /\ task[t].cancel = FALSE
  BY <1>1, IdleTask
<1>3. Shown = [t \in Tasks |-> "idle"]
  BY <1>2 DEF Shown
<1>4. Wanted \in [Tasks -> Models]
  BY <1>2 DEF Wanted
<1>5. Asked = {}
  BY <1>2 DEF Asked
<1>6. \A f \in Files : Look(f, file[f]) \in {"absent", "whole"}
  BY DEF Init, Look
<1>7. Displayed \in [Files -> {"absent", "whole"}]
  BY <1>6, ViewIs
<1>8. suspect = {}
  BY DEF Init
<1>9. QED
  BY <1>3, <1>4, <1>5, <1>7, <1>8 DEF Shelf!Init

\* The store implements the shelf: through cancels, broken transfers, resumes on
\* another source, several tasks on one file, crashes and deletions, for any
\* catalogue, any number of sources and any number of tasks, a file takes its
\* final name in one step and whole unless it is a suspect; no task says "done"
\* without having seen its files, or "canceled" unasked.
THEOREM ImplementsShelfHolds == Spec => ImplementsShelf
<1>1. Init => Shelf!Init
  BY InitShelf
<1>2. IInv /\ [Next]_vars => [Shelf!Next]_Shelf!vars
  <2> SUFFICES ASSUME IInv, [Next]_vars PROVE [Shelf!Next]_Shelf!vars
    OBVIOUS
  <2>1. CASE Next
    <3>1. ShelfStep
      BY <2>1, IInvIs, StepShelf
    <3>2. QED
      BY <3>1 DEF ShelfStep, Shelf!vars
  <2>2. CASE UNCHANGED vars
    <3>1. UNCHANGED <<Displayed, suspect, Shown, Wanted, Asked>>
      BY <2>2 DEF vars, Displayed, Shown, Wanted, Asked
    <3>2. QED
      BY <3>1 DEF Shelf!vars
  <2>3. QED
    BY <2>1, <2>2
<1>3. QED
  BY <1>1, <1>2, Invariance, PTL DEF Spec, ImplementsShelf, Shelf!Spec

=============================================================================
