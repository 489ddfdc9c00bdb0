--------------------------- MODULE AwayModeProofs ---------------------------
(***************************************************************************)
(* Away mode, for any number of concurrent set_active calls, any windows,  *)
(* cooldowns and any cap: the armed flag is what is stored, the snapshots  *)
(* are those of the records, and an answer ends the questions.             *)
(*                                                                         *)
(* The spoken dialogue, the other user of the voice, follows in the second *)
(* half, for any number of utterances and of sentences in a reply: which   *)
(* round speaks, what the record of a turn claims, and when the ear is     *)
(* deaf.                                                                   *)
(***************************************************************************)
EXTENDS AwayMode, Conversation, FiniteSetTheorems, SequenceTheorems, TLAPS

Latches == [seen : 0 .. Gap + 1, greeted : 0 .. Cooldown + 1, analysis : 0 .. Interval,
            activity : 0 .. Cooldown + 1]
Rows    == [kind : {"none", "person", "activity"}, state : States, reply : BOOLEAN, snap : BOOLEAN]
Voices  == [pc : TaskPcs, ev : {0} \cup Ids, left : 0 .. Longest]

\* TypeOK, part by part.
EngineTyped ==
    /\ available \in BOOLEAN /\ armed \in BOOLEAN /\ stored \in BOOLEAN /\ serial \in BOOLEAN
    /\ calls \in [Calls -> [pc : {"idle", "summary", "persist"}, want : BOOLEAN]]

RecordTyped ==
    /\ rows \in [Ids -> Rows]
    /\ nextId \in 1 .. MaxEvents + 1
    /\ files \subseteq {0} \cup Ids

VisitTyped ==
    /\ latch \in Latches
    /\ watch \in [pc : {"idle", "visit", "activity", "reply"}, ev : {0} \cup Ids]
    /\ slot \in [ev : {0} \cup Ids, left : -1 .. Longest]
    /\ task \in [Ids -> Voices]
    /\ restarts \in 0 .. MaxRestarts
    /\ voided \subseteq Ids

Shape == EngineTyped /\ RecordTyped /\ VisitTyped

\* While the calls are serial there is at most one, and it has set the flag to
\* what it is about to store.
SerialCall ==
    serial =>
        /\ \A c, d \in Calls : Active(c) /\ Active(d) => c = d
        /\ \A c \in Calls : calls[c].pc = "summary" => ~calls[c].want
        /\ \A c \in Calls : calls[c].pc = "persist" => (armed <=> calls[c].want)
        /\ (\A c \in Calls : ~Active(c)) => (armed <=> stored)

\* Nothing refers to an event that has no number yet.
FreshEvents ==
    /\ \A i \in Ids : i >= nextId => rows[i] = NoRow /\ task[i].pc = "none"
    /\ slot.ev < nextId
    /\ \A i \in Ids : task[i].ev < nextId /\ (task[i].pc = "reask" => task[i].ev \in Ids)
    /\ watch.ev < nextId
    /\ watch.pc \in {"visit", "activity"} => nextId \in Ids
    /\ watch.pc = "reply" => watch.ev \in Ids

HasAnswered(e) == rows[e].reply \/ watch = [pc |-> "reply", ev |-> e]
Reasks(i, e)   == task[i].pc = "reask" /\ task[i].ev = e

\* A visitor is about to be greeted, is being listened to, is about to be asked
\* again by one task, or has answered: one of these at most.
OneQuestion ==
    \A e \in Ids :
        /\ HasAnswered(e) => slot.ev # e /\ task[e].pc # "greet" /\ \A i \in Ids : ~Reasks(i, e)
        /\ slot.ev = e => task[e].pc # "greet" /\ \A i \in Ids : ~Reasks(i, e)
        /\ task[e].pc = "greet" => \A i \in Ids : ~Reasks(i, e)
        /\ \A i, j \in Ids : Reasks(i, e) /\ Reasks(j, e) => i = j

IInv == Shape /\ SerialCall /\ EvidenceMatchesRecords /\ FreshEvents /\ OneQuestion

-----------------------------------------------------------------------------
(* set_active                                                              *)

\* Serial calls leave the flag as it is stored.
LEMMA StepSerial ==
  ASSUME IInv, Next
  PROVE  EngineTyped' /\ SerialCall'
<1>0. EngineTyped /\ SerialCall
  BY DEF IInv, Shape
<1>1. ASSUME UNCHANGED engine
      PROVE  EngineTyped' /\ SerialCall'
  BY <1>0, <1>1 DEF engine, EngineTyped, SerialCall, Active
<1>2. ASSUME NEW c \in Calls, Arm(c)
      PROVE  EngineTyped' /\ SerialCall'
  <2>1. /\ calls' = [calls EXCEPT ![c] = [pc |-> "persist", want |-> TRUE]]
        /\ armed' = TRUE /\ UNCHANGED <<available, stored>>
        /\ serial' => serial /\ Alone(c)
        /\ serial' \in BOOLEAN
    BY <1>2, <1>0 DEF Arm, EngineTyped
  <2>2. EngineTyped'
    BY <1>0, <2>1 DEF EngineTyped
  <2>3. /\ calls'[c] = [pc |-> "persist", want |-> TRUE]
        /\ \A d \in Calls : d # c => calls'[d] = calls[d]
    BY <1>0, <2>1 DEF EngineTyped
  <2>4. SerialCall'
    BY <2>1, <2>3 DEF SerialCall, Alone, Active
  <2>5. QED
    BY <2>2, <2>4
<1>3. ASSUME NEW c \in Calls, Summarize(c)
      PROVE  EngineTyped' /\ SerialCall'
  <2>1. /\ calls' = [calls EXCEPT ![c] = [pc |-> "summary", want |-> FALSE]]
        /\ UNCHANGED <<available, stored, armed>>
        /\ serial' => serial /\ Alone(c)
        /\ serial' \in BOOLEAN
    BY <1>3, <1>0 DEF Summarize, EngineTyped
  <2>2. EngineTyped'
    BY <1>0, <2>1 DEF EngineTyped
  <2>3. /\ calls'[c] = [pc |-> "summary", want |-> FALSE]
        /\ \A d \in Calls : d # c => calls'[d] = calls[d]
    BY <1>0, <2>1 DEF EngineTyped
  <2>4. SerialCall'
    BY <2>1, <2>3 DEF SerialCall, Alone, Active
  <2>5. QED
    BY <2>2, <2>4
<1>4. ASSUME NEW c \in Calls, Disarm(c)
      PROVE  EngineTyped' /\ SerialCall'
  <2>1. /\ calls' = [calls EXCEPT ![c].pc = "persist"] /\ calls[c].pc = "summary"
        /\ armed' = FALSE /\ UNCHANGED <<available, stored, serial>>
    BY <1>4 DEF Disarm
  <2>2. EngineTyped'
    BY <1>0, <2>1 DEF EngineTyped
  <2>3. /\ calls'[c].pc = "persist" /\ calls'[c].want = calls[c].want
        /\ \A d \in Calls : d # c => calls'[d] = calls[d]
    BY <1>0, <2>1 DEF EngineTyped
  <2>4. SerialCall'
    BY <1>0, <2>1, <2>3 DEF SerialCall, Active
  <2>5. QED
    BY <2>2, <2>4
<1>5. ASSUME NEW c \in Calls, Persist(c)
      PROVE  EngineTyped' /\ SerialCall'
  <2>1. /\ calls' = [calls EXCEPT ![c] = NoCall] /\ calls[c].pc = "persist"
        /\ stored' = calls[c].want /\ UNCHANGED <<available, armed, serial>>
    BY <1>5 DEF Persist
  <2>2. EngineTyped'
    BY <1>0, <2>1 DEF EngineTyped, NoCall
  <2>3. /\ calls'[c].pc = "idle"
        /\ \A d \in Calls : d # c => calls'[d] = calls[d]
    BY <1>0, <2>1 DEF EngineTyped, NoCall
  <2>4. SerialCall'
    BY <1>0, <2>1, <2>3 DEF SerialCall, Active
  <2>5. QED
    BY <2>2, <2>4
<1>6. ASSUME NEW c \in Calls, CallLost(c)
      PROVE  EngineTyped' /\ SerialCall'
  BY <1>0, <1>6 DEF CallLost, EngineTyped, SerialCall, NoCall
<1>7. ASSUME NEW ai \in BOOLEAN, Restart(ai)
      PROVE  EngineTyped' /\ SerialCall'
  <2>1. /\ calls' = [c \in Calls |-> NoCall] /\ available' = ai /\ stored' = stored
        /\ armed' = (stored /\ ai) /\ serial' = ((stored /\ ai) = stored)
    BY <1>7 DEF Restart
  <2>2. EngineTyped'
    BY <1>0, <2>1 DEF EngineTyped, NoCall
  <2>3. \A c \in Calls : calls'[c].pc = "idle"
    BY <2>1 DEF NoCall
  <2>4. serial' => (armed' <=> stored')
    BY <2>1, Zenon
  <2>5. SerialCall'
    BY <2>3, <2>4 DEF SerialCall, Active
  <2>6. QED
    BY <2>2, <2>5
<1>8. QED
  <2>1. CASE \E c \in Calls : Arm(c) \/ Summarize(c) \/ Disarm(c) \/ Persist(c) \/ CallLost(c)
    BY <2>1, <1>2, <1>3, <1>4, <1>5, <1>6
  <2>2. CASE SeePerson \/ SeeActivity \/ Hear \/ WatchStep
    BY <2>2, <1>1 DEF SeePerson, SeeActivity, Hear, WatchStep, Visitor, Activity, InsertFails, RecordReply
  <2>3. CASE \E i \in Ids : VoiceStep(i)
    BY <2>3, <1>1 DEF VoiceStep, GreetKnown, StartListening, NoListening, MarkListening, Answered, Silent,
                      AskAgain, ListenAgain, NoListenAgain, Deter, Deterred
  <2>4. CASE Clear \/ Tick
    BY <2>4, <1>1 DEF Clear, Tick
  <2>5. QED
    BY <2>1, <2>2, <2>3, <2>4, <1>7 DEF Next

-----------------------------------------------------------------------------
(* The records                                                             *)

\* A set of numbers that is not empty has a least one.
LEMMA LeastOf ==
  ASSUME NEW S, S \subseteq Nat, S # {}
  PROVE  \E m \in S : \A k \in S : m <= k
<1>1. PICK m \in S : \A k \in S : ~(<<k, m>> \in OpToRel(<, Nat))
  BY NatLessThanWellFounded, WFMin
<1>2. \A k \in S : ~(k < m)
  BY <1>1 DEF OpToRel
<1>3. QED
  BY <1>2

\* Pruning makes room: with the row just inserted there are no more than Cap.
LEMMA KeptFits ==
  ASSUME NEW i \in Ids
  PROVE  Cardinality(Kept(i) \cup {i}) <= Cap
<1> USE AwayAssumption DEF AwayAssumption
<1> DEFINE K == Kept(i)
           After(j) == {k \in Ids : k > j /\ rows[k].kind # "none"} \cup {i}
<1>1. Ids \subseteq Nat /\ IsFiniteSet(Ids)
  <2>1. 1 \in Int /\ MaxEvents \in Int
    OBVIOUS
  <2>2. IsFiniteSet(1 .. MaxEvents)
    BY <2>1, FS_Interval
  <2>3. QED
    BY <2>2 DEF Ids
<1>2. \A j \in Ids : After(j) \in SUBSET Ids
  OBVIOUS
<1>3. K \subseteq Ids /\ \A j \in K : Cardinality(After(j)) < Cap
  BY DEF Kept
<1>4. CASE K = {}
  <2>1. K \cup {i} = {i}
    BY <1>4
  <2>2. Cardinality({i}) = 1
    BY FS_Singleton
  <2>3. 1 <= Cap
    OBVIOUS
  <2>4. QED
    BY <2>1, <2>2, <2>3 DEF K
<1>5. CASE K # {}
  <2>1. PICK m \in K : \A k \in K : m <= k
    BY <1>1, <1>3, <1>5, LeastOf
  <2>2. K \cup {i} \subseteq After(m) \cup {m}
    <3>1. \A k \in K : k \in Ids /\ rows[k].kind # "none"
      BY DEF Kept
    <3>2. \A k \in K : k = m \/ k > m
      <4> HIDE DEF K, After
      <4>1. \A k \in K : k \in Nat
        BY <1>1, <1>3
      <4>2. QED
        BY <2>1, <4>1
    <3>3. QED
      BY <3>1, <3>2
  <2> HIDE DEF K, After
  <2>3. m \in Ids /\ IsFiniteSet(After(m)) /\ Cardinality(After(m)) < Cap
    BY <1>1, <1>2, <1>3, FS_Subset
  <2>4. /\ IsFiniteSet(After(m) \cup {m})
        /\ Cardinality(After(m) \cup {m}) <= Cardinality(After(m)) + 1
        /\ Cardinality(After(m)) \in Nat
    <3>1. PICK A : A = After(m) /\ IsFiniteSet(A)
      BY <2>3
    <3>2. Cardinality(A) \in Nat
      BY <3>1, FS_CardinalityType
    <3>3. IsFiniteSet(A \cup {m}) /\ Cardinality(A \cup {m}) = IF m \in A THEN Cardinality(A) ELSE Cardinality(A) + 1
      BY <3>1, FS_AddElement
    <3>4. QED
      BY <3>1, <3>2, <3>3
  <2>5. Cardinality(K \cup {i}) <= Cardinality(After(m) \cup {m})
    BY <2>2, <2>4, FS_Subset
  <2>6. IsFiniteSet(K \cup {i}) /\ Cardinality(K \cup {i}) \in Nat /\ Cardinality(After(m) \cup {m}) \in Nat
    BY <2>2, <2>4, FS_Subset, FS_CardinalityType
  <2>7. QED
    BY <2>3, <2>4, <2>5, <2>6 DEF K
<1>6. QED
  BY <1>4, <1>5

\* An insert keeps the snapshots those of the records.
LEMMA InsertEvidence ==
  ASSUME IInv, nextId \in Ids, NEW row \in Rows, row.kind # "none", Insert(row)
  PROVE  RecordTyped' /\ EvidenceMatchesRecords'
<1>0. RecordTyped /\ EvidenceMatchesRecords /\ rows[nextId] = NoRow
  BY DEF IInv, Shape, FreshEvents, RecordTyped, Ids
<1> DEFINE K == Kept(nextId)
<1>1. K \subseteq Ids /\ nextId \notin K /\ NoRow \in Rows /\ ~NoRow.snap /\ NoRow.kind = "none"
  BY <1>0 DEF Kept, NoRow, Rows, States, Open
<1>2. /\ rows'[nextId] = row
      /\ \A j \in K : rows'[j] = rows[j]
      /\ \A j \in Ids : j # nextId /\ j \notin K => rows'[j] = NoRow
  BY <1>1 DEF Insert
<1>3. \A j \in K : rows[j].kind # "none"
  BY DEF Kept
<1>4. /\ nextId' = nextId + 1
      /\ files' = (files \ {j \in Ids : rows[j].snap /\ j \notin K}) \cup (IF row.snap THEN {nextId} ELSE {})
  BY DEF Insert
<1>5. rows' \in [Ids -> Rows]
  BY <1>0, <1>1 DEF Insert, RecordTyped
<1> HIDE DEF K
<1>6. RecordTyped'
  <2>1. nextId' \in 1 .. MaxEvents + 1
    BY <1>4, AwayAssumption DEF AwayAssumption, Ids
  <2>2. files' \subseteq {0} \cup Ids
    BY <1>0, <1>4 DEF RecordTyped
  <2>3. QED
    BY <1>5, <2>1, <2>2 DEF RecordTyped
<1>7. files' \ {0} = {j \in Ids : rows'[j].snap}
  <2>1. files \ {0} = {j \in Ids : rows[j].snap} /\ 0 \notin Ids
    BY <1>0 DEF EvidenceMatchesRecords, Ids
  <2>2. \A j \in Ids : rows'[j].snap <=> (j \in K /\ rows[j].snap) \/ (j = nextId /\ row.snap)
    BY <1>1, <1>2
  <2>3. \A j \in Ids : j \in files <=> rows[j].snap
    BY <2>1
  <2>4. ~rows[nextId].snap
    BY <1>0, <1>1
  <2>5. \A j \in Ids : j \in files' <=> (j \in K /\ rows[j].snap) \/ (j = nextId /\ row.snap)
    BY <1>1, <1>4, <2>3, <2>4
  <2>6. QED
    BY <1>6, <2>1, <2>2, <2>5 DEF RecordTyped
<1>8. {j \in Ids : HasRow(j)'} = K \cup {nextId}
  BY <1>1, <1>2, <1>3 DEF HasRow
<1>9. Cardinality(K \cup {nextId}) <= Cap
  BY KeptFits DEF K
<1>10. QED
  BY <1>6, <1>7, <1>8, <1>9 DEF EvidenceMatchesRecords

\* The rows a step leaves where they are.
RowsStay ==
    /\ rows' \in [Ids -> Rows]
    /\ \A j \in Ids : /\ rows'[j].kind = rows[j].kind /\ rows'[j].snap = rows[j].snap
                      /\ rows[j] = NoRow => rows'[j] = NoRow

LEMMA SetStateStays ==
  ASSUME RecordTyped, NEW i \in Ids, NEW state \in States, SetState(i, state)
  PROVE  /\ RowsStay
         /\ \A j \in Ids : /\ rows'[j].reply = rows[j].reply
                           /\ j # i => rows'[j] = rows[j]
                           /\ rows'[j].state \in {rows[j].state, state}
<1>1. rows \in [Ids -> Rows]
  BY DEF RecordTyped
<1>2. CASE HasRow(i)
  <2>1. rows' = [rows EXCEPT ![i].state = state]
    BY <1>2 DEF SetState
  <2>2. rows'[i] = [rows[i] EXCEPT !.state = state] /\ \A j \in Ids : j # i => rows'[j] = rows[j]
    BY <1>1, <2>1
  <2>3. rows[i] # NoRow
    BY <1>2 DEF HasRow, NoRow
  <2>4. rows' \in [Ids -> Rows]
    BY <1>1, <2>1 DEF Rows
  <2>5. /\ rows'[i].kind = rows[i].kind /\ rows'[i].snap = rows[i].snap
        /\ rows'[i].reply = rows[i].reply /\ rows'[i].state = state
    BY <1>1, <2>2 DEF Rows
  <2>6. QED
    BY <2>2, <2>3, <2>4, <2>5 DEF RowsStay
<1>3. CASE ~HasRow(i)
  <2>1. rows' = rows
    BY <1>3 DEF SetState
  <2>2. QED
    BY <1>1, <2>1 DEF RowsStay
<1>4. QED
  BY <1>2, <1>3

\* update_away_reply changes state and reply of one row.
LEMMA ReplyStays ==
  ASSUME RecordTyped, watch.ev \in Ids, RecordReply
  PROVE  /\ RowsStay
         /\ \A j \in Ids : /\ j # watch.ev => rows'[j] = rows[j]
                           /\ rows'[j].state \in {rows[j].state, "answered"}
<1>1. rows \in [Ids -> Rows]
  BY DEF RecordTyped
<1>2. PICK i \in Ids : i = watch.ev
  OBVIOUS
<1>3. CASE HasRow(i)
  <2>1. rows' = [rows EXCEPT ![i].state = "answered", ![i].reply = TRUE]
    BY <1>2, <1>3 DEF RecordReply
  <2>2. rows'[i] = [rows[i] EXCEPT !.state = "answered", !.reply = TRUE] /\ \A j \in Ids : j # i => rows'[j] = rows[j]
    BY <1>1, <2>1
  <2>3. rows[i] # NoRow
    BY <1>3 DEF HasRow, NoRow
  <2>4. rows' \in [Ids -> Rows]
    BY <1>1, <2>1 DEF Rows, States, Open
  <2>5. rows'[i].kind = rows[i].kind /\ rows'[i].snap = rows[i].snap /\ rows'[i].state = "answered"
    BY <1>1, <2>2 DEF Rows
  <2>6. QED
    BY <1>2, <2>2, <2>3, <2>4, <2>5 DEF RowsStay
<1>4. CASE ~HasRow(i)
  <2>1. rows' = rows
    BY <1>2, <1>4 DEF RecordReply
  <2>2. QED
    BY <1>1, <2>1 DEF RowsStay
<1>5. QED
  BY <1>3, <1>4

\* What a step does to the records.
LEMMA RecordSteps ==
  ASSUME IInv, Next
  PROVE  \/ UNCHANGED record
         \/ RowsStay /\ UNCHANGED <<nextId, files>>
         \/ UNCHANGED <<rows, nextId>> /\ files' \in {files, files \cup {0}}
         \/ nextId \in Ids /\ \E row \in Rows : row.kind # "none" /\ Insert(row)
         \/ Clear
<1>0. RecordTyped /\ VisitTyped /\ FreshEvents
  BY DEF IInv, Shape
<1>1. CASE \/ \E c \in Calls : Arm(c) \/ Summarize(c) \/ Disarm(c) \/ Persist(c) \/ CallLost(c)
           \/ SeePerson \/ SeeActivity \/ Hear \/ Tick \/ \E ai \in BOOLEAN : Restart(ai)
  BY <1>1 DEF Arm, Summarize, Disarm, Persist, CallLost, SeePerson, SeeActivity, Hear, Tick, Restart
<1>2. ASSUME NEW state \in {"no_voice", "known", "greeting"}, NEW snap \in BOOLEAN, Visitor(state, snap)
      PROVE  nextId \in Ids /\ \E row \in Rows : row.kind # "none" /\ Insert(row)
  <2>1. [kind |-> "person", state |-> state, reply |-> FALSE, snap |-> snap] \in Rows
    BY DEF Rows, States, Open
  <2>2. QED
    BY <1>0, <1>2, <2>1 DEF Visitor, FreshEvents
<1>3. ASSUME NEW snap \in BOOLEAN, Activity(snap)
      PROVE  nextId \in Ids /\ \E row \in Rows : row.kind # "none" /\ Insert(row)
  <2>1. [kind |-> "activity", state |-> "recorded", reply |-> FALSE, snap |-> snap] \in Rows
    BY DEF Rows, States, Open
  <2>2. QED
    BY <1>0, <1>3, <2>1 DEF Activity, FreshEvents
<1>4. ASSUME NEW snap \in BOOLEAN, InsertFails(snap)
      PROVE  UNCHANGED <<rows, nextId>> /\ files' \in {files, files \cup {0}}
  BY <1>4 DEF InsertFails
<1>5. ASSUME RecordReply
      PROVE  RowsStay /\ UNCHANGED <<nextId, files>>
  BY <1>0, <1>5, ReplyStays DEF RecordReply, FreshEvents
<1>6. ASSUME NEW i \in Ids, VoiceStep(i)
      PROVE  UNCHANGED record \/ (RowsStay /\ UNCHANGED <<nextId, files>>)
  <2>1. CASE GreetKnown(i) \/ StartListening(i) \/ Answered(i) \/ ListenAgain(i) \/ Deterred(i)
    BY <2>1 DEF GreetKnown, StartListening, Answered, ListenAgain, Deterred
  <2>2. "no_voice" \in States /\ "listening" \in States /\ "silent" \in States /\ "reask" \in States
    BY DEF States, Open
  <2>3. CASE NoListening(i) \/ MarkListening(i)
    <3>1. UNCHANGED <<nextId, files>> /\ (SetState(i, "no_voice") \/ SetState(i, "listening"))
      BY <2>3 DEF NoListening, MarkListening
    <3>2. QED
      BY <1>0, <2>2, <3>1, SetStateStays
  <2>4. CASE Silent(i) \/ AskAgain(i) \/ Deter(i)
    <3>1. PICK e \in Ids : e = Expired(i)
      BY <1>0, <2>4 DEF Silent, AskAgain, Deter, Expired, VisitTyped
    <3>2. UNCHANGED <<nextId, files>> /\ (SetState(e, "silent") \/ SetState(e, "reask"))
      BY <2>4, <3>1 DEF Silent, AskAgain, Deter
    <3>3. QED
      BY <1>0, <2>2, <3>2, SetStateStays
  <2>5. CASE NoListenAgain(i)
    <3>1. PICK e \in Ids : e = task[i].ev
      BY <1>0, <2>5 DEF NoListenAgain, FreshEvents
    <3>2. UNCHANGED <<nextId, files>> /\ SetState(e, "silent")
      BY <2>5, <3>1 DEF NoListenAgain
    <3>3. QED
      BY <1>0, <2>2, <3>2, SetStateStays
  <2>6. QED
    BY <1>6, <2>1, <2>3, <2>4, <2>5 DEF VoiceStep
<1>7. QED
  BY <1>1, <1>2, <1>3, <1>4, <1>5, <1>6 DEF Next, WatchStep

\* The snapshots stay those of the records, and the records within the cap.
LEMMA StepRecord ==
  ASSUME IInv, Next
  PROVE  RecordTyped' /\ EvidenceMatchesRecords'
<1>0. RecordTyped /\ EvidenceMatchesRecords
  BY DEF IInv, Shape
<1>a. NoRow \in Rows /\ ~NoRow.snap /\ NoRow.kind = "none"
  BY DEF NoRow, Rows, States, Open
<1>1. CASE UNCHANGED record
  BY <1>0, <1>1 DEF record, RecordTyped, EvidenceMatchesRecords, HasRow
<1>2. CASE RowsStay /\ UNCHANGED <<nextId, files>>
  <2>1. RecordTyped'
    BY <1>0, <1>2 DEF RecordTyped, RowsStay
  <2>2. {i \in Ids : HasRow(i)'} = {i \in Ids : HasRow(i)} /\ {i \in Ids : rows'[i].snap} = {i \in Ids : rows[i].snap}
    <3>1. \A i \in Ids : (HasRow(i)' <=> HasRow(i)) /\ (rows'[i].snap <=> rows[i].snap)
      BY <1>2 DEF RowsStay, HasRow
    <3>2. QED
      BY <3>1
  <2>3. QED
    BY <1>0, <1>2, <2>1, <2>2 DEF EvidenceMatchesRecords
<1>3. CASE UNCHANGED <<rows, nextId>> /\ files' \in {files, files \cup {0}}
  <2>1. files' \ {0} = files \ {0}
    BY <1>3
  <2>2. QED
    BY <1>0, <1>3, <2>1 DEF RecordTyped, EvidenceMatchesRecords, HasRow
<1>4. CASE nextId \in Ids /\ \E row \in Rows : row.kind # "none" /\ Insert(row)
  BY <1>4, InsertEvidence
<1>5. CASE Clear
  <2>1. /\ rows' = [i \in Ids |-> NoRow] /\ nextId' = nextId
        /\ files' = {i \in files : i = 0 \/ ~rows[i].snap}
    BY <1>5 DEF Clear
  <2>2. RecordTyped'
    BY <1>0, <1>a, <2>1 DEF RecordTyped
  <2>3. \A i \in Ids : ~rows'[i].snap /\ ~HasRow(i)'
    BY <1>a, <2>1 DEF HasRow
  <2>4. {i \in Ids : HasRow(i)'} = {} /\ {i \in Ids : rows'[i].snap} = {}
    BY <2>3
  <2>5. files' \ {0} = {}
    <3>1. files \ {0} = {i \in Ids : rows[i].snap}
      BY <1>0 DEF EvidenceMatchesRecords
    <3>2. \A i \in files : i # 0 => rows[i].snap
      BY <3>1
    <3>3. QED
      BY <2>1, <3>2
  <2>6. Cardinality({}) <= Cap
    BY FS_EmptySet, AwayAssumption DEF AwayAssumption
  <2>7. QED
    BY <2>2, <2>4, <2>5, <2>6 DEF EvidenceMatchesRecords
<1>6. QED
  BY <1>1, <1>2, <1>3, <1>4, <1>5, RecordSteps

-----------------------------------------------------------------------------
(* The visit                                                               *)

\* The longest time a window or a timer is set to.
LEMMA Times ==
  /\ 0 \in 0 .. Longest /\ 0 \in -1 .. Longest
  /\ Listen + Grace \in -1 .. Longest /\ Reask + Grace \in -1 .. Longest
  /\ Listen + Grace + Late \in 0 .. Longest /\ Reask + Grace + Late \in 0 .. Longest
  BY AwayAssumption DEF AwayAssumption, Longest

\* The types of the visit's state survive every step.
LEMMA StepVisit ==
  ASSUME IInv, Next
  PROVE  VisitTyped'
<1>0. VisitTyped /\ RecordTyped /\ FreshEvents
  BY DEF IInv, Shape
<1>a. /\ Idle \in [pc : {"idle", "visit", "activity", "reply"}, ev : {0} \cup Ids]
      /\ NoSlot \in [ev : {0} \cup Ids, left : -1 .. Longest]
      /\ NoTask \in Voices
  BY Times DEF Idle, NoSlot, NoTask, Voices, TaskPcs
<1>b. Never \in Latches
  BY AwayAssumption DEF AwayAssumption, Never, Latches
<1>c. ASSUME NEW i \in Ids, NEW pc \in TaskPcs, NEW ev \in {0} \cup Ids, NEW left \in 0 .. Longest,
             Step(i, pc, ev, left)
      PROVE  task' \in [Ids -> Voices]
  <2>1. [pc |-> pc, ev |-> ev, left |-> left] \in Voices
    BY DEF Voices
  <2>2. QED
    BY <1>0, <1>c, <2>1 DEF Step, VisitTyped
<1>d. ASSUME NEW ev \in {0} \cup Ids, NEW window \in {Listen, Reask}, OpenListen(ev, window)
      PROVE  slot' \in [ev : {0} \cup Ids, left : -1 .. Longest]
  BY <1>d, Times DEF OpenListen
<1>1. CASE \/ \E c \in Calls : Arm(c) \/ Summarize(c) \/ Persist(c) \/ CallLost(c)
           \/ Clear
  <2>1. UNCHANGED <<latch, watch, slot, task, restarts, voided>>
    BY <1>1 DEF Arm, Summarize, Persist, CallLost, Clear
  <2>2. QED
    BY <1>0, <2>1 DEF VisitTyped
<1>2. ASSUME NEW c \in Calls, Disarm(c)
      PROVE  VisitTyped'
  BY <1>0, <1>a, <1>2 DEF Disarm, VisitTyped
<1>3. CASE SeePerson \/ SeeActivity
  <2>1. UNCHANGED <<slot, task, restarts, voided>>
    BY <1>3 DEF SeePerson, SeeActivity
  <2>2. watch' \in [pc : {"idle", "visit", "activity", "reply"}, ev : {0} \cup Ids]
    BY <1>0, <1>3 DEF SeePerson, SeeActivity, VisitTyped
  <2>3. latch' \in Latches
    <3>1. 0 \in 0 .. Gap + 1 /\ 0 \in 0 .. Cooldown + 1 /\ 0 \in 0 .. Interval
      BY AwayAssumption DEF AwayAssumption
    <3>2. /\ [latch EXCEPT !.seen = 0, !.greeted = 0, !.analysis = 0] \in Latches
          /\ [latch EXCEPT !.seen = 0] \in Latches
          /\ [latch EXCEPT !.activity = 0, !.analysis = 0] \in Latches
      BY <1>0, <3>1 DEF VisitTyped, Latches
    <3>3. QED
      BY <1>3, <3>2 DEF SeePerson, SeeActivity
  <2>4. QED
    BY <1>0, <2>1, <2>2, <2>3 DEF VisitTyped
<1>4. ASSUME NEW state \in {"no_voice", "known", "greeting"}, NEW snap \in BOOLEAN, Visitor(state, snap)
      PROVE  VisitTyped'
  <2>1. UNCHANGED <<latch, slot, restarts, voided>> /\ watch' = Idle
    BY <1>4 DEF Visitor
  <2>2. nextId \in Ids
    BY <1>0, <1>4 DEF Visitor, FreshEvents
  <2>3. PICK v : /\ task' = [task EXCEPT ![nextId] = v]
                 /\ v = IF state = "no_voice" THEN NoTask
                        ELSE [pc |-> IF state = "known" THEN "known" ELSE "greet", ev |-> nextId, left |-> 0]
    BY <1>4 DEF Visitor
  <2>4. v \in Voices
    BY <1>a, <2>2, <2>3, Times DEF Voices, TaskPcs
  <2>5. task' \in [Ids -> Voices]
    BY <1>0, <2>3, <2>4 DEF VisitTyped
  <2>6. QED
    BY <1>0, <1>a, <2>1, <2>5 DEF VisitTyped
<1>5. CASE \/ \E snap \in BOOLEAN : Activity(snap) \/ InsertFails(snap)
           \/ RecordReply
  <2>1. UNCHANGED <<latch, slot, task, restarts, voided>> /\ watch' = Idle
    BY <1>5 DEF Activity, InsertFails, RecordReply
  <2>2. QED
    BY <1>0, <1>a, <2>1 DEF VisitTyped
<1>6. CASE Hear
  <2>1. slot.ev \in Ids
    BY <1>0, <1>6 DEF Hear, VisitTyped
  <2>2. watch' \in [pc : {"idle", "visit", "activity", "reply"}, ev : {0} \cup Ids] /\ voided' \subseteq Ids
    BY <1>0, <1>a, <1>6, <2>1 DEF Hear, VisitTyped
  <2>3. QED
    BY <1>0, <1>a, <1>6, <2>2 DEF Hear, VisitTyped
<1>7. CASE Tick
  <2>1. latch' \in Latches
    BY <1>0, <1>7, AwayAssumption DEF Tick, VisitTyped, Latches, AwayAssumption, Never
  <2>2. slot' \in [ev : {0} \cup Ids, left : -1 .. Longest]
    BY <1>0, <1>7, AwayAssumption DEF Tick, VisitTyped, AwayAssumption, Longest
  <2>3. task' \in [Ids -> Voices]
    BY <1>0, <1>7, AwayAssumption DEF Tick, VisitTyped, Voices, AwayAssumption, Longest
  <2>4. QED
    BY <1>0, <1>7, <2>1, <2>2, <2>3 DEF Tick, VisitTyped
<1>8. ASSUME NEW ai \in BOOLEAN, Restart(ai)
      PROVE  VisitTyped'
  BY <1>0, <1>a, <1>b, <1>8, AwayAssumption DEF Restart, VisitTyped, AwayAssumption
<1>9. ASSUME NEW i \in Ids, VoiceStep(i)
      PROVE  VisitTyped'
  <2>1. UNCHANGED <<latch, watch, restarts>> /\ voided' \subseteq Ids
    BY <1>0, <1>9 DEF VisitTyped, VoiceStep, GreetKnown, StartListening, NoListening, MarkListening, Answered,
                      Silent, AskAgain, ListenAgain, NoListenAgain, Deter, Deterred
  <2>2. task[i].ev \in {0} \cup Ids /\ Expired(i) \in {0} \cup Ids
    BY <1>0 DEF VisitTyped, Voices, Expired
  <2>3. slot' \in [ev : {0} \cup Ids, left : -1 .. Longest]
    <3>1. CASE StartListening(i) \/ ListenAgain(i)
      BY <1>d, <2>2, <3>1 DEF StartListening, ListenAgain
    <3>2. CASE ~StartListening(i) /\ ~ListenAgain(i)
      <4>1. slot' = slot \/ slot' = NoSlot
        BY <1>9, <3>2 DEF VoiceStep, GreetKnown, NoListening, MarkListening, Answered,
                          Silent, AskAgain, NoListenAgain, Deter, Deterred
      <4>2. QED
        BY <1>0, <1>a, <4>1 DEF VisitTyped
    <3>3. QED
      BY <3>1, <3>2
  <2>4. task' \in [Ids -> Voices]
    <3>1. CASE GreetKnown(i) \/ NoListening(i) \/ Answered(i) \/ Silent(i) \/ NoListenAgain(i) \/ Deterred(i)
      BY <1>c, <3>1, Times DEF GreetKnown, NoListening, Answered, Silent, NoListenAgain, Deterred, TaskPcs
    <3>2. CASE StartListening(i) \/ MarkListening(i)
      BY <1>c, <3>2, Times DEF StartListening, MarkListening, TaskPcs
    <3>3. CASE AskAgain(i) \/ Deter(i)
      BY <1>c, <2>2, <3>3, Times DEF AskAgain, Deter, TaskPcs
    <3>4. CASE ListenAgain(i)
      BY <1>c, <2>2, <3>4, Times DEF ListenAgain, TaskPcs
    <3>5. QED
      BY <1>9, <3>1, <3>2, <3>3, <3>4 DEF VoiceStep
  <2>5. QED
    BY <1>0, <2>1, <2>3, <2>4 DEF VisitTyped
<1>10. QED
  BY <1>1, <1>2, <1>3, <1>4, <1>5, <1>6, <1>7, <1>8, <1>9 DEF Next, WatchStep

-----------------------------------------------------------------------------
(* Numbers                                                                 *)

\* An event without a number has no row.
LEMMA FreshRows ==
  ASSUME IInv, Next
  PROVE  /\ nextId' \in {nextId, nextId + 1}
         /\ \A j \in Ids : j >= nextId' => rows'[j] = NoRow
<1>0. RecordTyped /\ nextId \in Nat /\ \A j \in Ids : j \in Nat /\ (j >= nextId => rows[j] = NoRow)
  BY DEF IInv, Shape, RecordTyped, FreshEvents, Ids
<1>1. CASE UNCHANGED record \/ UNCHANGED <<rows, nextId>>
  BY <1>0, <1>1 DEF record
<1>2. CASE RowsStay /\ UNCHANGED <<nextId, files>>
  BY <1>0, <1>2 DEF RowsStay
<1>3. ASSUME NEW row \in Rows, Insert(row)
      PROVE  nextId' = nextId + 1 /\ \A j \in Ids : j >= nextId' => rows'[j] = NoRow
  <2>1. NoRow.kind = "none"
    BY DEF NoRow
  <2>2. \A j \in Ids : j >= nextId => j \notin Kept(nextId)
    BY <1>0, <2>1 DEF Kept
  <2>3. nextId' = nextId + 1 /\ \A j \in Ids : j # nextId /\ j \notin Kept(nextId) => rows'[j] = NoRow
    BY <1>3 DEF Insert
  <2>4. QED
    BY <1>0, <2>2, <2>3
<1>4. CASE Clear
  BY <1>0, <1>4 DEF Clear
<1>5. QED
  BY <1>1, <1>2, <1>3, <1>4, RecordSteps

\* What a step of a voice task does to the task.
LEMMA VoiceSteps ==
  ASSUME IInv, NEW i \in Ids, VoiceStep(i)
  PROVE  /\ i < nextId
         /\ \E pc \in TaskPcs \ {"none", "greet"}, ev \in {0} \cup Ids, left \in Int :
              /\ Step(i, pc, ev, left)
              /\ ev < nextId
              /\ pc = "reask" => ev \in Ids /\ slot.ev = ev /\ slot'.ev = 0
<1>0. VisitTyped /\ FreshEvents /\ nextId \in Nat /\ nextId > 0 /\ i \in Nat
  BY DEF IInv, Shape, RecordTyped, Ids
<1>1. i < nextId
  <2>1. task[i].pc # "none"
    BY DEF VoiceStep, GreetKnown, StartListening, NoListening, MarkListening, Answered, Silent, AskAgain,
           ListenAgain, NoListenAgain, Deter, Deterred, Due
  <2>2. QED
    BY <1>0, <2>1 DEF FreshEvents
<1>2. /\ 0 \in Int /\ Listen + Grace + Late \in Int /\ Reask + Grace + Late \in Int
      /\ 0 < nextId /\ task[i].ev < nextId /\ slot.ev < nextId
      /\ task[i].ev \in {0} \cup Ids /\ slot.ev \in {0} \cup Ids
  BY <1>0, AwayAssumption DEF AwayAssumption, FreshEvents, VisitTyped, Voices
<1>3. CASE GreetKnown(i) \/ NoListening(i) \/ Answered(i) \/ Silent(i) \/ NoListenAgain(i) \/ Deterred(i)
  <2>1. Step(i, "end", 0, 0)
    BY <1>3 DEF GreetKnown, NoListening, Answered, Silent, NoListenAgain, Deterred
  <2>2. QED
    BY <1>1, <1>2, <2>1 DEF TaskPcs
<1>4. CASE StartListening(i)
  BY <1>1, <1>2, <1>4 DEF StartListening, TaskPcs
<1>5. CASE MarkListening(i)
  <2>1. Step(i, "wait", i, Listen + Grace + Late) /\ "wait" \in TaskPcs \ {"none", "greet"}
    BY <1>5 DEF MarkListening, TaskPcs
  <2>2. QED
    BY <1>1, <1>2, <2>1
<1>6. CASE ListenAgain(i)
  <2>1. Step(i, "wait2", task[i].ev, Reask + Grace + Late) /\ "wait2" \in TaskPcs \ {"none", "greet"}
    BY <1>6 DEF ListenAgain, TaskPcs
  <2>2. QED
    BY <1>1, <1>2, <2>1
<1>7. CASE AskAgain(i) \/ Deter(i)
  <2>1. Expired(i) = slot.ev /\ slot.ev \in Ids /\ slot'.ev = 0
    BY <1>2, <1>7 DEF AskAgain, Deter, Expired, NoSlot
  <2>2. Step(i, "reask", slot.ev, 0) \/ Step(i, "deter", slot.ev, 0)
    BY <1>7, <2>1 DEF AskAgain, Deter
  <2>3. QED
    BY <1>1, <1>2, <2>1, <2>2 DEF TaskPcs
<1>8. QED
  BY <1>3, <1>4, <1>5, <1>6, <1>7 DEF VoiceStep

\* Nothing refers to an event before it has a number.
LEMMA StepFresh ==
  ASSUME IInv, Next
  PROVE  FreshEvents'
<1>0. VisitTyped /\ RecordTyped /\ FreshEvents /\ nextId \in Nat /\ nextId > 0 /\ \A j \in Ids : j \in Nat
  BY DEF IInv, Shape, RecordTyped, Ids
<1>1. nextId' \in {nextId, nextId + 1} /\ \A j \in Ids : j >= nextId' => rows'[j] = NoRow
  BY FreshRows
<1>2. /\ slot.ev \in Nat /\ slot.ev < nextId /\ watch.ev \in Nat /\ watch.ev < nextId
      /\ \A j \in Ids : task[j].ev \in Nat /\ task[j].ev < nextId
  BY <1>0 DEF VisitTyped, Voices, FreshEvents
<1>3. CASE \/ \E c \in Calls : Arm(c) \/ Summarize(c) \/ Persist(c) \/ CallLost(c) \/ Disarm(c)
           \/ Clear
  <2>1. UNCHANGED <<watch, task, nextId>> /\ slot'.ev \in {0, slot.ev}
    BY <1>3 DEF Arm, Summarize, Persist, CallLost, Disarm, Clear, NoSlot, record
  <2>2. QED
    BY <1>0, <1>1, <1>2, <2>1 DEF FreshEvents
<1>4. CASE SeePerson \/ SeeActivity
  <2>1. /\ UNCHANGED <<slot, task, nextId>>
        /\ watch' = watch \/ (nextId \in Ids /\ watch'.ev = 0 /\ watch'.pc # "reply")
    BY <1>0, <1>4 DEF SeePerson, SeeActivity, record, Ids
  <2>2. QED
    BY <1>0, <1>1, <1>2, <2>1 DEF FreshEvents
<1>5. ASSUME NEW state \in {"no_voice", "known", "greeting"}, NEW snap \in BOOLEAN, Visitor(state, snap)
      PROVE  FreshEvents'
  <2>1. nextId \in Ids /\ nextId' = nextId + 1 /\ slot' = slot /\ watch' = Idle
    BY <1>0, <1>5 DEF Visitor, FreshEvents, Insert
  <2>2. /\ \A j \in Ids : j # nextId => task'[j] = task[j]
        /\ task'[nextId].ev \in {0, nextId} /\ task'[nextId].pc # "reask"
    BY <1>0, <1>5, <2>1 DEF Visitor, VisitTyped, NoTask
  <2>3. \A j \in Ids : task'[j].ev < nextId' /\ (j >= nextId' => task'[j].pc = "none")
                       /\ (task'[j].pc = "reask" => task'[j].ev \in Ids)
    <3>1. \A j \in Ids : j # nextId => /\ task[j].ev < nextId' /\ (j >= nextId' => j >= nextId)
                                       /\ task[j].pc = "reask" => task[j].ev \in Ids
                                       /\ j >= nextId => task[j].pc = "none"
      <4>1. \A j \in Ids : task[j].ev < nextId' /\ (j >= nextId' => j >= nextId)
        BY <1>0, <1>2, <2>1
      <4>2. \A j \in Ids : /\ task[j].pc = "reask" => task[j].ev \in Ids
                           /\ j >= nextId => task[j].pc = "none"
        BY <1>0 DEF FreshEvents
      <4>3. QED
        BY <4>1, <4>2
    <3>2. 0 < nextId' /\ nextId < nextId' /\ ~(nextId >= nextId')
      BY <1>0, <2>1
    <3>3. task'[nextId].ev < nextId'
      BY <2>2, <3>2
    <3>4. \A j \in Ids : j # nextId => /\ task'[j].ev < nextId' /\ (j >= nextId' => task'[j].pc = "none")
                                       /\ task'[j].pc = "reask" => task'[j].ev \in Ids
      BY <2>2, <3>1
    <3>5. QED
      BY <2>2, <3>2, <3>3, <3>4
  <2>4. Idle.ev = 0 /\ Idle.pc = "idle"
    BY DEF Idle
  <2>5. QED
    BY <1>0, <1>1, <1>2, <2>1, <2>3, <2>4 DEF FreshEvents
<1>6. CASE \/ \E snap \in BOOLEAN : Activity(snap) \/ InsertFails(snap)
           \/ RecordReply
  <2>1. UNCHANGED <<slot, task>> /\ watch' = Idle
    BY <1>6 DEF Activity, InsertFails, RecordReply
  <2>2. Idle.ev = 0 /\ Idle.pc = "idle"
    BY DEF Idle
  <2>3. \A j \in Ids : task[j].ev < nextId' /\ (j >= nextId' => j >= nextId)
    BY <1>0, <1>1, <1>2
  <2>4. slot.ev < nextId' /\ 0 < nextId'
    BY <1>0, <1>1, <1>2
  <2>5. QED
    BY <1>0, <1>1, <2>1, <2>2, <2>3, <2>4 DEF FreshEvents
<1>7. CASE Hear
  <2>1. UNCHANGED <<task, nextId>> /\ slot' = NoSlot /\ watch' \in {[pc |-> "reply", ev |-> slot.ev], Idle}
    BY <1>7 DEF Hear, record
  <2>2. slot.ev \in Ids
    BY <1>0, <1>7 DEF Hear, VisitTyped
  <2>3. QED
    BY <1>0, <1>1, <1>2, <2>1, <2>2 DEF FreshEvents, Idle, NoSlot
<1>8. CASE Tick
  <2>1. /\ UNCHANGED <<watch, nextId>> /\ slot'.ev = slot.ev
        /\ \A j \in Ids : task'[j].pc = task[j].pc /\ task'[j].ev = task[j].ev
    BY <1>0, <1>8 DEF Tick, record, VisitTyped, Voices
  <2>2. QED
    BY <1>0, <1>1, <2>1 DEF FreshEvents
<1>9. ASSUME NEW ai \in BOOLEAN, Restart(ai)
      PROVE  FreshEvents'
  <2>1. UNCHANGED nextId /\ watch' = Idle /\ slot' = NoSlot /\ \A j \in Ids : task'[j] = NoTask
    BY <1>9 DEF Restart, record
  <2>2. QED
    BY <1>0, <1>1, <2>1 DEF FreshEvents, Idle, NoSlot, NoTask
<1>10. ASSUME NEW i \in Ids, VoiceStep(i)
       PROVE  FreshEvents'
  <2>1. PICK pc \in TaskPcs, ev \in {0} \cup Ids, left \in Int :
            Step(i, pc, ev, left) /\ ev < nextId /\ (pc = "reask" => ev \in Ids)
    BY <1>10, VoiceSteps
  <2>2. i < nextId
    BY <1>10, VoiceSteps
  <2>3. task'[i] = [pc |-> pc, ev |-> ev, left |-> left] /\ \A j \in Ids : j # i => task'[j] = task[j]
    BY <1>0, <2>1 DEF Step, VisitTyped
  <2>4. UNCHANGED <<watch, nextId>>
    BY <1>10 DEF VoiceStep, GreetKnown, StartListening, NoListening, MarkListening, Answered, Silent, AskAgain,
                 ListenAgain, NoListenAgain, Deter, Deterred, record
  <2>5. slot'.ev \in {slot.ev, 0, i, task[i].ev}
    BY <1>10 DEF VoiceStep, GreetKnown, StartListening, NoListening, MarkListening, Answered, Silent, AskAgain,
                 ListenAgain, NoListenAgain, Deter, Deterred, OpenListen, NoSlot
  <2>6. slot'.ev < nextId
    BY <1>0, <1>2, <2>2, <2>5
  <2>7. \A j \in Ids : task'[j].ev < nextId /\ (j >= nextId => task'[j].pc = "none")
                       /\ (task'[j].pc = "reask" => task'[j].ev \in Ids)
    BY <1>0, <2>1, <2>2, <2>3 DEF FreshEvents
  <2>8. QED
    BY <1>0, <1>1, <2>4, <2>6, <2>7 DEF FreshEvents
<1>11. QED
  BY <1>3, <1>4, <1>5, <1>6, <1>7, <1>8, <1>9, <1>10 DEF Next, WatchStep
-----------------------------------------------------------------------------
(* Questions and answers                                                   *)

\* Who asks or has an answer: no more than before.
Fewer(e) ==
    /\ HasAnswered(e)' => HasAnswered(e)
    /\ slot'.ev = e => slot.ev = e
    /\ task'[e].pc = "greet" => task[e].pc = "greet"
    /\ \A i \in Ids : Reasks(i, e)' => Reasks(i, e)

\* OneQuestion, for one visitor.
One(e) ==
    /\ HasAnswered(e) => slot.ev # e /\ task[e].pc # "greet" /\ \A i \in Ids : ~Reasks(i, e)
    /\ slot.ev = e => task[e].pc # "greet" /\ \A i \in Ids : ~Reasks(i, e)
    /\ task[e].pc = "greet" => \A i \in Ids : ~Reasks(i, e)
    /\ \A i, j \in Ids : Reasks(i, e) /\ Reasks(j, e) => i = j

LEMMA FewerAsk ==
  ASSUME NEW e \in Ids, One(e), Fewer(e)
  PROVE  One(e)'
<1>1. /\ HasAnswered(e)' => slot'.ev # e /\ task'[e].pc # "greet" /\ \A i \in Ids : ~(Reasks(i, e)')
      /\ slot'.ev = e => task'[e].pc # "greet" /\ \A i \in Ids : ~(Reasks(i, e)')
      /\ task'[e].pc = "greet" => \A i \in Ids : ~(Reasks(i, e)')
  BY DEF One, Fewer
<1>2. \A i, j \in Ids : Reasks(i, e)' /\ Reasks(j, e)' => i = j
  BY DEF One, Fewer
<1>3. QED
  BY <1>1, <1>2 DEF One

\* Answers come from answers: the reply column is written for the event whose
\* answer was taken.
LEMMA StepAnswered ==
  ASSUME IInv, Next, NEW e \in Ids, HasAnswered(e)', ~HasAnswered(e)
  PROVE  Hear /\ slot.ev = e
<1>0. RecordTyped /\ VisitTyped /\ FreshEvents /\ ~NoRow.reply
  BY DEF IInv, Shape, NoRow
<1>1. CASE UNCHANGED <<rows, watch>>
  BY <1>1 DEF HasAnswered
<1>2. ASSUME rows'[e].reply => rows[e].reply, watch'.pc # "reply"
      PROVE  FALSE
  BY <1>2 DEF HasAnswered
<1>3. ASSUME NEW row, Insert(row), ~row.reply
      PROVE  rows'[e].reply => rows[e].reply
  BY <1>0, <1>3 DEF Insert
<1>a. Idle.pc # "reply"
  BY DEF Idle
<1>4. CASE \/ \E c \in Calls : Arm(c) \/ Summarize(c) \/ Persist(c) \/ CallLost(c) \/ Disarm(c)
           \/ Tick
  BY <1>1, <1>4 DEF Arm, Summarize, Persist, CallLost, Disarm, Tick, record
<1>5. CASE SeePerson \/ SeeActivity
  <2>1. rows' = rows /\ (watch' = watch \/ watch'.pc # "reply")
    BY <1>5 DEF SeePerson, SeeActivity, record
  <2>2. QED
    BY <1>1, <1>2, <2>1
<1>6. ASSUME NEW state \in {"no_voice", "known", "greeting"}, NEW snap \in BOOLEAN, Visitor(state, snap)
      PROVE  FALSE
  <2>1. PICK row : Insert(row) /\ ~row.reply
    BY <1>6 DEF Visitor
  <2>2. QED
    BY <1>2, <1>3, <1>6, <1>a, <2>1 DEF Visitor
<1>7. ASSUME NEW snap \in BOOLEAN, Activity(snap)
      PROVE  FALSE
  <2>1. PICK row : Insert(row) /\ ~row.reply
    BY <1>7 DEF Activity
  <2>2. QED
    BY <1>2, <1>3, <1>7, <1>a, <2>1 DEF Activity
<1>8. CASE \E snap \in BOOLEAN : InsertFails(snap)
  BY <1>2, <1>8, <1>a DEF InsertFails
<1>9. CASE RecordReply
  <2>1. watch.pc = "reply" /\ watch.ev \in Ids /\ watch' = Idle
    BY <1>0, <1>9 DEF RecordReply, FreshEvents
  <2>2. watch = [pc |-> "reply", ev |-> watch.ev]
    BY <1>0, <2>1 DEF VisitTyped
  <2>3. watch.ev # e
    BY <2>2 DEF HasAnswered
  <2>4. rows'[e] = rows[e]
    BY <1>0, <1>9, <2>1, <2>3, ReplyStays
  <2>5. QED
    BY <1>2, <1>a, <2>1, <2>4
<1>10. CASE Hear
  <2>1. rows' = rows /\ watch' \in {[pc |-> "reply", ev |-> slot.ev], Idle}
    BY <1>10 DEF Hear, record
  <2>2. watch' = [pc |-> "reply", ev |-> e]
    BY <2>1 DEF HasAnswered
  <2>3. slot.ev = e
    BY <2>1, <2>2, <1>a
  <2>4. QED
    BY <1>10, <2>3
<1>11. CASE Clear
  BY <1>0, <1>11 DEF Clear, HasAnswered
<1>12. ASSUME NEW ai \in BOOLEAN, Restart(ai)
       PROVE  FALSE
  BY <1>2, <1>12, <1>a DEF Restart, record
<1>13. ASSUME NEW i \in Ids, VoiceStep(i)
       PROVE  FALSE
  <2>1. watch' = watch
    BY <1>13 DEF VoiceStep, GreetKnown, StartListening, NoListening, MarkListening, Answered, Silent, AskAgain,
                 ListenAgain, NoListenAgain, Deter, Deterred
  <2>2. \/ rows' = rows
        \/ \E x \in Ids, state \in States : SetState(x, state)
    <3>1. CASE GreetKnown(i) \/ StartListening(i) \/ Answered(i) \/ ListenAgain(i) \/ Deterred(i)
      BY <3>1 DEF GreetKnown, StartListening, Answered, ListenAgain, Deterred, record
    <3>2. CASE NoListening(i) \/ MarkListening(i)
      BY <3>2 DEF NoListening, MarkListening, States, Open
    <3>3. CASE Silent(i) \/ AskAgain(i) \/ Deter(i)
      <4>1. Expired(i) \in Ids
        BY <1>0, <3>3 DEF Silent, AskAgain, Deter, Expired, VisitTyped
      <4>2. QED
        BY <3>3, <4>1 DEF Silent, AskAgain, Deter, States, Open
    <3>4. CASE NoListenAgain(i)
      BY <1>0, <3>4 DEF NoListenAgain, FreshEvents, States, Open
    <3>5. QED
      BY <1>13, <3>1, <3>2, <3>3, <3>4 DEF VoiceStep
  <2>3. rows'[e].reply = rows[e].reply
    BY <1>0, <2>2, SetStateStays
  <2>4. QED
    BY <2>1, <2>3 DEF HasAnswered
<1>14. QED
  BY <1>4, <1>5, <1>6, <1>7, <1>8, <1>9, <1>10, <1>11, <1>12, <1>13 DEF Next, WatchStep
\* A window is opened after the greeting, or by the task that asks again.
LEMMA StepSlot ==
  ASSUME IInv, Next, NEW e \in Ids, slot'.ev = e, slot.ev # e
  PROVE  StartListening(e) \/ \E i \in Ids : ListenAgain(i) /\ Reasks(i, e)
<1>0. VisitTyped /\ e # 0 /\ NoSlot.ev = 0
  BY DEF IInv, Shape, Ids, NoSlot
<1>1. CASE \/ \E c \in Calls : Arm(c) \/ Summarize(c) \/ Persist(c) \/ CallLost(c) \/ Disarm(c)
           \/ SeePerson \/ SeeActivity \/ Hear \/ WatchStep \/ Clear
           \/ \E ai \in BOOLEAN : Restart(ai)
  BY <1>0, <1>1 DEF Arm, Summarize, Persist, CallLost, Disarm, SeePerson, SeeActivity, Hear, WatchStep, Visitor,
                    Activity, InsertFails, RecordReply, Clear, Restart
<1>2. CASE Tick
  BY <1>0, <1>2 DEF Tick, VisitTyped
<1>3. ASSUME NEW i \in Ids, VoiceStep(i)
      PROVE  StartListening(e) \/ (ListenAgain(i) /\ Reasks(i, e))
  <2>1. CASE StartListening(i)
    <3>1. i = e
      BY <2>1 DEF StartListening, OpenListen
    <3>2. QED
      BY <2>1, <3>1
  <2>2. CASE ListenAgain(i)
    BY <2>2 DEF ListenAgain, OpenListen, Reasks
  <2>3. CASE ~StartListening(i) /\ ~ListenAgain(i)
    BY <1>0, <1>3, <2>3 DEF VoiceStep, GreetKnown, NoListening, MarkListening, Answered, Silent, AskAgain,
                            NoListenAgain, Deter, Deterred
  <2>4. QED
    BY <2>1, <2>2, <2>3
<1>4. QED
  BY <1>1, <1>2, <1>3 DEF Next

\* A voice task starts with the record of its visitor, and asks again after
\* its window has expired.
LEMMA StepTask ==
  ASSUME IInv, Next, NEW i \in Ids
  PROVE  /\ task'[i].pc = "greet" => task[i].pc = "greet" \/
                 (i = nextId /\ \E state \in {"no_voice", "known", "greeting"}, snap \in BOOLEAN : Visitor(state, snap))
         /\ \A e \in Ids : Reasks(i, e)' => Reasks(i, e) \/ (AskAgain(i) /\ slot.ev = e)
<1>0. VisitTyped /\ RecordTyped
  BY DEF IInv, Shape
<1>1. CASE UNCHANGED <<task[i].pc, task[i].ev>>
  BY <1>1 DEF Reasks
<1>2. CASE \/ \E c \in Calls : Arm(c) \/ Summarize(c) \/ Persist(c) \/ CallLost(c) \/ Disarm(c)
           \/ SeePerson \/ SeeActivity \/ Hear \/ Clear \/ RecordReply
           \/ \E snap \in BOOLEAN : Activity(snap) \/ InsertFails(snap)
  <2>1. task' = task
    BY <1>2 DEF Arm, Summarize, Persist, CallLost, Disarm, SeePerson, SeeActivity, Hear, Activity, InsertFails,
                RecordReply, Clear
  <2>2. QED
    BY <1>1, <2>1
<1>3. ASSUME NEW state \in {"no_voice", "known", "greeting"}, NEW snap \in BOOLEAN, Visitor(state, snap)
      PROVE  /\ task'[i].pc = "greet" => task[i].pc = "greet" \/ i = nextId
             /\ \A e \in Ids : Reasks(i, e)' => Reasks(i, e)
  <2>1. i # nextId => task'[i] = task[i]
    BY <1>0, <1>3 DEF Visitor, VisitTyped
  <2>2. i = nextId => task'[i].pc # "reask"
    BY <1>0, <1>3 DEF Visitor, VisitTyped, NoTask
  <2>3. QED
    BY <2>1, <2>2 DEF Reasks
<1>4. CASE Tick
  <2>1. UNCHANGED <<task[i].pc, task[i].ev>>
    BY <1>0, <1>4 DEF Tick, VisitTyped, Voices
  <2>2. QED
    BY <1>1, <2>1
<1>5. ASSUME NEW ai \in BOOLEAN, Restart(ai)
      PROVE  task'[i].pc # "greet" /\ task'[i].pc # "reask"
  BY <1>5 DEF Restart, NoTask
<1>6. ASSUME NEW j \in Ids, VoiceStep(j), j # i
      PROVE  task'[i] = task[i]
  <2>1. PICK pc, ev, left : Step(j, pc, ev, left)
    BY <1>6, VoiceSteps
  <2>2. QED
    BY <1>0, <1>6, <2>1 DEF Step, VisitTyped
<1>7. ASSUME VoiceStep(i)
      PROVE  /\ task'[i].pc # "greet"
             /\ \A e \in Ids : Reasks(i, e)' => AskAgain(i) /\ slot.ev = e
  <2>1. PICK pc \in TaskPcs \ {"none", "greet"}, ev \in {0} \cup Ids, left \in Int :
           Step(i, pc, ev, left) /\ (pc = "reask" => slot.ev = ev)
    BY <1>7, VoiceSteps
  <2>2. task'[i].pc = pc /\ task'[i].ev = ev
    BY <1>0, <2>1 DEF Step, VisitTyped
  <2>3. pc = "reask" => AskAgain(i)
    <3>1. ASSUME NEW p, NEW x, NEW l, Step(i, p, x, l)
          PROVE  p = pc
      BY <1>0, <2>2, <3>1 DEF Step, VisitTyped
    <3>2. QED
      BY <1>7, <3>1 DEF VoiceStep, GreetKnown, StartListening, NoListening, MarkListening, Answered, Silent,
                        ListenAgain, NoListenAgain, Deter, Deterred
  <2>4. QED
    BY <2>1, <2>2, <2>3 DEF Reasks
<1>8. QED
  <2>1. CASE \E state \in {"no_voice", "known", "greeting"}, snap \in BOOLEAN : Visitor(state, snap)
    BY <1>3, <2>1
  <2>2. CASE \E ai \in BOOLEAN : Restart(ai)
    BY <1>5, <2>2 DEF Reasks
  <2>3. CASE \E j \in Ids : VoiceStep(j)
    BY <1>1, <1>6, <1>7, <2>3
  <2>4. QED
    BY <1>2, <1>4, <2>1, <2>2, <2>3 DEF Next, WatchStep

\* A visitor stays with one question or the answer.
LEMMA StepQuestion ==
  ASSUME IInv, Next
  PROVE  OneQuestion'
<1> SUFFICES ASSUME NEW e \in Ids PROVE One(e)'
  BY DEF OneQuestion, One
<1>0. One(e) /\ VisitTyped /\ RecordTyped /\ FreshEvents /\ e \in Nat /\ e # 0 /\ nextId \in Nat
  BY DEF IInv, Shape, OneQuestion, One, RecordTyped, Ids
<1>1. CASE Fewer(e)
  BY <1>0, <1>1, FewerAsk
<1>2. CASE Hear /\ slot.ev = e
  <2>1. slot'.ev # e /\ task' = task
    BY <1>0, <1>2 DEF Hear, NoSlot
  <2>2. task[e].pc # "greet" /\ \A i \in Ids : ~Reasks(i, e)
    BY <1>0, <1>2 DEF One
  <2>3. task'[e].pc # "greet" /\ \A i \in Ids : ~(Reasks(i, e)')
    BY <2>1, <2>2 DEF Reasks
  <2>4. QED
    BY <2>1, <2>3 DEF One
<1>3. ASSUME NEW state \in {"no_voice", "known", "greeting"}, NEW snap \in BOOLEAN, Visitor(state, snap), e = nextId
      PROVE  One(e)'
  <2>1. slot'.ev # e /\ watch'.pc # "reply"
    BY <1>0, <1>3 DEF Visitor, FreshEvents, VisitTyped, Idle
  <2>2. ~rows'[e].reply
    BY <1>0, <1>3 DEF Visitor, Insert
  <2>3. \A i \in Ids : ~(Reasks(i, e)')
    <3>1. \A i \in Ids : Reasks(i, e)' => Reasks(i, e) \/ AskAgain(i)
      BY StepTask
    <3>2. \A i \in Ids : ~Reasks(i, e)
      <4>1. \A i \in Ids : task[i].ev < nextId
        BY <1>0 DEF FreshEvents
      <4>2. \A i \in Ids : task[i].ev # e
        BY <1>0, <1>3, <4>1
      <4>3. QED
        BY <4>2 DEF Reasks
    <3>3. \A i \in Ids : ~AskAgain(i)
      BY <1>0, <1>3 DEF AskAgain, Visitor, Insert
    <3>4. QED
      BY <3>1, <3>2, <3>3
  <2>4. ~(HasAnswered(e)')
    BY <2>1, <2>2 DEF HasAnswered
  <2>5. QED
    BY <2>1, <2>3, <2>4 DEF One
<1>4. CASE StartListening(e)
  <2>1. /\ UNCHANGED <<rows, watch>>
        /\ task'[e].pc = "mark" /\ \A i \in Ids : i # e => task'[i] = task[i]
    BY <1>0, <1>4 DEF StartListening, Step, VisitTyped, record
  <2>2. task[e].pc = "greet"
    BY <1>4 DEF StartListening
  <2>3. ~HasAnswered(e) /\ \A i \in Ids : ~Reasks(i, e)
    BY <1>0, <2>2 DEF One
  <2>4. ~(HasAnswered(e)') /\ \A i \in Ids : ~(Reasks(i, e)')
    BY <2>1, <2>3 DEF HasAnswered, Reasks
  <2>5. QED
    BY <2>1, <2>4 DEF One
<1>5. ASSUME NEW k \in Ids, ListenAgain(k), Reasks(k, e)
      PROVE  One(e)'
  <2>1. /\ UNCHANGED <<rows, watch>>
        /\ task'[k].pc = "wait2" /\ \A i \in Ids : i # k => task'[i] = task[i]
    BY <1>0, <1>5 DEF ListenAgain, Step, VisitTyped, record
  <2>2. ~HasAnswered(e) /\ task[e].pc # "greet" /\ \A i \in Ids : Reasks(i, e) => i = k
    BY <1>0, <1>5 DEF One
  <2>3. ~(HasAnswered(e)') /\ task'[e].pc # "greet" /\ \A i \in Ids : ~(Reasks(i, e)')
    BY <2>1, <2>2 DEF HasAnswered, Reasks
  <2>4. QED
    BY <2>3 DEF One
<1>6. ASSUME NEW k \in Ids, AskAgain(k), slot.ev = e
      PROVE  One(e)'
  <2>1. /\ task[k].pc = "wait" /\ slot'.ev # e
        /\ task'[k].pc = "reask" /\ \A i \in Ids : i # k => task'[i] = task[i]
    BY <1>0, <1>6 DEF AskAgain, Due, Step, VisitTyped, NoSlot
  <2>2. ~HasAnswered(e) /\ task[e].pc # "greet" /\ \A i \in Ids : ~Reasks(i, e)
    BY <1>0, <1>6 DEF One
  <2>3. ~(HasAnswered(e)')
    <3>1. ~Hear
      BY <2>1 DEF Hear
    <3>2. QED
      BY <2>2, <3>1, StepAnswered
  <2>4. task'[e].pc # "greet" /\ \A i \in Ids : Reasks(i, e)' => i = k
    BY <2>1, <2>2 DEF Reasks
  <2>5. QED
    BY <2>1, <2>3, <2>4 DEF One
<1>7. QED
  <2>1. HasAnswered(e)' => HasAnswered(e) \/ (Hear /\ slot.ev = e)
    BY StepAnswered
  <2>2. slot'.ev = e => slot.ev = e \/ StartListening(e) \/ \E i \in Ids : ListenAgain(i) /\ Reasks(i, e)
    BY StepSlot
  <2>3. task'[e].pc = "greet" => task[e].pc = "greet" \/
           (e = nextId /\ \E state \in {"no_voice", "known", "greeting"}, snap \in BOOLEAN : Visitor(state, snap))
    BY StepTask
  <2>4. \A i \in Ids : Reasks(i, e)' => Reasks(i, e) \/ (AskAgain(i) /\ slot.ev = e)
    BY StepTask
  <2>5. QED
    BY <1>1, <1>2, <1>3, <1>4, <1>5, <1>6, <2>1, <2>2, <2>3, <2>4 DEF Fewer
-----------------------------------------------------------------------------
(* The invariant, and what follows                                         *)

\* The service starts with nothing recorded and nobody at the door.
LEMMA InitIInv ==
  ASSUME Init
  PROVE  IInv
<1> USE AwayAssumption DEF AwayAssumption
<1>1. EngineTyped
  <2>1. NoCall \in [pc : {"idle", "summary", "persist"}, want : BOOLEAN]
    BY DEF NoCall
  <2>2. armed \in BOOLEAN /\ serial \in BOOLEAN
    BY DEF Init
  <2>3. QED
    BY <2>1, <2>2 DEF Init, EngineTyped
<1>2. RecordTyped
  BY DEF Init, RecordTyped, NoRow, Rows, States, Open
<1>3. VisitTyped
  <2>1. Never \in Latches
    BY DEF Never, Latches
  <2>2. NoTask \in Voices
    BY Times DEF NoTask, Voices, TaskPcs
  <2>3. /\ Idle \in [pc : {"idle", "visit", "activity", "reply"}, ev : {0} \cup Ids]
        /\ NoSlot \in [ev : {0} \cup Ids, left : -1 .. Longest]
    BY Times DEF Idle, NoSlot
  <2>4. QED
    BY <2>1, <2>2, <2>3 DEF Init, VisitTyped
<1>4. SerialCall
  <2>1. \A c \in Calls : calls[c].pc = "idle"
    BY DEF Init, NoCall
  <2>2. serial => (armed <=> stored)
    BY Zenon DEF Init
  <2>3. QED
    BY <2>1, <2>2 DEF SerialCall, Active
<1>5. EvidenceMatchesRecords
  <2>1. \A i \in Ids : ~rows[i].snap /\ ~HasRow(i)
    BY DEF Init, NoRow, HasRow
  <2>2. {i \in Ids : HasRow(i)} = {} /\ {i \in Ids : rows[i].snap} = {} /\ files \ {0} = {}
    BY <2>1 DEF Init
  <2>3. Cardinality({}) <= Cap
    BY FS_EmptySet
  <2>4. QED
    BY <2>2, <2>3 DEF EvidenceMatchesRecords
<1>6. FreshEvents
  BY DEF Init, FreshEvents, NoSlot, NoTask, Idle
<1>7. OneQuestion
  <2>1. \A e \in Ids : ~HasAnswered(e) /\ task[e].pc # "greet" /\ \A i \in Ids : ~Reasks(i, e)
    BY DEF Init, HasAnswered, Reasks, NoRow, NoTask, Idle
  <2>2. QED
    BY <2>1 DEF OneQuestion
<1>8. QED
  BY <1>1, <1>2, <1>3, <1>4, <1>5, <1>6, <1>7 DEF IInv, Shape

LEMMA NextIInv ==
  ASSUME IInv, [Next]_vars
  PROVE  IInv'
<1>1. CASE Next
  BY <1>1, StepSerial, StepRecord, StepVisit, StepFresh, StepQuestion DEF IInv, Shape
<1>2. CASE UNCHANGED vars
  <2>1. UNCHANGED <<available, armed, stored, calls, serial>> /\ UNCHANGED <<rows, nextId, files>>
        /\ UNCHANGED <<latch, watch, slot, task, restarts, voided>>
    BY <1>2 DEF vars, engine, record
  <2>2. Shape'
    BY <2>1 DEF IInv, Shape, EngineTyped, RecordTyped, VisitTyped
  <2>3. SerialCall' /\ EvidenceMatchesRecords'
    BY <2>1 DEF IInv, SerialCall, Active, EvidenceMatchesRecords, HasRow
  <2>4. FreshEvents' /\ OneQuestion'
    BY <2>1 DEF IInv, FreshEvents, OneQuestion, HasAnswered, Reasks
  <2>5. QED
    BY <2>2, <2>3, <2>4 DEF IInv
<1>3. QED
  BY <1>1, <1>2

LEMMA Invariance == Spec => []IInv
<1>1. Init => IInv
  BY InitIInv
<1>2. IInv /\ [Next]_vars => IInv'
  BY NextIInv
<1>3. QED
  BY <1>1, <1>2, PTL DEF Spec

\* Every variable keeps its type, whatever the number of events and calls: no
\* timer or window of the watch task runs past the longest one.
THEOREM Typing == Spec => []TypeOK
<1>1. IInv => TypeOK
  <2> SUFFICES ASSUME IInv PROVE TypeOK
    OBVIOUS
  <2>1. \A f \in DOMAIN Never : latch[f] \in 0 .. Never[f]
    BY DEF IInv, Shape, VisitTyped, Latches, Never
  <2>2. QED
    BY <2>1 DEF IInv, Shape, EngineTyped, RecordTyped, VisitTyped, Rows, Voices, TypeOK
<1>2. QED
  BY <1>1, Invariance, PTL

\* set_active: as long as its calls do not overlap, fail or get dropped, the
\* flag and the setting agree between calls, for any number of callers.
THEOREM ArmedIsStoredHolds == Spec => []ArmedIsStored
<1>1. IInv => ArmedIsStored
  <2> SUFFICES ASSUME IInv PROVE ArmedIsStored
    OBVIOUS
  <2>1. armed \in BOOLEAN /\ stored \in BOOLEAN
    BY DEF IInv, Shape, EngineTyped
  <2>2. serial /\ (\A c \in Calls : ~Active(c)) => (armed <=> stored)
    BY DEF IInv, SerialCall
  <2>3. (armed <=> stored) => armed = stored
    BY <2>1
  <2>4. QED
    BY <2>2, <2>3 DEF ArmedIsStored
<1>2. QED
  BY <1>1, Invariance, PTL

\* insert_and_broadcast and the clearing of the records: for every cap, the
\* snapshot files are those of the records, and the records fit.
THEOREM EvidenceMatchesRecordsHolds == Spec => []EvidenceMatchesRecords
<1>1. IInv => EvidenceMatchesRecords
  BY DEF IInv
<1>2. QED
  BY <1>1, Invariance, PTL

\* A step leaves the visitor who has answered alone.
LEMMA StepAnswer ==
  ASSUME IInv, Next, NEW e \in Ids, HasAnswered(e)
  PROVE  /\ rows'[e].state \in {"reask", "silent"} => rows'[e].state = rows[e].state
         /\ slot'.ev = e => slot.ev = e
<1>0. RecordTyped /\ VisitTyped /\ FreshEvents
  BY DEF IInv, Shape
<1>1. slot.ev # e /\ task[e].pc # "greet" /\ \A i \in Ids : ~Reasks(i, e)
  BY DEF IInv, OneQuestion
<1>2. slot'.ev # e
  BY <1>1, StepSlot DEF StartListening
<1>3. ASSUME NEW row, Insert(row), row.state \notin {"reask", "silent"}
      PROVE  rows'[e].state \in {"reask", "silent"} => rows'[e].state = rows[e].state
  BY <1>3 DEF Insert, NoRow
<1>4. CASE \/ \E c \in Calls : Arm(c) \/ Summarize(c) \/ Persist(c) \/ CallLost(c) \/ Disarm(c)
           \/ SeePerson \/ SeeActivity \/ Hear \/ Tick
           \/ \E snap \in BOOLEAN : InsertFails(snap)
           \/ \E ai \in BOOLEAN : Restart(ai)
  <2>1. rows' = rows
    BY <1>4 DEF Arm, Summarize, Persist, CallLost, Disarm, SeePerson, SeeActivity, Hear, Tick, InsertFails,
                Restart, record
  <2>2. QED
    BY <1>2, <2>1
<1>5. ASSUME NEW state \in {"no_voice", "known", "greeting"}, NEW snap \in BOOLEAN, Visitor(state, snap)
      PROVE  rows'[e].state \in {"reask", "silent"} => rows'[e].state = rows[e].state
  <2>1. PICK row : Insert(row) /\ row.state = state
    BY <1>5 DEF Visitor
  <2>2. QED
    BY <1>3, <2>1
<1>6. ASSUME NEW snap \in BOOLEAN, Activity(snap)
      PROVE  rows'[e].state \in {"reask", "silent"} => rows'[e].state = rows[e].state
  <2>1. PICK row : Insert(row) /\ row.state = "recorded"
    BY <1>6 DEF Activity
  <2>2. QED
    BY <1>3, <2>1
<1>7. CASE RecordReply
  <2>1. rows'[e].state \in {rows[e].state, "answered"}
    BY <1>0, <1>7, ReplyStays DEF RecordReply, FreshEvents
  <2>2. QED
    BY <1>2, <2>1
<1>8. CASE Clear
  <2>1. rows'[e].state = "none"
    BY <1>8 DEF Clear, NoRow
  <2>2. QED
    BY <1>2, <2>1
<1>9. ASSUME NEW i \in Ids, VoiceStep(i)
      PROVE  rows'[e].state \in {"reask", "silent"} => rows'[e].state = rows[e].state
  <2>a. {"no_voice", "listening", "silent", "reask"} \subseteq States
    BY DEF States, Open
  <2>1. CASE GreetKnown(i) \/ StartListening(i) \/ Answered(i) \/ ListenAgain(i) \/ Deterred(i)
    BY <2>1 DEF GreetKnown, StartListening, Answered, ListenAgain, Deterred, record
  <2>2. CASE NoListening(i) \/ MarkListening(i)
    <3>1. PICK state \in {"no_voice", "listening"} : SetState(i, state)
      BY <2>2 DEF NoListening, MarkListening
    <3>2. rows'[e].state \in {rows[e].state, state}
      BY <1>0, <2>a, <3>1, SetStateStays
    <3>3. QED
      BY <3>1, <3>2
  <2>3. CASE Silent(i) \/ AskAgain(i) \/ Deter(i) \/ NoListenAgain(i)
    <3>1. PICK x \in Ids, state \in {"silent", "reask"} : SetState(x, state) /\ x # e
      <4>1. CASE NoListenAgain(i)
        BY <1>0, <1>1, <4>1 DEF NoListenAgain, FreshEvents, Reasks
      <4>2. CASE Silent(i) \/ AskAgain(i) \/ Deter(i)
        <5>1. Expired(i) = slot.ev /\ slot.ev \in Ids
          BY <1>0, <4>2 DEF Silent, AskAgain, Deter, Expired, VisitTyped
        <5>2. SetState(slot.ev, "silent") \/ SetState(slot.ev, "reask")
          BY <4>2, <5>1 DEF Silent, AskAgain, Deter
        <5>3. QED
          BY <1>1, <5>1, <5>2
      <4>3. QED
        BY <2>3, <4>1, <4>2
    <3>2. rows'[e] = rows[e]
      BY <1>0, <2>a, <3>1, SetStateStays
    <3>3. QED
      BY <3>2
  <2>4. QED
    BY <1>9, <2>1, <2>2, <2>3 DEF VoiceStep
<1>10. QED
  BY <1>2, <1>4, <1>5, <1>6, <1>7, <1>8, <1>9 DEF Next, WatchStep

\* The answer and the reapers: whatever windows and timers, and however many
\* visitors there are, one whose answer was taken is not asked again, not marked
\* silent and not listened to again.
THEOREM AnswerEndsQuestionsHolds == Spec => AnswerEndsQuestions
<1>1. IInv /\ [Next]_vars =>
        [\A i \in Ids : (rows[i].reply \/ watch = [pc |-> "reply", ev |-> i]) =>
            /\ rows'[i].state \in {"reask", "silent"} => rows'[i].state = rows[i].state
            /\ slot'.ev = i => slot.ev = i]_vars
  <2> SUFFICES ASSUME IInv, Next, NEW i \in Ids, rows[i].reply \/ watch = [pc |-> "reply", ev |-> i]
               PROVE  /\ rows'[i].state \in {"reask", "silent"} => rows'[i].state = rows[i].state
                      /\ slot'.ev = i => slot.ev = i
    OBVIOUS
  <2>1. HasAnswered(i)
    BY DEF HasAnswered
  <2>2. QED
    BY <2>1, StepAnswer
<1>2. QED
  BY <1>1, Invariance, PTL DEF Spec, AnswerEndsQuestions

-----------------------------------------------------------------------------
(* The dialogue: what holds of a round r at each step of its speaker       *)

RoundType ==
    [pc : {"none", "remote", "local", "speak", "finish", "end"}, cancel : BOOLEAN,
     gen : 0 .. N, genEnd : {"no", "ok", "bad"}, sp : {"off", "recv", "wait", "play", "done"},
     taken : 0 .. N, ahead : 0 .. N, cur : 0 .. N, first : BOOLEAN,
     syn : [Parts -> {"no", "run", "ok", "bad"}], prefix : Seq(Parts)]

TurnType == [done : BOOLEAN, reply : Speech, cut : BOOLEAN]

TalkTyped ==
    /\ mute \in BOOLEAN /\ excused \in BOOLEAN
    /\ kind \in [Us -> Kinds \cup {"none"}]
    /\ asr \subseteq Us
    /\ inbox \in Seq(Us)
    /\ bridge \in [pc : {"idle", "gate", "route", "command"}, u : 0 .. Max]
    /\ bridge.pc # "idle" => bridge.u \in Us
    /\ activeRound \in 0 .. Max
    /\ round \in [Us -> RoundType]
    /\ wav \in Audio
    /\ turns \in [Us -> TurnType]
    /\ said \subseteq Us \X Parts

\* Sentences in their order, each once.
Rising(s) ==
    /\ \A i \in 1 .. Len(s) : s[i] >= i
    /\ \A i, j \in 1 .. Len(s) : i < j => s[i] < s[j]

\* All of s come before n.
Before(s, n) == \A i \in 1 .. Len(s) : s[i] < n

\* What was played comes before what is at hand, and that before what is ahead;
\* nothing is ahead before the first sentence and after the last one.
Speaker(r) ==
    /\ r.pc \in {"none", "remote", "end"} => r.sp = "off"
    /\ r.sp \in {"recv", "wait", "play"} => r.pc = "local"
    /\ r.sp = "off" => r.first /\ r.prefix = <<>> /\ r.taken = 0 /\ r.ahead = 0
    /\ Rising(r.prefix) /\ Before(r.prefix, r.taken + 1) /\ r.taken <= r.gen
    /\ r.sp = "recv" /\ r.ahead # 0 => r.ahead = r.taken /\ Before(r.prefix, r.ahead)
    /\ r.sp \in {"wait", "play"} =>
          /\ r.cur # 0 /\ r.cur <= r.taken /\ Before(r.prefix, r.cur)
          /\ r.ahead # 0 => r.ahead = r.taken /\ r.cur < r.ahead
    /\ r.sp \in {"recv", "wait", "play"} /\ r.ahead = 0 /\ r.taken # 0 =>
          r.genEnd # "no" /\ r.taken = r.gen
    /\ r.sp = "play" => ~r.first

Speakers == \A u \in Us : Speaker(round[u])

\* An utterance is in one place: being transcribed, in the channel once, with
\* the bridge, or answered by its round.
Queued(u) == \E i \in 1 .. Len(inbox) : inbox[i] = u
Held(u)   == bridge.pc # "idle" /\ bridge.u = u
Begun(u)  == round[u].pc # "none"

OnePlace ==
    /\ \A u \in Us :
          /\ kind[u] = "none" => u \notin asr /\ ~Queued(u) /\ ~Held(u) /\ ~Begun(u)
          /\ u \in asr => ~Queued(u) /\ ~Held(u) /\ ~Begun(u)
          /\ Queued(u) => ~Held(u) /\ ~Begun(u)
          /\ Held(u) => ~Begun(u)
    /\ \A i, j \in 1 .. Len(inbox) : inbox[i] = inbox[j] => i = j

\* spoken_prefix is what was said of a round that goes on.
Tally(u) ==
    round[u].pc # "end" =>
        \A s \in Parts : <<u, s>> \in said <=> \E i \in 1 .. Len(round[u].prefix) : round[u].prefix[i] = s

\* A turn that was cut is on record for good, and claims what was said.
CutTurn(u) ==
    turns[u].cut =>
        /\ round[u].pc = "end" /\ Rising(turns[u].reply)
        /\ \A s \in Parts : <<u, s>> \in said <=> \E i \in 1 .. Len(turns[u].reply) : turns[u].reply[i] = s

Honest == \A u \in Us : Tally(u) /\ CutTurn(u)

\* The bridge has emptied the slot before it routes an utterance.
SlotIsFree == bridge.pc \in {"route", "command"} => activeRound = 0

\* Without an excuse one at most has the mute, and it is on.
MuteIsHeld ==
    ~excused => /\ Muting # {} => mute
                /\ \A u, v \in Muting : u = v

TalkInv == TalkTyped /\ Speakers /\ OnePlace /\ Honest /\ SlotIsFree /\ OneVoice /\ MuteIsHeld

\* Round r will lift the mute.
Mutes(r) == r.pc = "speak" \/ (~r.first /\ r.sp # "done")

\* What a step of round u, from r to k, may do to the slot, to the mute and to
\* the record.
SlotEffect(u, k) ==
    \/ activeRound' = activeRound
    \/ activeRound' = (IF activeRound = u THEN 0 ELSE activeRound) /\ k.pc \notin {"remote", "local"}

MuteEffect(u, r, k) ==
    /\ mute' \in BOOLEAN /\ excused' \in BOOLEAN
    /\ \/ mute' = mute /\ excused' = excused /\ (Mutes(k) => Mutes(r))
       \/ excused' = excused /\ Mutes(r) /\ ~Mutes(k)
       \/ (mute' \/ (Mutes(r) /\ mute' = mute)) /\ excused' = (excused \/ Muting \ {u} # {})

TurnEffect(u, r, k) ==
    \/ /\ said' = said /\ turns' = turns
       /\ k.prefix = r.prefix /\ (k.pc = "end" <=> r.pc = "end")
    \/ /\ said' = said \cup {<<u, r.cur>>} /\ turns' = turns
       /\ r.cur \in Parts /\ k.prefix = Append(r.prefix, r.cur) /\ r.pc # "end" /\ k.pc # "end"
    \/ /\ said' = said /\ k.pc = "end" /\ r.pc # "end"
       /\ \E t \in TurnType : /\ turns' = [turns EXCEPT ![u] = t]
                              /\ t.cut => t.reply = r.prefix

RoundEffect(u, r, k) ==
    /\ Speaker(k)
    /\ (k.pc = "none") <=> (r.pc = "none")
    /\ k.pc \in {"remote", "local"} => r.pc \in {"remote", "local"} /\ k.cancel = r.cancel

Effect(u, k) ==
    /\ round' = [round EXCEPT ![u] = k]
    /\ RoundEffect(u, round[u], k)
    /\ SlotEffect(u, k) /\ MuteEffect(u, round[u], k) /\ TurnEffect(u, round[u], k)
    /\ wav' \in Audio
    /\ UNCHANGED <<ear, inbox, bridge>>

-----------------------------------------------------------------------------
(* What a step with such an effect keeps                                   *)

LEMMA EffectTyped ==
    ASSUME ConversationAssumption, TalkInv,
           NEW u \in Us, NEW k \in RoundType, Effect(u, k)
    PROVE  TalkTyped'
<1>1. 0 \in 0 .. Max BY DEF ConversationAssumption
<1>2. activeRound' \in 0 .. Max
  BY <1>1 DEF Effect, SlotEffect, TalkInv, TalkTyped
<1>3. round' \in [Us -> RoundType]
  BY DEF Effect, TalkInv, TalkTyped
<1>4. mute' \in BOOLEAN /\ excused' \in BOOLEAN
  BY DEF Effect, MuteEffect
<1>5. said' \subseteq Us \X Parts /\ turns' \in [Us -> TurnType]
  BY DEF Effect, TurnEffect, TalkInv, TalkTyped
<1>6. QED BY <1>2, <1>3, <1>4, <1>5 DEF Effect, TalkInv, TalkTyped, ear

LEMMA EffectSpeakers ==
    ASSUME TalkInv, NEW u \in Us, NEW k \in RoundType, Effect(u, k)
    PROVE  Speakers'
BY DEF Effect, RoundEffect, Speakers, TalkInv, TalkTyped

LEMMA EffectPlaces ==
    ASSUME TalkInv, NEW u \in Us, NEW k \in RoundType, Effect(u, k)
    PROVE  OnePlace' /\ SlotIsFree'
<1>1. \A v \in Us : /\ Begun(v)' <=> Begun(v)
                    /\ Queued(v)' <=> Queued(v)
                    /\ Held(v)' <=> Held(v)
  <2>1. \A v \in Us : (round'[v].pc = "none") <=> (round[v].pc = "none")
    BY DEF Effect, RoundEffect, TalkInv, TalkTyped
  <2>2. inbox' = inbox /\ bridge' = bridge
    BY DEF Effect
  <2>3. QED BY <2>1, <2>2 DEF Begun, Queued, Held
<1>2. kind' = kind /\ asr' = asr /\ inbox' = inbox /\ bridge' = bridge
  BY DEF Effect, ear
<1>3. OnePlace' BY <1>1, <1>2 DEF OnePlace, TalkInv
<1>4. SlotIsFree'
  BY <1>2 DEF SlotIsFree, TalkInv, Effect, SlotEffect
<1>5. QED BY <1>3, <1>4

LEMMA EffectVoice ==
    ASSUME ConversationAssumption, TalkInv, NEW u \in Us, NEW k \in RoundType, Effect(u, k)
    PROVE  OneVoice'
<1> SUFFICES ASSUME NEW v \in Us, round'[v].pc \in {"remote", "local"}, activeRound' # v
             PROVE  round'[v].cancel
  BY DEF OneVoice
<1>0. 0 \notin Us /\ u \in Nat BY DEF Us, ConversationAssumption
<1>1. CASE v = u
  <2>1. round'[v] = k BY <1>1 DEF Effect, TalkInv, TalkTyped
  <2>2. activeRound' = activeRound BY <1>1, <2>1 DEF Effect, SlotEffect
  <2>3. QED BY <1>1, <2>1, <2>2 DEF Effect, RoundEffect, TalkInv, OneVoice
<1>2. CASE v # u
  <2>1. round'[v] = round[v] BY <1>2 DEF Effect, TalkInv, TalkTyped
  <2>2. activeRound # v BY <1>2 DEF Effect, SlotEffect
  <2>3. QED BY <2>1, <2>2 DEF TalkInv, OneVoice
<1>3. QED BY <1>1, <1>2

LEMMA MutingIs ==
    Muting = {u \in Us : Mutes(round[u]) \/ bridge = [pc |-> "command", u |-> u]}
BY DEF Muting, Reciting, Mutes

LEMMA EffectMute ==
    ASSUME ConversationAssumption, TalkInv, NEW u \in Us, NEW k \in RoundType, Effect(u, k)
    PROVE  MuteIsHeld'
<1> SUFFICES ASSUME ~excused'
             PROVE  (Muting' # {} => mute') /\ (\A v, w \in Muting' : v = w)
  BY DEF MuteIsHeld
<1> DEFINE B(v) == bridge = [pc |-> "command", u |-> v]
<1>1. Muting' = {v \in Us : Mutes(round'[v]) \/ B(v)}
  BY DEF Muting, Reciting, Mutes, Effect
<1>2. Muting = {v \in Us : Mutes(round[v]) \/ B(v)}
  BY MutingIs
<1>3. \A v \in Us : round'[v] = IF v = u THEN k ELSE round[v]
  BY DEF Effect, TalkInv, TalkTyped
<1>4. \A v \in Us : v # u => (v \in Muting' <=> v \in Muting)
  BY <1>1, <1>2, <1>3
<1>5. MuteIsHeld /\ excused \in BOOLEAN BY DEF TalkInv, TalkTyped
<1>6. CASE mute' = mute /\ excused' = excused /\ (Mutes(k) => Mutes(round[u]))
  <2>1. Muting' \subseteq Muting BY <1>1, <1>2, <1>3, <1>6
  <2>2. QED BY <2>1, <1>5, <1>6 DEF MuteIsHeld
<1>7. CASE excused' = excused /\ Mutes(round[u]) /\ ~Mutes(k)
  <2>1. u \in Muting BY <1>2, <1>7
  <2>2. \A v \in Muting : v = u BY <1>5, <1>7, <2>1 DEF MuteIsHeld
  <2>3. ~B(u)
    <3>1. SUFFICES ASSUME B(u) PROVE FALSE OBVIOUS
    <3>2. Held(u) BY <3>1 DEF Held
    <3>3. ~Begun(u) BY <3>2 DEF TalkInv, OnePlace
    <3>4. round[u].pc = "none" BY <3>3 DEF Begun
    <3>5. Speaker(round[u]) BY DEF TalkInv, Speakers
    <3>6. round[u].sp = "off" /\ round[u].first BY <3>4, <3>5 DEF Speaker
    <3>7. QED BY <3>4, <3>6, <1>7 DEF Mutes
  <2>4. u \notin Muting' BY <1>1, <1>3, <1>7, <2>3
  <2>5. Muting' = {} BY <2>2, <2>4, <1>4, <1>1
  <2>6. QED BY <2>5
<1>8. CASE /\ mute' \/ (Mutes(round[u]) /\ mute' = mute)
           /\ excused' = (excused \/ Muting \ {u} # {})
  <2>1. ~excused /\ Muting \ {u} = {} BY <1>8
  <2>2. \A v \in Muting' : v = u BY <2>1, <1>4, <1>1
  <2>3. mute'
    <3>1. CASE Mutes(round[u]) /\ mute' = mute
      <4>1. u \in Muting BY <1>2, <3>1
      <4>2. QED BY <4>1, <2>1, <1>5, <3>1 DEF MuteIsHeld
    <3>2. QED BY <3>1, <1>8
  <2>4. QED BY <2>2, <2>3
<1>9. QED BY <1>6, <1>7, <1>8 DEF Effect, MuteEffect

LEMMA EffectHonest ==
    ASSUME ConversationAssumption, TalkInv, NEW u \in Us, NEW k \in RoundType, Effect(u, k)
    PROVE  Honest'
<1> DEFINE r == round[u]
<1>0. r \in RoundType /\ Speaker(r) /\ Speaker(k)
  BY DEF TalkInv, TalkTyped, Speakers, Effect, RoundEffect
<1>1. \A v \in Us : round'[v] = IF v = u THEN k ELSE round[v]
  BY DEF Effect, TalkInv, TalkTyped
<1>2. \A v \in Us : Tally(v) /\ CutTurn(v) BY DEF TalkInv, Honest
<1>3. CASE /\ said' = said /\ turns' = turns
           /\ k.prefix = r.prefix /\ (k.pc = "end" <=> r.pc = "end")
  <2>1. \A v \in Us : round'[v].prefix = round[v].prefix /\ (round'[v].pc = "end" <=> round[v].pc = "end")
    BY <1>1, <1>3
  <2>2. \A v \in Us : Tally(v)' BY <2>1, <1>2, <1>3 DEF Tally
  <2>3. \A v \in Us : CutTurn(v)' BY <2>1, <1>2, <1>3 DEF CutTurn
  <2>4. QED BY <2>2, <2>3 DEF Honest
<1>4. CASE /\ said' = said \cup {<<u, r.cur>>} /\ turns' = turns
           /\ r.cur \in Parts /\ k.prefix = Append(r.prefix, r.cur) /\ r.pc # "end" /\ k.pc # "end"
  <2>1. \A v \in Us : v # u => \A s \in Parts : <<v, s>> \in said' <=> <<v, s>> \in said
    BY <1>4
  <2>2. ~turns[u].cut BY <1>2, <1>4 DEF CutTurn
  <2>3. \A v \in Us : CutTurn(v)'
    BY <1>1, <1>2, <1>4, <2>1, <2>2 DEF CutTurn
  <2>4. \A v \in Us : v # u => Tally(v)'
    BY <1>1, <1>2, <2>1 DEF Tally
  <2>5. Tally(u)'
    <3> PICK p \in Seq(Parts) : p = r.prefix BY <1>0 DEF RoundType
    <3> PICK c \in Parts : c = r.cur BY <1>4
    <3> PICK q \in Seq(Parts) : q = k.prefix BY DEF RoundType
    <3>1. \A s \in Parts : <<u, s>> \in said <=> \E i \in 1 .. Len(p) : p[i] = s
      BY <1>2, <1>4 DEF Tally
    <3>2. q = Append(p, c) BY <1>4
    <3>3. Len(q) = Len(p) + 1 /\ q[Len(p) + 1] = c /\ \A i \in 1 .. Len(p) : q[i] = p[i] BY <3>2
    <3>4. \A s \in Parts : <<u, s>> \in said' <=> (<<u, s>> \in said \/ s = c)
      BY <1>4
    <3>6. Len(p) \in Nat OBVIOUS
    <3>5. \A s \in Parts : <<u, s>> \in said' <=> \E i \in 1 .. Len(q) : q[i] = s
      <4> TAKE s \in Parts
      <4>1. ASSUME s = c PROVE \E i \in 1 .. Len(q) : q[i] = s
        BY <4>1, <3>3, <3>6
      <4>2. ASSUME NEW i \in 1 .. Len(p), p[i] = s PROVE \E j \in 1 .. Len(q) : q[j] = s
        BY <4>2, <3>3, <3>6
      <4>3. ASSUME NEW i \in 1 .. Len(q), q[i] = s PROVE s = c \/ \E j \in 1 .. Len(p) : p[j] = s
        <5>1. i = Len(p) + 1 \/ i \in 1 .. Len(p) BY <3>3, <3>6
        <5>2. CASE i \in 1 .. Len(p) BY <5>2, <4>3, <3>3
        <5>3. CASE i = Len(p) + 1 BY <5>3, <4>3, <3>3
        <5>4. QED BY <5>1, <5>2, <5>3
      <4>4. QED BY <4>1, <4>2, <4>3, <3>1, <3>4
    <3>7. QED BY <3>5, <1>1 DEF Tally
  <2>6. QED BY <2>3, <2>4, <2>5 DEF Honest
<1>5. CASE /\ said' = said /\ k.pc = "end" /\ r.pc # "end"
           /\ \E t \in TurnType : /\ turns' = [turns EXCEPT ![u] = t]
                                  /\ t.cut => t.reply = r.prefix
  <2>1. PICK t \in TurnType : turns' = [turns EXCEPT ![u] = t] /\ (t.cut => t.reply = r.prefix)
    BY <1>5
  <2>2. \A v \in Us : Tally(v)'
    BY <1>1, <1>2, <1>5 DEF Tally
  <2>3. turns'[u] = t /\ \A v \in Us : v # u => turns'[v] = turns[v]
    BY <2>1 DEF TalkInv, TalkTyped
  <2>4. \A v \in Us : v # u => CutTurn(v)'
    BY <2>3, <1>1, <1>2, <1>5 DEF CutTurn
  <2>5. CutTurn(u)'
    <3>1. SUFFICES ASSUME t.cut PROVE CutTurn(u)' BY <2>3 DEF CutTurn
    <3>2. t.reply = r.prefix /\ Rising(r.prefix) BY <3>1, <2>1, <1>0 DEF Speaker
    <3>3. \A s \in Parts : <<u, s>> \in said <=> \E i \in 1 .. Len(r.prefix) : r.prefix[i] = s
      BY <1>2, <1>5 DEF Tally
    <3>4. QED BY <3>2, <3>3, <2>3, <1>1, <1>5 DEF CutTurn
  <2>6. QED BY <2>2, <2>4, <2>5 DEF Honest
<1>6. QED BY <1>3, <1>4, <1>5 DEF Effect, TurnEffect

LEMMA EffectKeeps ==
    ASSUME ConversationAssumption, TalkInv, NEW u \in Us, NEW k \in RoundType, Effect(u, k)
    PROVE  TalkInv'
BY EffectTyped, EffectSpeakers, EffectPlaces, EffectVoice, EffectMute, EffectHonest DEF TalkInv

-----------------------------------------------------------------------------
(* Every step of a round has such an effect                                *)

\* A record of a round, field by field.
LEMMA RoundFields ==
    ASSUME NEW r \in RoundType
    PROVE  /\ r.pc \in {"none", "remote", "local", "speak", "finish", "end"}
           /\ r.sp \in {"off", "recv", "wait", "play", "done"}
           /\ r.genEnd \in {"no", "ok", "bad"}
           /\ r.cancel \in BOOLEAN /\ r.first \in BOOLEAN
           /\ r.gen \in 0 .. N /\ r.taken \in 0 .. N /\ r.ahead \in 0 .. N /\ r.cur \in 0 .. N
           /\ r.syn \in [Parts -> {"no", "run", "ok", "bad"}]
           /\ r.prefix \in Seq(Parts)
BY DEF RoundType

\* A change of fields the speaker's invariant does not read.
SameSpeaker(r, k) ==
    /\ k.pc = r.pc /\ k.sp = r.sp /\ k.cancel = r.cancel /\ k.taken = r.taken /\ k.ahead = r.ahead
    /\ k.cur = r.cur /\ k.first = r.first /\ k.prefix = r.prefix

LEMMA QuietRound ==
    ASSUME TalkInv, NEW u \in Us, NEW k \in RoundType,
           round' = [round EXCEPT ![u] = k], SameSpeaker(round[u], k), Speaker(k),
           wav' \in Audio, UNCHANGED <<Rest, mute, said, excused>>
    PROVE  Effect(u, k)
<1> DEFINE r == round[u]
<1>1. RoundEffect(u, r, k) BY DEF RoundEffect, SameSpeaker
<1>2. SlotEffect(u, k) BY DEF SlotEffect, Rest
<1>3. Mutes(k) => Mutes(r) BY DEF SameSpeaker, Mutes
<1>4. MuteEffect(u, r, k) BY <1>3 DEF MuteEffect, TalkInv, TalkTyped
<1>5. TurnEffect(u, r, k) BY DEF TurnEffect, SameSpeaker, Rest
<1>6. QED BY <1>1, <1>2, <1>4, <1>5 DEF Effect, Rest, ear

LEMMA GenerateEffect ==
    ASSUME ConversationAssumption, TalkInv, NEW u \in Us, Generate(u)
    PROVE  \E k \in RoundType : Effect(u, k)
<1> PICK r \in RoundType : r = round[u] BY DEF TalkInv, TalkTyped
<1>0. Speaker(r) /\ r.pc = "local" /\ r.genEnd = "no"
  BY DEF TalkInv, Speakers, Generate, Local
<1> USE RoundFields
<1>1. wav' \in Audio BY DEF Generate, TalkInv, TalkTyped
<1>2. CASE r.gen < N /\ round' = [round EXCEPT ![u].gen = @ + 1]
  <2> DEFINE k == [r EXCEPT !.gen = r.gen + 1]
  <2>0. r.gen + 1 \in 0 .. N BY <1>2 DEF ConversationAssumption
  <2>1. k \in RoundType BY <2>0 DEF RoundType
  <2>2. round' = [round EXCEPT ![u] = k] BY <1>2
  <2>3. SameSpeaker(r, k) /\ k.gen = r.gen + 1 /\ k.genEnd = r.genEnd BY DEF SameSpeaker, RoundType
  <2>4. Speaker(k)
    <3> HIDE DEF k
    <3>1. r.sp \in {"recv", "wait", "play"} => r.ahead # 0 \/ r.taken = 0 BY <1>0 DEF Speaker
    <3>2. r.taken <= k.gen BY <1>0, <2>3 DEF Speaker, ConversationAssumption
    <3>3. QED BY <1>0, <2>3, <3>1, <3>2 DEF Speaker, SameSpeaker
  <2>5. QED BY <1>1, <2>1, <2>2, <2>3, <2>4, QuietRound DEF Generate
<1>3. ASSUME NEW e \in {"ok", "bad"}, round' = [round EXCEPT ![u].genEnd = e]
      PROVE  \E k \in RoundType : Effect(u, k)
  <2> DEFINE k == [r EXCEPT !.genEnd = e]
  <2>1. k \in RoundType BY DEF RoundType
  <2>2. round' = [round EXCEPT ![u] = k] BY <1>3
  <2>3. SameSpeaker(r, k) /\ k.gen = r.gen /\ k.genEnd = e BY DEF SameSpeaker, RoundType
  <2>4. Speaker(k)
    <3> HIDE DEF k
    <3>1. r.sp \in {"recv", "wait", "play"} => r.ahead # 0 \/ r.taken = 0 BY <1>0 DEF Speaker
    <3>3. QED BY <1>0, <2>3, <3>1 DEF Speaker, SameSpeaker
  <2>5. QED BY <1>1, <2>1, <2>2, <2>3, <2>4, QuietRound DEF Generate
<1>4. QED BY <1>2, <1>3 DEF Generate

LEMMA SynthesizeEffect ==
    ASSUME ConversationAssumption, TalkInv, NEW u \in Us, NEW s \in Parts, Synthesize(u, s)
    PROVE  \E k \in RoundType : Effect(u, k)
<1> PICK r \in RoundType : r = round[u] BY DEF TalkInv, TalkTyped
<1>0. Speaker(r) BY DEF TalkInv, Speakers
<1> USE RoundFields
<1>1. wav' \in Audio
  BY DEF Synthesize, TalkInv, TalkTyped, Audio, Parts, ConversationAssumption
<1>2. PICK o \in {"no", "ok", "bad"} : round' = [round EXCEPT ![u].syn[s] = o]
  BY DEF Synthesize
<1> DEFINE z == [r.syn EXCEPT ![s] = o]
           k == [r EXCEPT !.syn = z]
<1>3. z \in [Parts -> {"no", "run", "ok", "bad"}] OBVIOUS
<1>4. k \in RoundType BY <1>3 DEF RoundType
<1>5. round' = [round EXCEPT ![u] = k] BY <1>2
<1>6. SameSpeaker(r, k) /\ k.gen = r.gen /\ k.genEnd = r.genEnd BY DEF SameSpeaker, RoundType
<1>7. Speaker(k)
  <2> HIDE DEF k
  <2>1. QED BY <1>0, <1>6 DEF Speaker, SameSpeaker
<1>8. QED BY <1>1, <1>4, <1>5, <1>6, <1>7, QuietRound DEF Synthesize

\* A step of the speaker within the local leg: only the mute and what was said
\* are left to say.
LEMMA SpeakerEffect ==
    ASSUME TalkInv, NEW u \in Us, NEW k \in RoundType,
           round' = [round EXCEPT ![u] = k], round[u].pc = "local",
           k.pc = round[u].pc, k.cancel = round[u].cancel, Speaker(k),
           MuteEffect(u, round[u], k), TurnEffect(u, round[u], k),
           UNCHANGED <<ear, inbox, bridge, activeRound, wav>>
    PROVE  Effect(u, k)
<1>1. RoundEffect(u, round[u], k) BY DEF RoundEffect
<1>2. SlotEffect(u, k) BY DEF SlotEffect
<1>3. wav' \in Audio BY DEF TalkInv, TalkTyped
<1>4. QED BY <1>1, <1>2, <1>3 DEF Effect

LEMMA SpeakerEndsEffect ==
    ASSUME ConversationAssumption, TalkInv, NEW u \in Us, SpeakerEnds(u),
           round[u].pc = "local", round[u].sp = "recv",
           UNCHANGED <<Rest, wav, said, excused>>
    PROVE  \E k \in RoundType : Effect(u, k)
<1> PICK r \in RoundType : r = round[u] BY DEF TalkInv, TalkTyped
<1>0. Speaker(r) /\ r.pc = "local" /\ r.sp = "recv" BY DEF TalkInv, Speakers
<1> USE RoundFields
<1> DEFINE k == [r EXCEPT !.sp = "done", !.ahead = 0]
<1>a. 0 \in 0 .. N BY DEF ConversationAssumption
<1>1. k \in RoundType BY <1>a DEF RoundType
<1>2. round' = [round EXCEPT ![u] = k] BY DEF SpeakerEnds
<1>3. /\ k.pc = r.pc /\ k.cancel = r.cancel /\ k.sp = "done" /\ k.first = r.first /\ k.gen = r.gen
      /\ k.prefix = r.prefix /\ k.taken = r.taken
  BY DEF RoundType
<1> HIDE DEF k
<1>4. Speaker(k) BY <1>0, <1>3 DEF Speaker
<1>5. MuteEffect(u, r, k)
  <2>1. mute \in BOOLEAN /\ excused \in BOOLEAN BY DEF TalkInv, TalkTyped
  <2>2. ~Mutes(k) BY <1>0, <1>3 DEF Mutes
  <2>3. CASE r.first BY <2>1, <2>2, <2>3 DEF MuteEffect, SpeakerEnds
  <2>4. CASE ~r.first
    <3>1. Mutes(r) BY <2>4, <1>0 DEF Mutes
    <3>2. QED BY <2>1, <2>2, <3>1 DEF MuteEffect, SpeakerEnds
  <2>5. QED BY <2>3, <2>4
<1>6. TurnEffect(u, r, k) BY <1>0, <1>3 DEF TurnEffect, Rest
<1>7. QED BY <1>0, <1>1, <1>2, <1>3, <1>4, <1>5, <1>6, SpeakerEffect DEF Rest

LEMMA SpeakerTakesEffect ==
    ASSUME ConversationAssumption, TalkInv, NEW u \in Us, SpeakerTakes(u)
    PROVE  \E k \in RoundType : Effect(u, k)
<1> PICK r \in RoundType : r = round[u] BY DEF TalkInv, TalkTyped
<1>0. Speaker(r) /\ r.pc = "local" /\ r.sp = "recv" /\ r.taken < r.gen
  BY DEF TalkInv, Speakers, SpeakerTakes, Local
<1>b. UNCHANGED <<Rest, wav, said, excused>> BY DEF SpeakerTakes
<1> USE RoundFields
<1>1. CASE r.cancel
  <2>1. SpeakerEnds(u) BY <1>1 DEF SpeakerTakes
  <2>2. QED BY <2>1, <1>0, <1>b, SpeakerEndsEffect
<1>2. CASE ~r.cancel
  <2> DEFINE s == r.taken + 1
             z == [r.syn EXCEPT ![s] = "run"]
             v == IF r.ahead = 0 THEN "recv" ELSE "wait"
             k == [r EXCEPT !.taken = s, !.syn = z, !.ahead = s, !.cur = r.ahead, !.sp = v]
  <2>0. s \in 0 .. N /\ s \in Nat /\ s # 0 /\ r.taken \in Nat
    BY <1>0 DEF ConversationAssumption
  <2>a. z \in [Parts -> {"no", "run", "ok", "bad"}] OBVIOUS
  <2>b. v \in {"off", "recv", "wait", "play", "done"} OBVIOUS
  <2>1. k \in RoundType
    <3> HIDE DEF s, z, v
    <3>1. QED BY <2>0, <2>a, <2>b DEF RoundType
  <2>2. round' = [round EXCEPT ![u] = k] /\ mute' = mute
    <3>1. /\ round' = [round EXCEPT ![u].taken = s, ![u].syn[s] = "run", ![u].ahead = s,
                                    ![u].cur = r.ahead, ![u].sp = v]
          /\ mute' = mute
      BY <1>2 DEF SpeakerTakes
    <3> HIDE DEF s, v
    <3>2. QED BY <3>1 DEF TalkInv, TalkTyped, RoundType
  <2>3. /\ k.pc = r.pc /\ k.cancel = r.cancel /\ k.sp = v /\ k.first = r.first /\ k.gen = r.gen
        /\ k.prefix = r.prefix /\ k.taken = s /\ k.ahead = s /\ k.cur = r.ahead
    BY <2>1 DEF RoundType
  <2> HIDE DEF k
  <2>c. Len(r.prefix) \in Nat /\ \A i \in 1 .. Len(r.prefix) : r.prefix[i] \in Nat
    BY DEF Parts
  <2>d. Before(r.prefix, s) BY <1>0 DEF Speaker
  <2>e. Before(r.prefix, s + 1) BY <2>0, <2>c, <2>d DEF Before
  <2>4. Speaker(k)
    <3>1. CASE r.ahead = 0
      <4>1. k.sp = "recv" BY <3>1, <2>3
      <4>2. k.taken <= k.gen BY <1>0, <2>3 DEF ConversationAssumption
      <4>3. QED BY <4>1, <4>2, <2>3, <2>d, <2>e, <2>0, <1>0 DEF Speaker
    <3>2. CASE r.ahead # 0
      <4>1. k.sp = "wait" BY <3>2, <2>3
      <4>2. k.taken <= k.gen BY <1>0, <2>3 DEF ConversationAssumption
      <4>3. r.ahead = r.taken /\ Before(r.prefix, r.ahead) BY <3>2, <1>0 DEF Speaker
      <4>4. k.cur # 0 /\ k.cur <= k.taken /\ k.cur < k.ahead /\ Before(k.prefix, k.cur)
        BY <4>3, <2>3, <2>0, <3>2
      <4>5. QED BY <4>1, <4>2, <4>4, <2>3, <2>e, <2>0, <1>0 DEF Speaker
    <3>3. QED BY <3>1, <3>2
  <2>5. MuteEffect(u, r, k)
    <3>1. Mutes(k) => Mutes(r) BY <2>3, <1>0 DEF Mutes
    <3>2. QED BY <3>1, <2>2, <1>b DEF MuteEffect, TalkInv, TalkTyped
  <2>6. TurnEffect(u, r, k) BY <1>0, <2>3, <1>b DEF TurnEffect, Rest
  <2>7. QED BY <1>0, <1>b, <2>1, <2>2, <2>3, <2>4, <2>5, <2>6, SpeakerEffect DEF Rest
<1>3. QED BY <1>1, <1>2

LEMMA SpeakerDrainsEffect ==
    ASSUME ConversationAssumption, TalkInv, NEW u \in Us, SpeakerDrains(u)
    PROVE  \E k \in RoundType : Effect(u, k)
<1> PICK r \in RoundType : r = round[u] BY DEF TalkInv, TalkTyped
<1>0. Speaker(r) /\ r.pc = "local" /\ r.sp = "recv" /\ r.taken = r.gen /\ r.genEnd # "no"
  BY DEF TalkInv, Speakers, SpeakerDrains, Local
<1>b. UNCHANGED <<Rest, wav, said, excused>> BY DEF SpeakerDrains
<1> USE RoundFields
<1>1. CASE r.cancel \/ r.ahead = 0
  <2>1. SpeakerEnds(u) BY <1>1 DEF SpeakerDrains
  <2>2. QED BY <2>1, <1>0, <1>b, SpeakerEndsEffect
<1>2. CASE ~(r.cancel \/ r.ahead = 0)
  <2> DEFINE k == [r EXCEPT !.cur = r.ahead, !.ahead = 0, !.sp = "wait"]
  <2>0. 0 \in 0 .. N BY DEF ConversationAssumption
  <2>1. k \in RoundType BY <2>0 DEF RoundType
  <2>2. round' = [round EXCEPT ![u] = k] /\ mute' = mute BY <1>2 DEF SpeakerDrains
  <2>3. /\ k.pc = r.pc /\ k.cancel = r.cancel /\ k.sp = "wait" /\ k.first = r.first /\ k.gen = r.gen
        /\ k.prefix = r.prefix /\ k.taken = r.taken /\ k.ahead = 0 /\ k.cur = r.ahead
        /\ k.genEnd = r.genEnd
    BY <2>1 DEF RoundType
  <2> HIDE DEF k
  <2>4. Speaker(k)
    <3>1. r.ahead = r.taken /\ Before(r.prefix, r.ahead) BY <1>2, <1>0 DEF Speaker
    <3>2. k.cur # 0 /\ k.cur <= k.taken /\ Before(k.prefix, k.cur)
      BY <3>1, <2>3, <1>2 DEF ConversationAssumption
    <3>3. QED BY <3>2, <2>3, <1>0 DEF Speaker
  <2>5. MuteEffect(u, r, k)
    <3>1. Mutes(k) => Mutes(r) BY <2>3, <1>0 DEF Mutes
    <3>2. QED BY <3>1, <2>2, <1>b DEF MuteEffect, TalkInv, TalkTyped
  <2>6. TurnEffect(u, r, k) BY <1>0, <2>3, <1>b DEF TurnEffect, Rest
  <2>7. QED BY <1>0, <1>b, <2>1, <2>2, <2>3, <2>4, <2>5, <2>6, SpeakerEffect DEF Rest
<1>3. QED BY <1>1, <1>2

LEMMA StartPlayingEffect ==
    ASSUME ConversationAssumption, TalkInv, NEW u \in Us, StartPlaying(u)
    PROVE  \E k \in RoundType : Effect(u, k)
<1> PICK r \in RoundType : r = round[u] BY DEF TalkInv, TalkTyped
<1>0. Speaker(r) /\ r.sp = "wait" BY DEF TalkInv, Speakers, StartPlaying
<1>a. r.pc = "local" BY <1>0 DEF Speaker
<1>b. UNCHANGED <<Rest, wav, said>> BY DEF StartPlaying
<1> USE RoundFields
<1> DEFINE k == [r EXCEPT !.sp = "play", !.first = FALSE]
<1>1. k \in RoundType BY DEF RoundType
<1>2. round' = [round EXCEPT ![u] = k] BY DEF StartPlaying
<1>3. /\ k.pc = r.pc /\ k.cancel = r.cancel /\ k.sp = "play" /\ k.first = FALSE /\ k.gen = r.gen
      /\ k.prefix = r.prefix /\ k.taken = r.taken /\ k.ahead = r.ahead /\ k.cur = r.cur
      /\ k.genEnd = r.genEnd
  BY <1>1 DEF RoundType
<1> HIDE DEF k
<1>4. Speaker(k) BY <1>0, <1>a, <1>3 DEF Speaker
<1>5. MuteEffect(u, r, k)
  <2>1. mute \in BOOLEAN /\ excused \in BOOLEAN BY DEF TalkInv, TalkTyped
  <2>2. excused' = (excused \/ Muting \ {u} # {}) /\ mute' = (mute \/ r.first) BY DEF StartPlaying
  <2>3. ~r.first => Mutes(r) BY <1>0 DEF Mutes
  <2>4. mute' \/ (Mutes(r) /\ mute' = mute) BY <2>1, <2>2, <2>3
  <2>5. mute' \in BOOLEAN /\ excused' \in BOOLEAN BY <2>1, <2>2
  <2>6. QED BY <2>2, <2>4, <2>5 DEF MuteEffect
<1>6. TurnEffect(u, r, k) BY <1>a, <1>3, <1>b DEF TurnEffect, Rest
<1>7. QED BY <1>a, <1>b, <1>1, <1>2, <1>3, <1>4, <1>5, <1>6, SpeakerEffect DEF Rest

\* Back at the channel: what was at hand is behind, what is ahead stays.
Counted(r, p) == p = r.prefix \/ p = Append(r.prefix, r.cur)
Backed(r, p) == [r EXCEPT !.sp = "recv", !.cur = 0, !.prefix = p]

LEMMA BackIsFine ==
    ASSUME ConversationAssumption, NEW r \in RoundType, Speaker(r), r.sp \in {"wait", "play"},
           NEW p \in Seq(Parts), Counted(r, p),
           NEW k, k = Backed(r, p)
    PROVE  /\ k \in RoundType /\ Speaker(k)
           /\ k.pc = r.pc /\ k.cancel = r.cancel /\ k.prefix = p
           /\ Mutes(k) => Mutes(r)
<1> USE RoundFields
<1>0. 0 \in 0 .. N BY DEF ConversationAssumption
<1>1. k \in RoundType BY <1>0 DEF RoundType, Backed
<1>2. /\ k.pc = r.pc /\ k.cancel = r.cancel /\ k.sp = "recv" /\ k.first = r.first /\ k.gen = r.gen
      /\ k.prefix = p /\ k.taken = r.taken /\ k.ahead = r.ahead /\ k.cur = 0
      /\ k.genEnd = r.genEnd
  BY <1>1 DEF RoundType, Backed
<1>3. r.pc = "local" BY DEF Speaker
<1>4. Mutes(k) => Mutes(r) BY <1>2 DEF Mutes
<1> PICK c \in 0 .. N : c = r.cur OBVIOUS
<1> PICK q \in Seq(Parts) : q = r.prefix OBVIOUS
<1>5. c \in Nat /\ c # 0 /\ c <= r.taken /\ Rising(q) /\ Before(q, c) /\ (r.ahead # 0 => c < r.ahead)
  BY DEF Speaker
<1>a. c \in Parts BY <1>5 DEF Parts, ConversationAssumption
<1>b. Len(q) \in Nat /\ \A i \in 1 .. Len(q) : q[i] \in Nat BY DEF Parts
<1>c. \A i \in 1 .. Len(p) :
         \/ i \in 1 .. Len(q) /\ p[i] = q[i]
         \/ i = Len(q) + 1 /\ p[i] = c
  <2>0. p = q \/ p = Append(q, c) BY DEF Counted
  <2>1. CASE p = q BY <2>1
  <2>2. CASE p = Append(q, c)
    <3>1. Len(p) = Len(q) + 1 /\ p[Len(q) + 1] = c /\ \A i \in 1 .. Len(q) : p[i] = q[i]
      BY <2>2, <1>a
    <3>2. \A i \in 1 .. Len(p) : i \in 1 .. Len(q) \/ i = Len(q) + 1 BY <3>1, <1>b
    <3>3. QED BY <3>1, <3>2
  <2>3. QED BY <2>0, <2>1, <2>2
<1>6. \A i \in 1 .. Len(p) : p[i] <= c BY <1>c, <1>5, <1>b DEF Before
<1>7. Rising(p)
  <2>1. Len(q) = 0 \/ (Len(q) \in 1 .. Len(q) /\ q[Len(q)] >= Len(q) /\ q[Len(q)] < c)
    <3> PICK n \in Nat : n = Len(q) BY <1>b
    <3>1. n = 0 \/ n \in 1 .. n OBVIOUS
    <3>2. \A i \in 1 .. n : q[i] >= i /\ q[i] < c BY <1>5 DEF Rising, Before
    <3>3. QED BY <3>1, <3>2
  <2>2. c >= Len(q) + 1 BY <2>1, <1>5, <1>b
  <2>3. \A i \in 1 .. Len(p) : p[i] >= i BY <1>c, <1>5, <2>2 DEF Rising
  <2>4. \A i, j \in 1 .. Len(p) : i < j => p[i] < p[j]
    <3> TAKE i, j \in 1 .. Len(p)
    <3> HAVE i < j
    <3>1. i \in 1 .. Len(q) /\ p[i] = q[i] BY <1>c, <1>b
    <3>2. CASE j \in 1 .. Len(q) /\ p[j] = q[j] BY <3>1, <3>2, <1>5 DEF Rising
    <3>3. CASE j = Len(q) + 1 /\ p[j] = c BY <3>1, <3>3, <1>5 DEF Before
    <3>4. QED BY <3>2, <3>3, <1>c
  <2>5. QED BY <2>3, <2>4 DEF Rising
<1>8. \A i \in 1 .. Len(p) : p[i] \in Nat BY DEF Parts
<1>9. Before(p, r.taken + 1) /\ (r.ahead # 0 => Before(p, r.ahead))
  BY <1>5, <1>6, <1>8 DEF Before
<1>10. r.taken <= r.gen /\ (r.ahead # 0 => r.ahead = r.taken)
       /\ (r.ahead = 0 /\ r.taken # 0 => r.genEnd # "no" /\ r.taken = r.gen)
  BY DEF Speaker
<1>11. Speaker(k) BY <1>2, <1>3, <1>7, <1>9, <1>10 DEF Speaker
<1>12. QED BY <1>1, <1>2, <1>4, <1>11

LEMMA BackEffect ==
    ASSUME ConversationAssumption, TalkInv, NEW u \in Us, round[u].sp \in {"wait", "play"},
           round' = Back(u), UNCHANGED <<Rest, mute, wav, said, excused>>
    PROVE  \E k \in RoundType : Effect(u, k)
<1> PICK r \in RoundType : r = round[u] BY DEF TalkInv, TalkTyped
<1>0. Speaker(r) /\ r.sp \in {"wait", "play"} BY DEF TalkInv, Speakers
<1>a. r.pc = "local" BY <1>0 DEF Speaker
<1> USE RoundFields
<1> PICK p \in Seq(Parts) : p = r.prefix OBVIOUS
<1>k. PICK k : k = Backed(r, p) OBVIOUS
<1>1. /\ k \in RoundType /\ Speaker(k)
      /\ k.pc = r.pc /\ k.cancel = r.cancel /\ k.prefix = r.prefix
      /\ Mutes(k) => Mutes(r)
  BY <1>0, <1>k, BackIsFine DEF Counted
<1>b. k = [r EXCEPT !.sp = "recv", !.cur = 0] BY <1>k DEF RoundType, Backed
<1>2. round' = [round EXCEPT ![u] = k] BY <1>b DEF Back
<1>3. MuteEffect(u, r, k) BY <1>1 DEF MuteEffect, TalkInv, TalkTyped
<1>4. TurnEffect(u, r, k) BY <1>1, <1>a DEF TurnEffect, Rest
<1>5. QED BY <1>a, <1>1, <1>2, <1>3, <1>4, SpeakerEffect DEF Rest

LEMMA PlayedEffect ==
    ASSUME ConversationAssumption, TalkInv, NEW u \in Us, Played(u)
    PROVE  \E k \in RoundType : Effect(u, k)
<1> PICK r \in RoundType : r = round[u] BY DEF TalkInv, TalkTyped
<1>0. Speaker(r) /\ r.sp = "play" BY DEF TalkInv, Speakers, Played
<1>a. r.pc = "local" BY <1>0 DEF Speaker
<1> USE RoundFields
<1>b. r.cur \in Parts BY <1>0 DEF Speaker, Parts, ConversationAssumption
<1>c. PICK p \in Seq(Parts) : p = Append(r.prefix, r.cur)
  <2>1. r.prefix \in Seq(Parts) OBVIOUS
  <2>2. Append(r.prefix, r.cur) \in Seq(Parts) BY <1>b, <2>1, AppendProperties
  <2>3. QED BY <2>2
<1>k. PICK k : k = Backed(r, p) OBVIOUS
<1>1. /\ k \in RoundType /\ Speaker(k)
      /\ k.pc = r.pc /\ k.cancel = r.cancel /\ k.prefix = p
      /\ Mutes(k) => Mutes(r)
  <2>1. r.sp \in {"wait", "play"} BY <1>0
  <2>2. Counted(r, p) BY <1>c DEF Counted
  <2>3. QED BY <1>0, <2>1, <2>2, <1>k, BackIsFine
<1>2. round' = [round EXCEPT ![u] = k]
  <2>1. round \in [Us -> RoundType] BY DEF TalkInv, TalkTyped
  <2>2. Back(u)[u] = [r EXCEPT !.sp = "recv", !.cur = 0] BY <2>1 DEF Back
  <2>3. Back(u)[u].prefix = r.prefix BY <2>2 DEF RoundType
  <2>4. round' = [Back(u) EXCEPT ![u] = [Back(u)[u] EXCEPT !.prefix = p]]
    BY <2>3, <1>c DEF Played
  <2>5. [Back(u)[u] EXCEPT !.prefix = p] = k BY <2>2, <1>k DEF RoundType, Backed
  <2>6. QED BY <2>1, <2>4, <2>5 DEF Back
<1>3. MuteEffect(u, r, k) BY <1>1 DEF MuteEffect, TalkInv, TalkTyped, Played
<1>4. TurnEffect(u, r, k) BY <1>1, <1>a, <1>b, <1>c DEF TurnEffect, Rest, Played
<1>5. QED BY <1>a, <1>1, <1>2, <1>3, <1>4, SpeakerEffect DEF Rest, Played

LEMMA SpeakerStepEffect ==
    ASSUME ConversationAssumption, TalkInv, NEW u \in Us, SpeakerStep(u)
    PROVE  \E k \in RoundType : Effect(u, k)
<1>1. CASE SpeakerTakes(u) BY <1>1, SpeakerTakesEffect
<1>2. CASE SpeakerDrains(u) BY <1>2, SpeakerDrainsEffect
<1>3. CASE StartPlaying(u) BY <1>3, StartPlayingEffect
<1>4. CASE SkipSentence(u) BY <1>4, BackEffect DEF SkipSentence
<1>5. CASE Played(u) BY <1>5, PlayedEffect
<1>6. CASE PlayerStops(u) BY <1>6, BackEffect DEF PlayerStops
<1>7. QED BY <1>1, <1>2, <1>3, <1>4, <1>5, <1>6 DEF SpeakerStep

-----------------------------------------------------------------------------
(* The end of a round                                                      *)

LEMMA EndedIsFine ==
    ASSUME ConversationAssumption, TalkInv, NEW u \in Us, NEW k, k = Ended(u)
    PROVE  /\ k \in RoundType /\ Speaker(k)
           /\ k.pc = "end" /\ ~Mutes(k)
<1> DEFINE z == [s \in Parts |-> IF round[u].syn[s] = "run" THEN "run" ELSE "no"]
<1>1. z \in [Parts -> {"no", "run", "ok", "bad"}] OBVIOUS
<1>2. 0 \in 0 .. N BY DEF ConversationAssumption
<1>3. /\ k = [pc |-> "end", cancel |-> FALSE, gen |-> 0, genEnd |-> "no", sp |-> "off",
              taken |-> 0, ahead |-> 0, cur |-> 0, first |-> TRUE, syn |-> z, prefix |-> <<>>]
  BY DEF Ended, NoRound
<1> HIDE DEF z
<1>4. <<>> \in Seq(Parts) OBVIOUS
<1>5. k \in RoundType BY <1>1, <1>2, <1>3, <1>4 DEF RoundType
<1>6. /\ k.pc = "end" /\ k.sp = "off" /\ k.first /\ k.prefix = <<>> /\ k.taken = 0 /\ k.ahead = 0
      /\ k.gen = 0
  BY <1>3
<1>7. Rising(<<>>) /\ Before(<<>>, 0 + 1) BY DEF Rising, Before
<1>8. Speaker(k) BY <1>6, <1>7 DEF Speaker
<1>9. ~Mutes(k) BY <1>6 DEF Mutes
<1>10. QED BY <1>5, <1>6, <1>8, <1>9

\* Sentences in their order are not more than there are.
LEMMA RisingIsSpeech ==
    ASSUME ConversationAssumption, NEW s \in Seq(Parts), Rising(s)
    PROVE  s \in Speech
<1> PICK n \in Nat : n = Len(s) BY LenProperties
<1>0. n <= N => s \in Speech BY DEF Speech
<1>1. CASE n = 0 BY <1>0, <1>1 DEF ConversationAssumption
<1>2. CASE n # 0
  <2>1. n \in 1 .. n /\ s[n] \in 1 .. N BY <1>2, ElementOfSeq DEF Parts
  <2>2. s[n] >= n BY <2>1 DEF Rising
  <2>3. QED BY <1>0, <2>1, <2>2 DEF ConversationAssumption
<1>3. QED BY <1>1, <1>2

\* What the record gets where nothing was cut.
LEMMA NothingWhole ==
    ASSUME ConversationAssumption
    PROVE  <<>> \in Speech /\ Whole \in Speech
<1>1. Whole \in [1 .. N -> Parts] BY DEF Whole, Parts
<1>2. Whole \in Seq(Parts) /\ Len(Whole) = N BY <1>1, IsASeq, LenProperties DEF ConversationAssumption
<1>3. <<>> \in Seq(Parts) /\ Len(<<>>) = 0 OBVIOUS
<1>4. QED BY <1>2, <1>3 DEF Speech, ConversationAssumption

LEMMA AnsweredEffect ==
    ASSUME ConversationAssumption, TalkInv, NEW u \in Us, NEW spoken, NEW cut,
           ReplyReady(u, spoken, cut),
           round[u].pc \in {"remote", "local"}, round[u].sp \in {"off", "done"},
           UNCHANGED <<ear, inbox, bridge, said, turns>>
    PROVE  \E k \in RoundType : Effect(u, k)
<1> PICK r \in RoundType : r = round[u] BY DEF TalkInv, TalkTyped
<1>0. Speaker(r) /\ r.pc \in {"remote", "local"} /\ r.sp \in {"off", "done"} BY DEF TalkInv, Speakers
<1>a. mute \in BOOLEAN /\ excused \in BOOLEAN /\ wav \in Audio BY DEF TalkInv, TalkTyped
<1>b. <<u, 0>> \in Audio BY DEF Audio, ConversationAssumption
<1>1. PICK e \in {"speak", "finish"} : round' = [round EXCEPT ![u].pc = e]
                                       /\ (e = "speak" <=> ~spoken /\ ~cut)
  BY DEF ReplyReady
<1> USE RoundFields
<1> DEFINE k == [r EXCEPT !.pc = e]
<1>2. k \in RoundType BY DEF RoundType
<1>3. round' = [round EXCEPT ![u] = k] BY <1>1
<1>4. /\ k.pc = e /\ k.cancel = r.cancel /\ k.sp = r.sp /\ k.first = r.first /\ k.gen = r.gen
      /\ k.prefix = r.prefix /\ k.taken = r.taken /\ k.ahead = r.ahead
  BY <1>2 DEF RoundType
<1> HIDE DEF k
<1>5. Speaker(k) BY <1>0, <1>4 DEF Speaker
<1>6. RoundEffect(u, r, k) BY <1>0, <1>4, <1>5 DEF RoundEffect
<1>7. SlotEffect(u, k) BY <1>4 DEF SlotEffect, ReplyReady, Release
<1>8. MuteEffect(u, r, k) /\ wav' \in Audio
  <2>1. CASE e = "speak"
    <3>1. mute' = TRUE /\ excused' = (excused \/ Muting \ {u} # {}) /\ wav' = <<u, 0>>
      BY <2>1, <1>1 DEF ReplyReady
    <3>2. QED BY <3>1, <1>a, <1>b DEF MuteEffect
  <2>2. CASE e = "finish"
    <3>1. mute' = mute /\ excused' = excused /\ wav' = wav BY <2>2, <1>1 DEF ReplyReady
    <3>2. ~Mutes(k) BY <2>2, <1>4, <1>0 DEF Mutes, Speaker
    <3>3. QED BY <3>1, <3>2, <1>a DEF MuteEffect
  <2>3. QED BY <2>1, <2>2
<1>9. TurnEffect(u, r, k) BY <1>0, <1>4 DEF TurnEffect
<1>10. QED BY <1>2, <1>3, <1>6, <1>7, <1>8, <1>9 DEF Effect

LEMMA FailedEffect ==
    ASSUME ConversationAssumption, TalkInv, NEW u \in Us, Failed(u),
           round[u].pc \in {"remote", "local"}, UNCHANGED <<ear, inbox, bridge, said>>
    PROVE  \E k \in RoundType : Effect(u, k)
<1> PICK r \in RoundType : r = round[u] BY DEF TalkInv, TalkTyped
<1>0. r.pc \in {"remote", "local"} OBVIOUS
<1>a. mute \in BOOLEAN /\ excused \in BOOLEAN /\ wav \in Audio BY DEF TalkInv, TalkTyped
<1>k. PICK k : k = Ended(u) OBVIOUS
<1>1. k \in RoundType /\ Speaker(k) /\ k.pc = "end" /\ ~Mutes(k) BY <1>k, EndedIsFine
<1>2. round' = [round EXCEPT ![u] = k] BY <1>k DEF Failed
<1>3. RoundEffect(u, r, k) BY <1>0, <1>1 DEF RoundEffect
<1>4. SlotEffect(u, k) BY <1>1 DEF SlotEffect, Failed, Release
<1>5. MuteEffect(u, r, k) /\ wav' \in Audio BY <1>1, <1>a DEF MuteEffect, Failed
<1>6. TurnEffect(u, r, k)
  <2> DEFINE t == [done |-> TRUE, reply |-> <<>>, cut |-> FALSE]
  <2>1. t \in TurnType /\ ~t.cut BY NothingWhole DEF TurnType
  <2>2. turns' = [turns EXCEPT ![u] = t] BY DEF Failed, Record
  <2>3. QED BY <1>0, <1>1, <2>1, <2>2 DEF TurnEffect
<1>7. QED BY <1>1, <1>2, <1>3, <1>4, <1>5, <1>6 DEF Effect

LEMMA RemoteEndsEffect ==
    ASSUME ConversationAssumption, TalkInv, NEW u \in Us, RemoteEnds(u)
    PROVE  \E k \in RoundType : Effect(u, k)
<1> PICK r \in RoundType : r = round[u] BY DEF TalkInv, TalkTyped
<1>0. Speaker(r) /\ r.pc = "remote" BY DEF TalkInv, Speakers, RemoteEnds
<1>a. r.sp = "off" /\ r.first /\ r.prefix = <<>> /\ r.taken = 0 /\ r.ahead = 0 BY <1>0 DEF Speaker
<1>b. UNCHANGED <<ear, inbox, bridge, said>> BY DEF RemoteEnds
<1>1. CASE ReplyReady(u, FALSE, FALSE) /\ UNCHANGED turns
  BY <1>0, <1>a, <1>b, <1>1, AnsweredEffect
<1>2. CASE Failed(u)
  BY <1>0, <1>b, <1>2, FailedEffect
<1>3. CASE /\ round' = [round EXCEPT ![u].pc = "local", ![u].sp = "recv"]
           /\ UNCHANGED <<activeRound, mute, wav, turns, excused>>
  <2> USE RoundFields
  <2> DEFINE k == [r EXCEPT !.pc = "local", !.sp = "recv"]
  <2>1. k \in RoundType BY DEF RoundType
  <2>2. round' = [round EXCEPT ![u] = k] BY <1>3
  <2>3. /\ k.pc = "local" /\ k.cancel = r.cancel /\ k.sp = "recv" /\ k.first = r.first
        /\ k.prefix = r.prefix /\ k.taken = r.taken /\ k.ahead = r.ahead /\ k.gen = r.gen
    BY <2>1 DEF RoundType
  <2> HIDE DEF k
  <2>4. Speaker(k) BY <1>0, <1>a, <2>3 DEF Speaker
  <2>5. RoundEffect(u, r, k) BY <1>0, <2>3, <2>4 DEF RoundEffect
  <2>6. SlotEffect(u, k) BY <1>3 DEF SlotEffect
  <2>7. ~Mutes(k) BY <1>a, <2>3 DEF Mutes
  <2>8. MuteEffect(u, r, k) /\ wav' \in Audio BY <1>3, <2>7 DEF MuteEffect, TalkInv, TalkTyped
  <2>9. TurnEffect(u, r, k) BY <1>0, <1>b, <1>3, <2>3 DEF TurnEffect
  <2>10. QED BY <1>b, <2>1, <2>2, <2>5, <2>6, <2>8, <2>9 DEF Effect
<1>4. QED BY <1>1, <1>2, <1>3 DEF RemoteEnds

LEMMA LocalEndsEffect ==
    ASSUME ConversationAssumption, TalkInv, NEW u \in Us, LocalEnds(u)
    PROVE  \E k \in RoundType : Effect(u, k)
<1>0. round[u].pc = "local" /\ round[u].sp = "done" BY DEF LocalEnds, Local
<1>b. UNCHANGED <<ear, inbox, bridge, said>> BY DEF LocalEnds
<1>1. CASE Failed(u) BY <1>0, <1>b, <1>1, FailedEffect
<1>2. CASE ReplyReady(u, round[u].prefix # <<>>, round[u].cancel) /\ UNCHANGED turns
  BY <1>0, <1>b, <1>2, AnsweredEffect
<1>3. QED BY <1>1, <1>2 DEF LocalEnds

LEMMA SpokenWholeEffect ==
    ASSUME ConversationAssumption, TalkInv, NEW u \in Us, SpokenWhole(u)
    PROVE  \E k \in RoundType : Effect(u, k)
<1> PICK r \in RoundType : r = round[u] BY DEF TalkInv, TalkTyped
<1>0. Speaker(r) /\ r.pc = "speak" BY DEF TalkInv, Speakers, SpokenWhole
<1> USE RoundFields
<1>a. r.sp \in {"off", "done"} BY <1>0 DEF Speaker
<1> DEFINE k == [r EXCEPT !.pc = "finish"]
<1>1. k \in RoundType BY DEF RoundType
<1>2. round' = [round EXCEPT ![u] = k] BY DEF SpokenWhole
<1>3. /\ k.pc = "finish" /\ k.cancel = r.cancel /\ k.sp = r.sp /\ k.first = r.first /\ k.gen = r.gen
      /\ k.prefix = r.prefix /\ k.taken = r.taken /\ k.ahead = r.ahead
  BY <1>1 DEF RoundType
<1> HIDE DEF k
<1>4. Speaker(k) BY <1>0, <1>a, <1>3 DEF Speaker
<1>5. RoundEffect(u, r, k) BY <1>0, <1>3, <1>4 DEF RoundEffect
<1>6. SlotEffect(u, k) BY DEF SlotEffect, SpokenWhole, Rest
<1>7. ~Mutes(k) /\ Mutes(r) BY <1>0, <1>a, <1>3 DEF Mutes, Speaker
<1>8. MuteEffect(u, r, k) /\ wav' \in Audio BY <1>7 DEF MuteEffect, TalkInv, TalkTyped, SpokenWhole
<1>9. TurnEffect(u, r, k) BY <1>0, <1>3 DEF TurnEffect, SpokenWhole, Rest
<1>10. QED BY <1>1, <1>2, <1>5, <1>6, <1>8, <1>9 DEF Effect, SpokenWhole, Rest

LEMMA FinishEffect ==
    ASSUME ConversationAssumption, TalkInv, NEW u \in Us, Finish(u)
    PROVE  \E k \in RoundType : Effect(u, k)
<1> PICK r \in RoundType : r = round[u] BY DEF TalkInv, TalkTyped
<1>0. r.pc = "finish" BY DEF Finish
<1>a. mute \in BOOLEAN /\ excused \in BOOLEAN /\ wav \in Audio BY DEF TalkInv, TalkTyped
<1>k. PICK k : k = Ended(u) OBVIOUS
<1>1. k \in RoundType /\ Speaker(k) /\ k.pc = "end" /\ ~Mutes(k) BY <1>k, EndedIsFine
<1>2. round' = [round EXCEPT ![u] = k] BY <1>k DEF Finish
<1>3. RoundEffect(u, r, k) BY <1>0, <1>1 DEF RoundEffect
<1>4. SlotEffect(u, k) BY DEF SlotEffect, Finish
<1>5. MuteEffect(u, r, k) /\ wav' \in Audio BY <1>1, <1>a DEF MuteEffect, Finish
<1>6. TurnEffect(u, r, k)
  <2> DEFINE cut == r.cancel /\ r.sp = "done"
             p == IF cut THEN r.prefix ELSE Whole
             t == [done |-> TRUE, reply |-> p, cut |-> cut]
  <2>0. r.prefix \in Speech
    <3>1. Speaker(r) BY DEF TalkInv, Speakers
    <3>2. r.prefix \in Seq(Parts) /\ Rising(r.prefix) BY <3>1, RoundFields DEF Speaker
    <3>3. QED BY <3>2, RisingIsSpeech
  <2>1. cut \in BOOLEAN /\ p \in Speech BY <2>0, NothingWhole, RoundFields
  <2>2. turns' = [turns EXCEPT ![u] = t] BY DEF Finish, Record
  <2>3. cut => p = r.prefix OBVIOUS
  <2> HIDE DEF cut, p
  <2>4. t \in TurnType /\ (t.cut => t.reply = r.prefix) BY <2>1, <2>3 DEF TurnType
  <2>5. QED BY <1>0, <1>1, <2>4, <2>2 DEF TurnEffect, Finish
<1>7. QED BY <1>1, <1>2, <1>3, <1>4, <1>5, <1>6 DEF Effect, Finish

LEMMA RoundStepEffect ==
    ASSUME ConversationAssumption, TalkInv, NEW u \in Us, RoundStep(u)
    PROVE  \E k \in RoundType : Effect(u, k)
BY RemoteEndsEffect, LocalEndsEffect, SpokenWholeEffect, FinishEffect DEF RoundStep

-----------------------------------------------------------------------------
(* The ear and the bridge                                                  *)

LEMMA QueueHead ==
    ASSUME NEW q \in Seq(Us), q # <<>>,
           \A i, j \in 1 .. Len(q) : q[i] = q[j] => i = j
    PROVE  /\ Head(q) \in Us /\ Tail(q) \in Seq(Us)
           /\ \E i \in 1 .. Len(q) : q[i] = Head(q)
           /\ \A i, j \in 1 .. Len(Tail(q)) : Tail(q)[i] = Tail(q)[j] => i = j
           /\ \A i \in 1 .. Len(Tail(q)) :
                 Tail(q)[i] # Head(q) /\ \E j \in 1 .. Len(q) : q[j] = Tail(q)[i]
<1>1. PICK n \in Nat : n = Len(q) /\ n # 0 BY EmptySeq, LenProperties
<1>2. PICK t \in Seq(Us) : t = Tail(q) BY HeadTailProperties
<1>3. Head(q) = q[1] /\ q[1] \in Us /\ 1 \in 1 .. n BY <1>1, HeadTailProperties
<1>4. Len(t) = n - 1 /\ \A i \in 1 .. Len(t) : t[i] = q[i + 1] BY <1>1, <1>2, HeadTailProperties
<1>5. \A i \in 1 .. Len(t) : i + 1 \in 1 .. n /\ i + 1 # 1 BY <1>1, <1>4
<1>6. QED BY <1>1, <1>2, <1>3, <1>4, <1>5

LEMMA HonestKept ==
    ASSUME TalkInv, said' = said,
           \A v \in Us : round'[v].prefix = round[v].prefix /\ (round'[v].pc = "end" <=> round[v].pc = "end"),
           \A v \in Us : turns'[v] = turns[v] \/ ~turns'[v].cut
    PROVE  Honest'
<1>1. \A v \in Us : Tally(v) /\ CutTurn(v) BY DEF TalkInv, Honest
<1>2. \A v \in Us : Tally(v)' BY <1>1 DEF Tally
<1>3. \A v \in Us : CutTurn(v)' BY <1>1 DEF CutTurn
<1>4. QED BY <1>2, <1>3 DEF Honest

LEMMA RecordKeeps ==
    ASSUME TalkInv, NEW u \in Us, NEW s \in Speech, Record(u, s, FALSE)
    PROVE  /\ turns' \in [Us -> TurnType]
           /\ \A v \in Us : turns'[v] = turns[v] \/ ~turns'[v].cut
<1> DEFINE t == [done |-> TRUE, reply |-> s, cut |-> FALSE]
<1>1. t \in TurnType /\ ~t.cut BY DEF TurnType
<1>2. turns' = [turns EXCEPT ![u] = t] BY DEF Record
<1> HIDE DEF t
<1>3. QED BY <1>1, <1>2 DEF TalkInv, TalkTyped

LEMMA MuteKept ==
    ASSUME TalkInv, mute' = mute, excused' = excused, Muting' \subseteq Muting
    PROVE  MuteIsHeld'
BY DEF MuteIsHeld, TalkInv

LEMMA HearKeeps ==
    ASSUME TalkInv, NEW k \in Kinds, HearUtterance(k)
    PROVE  TalkInv'
<1>1. PICK u \in Us : /\ kind[u] = "none"
                      /\ kind' = [kind EXCEPT ![u] = k]
                      /\ asr' = asr \cup {u}
  BY DEF HearUtterance
<1>2. UNCHANGED <<mute, inbox, bridge, activeRound, round, wav, turns, said, excused>> BY DEF HearUtterance
<1>a. k # "none" BY DEF Kinds
<1>3. TalkTyped' BY <1>1, <1>2 DEF TalkInv, TalkTyped
<1>4. OnePlace'
  <2>1. \A v \in Us : (Begun(v)' <=> Begun(v)) /\ (Queued(v)' <=> Queued(v)) /\ (Held(v)' <=> Held(v))
    BY <1>2 DEF Begun, Queued, Held
  <2>2. \A v \in Us : kind'[v] = "none" => kind[v] = "none" /\ v # u
    BY <1>1, <1>a DEF TalkInv, TalkTyped
  <2>3. OnePlace BY DEF TalkInv
  <2>4. QED BY <1>1, <1>2, <2>1, <2>2, <2>3 DEF OnePlace
<1>5. Speakers' /\ SlotIsFree' /\ OneVoice'
  BY <1>2 DEF TalkInv, Speakers, SlotIsFree, OneVoice
<1>6. Honest' BY <1>2, HonestKept
<1>7. MuteIsHeld' BY <1>2, MuteKept DEF Muting, Reciting
<1>8. QED BY <1>3, <1>4, <1>5, <1>6, <1>7 DEF TalkInv

LEMMA TranscribedKeeps ==
    ASSUME TalkInv, NEW u \in Us, Transcribed(u)
    PROVE  TalkInv'
<1>1. u \in asr /\ asr' = asr \ {u} /\ inbox' = Append(inbox, u) BY DEF Transcribed
<1>2. UNCHANGED <<kind, mute, bridge, activeRound, round, wav, turns, said, excused>> BY DEF Transcribed
<1>3. TalkTyped' BY <1>1, <1>2 DEF TalkInv, TalkTyped
<1>4. OnePlace'
  <2>0. OnePlace /\ inbox \in Seq(Us) BY DEF TalkInv, TalkTyped
  <2>1. \A v \in Us : (Begun(v)' <=> Begun(v)) /\ (Held(v)' <=> Held(v)) BY <1>2 DEF Begun, Held
  <2>2. PICK n \in Nat : n = Len(inbox) BY <2>0, LenProperties
  <2>3. /\ Len(inbox') = n + 1 /\ inbox'[n + 1] = u
        /\ \A i \in 1 .. n : inbox'[i] = inbox[i]
    BY <1>1, <2>0, <2>2, AppendProperties
  <2>4. ~Queued(u) /\ ~Held(u) /\ ~Begun(u) /\ kind[u] # "none" BY <1>1, <2>0 DEF OnePlace
  <2>5. \A i \in 1 .. n + 1 : i \in 1 .. n \/ i = n + 1 OBVIOUS
  <2>6. \A v \in Us : Queued(v)' => Queued(v) \/ v = u
    <3> SUFFICES ASSUME NEW v \in Us, NEW i \in 1 .. n + 1, inbox'[i] = v
                 PROVE  Queued(v) \/ v = u
      BY <2>3 DEF Queued
    <3>1. CASE i \in 1 .. n BY <3>1, <2>2, <2>3 DEF Queued
    <3>2. CASE i = n + 1 BY <3>2, <2>3
    <3>3. QED BY <3>1, <3>2, <2>5
  <2>7. \A i, j \in 1 .. Len(inbox') : inbox'[i] = inbox'[j] => i = j
    <3>1. \A i \in 1 .. n : inbox[i] # u BY <2>2, <2>4 DEF Queued
    <3>2. \A i, j \in 1 .. n : inbox[i] = inbox[j] => i = j BY <2>0, <2>2 DEF OnePlace
    <3>3. QED BY <2>3, <2>5, <3>1, <3>2
  <2>8. QED BY <1>1, <1>2, <2>0, <2>1, <2>4, <2>6, <2>7 DEF OnePlace
<1>5. Speakers' /\ SlotIsFree' /\ OneVoice'
  BY <1>2 DEF TalkInv, Speakers, SlotIsFree, OneVoice
<1>6. Honest' BY <1>2, HonestKept
<1>7. MuteIsHeld' BY <1>2, MuteKept DEF Muting, Reciting
<1>8. QED BY <1>3, <1>4, <1>5, <1>6, <1>7 DEF TalkInv

LEMMA MuteExpiresKeeps ==
    ASSUME TalkInv, MuteExpires
    PROVE  TalkInv'
<1>1. mute' = FALSE /\ excused' = TRUE /\ UNCHANGED <<ear, inbox, bridge, activeRound, round, wav, turns, said>>
  BY DEF MuteExpires
<1>2. TalkTyped' BY <1>1 DEF TalkInv, TalkTyped, ear
<1>3. OnePlace' BY <1>1 DEF TalkInv, OnePlace, Begun, Queued, Held, ear
<1>5. Speakers' /\ SlotIsFree' /\ OneVoice'
  BY <1>1 DEF TalkInv, Speakers, SlotIsFree, OneVoice
<1>6. Honest' BY <1>1, HonestKept
<1>7. MuteIsHeld' BY <1>1 DEF MuteIsHeld
<1>8. QED BY <1>2, <1>3, <1>5, <1>6, <1>7 DEF TalkInv

\* An utterance leaves a place and enters none.
LEMMA PlacesLeft ==
    ASSUME TalkInv, kind' = kind, asr' = asr,
           \A v \in Us : /\ Queued(v)' => Queued(v)
                         /\ Held(v)' => Held(v)
                         /\ Begun(v)' => Begun(v),
           \A i, j \in 1 .. Len(inbox') : inbox'[i] = inbox'[j] => i = j
    PROVE  OnePlace'
BY DEF TalkInv, OnePlace

\* The bridge takes the transcript at the head of the channel.
LEMMA HeadLeaves ==
    ASSUME TalkInv, inbox # <<>>, inbox' = Tail(inbox), NEW u, u = Head(inbox)
    PROVE  /\ u \in Us /\ Queued(u) /\ inbox' \in Seq(Us)
           /\ \A v \in Us : Queued(v)' => Queued(v) /\ v # u
           /\ \A i, j \in 1 .. Len(inbox') : inbox'[i] = inbox'[j] => i = j
<1>1. inbox \in Seq(Us) /\ \A i, j \in 1 .. Len(inbox) : inbox[i] = inbox[j] => i = j
  BY DEF TalkInv, TalkTyped, OnePlace
<1>2. QED BY <1>1, QueueHead DEF Queued

LEMMA TakeKeeps ==
    ASSUME ConversationAssumption, TalkInv, Take
    PROVE  TalkInv'
<1>k. PICK u : u = Head(inbox) OBVIOUS
<1>1. /\ bridge.pc = "idle" /\ inbox # <<>> /\ activeRound = 0
      /\ bridge' = [pc |-> "route", u |-> u] /\ inbox' = Tail(inbox)
  BY <1>k DEF Take
<1>2. UNCHANGED <<ear, mute, activeRound, round, wav, turns, said, excused>> BY DEF Take
<1>3. /\ u \in Us /\ Queued(u) /\ inbox' \in Seq(Us)
      /\ \A v \in Us : Queued(v)' => Queued(v) /\ v # u
      /\ \A i, j \in 1 .. Len(inbox') : inbox'[i] = inbox'[j] => i = j
  BY <1>1, <1>k, HeadLeaves
<1>4. TalkTyped'
  <2>1. u \in 0 .. Max BY <1>3 DEF Us
  <2>2. QED BY <1>1, <1>2, <1>3, <2>1 DEF TalkInv, TalkTyped, ear
<1>5. OnePlace'
  <2>1. \A v \in Us : (Begun(v)' <=> Begun(v)) /\ (Held(v)' => v = u)
    BY <1>1, <1>2 DEF Begun, Held
  <2>2. OnePlace BY DEF TalkInv
  <2>3. u \notin asr /\ ~Begun(u) /\ kind[u] # "none" BY <1>3, <2>2 DEF OnePlace
  <2>4. QED BY <1>2, <1>3, <2>1, <2>2, <2>3 DEF OnePlace, ear
<1>6. Speakers' /\ SlotIsFree' /\ OneVoice'
  BY <1>1, <1>2 DEF TalkInv, Speakers, SlotIsFree, OneVoice
<1>7. Honest' BY <1>2, HonestKept
<1>8. MuteIsHeld'
  <2>1. Muting' \subseteq Muting BY <1>1, <1>2 DEF Muting, Reciting
  <2>2. QED BY <2>1, <1>2, MuteKept
<1>9. QED BY <1>4, <1>5, <1>6, <1>7, <1>8 DEF TalkInv

\* Whoever is told to stop has the slot no more, and nothing else changes.
LEMMA TakeSlotKeeps ==
    ASSUME ConversationAssumption, TalkInv, TakeSlot
    PROVE  /\ activeRound' = 0 /\ round' \in [Us -> RoundType] /\ Speakers' /\ OneVoice'
           /\ \A v \in Us : /\ round'[v].pc = round[v].pc /\ round'[v].prefix = round[v].prefix
                            /\ Mutes(round'[v]) => Mutes(round[v])
<1>1. activeRound' = 0 BY DEF TakeSlot
<1>2. round \in [Us -> RoundType] /\ activeRound \in 0 .. Max /\ Speakers /\ OneVoice
  BY DEF TalkInv, TalkTyped
<1>3. CASE activeRound = 0
  BY <1>1, <1>2, <1>3 DEF TakeSlot, Speakers, OneVoice, Us, ConversationAssumption
<1>4. CASE activeRound # 0
  <2>1. activeRound \in Us BY <1>2, <1>4 DEF Us, ConversationAssumption
  <2>2. PICK r \in RoundType : r = round[activeRound] BY <1>2, <2>1
  <2> DEFINE k == [r EXCEPT !.cancel = TRUE]
  <2>3. k \in RoundType BY DEF RoundType
  <2>4. round' = [round EXCEPT ![activeRound] = k] BY <1>4, <2>2 DEF TakeSlot
  <2>5. /\ k.cancel
        /\ k.pc = r.pc /\ k.sp = r.sp /\ k.taken = r.taken /\ k.ahead = r.ahead /\ k.cur = r.cur
        /\ k.first = r.first /\ k.prefix = r.prefix /\ k.gen = r.gen /\ k.genEnd = r.genEnd
    BY DEF RoundType
  <2> HIDE DEF k
  <2>6. Speaker(r) BY <1>2, <2>1, <2>2 DEF Speakers
  <2>7. Speaker(k) /\ (Mutes(k) => Mutes(r)) BY <2>5, <2>6 DEF Speaker, Mutes
  <2>8. \A v \in Us : round'[v] = IF v = activeRound THEN k ELSE round[v] BY <1>2, <2>1, <2>4
  <2>9. round' \in [Us -> RoundType] BY <1>2, <2>3, <2>4
  <2>10. Speakers' BY <1>2, <2>7, <2>8 DEF Speakers
  <2>11. OneVoice' BY <1>2, <2>5, <2>8 DEF OneVoice
  <2>12. \A v \in Us : /\ round'[v].pc = round[v].pc /\ round'[v].prefix = round[v].prefix
                       /\ Mutes(round'[v]) => Mutes(round[v])
    BY <2>2, <2>5, <2>7, <2>8
  <2>13. QED BY <1>1, <2>9, <2>10, <2>11, <2>12
<1>5. QED BY <1>3, <1>4

LEMMA MutingFalls ==
    ASSUME \A v \in Us : Mutes(round'[v]) => Mutes(round[v]),
           \A v \in Us : bridge' = [pc |-> "command", u |-> v] => bridge = [pc |-> "command", u |-> v]
    PROVE  Muting' \subseteq Muting
BY DEF Muting, Reciting, Mutes

LEMMA InterruptKeeps ==
    ASSUME ConversationAssumption, TalkInv, Interrupt
    PROVE  TalkInv'
<1>k. PICK u : u = Head(inbox) OBVIOUS
<1>1. bridge.pc = "idle" /\ inbox # <<>> /\ inbox' = Tail(inbox) BY DEF Interrupt
<1>2. UNCHANGED <<ear, mute, wav, said, excused>> BY DEF Interrupt
<1>3. /\ u \in Us /\ Queued(u) /\ inbox' \in Seq(Us)
      /\ \A v \in Us : Queued(v)' => Queued(v) /\ v # u
      /\ \A i, j \in 1 .. Len(inbox') : inbox'[i] = inbox'[j] => i = j
  BY <1>1, <1>k, HeadLeaves
<1>4. CASE UNCHANGED <<bridge, activeRound, round, turns>>
  <2>1. TalkTyped' BY <1>2, <1>3, <1>4 DEF TalkInv, TalkTyped, ear
  <2>2. OnePlace'
    <3>1. \A v \in Us : Queued(v)' => Queued(v) BY <1>3
    <3>2. \A v \in Us : (Begun(v)' => Begun(v)) /\ (Held(v)' => Held(v)) BY <1>4 DEF Begun, Held
    <3>3. QED BY <1>2, <1>3, <3>1, <3>2, PlacesLeft DEF ear
  <2>3. Speakers' /\ SlotIsFree' /\ OneVoice'
    BY <1>4 DEF TalkInv, Speakers, SlotIsFree, OneVoice
  <2>4. Honest' BY <1>2, <1>4, HonestKept
  <2>5. MuteIsHeld' BY <1>2, <1>4, MutingFalls, MuteKept
  <2>6. QED BY <2>1, <2>2, <2>3, <2>4, <2>5 DEF TalkInv
<1>5. CASE TakeSlot /\ Record(u, <<>>, FALSE) /\ UNCHANGED bridge
  <2>1. /\ activeRound' = 0 /\ round' \in [Us -> RoundType] /\ Speakers' /\ OneVoice'
        /\ \A v \in Us : /\ round'[v].pc = round[v].pc /\ round'[v].prefix = round[v].prefix
                         /\ Mutes(round'[v]) => Mutes(round[v])
    BY <1>5, TakeSlotKeeps
  <2>2. /\ turns' \in [Us -> TurnType]
        /\ \A v \in Us : turns'[v] = turns[v] \/ ~turns'[v].cut
    BY <1>3, <1>5, RecordKeeps, NothingWhole
  <2>3. TalkTyped' BY <1>2, <1>3, <1>5, <2>1, <2>2 DEF TalkInv, TalkTyped, ear, ConversationAssumption
  <2>4. OnePlace'
    <3>1. \A v \in Us : Queued(v)' => Queued(v) BY <1>3
    <3>2. \A v \in Us : (Begun(v)' => Begun(v)) /\ (Held(v)' => Held(v)) BY <1>5, <2>1 DEF Begun, Held
    <3>3. QED BY <1>2, <1>3, <3>1, <3>2, PlacesLeft DEF ear
  <2>5. SlotIsFree' BY <2>1 DEF SlotIsFree
  <2>6. Honest' BY <1>2, <2>1, <2>2, HonestKept
  <2>7. MuteIsHeld' BY <1>2, <1>5, <2>1, MutingFalls, MuteKept
  <2>8. QED BY <2>1, <2>3, <2>4, <2>5, <2>6, <2>7 DEF TalkInv
<1>6. CASE bridge' = [pc |-> "gate", u |-> u] /\ UNCHANGED <<activeRound, round, turns>>
  <2>0. u \in 0 .. Max BY <1>3 DEF Us
  <2>1. TalkTyped' BY <1>2, <1>3, <1>6, <2>0 DEF TalkInv, TalkTyped, ear
  <2>2. OnePlace'
    <3>1. \A v \in Us : (Begun(v)' <=> Begun(v)) /\ (Held(v)' => v = u)
      BY <1>6 DEF Begun, Held
    <3>2. OnePlace BY DEF TalkInv
    <3>3. u \notin asr /\ ~Begun(u) /\ kind[u] # "none" BY <1>3, <3>2 DEF OnePlace
    <3>4. QED BY <1>2, <1>3, <3>1, <3>2, <3>3 DEF OnePlace, ear
  <2>3. Speakers' /\ SlotIsFree' /\ OneVoice'
    BY <1>6 DEF TalkInv, Speakers, SlotIsFree, OneVoice
  <2>4. Honest' BY <1>2, <1>6, HonestKept
  <2>5. MuteIsHeld'
    <3>1. \A v \in Us : bridge' # [pc |-> "command", u |-> v] BY <1>6
    <3>2. QED BY <1>2, <1>6, <3>1, MutingFalls, MuteKept
  <2>6. QED BY <2>1, <2>2, <2>3, <2>4, <2>5 DEF TalkInv
<1>7. QED BY <1>4, <1>5, <1>6, <1>k DEF Interrupt

\* The utterance with the bridge is on record and the bridge waits again.
LEMMA RecordedKeeps ==
    ASSUME ConversationAssumption, TalkInv, bridge.pc # "idle", NEW s \in Speech,
           Record(bridge.u, s, FALSE), bridge' = BridgeIdle,
           UNCHANGED <<ear, inbox, activeRound, round, wav, said, excused>>,
           mute' \in BOOLEAN, MuteIsHeld'
    PROVE  TalkInv'
<1>1. bridge.u \in Us BY DEF TalkInv, TalkTyped
<1>2. /\ turns' \in [Us -> TurnType]
      /\ \A v \in Us : turns'[v] = turns[v] \/ ~turns'[v].cut
  BY <1>1, RecordKeeps
<1>3. TalkTyped' BY <1>2 DEF TalkInv, TalkTyped, ear, BridgeIdle, ConversationAssumption
<1>4. OnePlace'
  <2>1. \A v \in Us : /\ Queued(v)' => Queued(v)
                      /\ Held(v)' => Held(v)
                      /\ Begun(v)' => Begun(v)
    BY DEF Queued, Held, Begun, BridgeIdle
  <2>2. \A i, j \in 1 .. Len(inbox') : inbox'[i] = inbox'[j] => i = j BY DEF TalkInv, OnePlace
  <2>3. QED BY <2>1, <2>2, PlacesLeft DEF ear
<1>5. Speakers' /\ SlotIsFree' /\ OneVoice'
  BY DEF TalkInv, Speakers, SlotIsFree, OneVoice, BridgeIdle
<1>6. Honest' BY <1>2, HonestKept
<1>7. QED BY <1>3, <1>4, <1>5, <1>6 DEF TalkInv

LEMMA BackchannelKeeps ==
    ASSUME ConversationAssumption, TalkInv, Backchannel
    PROVE  TalkInv'
<1>1. \A v \in Us : bridge' # [pc |-> "command", u |-> v] BY DEF Backchannel, BridgeIdle
<1>2. MuteIsHeld' BY <1>1, MutingFalls, MuteKept DEF Backchannel
<1>3. mute' \in BOOLEAN BY DEF Backchannel, TalkInv, TalkTyped
<1>4. QED BY <1>2, <1>3, RecordedKeeps, NothingWhole DEF Backchannel

LEMMA NoReplyKeeps ==
    ASSUME ConversationAssumption, TalkInv, NoReply
    PROVE  TalkInv'
<1>1. \A v \in Us : bridge' # [pc |-> "command", u |-> v] BY DEF NoReply, BridgeIdle
<1>2. MuteIsHeld' BY <1>1, MutingFalls, MuteKept DEF NoReply
<1>3. mute' \in BOOLEAN BY DEF NoReply, TalkInv, TalkTyped
<1>4. QED BY <1>2, <1>3, RecordedKeeps, NothingWhole DEF NoReply

\* The utterance with the bridge has no round that could hold the mute.
LEMMA HeldIsSilent ==
    ASSUME TalkInv, bridge.pc # "idle"
    PROVE  /\ bridge.u \in Us /\ round[bridge.u].pc = "none"
           /\ round[bridge.u].sp = "off" /\ round[bridge.u].first /\ ~Mutes(round[bridge.u])
<1>1. bridge.u \in Us BY DEF TalkInv, TalkTyped
<1>2. Held(bridge.u) BY DEF Held
<1>3. ~Begun(bridge.u) BY <1>1, <1>2 DEF TalkInv, OnePlace
<1>4. round[bridge.u].pc = "none" BY <1>3 DEF Begun
<1>5. Speaker(round[bridge.u]) BY <1>1 DEF TalkInv, Speakers
<1>6. QED BY <1>1, <1>4, <1>5 DEF Speaker, Mutes

LEMMA CommandSpokenKeeps ==
    ASSUME ConversationAssumption, TalkInv, CommandSpoken
    PROVE  TalkInv'
<1>1. bridge.pc = "command" /\ mute' = FALSE /\ bridge' = BridgeIdle /\ round' = round /\ excused' = excused
  BY DEF CommandSpoken
<1>2. bridge.u \in Us /\ ~Mutes(round[bridge.u]) BY <1>1, HeldIsSilent
<1>3. bridge = [pc |-> "command", u |-> bridge.u] BY <1>1 DEF TalkInv, TalkTyped
<1>4. bridge.u \in Muting BY <1>2, <1>3, MutingIs
<1>5. \A v \in Us : bridge' # [pc |-> "command", u |-> v] BY <1>1 DEF BridgeIdle
<1>6. Muting' \subseteq Muting BY <1>1, <1>5, MutingFalls
<1>7. bridge.u \notin Muting'
  <2>1. Muting' = {v \in Us : Mutes(round'[v]) \/ bridge' = [pc |-> "command", u |-> v]}
    BY DEF Muting, Reciting, Mutes
  <2>2. QED BY <1>1, <1>2, <1>5, <2>1
<1>8. MuteIsHeld'
  <2>1. SUFFICES ASSUME ~excused PROVE Muting' = {} BY <1>1 DEF MuteIsHeld
  <2>2. \A v \in Muting : v = bridge.u BY <1>4, <2>1 DEF TalkInv, MuteIsHeld
  <2>3. QED BY <1>6, <1>7, <2>2
<1>9. QED BY <1>1, <1>8, RecordedKeeps, NothingWhole DEF CommandSpoken

LEMMA SupersedeKeeps ==
    ASSUME ConversationAssumption, TalkInv, Supersede
    PROVE  TalkInv'
<1>1. bridge.pc = "gate" /\ TakeSlot /\ bridge' = [bridge EXCEPT !.pc = "route"]
      /\ UNCHANGED <<ear, mute, inbox, wav, turns, said, excused>>
  BY DEF Supersede
<1>a. bridge' = [pc |-> "route", u |-> bridge.u] /\ bridge.u \in Us /\ bridge.u \in 0 .. Max
  BY <1>1 DEF TalkInv, TalkTyped
<1>2. /\ activeRound' = 0 /\ round' \in [Us -> RoundType] /\ Speakers' /\ OneVoice'
      /\ \A v \in Us : /\ round'[v].pc = round[v].pc /\ round'[v].prefix = round[v].prefix
                       /\ Mutes(round'[v]) => Mutes(round[v])
  BY <1>1, TakeSlotKeeps
<1>3. TalkTyped' BY <1>1, <1>a, <1>2 DEF TalkInv, TalkTyped, ear, ConversationAssumption
<1>4. OnePlace'
  <2>1. \A v \in Us : Queued(v)' => Queued(v) BY <1>1 DEF Queued
  <2>2. \A v \in Us : Begun(v)' => Begun(v) BY <1>2 DEF Begun
  <2>3. \A v \in Us : Held(v)' => Held(v) BY <1>1, <1>a DEF Held
  <2>4. \A i, j \in 1 .. Len(inbox') : inbox'[i] = inbox'[j] => i = j BY <1>1 DEF TalkInv, OnePlace
  <2>5. QED BY <1>1, <2>1, <2>2, <2>3, <2>4, PlacesLeft DEF ear
<1>5. SlotIsFree' BY <1>2 DEF SlotIsFree
<1>6. Honest' BY <1>1, <1>2, HonestKept
<1>7. MuteIsHeld'
  <2>1. \A v \in Us : bridge' # [pc |-> "command", u |-> v] BY <1>a
  <2>2. QED BY <1>1, <1>2, <2>1, MutingFalls, MuteKept
<1>8. QED BY <1>2, <1>3, <1>4, <1>5, <1>6, <1>7 DEF TalkInv

LEMMA CommandKeeps ==
    ASSUME ConversationAssumption, TalkInv, Command
    PROVE  TalkInv'
<1>1. /\ bridge.pc = "route" /\ mute' = TRUE /\ wav' = <<bridge.u, 0>>
      /\ bridge' = [bridge EXCEPT !.pc = "command"]
      /\ excused' = (excused \/ Muting # {})
      /\ UNCHANGED <<ear, inbox, activeRound, round, turns, said>>
  BY DEF Command
<1>a. /\ bridge' = [pc |-> "command", u |-> bridge.u] /\ bridge.u \in Us /\ bridge.u \in 0 .. Max
      /\ excused \in BOOLEAN
  BY <1>1 DEF TalkInv, TalkTyped
<1>b. <<bridge.u, 0>> \in Audio BY <1>a DEF Audio, ConversationAssumption
<1>2. TalkTyped'
  <2>1. excused' \in BOOLEAN BY <1>1, <1>a
  <2>2. QED BY <1>1, <1>a, <1>b, <2>1 DEF TalkInv, TalkTyped, ear
<1>3. OnePlace'
  <2>1. \A v \in Us : (Queued(v)' => Queued(v)) /\ (Begun(v)' => Begun(v)) BY <1>1 DEF Queued, Begun
  <2>3. \A v \in Us : Held(v)' => Held(v) BY <1>1, <1>a DEF Held
  <2>4. \A i, j \in 1 .. Len(inbox') : inbox'[i] = inbox'[j] => i = j BY <1>1 DEF TalkInv, OnePlace
  <2>5. QED BY <1>1, <2>1, <2>3, <2>4, PlacesLeft DEF ear
<1>4. Speakers' /\ SlotIsFree' /\ OneVoice'
  BY <1>1 DEF TalkInv, Speakers, SlotIsFree, OneVoice
<1>5. Honest' BY <1>1, HonestKept
<1>6. MuteIsHeld'
  <2>1. Muting' = {v \in Us : Mutes(round[v]) \/ v = bridge.u}
    <3>1. \A v \in Us : bridge' = [pc |-> "command", u |-> v] <=> v = bridge.u
      <4>1. \A v, w \in Us : [pc |-> "command", u |-> w] = [pc |-> "command", u |-> v] => w = v
        <5> TAKE v, w \in Us
        <5>1. [pc |-> "command", u |-> w].u = w /\ [pc |-> "command", u |-> v].u = v OBVIOUS
        <5>2. QED BY <5>1
      <4>2. QED BY <1>a, <4>1
    <3>2. Muting' = {v \in Us : Mutes(round'[v]) \/ bridge' = [pc |-> "command", u |-> v]}
      BY DEF Muting, Reciting, Mutes
    <3>3. QED BY <1>1, <3>1, <3>2
  <2>2. Muting = {v \in Us : Mutes(round[v]) \/ bridge = [pc |-> "command", u |-> v]} BY MutingIs
  <2>3. SUFFICES ASSUME Muting = {} PROVE \A v, w \in Muting' : v = w
    BY <1>1, <1>a DEF MuteIsHeld
  <2>4. \A v \in Us : ~Mutes(round[v]) BY <2>2, <2>3
  <2>5. QED BY <2>1, <2>4
<1>7. QED BY <1>2, <1>3, <1>4, <1>5, <1>6 DEF TalkInv

LEMMA StartRoundKeeps ==
    ASSUME ConversationAssumption, TalkInv, StartRound
    PROVE  TalkInv'
<1>k. PICK u : u = bridge.u OBVIOUS
<1>1. bridge.pc = "route" /\ activeRound' = u /\ bridge' = BridgeIdle
      /\ UNCHANGED <<ear, mute, inbox, wav, turns, said, excused>>
  BY <1>k DEF StartRound
<1>2. /\ u \in Us /\ round[u].pc = "none" /\ round[u].sp = "off" /\ round[u].first
  BY <1>1, <1>k, HeldIsSilent
<1>3. activeRound = 0 BY <1>1 DEF TalkInv, SlotIsFree
<1>4. PICK r \in RoundType : r = round[u] BY <1>2 DEF TalkInv, TalkTyped
<1>5. PICK a \in {"remote", "local"}, b \in {"off", "recv"} :
         /\ a = (IF Remote THEN "remote" ELSE "local") /\ b = (IF Remote THEN "off" ELSE "recv")
  OBVIOUS
<1> DEFINE k == [r EXCEPT !.pc = a, !.sp = b]
<1>6. k \in RoundType BY DEF RoundType
<1>7. round' = [round EXCEPT ![u] = k]
  <2>1. round' = [round EXCEPT ![u].pc = a, ![u].sp = b] BY <1>k, <1>5 DEF StartRound
  <2>2. QED BY <2>1, <1>2, <1>4 DEF TalkInv, TalkTyped, RoundType
<1>8. /\ k.pc = a /\ k.sp = b /\ k.taken = r.taken /\ k.ahead = r.ahead
      /\ k.first = r.first /\ k.prefix = r.prefix /\ k.gen = r.gen
  BY DEF RoundType
<1> HIDE DEF k
<1>9. \A v \in Us : round'[v] = IF v = u THEN k ELSE round[v] BY <1>7 DEF TalkInv, TalkTyped
<1>10. Speaker(k)
  <2>1. Speaker(r) BY <1>2, <1>4 DEF TalkInv, Speakers
  <2>2. a = "remote" => b = "off" BY <1>5
  <2>3. QED BY <1>2, <1>4, <1>5, <1>8, <2>1, <2>2 DEF Speaker
<1>11. TalkTyped'
  <2>1. u \in 0 .. Max BY <1>2 DEF Us
  <2>2. round' \in [Us -> RoundType] BY <1>6, <1>7 DEF TalkInv, TalkTyped
  <2>3. BridgeIdle.pc = "idle" /\ BridgeIdle \in [pc : {"idle", "gate", "route", "command"}, u : 0 .. Max]
    BY DEF BridgeIdle, ConversationAssumption
  <2>4. QED BY <1>1, <2>1, <2>2, <2>3 DEF TalkInv, TalkTyped, ear
<1>12. Speakers' BY <1>9, <1>10 DEF TalkInv, Speakers
<1>13. OnePlace'
  <2>1. \A v \in Us : /\ Queued(v)' <=> Queued(v)
                      /\ ~Held(v)'
                      /\ Begun(v)' => Begun(v) \/ v = u
    BY <1>1, <1>9 DEF Queued, Held, Begun, BridgeIdle
  <2>2. Held(u) /\ OnePlace BY <1>1, <1>k DEF Held, TalkInv
  <2>3. u \notin asr /\ ~Queued(u) /\ kind[u] # "none" BY <1>2, <2>2 DEF OnePlace
  <2>4. QED BY <1>1, <2>1, <2>2, <2>3 DEF OnePlace, ear
<1>14. SlotIsFree' BY <1>1 DEF SlotIsFree, BridgeIdle
<1>15. OneVoice'
  <2>1. \A v \in Us : v # activeRound BY <1>3 DEF Us, ConversationAssumption
  <2>2. QED BY <1>1, <1>9, <2>1 DEF TalkInv, OneVoice
<1>16. Honest'
  <2>1. \A v \in Us : /\ round'[v].prefix = round[v].prefix
                      /\ round'[v].pc = "end" <=> round[v].pc = "end"
    BY <1>2, <1>4, <1>5, <1>8, <1>9
  <2>2. QED BY <1>1, <2>1, HonestKept
<1>17. MuteIsHeld'
  <2>1. ~Mutes(k) BY <1>2, <1>4, <1>8 DEF Mutes
  <2>2. \A v \in Us : Mutes(round'[v]) => Mutes(round[v]) BY <1>9, <2>1
  <2>3. \A v \in Us : bridge' # [pc |-> "command", u |-> v] BY <1>1 DEF BridgeIdle
  <2>4. QED BY <1>1, <2>2, <2>3, MutingFalls, MuteKept
<1>18. QED BY <1>11, <1>12, <1>13, <1>14, <1>15, <1>16, <1>17 DEF TalkInv

LEMMA TalkStarts ==
    ASSUME ConversationAssumption, TalkInit
    PROVE  TalkInv
<1>1. NoRound \in RoundType /\ NoTurn \in TurnType
  <2>1. [s \in Parts |-> "no"] \in [Parts -> {"no", "run", "ok", "bad"}] OBVIOUS
  <2>2. <<>> \in Seq(Parts) /\ 0 \in 0 .. N BY DEF ConversationAssumption
  <2>3. QED BY <2>1, <2>2, NothingWhole DEF NoRound, NoTurn, RoundType, TurnType
<1>2. /\ NoRound.pc = "none" /\ NoRound.sp = "off" /\ NoRound.first /\ NoRound.prefix = <<>>
      /\ NoRound.taken = 0 /\ NoRound.ahead = 0 /\ NoRound.gen = 0 /\ ~NoTurn.cut
  BY DEF NoRound, NoTurn
<1>3. Speaker(NoRound)
  <2>1. Rising(<<>>) /\ Before(<<>>, 0 + 1) BY DEF Rising, Before
  <2>2. QED BY <1>2, <2>1 DEF Speaker
<1>4. \A u \in Us : round[u] = NoRound /\ turns[u] = NoTurn BY DEF TalkInit
<1>5. TalkTyped
  <2>1. BridgeIdle.pc = "idle" /\ BridgeIdle \in [pc : {"idle", "gate", "route", "command"}, u : 0 .. Max]
    BY DEF BridgeIdle, ConversationAssumption
  <2>2. round \in [Us -> RoundType] /\ turns \in [Us -> TurnType] BY <1>1 DEF TalkInit
  <2>3. kind \in [Us -> Kinds \cup {"none"}] /\ asr \subseteq Us /\ inbox \in Seq(Us) BY DEF TalkInit
  <2>4. wav \in Audio /\ said \subseteq Us \X Parts BY DEF TalkInit, Audio
  <2>5. mute \in BOOLEAN /\ excused \in BOOLEAN BY DEF TalkInit
  <2>8. 0 \in 0 .. Max /\ activeRound = 0 BY DEF TalkInit, ConversationAssumption
  <2>6. bridge = BridgeIdle BY DEF TalkInit
  <2>7. QED BY <2>1, <2>2, <2>3, <2>4, <2>5, <2>6, <2>8 DEF TalkTyped
<1>6. Speakers BY <1>3, <1>4 DEF Speakers
<1>7. OnePlace
  <2>1. inbox = <<>> /\ asr = {} /\ bridge.pc = "idle" BY DEF TalkInit, BridgeIdle
  <2>2. QED BY <1>2, <1>4, <2>1 DEF OnePlace, Queued, Held, Begun
<1>8. Honest
  <2>1. said = {} BY DEF TalkInit
  <2>2. \A u \in Us : Tally(u) /\ CutTurn(u) BY <1>2, <1>4, <2>1 DEF Tally, CutTurn
  <2>3. QED BY <2>2 DEF Honest
<1>9. SlotIsFree /\ OneVoice BY <1>2, <1>4 DEF SlotIsFree, OneVoice, TalkInit, BridgeIdle
<1>10. MuteIsHeld
  <2>1. \A u \in Us : ~Mutes(round[u]) BY <1>2, <1>4 DEF Mutes
  <2>2. \A v \in Us : bridge # [pc |-> "command", u |-> v] BY DEF TalkInit, BridgeIdle
  <2>3. QED BY <2>1, <2>2, MutingIs DEF MuteIsHeld
<1>11. QED BY <1>5, <1>6, <1>7, <1>8, <1>9, <1>10 DEF TalkInv

LEMMA BridgeKeeps ==
    ASSUME ConversationAssumption, TalkInv, BridgeStep
    PROVE  TalkInv'
BY TakeKeeps, InterruptKeeps, BackchannelKeeps, SupersedeKeeps, CommandKeeps, CommandSpokenKeeps,
   NoReplyKeeps, StartRoundKeeps DEF BridgeStep

LEMMA TalkSteps ==
    ASSUME ConversationAssumption, TalkInv, [TalkNext]_talkVars
    PROVE  TalkInv'
<1>1. CASE UNCHANGED talkVars
  <2>1. UNCHANGED <<kind, asr, mute, inbox, bridge, activeRound, round, wav, turns, said, excused>>
    BY <1>1 DEF talkVars, ear
  <2>2. TalkTyped' BY <2>1 DEF TalkInv, TalkTyped
  <2>3. OnePlace' BY <2>1 DEF TalkInv, OnePlace, Begun, Queued, Held
  <2>4. Speakers' /\ SlotIsFree' /\ OneVoice'
    BY <2>1 DEF TalkInv, Speakers, SlotIsFree, OneVoice
  <2>5. Honest' BY <2>1, HonestKept
  <2>6. MuteIsHeld' BY <2>1, MuteKept, MutingFalls
  <2>7. QED BY <2>2, <2>3, <2>4, <2>5, <2>6 DEF TalkInv
<1>2. CASE \E k \in Kinds : HearUtterance(k) BY <1>2, HearKeeps
<1>3. CASE MuteExpires BY <1>3, MuteExpiresKeeps
<1>4. CASE BridgeStep BY <1>4, BridgeKeeps
<1>5. ASSUME NEW u \in Us, Transcribed(u) PROVE TalkInv' BY <1>5, TranscribedKeeps
<1>6. ASSUME NEW u \in Us,
             \/ Generate(u) \/ SpeakerStep(u) \/ RoundStep(u)
             \/ \E s \in Parts : Synthesize(u, s)
      PROVE  TalkInv'
  <2>1. \E k \in RoundType : Effect(u, k)
    BY <1>6, GenerateEffect, SpeakerStepEffect, RoundStepEffect, SynthesizeEffect
  <2>2. QED BY <2>1, EffectKeeps
<1>7. QED BY <1>1, <1>2, <1>3, <1>4, <1>5, <1>6 DEF TalkNext

LEMMA TalkInvariant == TalkSpec => []TalkInv
<1>1. TalkInit => TalkInv BY TalkStarts, ConversationAssumption
<1>2. TalkInv /\ [TalkNext]_talkVars => TalkInv' BY TalkSteps, ConversationAssumption
<1>3. QED BY <1>1, <1>2, PTL DEF TalkSpec

-----------------------------------------------------------------------------
(* The theorems about the dialogue                                         *)

\* Every variable of the dialogue keeps its type: a reply on record, and what a
\* round has played of it, are never longer than the reply the model gave.
THEOREM TalkTyping == TalkSpec => []TalkTypeOK
<1>1. TalkInv => TalkTypeOK
  <2> SUFFICES ASSUME TalkInv PROVE TalkTypeOK OBVIOUS
  <2>1. TalkTyped /\ Speakers BY DEF TalkInv
  <2>2. \A u \in Us : round[u] \in RoundType /\ turns[u] \in TurnType BY <2>1 DEF TalkTyped
  <2>3. ASSUME NEW u \in Us PROVE Len(turns[u].reply) <= N
    <3>1. turns[u].reply \in Speech BY <2>2 DEF TurnType
    <3>2. QED BY <3>1 DEF Speech
  <2>4. ASSUME NEW u \in Us PROVE Len(round[u].prefix) <= N
    <3>1. round[u].prefix \in Seq(Parts) BY <2>2, RoundFields
    <3>2. Rising(round[u].prefix) BY <2>1 DEF Speakers, Speaker
    <3>3. round[u].prefix \in Speech BY <3>1, <3>2, RisingIsSpeech, ConversationAssumption
    <3>4. QED BY <3>3 DEF Speech
  <2>5. ASSUME NEW u \in Us
        PROVE  /\ round[u].pc \in {"none", "remote", "local", "speak", "finish", "end"}
               /\ round[u].sp \in {"off", "recv", "wait", "play", "done"}
               /\ round[u].genEnd \in {"no", "ok", "bad"}
               /\ round[u].syn \in [Parts -> {"no", "run", "ok", "bad"}]
               /\ {round[u].gen, round[u].taken, round[u].ahead, round[u].cur} \subseteq 0 .. N
    <3>1. PICK r \in RoundType : r = round[u] BY <2>2
    <3>2. QED BY <3>1, RoundFields
  <2>6. QED BY <2>1, <2>3, <2>4, <2>5 DEF TalkTyped, TalkTypeOK
<1>2. QED BY <1>1, TalkInvariant, PTL

\* At most one round is being answered, whatever the transcripts, the verdicts
\* of the classifier and the ends of rounds do to active_round in between.
THEOREM OneVoiceHolds == TalkSpec => []OneVoice
<1>1. TalkInv => OneVoice BY DEF TalkInv
<1>2. QED BY <1>1, TalkInvariant, PTL

\* The record of an interrupted turn is exactly the sentences that were played
\* to their end, in order: spoken_prefix neither claims a sentence whose player
\* was killed nor loses one to the sentence that is synthesized ahead.
THEOREM HonestReplyHolds == TalkSpec => []HonestReply
<1>1. TalkInv => HonestReply
  <2> SUFFICES ASSUME TalkInv, NEW u \in Us, turns[u].cut
               PROVE  /\ {<<u, turns[u].reply[k]>> : k \in DOMAIN turns[u].reply} = {p \in said : p[1] = u}
                      /\ \A j, k \in DOMAIN turns[u].reply : j < k => turns[u].reply[j] < turns[u].reply[k]
    BY DEF HonestReply
  <2>1. turns[u] \in TurnType /\ said \subseteq Us \X Parts BY DEF TalkInv, TalkTyped
  <2>2. PICK s \in Seq(Parts) : s = turns[u].reply BY <2>1 DEF TurnType, Speech
  <2>3. DOMAIN s = 1 .. Len(s) BY LenProperties
  <2>4. /\ Rising(s)
        /\ \A x \in Parts : <<u, x>> \in said <=> \E i \in 1 .. Len(s) : s[i] = x
    BY <2>2 DEF TalkInv, Honest, CutTurn
  <2>5. \A k \in DOMAIN s : s[k] \in Parts BY <2>3, ElementOfSeq
  <2>6. {<<u, s[k]>> : k \in DOMAIN s} = {p \in said : p[1] = u}
    <3>1. ASSUME NEW k \in DOMAIN s PROVE <<u, s[k]>> \in said /\ <<u, s[k]>>[1] = u
      BY <2>3, <2>4, <2>5
    <3>2. ASSUME NEW p \in said, p[1] = u PROVE \E k \in DOMAIN s : p = <<u, s[k]>>
      <4>1. PICK x \in Parts : p = <<u, x>> BY <3>2, <2>1
      <4>2. PICK i \in 1 .. Len(s) : s[i] = x BY <4>1, <2>4
      <4>3. QED BY <4>1, <4>2, <2>3
    <3>3. QED BY <3>1, <3>2
  <2>7. \A j, k \in DOMAIN s : j < k => s[j] < s[k] BY <2>3, <2>4 DEF Rising
  <2>8. QED BY <2>2, <2>6, <2>7
<1>2. QED BY <1>1, TalkInvariant, PTL

\* The ear is deaf while the device speaks: without a second playback in
\* between and with the mute's cap not reached, who plays holds the mute, and
\* nobody lifts it for him.
THEOREM DeafWhileSpeakingHolds == TalkSpec => []DeafWhileSpeaking
<1>1. TalkInv => DeafWhileSpeaking
  <2> SUFFICES ASSUME TalkInv PROVE DeafWhileSpeaking OBVIOUS
  <2>1. \A u \in Us : Speaker(round[u]) BY DEF TalkInv, Speakers
  <2>2. \A u \in Us : round[u].sp = "play" => ~round[u].first /\ round[u].sp # "done"
    BY <2>1 DEF Speaker
  <2>3. Playing \subseteq Muting BY <2>2 DEF Playing, Muting
  <2>4. QED BY <2>3 DEF TalkInv, MuteIsHeld, DeafWhileSpeaking
<1>2. QED BY <1>1, TalkInvariant, PTL
=============================================================================
