----------------------------- MODULE ModelShelf -----------------------------
(***************************************************************************)
(* What the model store promises (crates/streaming/src/models.rs): a shelf *)
(* of model files and the download tasks that fill it.  A file appears     *)
(* under its final name in one step and whole; a task says "done" only     *)
(* after it has seen every file of its model on the shelf, and "canceled"  *)
(* only when somebody asked for it.  The one exception is named: a file in *)
(* suspect, which two transfers wrote at once or which was resumed over    *)
(* the bytes of a mirror that serves another version, may be damaged.      *)
(* ModelStore implements this specification.                               *)
(***************************************************************************)
EXTENDS Sequences, Integers, FiniteSets

CONSTANTS Tasks, Models, Files,
          Needs      \* Needs[m]: the sequence of files of model m

VARIABLES
  shelf,    \* what is under the final name of a file
  suspect,  \* the files the promise does not cover
  st,       \* state of a task
  wants,    \* the model a task downloads
  asked     \* the tasks somebody asked to cancel

vars == <<shelf, suspect, st, wants, asked>>

FilesOf(m) == {Needs[m][i] : i \in 1..Len(Needs[m])}

Finished == {"done", "failed", "canceled"}

Init ==
  /\ shelf \in [Files -> {"absent", "whole"}]
  /\ suspect = {}
  /\ st = [t \in Tasks |-> "idle"]
  /\ wants \in [Tasks -> Models]
  /\ asked = {}

\* A task slot is taken for a model; the task begins when it is registered.
Claim(t, m) ==
  /\ st[t] \in Finished \cup {"idle"}
  /\ st' = [st EXCEPT ![t] = "idle"]
  /\ wants' = [wants EXCEPT ![t] = m]
  /\ asked' = asked \ {t}
  /\ UNCHANGED <<shelf, suspect>>

Begin(t) ==
  /\ st[t] = "idle"
  /\ st' = [st EXCEPT ![t] = "running"]
  /\ UNCHANGED <<shelf, suspect, wants, asked>>

Ask(t) ==
  /\ asked' = asked \cup {t}
  /\ UNCHANGED <<shelf, suspect, st, wants>>

Doubt(f) ==
  /\ suspect' = suspect \cup {f}
  /\ UNCHANGED <<shelf, st, wants, asked>>

\* The rename of a finished transfer.
Place(t, f) ==
  /\ st[t] = "running"
  /\ f \in FilesOf(wants[t])
  /\ \E c \in {"whole", "damaged"} :
       /\ c = "damaged" => f \in suspect
       /\ shelf' = [shelf EXCEPT ![f] = c]
  /\ UNCHANGED <<suspect, st, wants, asked>>

\* A transfer that still has a renamed file open goes on writing to it.
Spoil(f) ==
  /\ f \in suspect
  /\ shelf[f] # "absent"
  /\ \E c \in {"whole", "damaged"} : shelf' = [shelf EXCEPT ![f] = c]
  /\ UNCHANGED <<suspect, st, wants, asked>>

Remove(f) ==
  /\ shelf' = [shelf EXCEPT ![f] = "absent"]
  /\ UNCHANGED <<suspect, st, wants, asked>>

Verify(t) ==
  /\ st[t] = "running"
  /\ \A f \in FilesOf(wants[t]) : shelf[f] # "absent"
  /\ st' = [st EXCEPT ![t] = "verified"]
  /\ UNCHANGED <<shelf, suspect, wants, asked>>

Conclude(t, v) ==
  /\ v = "done" => st[t] = "verified"
  /\ v = "failed" => st[t] = "running"
  /\ v = "canceled" => st[t] = "running" /\ t \in asked
  /\ st' = [st EXCEPT ![t] = v]
  /\ UNCHANGED <<shelf, suspect, wants, asked>>

Restart ==
  /\ st' = [t \in Tasks |-> "idle"]
  /\ asked' = {}
  /\ UNCHANGED <<shelf, suspect, wants>>

Next ==
  \/ \E t \in Tasks, m \in Models : Claim(t, m)
  \/ \E t \in Tasks : Begin(t) \/ Ask(t) \/ Verify(t)
  \/ \E t \in Tasks, v \in Finished : Conclude(t, v)
  \/ \E t \in Tasks, f \in Files : Place(t, f)
  \/ \E f \in Files : Doubt(f) \/ Spoil(f) \/ Remove(f)
  \/ Restart

Spec == Init /\ [][Next]_vars
=============================================================================
