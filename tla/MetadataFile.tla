---------------------------- MODULE MetadataFile ----------------------------
(***************************************************************************)
(* What the desktop's metadata file promises: "old-or-new on power loss"   *)
(* (storage.ts, storage.rs). The file always is one whole state that the   *)
(* process held, or the one it started from; never a mixture, never a part.*)
(***************************************************************************)
CONSTANT Contents   \* everything the file may say

VARIABLES
  memory,  \* the state the process holds
  held,    \* the states the file may go back to: old ones and those it held since
  file     \* what the file says

vars == <<memory, held, file>>

Init ==
  /\ file \in Contents
  /\ memory = file
  /\ held = {file}

Change(c) ==
  /\ memory' = c
  /\ held' = held \cup {c}
  /\ UNCHANGED file

Save(c) ==
  /\ c \in held
  /\ file' = c
  /\ UNCHANGED <<memory, held>>

\* The process ends, however it does, and starts again from what is left.
Restart(c, h) ==
  /\ file' = c
  /\ memory' = c
  /\ held' = h

Next ==
  \/ \E c \in Contents : Change(c) \/ Save(c)
  \/ \E h \in SUBSET held : \E c \in h : Restart(c, h)

Spec == Init /\ [][Next]_vars
=============================================================================
