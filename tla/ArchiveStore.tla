---------------------------- MODULE ArchiveStore -----------------------------
(***************************************************************************)
(* What src/src/pfs.c promises: an archive file is a map from names to     *)
(* contents, a session works on a copy of it, and saving replaces the file *)
(* by the copy, unless another program has changed the file meanwhile.     *)
(***************************************************************************)
EXTENDS Naturals

CONSTANTS Names, Contents

Absent == "absent"
Damaged == "damaged"                   \* has other bytes than were put, if any file has
Hollow == "hollow"                     \* has a length, and no bytes
Torn == [n \in Names |-> "torn"]       \* no archive
Closed == [n \in Names |-> "closed"]   \* no session

VARIABLES
  file,    \* the archive, or Torn when it cannot be opened
  view,    \* the session's copy, or Closed
  unseen,  \* whether another program has written the file since the session read it
  saved    \* whether the file is as the session has saved it

vars == <<file, view, unseen, saved>>

Archives == [Names -> Contents \cup {Absent, Damaged}]

Init == file \in Archives /\ view = Closed /\ ~unseen /\ ~saved

\* A session begins, and gets the archive it has looked at.
Look == view = Closed /\ ~unseen' /\ ~saved' /\ UNCHANGED <<file, view>>

Open ==
  /\ view = Closed /\ ~unseen /\ file # Torn
  /\ view' = file
  /\ UNCHANGED <<file, unseen, saved>>

\* A put changes the name it is for and no other.  One that fails may damage
\* the name, and leaves it hollow only when it has not been there before.
Put ==
  /\ UNCHANGED <<file, unseen, saved>>
  /\ \E n \in Names :
       /\ view'[n] \in Contents \cup {Damaged, Hollow}
       /\ view'[n] = Hollow => view[n] \in {Absent, Hollow}
       /\ view' = [view EXCEPT ![n] = view'[n]]

\* Saving begins only on a file the session knows.  Until it ends, and for good
\* if it fails, the file is no archive.
Begin == ~unseen /\ file' = Torn /\ ~saved' /\ UNCHANGED <<view, unseen>>

Filled == \A n \in Names : view[n] # Hollow
Sound == Filled /\ \A n \in Names : view[n] # Damaged

\* A sound copy is saved as it is.  With a damaged name the file may be no
\* archive, every name lost; if it is one, no other name has suffered.  With a
\* hollow name nothing is promised of any name.
Commit ==
  /\ file = Torn
  /\ file' \in Archives \cup {Torn}
  /\ Filled => \/ \A n \in Names : view[n] # Damaged => file'[n] = view[n]
               \/ ~Sound /\ file' = Torn
  /\ ~unseen' /\ saved'
  /\ UNCHANGED view

Close == view' = Closed /\ UNCHANGED <<file, unseen, saved>>

Other == file' \in Archives /\ unseen' /\ ~saved' /\ UNCHANGED view

Next ==
  \/ Look \/ Open \/ Close \/ Other
  \/ view # Closed /\ (Put \/ Begin \/ Commit)

Spec == Init /\ [][Next]_vars

==============================================================================
