---------------------------- MODULE ArchiveStore ----------------------------
(***************************************************************************)
(* What an archive promises to the program that uses it, without indices,  *)
(* name table or directory entries: a session works on a copy of the       *)
(* stored files.  It puts, renames and deletes files by name, takes back   *)
(* what it did to a file that was stored before or to a file it added, and *)
(* in the end the working copy replaces what is stored or is dropped.      *)
(* Nothing else changes what is stored, and every operation on a name      *)
(* leaves the files of all other names alone.                              *)
(***************************************************************************)
CONSTANTS Names, Contents, NULL

VARIABLES
    stored, \* the data stored under each name, NULL for a name not stored
    base,   \* the stored data this session started from, NULL without session
    work    \* the working copy: the data under each name and the name under
            \* which the file was stored before

vars == <<stored, base, work>>

Nothing == [n \in Names |-> NULL]

Copy(files) ==
    [n \in Names |-> IF files[n] = NULL THEN NULL ELSE [from |-> n, data |-> files[n]]]

InSession == base # NULL

Init == stored \in [Names -> Contents \cup {NULL}] /\ base = NULL /\ work = NULL

\* A session starts from what is stored, or from nothing when it truncates.
Begin ==
    /\ ~InSession
    /\ base' \in {stored, Nothing}
    /\ work' = Copy(base')
    /\ UNCHANGED stored

(***************************************************************************)
(* What one operation makes of a working copy w of the stored files b.     *)
(***************************************************************************)

Put(w, n, d) ==
    [w EXCEPT ![n] = IF @ = NULL THEN [from |-> NULL, data |-> d]
                     ELSE [@ EXCEPT !.data = d]]

\* Deleting a file; also taking back that it was added.
Remove(w, n) == [w EXCEPT ![n] = NULL]

Rename(w, n, m) == [w EXCEPT ![n] = NULL, ![m] = w[n]]

\* The working copy without the file that was stored under the name o.
Without(w, o) ==
    [n \in Names |-> IF w[n] # NULL /\ w[n].from = o THEN NULL ELSE w[n]]

\* A stored file is as it was stored, under the name it had.
Restore(w, b, o) == [Without(w, o) EXCEPT ![o] = [from |-> o, data |-> b[o]]]

\* The copies one operation can make of w.  No file takes a name in use.
Edited(w, b) ==
    LET used == {n \in Names : w[n] # NULL}
    IN {Put(w, n, d) : n \in Names, d \in Contents}
       \cup {Remove(w, n) : n \in used}
       \cup {Rename(w, n, m) : n \in used, m \in Names \ used}
       \cup {Restore(w, b, o) : o \in {n \in Names : b[n] # NULL /\ Without(w, n)[n] = NULL}}
       \cup {Copy(b)}

Edit ==
    /\ InSession
    /\ UNCHANGED <<stored, base>>
    /\ work' \in Edited(work, base)

End == InSession /\ base' = NULL /\ work' = NULL

Commit ==
    /\ End
    /\ stored' = [n \in Names |-> IF work[n] = NULL THEN NULL ELSE work[n].data]

Abandon == End /\ UNCHANGED stored

Next == Begin \/ Edit \/ Commit \/ Abandon

Spec == Init /\ [][Next]_vars
=============================================================================
