----------------------------- MODULE AtomicFile -----------------------------
(***************************************************************************)
(* What a source that is a named file promises to those who write it: a    *)
(* writer prepares new contents on the side, and the file takes them in    *)
(* one step when the writer commits; a writer that gives up, fails or dies *)
(* leaves the file alone.                                                  *)
(***************************************************************************)
EXTENDS Naturals

CONSTANTS Processes, Contents, NONE

VARIABLES
    contents,  \* of the file, NONE when it does not exist
    pending    \* what each process is about to commit, NONE for nothing

Init ==
    /\ contents \in Contents \cup {NONE}
    /\ pending = [p \in Processes |-> NONE]

Begin(p) ==
    /\ pending[p] = NONE
    /\ \E c \in Contents : pending' = [pending EXCEPT ![p] = c]
    /\ UNCHANGED contents

Commit(p) ==
    /\ pending[p] # NONE
    /\ contents' = pending[p]
    /\ pending' = [pending EXCEPT ![p] = NONE]

Abort(p) ==
    /\ pending' = [pending EXCEPT ![p] = NONE]
    /\ UNCHANGED contents

Remove(p) ==
    /\ pending[p] = NONE
    /\ contents' = NONE
    /\ UNCHANGED pending

Next == \E p \in Processes : Begin(p) \/ Commit(p) \/ Abort(p) \/ Remove(p)

Spec == Init /\ [][Next]_<<contents, pending>>

=============================================================================
