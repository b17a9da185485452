----------------------------- MODULE ByteSource -----------------------------
(***************************************************************************)
(* What a source that is kept in memory promises: it is a sequence of      *)
(* bytes that readers see unchanged while a writer prepares other contents *)
(* on the side, and that the writer's commit replaces in one step.         *)
(***************************************************************************)
EXTENDS Integers, Sequences

CONSTANTS
    Initial,  \* the contents that a source can be made with
    Written,  \* what a writer can pass in one call
    NULL

VARIABLES
    contents,        \* what readers see, NULL before and after the source's life
    position,        \* of the readers, who share one
    opens,           \* how many of them there are
    data,            \* what the last call read
    staged,          \* what the writer has written so far, NULL without one
    write_position

vars == <<contents, position, opens, data, staged, write_position>>

Exists == contents # NULL

Writing == staged # NULL

Writer == <<staged, write_position>>

Readers == <<contents, position, opens>>

\* `bytes` in place of what `old` has from offset `at` on.
Overwritten(old, at, bytes) ==
    SubSeq(old, 1, at) \o bytes \o SubSeq(old, at + Len(bytes) + 1, Len(old))

Init ==
    /\ contents = NULL /\ position = 0 /\ opens = 0 /\ data = <<>>
    /\ staged = NULL /\ write_position = 0

Create ==
    /\ ~Exists
    /\ contents' \in Initial
    /\ UNCHANGED <<position, opens, Writer>>

Open ==
    /\ Exists
    /\ opens' = opens + 1
    /\ position' = IF opens = 0 THEN 0 ELSE position
    /\ UNCHANGED <<contents, Writer>>

Read ==
    /\ opens > 0
    /\ \E n \in 0 .. Len(contents) - position : position' = position + n
    /\ data' = SubSeq(contents, position + 1, position')
    /\ UNCHANGED <<contents, opens, Writer>>

Seek ==
    /\ opens > 0
    /\ position' \in 0 .. Len(contents)
    /\ UNCHANGED <<contents, opens, Writer>>

Close ==
    /\ opens > 0
    /\ opens' = opens - 1
    /\ UNCHANGED <<contents, position, Writer>>

\* A writer starts with nothing or with the first part of the contents.
BeginWrite ==
    /\ Exists /\ ~Writing
    /\ \E n \in 0 .. Len(contents) :
        /\ staged' = SubSeq(contents, 1, n)
        /\ write_position' = n
    /\ UNCHANGED Readers

Write ==
    /\ Writing
    /\ \E bytes \in Written :
        /\ staged' = Overwritten(staged, write_position, bytes)
        /\ write_position' = write_position + Len(bytes)
    /\ UNCHANGED Readers

\* A write that runs out of memory may have replaced some bytes, but adds none
\* and stays where it was.
WriteFails ==
    /\ Writing
    /\ \E bytes \in Written : \E n \in 0 .. Len(bytes) :
        /\ write_position + n <= Len(staged)
        /\ staged' = Overwritten(staged, write_position, SubSeq(bytes, 1, n))
    /\ UNCHANGED <<Readers, write_position>>

SeekWrite ==
    /\ Writing
    /\ write_position' \in 0 .. Len(staged)
    /\ UNCHANGED <<Readers, staged>>

NoWriter == staged' = NULL /\ write_position' = 0

\* The last reader is sent away.
CommitWrite ==
    /\ Writing /\ opens <= 1
    /\ contents' = staged
    /\ position' \in 0 .. Len(staged)
    /\ opens' = 0
    /\ NoWriter

RollbackWrite ==
    /\ Exists
    /\ NoWriter
    /\ UNCHANGED Readers

Remove ==
    /\ Exists
    /\ contents' = <<>> /\ position' = 0 /\ opens' \in {0, opens - 1, opens} \cap Nat
    /\ NoWriter

Free ==
    /\ Exists
    /\ contents' = NULL /\ position' = 0 /\ opens' = 0
    /\ NoWriter

\* Any call may fail.  One that was to remove the source may have sent a reader
\* and the writer away.
Fail ==
    /\ UNCHANGED <<contents, position>>
    /\ data' \in {data, <<>>}
    /\ \/ UNCHANGED <<opens, Writer>>
       \/ opens > 0 /\ opens' = opens - 1 /\ (NoWriter \/ UNCHANGED Writer)
       \/ UNCHANGED opens /\ NoWriter

Next ==
    \/ Read \/ Fail
    \/ /\ \/ Create \/ Open \/ Seek \/ Close
          \/ BeginWrite \/ Write \/ WriteFails \/ SeekWrite \/ CommitWrite \/ RollbackWrite
          \/ Remove \/ Free
       /\ data' = <<>>

Spec == Init /\ [][Next]_vars

=============================================================================
