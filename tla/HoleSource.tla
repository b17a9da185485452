----------------------------- MODULE HoleSource -----------------------------
(***************************************************************************)
(* The source of the regression tests for archives that are larger than    *)
(* the disk (regress/programs/source_hole.c): a buffer of fragments, of    *)
(* which those that have only zeros take no memory, and a file that keeps  *)
(* runs of such fragments as their number.                                 *)
(*                                                                         *)
(* The calls are those that lib/zip_source_*.c passes on; one that they    *)
(* refuse changes nothing.  Allocations of the test program succeed.       *)
(***************************************************************************)
EXTENDS Integers, SequencesExt, FiniteSetsExt

CONSTANTS
    FragmentSize,   \* FRAGMENT_SIZE, positive
    FirstCapacity,  \* of a buffer that is written to, positive: 4
    InitialFiles,   \* files that exist before, or NONE
    Written,        \* what a writer passes in one call
    Seeks,          \* the pairs of an offset and a whence that are sought
    MaxSize,        \* bound on the contents
    MaxOpens,       \* bound on the readers
    NONE, DAMAGED

VARIABLES
    file,         \* what is stored under the source's name, or NONE
    in, out,      \* buffers, or NONE; in is NONE while there is no source
    data,         \* what the last call read
    open_count,
    write_state,
    fault         \* whether the system refused to open or to write the file

vars == <<file, in, out, data, open_count, write_state, fault>>

Zeros(n) == [i \in 1 .. n |-> 0]

\* Faulty variant: only the first byte is looked at.
OnlyNulFirst(bytes) == bytes = <<>> \/ bytes[1] = 0

\* only_nul
OnlyNul(bytes) == bytes = Zeros(Len(bytes))

\* The bytes of a fragment, that of a hole being NONE.
Bytes(b, fragment) == IF fragment = NONE THEN Zeros(b.fragment_size) ELSE fragment

NewBuffer == [fragment_size |-> FragmentSize, fragment |-> <<>>, size |-> 0, offset |-> 0]

(***************************************************************************)
(* The file: the size of a fragment, the size of the contents, and chunks, *)
(* each a fragment or the number of fragments that are zero.               *)
(***************************************************************************)
Data(bytes) == [kind |-> "data", bytes |-> bytes, n |-> 1]
Nul(n) == [kind |-> "nul", bytes |-> <<>>, n |-> n]

NumFragments(size, fragment_size) == (size + fragment_size - 1) \div fragment_size

FragmentsOf(chunk) == IF chunk.kind = "data" THEN <<chunk.bytes>> ELSE [i \in 1 .. chunk.n |-> NONE]

\* buffer_read_file; a file that ends before its last fragment is an error.
BufferReadFile(f) ==
    LET fragments == FlattenSeq([i \in DOMAIN f.chunks |-> FragmentsOf(f.chunks[i])])
        n == NumFragments(f.size, f.fragment_size)
    IN  IF Len(fragments) < n THEN NONE
        ELSE [fragment_size |-> f.fragment_size, fragment |-> SubSeq(fragments, 1, n),
              size |-> f.size, offset |-> 0]

\* Fragments of zeros are counted.
AddChunk(chunks, bytes) ==
    IF ~OnlyNul(bytes) THEN Append(chunks, Data(bytes))
    ELSE IF chunks # <<>> /\ Last(chunks).kind = "nul"
         THEN [chunks EXCEPT ![Len(chunks)].n = @ + 1]
         ELSE Append(chunks, Nul(1))

\* buffer_to_file
BufferToFile(b) ==
    LET stored == SubSeq(b.fragment, 1, NumFragments(b.size, b.fragment_size))
    IN  [fragment_size |-> b.fragment_size, size |-> b.size,
         chunks |-> FoldLeft(LAMBDA chunks, f : AddChunk(chunks, Bytes(b, f)), <<>>, stored)]

\* What is left of it if writing fails.
Cut(f) == {[f EXCEPT !.chunks = SubSeq(@, 1, n)] : n \in 0 .. Len(f.chunks) - 1}

(***************************************************************************)
(* The buffer.                                                             *)
(***************************************************************************)

\* The byte at a position, in its fragment.
ByteAt(b, at) == Bytes(b, b.fragment[(at \div b.fragment_size) + 1])[(at % b.fragment_size) + 1]

\* buffer_read
BufferRead(b, length) ==
    [i \in 1 .. Min({length, b.size - b.offset}) |-> ByteAt(b, b.offset + i - 1)]

\* buffer_seek
SeekOffset(b, offset, whence) ==
    LET to == CASE whence = "SET" -> offset
                [] whence = "CUR" -> b.offset + offset
                [] whence = "END" -> b.size + offset
    IN IF to \in 0 .. b.size THEN to ELSE -1

RECURSIVE Doubled(_, _)
Doubled(n, needed) == IF n >= needed THEN n ELSE Doubled(2 * n, needed)

\* The array grows to twice its length until the bytes fit; new fragments are holes.
Grown(b, end) ==
    LET n == Len(b.fragment)
        new == Doubled(IF n = 0 THEN FirstCapacity ELSE n, NumFragments(end, b.fragment_size))
    IN  IF end <= n * b.fragment_size THEN b.fragment
        ELSE b.fragment \o [i \in 1 .. new - n |-> NONE]

\* A fragment that is written to gets memory; one that has some keeps the
\* bytes around those that are written.
Filled(b, fragments, bytes) ==
    [i \in DOMAIN fragments |->
        LET from == (i - 1) * b.fragment_size
        IN IF from + b.fragment_size <= b.offset \/ from >= b.offset + Len(bytes) THEN fragments[i]
           ELSE [k \in 1 .. b.fragment_size |->
                   IF from + k - 1 \in b.offset .. b.offset + Len(bytes) - 1
                   THEN bytes[from + k - b.offset]
                   ELSE Bytes(b, fragments[i])[k]]]

\* buffer_write
BufferWrite(b, bytes) ==
    LET end == b.offset + Len(bytes)
        fragments == Grown(b, end)
    IN  [b EXCEPT !.fragment = IF OnlyNul(bytes) THEN fragments ELSE Filled(b, fragments, bytes),
                  !.offset = end, !.size = Max({@, end})]

(***************************************************************************)
(* source_hole_cb.                                                         *)
(***************************************************************************)
Exists == in # NONE
Writing == write_state = "OPEN"

Init ==
    /\ file \in InitialFiles
    /\ in = NONE /\ out = NONE /\ data = <<>>
    /\ open_count = 0 /\ write_state = "CLOSED" /\ fault = FALSE

\* source_hole_create, with the flags ZIP_TRUNCATE and ZIP_CREATE
Create(truncate, create) ==
    /\ ~Exists
    /\ in' = IF truncate THEN NewBuffer
             ELSE IF file = NONE THEN (IF create THEN NewBuffer ELSE NONE)
             ELSE BufferReadFile(file)
    /\ data' = <<>>
    /\ UNCHANGED <<file, out, open_count, write_state, fault>>

Open ==
    /\ Exists /\ open_count < MaxOpens
    /\ open_count' = open_count + 1
    /\ in' = IF open_count = 0 THEN [in EXCEPT !.offset = 0] ELSE in
    /\ data' = <<>>
    /\ UNCHANGED <<file, out, write_state, fault>>

Read(length) ==
    /\ Exists /\ open_count > 0
    /\ data' = BufferRead(in, length)
    /\ in' = [in EXCEPT !.offset = @ + Len(data')]
    /\ UNCHANGED <<file, out, open_count, write_state, fault>>

Seek(offset, whence) ==
    /\ Exists /\ open_count > 0
    /\ SeekOffset(in, offset, whence) >= 0
    /\ in' = [in EXCEPT !.offset = SeekOffset(in, offset, whence)]
    /\ data' = <<>>
    /\ UNCHANGED <<file, out, open_count, write_state, fault>>

Close ==
    /\ Exists /\ open_count > 0
    /\ open_count' = open_count - 1
    /\ data' = <<>>
    /\ UNCHANGED <<file, in, out, write_state, fault>>

\* A buffer that a failed commit left is lost.
BeginWrite ==
    /\ Exists /\ ~Writing
    /\ out' = NewBuffer
    /\ write_state' = "OPEN"
    /\ data' = <<>>
    /\ UNCHANGED <<file, in, open_count, fault>>

Write(bytes) ==
    /\ Writing /\ out.offset + Len(bytes) <= MaxSize
    /\ out' = BufferWrite(out, bytes)
    /\ data' = <<>>
    /\ UNCHANGED <<file, in, open_count, write_state, fault>>

SeekWrite(offset, whence) ==
    /\ Writing
    /\ SeekOffset(out, offset, whence) >= 0
    /\ out' = [out EXCEPT !.offset = SeekOffset(out, offset, whence)]
    /\ data' = <<>>
    /\ UNCHANGED <<file, in, open_count, write_state, fault>>

\* zip_source_commit_write closes the source first.  What fwrite returns is not
\* looked at: a full disk is noticed only if fclose meets it.
CommitWrite ==
    /\ Writing /\ open_count <= 1
    /\ \/ file' = BufferToFile(out) /\ UNCHANGED fault
       \/ file' \in Cut(BufferToFile(out)) /\ fault' = TRUE
    /\ in' = out /\ out' = NONE
    /\ write_state' = "CLOSED"
    /\ open_count' = 0
    /\ data' = <<>>

CommitWriteFails ==
    /\ Writing /\ open_count <= 1
    /\ file' \in {file} \cup Cut(BufferToFile(out))
    /\ fault' = TRUE
    /\ write_state' = "FAILED"
    /\ UNCHANGED <<in, out>>
    /\ open_count' = 0
    /\ data' = <<>>

RollbackWrite ==
    /\ Exists /\ write_state \in {"OPEN", "FAILED"}
    /\ out' = NONE /\ write_state' = "CLOSED"
    /\ data' = <<>>
    /\ UNCHANGED <<file, in, open_count, fault>>

\* zip_source_remove closes the source once.
RemoveFile ==
    /\ Exists /\ write_state # "REMOVED"
    /\ file' = NONE /\ in' = NewBuffer /\ out' = NONE
    /\ open_count' = Max({open_count - 1, 0})
    /\ write_state' = "REMOVED"
    /\ data' = <<>>
    /\ UNCHANGED fault

Free ==
    /\ Exists
    /\ in' = NONE /\ out' = NONE /\ open_count' = 0 /\ write_state' = "CLOSED"
    /\ data' = <<>>
    /\ UNCHANGED <<file, fault>>

Next ==
    \/ \E truncate, create \in BOOLEAN : Create(truncate, create)
    \/ Open \/ Close
    \/ \E length \in 1 .. MaxSize : Read(length)
    \/ \E s \in Seeks : Seek(s[1], s[2]) \/ SeekWrite(s[1], s[2])
    \/ BeginWrite \/ (\E bytes \in Written : Write(bytes))
    \/ CommitWrite \/ CommitWriteFails \/ RollbackWrite \/ RemoveFile \/ Free

Spec == Init /\ [][Next]_vars

(***************************************************************************)
(* Properties                                                              *)
(***************************************************************************)

\* The contents of a buffer: its fragments one after the other, up to its size.
Contents(b) == SubSeq(FlattenSeq([i \in DOMAIN b.fragment |-> Bytes(b, b.fragment[i])]), 1, b.size)

\* What a file that was stored whole stands for.
Stored(f) ==
    IF f = NONE THEN NONE
    ELSE LET bytes == FlattenSeq([i \in DOMAIN f.chunks |->
                 IF f.chunks[i].kind = "data" THEN f.chunks[i].bytes
                 ELSE Zeros(f.chunks[i].n * f.fragment_size)])
         IN IF Len(bytes) < f.size THEN DAMAGED ELSE SubSeq(bytes, 1, f.size)

\* The source gives back what was written, now and after it was made again from
\* its file, wherever the holes are and whatever the size of the fragments.
Abstract == INSTANCE ByteFile WITH
    Initial <- {Stored(f) : f \in InitialFiles} \ {NONE},
    NULL <- NONE,
    contents <- IF Exists THEN Contents(in) ELSE NONE,
    position <- IF Exists THEN in.offset ELSE 0,
    opens <- open_count,
    staged <- IF Writing THEN Contents(out) ELSE NONE,
    write_position <- IF Writing THEN out.offset ELSE 0,
    disk <- Stored(file)

HoleKeepsBytes == Abstract!FileSpec

=============================================================================
