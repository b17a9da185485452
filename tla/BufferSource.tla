---------------------------- MODULE BufferSource ----------------------------
(***************************************************************************)
(* The source that is kept in memory (zip_source_buffer.c), under the      *)
(* calls of zip_source_*.c.  A buffer is a list of fragments of memory; a  *)
(* writer that starts from the current contents shares their memory with   *)
(* the readers, and copies a fragment before it writes into it.            *)
(*                                                                         *)
(* Memory is modelled as addresses, the blocks of bytes at them and who    *)
(* has to free them.  Every allocation may fail: a call finds `left` more  *)
(* that succeed.  The arrays that a buffer keeps its fragments in are      *)
(* reallocated, and counted, but have no address.  Fragments and their     *)
(* offsets are numbered from 1.                                            *)
(***************************************************************************)
EXTENDS Integers, SequencesExt, FiniteSetsExt

CONSTANTS
    MaxAddress,     \* bound on the memory
    Byte,           \* what a byte can be
    UserFragments,  \* the lists of fragments that a user makes a source of
    Written,        \* what a writer passes in one call
    Seeks,          \* the pairs of an offset and a whence that are sought
    MaxLeft,        \* more allocations than any call makes
    MaxSize,        \* bound on the contents
    MaxOpens,       \* bound on the readers
    MaxWrites,      \* bound on the calls that begin to write or write
    FragmentSize,   \* WRITE_FRAGMENT_SIZE
    FirstCapacity,  \* of the arrays of a buffer that is written to: 16
    NULL, CORRUPT,  \* memory that is free, and memory freed twice
    UNDEFINED       \* a byte that was allocated and not written

ASSUME SizeAssumption ==
    /\ FragmentSize \in Nat \ {0} /\ FirstCapacity \in Nat \ {0}
    /\ MaxAddress \in Nat /\ MaxLeft \in Nat /\ MaxSize \in Nat

Addresses == 1 .. MaxAddress

Bytes == Seq(Byte \cup {UNDEFINED})

Block == [bytes : Bytes, user : BOOLEAN]

Fragment == [data : Addresses, length : Nat, free_data : BOOLEAN]

Buffer ==
    [fragments : Seq(Fragment), offsets : Seq(Nat), capacity : Nat, shared_buffer : BOOLEAN,
     size : Nat, offset : Nat, current : Nat]

ASSUME NullAssumption ==
    /\ NULL \notin Bytes /\ NULL \notin Block /\ NULL \notin Buffer
    /\ CORRUPT \notin Block /\ CORRUPT # NULL

ASSUME UserAssumption ==
    /\ UserFragments \subseteq Seq(Seq(Byte) \cup {NULL})
    /\ \A list \in UserFragments : Len(list) <= MaxAddress
    /\ Written \subseteq Seq(Byte)

VARIABLES
    memory,       \* the blocks at the addresses
    in, out,      \* the buffers of the readers and of the writer, or NULL
    free_data,    \* whether the source frees the user's fragments (freep)
    open_count,
    data,         \* what the last call read
    write_state,  \* NEW until the source exists, and then that of struct zip_source
    writes        \* how often the writer was called

vars == <<memory, in, out, free_data, open_count, data, write_state, writes>>

(***************************************************************************)
(* The calls work on what is in memory, with a count of the allocations    *)
(* that succeed and whether the call did.                                  *)
(***************************************************************************)

Memory(left) == [memory |-> memory, in |-> in, out |-> out, left |-> left, ok |-> TRUE]

Becomes(m) == memory' = m.memory /\ in' = m.in /\ out' = m.out

Failed(m) == [m EXCEPT !.ok = FALSE]

Uses(m, n) == [m EXCEPT !.left = @ - n]

IsFull(m) == \A a \in Addresses : m.memory[a] # NULL

FreeAddress(m) == CHOOSE a \in Addresses : m.memory[a] = NULL

Put(m, bytes) == [m EXCEPT !.memory[FreeAddress(m)] = [bytes |-> bytes, user |-> FALSE]]

\* free
Freed(mem, addresses) ==
    [a \in Addresses |->
        IF a \notin addresses THEN mem[a] ELSE IF mem[a] = NULL THEN CORRUPT ELSE NULL]

\* buffer_new without fragments; its fragment_offsets has one entry.
NewBuffer ==
    [fragments |-> <<>>, offsets |-> <<0>>, capacity |-> 0, shared_buffer |-> FALSE,
     size |-> 0, offset |-> 0, current |-> 1]

BufferCapacity(b) == Last(b.offsets)

\* One turn of the loop of buffer_find_fragment, which narrows the range of
\* fragments <<low, high>> to one.
Narrowed(b, offset, range) ==
    LET low == range[1]
        high == range[2]
        mid == (high - low) \div 2 + low
    IN IF low >= high THEN range
       ELSE IF b.offsets[mid] > offset THEN <<low, mid - 1>>
       ELSE IF b.offsets[mid + 1] > offset THEN <<mid, mid>>
       ELSE <<mid + 1, high>>

\* buffer_find_fragment
FindFragment(b, offset) ==
    LET n == Len(b.fragments)
        range[k \in 0 .. n] == IF k = 0 THEN <<1, n>> ELSE Narrowed(b, offset, range[k - 1])
    IN IF n = 0 THEN 1 ELSE range[n][1]

\* buffer_is_fragment_shared, for a buffer and the other one
IsShared(b, other, i) ==
    /\ b.shared_buffer
    /\ i <= Len(other.fragments)
    /\ b.fragments[i].data = other.fragments[i].data

\* Faulty variant: the fragments of the user are freed, given away or not.
FreedFragmentsAny(b, other) ==
    {b.fragments[i].data : i \in {j \in DOMAIN b.fragments : ~IsShared(b, other, j)}}

\* buffer_free of a buffer that is in use
FreedFragments(b, other) ==
    {b.fragments[i].data :
        i \in {j \in DOMAIN b.fragments : b.fragments[j].free_data /\ ~IsShared(b, other, j)}}

Unshared(b) == IF b = NULL THEN NULL ELSE [b EXCEPT !.shared_buffer = FALSE]

FreeIn(m) ==
    [m EXCEPT !.memory = Freed(m.memory, FreedFragments(m.in, m.out)),
              !.in = NULL, !.out = Unshared(m.out)]

FreeOut(m) ==
    IF m.out = NULL THEN m
    ELSE [m EXCEPT !.memory = Freed(m.memory, FreedFragments(m.out, m.in)),
                   !.out = NULL, !.in = Unshared(m.in)]

\* The byte at a place of a buffer, where fragment i is the one it is in.
ByteIn(mem, b, i, place) == mem[b.fragments[i].data].bytes[place - b.offsets[i]]

\* buffer_read: the fragment of each byte is found from the current one on.
ReadBytes(b, length) ==
    LET fragment(place) == Min({i \in b.current .. Len(b.fragments) : place <= b.offsets[i + 1]})
    IN [k \in 1 .. Min({length, b.size - b.offset}) |->
           ByteIn(memory, b, fragment(b.offset + k), b.offset + k)]

\* Where n bytes further is, from the current fragment on.
Advanced(b, n) ==
    IF n = 0 THEN b
    ELSE [b EXCEPT !.offset = b.offset + n,
                   !.current = Min({i \in b.current .. Len(b.fragments) + 1 :
                                       i <= Len(b.fragments) => b.offsets[i + 1] > b.offset + n})]

\* buffer_seek
Sought(b, offset) == [b EXCEPT !.offset = offset, !.current = FindFragment(b, offset)]

(***************************************************************************)
(* buffer_clone: the fragments up to an offset, the last one cut.          *)
(***************************************************************************)

\* The fragment that the byte before the offset is in.
LastFragment(b, offset) ==
    LET i == FindFragment(b, offset) IN IF b.offsets[i] = offset THEN i - 1 ELSE i

CanClone(b, offset) ==
    /\ offset <= b.size
    /\ ~b.shared_buffer
    /\ b.offsets[LastFragment(b, offset) + 1] - offset <= offset

Cloned(b, offset) ==
    LET last == LastFragment(b, offset)
    IN [NewBuffer EXCEPT
            !.fragments = [SubSeq(b.fragments, 1, last) EXCEPT ![last].length = offset - b.offsets[last]],
            !.offsets = Append(SubSeq(b.offsets, 1, last), offset),
            !.capacity = last, !.size = offset, !.shared_buffer = TRUE]

\* Faulty variant: the buffer of the readers does not learn of the clone.
CloneUnnoticed(m, offset) == [m EXCEPT !.out = Cloned(m.in, offset)]

Clone(m, offset) ==
    [m EXCEPT !.in = [m.in EXCEPT !.shared_buffer = TRUE], !.out = Cloned(m.in, offset)]

(***************************************************************************)
(* buffer_write                                                            *)
(***************************************************************************)

\* The capacity is doubled until it is enough.
DoubledTo(needed, capacity) ==
    LET doubled[k \in 0 .. needed] ==
            IF k = 0 THEN (IF capacity = 0 THEN FirstCapacity ELSE capacity)
            ELSE IF doubled[k - 1] >= needed THEN doubled[k - 1] ELSE 2 * doubled[k - 1]
    IN doubled[needed]

\* How many fragments are missing for `length` bytes from the offset on.
MissingFragments(b, length) ==
    LET beyond == b.offset + length - BufferCapacity(b)
    IN IF beyond <= 0 THEN 0 ELSE (beyond + FragmentSize - 1) \div FragmentSize

\* buffer_grow_fragments, two reallocations
GrowFragments(m, needed) ==
    IF needed <= m.out.capacity THEN m
    ELSE IF m.left < 2 THEN Failed(Uses(m, m.left))
    ELSE [Uses(m, 2) EXCEPT !.out = [m.out EXCEPT !.capacity = DoubledTo(needed, m.out.capacity)]]

\* The buffer with one more fragment, at an address.
Longer(b, address) ==
    [b EXCEPT !.fragments = Append(@, [data |-> address, length |-> FragmentSize, free_data |-> TRUE]),
              !.offsets = Append(@, BufferCapacity(b) + FragmentSize)]

AddFragment(m) ==
    IF ~m.ok \/ m.left = 0 \/ IsFull(m) THEN Failed(m)
    ELSE [Uses(Put(m, [i \in 1 .. FragmentSize |-> UNDEFINED]), 1)
            EXCEPT !.out = Longer(m.out, FreeAddress(m))]

Grow(m, length) ==
    LET missing == MissingFragments(m.out, length)
        added[k \in 0 .. missing] ==
            IF k = 0 THEN GrowFragments(m, Len(m.out.fragments) + missing) ELSE AddFragment(added[k - 1])
    IN added[missing]

\* The buffer with a copy at an address in place of the memory of fragment i.
Copied(b, i, address) ==
    [b EXCEPT !.fragments[i] = [b.fragments[i] EXCEPT !.data = address, !.free_data = TRUE]]

\* Faulty variant: what the readers have is written to.
MakeWritableNot(m, i) == m

\* buffer_make_fragment_writable
MakeWritable(m, i) ==
    LET fragment == m.out.fragments[i]
    IN IF ~IsShared(m.out, m.in, i) THEN m
       ELSE IF m.left = 0 \/ IsFull(m) THEN Failed(m)
       ELSE [Uses(Put(m, SubSeq(m.memory[fragment.data].bytes, 1, fragment.length)), 1)
               EXCEPT !.out = Copied(m.out, i, FreeAddress(m))]

\* What the memory of fragment i holds when the bytes are written that belong there.
Overlaid(old, b, i, bytes) ==
    LET first == b.offset - b.offsets[i]
    IN [p \in DOMAIN old |->
           IF p - first \in DOMAIN bytes /\ p <= b.fragments[i].length THEN bytes[p - first] ELSE old[p]]

Stored(m, i, bytes) ==
    LET address == m.out.fragments[i].data
    IN [m EXCEPT !.memory[address] =
           [m.memory[address] EXCEPT !.bytes = Overlaid(m.memory[address].bytes, m.out, i, bytes)]]

\* The loop of buffer_write comes to fragment i.
IsTouched(b, i, length) == length > 0 /\ i >= b.current /\ b.offsets[i] < b.offset + length

StoreInto(m, i, bytes) ==
    IF ~m.ok \/ ~IsTouched(m.out, i, Len(bytes)) THEN m
    ELSE LET w == MakeWritable(m, i) IN IF w.ok THEN Stored(w, i, bytes) ELSE w

Sized(b) == [b EXCEPT !.size = Max({@, b.offset})]

BufferWrite(m, bytes) ==
    LET grown == Grow(m, Len(bytes))
        n == Len(grown.out.fragments)
        stored[i \in 0 .. n] == IF i = 0 THEN grown ELSE StoreInto(stored[i - 1], i, bytes)
        done == stored[n]
    IN IF done.ok THEN [done EXCEPT !.out = Sized(Advanced(done.out, Len(bytes)))] ELSE done

(***************************************************************************)
(* The calls                                                               *)
(***************************************************************************)

Init ==
    /\ memory = [a \in Addresses |-> NULL]
    /\ in = NULL /\ out = NULL
    /\ free_data = FALSE
    /\ open_count = 0
    /\ data = <<>>
    /\ write_state = "NEW"
    /\ writes = 0

Reading == open_count > 0

Writing == write_state = "OPEN"

Exists == write_state \notin {"NEW", "FREED"}

\* A call that is refused, or fails before it has changed anything.
Fails == UNCHANGED vars

\* The buffer with the k-th of the fragments that the user has at the first
\* addresses; one without bytes is not kept.
With(b, list, k, freep) ==
    IF list[k] = <<>> THEN b
    ELSE [b EXCEPT !.fragments = Append(@, [data |-> k, length |-> Len(list[k]), free_data |-> freep]),
                   !.offsets = Append(@, BufferCapacity(b) + Len(list[k])),
                   !.size = BufferCapacity(b) + Len(list[k])]

\* buffer_new
BufferOf(list, freep) ==
    LET made[k \in 0 .. Len(list)] ==
            IF k = 0 THEN [NewBuffer EXCEPT !.capacity = Len(list)] ELSE With(made[k - 1], list, k, freep)
    IN made[Len(list)]

\* zip_source_buffer_fragment_with_attributes_create.  The user keeps the
\* fragments when it fails; a fragment with a length has to have memory.
Create(list, freep) ==
    /\ write_state = "NEW"
    /\ \/ Fails
       \/ /\ \A i \in DOMAIN list : list[i] # NULL
          /\ in' = BufferOf(list, freep)
          /\ memory' = [a \in Addresses |->
                IF a \in DOMAIN list /\ (list[a] # <<>> \/ ~freep)
                THEN [bytes |-> list[a], user |-> TRUE] ELSE NULL]
          /\ free_data' = freep
          /\ data' = <<>>
          /\ write_state' = "CLOSED"
          /\ UNCHANGED <<out, open_count, writes>>

\* zip_source_open; OPEN rewinds.
Open ==
    /\ Exists /\ open_count < MaxOpens
    /\ IF write_state = "REMOVED" THEN Fails
       ELSE /\ open_count' = open_count + 1
            /\ in' = IF Reading THEN in ELSE [in EXCEPT !.offset = 0, !.current = 1]
            /\ data' = <<>>
            /\ UNCHANGED <<memory, out, free_data, write_state, writes>>

\* zip_source_read
Read(length) ==
    /\ Exists
    /\ IF ~Reading THEN Fails
       ELSE /\ data' = ReadBytes(in, length)
            /\ in' = Advanced(in, Len(data'))
            /\ UNCHANGED <<memory, out, free_data, open_count, write_state, writes>>

\* zip_source_seek_compute_offset
ComputeOffset(b, offset, whence) ==
    LET sought == CASE whence = "SET" -> offset
                    [] whence = "CUR" -> b.offset + offset
                    [] whence = "END" -> b.size + offset
    IN IF sought \in 0 .. b.size THEN sought ELSE -1

\* zip_source_seek
Seek(offset, whence) ==
    /\ Exists
    /\ IF ~Reading \/ ComputeOffset(in, offset, whence) < 0 THEN Fails
       ELSE /\ in' = Sought(in, ComputeOffset(in, offset, whence))
            /\ data' = <<>>
            /\ UNCHANGED <<memory, out, free_data, open_count, write_state, writes>>

\* zip_source_close
Close ==
    /\ Exists
    /\ IF ~Reading THEN Fails
       ELSE /\ open_count' = open_count - 1
            /\ data' = <<>>
            /\ UNCHANGED <<memory, in, out, free_data, write_state, writes>>

\* zip_source_begin_write
BeginWrite(left) ==
    /\ Exists
    /\ IF Writing \/ left < 2 THEN Fails
       ELSE /\ writes < MaxWrites /\ writes' = writes + 1
            /\ out' = NewBuffer
            /\ write_state' = "OPEN"
            /\ data' = <<>>
            /\ UNCHANGED <<memory, in, free_data, open_count>>

\* zip_source_begin_write_cloning; a clone needs arrays for the fragments.
\* The writer starts at the end.
BeginWriteCloning(offset, left) ==
    /\ Exists
    /\ IF \/ Writing
          \/ left < IF offset = 0 THEN 2 ELSE 4
          \/ offset > 0 /\ ~CanClone(in, offset)
       THEN Fails
       ELSE /\ writes < MaxWrites /\ writes' = writes + 1
            /\ LET m == IF offset = 0 THEN [Memory(left) EXCEPT !.out = NewBuffer]
                        ELSE Clone(Memory(left), offset)
               IN Becomes([m EXCEPT !.out.offset = offset,
                                    !.out.current = Len(m.out.fragments) + 1])
            /\ write_state' = "OPEN"
            /\ data' = <<>>
            /\ UNCHANGED <<free_data, open_count>>

\* zip_source_write.  Bytes that are written before memory runs out stay.
Write(bytes, left) ==
    /\ Exists
    /\ IF ~Writing THEN Fails
       ELSE /\ out.offset + Len(bytes) <= MaxSize
            /\ writes < MaxWrites /\ writes' = writes + 1
            /\ Becomes(BufferWrite(Memory(left), bytes))
            /\ data' = <<>>
            /\ UNCHANGED <<free_data, open_count, write_state>>

\* zip_source_seek_write
SeekWrite(offset, whence) ==
    /\ Exists
    /\ IF ~Writing \/ ComputeOffset(out, offset, whence) < 0 THEN Fails
       ELSE /\ out' = Sought(out, ComputeOffset(out, offset, whence))
            /\ data' = <<>>
            /\ UNCHANGED <<memory, in, free_data, open_count, write_state, writes>>

\* zip_source_commit_write
CommitWrite ==
    /\ Exists
    /\ IF ~Writing \/ open_count > 1 THEN Fails
       ELSE /\ LET m == FreeIn(Memory(0)) IN Becomes([m EXCEPT !.in = m.out, !.out = NULL])
            /\ open_count' = 0
            /\ write_state' = "CLOSED"
            /\ data' = <<>>
            /\ UNCHANGED <<free_data, writes>>

\* zip_source_rollback_write
RollbackWrite ==
    /\ Exists
    /\ IF Writing THEN Becomes(FreeOut(Memory(0))) /\ write_state' = "CLOSED"
       ELSE UNCHANGED <<memory, in, out, write_state>>
    /\ data' = <<>>
    /\ UNCHANGED <<free_data, open_count, writes>>

\* zip_source_remove closes the source once, however often it is open.
RemoveSource(left) ==
    /\ Exists
    /\ IF write_state = "REMOVED" THEN UNCHANGED <<memory, in, out, open_count, write_state>>
       ELSE /\ open_count' = Max({open_count - 1, 0})
            /\ LET m == FreeOut(Memory(left))
               IN IF left < 2 THEN Becomes(m) /\ write_state' = "CLOSED"
                  ELSE /\ Becomes([FreeIn(m) EXCEPT !.in = NewBuffer])
                       /\ write_state' = "REMOVED"
    /\ data' = <<>>
    /\ UNCHANGED <<free_data, writes>>

\* zip_source_free, of the last reference
Free ==
    /\ Exists
    /\ Becomes(FreeIn(FreeOut(Memory(0))))
    /\ open_count' = 0
    /\ write_state' = "FREED"
    /\ data' = <<>>
    /\ UNCHANGED <<free_data, writes>>

Next ==
    \/ \E list \in UserFragments, freep \in BOOLEAN : Create(list, freep)
    \/ Open \/ Close
    \/ \E length \in 0 .. MaxSize + 1 : Read(length)
    \/ \E s \in Seeks : Seek(s[1], s[2]) \/ SeekWrite(s[1], s[2])
    \/ \E left \in {0, MaxLeft} :
        \/ BeginWrite(left) \/ RemoveSource(left)
        \/ \E offset \in 0 .. MaxSize + 1 : BeginWriteCloning(offset, left)
    \/ \E bytes \in Written, left \in 0 .. MaxLeft : Write(bytes, left)
    \/ CommitWrite \/ RollbackWrite \/ Free

Spec == Init /\ [][Next]_vars

(***************************************************************************)
(* Properties                                                              *)
(***************************************************************************)

Buffers == {in, out} \ {NULL}

Held(b) == {b.fragments[i].data : i \in DOMAIN b.fragments}

\* The fragment that a place is in.
FragmentAt(b, place) ==
    CHOOSE i \in DOMAIN b.fragments : b.offsets[i] < place /\ place <= b.offsets[i + 1]

\* The bytes of a buffer.
Contents(mem, b) ==
    IF b = NULL THEN NULL
    ELSE [place \in 1 .. b.size |-> ByteIn(mem, b, FragmentAt(b, place), place)]

\* The memory of a fragment lives as long as a buffer has it, and is freed
\* once, when no buffer has it any more (buffer_free, buffer_is_fragment_shared);
\* only what the user did not give away is left in the end.
MemoryIsOwned ==
    /\ \A a \in Addresses : memory[a] # CORRUPT
    /\ \A b \in Buffers : \A a \in Held(b) : memory[a] # NULL
    /\ \A a \in Addresses :
        memory[a] # NULL => (\E b \in Buffers : a \in Held(b)) \/ (memory[a].user /\ ~free_data)
    /\ \A b \in Buffers : \A i \in DOMAIN b.fragments :
        \A j \in 1 .. i - 1 : b.fragments[i].data # b.fragments[j].data

\* What the user made the source of is never written to, whoever commits or
\* clones how often, and stays the user's unless freep gave it away.
UserMemoryUntouched ==
    [][\A a \in Addresses :
        (memory[a] # NULL /\ memory[a].user) =>
            (memory'[a] = memory[a] \/ (free_data /\ memory'[a] = NULL))]_vars

\* The source is the sequence of bytes that ByteSource describes, whatever
\* memory its fragments share and whichever allocation fails.
Abstract == INSTANCE ByteSource WITH
    Initial <- {FlattenSeq(list) : list \in UserFragments \cap Seq(Seq(Byte))},
    contents <- Contents(memory, in),
    position <- IF in = NULL THEN 0 ELSE in.offset,
    opens <- open_count,
    staged <- Contents(memory, out),
    write_position <- IF out = NULL THEN 0 ELSE out.offset

ImplementsByteSource == Abstract!Spec

=============================================================================
