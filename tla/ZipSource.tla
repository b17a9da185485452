------------------------------ MODULE ZipSource ------------------------------
(***************************************************************************)
(* Sources as objects (struct zip_source): how many owners a source has,   *)
(* how often it is open, which layers pass a command on to the source      *)
(* below, and which windows an archive has to invalidate before it goes.   *)
(*                                                                         *)
(* A program creates sources, stacks layers and windows on them, opens     *)
(* archives from them and gives them to entries.  A file that zip_fopen    *)
(* opens is a window that the program owns and has open; zip_fclose is     *)
(* CloseSource and FreeSource.  The layers for decryption, decompression   *)
(* and checksums that the library itself puts on top of a window are those *)
(* that Layered makes.  An open that a callback refuses has told the       *)
(* layers below to open and close again and has no action.                 *)
(***************************************************************************)
EXTENDS Integers, FiniteSets, Functions

CONSTANTS
    Ids,       \* the memory that a struct zip_source can have
    Archives,  \* the memory that a struct zip can have
    Kinds,     \* what the sources of the program support: a subset of SEEK, WRITE
    MaxHeld,   \* bound on the references that the program holds altogether
    MaxOpens,  \* bound on the sources that it has open at a time
    NULL

ASSUME BoundAssumption == MaxHeld \in Nat /\ MaxOpens \in Nat

\* Only so much is allocated at a time.
ASSUME FiniteAssumption == IsFiniteSet(Ids) /\ IsFiniteSet(Archives)

\* ZIP_SOURCE_SUPPORTS_WRITABLE includes what seeking takes.
ASSUME KindsAssumption == Kinds \subseteq {{}, {"SEEK"}, {"SEEK", "WRITE"}}

\* struct zip_source
Source == [lower : Ids \cup {NULL}, supports : SUBSET {"SEEK", "WRITE"}, open_count : Nat,
           write_state : {"CLOSED", "OPEN", "FAILED", "REMOVED"}, refcount : Nat \ {0},
           source_archive : Archives \cup {NULL}, source_closed : BOOLEAN]

\* struct zip: its source, the source with new data for an entry, its windows
Archive == [src : Ids, entry : Ids \cup {NULL}, open_source : SUBSET Ids]

\* A null pointer points nowhere.
ASSUME NullAssumption == NULL \notin Ids \cup Archives \cup Source \cup Archive

VARIABLES
    source,    \* the sources, NULL where none is allocated
    callback,  \* what the callback of each source has been told so far
    archive,   \* the archives, NULL where none is allocated
    windows,   \* the windows that zip_discard has yet to invalidate
    held,      \* references that the program has to give back
    opened     \* how often the program has opened each source

vars == <<source, callback, archive, windows, held, opened>>

(***************************************************************************)
(* The calls of the library work on what is in memory: sources, what their *)
(* callbacks know, and archives.                                           *)
(***************************************************************************)

Memory == [source |-> source, callback |-> callback, archive |-> archive]

Stores(m) == source' = m.source /\ callback' = m.callback /\ archive' = m.archive

Becomes(m) == Stores(m) /\ UNCHANGED windows

LiveIn(m) == {i \in Ids : m.source[i] # NULL}

\* _zip_source_new
NewSource(lower, supports) ==
    [lower |-> lower, supports |-> supports, open_count |-> 0, write_state |-> "CLOSED",
     refcount |-> 1, source_archive |-> NULL, source_closed |-> FALSE]

NewCallback == [reading |-> FALSE, writing |-> "no", ok |-> TRUE]

\* zip_source_function.mdoc, Calling Conventions: OPEN and CLOSE alternate,
\* BEGIN_WRITE comes before COMMIT_WRITE and ROLLBACK_WRITE and is not given
\* twice, and neither reading nor writing is in progress at FREE.  Nobody reads
\* what COMMIT_WRITE replaces (zip_source_commit_write).
Follows(c, cmd) ==
    CASE cmd = "OPEN" -> ~c.reading
      [] cmd = "CLOSE" -> c.reading
      [] cmd = "BEGIN_WRITE" -> c.writing # "open"
      [] cmd \in {"COMMIT_WRITE", "COMMIT_WRITE fails"} -> c.writing = "open" /\ ~c.reading
      [] cmd = "ROLLBACK_WRITE" -> c.writing # "no"
      [] cmd = "FREE" -> ~c.reading /\ c.writing # "open"

After(c, cmd) ==
    [reading |-> IF cmd \in {"OPEN", "CLOSE", "FREE"} THEN cmd = "OPEN" ELSE c.reading,
     writing |-> CASE cmd = "BEGIN_WRITE" -> "open"
                   [] cmd = "COMMIT_WRITE fails" -> "failed"
                   [] cmd \in {"COMMIT_WRITE", "ROLLBACK_WRITE", "FREE"} -> "no"
                   [] OTHER -> c.writing,
     ok |-> c.ok /\ Follows(c, cmd)]

\* _zip_source_call, to the callbacks of some sources
Call(m, ids, cmd) ==
    [m EXCEPT !.callback = [i \in Ids |-> IF i \in ids THEN After(@[i], cmd) ELSE @[i]]]

IsOpen(m, s) == m.source[s].open_count > 0

\* The layers that a command reaches, given to s and passed on to the source
\* below by those in passes: the smallest set that a layer in passes does not
\* lead out of.
Reached(m, s, passes) ==
    LET closed == {T \in SUBSET Ids :
                      /\ s \in T
                      /\ \A k \in passes : k \in T => m.source[k].lower \in T \cup {NULL}}
    IN Ids \ UNION {Ids \ T : T \in closed}

WithCount(m, ids, n) ==
    [m EXCEPT !.source =
        [i \in Ids |-> IF i \in ids THEN [m.source[i] EXCEPT !.open_count = @ + n]
                       ELSE m.source[i]]]

(***************************************************************************)
(* zip_source_open, zip_source_close, zip_source_free.                     *)
(***************************************************************************)

\* A source that is not open yet opens the one below.
OpenedLayers(m, s) == Reached(m, s, {i \in LiveIn(m) : ~IsOpen(m, i)})

CanOpen(m, s) ==
    \A i \in OpenedLayers(m, s) :
        /\ ~m.source[i].source_closed
        /\ m.source[i].write_state # "REMOVED"
        /\ IsOpen(m, i) => "SEEK" \in m.source[i].supports

Open(m, s) ==
    LET layers == OpenedLayers(m, s)
    IN WithCount(Call(m, {i \in layers : ~IsOpen(m, i)}, "OPEN"), layers, 1)

OpenOnce(m) == {i \in Ids : m.source[i] # NULL /\ m.source[i].open_count = 1}

\* Faulty variant: the source below stays open.
ClosedLayersTopOnly(m, s) == {s}

\* Whoever closes a source last closes it for the one below, unless that was
\* closed already.
ClosedLayers(m, s) ==
    {i \in Reached(m, s, OpenOnce(m)) : IsOpen(m, i)}

\* zip_source_close of a source that is not open is an error.
Close(m, s) ==
    LET layers == ClosedLayers(m, s)
    IN IF ~IsOpen(m, s) THEN m
       ELSE WithCount(Call(m, layers \cap OpenOnce(m), "CLOSE"), layers, -1)

OwnedOnce(m) == {i \in Ids : m.source[i] # NULL /\ m.source[i].refcount = 1}

\* The sources that go when s loses a reference: the topmost layers that have
\* no other.
FreedLayers(m, s) == Reached(m, s, OwnedOnce(m)) \cap OwnedOnce(m)

\* The first source below that stays, NULL if there is none.
StaysBelow(m, s, freed) ==
    LET stays == ({s} \cup {m.source[i].lower : i \in freed}) \ (freed \cup {NULL})
    IN IF stays = {} THEN NULL ELSE CHOOSE i \in stays : TRUE

\* It is closed for the layer above it, which goes.
ClosedBelow(m, freed, below) ==
    LET above == {i \in freed : m.source[i].lower = below /\ IsOpen(m, i)}
    IN IF below = NULL \/ above = {} THEN m ELSE Close(m, below)

\* Faulty variant: the archive does not forget the window.
DeregisteredNot(m, freed) == m

Deregistered(m, freed) ==
    [m EXCEPT !.archive =
        [a \in Archives |->
            IF m.archive[a] = NULL THEN NULL
            ELSE [m.archive[a] EXCEPT !.open_source = @ \ {i \in freed :
                    m.source[i].source_archive = a /\ ~m.source[i].source_closed}]]]

Without(m, freed, below) ==
    [m EXCEPT !.source =
        [i \in Ids |-> IF i \in freed THEN NULL
                       ELSE IF i = below THEN [m.source[i] EXCEPT !.refcount = @ - 1]
                       ELSE m.source[i]]]

Free(m, s) ==
    LET freed == FreedLayers(m, s)
        below == StaysBelow(m, s, freed)
        closed == Call(ClosedBelow(m, freed, below), {i \in freed : IsOpen(m, i)}, "CLOSE")
        rolled_back == Call(closed, {i \in freed : m.source[i].write_state = "OPEN"},
                            "ROLLBACK_WRITE")
    IN Without(Deregistered(Call(rolled_back, freed, "FREE"), freed), freed, below)

FreeIfAny(m, s) == IF s = NULL THEN m ELSE Free(m, s)

(***************************************************************************)
(* zip_source_begin_write, zip_source_commit_write and so on; layers do    *)
(* not support them.                                                       *)
(***************************************************************************)

SetWriteState(m, s, w) == [m EXCEPT !.source[s].write_state = w]

CanBeginWrite(m, s) ==
    "WRITE" \in m.source[s].supports /\ m.source[s].write_state # "OPEN"

Begin(m, s) == SetWriteState(Call(m, {s}, "BEGIN_WRITE"), s, "OPEN")

\* Faulty variant: files that are still open are not looked for.
CanCommitInUse(m, s) == m.source[s].write_state = "OPEN"

CanCommit(m, s) == m.source[s].write_state = "OPEN" /\ m.source[s].open_count <= 1

Commit(m, s) == SetWriteState(Call(Close(m, s), {s}, "COMMIT_WRITE"), s, "CLOSED")

CommitFails(m, s) == SetWriteState(Call(Close(m, s), {s}, "COMMIT_WRITE fails"), s, "FAILED")

Rollback(m, s) ==
    IF m.source[s].write_state \notin {"OPEN", "FAILED"} THEN m
    ELSE SetWriteState(Call(m, {s}, "ROLLBACK_WRITE"), s, "CLOSED")

\* zip_source_remove, which removes the file or fails.
RemoveFile(m, s) ==
    IF m.source[s].write_state = "REMOVED" THEN m
    ELSE SetWriteState(Rollback(Close(m, s), s), s, "REMOVED")

RemoveFails(m, s) == Rollback(Close(m, s), s)

(***************************************************************************)
(* What a program does with its sources.                                   *)
(***************************************************************************)

FreeId == {i \in Ids : source[i] = NULL}

Total(f) == FoldFunction(+, 0, f)

MayHoldMore == Total(held) < MaxHeld

\* The new source s is put in memory.
Allocated(m, s, new) ==
    [m EXCEPT !.source[s] = new, !.callback[s] = NewCallback]

\* zip_source_function_create: a source that streams data, one that can seek,
\* or one that can also be written.
Create(s) ==
    /\ s \in FreeId /\ MayHoldMore
    /\ \E supports \in Kinds :
          Becomes(Allocated(Memory, s, NewSource(NULL, supports)))
    /\ held' = [held EXCEPT ![s] = 1]
    /\ UNCHANGED opened

\* zip_source_keep
Keep(s) ==
    /\ held[s] > 0 /\ MayHoldMore
    /\ held' = [held EXCEPT ![s] = @ + 1]
    /\ Becomes([Memory EXCEPT !.source[s].refcount = @ + 1])
    /\ UNCHANGED opened

\* A program closes what it has opened before it gives up its last reference.
CanGiveAway(s) == held[s] > 0 /\ (held[s] = 1 => opened[s] = 0)

GivesAway(s) == held' = [held EXCEPT ![s] = @ - 1]

\* zip_source_free, which closes a source that nobody else owns.
FreeSource(s) ==
    /\ CanGiveAway(s) \/ (held[s] = 1 /\ source[s].refcount = 1)
    /\ GivesAway(s)
    /\ Becomes(Free(Memory, s))
    /\ opened' = [opened EXCEPT ![s] = IF held[s] = 1 THEN 0 ELSE @]

OpenSource(s) ==
    /\ held[s] > 0 /\ Total(opened) < MaxOpens
    /\ CanOpen(Memory, s)
    /\ Becomes(Open(Memory, s))
    /\ opened' = [opened EXCEPT ![s] = @ + 1]
    /\ UNCHANGED held

CloseSource(s) ==
    /\ opened[s] > 0
    /\ Becomes(Close(Memory, s))
    /\ opened' = [opened EXCEPT ![s] = @ - 1]
    /\ UNCHANGED held

\* zip_source_layered_create: the layer takes the reference of the program.
Layered(s, l) ==
    /\ CanGiveAway(s) /\ l \in FreeId
    /\ \E supports \in SUBSET (source[s].supports \cap {"SEEK"}) :
          Becomes(Allocated(Memory, l, NewSource(s, supports)))
    /\ held' = [held EXCEPT ![s] = @ - 1, ![l] = 1]
    /\ UNCHANGED opened

\* Faulty variant: the window takes the reference of whoever has it.
WindowTakesReference(m, s, w) ==
    Allocated(m, w, NewSource(s, m.source[s].supports \cap {"SEEK"}))

\* The window w over s, which gets an owner more.
Window(m, s, w) ==
    [Allocated(m, w, NewSource(s, m.source[s].supports \cap {"SEEK"})) EXCEPT
        !.source[s].refcount = @ + 1]

\* zip_source_window_create
WindowCreate(s, w) ==
    /\ held[s] > 0 /\ w \in FreeId /\ MayHoldMore
    /\ Becomes(Window(Memory, s, w))
    /\ held' = [held EXCEPT ![w] = 1]
    /\ UNCHANGED opened

BeginWrite(s) ==
    /\ held[s] > 0 /\ CanBeginWrite(Memory, s)
    /\ Becomes(Begin(Memory, s))
    /\ UNCHANGED <<held, opened>>

CommitWrite(s) ==
    /\ held[s] > 0 /\ CanCommit(Memory, s)
    /\ Becomes(Commit(Memory, s)) \/ Becomes(CommitFails(Memory, s))
    /\ UNCHANGED <<held, opened>>

RollbackWrite(s) ==
    /\ held[s] > 0
    /\ Becomes(Rollback(Memory, s))
    /\ UNCHANGED <<held, opened>>

(***************************************************************************)
(* Archives.                                                               *)
(***************************************************************************)

NewArchive(s) == [src |-> s, entry |-> NULL, open_source |-> {}]

\* zip_open_from_source takes the reference of the program.  The source is
\* opened if there is a file.
OpenArchive(a, s) ==
    /\ archive[a] = NULL
    /\ CanGiveAway(s)
    /\ "SEEK" \in source[s].supports
    /\ \/ /\ CanOpen(Memory, s)
          /\ Becomes([Open(Memory, s) EXCEPT !.archive[a] = NewArchive(s)])
       \/ /\ source[s].lower = NULL /\ ~IsOpen(Memory, s)
          /\ Becomes([Memory EXCEPT !.archive[a] = NewArchive(s)])
    /\ GivesAway(s)
    /\ UNCHANGED opened

\* It is not an archive: zip_discard closes the source that was opened, and
\* zip_open_from_source closes it once more.
OpenArchiveFails(s) ==
    /\ held[s] > 0
    /\ "SEEK" \in source[s].supports
    /\ CanOpen(Memory, s)
    /\ Becomes(Close(Close(Open(Memory, s), s), s))
    /\ UNCHANGED <<held, opened>>

\* zip_source_supports_reopen, here: whatever can seek.
Reopenable(s) == {i \in {s} \ {NULL} : "SEEK" \in source[i].supports}

\* zip_source_zip_file and zip_fopen: a window over the archive's source, or
\* over the new data of its entry, that the archive knows of.  An archive
\* that was not read from a file has no data yet; that it can be read here, as
\* it can be after a failed commit, only allows more.
SourceZipFile(a, w) ==
    /\ archive[a] # NULL /\ w \in FreeId /\ MayHoldMore
    /\ \E s \in {archive[a].src} \cup Reopenable(archive[a].entry) :
          Becomes([Window(Memory, s, w) EXCEPT
                      !.source[w].source_archive = a,
                      !.archive[a].open_source = @ \cup {w}])
    /\ held' = [held EXCEPT ![w] = 1]
    /\ UNCHANGED opened

IsWritable(a) == archive[a] # NULL /\ "WRITE" \in source[archive[a].src].supports

\* zip_file_add and zip_file_replace: the entry takes the reference of the
\* program and frees what it had before.
SetData(a, s) ==
    /\ IsWritable(a)
    /\ CanGiveAway(s)
    /\ Becomes([FreeIfAny(Memory, archive[a].entry) EXCEPT !.archive[a].entry = s])
    /\ GivesAway(s)
    /\ UNCHANGED opened

\* zip_delete and zip_unchange
DropData(a) ==
    /\ IsWritable(a) /\ archive[a].entry # NULL
    /\ Becomes([Free(Memory, archive[a].entry) EXCEPT !.archive[a].entry = NULL])
    /\ UNCHANGED <<held, opened>>

\* _zip_source_invalidate
Invalidate(m, w) == [Close(m, w) EXCEPT !.source[w].source_closed = TRUE]

\* zip_discard, up to its windows: the archive's source goes and its entry's.
Discarded(m, a) ==
    FreeIfAny(Free(Close(m, m.archive[a].src), m.archive[a].src), m.archive[a].entry)

\* The archive is gone, and the windows that are left are to be invalidated.
Discards(m, a) ==
    LET left == Discarded(m, a)
    IN Stores([left EXCEPT !.archive[a] = NULL]) /\ windows' = left.archive[a].open_source

Discard(a) ==
    /\ archive[a] # NULL
    /\ Discards(Memory, a)
    /\ UNCHANGED <<held, opened>>

\* The loop of zip_discard over the windows; the program runs again after it.
InvalidateWindow(w) ==
    /\ Stores(Invalidate(Memory, w))
    /\ windows' = windows \ {w}
    /\ UNCHANGED <<held, opened>>

\* add_data reads the entry's source through layers of its own.
DataRead(m, a) ==
    IF m.archive[a].entry = NULL THEN m
    ELSE Close(Open(m, m.archive[a].entry), m.archive[a].entry)

\* zip_close that writes: it succeeds, the commit fails, or something earlier
\* does, such as an entry that cannot be opened.
CloseArchive(a) ==
    /\ IsWritable(a)
    /\ CanBeginWrite(Memory, archive[a].src)
    /\ LET src == archive[a].src
           entry == archive[a].entry
           written == DataRead(Begin(Memory, src), a)
       IN \/ /\ entry # NULL => CanOpen(Memory, entry)
             /\ CanCommit(written, src)
             /\ \/ Discards(Commit(written, src), a)
                \/ Becomes(Rollback(CommitFails(written, src), src))
          \/ Becomes(Rollback(Begin(Memory, src), src))
    /\ UNCHANGED <<held, opened>>

\* zip_close of an archive that has become empty; it is an error if the file
\* cannot be removed, not if it does not exist.
CloseAndRemove(a) ==
    /\ IsWritable(a) /\ archive[a].entry = NULL
    /\ \/ Discards(RemoveFile(Memory, archive[a].src), a)
       \/ /\ source[archive[a].src].write_state # "REMOVED"
          /\ LET kept == RemoveFails(Memory, archive[a].src)
             IN Becomes(kept) \/ Discards(kept, a)
    /\ UNCHANGED <<held, opened>>

Init ==
    /\ source = [s \in Ids |-> NULL]
    /\ callback = [s \in Ids |-> NewCallback]
    /\ archive = [a \in Archives |-> NULL]
    /\ windows = {}
    /\ held = [s \in Ids |-> 0] /\ opened = [s \in Ids |-> 0]

CallsOnSources ==
    \E s \in Ids :
        \/ Create(s) \/ Keep(s) \/ FreeSource(s) \/ OpenSource(s) \/ CloseSource(s)
        \/ BeginWrite(s) \/ CommitWrite(s) \/ RollbackWrite(s) \/ OpenArchiveFails(s)
        \/ \E l \in Ids : Layered(s, l) \/ WindowCreate(s, l)

CallsOnArchives ==
    \E a \in Archives :
        \/ \E s \in Ids : OpenArchive(a, s) \/ SourceZipFile(a, s) \/ SetData(a, s)
        \/ DropData(a) \/ Discard(a) \/ CloseArchive(a) \/ CloseAndRemove(a)

\* The program waits for zip_discard to be done with the windows.
Next ==
    \/ windows = {} /\ (CallsOnSources \/ CallsOnArchives)
    \/ \E w \in windows : InvalidateWindow(w)

Spec == Init /\ [][Next]_vars

(***************************************************************************)
(* Properties.                                                             *)
(***************************************************************************)

Live == LiveIn(Memory)
LiveArchives == {a \in Archives : archive[a] # NULL}

\* The type of every variable; the program holds nothing of what is freed.
TypeOK ==
    /\ \A s \in Live : source[s] \in Source
    /\ \A a \in LiveArchives :
          archive[a] \in Archive
    /\ windows \subseteq Ids
    /\ held \in [Ids -> 0..MaxHeld] /\ opened \in [Ids -> 0..MaxOpens]
    /\ \A s \in Ids \ Live : held[s] = 0 /\ opened[s] = 0

Above(s) == {l \in Live : source[l].lower = s}
OpenedBy(s) == {a \in LiveArchives : archive[a].src = s}
EntriesOf(s) == {a \in LiveArchives : archive[a].entry = s}

\* A source has as many references as it has owners: the program, the layers
\* and windows above it, the archives opened from it and the entries it has
\* the data of.  So it is freed exactly when the last of them goes.
RefcountIsAccurate ==
    \A s \in Live :
        source[s].refcount = held[s] + Cardinality(Above(s)) + Cardinality(OpenedBy(s))
                                     + Cardinality(EntriesOf(s))

\* Nothing points to memory that was freed.
NoDanglingSource ==
    /\ \A s \in Live : source[s].lower \in Live \cup {NULL}
    /\ \A a \in LiveArchives :
          /\ archive[a].src \in Live /\ archive[a].entry \in Live \cup {NULL}
          /\ archive[a].open_source \subseteq Live
    /\ windows \subseteq Live

\* A source is never open more often than somebody wants to read it, whatever
\* failed: otherwise no commit to it is ever accepted again.
NoOpenIsForgotten ==
    \A s \in Live :
        source[s].open_count <= opened[s] + Cardinality({l \in Above(s) : IsOpen(Memory, l)})
                                          + Cardinality(OpenedBy(s))

\* Whatever is opened, closed, written, freed and discarded in whatever order,
\* each callback gets its commands in the order that zip_source_function.mdoc
\* promises.
CallingConventions == \A s \in Ids : callback[s].ok

=============================================================================
