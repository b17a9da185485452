------------------------------ MODULE ZipClose ------------------------------
(***************************************************************************)
(* zip_close, step by step: which bytes are kept by cloning, which are     *)
(* written or copied, which offset, size and method each directory entry   *)
(* gets, and what a failure leaves behind.  ZipArchive has the calls that  *)
(* edit an archive in full; here they are reduced to what zip_close looks  *)
(* at, and names, comments and attributes to one mark.                     *)
(*                                                                         *)
(* The archive file is a sequence of cells.  An entry takes one cell for   *)
(* its local header and one for each unit of its compressed data; a cell   *)
(* names the file and the method it was compressed with, so that one can   *)
(* tell where a directory entry points to.  zip_open trusts the directory. *)
(***************************************************************************)
EXTENDS Integers, FiniteSets, SequencesExt

CONSTANTS
    Files,         \* contents of files
    Sources,       \* those that a caller adds
    Length,        \* compressed length of a file under a method
    Gaps,          \* cells of an archive that are not part of a file
    InitialFiles,  \* the archives a session may find, NULL for none
    MaxEntries,    \* bound on za->nentry
    MaxReaders,    \* bound on the files open with zip_fopen
    MaxSessions,   \* bound on how often an archive is opened
    NULL

Methods == {"STORE", "DEFLATE"}

ASSUME LengthAssumption == Length \in [Files \X Methods -> Nat]

ASSUME BoundAssumption == MaxEntries \in Nat /\ MaxReaders \in Nat /\ MaxSessions \in Nat

ASSUME SourcesAssumption == Sources \subseteq Files /\ NULL \notin Files

\* The cells of a file; cell 0 is the local header.
Stored(f, m) == [k \in 1..(Length[f, m] + 1) |-> <<f, m, k - 1>>]

\* The bytes from a directory entry's offset to the end of its data.
Extent(d) == d.offset + 1 .. d.offset + 1 + d.comp_size

Dirents == [offset : Nat, comp_size : Nat, comp_method : Methods,
            changed : SUBSET {"COMP_METHOD", "OTHER"}]

\* A directory entry as it is stored.
OrigDirents == [offset : Nat, comp_size : Nat, comp_method : Methods, changed : {{}}]

\* A torrentzip archive has deflated entries only.
Archives ==
    {f \in [cells : Seq(Gaps \cup (Files \X Methods \X Nat)), cdir : Seq(OrigDirents),
            torrentzip : BOOLEAN] :
        f.torrentzip => \A k \in DOMAIN f.cdir : f.cdir[k].comp_method = "DEFLATE"}

ASSUME FilesAssumption == \A f \in InitialFiles : f = NULL \/ f \in Archives

ASSUME NullAssumption == NULL \notin Dirents

\* The file that zip_fopen finds at a directory entry, NULL for garbage.
FileAt(cells, d) ==
    LET found == {f \in Files :
                    /\ Length[f, d.comp_method] = d.comp_size
                    /\ Extent(d) \subseteq DOMAIN cells
                    /\ \A k \in Extent(d) :
                          cells[k] = Stored(f, d.comp_method)[k - d.offset]}
    IN IF found = {} THEN NULL ELSE CHOOSE f \in found : TRUE

VARIABLES
    file,        \* the archive file, NULL when there is none
    can_clone,   \* whether its source supports BEGIN_WRITE_CLONING
    is_open, entry,
    flags,       \* of IS_TORRENTZIP and WANT_TORRENTZIP
    readers,     \* files that are open with zip_fopen
    open_count, write_state,      \* of za->src
    pc,          \* where zip_close is
    out,         \* the cells written so far
    filelist, j, unchanged_offset,
    view,        \* what zip_close has to write
    sessions,    \* how often an archive was opened
    stale        \* an earlier failure may have left stale directory entries

archiveVars == <<file, can_clone, is_open, flags, readers>>
closeVars == <<out, filelist, j, unchanged_offset, view>>
vars == <<archiveVars, closeVars, entry, open_count, write_state, pc, sessions, stale>>

Indices == 0..(Len(entry) - 1)
Entry(i) == entry[i + 1]
IsTorrentzip == "IS_TORRENTZIP" \in flags
WantTorrentzip == "WANT_TORRENTZIP" \in flags

\* _zip_dirent_init, where ZIP_CM_DEFAULT is deflate.
NewDirent == [offset |-> 0, comp_size |-> 0, comp_method |-> "DEFLATE", changed |-> {}]

NewEntry(orig) == [orig |-> orig, changes |-> NULL, source |-> NULL, deleted |-> FALSE,
                   ef_read |-> FALSE]

\* ZIP_ENTRY_HAS_CHANGES
HasChanges(e) ==
    e.source # NULL \/ e.deleted \/ (e.changes # NULL /\ e.changes.changed # {})

MethodChanged(e) == e.changes # NULL /\ "COMP_METHOD" \in e.changes.changed

\* _zip_dirent_clone
ChangesOf(e) == IF e.changes # NULL THEN e.changes
                ELSE IF e.orig # NULL THEN [e.orig EXCEPT !.changed = {}]
                ELSE NewDirent

HasDirent(e) == e.changes # NULL \/ (e.orig # NULL /\ ~e.deleted)

\* The data a program gets when it reads an entry.
Seen(e) == IF e.source # NULL THEN e.source
           ELSE IF e.orig # NULL THEN FileAt(file.cells, e.orig)
           ELSE NULL

\* The files of an archive in the order of its directory.
FilesOf(f) == [k \in DOMAIN f.cdir |-> FileAt(f.cells, f.cdir[k])]

\* No directory entry points to garbage.
IsSound(f) == IF f = NULL THEN TRUE ELSE NULL \notin Range(FilesOf(f))

Init ==
    /\ file \in InitialFiles
    /\ can_clone \in BOOLEAN
    /\ is_open = FALSE /\ entry = <<>> /\ flags = {} /\ readers = 0
    /\ open_count = 0 /\ write_state = "CLOSED"
    /\ pc = "idle" /\ out = <<>> /\ filelist = <<>> /\ j = 1 /\ unchanged_offset = 0
    /\ view = <<>> /\ sessions = 0 /\ stale = FALSE

\* zip_discard: za->src is closed and freed.
FreeArchive ==
    /\ is_open' = FALSE /\ entry' = <<>> /\ flags' = {} /\ readers' = 0
    /\ open_count' = 0 /\ write_state' = "CLOSED"
    /\ pc' = "idle" /\ out' = <<>> /\ filelist' = <<>> /\ j' = 1 /\ unchanged_offset' = 0
    /\ view' = <<>> /\ stale' = FALSE
    /\ UNCHANGED <<can_clone, sessions>>

(***************************************************************************)
(* The calls of a program between zip_open and zip_close.                  *)
(***************************************************************************)

Idle == is_open /\ pc = "idle"

\* zip_open, which keeps the source open for reading.  The archives a program
\* opens here have a sound directory, as after ZIP_CHECKCONS.
Open ==
    /\ ~is_open
    /\ sessions < MaxSessions
    /\ IsSound(file)
    /\ is_open' = TRUE
    /\ sessions' = sessions + 1
    /\ entry' = IF file = NULL THEN <<>>
                ELSE [k \in DOMAIN file.cdir |-> NewEntry(file.cdir[k])]
    /\ flags' = IF file # NULL /\ file.torrentzip THEN {"IS_TORRENTZIP"} ELSE {}
    /\ open_count' = IF file = NULL THEN 0 ELSE 1
    /\ UNCHANGED <<file, can_clone, readers, closeVars, write_state, pc, stale>>

Edited(i, e) ==
    /\ entry' = [entry EXCEPT ![i + 1] = e]
    /\ UNCHANGED <<archiveVars, closeVars, open_count, write_state, pc, sessions, stale>>

\* zip_file_add
FileAdd(s) ==
    /\ Idle
    /\ Len(entry) < MaxEntries
    /\ entry' = Append(entry, [NewEntry(NULL) EXCEPT
                    !.source = s, !.changes = [NewDirent EXCEPT !.changed = {"OTHER"}]])
    /\ UNCHANGED <<archiveVars, closeVars, open_count, write_state, pc, sessions, stale>>

\* zip_file_replace also deletes the extra fields, which marks the entry.
FileReplace(i, s) ==
    /\ Idle
    /\ HasDirent(Entry(i))
    /\ Edited(i, [Entry(i) EXCEPT
            !.source = s, !.deleted = FALSE,
            !.changes = [ChangesOf(Entry(i)) EXCEPT !.changed = @ \cup {"OTHER"}]])

\* zip_delete
Delete(i) ==
    /\ Idle
    /\ HasDirent(Entry(i))
    /\ Edited(i, [Entry(i) EXCEPT !.changes = NULL, !.source = NULL, !.deleted = TRUE])

\* zip_unchange
Unchange(i) ==
    /\ Idle
    /\ Edited(i, [Entry(i) EXCEPT !.changes = NULL, !.source = NULL, !.deleted = FALSE])

\* zip_set_file_compression
SetCompression(i, m) ==
    /\ Idle
    /\ ~WantTorrentzip
    /\ Edited(i, [Entry(i) EXCEPT
            !.changes = [ChangesOf(Entry(i)) EXCEPT
                            !.comp_method = m, !.changed = @ \cup {"COMP_METHOD"}]])

\* zip_file_set_comment, to another comment and back to the original one.
SetComment(i) ==
    /\ Idle
    /\ ~WantTorrentzip
    /\ HasDirent(Entry(i))
    /\ Edited(i, [Entry(i) EXCEPT
            !.changes = [ChangesOf(Entry(i)) EXCEPT !.changed = @ \cup {"OTHER"}]])

RestoreComment(i) ==
    /\ Idle
    /\ ~WantTorrentzip
    /\ LET e == Entry(i)
           c == [e.changes EXCEPT !.changed = @ \ {"OTHER"}]
       IN /\ e.changes # NULL /\ e.orig # NULL /\ e.source = NULL
          /\ Edited(i, [e EXCEPT !.changes = IF c.changed = {} THEN NULL ELSE c])

\* zip_set_archive_flag with ZIP_AFL_WANT_TORRENTZIP
SetTorrentzip(want) ==
    /\ Idle
    /\ want # WantTorrentzip
    /\ flags' = IF want THEN flags \cup {"WANT_TORRENTZIP"} ELSE flags \ {"WANT_TORRENTZIP"}
    /\ UNCHANGED <<file, can_clone, is_open, readers, closeVars, entry, open_count,
                   write_state, pc, sessions, stale>>

\* zip_fopen_index: the source it makes opens za->src once more.
Fopen(i) ==
    /\ Idle
    /\ readers < MaxReaders
    /\ Entry(i).orig # NULL /\ Entry(i).source = NULL /\ ~Entry(i).deleted
    /\ readers' = readers + 1
    /\ open_count' = open_count + 1
    /\ UNCHANGED <<file, can_clone, is_open, flags, closeVars, entry, write_state, pc,
                   sessions, stale>>

\* zip_fclose
Fclose ==
    /\ Idle
    /\ readers > 0
    /\ readers' = readers - 1
    /\ open_count' = IF open_count > 0 THEN open_count - 1 ELSE 0
    /\ UNCHANGED <<file, can_clone, is_open, flags, closeVars, entry, write_state, pc,
                   sessions, stale>>

\* zip_discard
Discard == Idle /\ UNCHANGED file /\ FreeArchive

(***************************************************************************)
(* zip_close.                                                              *)
(***************************************************************************)

Survivors == {i \in Indices : ~Entry(i).deleted}

\* _zip_changed
Changed == (WantTorrentzip /\ ~IsTorrentzip) \/ \E i \in Indices : HasChanges(Entry(i))

\* zip_close finds nothing to write.
CloseUnchanged ==
    /\ Idle
    /\ ~Changed
    /\ UNCHANGED file
    /\ FreeArchive

\* Nothing is left: the source is closed and the file removed, which may fail.
CloseAndRemove ==
    /\ Idle
    /\ Survivors = {} /\ Changed
    /\ \/ file' = NULL /\ FreeArchive
       \/ /\ open_count' = IF open_count > 0 THEN open_count - 1 ELSE 0
          /\ UNCHANGED <<archiveVars, closeVars, entry, write_state, pc,
                   sessions, stale>>

\* torrentzip_compare_names sorts by the names, which may be in any order.
Filelists ==
    {f \in SetToSeqs(Survivors) :
        WantTorrentzip \/ \A a, b \in DOMAIN f : a < b => f[a] < f[b]}

OrigOffsets(s) == {Entry(i).orig.offset : i \in {k \in s : Entry(k).orig # NULL}}

\* _zip_file_get_end of the entry with the highest offset, of several with one
\* offset the last.
EndOfData ==
    LET last == Max({i \in Indices :
                        /\ Entry(i).orig # NULL
                        /\ Entry(i).orig.offset = Max(OrigOffsets(Indices))})
    IN Max(Extent(Entry(last).orig))

\* How much of the file stays in place when the source can clone.
UnchangedOffset ==
    LET changed == OrigOffsets({i \in Indices : HasChanges(Entry(i))})
    IN IF WantTorrentzip \/ ~can_clone THEN 0
       ELSE IF changed # {} THEN Min(changed)
       ELSE IF OrigOffsets(Indices) = {} THEN 0
       ELSE EndOfData

\* The end of the last entry is read from za->src.
ReadsEnd ==
    /\ can_clone /\ ~WantTorrentzip
    /\ OrigOffsets(Indices) # {}
    /\ OrigOffsets({i \in Indices : HasChanges(Entry(i))}) = {}

\* zip_close up to the loop: it fails early, leaving no trace, or begins to
\* write; when cloning fails, everything is copied.
BeginWrite ==
    /\ Idle
    /\ Survivors # {} /\ Changed
    /\ ReadsEnd => open_count > 0
    /\ \E n \in {0, UnchangedOffset} :
          /\ unchanged_offset' = n
          /\ out' = SubSeq(IF n = 0 THEN <<>> ELSE file.cells, 1, n)
    /\ filelist' \in Filelists
    /\ view' = [k \in DOMAIN filelist' |-> Seen(Entry(filelist'[k]))]
    /\ j' = 1
    /\ write_state' = "OPEN"
    /\ pc' = "prepare"
    /\ UNCHANGED <<archiveVars, entry, open_count, sessions, stale>>

Current == Entry(filelist[j])

\* The entry is in the part that was cloned.
Skipped == Current.orig # NULL /\ Current.orig.offset < unchanged_offset

SkipEntry ==
    /\ pc = "prepare" /\ j <= Len(filelist)
    /\ Skipped
    /\ j' = j + 1
    /\ UNCHANGED <<archiveVars, entry, open_count, write_state, pc, out, filelist,
                   unchanged_offset, view, sessions, stale>>

\* _zip_dirent_clone or _zip_dirent_merge, which does not touch offset and
\* size, and zip_dirent_torrentzip_normalize.
Merged(e) ==
    LET c == ChangesOf(e)
    IN [c EXCEPT !.comp_method =
            IF WantTorrentzip THEN "DEFLATE"
            ELSE IF e.orig = NULL \/ "COMP_METHOD" \in c.changed THEN @
            ELSE IF e.source # NULL THEN "DEFLATE"
            ELSE e.orig.comp_method]

\* Faulty variant: an entry that has changes keeps its offset.
PreparedKeepsOffset(e) ==
    [e EXCEPT !.changes = [Merged(e) EXCEPT
                    !.offset = IF e.changes = NULL THEN Len(out) ELSE @],
              !.ef_read = (e.orig # NULL)]

\* The entry before its data is written: merged, local extra fields read, and
\* at its offset in the new archive.
Prepared(e) ==
    [e EXCEPT !.changes = [Merged(e) EXCEPT !.offset = Len(out)],
              !.ef_read = (e.orig # NULL)]

PrepareEntry ==
    /\ pc = "prepare" /\ j <= Len(filelist)
    /\ ~Skipped
    /\ Current.orig # NULL /\ ~Current.ef_read => open_count > 0
    /\ entry' = [entry EXCEPT ![filelist[j] + 1] = Prepared(@)]
    /\ pc' = "write"
    /\ UNCHANGED <<archiveVars, closeVars, open_count, write_state, sessions, stale>>

\* The data is compressed anew.
NewData ==
    Current.source # NULL \/ MethodChanged(Current) \/ (WantTorrentzip /\ ~IsTorrentzip)

\* add_data stores the size of what it has written.
WithNewSize(e, s) ==
    [e EXCEPT !.changes.comp_size = Length[s, e.changes.comp_method]]

\* add_data, of the entry's source or of its old data.
WriteNewData ==
    /\ pc = "write"
    /\ NewData
    /\ Seen(Current) # NULL
    /\ entry' = [entry EXCEPT ![filelist[j] + 1] = WithNewSize(@, Seen(@))]
    /\ out' = out \o Stored(Seen(Current), Current.changes.comp_method)
    /\ j' = j + 1
    /\ pc' = "prepare"
    /\ UNCHANGED <<archiveVars, open_count, write_state, filelist, unchanged_offset, view,
                   sessions, stale>>

\* The old data is copied: a new header, then as many bytes from the old place
\* as the new directory entry says.
CopyData ==
    LET d == [Current.changes EXCEPT !.offset = Current.orig.offset]
    IN /\ pc = "write"
       /\ ~NewData
       /\ Current.orig # NULL
       /\ open_count > 0
       /\ Extent(d) \subseteq DOMAIN file.cells
       /\ out' = out \o SubSeq(file.cells, d.offset + 1, d.offset + 1 + d.comp_size)
       /\ j' = j + 1
       /\ pc' = "prepare"
       /\ UNCHANGED <<archiveVars, entry, open_count, write_state, filelist,
                      unchanged_offset, view, sessions, stale>>

\* What _zip_cdir_write writes of an entry.
CentralEntry(e) == IF e.changes # NULL THEN e.changes ELSE e.orig

\* The directory is written and the source committed, which nobody else may
\* have open; zip_close frees the archive.
Commit ==
    /\ pc = "prepare" /\ j > Len(filelist)
    /\ open_count <= 1
    /\ file' = [cells |-> out,
                cdir |-> [k \in DOMAIN filelist |->
                            [CentralEntry(Entry(filelist[k])) EXCEPT !.changed = {}]],
                torrentzip |-> WantTorrentzip]
    /\ FreeArchive

\* A callback cancels, or a read, a write or the commit fails: the source is
\* rolled back.  zip_source_commit_write has closed it for reading before the
\* callback fails, and nobody opens it again.
Fails ==
    /\ pc # "idle"
    /\ write_state' = "CLOSED"
    /\ pc' = "idle" /\ out' = <<>> /\ filelist' = <<>> /\ j' = 1
    /\ unchanged_offset' = 0 /\ view' = <<>>
    /\ stale' = (stale \/ can_clone \/ WantTorrentzip)
    /\ \/ UNCHANGED open_count
       \/ pc = "prepare" /\ j > Len(filelist) /\ open_count = 1 /\ open_count' = 0
    /\ UNCHANGED <<archiveVars, entry, sessions>>

CloseStep ==
    SkipEntry \/ PrepareEntry \/ WriteNewData \/ CopyData \/ Commit \/ Fails

Edit ==
    \/ \E s \in Sources : FileAdd(s)
    \/ \E i \in Indices :
          \/ \E s \in Sources : FileReplace(i, s)
          \/ Delete(i) \/ Unchange(i) \/ SetComment(i) \/ RestoreComment(i) \/ Fopen(i)
          \/ \E m \in Methods : SetCompression(i, m)
    \/ \E want \in BOOLEAN : SetTorrentzip(want)
    \/ Fclose

Next ==
    \/ Open \/ Edit \/ Discard
    \/ CloseUnchanged \/ CloseAndRemove \/ BeginWrite \/ CloseStep

Spec == Init /\ [][Next]_vars

(***************************************************************************)
(* Properties.                                                             *)
(***************************************************************************)

Entries == [orig : OrigDirents \cup {NULL}, changes : Dirents \cup {NULL},
            source : Sources \cup {NULL}, deleted : BOOLEAN, ef_read : BOOLEAN]

\* The type of every variable; zip_close works on nothing when it is not
\* running, and an archive is never larger than its bound.
TypeOK ==
    /\ file = NULL \/ Len(file.cdir) <= MaxEntries
    /\ is_open \in BOOLEAN /\ can_clone \in BOOLEAN /\ stale \in BOOLEAN
    /\ Len(entry) <= MaxEntries /\ \A i \in Indices : Entry(i) \in Entries
    /\ flags \subseteq {"IS_TORRENTZIP", "WANT_TORRENTZIP"}
    /\ readers \in 0..MaxReaders /\ sessions \in 0..MaxSessions
    /\ open_count \in 0..(MaxReaders + 1)
    /\ write_state \in {"CLOSED", "OPEN"}
    /\ pc \in {"idle", "prepare", "write"}
    /\ pc = "idle" => out = <<>> /\ filelist = <<>> /\ view = <<>>
    /\ j \in 1..(Len(filelist) + 1)

\* When zip_close commits, every entry of the new directory leads to the data
\* that the program saw in that entry: new data, recompressed data, data that
\* was copied, and data that was left in place by cloning.  A close that is
\* retried keeps the promise too when the first one neither cloned nor wrote a
\* torrentzip archive.
CommitStoresView ==
    [][pc # "idle" /\ ~is_open' /\ ~stale => FilesOf(file') = view]_vars

\* man/zip_close.mdoc says that a zip_close that fails leaves the archive
\* unchanged: one that is tried again stores what the program sees.
RetriedCloseStoresView ==
    [][pc # "idle" /\ ~is_open' => FilesOf(file') = view]_vars

=============================================================================
