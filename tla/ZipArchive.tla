----------------------------- MODULE ZipArchive -----------------------------
(***************************************************************************)
(* The archive object of libzip, struct zip: a program opens an archive,   *)
(* adds, replaces, renames, deletes and annotates entries in memory, takes *)
(* changes back, and either writes everything with zip_close or drops it   *)
(* with zip_discard.                                                       *)
(*                                                                         *)
(* One API call is one action: the library is single threaded.  A call     *)
(* that fails and changes nothing is a stuttering step and has no action.  *)
(* Out of memory is modelled in ZipHash, failures of the archive's source  *)
(* in ZipClose and FileCommit; here any write of zip_close may fail after  *)
(* any number of entries.                                                  *)
(*                                                                         *)
(* A name is the UTF-8 string that _zip_string_get returns; Empty is the   *)
(* name of no characters, which the code stores as a NULL filename.  The   *)
(* contents of a file, a comment and an attribute word are opaque values.  *)
(***************************************************************************)
EXTENDS NameHash, FiniteSets

CONSTANTS
    Names,       \* file names
    DirNames,    \* those that end in '/'
    Empty,       \* the empty name
    Rank,        \* the order strcasecmp gives the names
    Contents,    \* what a file's data can be
    Sources,     \* those that a caller adds or replaces data with
    NoData,      \* the data of a zero length buffer source
    Comments,    \* non-empty comments
    Attrs,       \* external attribute words a caller sets
    DefaultAttr, \* ZIP_EXT_ATTRIB_DEFAULT
    DirAttr,     \* ZIP_EXT_ATTRIB_DEFAULT_DIR
    ZeroAttr,    \* the attribute word of a torrentzip entry
    UserFlags,   \* the archive flags a caller sets
    MaxEntries,  \* bound on za->nentry
    InitialDisk, \* the archive files a session may find
    NULL

AllAttrs == Attrs \cup {DefaultAttr, DirAttr, ZeroAttr}

ASSUME NamesAssumption ==
    /\ DirNames \subseteq Names
    /\ Empty \notin Names
    /\ Rank \in [Names \cup {Empty} -> Nat]

ASSUME DataAssumption ==
    /\ NoData \in Contents
    /\ Sources \subseteq Contents
    /\ NULL \notin Names \cup {Empty} \cup Contents \cup Comments

ASSUME BoundAssumption == MaxEntries \in Nat

AllNames == Names \cup {Empty}
MaybeComment == Comments \cup {NULL}

\* The marks of a changed directory entry: ZIP_DIRENT_FILENAME, ..._COMMENT and
\* ..._ATTRIBUTES, and OTHER for those of methods, time, password and extra
\* fields.  Their values are not modelled, and none of them is taken back
\* unless another of them, or new data, keeps the entry changed.
Fields == {"FILENAME", "COMMENT", "ATTRIBUTES", "OTHER"}

\* An entry as it is stored in an archive file.
File == [filename: AllNames, comment: MaybeComment, attr: AllAttrs, data: Contents]

\* The copy of a directory entry that carries its changes.
Dirent == [filename: AllNames, comment: MaybeComment, attr: AllAttrs,
           changed: SUBSET Fields]

Entry == [orig: File \cup {NULL}, changes: Dirent \cup {NULL},
          source: Contents \cup {NULL}, deleted: BOOLEAN]

\* An archive file: its entries in central directory order.
ArchiveFile(n) == [nfiles: {n}, files: [0..(n - 1) -> File],
                   comment: MaybeComment, torrentzip: BOOLEAN]

IsArchiveFile(f) == \E n \in 0..MaxEntries : f \in ArchiveFile(n)

ArchiveFlags == {"RDONLY", "IS_TORRENTZIP", "WANT_TORRENTZIP", "CREATE_OR_KEEP"}

\* zip_set_archive_flag refuses ZIP_AFL_IS_TORRENTZIP.
ASSUME FlagsAssumption == UserFlags \subseteq ArchiveFlags \ {"IS_TORRENTZIP"}

ASSUME DiskAssumption == \A f \in InitialDisk : f = NULL \/ IsArchiveFile(f)

ASSUME NullAssumption == NULL \notin File /\ NULL \notin Dirent /\ ~IsArchiveFile(NULL)

VARIABLES
    disk,            \* the archive file, NULL when there is none
    is_open,         \* whether there is a struct zip
    open_flags,      \* of ZIP_TRUNCATE and ZIP_RDONLY, as given to zip_open
    flags,           \* archive flags as opened
    ch_flags,        \* archive flags as changed by the caller
    comment_orig, comment_changes, comment_changed,
    nentry,          \* number of entries
    entry,           \* entries 0 .. nentry - 1
    names            \* the name table

archiveVars == <<comment_orig, comment_changes, comment_changed, open_flags, flags>>
vars == <<disk, is_open, ch_flags, nentry, entry, names, archiveVars>>

(***************************************************************************)
(* Entries.                                                                *)
(***************************************************************************)

\* _zip_entry_init
NewEntry == [orig |-> NULL, changes |-> NULL, source |-> NULL, deleted |-> FALSE]

\* _zip_get_dirent with flags 0 finds a directory entry.
HasDirent(e) == e.changes # NULL \/ (e.orig # NULL /\ ~e.deleted)

\* The filename of that directory entry.
NameOf(e) == IF e.changes # NULL THEN e.changes.filename ELSE e.orig.filename

\* ZIP_ENTRY_CHANGED(e, f)
FieldChanged(e, f) == e.changes # NULL /\ f \in e.changes.changed

\* ZIP_ENTRY_HAS_CHANGES(e)
HasChanges(e) ==
    e.source # NULL \/ e.deleted \/ (e.changes # NULL /\ e.changes.changed # {})

\* _zip_dirent_clone; of NULL, _zip_dirent_init.
Clone(orig) ==
    IF orig = NULL
      THEN [filename |-> Empty, comment |-> NULL, attr |-> DefaultAttr, changed |-> {}]
      ELSE [filename |-> orig.filename, comment |-> orig.comment, attr |-> orig.attr,
            changed |-> {}]

\* The dirent an operation modifies, cloned first when there is none yet.
ChangesOf(e) == IF e.changes # NULL THEN e.changes ELSE Clone(e.orig)

\* A changed dirent without any changed field is freed.
DropIfUnchanged(c) == IF c.changed = {} THEN NULL ELSE c

\* A field takes a value; its flag says whether that differs from the original.
SetField(c, f, differs) ==
    [c EXCEPT !.changed = IF differs THEN @ \cup {f} ELSE @ \ {f}]

\* The entry after _zip_set_name has given it another name.
Renamed(e, n) ==
    IF e.orig = NULL \/ e.orig.filename # n
      THEN [e EXCEPT !.changes = [SetField(ChangesOf(e), "FILENAME", TRUE)
                                    EXCEPT !.filename = n]]
    ELSE IF FieldChanged(e, "FILENAME")
      THEN [e EXCEPT !.changes = DropIfUnchanged(
                [SetField(e.changes, "FILENAME", FALSE) EXCEPT !.filename = n])]
    ELSE e

\* Faulty variants of NamesAfterRename: the old name stays in the table; the
\* table gets the number of entries instead of the index of the entry.
NamesAfterRenameKeepsOld(h, e, i, n) == HashAdd(h, n, i)

NamesAfterRenameOffByOne(h, e, i, n) == HashAdd(h, n, i + 1)

\* The name table after that: the empty name is a NULL filename, and
\* _zip_set_name has no old name to delete when the old filename is NULL.
NamesAfterRename(h, e, i, n) ==
    LET old == IF e.changes = NULL /\ e.orig = NULL THEN Empty ELSE NameOf(e)
        added == HashAdd(h, n, i)
    IN IF old = Empty THEN added ELSE HashDelete(added, old)

\* The entry after _zip_file_replace: zip_file_extra_field_delete, then
\* _zip_unchange_data, then the new source.
Replaced(e, d) ==
    [e EXCEPT !.changes = SetField(ChangesOf(e), "OTHER", TRUE),
              !.source = d, !.deleted = FALSE]

\* Faulty variant: new data stays.
UnchangedKeepsSource(e) == [NewEntry EXCEPT !.orig = e.orig, !.source = e.source]

\* The entry after _zip_unchange.
Unchanged(e) == [NewEntry EXCEPT !.orig = e.orig]

\* zip_file_set_comment: NULL stands for a comment of length 0.
Commented(e, c) ==
    LET orig == IF e.orig = NULL THEN NULL ELSE e.orig.comment
    IN IF c # orig
         THEN [e EXCEPT !.changes = [SetField(ChangesOf(e), "COMMENT", TRUE)
                                       EXCEPT !.comment = c]]
       ELSE IF e.changes = NULL THEN e
       ELSE [e EXCEPT !.changes = DropIfUnchanged(
                [SetField(e.changes, "COMMENT", FALSE) EXCEPT !.comment = orig])]

\* zip_file_set_external_attributes
WithAttributes(e, a) ==
    LET orig == IF e.orig = NULL THEN DefaultAttr ELSE e.orig.attr
    IN IF a # orig
         THEN [e EXCEPT !.changes = [SetField(ChangesOf(e), "ATTRIBUTES", TRUE)
                                       EXCEPT !.attr = a]]
       ELSE IF e.changes = NULL THEN e
       ELSE [e EXCEPT !.changes = DropIfUnchanged(
                [SetField(e.changes, "ATTRIBUTES", FALSE) EXCEPT !.attr = orig])]

\* The entry after a setter of a method, the time or extra fields has cloned its
\* directory entry, if it has to, and marked what it sets.
Marked(e) == [e EXCEPT !.changes = SetField(ChangesOf(e), "OTHER", TRUE)]

(***************************************************************************)
(* The archive.                                                            *)
(***************************************************************************)

Indices == 0..(nentry - 1)

Writable == is_open /\ "RDONLY" \notin ch_flags
WantTorrentzip == "WANT_TORRENTZIP" \in ch_flags
IsTorrentzip == "IS_TORRENTZIP" \in flags

Survivors == {i \in Indices : ~entry[i].deleted}

\* _zip_changed
Changed ==
    \/ comment_changed
    \/ WantTorrentzip /\ ~IsTorrentzip
    \/ \E i \in Indices : HasChanges(entry[i])

\* The names of a freshly opened archive: of several entries with one name the
\* first is in the table, the others are tolerated but not in it.
OpenedNames(nfiles, files) ==
    [n \in AllNames |->
        LET at == {i \in 0..(nfiles - 1) : files[i].filename = n}
        IN IF at = {} THEN NoNode
           ELSE LET first == CHOOSE i \in at : \A j \in at : i <= j
                IN [orig_index |-> first, current_index |-> first]]

\* There is no struct zip.
Init ==
    /\ disk \in InitialDisk
    /\ is_open = FALSE /\ nentry = 0 /\ entry = [i \in {} |-> NewEntry]
    /\ names = [n \in AllNames |-> NoNode]
    /\ open_flags = {} /\ flags = {} /\ ch_flags = {}
    /\ comment_orig = NULL /\ comment_changes = NULL /\ comment_changed = FALSE

\* zip_discard frees the struct zip.
FreeArchive ==
    /\ is_open' = FALSE /\ nentry' = 0 /\ entry' = [i \in {} |-> NewEntry]
    /\ names' = [n \in AllNames |-> NoNode]
    /\ open_flags' = {} /\ flags' = {} /\ ch_flags' = {}
    /\ comment_orig' = NULL /\ comment_changes' = NULL /\ comment_changed' = FALSE

\* zip_open_from_source, _zip_open and _zip_allocate_new: an archive that
\* does not exist, or is to be truncated, starts without entries.
Open(oflags) ==
    /\ ~is_open
    /\ ~({"RDONLY", "TRUNCATE"} \subseteq oflags)
    /\ LET fresh == disk = NULL \/ "TRUNCATE" \in oflags
           n == IF fresh THEN 0 ELSE disk.nfiles
           torrentzip == ~fresh /\ disk.torrentzip
           afl == (IF "RDONLY" \in oflags THEN {"RDONLY"} ELSE {})
                  \cup (IF torrentzip THEN {"IS_TORRENTZIP"} ELSE {})
       IN /\ nentry' = n
          /\ entry' = [i \in 0..(n - 1) |-> [NewEntry EXCEPT !.orig = disk.files[i]]]
          /\ names' = IF fresh THEN [x \in AllNames |-> NoNode]
                      ELSE OpenedNames(n, disk.files)
          /\ comment_orig' = IF fresh \/ torrentzip THEN NULL ELSE disk.comment
          /\ flags' = afl
          /\ ch_flags' = afl
    /\ is_open' = TRUE
    /\ open_flags' = oflags
    /\ comment_changes' = NULL
    /\ comment_changed' = FALSE
    /\ UNCHANGED disk

\* _zip_add_entry, _zip_set_name and the rest of _zip_file_replace for a name
\* that is not in use.  (When _zip_set_name fails the new entry is finalized
\* and nentry is restored: nothing has changed.)
AddEntry(n, e) ==
    /\ nentry < MaxEntries
    /\ HashLookup(names, n) = NoIndex
    /\ nentry' = nentry + 1
    /\ entry' = [i \in 0..nentry |-> IF i = nentry THEN e ELSE entry[i]]
    /\ names' = NamesAfterRename(names, NewEntry, nentry, n)

\* zip_file_add without ZIP_FL_OVERWRITE, or with it for a name not in use.
FileAdd(n, d) ==
    /\ Writable
    /\ AddEntry(n, Replaced(Renamed(NewEntry, n), d))
    /\ UNCHANGED <<disk, is_open, ch_flags, archiveVars>>

\* zip_file_replace
FileReplace(i, d) ==
    /\ Writable
    /\ i \in Indices
    /\ HasDirent(entry[i])
    /\ entry' = [entry EXCEPT ![i] = Replaced(@, d)]
    /\ UNCHANGED <<disk, is_open, ch_flags, nentry, names, archiveVars>>

\* zip_file_add with ZIP_FL_OVERWRITE for a name in use: _zip_set_name sees
\* that the located entry has the name and leaves it alone.
FileOverwrite(n, d) ==
    /\ HashLookup(names, n) # NoIndex
    /\ FileReplace(HashLookup(names, n), d)

\* zip_dir_add: adding, then setting the attributes, which a torrentzip
\* archive refuses; the entry is then deleted again and the call fails.
DirAdd(n) ==
    LET e == Replaced(Renamed(NewEntry, n), NoData)
    IN /\ Writable
       /\ n \in DirNames
       /\ IF WantTorrentzip
            THEN /\ nentry < MaxEntries
                 /\ HashLookup(names, n) = NoIndex
                 /\ nentry' = nentry + 1
                 /\ entry' = [i \in 0..nentry |->
                                IF i = nentry THEN [Unchanged(e) EXCEPT !.deleted = TRUE]
                                ELSE entry[i]]
                 /\ names' = HashDelete(NamesAfterRename(names, NewEntry, nentry, n), n)
            ELSE AddEntry(n, WithAttributes(e, DirAttr))
       /\ UNCHANGED <<disk, is_open, ch_flags, archiveVars>>

\* zip_dir_add with ZIP_FL_OVERWRITE for a directory name in use.
DirOverwrite(n) ==
    LET i == HashLookup(names, n)
        e == Replaced(entry[i], NoData)
    IN /\ Writable
       /\ n \in DirNames
       /\ i # NoIndex
       /\ HasDirent(entry[i])
       /\ IF WantTorrentzip
            THEN /\ names' = HashDelete(names, n)
                 /\ entry' = [entry EXCEPT ![i] = [Unchanged(e) EXCEPT !.deleted = TRUE]]
            ELSE /\ entry' = [entry EXCEPT ![i] = WithAttributes(e, DirAttr)]
                 /\ UNCHANGED names
       /\ UNCHANGED <<disk, is_open, ch_flags, nentry, archiveVars>>

\* Faulty variant: nobody looks whether the name is in use.
FileRenameToNameInUse(i, n) ==
    /\ Writable
    /\ i \in Indices
    /\ HasDirent(entry[i])
    /\ NameOf(entry[i]) # n
    /\ entry' = [entry EXCEPT ![i] = Renamed(@, n)]
    /\ names' = NamesAfterRename(names, entry[i], i, n)
    /\ UNCHANGED <<disk, is_open, ch_flags, nentry, archiveVars>>

\* zip_file_rename and _zip_set_name; a rename to the same name does nothing.
FileRename(i, n) ==
    /\ Writable
    /\ i \in Indices
    /\ HasDirent(entry[i])
    /\ (n \in DirNames) = (NameOf(entry[i]) \in DirNames)
    /\ HashLookup(names, n) = NoIndex
    /\ entry' = [entry EXCEPT ![i] = Renamed(@, n)]
    /\ names' = NamesAfterRename(names, entry[i], i, n)
    /\ UNCHANGED <<disk, is_open, ch_flags, nentry, archiveVars>>

\* zip_delete
Delete(i) ==
    /\ Writable
    /\ i \in Indices
    /\ HasDirent(entry[i])
    /\ HashCanDelete(names, NameOf(entry[i]))
    /\ names' = HashDelete(names, NameOf(entry[i]))
    /\ entry' = [entry EXCEPT ![i] = [Unchanged(@) EXCEPT !.deleted = TRUE]]
    /\ UNCHANGED <<disk, is_open, ch_flags, nentry, archiveVars>>

\* zip_unchange gives an entry that was renamed or deleted its name back.
Unchange(i) ==
    /\ is_open
    /\ i \in Indices
    /\ LET e == entry[i]
           renamed == FieldChanged(e, "FILENAME")
           restored == IF e.orig # NULL THEN HashAdd(names, e.orig.filename, i) ELSE names
       IN /\ IF renamed \/ e.deleted
               THEN /\ e.orig # NULL => HashCanAdd(names, e.orig.filename)
                    /\ renamed => HashCanDelete(restored, NameOf(e))
                    /\ names' = IF renamed THEN HashDelete(restored, NameOf(e)) ELSE restored
               ELSE UNCHANGED names
          /\ entry' = [entry EXCEPT ![i] = Unchanged(e)]
    /\ UNCHANGED <<disk, is_open, ch_flags, nentry, archiveVars>>

RevertComment == comment_changes' = NULL /\ comment_changed' = FALSE

\* zip_unchange_archive
UnchangeArchive ==
    /\ is_open
    /\ RevertComment
    /\ ch_flags' = flags
    /\ UNCHANGED <<disk, is_open, open_flags, flags, comment_orig, nentry, entry, names>>

\* zip_unchange_all
UnchangeAll ==
    /\ is_open
    /\ names' = HashRevert(names)
    /\ entry' = [i \in Indices |-> Unchanged(entry[i])]
    /\ RevertComment
    /\ ch_flags' = flags
    /\ UNCHANGED <<disk, is_open, open_flags, flags, comment_orig, nentry>>

\* zip_file_set_comment
SetComment(i, c) ==
    /\ Writable
    /\ ~WantTorrentzip
    /\ i \in Indices
    /\ HasDirent(entry[i])
    /\ entry' = [entry EXCEPT ![i] = Commented(@, c)]
    /\ UNCHANGED <<disk, is_open, ch_flags, nentry, names, archiveVars>>

\* zip_file_set_external_attributes
SetAttributes(i, a) ==
    /\ Writable
    /\ ~WantTorrentzip
    /\ i \in Indices
    /\ HasDirent(entry[i])
    /\ entry' = [entry EXCEPT ![i] = WithAttributes(@, a)]
    /\ UNCHANGED <<disk, is_open, ch_flags, nentry, names, archiveVars>>

\* What the four setters have in common.
SetMark(i) ==
    /\ Writable
    /\ i \in Indices
    /\ entry' = [entry EXCEPT ![i] = Marked(@)]
    /\ UNCHANGED <<disk, is_open, ch_flags, nentry, names, archiveVars>>

\* zip_set_file_compression, which does not ask for a directory entry: one that
\* has been deleted gets a changed copy and is visible again, without its name
\* being in the table.
SetFileCompression(i) == ~WantTorrentzip /\ SetMark(i)

\* zip_file_set_encryption, which does not ask for a directory entry either.
SetFileEncryption(i) == ~WantTorrentzip /\ SetMark(i)

\* zip_file_set_mtime and zip_file_set_dostime
SetTime(i) == ~WantTorrentzip /\ i \in Indices /\ HasDirent(entry[i]) /\ SetMark(i)

\* zip_file_extra_field_set, ..._delete and ..._delete_by_id; a torrentzip archive
\* only lets all of them be deleted.
SetExtraFields(i) == i \in Indices /\ HasDirent(entry[i]) /\ SetMark(i)

\* zip_set_archive_comment
SetArchiveComment(c) ==
    /\ Writable
    /\ ~WantTorrentzip
    /\ comment_changed' = (c # comment_orig)
    /\ comment_changes' = IF c # comment_orig THEN c ELSE NULL
    /\ UNCHANGED <<disk, is_open, ch_flags, open_flags, flags, comment_orig,
                   nentry, entry, names>>

\* Faulty variant of SetArchiveFlag: the flags of an archive opened read-only can
\* be set.
SetArchiveFlagOfReadOnly(f, value) ==
    /\ is_open
    /\ f = "RDONLY" /\ value => ~Changed
    /\ ch_flags' = IF value THEN ch_flags \cup {f} ELSE ch_flags \ {f}
    /\ UNCHANGED <<disk, is_open, nentry, entry, names, archiveVars>>

\* zip_set_archive_flag
SetArchiveFlag(f, value) ==
    /\ is_open
    /\ LET new == IF value THEN ch_flags \cup {f} ELSE ch_flags \ {f}
       IN /\ new # ch_flags
          /\ "RDONLY" \notin flags
          /\ f = "RDONLY" /\ value => ~Changed
          /\ ch_flags' = new
    /\ UNCHANGED <<disk, is_open, nentry, entry, names, archiveVars>>

(***************************************************************************)
(* zip_close.                                                              *)
(***************************************************************************)

\* Faulty variant: the first changed entry itself is kept in place too.
KeptOffByOne(cloning) ==
    IF ~cloning \/ WantTorrentzip THEN {}
    ELSE {i \in Indices : /\ entry[i].orig # NULL
                          /\ \A j \in 0..(i - 1) : entry[j].orig # NULL => ~HasChanges(entry[j])}

\* Entries are laid out in the archive in the order of their indices.  When
\* the source can clone, the data in front of the first changed entry is kept
\* in place, and the loop passes over those entries.
Kept(cloning) ==
    IF ~cloning \/ WantTorrentzip THEN {}
    ELSE {i \in Indices : /\ entry[i].orig # NULL
                          /\ \A j \in 0..i : entry[j].orig # NULL => ~HasChanges(entry[j])}

\* Faulty variant: torrentzip sorts by the names the files had when opened.
SortKeyOfOriginal(i) ==
    IF ~WantTorrentzip THEN i
    ELSE IF entry[i].orig # NULL THEN Rank[entry[i].orig.filename] ELSE -1

\* The order of the filelist: by index, or for torrentzip by name, where an
\* entry without a directory entry has no name and sorts first.
SortKey(i) ==
    IF ~WantTorrentzip THEN i
    ELSE IF HasDirent(entry[i]) THEN Rank[NameOf(entry[i])] ELSE -1

Before(i, j) == SortKey(i) < SortKey(j) \/ (SortKey(i) = SortKey(j) /\ i < j)

Filelists ==
    {f \in [0..(Cardinality(Survivors) - 1) -> Survivors] :
        \A j, k \in DOMAIN f : j < k => Before(f[j], f[k])}

\* _zip_dirent_clone or _zip_dirent_merge, then zip_dirent_torrentzip_normalize.
Prepared(e) ==
    LET c == ChangesOf(e)
        merged == IF e.orig = NULL THEN c
                  ELSE [c EXCEPT
                    !.filename = IF "FILENAME" \in c.changed THEN @ ELSE e.orig.filename,
                    !.comment = IF "COMMENT" \in c.changed THEN @ ELSE e.orig.comment,
                    !.attr = IF "ATTRIBUTES" \in c.changed THEN @ ELSE e.orig.attr]
    IN [e EXCEPT !.changes = IF WantTorrentzip THEN [merged EXCEPT !.attr = ZeroAttr]
                             ELSE merged]

\* _zip_file_get_offset fails for an entry with neither new nor old data.
CanBeWritten(e) == e.source # NULL \/ e.orig # NULL

\* What _zip_dirent_write and the copied data make of an entry.
Written(e) ==
    LET de == ChangesOf(e)
    IN [filename |-> de.filename, attr |-> de.attr,
        comment |-> IF WantTorrentzip THEN NULL ELSE de.comment,
        data |-> IF e.source # NULL THEN e.source ELSE e.orig.data]

\* An entry whose data is kept in place: its directory entry with the old data.
InPlace(e) == [Written(e) EXCEPT !.data = e.orig.data]

\* The archive comment that _zip_cdir_write stores.
ArchiveComment == IF comment_changed THEN comment_changes ELSE comment_orig

\* zip_close has to write the archive anew.
MustWrite ==
    /\ is_open
    /\ Survivors = {} => "CREATE_OR_KEEP" \in ch_flags
    /\ Survivors # {} => Changed

\* zip_close writes the archive, commits it and discards the struct zip.
CloseAndWrite(cloning) ==
    /\ MustWrite
    /\ \A i \in Survivors : CanBeWritten(entry[i])
    /\ \E filelist \in Filelists :
         disk' = [nfiles |-> Cardinality(Survivors),
                  files |-> [j \in DOMAIN filelist |->
                               LET i == filelist[j]
                               IN IF i \in Kept(cloning) THEN InPlace(entry[i])
                                  ELSE Written(Prepared(entry[i]))],
                  comment |-> IF WantTorrentzip THEN NULL ELSE ArchiveComment,
                  torrentzip |-> WantTorrentzip]
    /\ FreeArchive

\* zip_close fails after preparing some first entries of the filelist: the
\* progress callback cancels, a source cannot be read, the archive cannot be
\* written or committed, or an entry has no data.  The struct zip stays.
CloseFails(cloning, started) ==
    /\ MustWrite
    /\ started \subseteq Survivors
    /\ \A i \in started, j \in Survivors \ started : Before(i, j)
    /\ \A i, j \in started : Before(i, j) => CanBeWritten(entry[i])
    /\ entry' = [i \in Indices |->
                   IF i \in started \ Kept(cloning) THEN Prepared(entry[i]) ELSE entry[i]]
    /\ UNCHANGED <<disk, is_open, ch_flags, nentry, names, archiveVars>>

\* zip_close removes the file of an archive that has become empty.
CloseAndRemove ==
    /\ is_open
    /\ Survivors = {}
    /\ "CREATE_OR_KEEP" \notin ch_flags
    /\ disk' = IF "TRUNCATE" \in open_flags \/ Changed THEN NULL ELSE disk
    /\ FreeArchive

\* zip_close finds nothing to write.
CloseUnchanged ==
    /\ is_open
    /\ Survivors # {}
    /\ ~Changed
    /\ UNCHANGED disk
    /\ FreeArchive

\* zip_discard
Discard == is_open /\ UNCHANGED disk /\ FreeArchive

CloseSucceeds ==
    (\E cloning \in BOOLEAN : CloseAndWrite(cloning)) \/ CloseAndRemove \/ CloseUnchanged

Close ==
    \/ CloseSucceeds
    \/ \E cloning \in BOOLEAN, started \in SUBSET Indices : CloseFails(cloning, started)

Edit ==
    \/ \E n \in Names, d \in Sources :
          FileAdd(n, d) \/ FileOverwrite(n, d)
    \/ \E n \in Names : DirAdd(n) \/ DirOverwrite(n)
    \/ \E i \in Indices :
          \/ \E d \in Sources : FileReplace(i, d)
          \/ \E n \in Names : FileRename(i, n)
          \/ \E c \in MaybeComment : SetComment(i, c)
          \/ \E a \in Attrs : SetAttributes(i, a)
          \/ SetTime(i)
          \/ SetExtraFields(i)
          \/ Delete(i)
          \/ Unchange(i)
    \/ UnchangeAll
    \/ UnchangeArchive
    \/ \E c \in MaybeComment : SetArchiveComment(c)
    \/ \E f \in UserFlags, value \in BOOLEAN : SetArchiveFlag(f, value)

\* The calls that give an entry a method.
SetMethod(i) == SetFileCompression(i) \/ SetFileEncryption(i)

\* All other calls.
Call ==
    \/ \E oflags \in SUBSET {"RDONLY", "TRUNCATE"} : Open(oflags)
    \/ Edit
    \/ Close
    \/ Discard

Next == Call \/ \E i \in Indices : SetMethod(i)

Spec == Init /\ [][Next]_vars

(***************************************************************************)
(* A careful program gives no method to an entry that it has deleted.      *)
(* What libzip promises about names it only keeps for such a program.      *)
(***************************************************************************)
CarefulNext == Call \/ \E i \in Survivors : SetMethod(i)

CarefulSpec == Init /\ [][CarefulNext]_vars

(***************************************************************************)
(* Properties.                                                             *)
(***************************************************************************)

\* What a reader of the archive sees of an entry: its directory entry and its
\* data (zip_stat_index, zip_file_get_comment, zip_fopen_index).
View(e) ==
    [filename |-> NameOf(e), comment |-> ChangesOf(e).comment, attr |-> ChangesOf(e).attr,
     data |-> IF e.source # NULL THEN e.source
              ELSE IF e.orig # NULL THEN e.orig.data ELSE NULL]

Visible == {i \in Indices : HasDirent(entry[i])}

\* Every variable has the type its declaration in zipint.h gives it.
TypeOK ==
    /\ disk = NULL \/ IsArchiveFile(disk)
    /\ is_open \in BOOLEAN
    /\ open_flags \subseteq {"RDONLY", "TRUNCATE"}
    /\ flags \subseteq ArchiveFlags
    /\ ch_flags \subseteq ArchiveFlags
    /\ comment_orig \in MaybeComment
    /\ comment_changes \in MaybeComment
    /\ comment_changed \in BOOLEAN
    /\ nentry \in 0..MaxEntries
    /\ entry \in [Indices -> Entry]
    /\ names \in [AllNames -> [orig_index: Indices \cup {NoIndex},
                               current_index: Indices \cup {NoIndex}]]

\* A file of the archive is found under its name (zip_name_locate.c): whatever
\* was added, renamed, deleted and taken back before, the table leads from
\* the name of every visible entry to that entry.  It needs a careful program:
\* a deleted entry that is given a method is visible and not in the table.
LocateFindsEveryName ==
    \A i \in Visible :
        NameOf(entry[i]) # Empty => HashLookup(names, NameOf(entry[i])) = i

\* What the table leads to is an entry that has that name, so that
\* zip_file_add with ZIP_FL_OVERWRITE replaces the file it names.
LocatesOnlyNamesake(n) ==
    HashLookup(names, n) # NoIndex =>
        /\ HashLookup(names, n) \in Visible
        /\ NameOf(entry[HashLookup(names, n)]) = n

LocateFindsOnlyThatName == \A n \in Names : LocatesOnlyNamesake(n)

\* The original indices survive every edit: reverting the table, as
\* zip_unchange_all does, gives back the names of the opened archive.
RevertGivesOpenedNames ==
    \A i \in Indices :
        entry[i].orig # NULL /\ entry[i].orig.filename # Empty =>
            HashLookup(HashRevert(names), entry[i].orig.filename) = i

\* zip_close never writes two files of one name into an archive, over any
\* number of sessions.  It needs a careful program: giving a deleted entry a
\* method and then new data brings its name back beside another of that name.
DiskNamesUnique ==
    disk # NULL =>
        \A j, k \in 0..(disk.nfiles - 1) :
            disk.files[j].filename = disk.files[k].filename =>
                j = k \/ disk.files[j].filename = Empty

\* While an archive is read-only, by zip_open or by zip_set_archive_flag, no
\* entry and no comment of it carries a change.
ReadOnlyHasNoChanges ==
    "RDONLY" \in ch_flags =>
        ~comment_changed /\ \A i \in Indices : ~HasChanges(entry[i])

\* An archive opened with ZIP_RDONLY is never written, replaced or removed,
\* whatever flags are set on it later: zip_close finds nothing to do.
ReadOnlyArchiveNeverWritten == [][ "RDONLY" \in flags => disk' = disk ]_vars

\* zip_get_archive_comment, which does not look at comment_changed: a comment that
\* was removed is seen until zip_close.
ArchiveCommentSeen == IF comment_changes = NULL THEN comment_orig ELSE comment_changes

CommentRemoved == comment_changed /\ comment_changes = NULL

\* A zip_close that was to write a torrentzip archive and failed has left its
\* attribute word in the entry, unmarked: the next one may or may not store it.
Normalised(e) ==
    /\ e.changes # NULL /\ e.orig # NULL
    /\ "ATTRIBUTES" \notin e.changes.changed
    /\ e.changes.attr # e.orig.attr

\* A zip_close that succeeds leaves a file that contains exactly what the
\* program saw in the archive, also when it decides that there is nothing to
\* write, or keeps unchanged data in place.  Only a comment of the archive that
\* was removed is gone although it was seen, and so is an entry that was deleted
\* and made visible again by giving it a method.
CloseStoresWhatWasSeen ==
    [][ /\ is_open /\ ~is_open' /\ CloseSucceeds
        /\ ~WantTorrentzip
        /\ \A i \in Survivors : CanBeWritten(entry[i]) /\ ~Normalised(entry[i])
        => IF disk' = NULL THEN Survivors = {}
           ELSE /\ disk'.nfiles = Cardinality(Survivors)
                /\ {disk'.files[j] : j \in 0..(disk'.nfiles - 1)} =
                      {View(entry[i]) : i \in Survivors}
                /\ disk'.comment = IF CommentRemoved THEN NULL ELSE ArchiveCommentSeen
        ]_vars

\* A torrentzip archive is in the normal form that makes the archives of equal
\* files equal: sorted by name, without comments, with one attribute word.
TorrentzipIsNormalised ==
    disk # NULL /\ disk.torrentzip =>
        /\ disk.comment = NULL
        /\ \A j \in 0..(disk.nfiles - 1) :
              disk.files[j].comment = NULL /\ disk.files[j].attr = ZeroAttr
        /\ \A j, k \in 0..(disk.nfiles - 1) :
              j < k => Rank[disk.files[j].filename] <= Rank[disk.files[k].filename]

(***************************************************************************)
(* The archive implements ArchiveStore, for a careful program.  A file of  *)
(* the working copy is an entry that has a non-empty name and data; it was *)
(* stored before under the name of its original.  An entry without a name  *)
(* is no file: naming it is putting a file.                                *)
(***************************************************************************)

\* NULL, for no file and for no session, is neither a file nor a set of files.
ASSUME StoreAssumption ==
    /\ NULL \notin [from: Names \cup {NULL}, data: Contents]
    /\ NULL \notin [Names -> Contents \cup {NULL}]

IsFile(i, n) == i \in Visible /\ NameOf(entry[i]) = n /\ CanBeWritten(entry[i])

StoredFiles ==
    [n \in Names |->
        IF disk # NULL /\ \E j \in 0..(disk.nfiles - 1) : disk.files[j].filename = n
          THEN LET j == CHOOSE j \in 0..(disk.nfiles - 1) : disk.files[j].filename = n
               IN disk.files[j].data
          ELSE NULL]

OpenedFiles ==
    IF ~is_open THEN NULL
    ELSE [n \in Names |->
            IF names[n].orig_index = NoIndex THEN NULL
            ELSE entry[names[n].orig_index].orig.data]

WorkingFiles ==
    IF ~is_open THEN NULL
    ELSE [n \in Names |->
            IF \E i \in Indices : IsFile(i, n)
              THEN LET i == CHOOSE i \in Indices : IsFile(i, n)
                           orig == entry[i].orig
                   IN [from |-> IF orig # NULL /\ orig.filename # Empty THEN orig.filename
                                ELSE NULL,
                       data |-> View(entry[i]).data]
              ELSE NULL]

Store == INSTANCE ArchiveStore
            WITH stored <- StoredFiles, base <- OpenedFiles, work <- WorkingFiles

\* Every call that a careful program makes is a step of ArchiveStore or changes
\* nothing that ArchiveStore shows.
ImplementsStore == Store!Spec
=============================================================================
