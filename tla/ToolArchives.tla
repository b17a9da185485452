---------------------------- MODULE ToolArchives ----------------------------
(***************************************************************************)
(* What the programs zipcmp, zipmerge and ziptool see of libzip: files on  *)
(* disk, and archives that are open, as the API functions they call read   *)
(* and change them.  One operator per function; it returns what the call   *)
(* makes of the archive, or NULL when the call fails and changes nothing.  *)
(*                                                                         *)
(* The name table, the layout of the files and the layers that read and    *)
(* write data are modelled in ZipArchive, OpenArchive and EntryData: here  *)
(* a name leads to the entry that has it, and data is a short sequence.    *)
(* Archives are not encrypted and not torrentzipped, and no archive has    *)
(* two entries of one name unless it is only read.                         *)
(***************************************************************************)
EXTENDS Integers, SequencesExt

CONSTANTS
    Rank,       \* the order strcmp gives the names
    FoldedRank, \* the order strcasecmp gives them
    DirNames,   \* those that end in '/'
    Base,       \* what follows the last '/' of a name
    Inside,     \* the names that begin with the name of a directory and are longer
    Crc,        \* the checksum of a piece of data
    Now,        \* the modification time of data that has none
    NULL

Names == DOMAIN Rank

ASSUME NamesAssumption ==
    /\ Rank \in [Names -> Nat] /\ FoldedRank \in [Names -> Nat]
    /\ DirNames \subseteq Names
    /\ Base \in [Names -> Names]
    /\ Inside \in [DirNames -> SUBSET Names]

VARIABLES
    disk,   \* the file each path leads to
    script, \* the command lines that are still to be run
    proc    \* the program that runs, NULL when none does

vars == <<disk, script, proc>>

(***************************************************************************)
(* Files: [kind |-> "zip", entries, comment], [kind |-> "dir", dirs,       *)
(* files], [kind |-> "file", data, mtime], "broken" and "none".  An entry  *)
(* of an archive is [name, data, crc, method, mtime, comment, fields]; an  *)
(* extra field is <<"local" or "central", what it holds>>.                 *)
(***************************************************************************)

NoFile == [kind |-> "none"]
IsZip(f) == f.kind = "zip"

\* A piece of data, from an offset, at most length long; a length of -1 or a
\* missing end stands for the rest.
Piece(data, start, length) ==
    SubSeq(data, start + 1, IF length = -1 THEN Len(data) ELSE Min({start + length, Len(data)}))

\* Reading all the data of an entry checks it.
IsSound(e) == e.crc = Crc[e.data]

(***************************************************************************)
(* An open archive, struct zip.  An entry of it that was in the file has   *)
(* the position it had there as orig, others have 0; named is whether the  *)
(* name table leads to it; changed is the set of ZIP_DIRENT_ flags of its  *)
(* changed directory entry, NULL when it has none.                         *)
(***************************************************************************)

BlankEntry ==
    [orig |-> 0, name |-> NULL, comment |-> NULL, fields |-> <<>>, method |-> "default",
     mtime |-> NULL, source |-> NULL, deleted |-> FALSE, named |-> FALSE, changed |-> NULL]

\* An entry as _zip_unchange leaves it.
Original(opened, i) ==
    IF i = 0 THEN BlankEntry
    ELSE LET e == opened[i]
         IN [orig |-> i, name |-> e.name, comment |-> e.comment, fields |-> e.fields,
             method |-> e.method, mtime |-> e.mtime, source |-> NULL, deleted |-> FALSE,
             named |-> TRUE, changed |-> NULL]

\* zip_open of a file, or of a path without one.
OpenedZip(f, truncate) ==
    LET opened == IF f = NoFile \/ truncate THEN <<>> ELSE f.entries
    IN [opened |-> opened, entries |-> [i \in DOMAIN opened |-> Original(opened, i)],
        comment |-> IF f = NoFile \/ truncate THEN NULL ELSE f.comment,
        comment_changes |-> NULL, comment_changed |-> FALSE,
        truncate |-> truncate, keep |-> FALSE, rdonly |-> FALSE]

\* zip_open: ZIP_CREATE, ZIP_EXCL, ZIP_TRUNCATE and ZIP_CHECKCONS, which refuses
\* what does not look like an archive of its own (modelled in OpenArchive).
CanOpen(f, flags) ==
    IF f = NoFile THEN "CREATE" \in flags
    ELSE /\ "EXCL" \notin flags
         /\ IsZip(f) \/ "TRUNCATE" \in flags

\* _zip_get_dirent with flags 0 finds a directory entry.
HasDirent(e) == e.changed # NULL \/ (e.orig # 0 /\ ~e.deleted)

Indices(za) == DOMAIN za.entries
Visible(za) == {i \in Indices(za) : HasDirent(za.entries[i])}

Touched(e, field) ==
    [e EXCEPT !.changed = (IF e.changed = NULL THEN {} ELSE e.changed) \cup {field}]

\* ZIP_ENTRY_HAS_CHANGES
HasChanges(e) == e.source # NULL \/ e.deleted \/ e.changed \notin {NULL, {}}

\* zip_name_locate: without flags a look into the table of names, otherwise the
\* first entry whose name, or its last part, is the one looked for.
Locate(za, name, flags) ==
    LET key(n) == IF "NODIR" \in flags THEN Base[n] ELSE n
        same(n) == IF "NOCASE" \in flags THEN FoldedRank[key(n)] = FoldedRank[name]
                   ELSE key(n) = name
        found == {i \in Indices(za) :
                    /\ IF flags = {} THEN za.entries[i].named ELSE HasDirent(za.entries[i])
                    /\ same(za.entries[i].name)}
    IN IF found = {} THEN 0 ELSE Min(found)

\* The first half of _zip_file_replace: zip_file_extra_field_delete drops the
\* extra fields, then the data is the new source's.
WithSource(e, source) ==
    [Touched(e, "EXTRA_FIELD") EXCEPT !.fields = <<>>, !.source = source, !.deleted = FALSE]

\* zip_file_add
FileAdd(za, name, source) ==
    IF za.rdonly \/ Locate(za, name, {}) # 0 THEN NULL
    ELSE [za EXCEPT !.entries =
            Append(@, WithSource([Touched(BlankEntry, "FILENAME")
                                    EXCEPT !.name = name, !.named = TRUE], source))]

\* zip_file_replace
FileReplace(za, i, source) ==
    IF za.rdonly \/ i \notin Visible(za) THEN NULL
    ELSE [za EXCEPT !.entries[i] = WithSource(@, source)]

\* There is a node for a name: it leads to an entry, or it did at first.
InTable(za, name) ==
    Locate(za, name, {}) # 0 \/ \E i \in DOMAIN za.opened : za.opened[i].name = name

\* _zip_hash_delete: the name leads to no entry any more.
Unlisted(entries, name) ==
    [i \in DOMAIN entries |-> [entries[i] EXCEPT !.named = @ /\ entries[i].name # name]]

\* zip_delete takes the name from the table, whichever entry it leads to.
Delete(za, i) ==
    IF za.rdonly \/ i \notin Visible(za) THEN NULL
    ELSE LET e == za.entries[i]
         IN IF ~InTable(za, e.name) THEN NULL
            ELSE [za EXCEPT !.entries =
                    [Unlisted(@, e.name) EXCEPT ![i] = [Original(za.opened, e.orig)
                                                         EXCEPT !.deleted = TRUE, !.named = FALSE]]]

\* A change that leaves nothing changed drops the changed directory entry.
Settled(e) == IF e.changed = {} THEN [e EXCEPT !.changed = NULL] ELSE e

\* zip_file_rename: the old name goes from the table after the new one has come.
FileRename(za, i, name) ==
    IF za.rdonly \/ i \notin Visible(za) THEN NULL
    ELSE LET e == za.entries[i]
             at == Locate(za, name, {})
             back == e.orig # 0 /\ za.opened[e.orig].name = name
             renamed == [Touched(e, "FILENAME") EXCEPT !.name = name, !.named = TRUE]
         IN IF (name \in DirNames) # (e.name \in DirNames) \/ at \notin {0, i} THEN NULL
            ELSE IF at = i THEN za
            ELSE [za EXCEPT !.entries =
                    Unlisted([@ EXCEPT ![i] =
                                IF back THEN Settled([renamed EXCEPT !.changed = @ \ {"FILENAME"}])
                                ELSE renamed], e.name)]

\* zip_file_set_comment
SetComment(za, i, comment) ==
    IF za.rdonly \/ i \notin Visible(za) THEN NULL
    ELSE LET e == za.entries[i]
             old == IF e.orig = 0 THEN NULL ELSE za.opened[e.orig].comment
             set == [Touched(e, "COMMENT") EXCEPT !.comment = comment]
         IN [za EXCEPT !.entries[i] =
               IF comment # old THEN set
               ELSE IF e.changed = NULL THEN e
               ELSE Settled([set EXCEPT !.changed = @ \ {"COMMENT"}])]

\* zip_set_file_compression does not look whether the entry is deleted, which is
\* visible then, and gets data back, without its name being in the table.
SetCompression(za, i, method) ==
    IF za.rdonly \/ i \notin Indices(za) THEN NULL
    ELSE [za EXCEPT !.entries[i] = [Touched(@, "COMP_METHOD") EXCEPT !.method = method]]

Timed(e, mtime) == [Touched(e, "LAST_MOD") EXCEPT !.mtime = mtime]

\* zip_file_set_mtime, zip_file_set_dostime
SetTime(za, i, mtime) ==
    IF za.rdonly \/ i \notin Visible(za) THEN NULL
    ELSE [za EXCEPT !.entries[i] = Timed(@, mtime)]

\* zip_file_extra_field_set with ZIP_EXTRA_FIELD_NEW
AddField(za, i, field) ==
    IF za.rdonly \/ i \notin Visible(za) THEN NULL
    ELSE [za EXCEPT !.entries[i] = [Touched(@, "EXTRA_FIELD") EXCEPT !.fields = Append(@, field)]]

\* zip_file_extra_field_delete of one field.
DeleteField(za, i, field) ==
    IF za.rdonly \/ i \notin Visible(za) THEN NULL
    ELSE [za EXCEPT !.entries[i] =
            [Touched(@, "EXTRA_FIELD") EXCEPT !.fields = SelectSeq(@, LAMBDA f : f # field)]]

\* zip_set_archive_comment
SetArchiveComment(za, comment) ==
    IF za.rdonly THEN NULL
    ELSE [za EXCEPT !.comment_changes = IF comment # za.comment THEN comment ELSE NULL,
                    !.comment_changed = (comment # za.comment)]

\* Faulty variant: the old name comes back whoever has it now.
UnchangeBlindly(za, i) ==
    IF i \notin Indices(za) THEN NULL
    ELSE [za EXCEPT !.entries[i] = Original(za.opened, @.orig)]

\* zip_unchange: an entry that was renamed or deleted gets its old name back, unless
\* another has it now.  One that was added is left without name and data.
Unchange(za, i) ==
    IF i \notin Indices(za) THEN NULL
    ELSE LET e == za.entries[i]
             old == Original(za.opened, e.orig)
             renamed == e.changed # NULL /\ "FILENAME" \in e.changed
             moved == renamed \/ e.deleted
             taken == e.orig # 0 /\ Locate(za, old.name, {}) \notin {0, i}
             rest == IF renamed THEN Unlisted(za.entries, e.name) ELSE za.entries
         IN IF moved /\ taken THEN NULL
            ELSE [za EXCEPT !.entries =
                    [rest EXCEPT ![i] = [old EXCEPT !.named = IF moved THEN @ ELSE e.named]]]

\* zip_unchange_all
UnchangeAll(za) ==
    [za EXCEPT !.entries = [i \in Indices(za) |-> Original(za.opened, za.entries[i].orig)],
               !.comment_changes = NULL, !.comment_changed = FALSE,
               !.keep = FALSE, !.rdonly = FALSE]

(***************************************************************************)
(* Sources: [kind |-> "data", data]; [kind |-> "file", path, start, length,*)
(* mtime], a piece of a file that is read when the archive is written; and *)
(* [kind |-> "zip", input, entry, raw, start, length], an entry of an      *)
(* archive that has to be open still when it is read.                      *)
(***************************************************************************)

\* zip_source_file: the length is that of the file now.
FileSource(path, start, length) ==
    LET f == disk[path]
        size == Len(f.data)
    IN IF f.kind # "file" \/ start > size \/ length > size - start THEN NULL
       ELSE [kind |-> "file", path |-> path, start |-> start, mtime |-> f.mtime,
             length |-> IF length <= 0 THEN size - start ELSE length]

\* zip_source_zip_file of the i-th entry of an archive that was opened as the
\* given input; it cannot be read compressed in part or when it was changed.
ZipSource(input, entries, i, raw, start, length) ==
    IF i \notin DOMAIN entries THEN NULL
    ELSE LET size == Len(entries[i].data)
         IN IF start > size \/ length > size - start THEN NULL
            ELSE [kind |-> "zip", input |-> input, entry |-> entries[i], raw |-> raw,
                  start |-> start, length |-> IF length = -1 THEN size - start ELSE length]

\* What a source gives: data, a checksum if it comes with one, whether it is
\* compressed, and its time; NULL when reading it fails.  A length of 0 does
\* not limit what is read of a file.
ReadSource(s, files, isOpen) ==
    CASE s.kind = "data" -> [data |-> s.data, crc |-> NULL, method |-> "store", mtime |-> Now]
      [] s.kind = "file" ->
           IF files[s.path].kind # "file" THEN NULL
           ELSE [data |-> Piece(files[s.path].data, s.start,
                                IF s.length = 0 THEN -1 ELSE s.length),
                 crc |-> NULL, method |-> "store", mtime |-> s.mtime]
      [] s.kind = "zip" ->
           LET e == s.entry
               raw == s.raw /\ e.method # "store"
           IN IF ~isOpen[s.input] \/ (~raw /\ s.length = Len(e.data) /\ ~IsSound(e)) THEN NULL
              ELSE [data |-> Piece(e.data, s.start, s.length), mtime |-> e.mtime,
                    crc |-> IF raw THEN e.crc ELSE NULL,
                    method |-> IF raw THEN e.method ELSE "store"]

(***************************************************************************)
(* zip_close.                                                              *)
(***************************************************************************)

Survivors(za) == {i \in Indices(za) : ~za.entries[i].deleted}

\* _zip_changed
Changed(za) == za.comment_changed \/ \E i \in Indices(za) : HasChanges(za.entries[i])

\* zip_close removes the file, leaves it alone, or writes it.
CloseRemoves(za) == Survivors(za) = {} /\ ~za.keep
CloseWrites(za) ==
    /\ Survivors(za) = {} => za.keep
    /\ Survivors(za) # {} => Changed(za)

\* The method new data is stored with: that of data that comes compressed, the
\* chosen one, or by default deflate unless that does not make it smaller.
Methods(e, given) ==
    LET chosen == IF e.changed # NULL /\ "COMP_METHOD" \in e.changed THEN e.method ELSE NULL
    IN IF chosen \in {NULL, "default"} /\ given.method # "store" THEN {given.method}
       ELSE IF chosen \notin {NULL, "default"} THEN {chosen}
       ELSE IF given.data = <<>> THEN {"store"} ELSE {"store", "deflate"}

\* What zip_close can write for an entry, nothing when that fails: new data, or
\* data that is compressed anew, goes through the layers (add_data), other data
\* is copied as it is.
WrittenEntry(za, i, files, isOpen) ==
    LET e == za.entries[i]
        stored == za.opened[e.orig]
        file(data, crc, method, mtime) ==
            [name |-> e.name, data |-> data, crc |-> crc, method |-> method, mtime |-> mtime,
             comment |-> e.comment, fields |-> e.fields]
        timed(mtime) == IF e.changed # NULL /\ "LAST_MOD" \in e.changed THEN e.mtime ELSE mtime
        recompressed == e.changed # NULL /\ "COMP_METHOD" \in e.changed
        own == [kind |-> "zip", input |-> 0, entry |-> stored, raw |-> FALSE, start |-> 0,
                length |-> Len(stored.data)]
        added(r) == IF r = NULL THEN {}
                    ELSE {file(r.data, IF r.crc # NULL /\ m = r.method THEN r.crc ELSE Crc[r.data],
                               m, timed(r.mtime)) : m \in Methods(e, r)}
    IN IF e.source # NULL THEN added(ReadSource(e.source, files, isOpen))
       ELSE IF e.orig = 0 THEN {}
       ELSE IF recompressed THEN added(ReadSource(own, files, [x \in {0} |-> TRUE]))
       ELSE {file(stored.data, stored.crc, stored.method, timed(stored.mtime))}

ArchiveComment(za) == IF za.comment_changed THEN za.comment_changes ELSE za.comment

\* The order in which entries are written: that of their indices.
Filelist(za) ==
    FlattenSeq([i \in Indices(za) |-> IF za.entries[i].deleted THEN <<>> ELSE <<i>>])
=============================================================================
