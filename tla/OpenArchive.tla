----------------------------- MODULE OpenArchive -----------------------------
(* An archive on disk and its life: entries are added, their extra fields and  *)
(* times changed, the archive is written by zip_close and opened again, and    *)
(* between that the file may be cut off, moved or damaged.  Entries keep their *)
(* two directory entries, the one read and the one changed, which share their  *)
(* extra fields until one of them is changed; those of the local header are    *)
(* read when somebody asks for them.                                           *)
(*                                                                             *)
(* wanted and stored are not in the code: the entries and the comment as the   *)
(* calls asked for, in the open archive and in the file.                       *)
EXTENDS Directory

CONSTANTS
    Additions,      \* what may be added: name, comment, content, method, ...
    Fields,         \* the extra fields users set
    Times,          \* the times they set, in seconds
    Comments,       \* comments of the archive
    Deflated(_),    \* the size of compressed data ...
    MaxDeflated(_), \* ... and maximum_compressed_size
    MaxEntries, MaxEdits, MaxCloses,
    PrefixSizes,     \* sizes of what may be put before an archive
    Numbers         \* the numbers that may be changed in the file

VARIABLES
    disk,    \* the file
    za,      \* the open archive, or NULL
    wanted, stored,
    last,    \* how the last zip_open or zip_close ended
    damage,  \* what happened to the file since it was written
    edits, closes

vars == <<disk, za, wanted, stored, last, damage, edits, closes>>

NoCall == [op |-> "none", err |-> "OK", check |-> FALSE]

Sides == {"local", "central"}

\* The stored form of the content of an addition, of the given size.
Packed(a, size) ==
    IF a.method = "store" /\ a.encr = "none" THEN a.content
    ELSE [size |-> size, at |-> IF size = 0 THEN <<>> ELSE 0 :> [magic |-> "packed", of |-> a.content]]

PackedSize(a) ==
    EncryptionOverhead(a.encr)
    + IF a.method = "store" THEN a.content.size ELSE Deflated(a.content.size)

Crc(a) == IF a.content.size = 0 THEN 0 ELSE a.crc

\* ------------------------------------------------------- entries in memory --

Effective(e) == IF e.changes # NULL THEN e.changes ELSE e.orig

\* Faulty variant: the entry that is changed already does not learn of it.
WithLocalOriginal(e) ==
    IF e.orig = NULL \/ e.orig.localRead THEN e
    ELSE [e EXCEPT !.orig.local = LocalFields(disk, e.orig), !.orig.localRead = TRUE]

\* _zip_read_local_ef
WithLocal(e) ==
    LET local == LocalFields(disk, e.orig)
    IN  IF e.orig = NULL \/ e.orig.localRead THEN e
        ELSE [orig |-> [e.orig EXCEPT !.local = local, !.localRead = TRUE],
              changes |-> IF e.changes = NULL \/ e.changes.localRead THEN e.changes
                          ELSE [e.changes EXCEPT !.central = e.orig.central, !.local = local,
                                                 !.localRead = TRUE],
              source |-> e.source]

\* _zip_dirent_clone
Cloned(e) == IF e.changes # NULL THEN e ELSE [e EXCEPT !.changes = [e.orig EXCEPT !.changed = {}]]

\* _zip_dirent_merge: what was not changed is the original's.
Merged(e) ==
    IF e.orig = NULL \/ e.changes = NULL THEN e
    ELSE LET extra == "extra" \in e.changes.changed
         IN  [e EXCEPT !.changes.local = IF extra THEN @ ELSE e.orig.local,
                       !.changes.central = IF extra THEN @ ELSE e.orig.central,
                       !.changes.time = IF "time" \in e.changes.changed THEN @ ELSE e.orig.time]

\* _zip_file_extra_field_prepare_for_change
Prepared(e) ==
    IF e.changes # NULL /\ "extra" \in e.changes.changed THEN e
    ELSE [Cloned(WithLocal(e)) EXCEPT !.changes.changed = @ \cup {"extra"}]

Edit(i, e, w) ==
    /\ za' = [za EXCEPT !.entries[i] = e]
    /\ wanted' = [wanted EXCEPT !.entries[i] = w]
    /\ edits' = edits + 1
    /\ UNCHANGED <<disk, stored, last, damage, closes>>

\* What is done to a damaged archive is only to open it.
Editing == za # NULL /\ damage = "none" /\ edits < MaxEdits

\* zip_file_extra_field_set: each list asked for is changed on its own, and the
\* first that cannot be ends the call.
ExtraFieldSet(i, field, idx, sides) ==
    LET e == Prepared(za.entries[i])
        local == EfSet(e.changes.local, field, idx)
        central == EfSet(e.changes.central, field, idx)
        setLocal == "local" \in sides /\ local # NULL
        setCentral == "central" \in sides /\ central # NULL /\ ("local" \in sides => setLocal)
    IN  /\ Editing
        /\ Edit(i, [e EXCEPT !.changes.local = IF setLocal THEN local ELSE @,
                             !.changes.central = IF setCentral THEN central ELSE @],
                [wanted.entries[i] EXCEPT !.local = IF setLocal THEN EfSet(@, field, idx) ELSE @,
                                  !.central = IF setCentral THEN EfSet(@, field, idx) ELSE @])

\* zip_file_extra_field_delete and zip_file_extra_field_delete_by_id: one field
\* of one list, or all of them.
ExtraFieldDelete(i, id, idx, sides) ==
    LET e == Prepared(za.entries[i])
        del(fields, side) == IF side \in sides THEN EfDelete(fields, id, idx) ELSE fields
    IN  /\ Editing
        /\ sides = Sides => idx = AnyField
        /\ Edit(i, [e EXCEPT !.changes.local = del(@, "local"), !.changes.central = del(@, "central")],
                [wanted.entries[i] EXCEPT !.local = del(@, "local"), !.central = del(@, "central")])

\* zip_file_extra_field_get and zip_file_extra_fields_count, when they look at
\* the local header's.
ExtraFieldGet(i) ==
    /\ za # NULL /\ damage = "none"
    /\ WithLocal(za.entries[i]) # za.entries[i]
    /\ za' = [za EXCEPT !.entries[i] = WithLocal(@)]
    /\ UNCHANGED <<disk, wanted, stored, last, damage, edits, closes>>

\* zip_file_set_mtime; the time is part of what encrypts an entry in the old way.
SetTime(i, t) ==
    LET e == za.entries[i]
    IN  /\ Editing
        /\ ~(e.orig # NULL /\ e.orig.encr = "pkware")
        /\ Edit(i, [Cloned(e) EXCEPT !.changes.time = DosTime(t),
                                     !.changes.changed = @ \cup {"time"}],
                [wanted.entries[i] EXCEPT !.time = DosTime(t)])

\* zip_file_add, and the calls that set an entry's comment, method and encryption.
Add(a) ==
    /\ Editing
    /\ Len(za.entries) < MaxEntries
    /\ \A e \in ToSet(za.entries) : Shown(Effective(e).name) # Shown(a.name)
    /\ za' = [za EXCEPT !.entries =
                Append(@, [orig |-> NULL, source |-> a,
                           changes |-> [DirentInit EXCEPT !.name = a.name, !.comment = a.comment,
                                                          !.method = a.method, !.encr = a.encr,
                                                          !.changed = {"name"}]])]
    /\ wanted' = [wanted EXCEPT !.entries = Append(@, [name |-> a.name, comment |-> a.comment, time |-> DosTime(a.time),
                                 local |-> <<>>, central |-> <<>>, size |-> a.content.size,
                                 data |-> Packed(a, PackedSize(a))])]
    /\ edits' = edits + 1
    /\ UNCHANGED <<disk, stored, last, damage, closes>>

\* zip_set_archive_comment; to set the comment the archive was opened with is no
\* change.
SetArchiveComment(c) ==
    /\ Editing
    /\ c # za.comment
    /\ za' = [za EXCEPT !.comment = c, !.commentChanged = c # za.commentOrig]
    /\ wanted' = [wanted EXCEPT !.comment = c]
    /\ edits' = edits + 1
    /\ UNCHANGED <<disk, stored, last, damage, closes>>

\* ----------------------------------------------------------------- writing --

\* Part of add_data: what is known of the data when the first header is
\* written, and whether it is written as Zip64 whatever comes.
Preliminary(de, a) ==
    LET known == a.known
        stored0 == a.method = "store"
        force == ~known \/ (~stored0 /\ MaxDeflated(a.content.size) > MaxWord)
        de1 == [de EXCEPT !.bits = (@ \ {"descriptor"}) \cup IF a.encr = "pkware" THEN {"descriptor"} ELSE {},
                          !.uncomp = IF known THEN a.content.size ELSE @,
                          !.comp = IF known /\ stored0 THEN a.content.size ELSE @,
                          !.time = IF "time" \in de.changed THEN @ ELSE DosTime(a.time)]
    IN  [de |-> ApplyAttributes(de1, force), force |-> force]

\* What is known after the data has been copied.
Final(p, a) ==
    ApplyAttributes([p.de EXCEPT !.method = Actual(a.method), !.crc = Crc(a),
                                 !.uncomp = a.content.size, !.comp = PackedSize(a)], p.force)

\* add_data: a header, the data, the header again if it changed, a descriptor.
AddData(out, de, a) ==
    LET descriptor(file, final, wide) ==
            IF "descriptor" \in final.bits
            THEN Put(file, file.size, Descriptor(final, wide), DescriptorSize(wide)) ELSE file
        finish(file, p, final) ==
            LET wide == IsZip64(p.de, TRUE, p.force)
                again(h) == Put(file, out.size, h, HeaderSize(h))
            IN  IF final = p.de
                THEN [err |-> "OK", file |-> descriptor(file, final, wide), de |-> WithBits(final)]
                ELSE IF IsZip64(final, TRUE, p.force) # wide
                     THEN [err |-> "INTERNAL", de |-> WithBits(final)]
                ELSE [err |-> "OK", de |-> WithBits(final),
                      file |-> descriptor(again(Header(final, TRUE, p.force)), final, wide)]
        copy(p, h) ==
            IF TooLarge(h.ef) THEN [err |-> "EF_TOO_LARGE", de |-> WithBits(p.de)]
            ELSE finish(Paste(Put(out, out.size, h, HeaderSize(h)), out.size + HeaderSize(h),
                              Packed(a, PackedSize(a))), p, Final(p, a))
        start(p) == copy(p, Header(p.de, TRUE, p.force))
    IN  start(Preliminary(de, a))

\* The other branch of zip_close: the data is copied from the old file as it is.
CopyRaw(out, de, orig) ==
    LET old == orig.offset + HeaderSize(At(disk, orig.offset))
        descriptor(file, de1, wide) ==
            IF "descriptor" \in de1.bits
            THEN Put(file, file.size, Descriptor(de1, wide), DescriptorSize(wide)) ELSE file
        copy(h, de1) ==
            IF TooLarge(h.ef) THEN [err |-> "EF_TOO_LARGE", de |-> WithBits(de1)]
            ELSE [err |-> "OK", de |-> WithBits(de1),
                  file |-> descriptor(Paste(Put(out, out.size, h, HeaderSize(h)),
                                            out.size + HeaderSize(h), Slice(disk, old, de1.comp)),
                                      de1, NeedsZip64(de1, FALSE))]
        start(de1) == copy(Header(de1, TRUE, FALSE), de1)
    IN  start([de EXCEPT !.bits = IF de.encr = "pkware" THEN @ ELSE @ \ {"descriptor"}])

\* The loop of zip_close over the entries, from the i-th on.
RECURSIVE WriteEntries(_, _, _)
WriteEntries(out, entries, i) ==
    LET write(e) ==
            LET de == [e.changes EXCEPT !.offset = out.size]
            IN  [e |-> e, r |-> IF e.source # NULL THEN AddData(out, de, e.source)
                                ELSE CopyRaw(out, de, e.orig)]
        \* the entry keeps what was set in it, also when the close fails
        with(w) == [entries EXCEPT ![i] = [w.e EXCEPT !.changes = w.r.de]]
        after(w) == IF w.r.err # "OK" THEN [err |-> w.r.err, entries |-> with(w)]
                    ELSE WriteEntries(w.r.file, with(w), i + 1)
    IN  IF i > Len(entries) THEN [err |-> "OK", file |-> out, entries |-> entries]
        ELSE after(write(WithLocal(Cloned(Merged(entries[i])))))

HasChanges ==
    \/ za.commentChanged
    \/ \E e \in ToSet(za.entries) : e.source # NULL \/ (e.changes # NULL /\ e.changes.changed # {})

\* zip_close.  Without changes nothing is written, without entries the file is
\* removed; a failure leaves the archive open and the file alone.
Nothing == [entries |-> <<>>, comment |-> EmptyFile]

Closed(r) ==
    LET des == [i \in DOMAIN r.entries |-> r.entries[i].changes]
        tooLarge == \E de \in ToSet(des) : TooLarge(Header(de, FALSE, FALSE).ef)
        err == IF r.err = "OK" /\ tooLarge THEN "EF_TOO_LARGE" ELSE r.err
    IN  /\ last' = [op |-> "close", err |-> err, check |-> FALSE]
        /\ IF err = "OK"
           THEN /\ disk' = CdirWrite(r.file, des, za.comment)
                /\ stored' = wanted
                /\ za' = NULL
           ELSE /\ za' = [za EXCEPT !.entries = r.entries]
                /\ UNCHANGED <<disk, stored>>

Close ==
    /\ za # NULL
    /\ closes < MaxCloses
    /\ closes' = closes + 1
    /\ IF HasChanges /\ za.entries # <<>>
       THEN Closed(WriteEntries(EmptyFile, za.entries, 1))
       ELSE /\ last' = [op |-> "close", err |-> "OK", check |-> FALSE]
            /\ za' = NULL
            /\ IF HasChanges THEN disk' = EmptyFile /\ stored' = Nothing
               ELSE UNCHANGED <<disk, stored>>
    /\ wanted' = IF za' = NULL THEN stored' ELSE wanted
    /\ UNCHANGED <<damage, edits>>

\* zip_discard
Discard ==
    /\ za # NULL
    /\ za' = NULL
    /\ wanted' = stored
    /\ last' = NoCall
    /\ UNCHANGED <<disk, stored, damage, edits, closes>>

\* zip_open, with and without ZIP_CHECKCONS.
Opened(r, check) ==
    /\ last' = [op |-> "open", err |-> r.err, check |-> check]
    /\ za' = IF r.err # "OK" THEN NULL
             ELSE [entries |-> [i \in DOMAIN r.entries |->
                                  [orig |-> r.entries[i], changes |-> NULL, source |-> NULL]],
                   comment |-> r.comment, commentOrig |-> r.comment, commentChanged |-> FALSE]

Open(check) ==
    /\ za = NULL
    /\ Opened(OpenFile(disk, check), check)
    /\ UNCHANGED <<disk, wanted, stored, damage, edits, closes>>

\* ------------------------------------------------------------------ damage --

Sound == za = NULL /\ disk.size > 0 /\ damage = "none" /\ OpenFile(disk, TRUE).err = "OK"

Damage(file, what) ==
    /\ Sound
    /\ disk' = file
    /\ damage' = what
    /\ last' = NoCall
    /\ UNCHANGED <<za, wanted, stored, edits, closes>>

ArchiveEnd == disk.size - stored.comment.size

\* The file loses its end; what is lost may be only of the archive's comment.
Cut(n) ==
    /\ n < disk.size
    /\ Damage([size |-> n, at |-> [p \in {q \in DOMAIN disk.at : q < n} |-> disk.at[p]]],
              IF n < ArchiveEnd THEN "cut" ELSE "comment cut")

\* Other data is put before the archive.
Prefix(n) ==
    Damage(Paste([size |-> n, at |-> <<>>], n, disk), "moved")

\* A number that is in the file twice is changed in one place.
Twice(pos, rec) ==
    CASE rec.magic = "LOCAL"   -> {"method", "time", "crc", "comp", "uncomp"}
      [] rec.magic = "CENTRAL" -> {"method", "time", "crc", "comp", "uncomp", "offset"}
      [] rec.magic = "EOCD" /\ pos + EOCDLEN = ArchiveEnd -> {"entries", "diskEntries", "size", "offset"}
      [] rec.magic = "EOCD64"  -> {"entries", "diskEntries", "size", "offset"}
      [] OTHER                 -> {}

Changed(pos, field) ==
    /\ field \in Twice(pos, disk.at[pos])
    /\ Damage([disk EXCEPT !.at[pos][field] = IF field = "method" THEN "bzip2" ELSE IF @ = 0 THEN 1 ELSE @ - 1],
              "changed")

CutPoints == {p + d : p \in DOMAIN disk.at, d \in {0, MAGIC_LEN, LENTRYSIZE} } \ {0}

Init ==
    /\ disk = EmptyFile
    /\ za = NULL
    /\ wanted = Nothing
    /\ stored = Nothing
    /\ last = NoCall
    /\ damage = "none"
    /\ edits = 0
    /\ closes = 0

Next ==
    \/ \E check \in BOOLEAN : Open(check)
    \/ \E a \in Additions : Add(a)
    \/ \E c \in Comments : SetArchiveComment(c)
    \/ za # NULL /\ \E i \in DOMAIN za.entries :
         \/ \E f \in Fields, idx \in {0, NewField}, sides \in SUBSET Sides \ {{}} :
              ExtraFieldSet(i, f, idx, sides)
         \/ \E id \in {f.id : f \in Fields} \cup {AnyField}, idx \in {0, AnyField},
                sides \in SUBSET Sides \ {{}} :
              ExtraFieldDelete(i, id, idx, sides)
         \/ ExtraFieldGet(i)
         \/ \E t \in Times : SetTime(i, t)
    \/ Close
    \/ Discard
    \/ \E n \in CutPoints : Cut(n)
    \/ \E n \in PrefixSizes : Prefix(n)
    \/ \E pos \in DOMAIN disk.at, field \in Numbers : Changed(pos, field)

Spec == Init /\ [][Next]_vars

\* -------------------------------------------------------------- properties --

\* Two faults of the code, which other properties leave out.  An entry whose
\* size or offset is exactly the largest 32-bit value gets an empty Zip64 field:
EmptyZip64(rec) ==
    rec.magic \in {"LOCAL", "CENTRAL"}
    /\ \E f \in ToSet(rec.ef) : f.id = EfZip64 /\ f.data = <<>>
\* and a data descriptor is as wide as its entry asks for, but read as the archive is.
OddDescriptor(file) ==
    \E p \in DOMAIN file.at :
        At(file, p).magic = "DATADES"
        /\ At(file, p).wide # (\E q \in DOMAIN file.at : At(file, q).magic = "EOCD64")

\* What zip_close wrote can be opened, with ZIP_CHECKCONS too.
OwnArchivesOpen ==
    /\ last.op = "open" /\ damage = "none"
    /\ ~ \E p \in DOMAIN disk.at : EmptyZip64(disk.at[p])
    /\ last.check => ~OddDescriptor(disk)
    => last.err = "OK"

\* A string declared to be CP437 that could be UTF-8 is taken for UTF-8 later.
SameString(s, t) ==
    /\ Shown(s).text = Shown(t).text
    /\ ~(t.enc = "cp437" /\ t.raw.kind = "utf8") => Shown(s) = Shown(t)

\* The data of an entry, where its local header says that it begins.
StoredData(de) == Slice(disk, de.offset + HeaderSize(At(disk, de.offset)), de.comp)

\* The entries of an open archive are what the calls asked for, in this session
\* and in those before it: names, comments, times, both lists of extra fields,
\* also of entries whose local header was never read, sizes and data.
ArchiveIsAsEdited ==
    za # NULL /\ damage = "none" =>
        /\ Len(za.entries) = Len(wanted.entries)
        /\ za.comment = wanted.comment
        /\ \A i \in DOMAIN za.entries :
             LET e  == za.entries[i]
                 de == Effective(WithLocal(e))
                 w  == wanted.entries[i]
             IN  /\ SameString(de.name, w.name) /\ SameString(de.comment, w.comment)
                 /\ de.local = w.local /\ de.central = w.central
                 /\ e.source = NULL => /\ de.time = w.time /\ de.uncomp = w.size
                                       /\ StoredData(e.orig) = w.data

\* A file that lacks the end of the archive, or has it at another place, is not
\* opened, whatever else in it looks like an archive: an archive stored in it,
\* or an end record in its comment.
PiecesAreRefused ==
    last.op = "open" /\ damage \in {"cut", "moved"} => last.err # "OK"

\* ZIP_CHECKCONS notices that a number was changed that is in the file twice,
\* and a comment that lost its end.
DamageIsDetected ==
    last.op = "open" /\ last.check /\ damage \in {"changed", "comment cut"} => last.err # "OK"

=============================================================================
