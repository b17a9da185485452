-------------------------- MODULE ZipArchiveProofs --------------------------
(***************************************************************************)
(* Proofs about ZipArchive.  For every program: type correctness, that the *)
(* table never leads to another name, and, of what zip_close makes of an   *)
(* archive, that the file holds what the program saw and that a torrentzip *)
(* archive is in normal form.  For a careful program, which gives no       *)
(* method to a deleted entry, also that the table leads to every name,     *)
(* that no name is written twice, and that the archive object implements   *)
(* ArchiveStore.                                                           *)
(***************************************************************************)
EXTENDS ZipArchive, FiniteSetTheorems, WellFoundedInduction, TLAPS

(***************************************************************************)
(* Entries.  Key is the name under which an entry can be found, OrigKey    *)
(* the one under which it was stored; Empty stands for none.               *)
(***************************************************************************)

Key(e) == IF HasDirent(e) THEN NameOf(e) ELSE Empty

OrigKey(e) == IF e.orig = NULL THEN Empty ELSE e.orig.filename

\* A changed directory entry has its original name unless it is marked as renamed,
\* and one of a deleted entry, which a method has given it, stays changed.
Sound(e) ==
    /\ e.deleted /\ e.changes # NULL => "OTHER" \in e.changes.changed
    /\ e.changes # NULL /\ "FILENAME" \notin e.changes.changed =>
         e.changes.filename = OrigKey(e)

\* A careful program also has no deleted entry with a changed directory entry.
EntryOK(e) == Sound(e) /\ (e.deleted => e.changes = NULL)

\* r is what a call that does not touch names makes of e.
Alike(e, r) ==
    /\ r \in Entry /\ Sound(r) /\ (EntryOK(e) => EntryOK(r))
    /\ r.orig = e.orig /\ Key(r) = Key(e)

USE NullAssumption

\* The attribute words that libzip itself sets.
LEMMA AttrsType == {DefaultAttr, DirAttr, ZeroAttr} \subseteq AllAttrs
BY DEF AllAttrs

\* _zip_dirent_clone gives a directory entry with the original's name and
\* no change marked.
LEMMA CloneType ==
    ASSUME NEW o \in File \cup {NULL}
    PROVE  /\ Clone(o) \in Dirent
           /\ Clone(o).filename = IF o = NULL THEN Empty ELSE o.filename
           /\ Clone(o).changed = {}
BY AttrsType DEF Clone, File, Dirent, AllNames, MaybeComment

\* The directory entry an operation modifies has the entry's name.
LEMMA ChangesOfType ==
    ASSUME NEW e \in Entry
    PROVE  /\ ChangesOf(e) \in Dirent
           /\ HasDirent(e) => ChangesOf(e).filename = Key(e)
           /\ ChangesOf(e).filename =
                IF e.changes # NULL THEN e.changes.filename ELSE OrigKey(e)
           /\ Sound(e) /\ "FILENAME" \notin ChangesOf(e).changed =>
                ChangesOf(e).filename = OrigKey(e)
<1>1. e.orig \in File \cup {NULL} /\ e.changes \in Dirent \cup {NULL}
  BY DEF Entry
<1>2. QED
  BY <1>1, CloneType DEF ChangesOf, HasDirent, Key, NameOf, OrigKey, Sound

\* Setting a field marks or unmarks that field and keeps the name.
LEMMA SetFieldType ==
    ASSUME NEW c \in Dirent, NEW f \in Fields, NEW differs \in BOOLEAN
    PROVE  /\ SetField(c, f, differs) \in Dirent
           /\ SetField(c, f, differs).filename = c.filename
           /\ SetField(c, f, differs).changed =
                IF differs THEN c.changed \cup {f} ELSE c.changed \ {f}
BY DEF SetField, Dirent

\* New data (_zip_file_replace) leaves an entry under its name.
LEMMA ReplacedKeeps ==
    ASSUME NEW e \in Entry, Sound(e), HasDirent(e), NEW d \in Contents
    PROVE  Alike(e, Replaced(e, d))
<1> DEFINE c == SetField(ChangesOf(e), "OTHER", TRUE)
           r == Replaced(e, d)
<1>1. c \in Dirent /\ c.filename = Key(e) /\ c.changed = ChangesOf(e).changed \cup {"OTHER"}
  BY ChangesOfType, SetFieldType DEF Fields
<1>2. /\ r \in Entry /\ r.orig = e.orig /\ r.changes = c /\ r.deleted = FALSE
  BY <1>1 DEF Replaced, Entry
<1>3. c # NULL
  BY <1>1
<1>4. Key(r) = Key(e)
  BY <1>1, <1>2, <1>3 DEF Key, HasDirent, NameOf
<1>5. "FILENAME" \notin c.changed => c.filename = OrigKey(r)
  BY <1>1, <1>2, ChangesOfType DEF OrigKey
<1>6. QED
  BY <1>1, <1>2, <1>4, <1>5 DEF Alike, EntryOK, Sound

\* Only a directory entry without changes is freed.
LEMMA DropType ==
    ASSUME NEW c \in Dirent
    PROVE  /\ DropIfUnchanged(c) \in Dirent \cup {NULL}
           /\ DropIfUnchanged(c) = IF c.changed = {} THEN NULL ELSE c
BY DEF DropIfUnchanged

\* Renaming gives an entry that has a directory entry its new name.
LEMMA RenamedType ==
    ASSUME NEW e \in Entry, Sound(e), NEW n \in AllNames,
           HasDirent(e) \/ (e.orig = NULL /\ ~e.deleted)
    PROVE  /\ Renamed(e, n) \in Entry
           /\ Sound(Renamed(e, n)) /\ (EntryOK(e) => EntryOK(Renamed(e, n)))
           /\ Renamed(e, n).orig = e.orig
           /\ HasDirent(Renamed(e, n))
           /\ Key(Renamed(e, n)) = n
<1> DEFINE r == Renamed(e, n)
<1>0. e.orig \in File \cup {NULL} /\ e.changes \in Dirent \cup {NULL}
  BY DEF Entry
<1>1. CASE e.orig = NULL \/ e.orig.filename # n
  <2> DEFINE c == SetField(ChangesOf(e), "FILENAME", TRUE)
             c2 == [c EXCEPT !.filename = n]
  <2>1. c \in Dirent /\ c.changed = ChangesOf(e).changed \cup {"FILENAME"}
    BY ChangesOfType, SetFieldType DEF Fields
  <2>2. c2 \in Dirent /\ c2.filename = n /\ c2.changed = c.changed
    BY <2>1 DEF Dirent
  <2>3. r = [e EXCEPT !.changes = c2]
    BY <1>1 DEF Renamed
  <2>4. r \in Entry /\ r.orig = e.orig /\ r.changes = c2 /\ r.deleted = e.deleted /\ c2 # NULL
    BY <2>2, <2>3 DEF Entry
  <2>5. e.deleted => "OTHER" \in c.changed
    BY <2>1 DEF Sound, HasDirent, ChangesOf
  <2>6. HasDirent(r) /\ Key(r) = n
    BY <2>2, <2>4 DEF HasDirent, Key, NameOf
  <2>7. Sound(r)
    BY <2>1, <2>2, <2>4, <2>5 DEF Sound
  <2>8. EntryOK(e) => EntryOK(r)
    BY <2>4, <2>7 DEF EntryOK, HasDirent
  <2>9. QED
    BY <2>4, <2>6, <2>7, <2>8
<1>2. CASE /\ ~(e.orig = NULL \/ e.orig.filename # n)
           /\ FieldChanged(e, "FILENAME")
  <2> DEFINE c == SetField(e.changes, "FILENAME", FALSE)
             c2 == [c EXCEPT !.filename = n]
  <2>1. e.changes \in Dirent
    BY <1>0, <1>2 DEF FieldChanged
  <2>2. c \in Dirent /\ c.changed = e.changes.changed \ {"FILENAME"}
    BY <2>1, SetFieldType DEF Fields
  <2>3. c2 \in Dirent /\ c2.filename = n /\ c2.changed = c.changed
    BY <2>2 DEF Dirent
  <2>4. r = [e EXCEPT !.changes = DropIfUnchanged(c2)]
    BY <1>2 DEF Renamed
  <2>5. /\ r \in Entry /\ r.orig = e.orig /\ r.deleted = e.deleted
        /\ r.changes = IF c2.changed = {} THEN NULL ELSE c2
    BY <2>3, <2>4, DropType DEF Entry
  <2>6. e.deleted => "OTHER" \in c2.changed
    BY <1>2, <2>2, <2>3 DEF Sound, FieldChanged
  <2>7. HasDirent(r) /\ Key(r) = n
    BY <1>2, <2>3, <2>5, <2>6 DEF HasDirent, Key, NameOf
  <2>8. Sound(r)
    BY <1>2, <2>3, <2>5, <2>6 DEF Sound, OrigKey
  <2>9. EntryOK(e) => EntryOK(r)
    BY <1>2, <2>5, <2>8 DEF EntryOK, FieldChanged
  <2>10. QED
    BY <2>5, <2>7, <2>8, <2>9
<1>3. CASE /\ ~(e.orig = NULL \/ e.orig.filename # n)
           /\ ~FieldChanged(e, "FILENAME")
  <2>1. r = e /\ e.orig # NULL
    BY <1>3 DEF Renamed
  <2>2. HasDirent(e) /\ Key(e) = n
    BY <1>0, <1>3, <2>1 DEF FieldChanged, Sound, OrigKey, HasDirent, Key, NameOf
  <2>3. QED
    BY <2>1, <2>2
<1>4. QED
  BY <1>1, <1>2, <1>3

\* One field of a directory entry other than the name: set it, or take the
\* change of it back and drop a directory entry without changes.
LEMMA FieldKeeps ==
    ASSUME NEW e \in Entry, Sound(e), HasDirent(e) \/ ~e.deleted,
           NEW f \in Fields \ {"FILENAME"},
           NEW c \in Dirent,
           c.filename = ChangesOf(e).filename,
           \/ c.changed = ChangesOf(e).changed \cup {f}
           \/ e.changes # NULL /\ f # "OTHER" /\ c.changed = e.changes.changed \ {f}
    PROVE  /\ c.changed # {} => Alike(e, [e EXCEPT !.changes = c])
           /\ e.changes # NULL => Alike(e, [e EXCEPT !.changes = DropIfUnchanged(c)])
<1> DEFINE r == [e EXCEPT !.changes = c]
           d == [e EXCEPT !.changes = NULL]
<1>1. c # NULL /\ c.filename = Key(e)
  BY ChangesOfType DEF HasDirent, Key, OrigKey
<1>2. /\ r \in Entry /\ r.orig = e.orig /\ r.changes = c /\ r.deleted = e.deleted
      /\ d \in Entry /\ d.orig = e.orig /\ d.changes = NULL /\ d.deleted = e.deleted
  BY DEF Entry
<1>3. "FILENAME" \in c.changed <=> "FILENAME" \in ChangesOf(e).changed
  BY DEF ChangesOf
<1>4. Key(r) = Key(e)
  BY <1>1, <1>2 DEF Key, HasDirent, NameOf
<1>5. e.deleted => e.changes # NULL /\ "OTHER" \in c.changed
  BY DEF Sound, HasDirent, ChangesOf
<1>6. Sound(r)
  BY <1>1, <1>2, <1>3, <1>5, ChangesOfType DEF Sound, OrigKey
<1>7. EntryOK(e) => EntryOK(r)
  BY <1>2, <1>5, <1>6 DEF EntryOK
<1>8. ASSUME e.changes # NULL, c.changed = {}
      PROVE  Key(e) = OrigKey(e)
  <2>1. "FILENAME" \notin ChangesOf(e).changed
    BY <1>3, <1>8
  <2>2. QED
    BY <2>1, <1>1, ChangesOfType
<1>9. c.changed = {} => Key(d) = OrigKey(e) /\ EntryOK(d)
  BY <1>2, <1>5 DEF Key, OrigKey, HasDirent, NameOf, EntryOK, Sound
<1>10. Alike(e, r)
  BY <1>2, <1>4, <1>6, <1>7 DEF Alike
<1>11. ASSUME e.changes # NULL
       PROVE  Alike(e, [e EXCEPT !.changes = DropIfUnchanged(c)])
  <2>1. CASE c.changed = {}
    BY <1>2, <1>8, <1>9, <1>11, <2>1, DropType DEF Alike, EntryOK
  <2>2. CASE c.changed # {}
    BY <1>10, <2>2, DropType
  <2>3. QED
    BY <2>1, <2>2
<1>12. QED
  BY <1>10, <1>11

\* Marking a method, the time or extra fields leaves an entry under its name, and
\* a deleted one with a directory entry that stays changed.
LEMMA MarkedKeeps ==
    ASSUME NEW e \in Entry, Sound(e)
    PROVE  LET r == Marked(e)
           IN /\ HasDirent(e) \/ ~e.deleted => Alike(e, r)
              /\ r \in Entry /\ Sound(r) /\ r.orig = e.orig
<1> DEFINE c == SetField(ChangesOf(e), "OTHER", TRUE)
           r == Marked(e)
<1>1. /\ c \in Dirent /\ c.filename = ChangesOf(e).filename
      /\ c.changed = ChangesOf(e).changed \cup {"OTHER"} /\ c.changed # {}
  <2> DEFINE d == ChangesOf(e)
  <2>1. d \in Dirent /\ "OTHER" \in Fields
    BY ChangesOfType DEF Fields
  <2> HIDE DEF d
  <2>2. /\ SetField(d, "OTHER", TRUE) \in Dirent
        /\ SetField(d, "OTHER", TRUE).filename = d.filename
        /\ SetField(d, "OTHER", TRUE).changed = d.changed \cup {"OTHER"}
    BY <2>1, SetFieldType
  <2>3. QED
    BY <2>2 DEF d
<1>2. r = [e EXCEPT !.changes = c] /\ "OTHER" \in Fields \ {"FILENAME"}
  BY DEF Marked, Fields
<1> HIDE DEF c, r
<1>3. HasDirent(e) \/ ~e.deleted => Alike(e, r)
  BY <1>1, <1>2, FieldKeeps
<1>4. r \in Entry /\ r.orig = e.orig /\ r.changes = c
  BY <1>1, <1>2 DEF Entry
<1>5. Sound(r)
  BY <1>1, <1>4, ChangesOfType DEF Sound, OrigKey
<1>6. QED
  BY <1>3, <1>4, <1>5 DEF r

\* zip_file_set_comment leaves an entry under its name.
LEMMA CommentedKeeps ==
    ASSUME NEW e \in Entry, Sound(e), HasDirent(e), NEW c \in MaybeComment
    PROVE  Alike(e, Commented(e, c))
<1> DEFINE orig == IF e.orig = NULL THEN NULL ELSE e.orig.comment
           s == SetField(ChangesOf(e), "COMMENT", TRUE)
           s2 == [s EXCEPT !.comment = c]
           t == SetField(e.changes, "COMMENT", FALSE)
           t2 == [t EXCEPT !.comment = orig]
<1>1. orig \in MaybeComment
  BY DEF Entry, File, MaybeComment
<1>2. CASE c # orig
  <2>1. s \in Dirent /\ s.filename = ChangesOf(e).filename
        /\ s.changed = ChangesOf(e).changed \cup {"COMMENT"}
    BY ChangesOfType, SetFieldType DEF Fields
  <2>2. s2 \in Dirent /\ s2.filename = s.filename /\ s2.changed = s.changed
    BY <2>1 DEF Dirent
  <2>3. Commented(e, c) = [e EXCEPT !.changes = s2]
    BY <1>2 DEF Commented
  <2>4. "COMMENT" \in Fields \ {"FILENAME"}
    BY DEF Fields
  <2>5. s2 \in Dirent /\ s2.filename = ChangesOf(e).filename
        /\ s2.changed = ChangesOf(e).changed \cup {"COMMENT"} /\ s2.changed # {}
    BY <2>1, <2>2
  <2> HIDE DEF s2
  <2>6. Alike(e, [e EXCEPT !.changes = s2])
    BY <2>4, <2>5, FieldKeeps
  <2>7. QED
    BY <2>3, <2>6
<1>3. CASE c = orig /\ e.changes # NULL
  <2>0. e.changes \in Dirent /\ ChangesOf(e) = e.changes
    BY <1>3 DEF Entry, ChangesOf
  <2>1. t \in Dirent /\ t.filename = ChangesOf(e).filename
        /\ t.changed = e.changes.changed \ {"COMMENT"}
    BY <2>0, SetFieldType DEF Fields
  <2>2. t2 \in Dirent /\ t2.filename = t.filename /\ t2.changed = t.changed
    BY <1>1, <2>1 DEF Dirent
  <2>3. Commented(e, c) = [e EXCEPT !.changes = DropIfUnchanged(t2)]
    BY <1>3 DEF Commented
  <2>4. "COMMENT" \in Fields \ {"FILENAME"}
    BY DEF Fields
  <2>5. t2 \in Dirent /\ t2.filename = ChangesOf(e).filename
        /\ t2.changed = e.changes.changed \ {"COMMENT"}
    BY <2>1, <2>2
  <2> HIDE DEF t2
  <2>6. Alike(e, [e EXCEPT !.changes = DropIfUnchanged(t2)])
    BY <1>3, <2>4, <2>5, FieldKeeps
  <2>7. QED
    BY <2>3, <2>6
<1>4. CASE c = orig /\ e.changes = NULL
  BY <1>4 DEF Commented, Alike
<1>5. QED
  BY <1>2, <1>3, <1>4

\* zip_file_set_external_attributes leaves an entry under its name.
LEMMA WithAttributesKeeps ==
    ASSUME NEW e \in Entry, Sound(e), HasDirent(e), NEW a \in AllAttrs
    PROVE  Alike(e, WithAttributes(e, a))
<1> DEFINE orig == IF e.orig = NULL THEN DefaultAttr ELSE e.orig.attr
           s == SetField(ChangesOf(e), "ATTRIBUTES", TRUE)
           s2 == [s EXCEPT !.attr = a]
           t == SetField(e.changes, "ATTRIBUTES", FALSE)
           t2 == [t EXCEPT !.attr = orig]
<1>1. orig \in AllAttrs
  BY AttrsType DEF Entry, File
<1>2. CASE a # orig
  <2>1. s \in Dirent /\ s.filename = ChangesOf(e).filename
        /\ s.changed = ChangesOf(e).changed \cup {"ATTRIBUTES"}
    BY ChangesOfType, SetFieldType DEF Fields
  <2>2. s2 \in Dirent /\ s2.filename = s.filename /\ s2.changed = s.changed
    BY <2>1 DEF Dirent
  <2>3. WithAttributes(e, a) = [e EXCEPT !.changes = s2]
    BY <1>2 DEF WithAttributes
  <2>4. "ATTRIBUTES" \in Fields \ {"FILENAME"}
    BY DEF Fields
  <2>5. s2 \in Dirent /\ s2.filename = ChangesOf(e).filename
        /\ s2.changed = ChangesOf(e).changed \cup {"ATTRIBUTES"} /\ s2.changed # {}
    BY <2>1, <2>2
  <2> HIDE DEF s2
  <2>6. Alike(e, [e EXCEPT !.changes = s2])
    BY <2>4, <2>5, FieldKeeps
  <2>7. QED
    BY <2>3, <2>6
<1>3. CASE a = orig /\ e.changes # NULL
  <2>0. e.changes \in Dirent /\ ChangesOf(e) = e.changes
    BY <1>3 DEF Entry, ChangesOf
  <2>1. t \in Dirent /\ t.filename = ChangesOf(e).filename
        /\ t.changed = e.changes.changed \ {"ATTRIBUTES"}
    BY <2>0, SetFieldType DEF Fields
  <2>2. t2 \in Dirent /\ t2.filename = t.filename /\ t2.changed = t.changed
    BY <1>1, <2>1 DEF Dirent
  <2>3. WithAttributes(e, a) = [e EXCEPT !.changes = DropIfUnchanged(t2)]
    BY <1>3 DEF WithAttributes
  <2>4. "ATTRIBUTES" \in Fields \ {"FILENAME"}
    BY DEF Fields
  <2>5. t2 \in Dirent /\ t2.filename = ChangesOf(e).filename
        /\ t2.changed = e.changes.changed \ {"ATTRIBUTES"}
    BY <2>1, <2>2
  <2> HIDE DEF t2
  <2>6. Alike(e, [e EXCEPT !.changes = DropIfUnchanged(t2)])
    BY <1>3, <2>4, <2>5, FieldKeeps
  <2>7. QED
    BY <2>3, <2>6
<1>4. CASE a = orig /\ e.changes = NULL
  BY <1>4 DEF WithAttributes, Alike
<1>5. QED
  BY <1>2, <1>3, <1>4

\* zip_unchange leaves what was stored.
LEMMA UnchangedType ==
    ASSUME NEW e \in Entry
    PROVE  LET u == Unchanged(e)
               v == [u EXCEPT !.deleted = TRUE]
           IN /\ u \in Entry /\ EntryOK(u) /\ u.orig = e.orig /\ Key(u) = OrigKey(e)
              /\ v \in Entry /\ EntryOK(v) /\ v.orig = e.orig /\ Key(v) = Empty
BY DEF Unchanged, NewEntry, Entry, EntryOK, Sound, Key, OrigKey, HasDirent, NameOf

\* A new entry (_zip_add_entry) has no directory entry and no original.
LEMMA NewEntryType ==
    /\ NewEntry \in Entry
    /\ EntryOK(NewEntry)
    /\ NewEntry.orig = NULL
    /\ ~NewEntry.deleted
    /\ ~HasDirent(NewEntry)
BY DEF NewEntry, Entry, EntryOK, Sound, HasDirent

\* What zip_close does to an entry before it writes it leaves its name alone.
LEMMA PreparedKeeps ==
    ASSUME NEW e \in Entry, Sound(e), ~e.deleted
    PROVE  Alike(e, Prepared(e))
<1> DEFINE c == ChangesOf(e)
           m == IF e.orig = NULL THEN c
                ELSE [c EXCEPT
                  !.filename = IF "FILENAME" \in c.changed THEN @ ELSE e.orig.filename,
                  !.comment = IF "COMMENT" \in c.changed THEN @ ELSE e.orig.comment,
                  !.attr = IF "ATTRIBUTES" \in c.changed THEN @ ELSE e.orig.attr]
           w == IF WantTorrentzip THEN [m EXCEPT !.attr = ZeroAttr] ELSE m
           r == Prepared(e)
<1>1. c \in Dirent /\ e.orig \in File \cup {NULL}
  BY ChangesOfType DEF Entry
<1>2. m \in Dirent /\ m.changed = c.changed
      /\ m.filename = IF e.orig # NULL /\ "FILENAME" \notin c.changed
                        THEN e.orig.filename ELSE c.filename
  BY <1>1 DEF Dirent, File
<1>3. w \in Dirent /\ w.changed = c.changed /\ w.filename = m.filename
  BY <1>2, AttrsType DEF Dirent
<1>4. r = [e EXCEPT !.changes = w]
  BY DEF Prepared
<1>5. r \in Entry /\ r.orig = e.orig /\ r.changes = w /\ ~r.deleted /\ w # NULL
  BY <1>3, <1>4 DEF Entry
<1>6. w.filename = c.filename
  BY <1>2, <1>3, ChangesOfType DEF OrigKey
<1>7. Key(e) = c.filename
  BY <1>1, ChangesOfType DEF HasDirent, Key, NameOf, OrigKey
<1>8. Key(r) = Key(e)
  BY <1>5, <1>6, <1>7 DEF Key, HasDirent, NameOf
<1>9. Sound(r) /\ EntryOK(r)
  BY <1>3, <1>5, <1>6, ChangesOfType DEF EntryOK, Sound, OrigKey
<1>10. QED
  BY <1>5, <1>8, <1>9 DEF Alike

\* What is written of an entry is a file under the entry's name.
LEMMA WrittenType ==
    ASSUME NEW e \in Entry, ~e.deleted, CanBeWritten(e)
    PROVE  Written(e) \in File /\ Written(e).filename = Key(e)
<1>1. ChangesOf(e) \in Dirent /\ e.orig \in File \cup {NULL}
      /\ e.source \in Contents \cup {NULL}
  BY ChangesOfType DEF Entry
<1>2. ChangesOf(e).filename = Key(e)
  BY <1>1, ChangesOfType DEF HasDirent, Key, NameOf, OrigKey
<1>3. (IF e.source # NULL THEN e.source ELSE e.orig.data) \in Contents
  BY <1>1 DEF CanBeWritten, File
<1>4. QED
  BY <1>1, <1>2, <1>3 DEF Written, File, Dirent, MaybeComment

(***************************************************************************)
(* The name table.                                                         *)
(***************************************************************************)

TableType(S) == [AllNames -> [orig_index: S, current_index: S]]

\* A table whose indices are in range stays one when entries are added.
LEMMA TableTypeGrows ==
    ASSUME NEW S, NEW T, S \subseteq T
    PROVE  TableType(S) \subseteq TableType(T)
BY DEF TableType

\* _zip_hash_add sets the current index of one name.
LEMMA HashAddType ==
    ASSUME NEW S, NEW h \in TableType(S), NEW n \in AllNames, NEW i \in S
    PROVE  /\ HashAdd(h, n, i) \in TableType(S)
           /\ \A m \in AllNames :
                /\ HashAdd(h, n, i)[m].orig_index = h[m].orig_index
                /\ HashAdd(h, n, i)[m].current_index =
                     IF m = n THEN i ELSE h[m].current_index
BY DEF HashAdd, TableType

\* _zip_hash_delete takes the current index from one name; the original
\* indices stay.
LEMMA HashDeleteType ==
    ASSUME NEW S, NoIndex \in S, NEW h \in TableType(S), NEW n \in AllNames
    PROVE  /\ HashDelete(h, n) \in TableType(S)
           /\ \A m \in AllNames :
                /\ HashDelete(h, n)[m].orig_index = h[m].orig_index
                /\ HashDelete(h, n)[m].current_index =
                     IF m = n THEN NoIndex ELSE h[m].current_index
BY DEF HashDelete, TableType

\* _zip_hash_revert makes every current index the original one.
LEMMA HashRevertType ==
    ASSUME NEW S, NEW h \in TableType(S)
    PROVE  /\ HashRevert(h) \in TableType(S)
           /\ \A m \in AllNames :
                /\ HashRevert(h)[m].orig_index = h[m].orig_index
                /\ HashRevert(h)[m].current_index = h[m].orig_index
BY DEF HashRevert, TableType

\* _zip_set_name moves the entry from its old name to its new one in the
\* table; the other names and the original indices stay.
LEMMA NamesAfterRenameType ==
    ASSUME NEW S, NoIndex \in S, NEW h \in TableType(S), NEW e \in Entry,
           ~e.deleted \/ HasDirent(e), NEW i \in S, NEW n \in AllNames
    PROVE  LET g == NamesAfterRename(h, e, i, n)
           IN /\ g \in TableType(S)
              /\ \A m \in AllNames :
                   /\ g[m].orig_index = h[m].orig_index
                   /\ g[m].current_index =
                        IF m = Key(e) /\ m # Empty THEN NoIndex
                        ELSE IF m = n THEN i ELSE h[m].current_index
<1> DEFINE old == IF e.changes = NULL /\ e.orig = NULL THEN Empty ELSE NameOf(e)
           added == HashAdd(h, n, i)
<1>1. old = Key(e) /\ old \in AllNames
  <2>1. old = Key(e)
    BY DEF Key, HasDirent
  <2>2. e.changes \in Dirent \cup {NULL} /\ e.orig \in File \cup {NULL}
    BY DEF Entry
  <2>3. old \in AllNames
    BY <2>2 DEF NameOf, Dirent, File, AllNames
  <2>4. QED
    BY <2>1, <2>3
<1>2. added \in TableType(S)
  BY HashAddType
<1>3. NamesAfterRename(h, e, i, n) = IF old = Empty THEN added ELSE HashDelete(added, old)
  BY DEF NamesAfterRename
<1> HIDE DEF added, old
<1>4. HashDelete(added, old) \in TableType(S)
  BY <1>1, <1>2, HashDeleteType
<1>5. \A m \in AllNames :
        /\ added[m].orig_index = h[m].orig_index
        /\ added[m].current_index = IF m = n THEN i ELSE h[m].current_index
  BY HashAddType DEF added
<1>6. \A m \in AllNames :
        /\ HashDelete(added, old)[m].orig_index = added[m].orig_index
        /\ HashDelete(added, old)[m].current_index =
             IF m = old THEN NoIndex ELSE added[m].current_index
  BY <1>1, <1>2, HashDeleteType
<1>7. QED
  BY <1>1, <1>2, <1>3, <1>4, <1>5, <1>6

(***************************************************************************)
(* The invariants.  TableSound holds whatever the program calls: what the  *)
(* table leads to has the name.  NamesOK needs a careful program: it adds  *)
(* that every name is in the table, and so says for both indices of the    *)
(* table what LocateFindsEveryName and RevertGivesOpenedNames say.         *)
(***************************************************************************)

TableSound ==
    /\ \A i \in Indices : Sound(entry[i])
    /\ \A n \in Names, i \in Indices :
         names[n].current_index = i => Key(entry[i]) = n
    /\ \A n \in Names, i \in Indices :
         names[n].orig_index = i => OrigKey(entry[i]) = n

SoundInv == TypeOK /\ TableSound

NamesOK ==
    /\ \A i \in Indices : EntryOK(entry[i])
    /\ \A n \in Names, i \in Indices :
         names[n].current_index = i <=> Key(entry[i]) = n
    /\ \A n \in Names, i \in Indices :
         names[n].orig_index = i <=> OrigKey(entry[i]) = n

IInv == TypeOK /\ NamesOK /\ DiskNamesUnique

\* What a careful program may count on includes what every program may.
LEMMA NamesOKIsSound == NamesOK => TableSound
BY DEF NamesOK, TableSound, EntryOK

\* The type of the entries and the table, which most calls change alone.
TableOK ==
    /\ nentry \in 0..MaxEntries
    /\ entry \in [Indices -> Entry]
    /\ names \in TableType(Indices \cup {NoIndex})

\* A call keeps the table sound, and in agreement with all names if it was.
KeepsTable == TableOK' /\ TableSound' /\ (NamesOK => NamesOK')

\* TypeOK conjunct by conjunct, the entries and the table together.
LEMMA TypeOKParts ==
    TypeOK <=>
      /\ disk = NULL \/ IsArchiveFile(disk)
      /\ is_open \in BOOLEAN
      /\ open_flags \subseteq {"RDONLY", "TRUNCATE"}
      /\ flags \subseteq ArchiveFlags
      /\ ch_flags \subseteq ArchiveFlags
      /\ comment_orig \in MaybeComment
      /\ comment_changes \in MaybeComment
      /\ comment_changed \in BOOLEAN
      /\ TableOK
BY DEF TypeOK, TableOK, TableType

\* A call that leaves the table alone and makes one entry an alike one.
LEMMA OneEntryStep ==
    ASSUME TableOK, TableSound, NEW i \in Indices, NEW r, Alike(entry[i], r),
           entry' = [entry EXCEPT ![i] = r], UNCHANGED <<nentry, names>>
    PROVE  KeepsTable
<1>1. entry' \in [Indices -> Entry] /\ Indices' = Indices
  BY DEF Alike, TableOK, Indices
<1>2. \A j \in Indices : entry'[j] = IF j = i THEN r ELSE entry[j]
  BY DEF TableOK
<1>3. \A j \in Indices : /\ Sound(entry'[j])
                         /\ EntryOK(entry[j]) => EntryOK(entry'[j])
                         /\ Key(entry'[j]) = Key(entry[j])
                         /\ OrigKey(entry'[j]) = OrigKey(entry[j])
  BY <1>2 DEF Alike, TableSound, OrigKey
<1>4. TableOK'
  BY <1>1 DEF TableOK
<1>5. TableSound'
  BY <1>1, <1>3 DEF TableSound
<1>6. NamesOK => NamesOK'
  BY <1>1, <1>3 DEF NamesOK
<1>7. QED
  BY <1>4, <1>5, <1>6 DEF KeepsTable

\* A new entry e takes the next index: with the name n, or without one when
\* the table has been told to forget it again.
LEMMA NewEntryStep ==
    ASSUME TableOK, TableSound, NEW n \in Names, NEW e \in Entry, EntryOK(e),
           e.orig = NULL, nentry < MaxEntries, HashLookup(names, n) = NoIndex,
           nentry' = nentry + 1,
           entry' = [i \in 0..nentry |-> IF i = nentry THEN e ELSE entry[i]],
           LET added == NamesAfterRename(names, NewEntry, nentry, n)
           IN \/ Key(e) = n /\ names' = added
              \/ Key(e) = Empty /\ names' = HashDelete(added, n)
    PROVE  KeepsTable
<1> DEFINE S == Indices' \cup {NoIndex}
           added == NamesAfterRename(names, NewEntry, nentry, n)
<1>1. /\ nentry \in Nat /\ Indices' = 0..nentry /\ Indices \subseteq Indices'
      /\ nentry \in Indices' /\ nentry \notin Indices
      /\ \A i \in Indices' : i = nentry \/ i \in Indices
  BY BoundAssumption DEF TableOK, Indices
<1>2. names \in TableType(S) /\ n \in AllNames /\ nentry # NoIndex /\ n # Empty
  <2>1. TableType(Indices \cup {NoIndex}) \subseteq TableType(S)
    BY <1>1, TableTypeGrows
  <2>2. n \in AllNames /\ n # Empty
    BY NamesAssumption DEF AllNames
  <2>3. nentry # NoIndex
    BY <1>1 DEF NoIndex
  <2>4. QED
    BY <2>1, <2>2, <2>3 DEF TableOK
<1> HIDE DEF S
<1>3. /\ added \in TableType(S)
      /\ \A m \in AllNames :
           /\ added[m].orig_index = names[m].orig_index
           /\ added[m].current_index = IF m = n THEN nentry ELSE names[m].current_index
  <2>1. NewEntry \in Entry /\ ~NewEntry.deleted /\ Key(NewEntry) = Empty
    BY NewEntryType DEF Key
  <2>2. nentry \in S /\ NoIndex \in S
    BY <1>1 DEF S
  <2>3. QED
    BY <1>2, <2>1, <2>2, NamesAfterRenameType
<1> HIDE DEF added
<1>4. /\ names' \in TableType(S)
      /\ \A m \in AllNames :
           /\ names'[m].orig_index = names[m].orig_index
           /\ names'[m].current_index =
                IF m = n THEN (IF Key(e) = n THEN nentry ELSE NoIndex)
                ELSE names[m].current_index
  <2>1. CASE Key(e) = n /\ names' = added
    BY <1>3, <2>1
  <2>2. CASE Key(e) = Empty /\ names' = HashDelete(added, n)
    <3>1. /\ HashDelete(added, n) \in TableType(S)
          /\ \A m \in AllNames :
               /\ HashDelete(added, n)[m].orig_index = added[m].orig_index
               /\ HashDelete(added, n)[m].current_index =
                    IF m = n THEN NoIndex ELSE added[m].current_index
      BY <1>2, <1>3, HashDeleteType DEF S
    <3>2. QED
      BY <1>2, <1>3, <2>2, <3>1
  <2>3. QED
    BY <2>1, <2>2 DEF added
<1>5. /\ entry' \in [Indices' -> Entry]
      /\ \A i \in Indices' : entry'[i] = IF i = nentry THEN e ELSE entry[i]
  BY <1>1 DEF TableOK
<1>6. TableOK'
  BY <1>1, <1>4, <1>5, BoundAssumption DEF TableOK, S
<1>7. /\ \A i \in Indices' : Sound(entry'[i])
      /\ NamesOK => \A i \in Indices' : EntryOK(entry'[i])
  BY <1>1, <1>5 DEF NamesOK, TableSound, EntryOK
<1>8. ASSUME NEW m \in Names, NEW i \in Indices'
      PROVE  /\ names'[m].current_index = i => Key(entry'[i]) = m
             /\ NamesOK /\ Key(entry'[i]) = m => names'[m].current_index = i
  <2>1. m \in AllNames /\ m # Empty /\ i # NoIndex
    BY <1>1, NamesAssumption DEF AllNames, NoIndex
  <2>2. names[m].current_index \in Indices \cup {NoIndex}
    BY <2>1 DEF TableOK, TableType
  <2>3. CASE i = nentry
    <3>1. names[m].current_index # i
      BY <1>1, <1>2, <2>2, <2>3
    <3>2. QED
      BY <1>2, <1>4, <1>5, <2>1, <2>3, <3>1
  <2>4. CASE i \in Indices
    <3>1. /\ names[m].current_index = i => Key(entry[i]) = m
          /\ NamesOK /\ Key(entry[i]) = m => names[m].current_index = i
      BY <2>4 DEF NamesOK, TableSound
    <3>2. entry'[i] = entry[i] /\ i # nentry
      BY <1>1, <1>5, <2>4
    <3>3. CASE m = n
      BY <1>4, <2>1, <3>1, <3>2, <3>3 DEF HashLookup
    <3>4. CASE m # n
      BY <1>4, <2>1, <3>1, <3>2, <3>4
    <3>5. QED
      BY <3>3, <3>4
  <2>5. QED
    BY <1>1, <2>3, <2>4
<1>9. ASSUME NEW m \in Names, NEW i \in Indices'
      PROVE  /\ names'[m].orig_index = i => OrigKey(entry'[i]) = m
             /\ NamesOK /\ OrigKey(entry'[i]) = m => names'[m].orig_index = i
  <2>1. m \in AllNames /\ m # Empty
    BY NamesAssumption DEF AllNames
  <2>2. names[m].orig_index \in Indices \cup {NoIndex}
    BY <2>1 DEF TableOK, TableType
  <2>3. CASE i = nentry
    BY <1>1, <1>2, <1>4, <1>5, <2>1, <2>2, <2>3 DEF OrigKey
  <2>4. CASE i \in Indices
    BY <1>1, <1>4, <1>5, <2>1, <2>4 DEF NamesOK, TableSound
  <2>5. QED
    BY <1>1, <2>3, <2>4
<1>10. TableSound'
  BY <1>7, <1>8, <1>9 DEF TableSound
<1>11. NamesOK => NamesOK'
  BY <1>7, <1>8, <1>9 DEF NamesOK
<1>12. QED
  BY <1>6, <1>10, <1>11 DEF KeepsTable

\* Entry i becomes r, which has the same original; in the table the name that i
\* had goes, no other name is touched, and the name of r leads to i or to nothing:
\* to i if the program is careful, which can take only a name that is free.
LEMMA RenameStep ==
    ASSUME TableOK, TableSound, NEW i \in Indices, NEW r \in Entry, Sound(r),
           EntryOK(entry[i]) => EntryOK(r), r.orig = entry[i].orig,
           nentry' = nentry, entry' = [entry EXCEPT ![i] = r],
           names' \in TableType(Indices \cup {NoIndex}),
           \A m \in Names :
             /\ names'[m].orig_index = names[m].orig_index
             /\ names'[m].current_index \in
                  IF m = Key(r) THEN {i, NoIndex}
                  ELSE IF m = Key(entry[i]) THEN {NoIndex}
                  ELSE {names[m].current_index},
           NamesOK /\ Key(r) \in Names =>
             /\ names'[Key(r)].current_index = i
             /\ Key(r) = Key(entry[i]) \/ HashLookup(names, Key(r)) = NoIndex
    PROVE  KeepsTable
<1>1. /\ Indices' = Indices
      /\ entry' \in [Indices -> Entry]
      /\ \A j \in Indices : entry'[j] = IF j = i THEN r ELSE entry[j]
      /\ NoIndex \notin Indices
  BY DEF TableOK, Indices, NoIndex
<1>2. TableOK'
  BY <1>1 DEF TableOK
<1>3. /\ \A j \in Indices : Sound(entry'[j])
      /\ NamesOK => \A j \in Indices : EntryOK(entry'[j])
  BY <1>1 DEF NamesOK, TableSound
<1>4. ASSUME NEW m \in Names, NEW j \in Indices, names'[m].current_index = j
      PROVE  Key(entry'[j]) = m
  <2>1. CASE m = Key(r)
    BY <1>1, <1>4, <2>1
  <2>2. CASE m # Key(r)
    <3>1. m # Key(entry[i]) /\ names[m].current_index = j
      BY <1>1, <1>4, <2>2
    <3>2. Key(entry[j]) = m
      BY <3>1 DEF TableSound
    <3>3. QED
      BY <1>1, <3>1, <3>2
  <2>3. QED
    BY <2>1, <2>2
<1>5. ASSUME NamesOK, NEW m \in Names, NEW j \in Indices, Key(entry'[j]) = m
      PROVE  names'[m].current_index = j
  <2>1. CASE j = i
    BY <1>1, <1>5, <2>1
  <2>2. CASE j # i
    <3>1. names[m].current_index = j /\ (names[m].current_index = i <=> Key(entry[i]) = m)
      BY <1>1, <1>5, <2>2 DEF NamesOK
    <3>2. m # Key(entry[i])
      BY <2>2, <3>1
    <3>3. m # Key(r)
      BY <1>1, <1>5, <3>1, <3>2 DEF HashLookup
    <3>4. QED
      BY <3>1, <3>2, <3>3
  <2>3. QED
    BY <2>1, <2>2
<1>6. ASSUME NEW m \in Names, NEW j \in Indices
      PROVE  /\ names'[m].orig_index = j => OrigKey(entry'[j]) = m
             /\ NamesOK /\ OrigKey(entry'[j]) = m => names'[m].orig_index = j
  <2>1. OrigKey(entry'[j]) = OrigKey(entry[j]) /\ names'[m].orig_index = names[m].orig_index
    BY <1>1 DEF OrigKey
  <2>2. QED
    BY <2>1 DEF NamesOK, TableSound
<1>7. TableSound'
  BY <1>1, <1>3, <1>4, <1>6 DEF TableSound
<1>8. NamesOK => NamesOK'
  BY <1>1, <1>3, <1>4, <1>5, <1>6 DEF NamesOK
<1>9. QED
  BY <1>2, <1>7, <1>8 DEF KeepsTable

\* A call that leaves the table alone and makes every entry an alike one.
LEMMA EntriesStep ==
    ASSUME TableOK, TableSound, NEW f, entry' = [j \in Indices |-> f[j]],
           \A j \in Indices : Alike(entry[j], f[j]), UNCHANGED <<nentry, names>>
    PROVE  KeepsTable
<1>1. /\ Indices' = Indices
      /\ entry' \in [Indices -> Entry]
      /\ \A j \in Indices : Alike(entry[j], entry'[j])
  BY DEF Alike, Indices
<1>2. \A j \in Indices : /\ Sound(entry'[j])
                         /\ EntryOK(entry[j]) => EntryOK(entry'[j])
                         /\ Key(entry'[j]) = Key(entry[j])
                         /\ OrigKey(entry'[j]) = OrigKey(entry[j])
  BY <1>1 DEF Alike, OrigKey
<1>3. TableOK'
  BY <1>1 DEF TableOK
<1>4. TableSound'
  BY <1>1, <1>2 DEF TableSound
<1>5. NamesOK => NamesOK'
  BY <1>1, <1>2 DEF NamesOK
<1>6. QED
  BY <1>3, <1>4, <1>5 DEF KeepsTable

\* A setter of a method, the time or extra fields leaves the table sound, also when
\* it brings back a deleted entry, and in agreement with all names otherwise.
LEMMA MarkStep ==
    ASSUME TableOK, TableSound, NEW i \in Indices,
           entry' = [entry EXCEPT ![i] = Marked(entry[i])], UNCHANGED <<nentry, names>>
    PROVE  /\ TableOK' /\ TableSound'
           /\ HasDirent(entry[i]) \/ ~entry[i].deleted => (NamesOK => NamesOK')
<1> DEFINE e == entry[i]
           r == Marked(e)
<1>1. e \in Entry /\ Sound(e)
  BY DEF TableOK, TableSound
<1>2. CASE HasDirent(e) \/ ~e.deleted
  <2>1. Alike(e, r)
    BY <1>1, <1>2, MarkedKeeps
  <2>2. QED
    BY <2>1, OneEntryStep DEF KeepsTable
<1>3. CASE ~HasDirent(e) /\ e.deleted
  <2>1. r \in Entry /\ Sound(r) /\ r.orig = e.orig
    BY <1>1, MarkedKeeps
  <2>2. Key(e) = Empty
    BY <1>3 DEF Key
  <2> HIDE DEF r
  <2>3. /\ Indices' = Indices /\ entry' \in [Indices -> Entry]
        /\ \A j \in Indices : entry'[j] = IF j = i THEN r ELSE entry[j]
    BY <2>1 DEF TableOK, Indices, r
  <2>4. \A m \in Names, j \in Indices : names[m].current_index = j => Key(entry'[j]) = m
    BY <2>2, <2>3, NamesAssumption DEF TableSound
  <2>5. \A m \in Names, j \in Indices : names[m].orig_index = j => OrigKey(entry'[j]) = m
    BY <2>1, <2>3 DEF TableSound, OrigKey
  <2>6. \A j \in Indices : Sound(entry'[j])
    BY <2>1, <2>3 DEF TableSound
  <2>7. TableOK' /\ TableSound'
    BY <2>3, <2>4, <2>5, <2>6 DEF TableOK, TableSound
  <2>8. QED
    BY <1>3, <2>7
<1>4. QED
  BY <1>2, <1>3

(***************************************************************************)
(* One lemma per call that moves names.                                    *)
(***************************************************************************)

\* What the invariants say of one entry.
LEMMA HasDirentFacts ==
    ASSUME TableOK, TableSound, NEW i \in Indices
    PROVE  /\ entry[i] \in Entry /\ Sound(entry[i])
           /\ HasDirent(entry[i]) => NameOf(entry[i]) = Key(entry[i])
           /\ NamesOK => EntryOK(entry[i])
           /\ Key(entry[i]) \in AllNames /\ OrigKey(entry[i]) \in AllNames
           /\ i # NoIndex
<1>1. entry[i] \in Entry /\ Sound(entry[i]) /\ (NamesOK => EntryOK(entry[i]))
  BY DEF TableOK, TableSound, NamesOK
<1>2. /\ entry[i].orig \in File \cup {NULL} /\ entry[i].changes \in Dirent \cup {NULL}
  BY <1>1 DEF Entry
<1>3. Key(entry[i]) \in AllNames /\ OrigKey(entry[i]) \in AllNames
  BY <1>2 DEF Key, OrigKey, HasDirent, NameOf, File, Dirent, AllNames
<1>4. i # NoIndex
  BY DEF Indices, NoIndex, TableOK
<1>5. QED
  BY <1>1, <1>3, <1>4 DEF Key

\* Deleting an entry (zip_delete, a failed zip_dir_add) keeps table and
\* entries in agreement.
LEMMA DeleteStep ==
    ASSUME TableOK, TableSound, NEW i \in Indices, HasDirent(entry[i]),
           names' = HashDelete(names, NameOf(entry[i])),
           NEW e \in Entry, e.orig = entry[i].orig,
           entry' = [entry EXCEPT ![i] = [Unchanged(e) EXCEPT !.deleted = TRUE]],
           nentry' = nentry
    PROVE  KeepsTable
<1> DEFINE r == [Unchanged(e) EXCEPT !.deleted = TRUE]
           k == Key(entry[i])
<1>1. r \in Entry /\ Sound(r) /\ EntryOK(r) /\ r.orig = entry[i].orig /\ Key(r) = Empty
  BY UnchangedType DEF EntryOK
<1>2. k \in AllNames /\ names' = HashDelete(names, k)
  BY HasDirentFacts
<1>3. /\ names' \in TableType(Indices \cup {NoIndex})
      /\ \A m \in AllNames :
           /\ names'[m].orig_index = names[m].orig_index
           /\ names'[m].current_index = IF m = k THEN NoIndex ELSE names[m].current_index
  <2> HIDE DEF k
  <2> QED
    BY <1>2, HashDeleteType DEF TableOK
<1>4. \A m \in Names : m \in AllNames /\ m # Empty
  BY NamesAssumption DEF AllNames
<1> HIDE DEF r
<1>5. entry' = [entry EXCEPT ![i] = r]
  BY DEF r
<1>6. Key(r) \notin Names
  BY <1>1, NamesAssumption
<1>7. QED
  BY <1>1, <1>3, <1>4, <1>5, <1>6, RenameStep

\* zip_file_rename keeps table and entries in agreement.
LEMMA FileRenameStep ==
    ASSUME TableOK, TableSound, NEW i \in Indices, NEW n \in Names, FileRename(i, n)
    PROVE  KeepsTable
<1> DEFINE r == Renamed(entry[i], n)
           k == Key(entry[i])
<1>1. /\ HasDirent(entry[i]) /\ HashLookup(names, n) = NoIndex
      /\ entry' = [entry EXCEPT ![i] = r]
      /\ names' = NamesAfterRename(names, entry[i], i, n)
      /\ nentry' = nentry
  BY DEF FileRename
<1>2. /\ entry[i] \in Entry /\ Sound(entry[i])
      /\ i # NoIndex /\ k \in AllNames
  BY <1>1, HasDirentFacts
<1>3. NamesOK => k # n
  BY <1>1, <1>2 DEF NamesOK, HashLookup
<1>4. n \in AllNames
  BY DEF AllNames
<1>5. /\ r \in Entry /\ Sound(r) /\ (EntryOK(entry[i]) => EntryOK(r))
      /\ r.orig = entry[i].orig /\ Key(r) = n
  BY <1>1, <1>2, <1>4, RenamedType
<1>6. /\ names' \in TableType(Indices \cup {NoIndex})
      /\ \A m \in AllNames :
           /\ names'[m].orig_index = names[m].orig_index
           /\ names'[m].current_index =
                IF m = k /\ m # Empty THEN NoIndex
                ELSE IF m = n THEN i ELSE names[m].current_index
  <2> DEFINE S == Indices \cup {NoIndex}
  <2>1. i \in S /\ NoIndex \in S
    OBVIOUS
  <2>2. names \in TableType(S)
    BY DEF TableOK
  <2> DEFINE e == entry[i]
             g == NamesAfterRename(names, e, i, n)
  <2>3. names' = g /\ e \in Entry /\ HasDirent(e) /\ k = Key(e)
    BY <1>1, <1>2
  <2> HIDE DEF S, e, k
  <2>4. /\ g \in TableType(S)
        /\ \A m \in AllNames :
             /\ g[m].orig_index = names[m].orig_index
             /\ g[m].current_index =
                  IF m = Key(e) /\ m # Empty THEN NoIndex
                  ELSE IF m = n THEN i ELSE names[m].current_index
    BY <1>4, <2>1, <2>2, <2>3, NamesAfterRenameType
  <2>5. QED
    BY <2>3, <2>4 DEF S
<1>7. \A m \in Names : m \in AllNames /\ m # Empty
  BY NamesAssumption DEF AllNames
<1> HIDE DEF r
<1>8. \A m \in Names :
        /\ names'[m].orig_index = names[m].orig_index
        /\ names'[m].current_index \in
             IF m = Key(r) THEN {i, NoIndex}
             ELSE IF m = Key(entry[i]) THEN {NoIndex}
             ELSE {names[m].current_index}
  BY <1>5, <1>6, <1>7
<1>9. NamesOK => /\ names'[Key(r)].current_index = i
                 /\ HashLookup(names, Key(r)) = NoIndex
  BY <1>1, <1>3, <1>5, <1>6, <1>7
<1>10. QED
  BY <1>1, <1>5, <1>6, <1>8, <1>9, RenameStep

\* zip_unchange keeps table and entries in agreement.
LEMMA UnchangeStep ==
    ASSUME TableOK, TableSound, NEW i \in Indices, Unchange(i)
    PROVE  KeepsTable
<1> DEFINE e == entry[i]
           u == Unchanged(e)
           k == Key(e)
           o == OrigKey(e)
           renamed == FieldChanged(e, "FILENAME")
           restored == IF e.orig # NULL THEN HashAdd(names, e.orig.filename, i) ELSE names
           S == Indices \cup {NoIndex}
<1>1. /\ e \in Entry /\ Sound(e) /\ (NamesOK => EntryOK(e))
      /\ i # NoIndex /\ k \in AllNames /\ o \in AllNames
  BY HasDirentFacts
<1>2. u \in Entry /\ Sound(u) /\ EntryOK(u) /\ u.orig = e.orig /\ Key(u) = o
  BY <1>1, UnchangedType DEF EntryOK
<1>3. entry' = [entry EXCEPT ![i] = u] /\ nentry' = nentry
  BY DEF Unchange
<1>4. names \in TableType(S)
  BY DEF TableOK
<1>5. \A m \in Names : m \in AllNames /\ m # Empty
  BY NamesAssumption DEF AllNames
<1>6. CASE ~renamed /\ ~e.deleted
  <2>1. k = o
    BY <1>1, <1>6 DEF FieldChanged, Sound, HasDirent, Key, NameOf, OrigKey
  <2>2. Alike(e, u)
    BY <1>2, <2>1 DEF Alike
  <2>3. names' = names
    BY <1>6 DEF Unchange
  <2> HIDE DEF u
  <2>4. QED
    BY <1>3, <2>2, <2>3, OneEntryStep
<1>7. CASE renamed \/ e.deleted
  <2>1. /\ e.orig # NULL => names[o].current_index = NoIndex
        /\ names' = IF renamed THEN HashDelete(restored, NameOf(e)) ELSE restored
    BY <1>7 DEF Unchange, HashCanAdd, OrigKey
  <2>2. renamed => k = NameOf(e)
    BY DEF FieldChanged, HasDirent, Key
  <2>3. ~renamed => k = Empty \/ k = o
    BY <1>1, <1>7 DEF FieldChanged, HasDirent, Sound, Key, NameOf, OrigKey
  <2>4. /\ restored \in TableType(S)
        /\ \A m \in Names :
             /\ restored[m].orig_index = names[m].orig_index
             /\ restored[m].current_index = IF m = o THEN i ELSE names[m].current_index
    <3>1. CASE e.orig # NULL
      BY <1>1, <1>4, <1>5, <3>1, HashAddType DEF OrigKey
    <3>2. CASE e.orig = NULL
      BY <1>4, <1>5, <3>2 DEF OrigKey
    <3>3. QED
      BY <3>1, <3>2
  <2> HIDE DEF restored
  <2>5. /\ HashDelete(restored, k) \in TableType(S)
        /\ \A m \in Names :
             /\ HashDelete(restored, k)[m].orig_index = restored[m].orig_index
             /\ HashDelete(restored, k)[m].current_index =
                  IF m = k THEN NoIndex ELSE restored[m].current_index
    BY <1>1, <1>5, <2>4, HashDeleteType
  <2>6. NamesOK => (k \in Names => names[k].current_index = i)
    BY DEF NamesOK
  <2>7. o # Empty => names[o].current_index = NoIndex
    BY <2>1 DEF OrigKey
  <2>8. NamesOK /\ k = o => k = Empty
    BY <1>1, <2>6, <2>7 DEF AllNames
  <2>9. /\ names' \in TableType(S)
        /\ \A m \in Names :
             /\ names'[m].orig_index = names[m].orig_index
             /\ names'[m].current_index \in
                  IF m = o THEN {i, NoIndex} ELSE IF m = k THEN {NoIndex}
                  ELSE {names[m].current_index}
        /\ k # o => \A m \in Names : m = o => names'[m].current_index = i
    <3>1. CASE renamed
      BY <1>5, <2>1, <2>2, <2>4, <2>5, <3>1
    <3>2. CASE ~renamed
      BY <1>5, <2>1, <2>3, <2>4, <3>2
    <3>3. QED
      BY <3>1, <3>2
  <2> HIDE DEF u
  <2>10. NamesOK /\ Key(u) \in Names => /\ names'[Key(u)].current_index = i
                                         /\ HashLookup(names, Key(u)) = NoIndex
    BY <1>2, <1>5, <2>7, <2>8, <2>9 DEF HashLookup
  <2>11. QED
    BY <1>2, <1>3, <2>9, <2>10, RenameStep
<1>8. QED
  BY <1>6, <1>7

\* zip_unchange_all keeps table and entries in agreement.
LEMMA UnchangeAllStep ==
    ASSUME TableOK, TableSound, names' = HashRevert(names),
           entry' = [i \in Indices |-> Unchanged(entry[i])], nentry' = nentry
    PROVE  KeepsTable
<1>1. Indices' = Indices
  BY DEF Indices
<1>2. \A i \in Indices : /\ entry'[i] \in Entry /\ Sound(entry'[i])
                         /\ EntryOK(entry'[i])
                         /\ Key(entry'[i]) = OrigKey(entry[i])
                         /\ OrigKey(entry'[i]) = OrigKey(entry[i])
  BY UnchangedType DEF TableOK, OrigKey, EntryOK
<1>3. /\ names' \in TableType(Indices \cup {NoIndex})
      /\ \A m \in AllNames : /\ names'[m].orig_index = names[m].orig_index
                            /\ names'[m].current_index = names[m].orig_index
  BY HashRevertType DEF TableOK
<1>4. TableOK'
  BY <1>1, <1>2, <1>3 DEF TableOK
<1>5. TableSound'
  BY <1>1, <1>2, <1>3 DEF TableSound, AllNames
<1>6. NamesOK => NamesOK'
  BY <1>1, <1>2, <1>3 DEF NamesOK, AllNames
<1>7. QED
  BY <1>4, <1>5, <1>6 DEF KeepsTable

\* Without a struct zip the table is empty and there are no entries.
LEMMA FreeStep ==
    ASSUME FreeArchive
    PROVE  TableOK' /\ TableSound' /\ NamesOK'
<1>1. nentry' = 0 /\ Indices' = {} /\ entry' = [i \in {} |-> NewEntry]
      /\ names' = [n \in AllNames |-> NoNode]
  BY DEF FreeArchive, Indices
<1>2. QED
  BY <1>1, BoundAssumption DEF TableOK, TableType, TableSound, NamesOK, NoNode

(***************************************************************************)
(* Opening and writing an archive file.                                    *)
(***************************************************************************)

\* Every set of indices has a smallest element.
LEMMA SmallestExists ==
    ASSUME NEW T \in SUBSET Nat, T # {}
    PROVE  \E x \in T : \A y \in T : x <= y
<1> DEFINE R == StrictSubsetOrdering(Nat)
           D == {0..x : x \in T}
<1>1. \A x \in T : 0..x \in FiniteSubsetsOf(Nat)
  <2> TAKE x \in T
  <2>1. IsFiniteSet(0..x)
    BY FS_Interval
  <2>2. QED
    BY <2>1 DEF FiniteSubsetsOf
<1>2. D \subseteq FiniteSubsetsOf(Nat) /\ D # {}
  BY <1>1
<1>3. IsWellFoundedOn(R, FiniteSubsetsOf(Nat))
  BY FS_StrictSubsetOrderingWellFounded
<1>4. PICK s \in D : \A t \in D : <<t, s>> \notin R
  <2> HIDE DEF R, D
  <2> QED
    BY <1>2, <1>3, WFMin
<1>5. PICK x \in T : s = 0..x
  OBVIOUS
<1>6. ASSUME NEW y \in T, y < x PROVE FALSE
  <2>1. /\ 0..y \subseteq 0..x /\ 0..y # 0..x
        /\ 0..y \in SUBSET Nat /\ 0..x \in SUBSET Nat
    BY <1>6
  <2>2. <<0..y, s>> \in R
    BY <2>1, <1>5 DEF StrictSubsetOrdering
  <2>3. QED
    BY <2>2, <1>4
<1>7. QED
  BY <1>6

\* The table of an opened archive has the first file of each name; when names
\* are unique it has every file that has a name.
LEMMA OpenedNamesType ==
    ASSUME NEW n \in Nat, NEW files \in [0..(n - 1) -> File]
    PROVE  LET t == OpenedNames(n, files)
           IN /\ t \in TableType((0..(n - 1)) \cup {NoIndex})
              /\ \A m \in AllNames : t[m].orig_index = t[m].current_index
              /\ \A m \in AllNames, i \in 0..(n - 1) :
                   t[m].current_index = i => files[i].filename = m
              /\ \A i \in 0..(n - 1) :
                   (\A j \in 0..(n - 1) :
                      files[j].filename = files[i].filename => j = i)
                   => t[files[i].filename].current_index = i
<1> DEFINE I == 0..(n - 1)
           At(m) == {i \in I : files[i].filename = m}
           First(m) == CHOOSE i \in At(m) : \A j \in At(m) : i <= j
           t == OpenedNames(n, files)
<1>1. \A m \in AllNames : At(m) # {} => First(m) \in At(m)
  <2> TAKE m \in AllNames
  <2>1. At(m) \in SUBSET Nat
    OBVIOUS
  <2>2. At(m) # {} => \E i \in At(m) : \A j \in At(m) : i <= j
    <3> HIDE DEF At
    <3> QED
      BY <2>1, SmallestExists
  <2>3. QED
    BY <2>2
<1>2. t = [m \in AllNames |-> IF At(m) = {} THEN NoNode
                            ELSE [orig_index |-> First(m), current_index |-> First(m)]]
  BY DEF OpenedNames
<1>3. NoIndex \notin I
  BY DEF NoIndex
<1>4. \A m \in AllNames :
        /\ t[m] \in [orig_index: I \cup {NoIndex}, current_index: I \cup {NoIndex}]
        /\ t[m].orig_index = t[m].current_index
        /\ At(m) = {} => t[m].current_index = NoIndex
        /\ At(m) # {} => t[m].current_index \in At(m)
  <2> TAKE m \in AllNames
  <2> HIDE DEF First
  <2>1. CASE At(m) = {}
    BY <1>2, <2>1 DEF NoNode
  <2>2. CASE At(m) # {}
    BY <1>1, <1>2, <2>2
  <2>3. QED
    BY <2>1, <2>2
<1> HIDE DEF t
<1>5. t \in TableType(I \cup {NoIndex})
  BY <1>2, <1>4 DEF TableType
<1>6. \A m \in AllNames, i \in I : t[m].current_index = i => files[i].filename = m
  BY <1>3, <1>4
<1>7. ASSUME NEW i \in I, \A j \in I : files[j].filename = files[i].filename => j = i
      PROVE  t[files[i].filename].current_index = i
  <2>1. files[i].filename \in AllNames
    BY DEF File
  <2>2. At(files[i].filename) = {i}
    BY <1>7
  <2>3. QED
    BY <1>4, <2>1, <2>2
<1>8. QED
  BY <1>4, <1>5, <1>6, <1>7 DEF t

\* _zip_open builds a table that agrees with the entries it has read.
LEMMA OpenStep ==
    ASSUME SoundInv, NEW oflags \in SUBSET {"RDONLY", "TRUNCATE"}, Open(oflags)
    PROVE  TypeOK' /\ TableSound' /\ (DiskNamesUnique => NamesOK')
<1> DEFINE fresh == disk = NULL \/ "TRUNCATE" \in oflags
           n == IF fresh THEN 0 ELSE disk.nfiles
<1>1. ~fresh => \E m \in 0..MaxEntries : disk \in ArchiveFile(m)
  BY DEF SoundInv, TypeOK, IsArchiveFile
<1>2. /\ n \in 0..MaxEntries
      /\ ~fresh => disk.files \in [0..(n - 1) -> File] /\ disk.comment \in MaybeComment
  BY <1>1, BoundAssumption DEF ArchiveFile
<1>3. /\ nentry' = n /\ Indices' = 0..(n - 1)
      /\ entry' = [i \in 0..(n - 1) |-> [NewEntry EXCEPT !.orig = disk.files[i]]]
      /\ names' = IF fresh THEN [x \in AllNames |-> NoNode]
                  ELSE OpenedNames(n, disk.files)
  BY DEF Open, Indices
<1>4. /\ disk' = disk /\ is_open' = TRUE /\ open_flags' = oflags
      /\ flags' \subseteq ArchiveFlags /\ ch_flags' \subseteq ArchiveFlags
      /\ comment_orig' \in MaybeComment
      /\ comment_changes' = NULL /\ comment_changed' = FALSE
  BY <1>2 DEF Open, ArchiveFlags, MaybeComment
<1>5. CASE fresh
  <2>1. nentry' = 0 /\ Indices' = {} /\ entry' = [i \in {} |-> [NewEntry EXCEPT !.orig = disk.files[i]]]
    BY <1>3, <1>5
  <2>2. TableOK' /\ TableSound' /\ NamesOK'
    BY <1>3, <1>5, <2>1, BoundAssumption DEF TableOK, TableType, TableSound, NamesOK, NoNode
  <2>3. QED
    BY <1>4, <2>2 DEF SoundInv, TypeOK, TableOK, TableType, MaybeComment
<1>6. CASE ~fresh
  <2>1. n \in Nat /\ disk.files \in [0..(n - 1) -> File]
    BY <1>2, <1>6, BoundAssumption
  <2>2. \A i \in 0..(n - 1) :
          /\ entry'[i] \in Entry /\ Sound(entry'[i]) /\ EntryOK(entry'[i])
          /\ Key(entry'[i]) = disk.files[i].filename
          /\ OrigKey(entry'[i]) = disk.files[i].filename
    BY <1>3, <2>1 DEF NewEntry, Entry, EntryOK, Sound, Key, OrigKey, HasDirent, NameOf
  <2>3. DiskNamesUnique => \A i, j \in 0..(n - 1) :
          disk.files[i].filename = disk.files[j].filename =>
            i = j \/ disk.files[i].filename = Empty
    BY <1>6 DEF DiskNamesUnique
  <2> HIDE DEF n
  <2>4. names' = OpenedNames(n, disk.files)
    BY <1>3, <1>6
  <2>5. /\ names' \in TableType((0..(n - 1)) \cup {NoIndex})
        /\ \A m \in AllNames : names'[m].orig_index = names'[m].current_index
        /\ \A m \in AllNames, i \in 0..(n - 1) :
             names'[m].current_index = i => disk.files[i].filename = m
    <3> DEFINE f == disk.files
               t == OpenedNames(n, f)
    <3>1. f \in [0..(n - 1) -> File]
      BY <2>1
    <3> HIDE DEF f
    <3>2. /\ t \in TableType((0..(n - 1)) \cup {NoIndex})
          /\ \A m \in AllNames : t[m].orig_index = t[m].current_index
          /\ \A m \in AllNames, i \in 0..(n - 1) :
               t[m].current_index = i => f[i].filename = m
      BY <2>1, <3>1, OpenedNamesType
    <3>3. QED
      BY <2>4, <3>2 DEF f
  <2>6. DiskNamesUnique => \A i \in 0..(n - 1) : disk.files[i].filename # Empty =>
          names'[disk.files[i].filename].current_index = i
    <3> DEFINE f == disk.files
               t == OpenedNames(n, f)
    <3>1. f \in [0..(n - 1) -> File]
      BY <2>1
    <3> HIDE DEF f
    <3>2. \A i \in 0..(n - 1) :
            (\A j \in 0..(n - 1) : f[j].filename = f[i].filename => j = i)
            => t[f[i].filename].current_index = i
      BY <2>1, <3>1, OpenedNamesType
    <3>3. QED
      BY <2>3, <2>4, <3>2 DEF f
  <2>7. TableOK'
    BY <1>2, <1>3, <2>2, <2>5 DEF TableOK
  <2>8. TableSound' /\ (DiskNamesUnique => NamesOK')
    <3>1. \A m \in Names : m \in AllNames /\ m # Empty
      BY NamesAssumption DEF AllNames
    <3>2. QED
      BY <1>3, <2>2, <2>5, <2>6, <3>1 DEF NamesOK, TableSound
  <2>9. QED
    BY <1>4, <2>7, <2>8, TypeOKParts DEF SoundInv, TypeOK, TableOK, TableType, MaybeComment
<1>7. QED
  BY <1>5, <1>6

\* A filelist has every survivor at one place.
LEMMA FilelistType ==
    ASSUME NEW f \in Filelists, TableOK
    PROVE  /\ IsFiniteSet(Survivors) /\ Cardinality(Survivors) \in 0..nentry
           /\ f \in [0..(Cardinality(Survivors) - 1) -> Survivors]
           /\ \A j, k \in 0..(Cardinality(Survivors) - 1) : f[j] = f[k] => j = k
<1>1. IsFiniteSet(Survivors) /\ Cardinality(Survivors) \in 0..nentry
  <2>1. nentry \in Nat /\ Indices = 0..(nentry - 1)
    BY BoundAssumption DEF TableOK, Indices
  <2>2. IsFiniteSet(Indices) /\ Cardinality(Indices) = nentry
    BY <2>1, FS_Interval
  <2>3. Survivors \in SUBSET Indices
    BY DEF Survivors
  <2>4. IsFiniteSet(Survivors) /\ Cardinality(Survivors) <= Cardinality(Indices)
    BY <2>2, <2>3, FS_Subset
  <2>5. Cardinality(Survivors) \in Nat
    BY <2>4, FS_CardinalityType
  <2>6. QED
    BY <2>1, <2>2, <2>4, <2>5
<1> DEFINE I == 0..(Cardinality(Survivors) - 1)
<1>2. f \in [I -> Survivors] /\ \A j, k \in I : j < k => Before(f[j], f[k])
  BY DEF Filelists
<1>3. \A i \in Survivors : ~Before(i, i)
  <2>1. \A i \in Survivors : i \in Int /\ SortKey(i) \in Int
    <3> TAKE i \in Survivors
    <3>1. i \in Indices /\ i \in Int
      BY BoundAssumption DEF Survivors, Indices, TableOK
    <3>2. HasDirent(entry[i]) => NameOf(entry[i]) \in Names \cup {Empty}
      <4>1. entry[i].orig \in File \cup {NULL} /\ entry[i].changes \in Dirent \cup {NULL}
        BY <3>1 DEF TableOK, Entry
      <4>2. QED
        BY <4>1 DEF HasDirent, NameOf, File, Dirent, AllNames
    <3>3. QED
      BY <3>1, <3>2, NamesAssumption DEF SortKey
  <2>2. QED
    BY <2>1 DEF Before
<1>4. ASSUME NEW j \in I, NEW k \in I, f[j] = f[k], j # k PROVE FALSE
  <2>1. j \in Int /\ k \in Int
    BY <1>1
  <2>2. j < k \/ k < j
    BY <1>4, <2>1
  <2>3. QED
    BY <1>2, <1>3, <1>4, <2>2
<1>5. QED
  BY <1>1, <1>2, <1>4

\* zip_close writes an archive file, in which no name occurs twice if every name
\* was in the table.
LEMMA WriteStep ==
    ASSUME SoundInv, NEW cloning \in BOOLEAN, CloseAndWrite(cloning)
    PROVE  IsArchiveFile(disk') /\ (NamesOK => DiskNamesUnique')
<1> DEFINE n == Cardinality(Survivors)
           I == 0..(n - 1)
           W(i) == IF i \in Kept(cloning) THEN InPlace(entry[i])
                   ELSE Written(Prepared(entry[i]))
<1>1. TableOK /\ TableSound /\ comment_orig \in MaybeComment
      /\ comment_changes \in MaybeComment
  BY DEF SoundInv, TypeOK, TableOK, TableType
<1>2. PICK f \in Filelists :
        disk' = [nfiles |-> n, files |-> [j \in DOMAIN f |-> W(f[j])],
                 comment |-> IF WantTorrentzip THEN NULL ELSE ArchiveComment,
                 torrentzip |-> WantTorrentzip]
  BY DEF CloseAndWrite
<1>3. /\ n \in 0..nentry /\ n \in 0..MaxEntries
      /\ f \in [I -> Survivors]
      /\ \A j, k \in I : f[j] = f[k] => j = k
  <2>1. /\ Cardinality(Survivors) \in 0..nentry
        /\ f \in [0..(Cardinality(Survivors) - 1) -> Survivors]
        /\ \A j, k \in 0..(Cardinality(Survivors) - 1) : f[j] = f[k] => j = k
    BY <1>1, FilelistType
  <2>2. nentry \in 0..MaxEntries
    BY <1>1 DEF TableOK
  <2>3. QED
    BY <2>1, <2>2, BoundAssumption
<1>4. \A i \in Survivors : W(i) \in File /\ W(i).filename = Key(entry[i])
  <2> TAKE i \in Survivors
  <2>1. /\ i \in Indices /\ entry[i] \in Entry /\ Sound(entry[i])
        /\ ~entry[i].deleted /\ CanBeWritten(entry[i])
    BY <1>1 DEF Survivors, TableOK, TableSound, CloseAndWrite
  <2>2. Alike(entry[i], Prepared(entry[i]))
    BY <2>1, PreparedKeeps
  <2>3. ~Prepared(entry[i]).deleted /\ CanBeWritten(Prepared(entry[i]))
    BY <2>1 DEF Prepared, CanBeWritten, Entry
  <2>4. Written(entry[i]) \in File /\ Written(entry[i]).filename = Key(entry[i])
    BY <2>1, WrittenType
  <2>5. /\ Written(Prepared(entry[i])) \in File
        /\ Written(Prepared(entry[i])).filename = Key(entry[i])
    BY <2>2, <2>3, WrittenType DEF Alike
  <2>6. ASSUME i \in Kept(cloning)
        PROVE  InPlace(entry[i]) \in File /\ InPlace(entry[i]).filename = Key(entry[i])
    <3>1. entry[i].orig # NULL
      BY <2>6 DEF Kept
    <3>2. entry[i].orig.data \in Contents
      BY <2>1, <3>1 DEF Entry, File
    <3>3. QED
      BY <2>4, <3>2 DEF InPlace, File
  <2>7. QED
    BY <2>5, <2>6
<1> HIDE DEF W, n
<1>5. DOMAIN f = I
  BY <1>3
<1>6. /\ disk'.files \in [I -> File]
      /\ disk'.nfiles = n
      /\ \A j \in I : disk'.files[j].filename = Key(entry[f[j]])
  BY <1>2, <1>3, <1>4, <1>5
<1>7. IsArchiveFile(disk')
  <2>1. (IF WantTorrentzip THEN NULL ELSE ArchiveComment) \in MaybeComment
    BY <1>1 DEF ArchiveComment, MaybeComment
  <2>2. disk' \in ArchiveFile(n)
    BY <1>2, <1>6, <2>1 DEF ArchiveFile, WantTorrentzip
  <2>3. QED
    BY <1>3, <2>2 DEF IsArchiveFile
<1>8. ASSUME NamesOK, NEW j \in I, NEW k \in I,
             Key(entry[f[j]]) = Key(entry[f[k]]), Key(entry[f[j]]) # Empty
      PROVE  j = k
  <2>1. f[j] \in Indices /\ f[k] \in Indices
    BY <1>3 DEF Survivors
  <2>2. Key(entry[f[j]]) \in Names
    BY <1>1, <1>8, <2>1, HasDirentFacts DEF AllNames
  <2>3. f[j] = f[k]
    BY <1>1, <1>8, <2>1, <2>2 DEF NamesOK
  <2>4. QED
    BY <1>3, <2>3
<1>9. NamesOK => DiskNamesUnique'
  BY <1>6, <1>8 DEF DiskNamesUnique
<1>10. QED
  BY <1>7, <1>9

(***************************************************************************)
(* The invariant is inductive.                                             *)
(***************************************************************************)

\* No archive file that a session may find has two files of one name; the
\* code opens such a file, but then keeps only the first one in the table.
InitialNamesUnique ==
    \A f \in InitialDisk : f # NULL =>
        \A j, k \in 0..(f.nfiles - 1) :
            f.files[j].filename = f.files[k].filename =>
                j = k \/ f.files[j].filename = Empty

\* Initially there is no struct zip, so the invariants hold.
LEMMA InitIInv == Init => SoundInv /\ (InitialNamesUnique => IInv)
<1> SUFFICES ASSUME Init PROVE SoundInv /\ (InitialNamesUnique => IInv)
  OBVIOUS
<1>1. nentry = 0 /\ Indices = {} /\ entry = [i \in {} |-> NewEntry]
      /\ names = [n \in AllNames |-> NoNode]
  BY DEF Init, Indices
<1>2. TableOK /\ NamesOK
  BY <1>1, BoundAssumption DEF TableOK, TableType, NamesOK, NoNode
<1>3. (InitialNamesUnique => DiskNamesUnique) /\ (disk = NULL \/ IsArchiveFile(disk))
  BY DiskAssumption DEF Init, InitialNamesUnique, DiskNamesUnique
<1>4. TypeOK
  BY <1>2, <1>3, TypeOKParts DEF Init, MaybeComment
<1>5. QED
  BY <1>2, <1>3, <1>4, NamesOKIsSound DEF IInv, SoundInv

\* The part of TypeOK that most calls leave alone.
HeaderOK ==
    /\ disk = NULL \/ IsArchiveFile(disk)
    /\ is_open \in BOOLEAN
    /\ open_flags \subseteq {"RDONLY", "TRUNCATE"}
    /\ flags \subseteq ArchiveFlags
    /\ ch_flags \subseteq ArchiveFlags
    /\ comment_orig \in MaybeComment
    /\ comment_changes \in MaybeComment
    /\ comment_changed \in BOOLEAN

\* Type correctness splits into the header's and the table's.
LEMMA TypeOKHeader == TypeOK <=> HeaderOK /\ TableOK
BY TypeOKParts DEF HeaderOK

\* The same of the next state.
LEMMA TypeOKHeaderPrime == TypeOK' <=> HeaderOK' /\ TableOK'
<1>1. TypeOK <=> HeaderOK /\ TableOK
  BY TypeOKHeader
<1>2. QED
  BY <1>1, PTL

\* A call that touches only entries and table keeps the header's type.
LEMMA HeaderUnchanged ==
    ASSUME HeaderOK, UNCHANGED <<disk, is_open, ch_flags, archiveVars>>
    PROVE  HeaderOK'
BY DEF HeaderOK, archiveVars

\* zip_discard leaves a well-typed header.
LEMMA FreeHeader ==
    ASSUME FreeArchive, disk' = NULL \/ IsArchiveFile(disk')
    PROVE  HeaderOK'
BY DEF FreeArchive, HeaderOK, MaybeComment, ArchiveFlags

\* A call that does not write the file keeps its names unique.
LEMMA DiskUnchanged ==
    ASSUME DiskNamesUnique, disk' = disk
    PROVE  DiskNamesUnique'
BY DEF DiskNamesUnique

\* What a call keeps: the types and a sound table, and for a program that has been
\* careful so far unique names in the table and in the file.
KeepsInv ==
    /\ SoundInv'
    /\ NamesOK /\ DiskNamesUnique => NamesOK' /\ DiskNamesUnique'

\* Every call but giving a method keeps that, one step per action of Call.
LEMMA CallKeeps == SoundInv /\ (Call \/ UNCHANGED vars) => KeepsInv
<1> SUFFICES ASSUME SoundInv, Call \/ UNCHANGED vars PROVE KeepsInv
  OBVIOUS
<1> USE TypeOKHeader, TypeOKHeaderPrime DEF SoundInv
<1>0. /\ HeaderOK /\ TableOK /\ TableSound
      /\ Sources \subseteq Contents /\ NoData \in Contents
      /\ Names \subseteq AllNames
  BY DataAssumption DEF AllNames
\* A call that changes only entries and names keeps the rest.
<1>1. ASSUME UNCHANGED <<disk, is_open, ch_flags, archiveVars>>, KeepsTable
      PROVE  KeepsInv
  BY <1>0, <1>1, HeaderUnchanged, DiskUnchanged DEF KeepsTable, KeepsInv
\* A call that replaces one entry by an alike one.
<1>2. ASSUME NEW i \in Indices, NEW r, Alike(entry[i], r),
             entry' = [entry EXCEPT ![i] = r], UNCHANGED <<nentry, names>>,
             UNCHANGED <<disk, is_open, ch_flags, archiveVars>>
      PROVE  KeepsInv
  BY <1>0, <1>1, <1>2, OneEntryStep
<1>3. ASSUME NEW oflags \in SUBSET {"RDONLY", "TRUNCATE"}, Open(oflags)
      PROVE  KeepsInv
  <2>1. disk' = disk
    BY <1>3 DEF Open
  <2>2. QED
    BY <1>0, <1>3, <2>1, OpenStep, DiskUnchanged DEF KeepsInv
<1>4. ASSUME NEW n \in Names, NEW d \in Sources, FileAdd(n, d)
      PROVE  KeepsInv
  <2> DEFINE e == Replaced(Renamed(NewEntry, n), d)
  <2>1. e \in Entry /\ EntryOK(e) /\ e.orig = NULL /\ Key(e) = n
    BY <1>0, NewEntryType, RenamedType, ReplacedKeeps DEF Alike, EntryOK
  <2>2. AddEntry(n, e) /\ UNCHANGED <<disk, is_open, ch_flags, archiveVars>>
    BY <1>4 DEF FileAdd
  <2> HIDE DEF e
  <2>3. KeepsTable
    BY <1>0, <2>1, <2>2, NewEntryStep DEF AddEntry
  <2>4. QED
    BY <1>1, <2>2, <2>3
<1>5. ASSUME NEW i, NEW d \in Sources, FileReplace(i, d)
      PROVE  KeepsInv
  <2>1. /\ i \in Indices /\ HasDirent(entry[i])
        /\ entry' = [entry EXCEPT ![i] = Replaced(entry[i], d)]
        /\ UNCHANGED <<nentry, names>>
        /\ UNCHANGED <<disk, is_open, ch_flags, archiveVars>>
    BY <1>5 DEF FileReplace
  <2>2. entry[i] \in Entry /\ Sound(entry[i])
    BY <1>0, <2>1, HasDirentFacts
  <2>3. Alike(entry[i], Replaced(entry[i], d))
    BY <1>0, <2>1, <2>2, ReplacedKeeps
  <2>4. QED
    BY <1>2, <2>1, <2>3
<1>6. ASSUME NEW n \in Names, NEW d \in Sources, FileOverwrite(n, d)
      PROVE  KeepsInv
  BY <1>5, <1>6 DEF FileOverwrite
<1>7. ASSUME NEW n \in Names, DirAdd(n)
      PROVE  KeepsInv
  <2> DEFINE e == Replaced(Renamed(NewEntry, n), NoData)
             r == IF WantTorrentzip THEN [Unchanged(e) EXCEPT !.deleted = TRUE]
                  ELSE WithAttributes(e, DirAttr)
             added == NamesAfterRename(names, NewEntry, nentry, n)
  <2>1. e \in Entry /\ EntryOK(e) /\ e.orig = NULL /\ Key(e) = n /\ HasDirent(e)
    <3>1. Alike(Renamed(NewEntry, n), e)
      BY <1>0, NewEntryType, RenamedType, ReplacedKeeps DEF EntryOK
    <3>2. /\ Key(Renamed(NewEntry, n)) = n /\ Renamed(NewEntry, n).orig = NULL
          /\ EntryOK(Renamed(NewEntry, n))
      BY <1>0, NewEntryType, RenamedType DEF EntryOK
    <3>3. n # Empty
      BY NamesAssumption
    <3> HIDE DEF e
    <3>4. QED
      BY <3>1, <3>2, <3>3 DEF Alike, Key
  <2>2. /\ UNCHANGED <<disk, is_open, ch_flags, archiveVars>>
        /\ nentry < MaxEntries /\ HashLookup(names, n) = NoIndex
        /\ nentry' = nentry + 1
        /\ entry' = [i \in 0..nentry |-> IF i = nentry THEN r ELSE entry[i]]
        /\ names' = IF WantTorrentzip THEN HashDelete(added, n) ELSE added
    BY <1>7 DEF DirAdd, AddEntry
  <2>3. CASE WantTorrentzip
    <3>1. r \in Entry /\ EntryOK(r) /\ r.orig = NULL /\ Key(r) = Empty
      BY <2>1, <2>3, UnchangedType
    <3> HIDE DEF r
    <3>2. KeepsTable
      BY <1>0, <2>2, <2>3, <3>1, NewEntryStep
    <3>3. QED
      BY <1>1, <2>2, <3>2
  <2>4. CASE ~WantTorrentzip
    <3>1. r \in Entry /\ EntryOK(r) /\ r.orig = NULL /\ Key(r) = n
      BY <2>1, <2>4, AttrsType, WithAttributesKeeps DEF Alike, EntryOK
    <3> HIDE DEF r
    <3>2. KeepsTable
      BY <1>0, <2>2, <2>4, <3>1, NewEntryStep
    <3>3. QED
      BY <1>1, <2>2, <3>2
  <2>5. QED
    BY <2>3, <2>4
<1>8. ASSUME NEW n \in Names, DirOverwrite(n)
      PROVE  KeepsInv
  <2> DEFINE i == HashLookup(names, n)
             e == Replaced(entry[i], NoData)
  <2>1. i \in Indices /\ HasDirent(entry[i])
        /\ UNCHANGED <<disk, is_open, ch_flags, nentry, archiveVars>>
    BY <1>0, <1>8 DEF DirOverwrite, HashLookup, TableOK, TableType
  <2>2. entry[i] \in Entry /\ Sound(entry[i]) /\ NameOf(entry[i]) = Key(entry[i])
    BY <1>0, <2>1, HasDirentFacts
  <2>3. Key(entry[i]) = n
    BY <1>0, <2>1 DEF TableSound, HashLookup
  <2>4. Alike(entry[i], e)
    BY <1>0, <2>1, <2>2, ReplacedKeeps
  <2>5. CASE WantTorrentzip
    <3>1. /\ names' = HashDelete(names, NameOf(entry[i]))
          /\ entry' = [entry EXCEPT ![i] = [Unchanged(e) EXCEPT !.deleted = TRUE]]
      BY <1>8, <2>2, <2>3, <2>5 DEF DirOverwrite
    <3> HIDE DEF e, i
    <3>2. KeepsTable
      BY <1>0, <2>1, <2>4, <3>1, DeleteStep DEF Alike
    <3>3. QED
      BY <1>1, <2>1, <3>2
  <2>6. CASE ~WantTorrentzip
    <3>1. entry' = [entry EXCEPT ![i] = WithAttributes(e, DirAttr)] /\ names' = names
      BY <1>8, <2>6 DEF DirOverwrite
    <3>2. HasDirent(e) /\ e \in Entry /\ Sound(e)
      <4>1. n # Empty
        BY NamesAssumption
      <4> HIDE DEF e
      <4>2. QED
        BY <2>3, <2>4, <4>1 DEF Alike, Key
    <3>3. Alike(e, WithAttributes(e, DirAttr))
      BY <3>2, AttrsType, WithAttributesKeeps
    <3>4. Alike(entry[i], WithAttributes(e, DirAttr))
      BY <2>4, <3>3 DEF Alike
    <3> HIDE DEF e, i
    <3>5. QED
      BY <1>2, <2>1, <3>1, <3>4
  <2>7. QED
    BY <2>5, <2>6
<1>9. ASSUME NEW i \in Indices, NEW n \in Names, FileRename(i, n)
      PROVE  KeepsInv
  BY <1>0, <1>1, <1>9, FileRenameStep DEF FileRename
<1>10. ASSUME NEW i \in Indices, NEW c \in MaybeComment, SetComment(i, c)
       PROVE  KeepsInv
  BY <1>0, <1>2, <1>10, HasDirentFacts, CommentedKeeps DEF SetComment
<1>11. ASSUME NEW i \in Indices, NEW a \in Attrs, SetAttributes(i, a)
       PROVE  KeepsInv
  <2>1. a \in AllAttrs
    BY DEF AllAttrs
  <2>2. QED
    BY <1>0, <1>2, <1>11, <2>1, HasDirentFacts, WithAttributesKeeps DEF SetAttributes
\* The setters that ask for a directory entry.
<1>marks. ASSUME NEW i \in Indices, SetTime(i) \/ SetExtraFields(i)
       PROVE  KeepsInv
  <2>1. HasDirent(entry[i]) /\ SetMark(i)
    BY <1>marks DEF SetTime, SetExtraFields
  <2>2. KeepsTable
    BY <1>0, <2>1, MarkStep DEF SetMark, KeepsTable
  <2>3. QED
    BY <1>1, <2>1, <2>2 DEF SetMark
<1>12. ASSUME NEW i \in Indices, Delete(i)
       PROVE  KeepsInv
  <2>1. entry[i] \in Entry
    BY <1>0, HasDirentFacts
  <2>2. KeepsTable
    BY <1>0, <1>12, <2>1, DeleteStep DEF Delete
  <2>3. QED
    BY <1>1, <1>12, <2>2 DEF Delete
<1>13. ASSUME NEW i \in Indices, Unchange(i)
       PROVE  KeepsInv
  BY <1>0, <1>1, <1>13, UnchangeStep DEF Unchange
<1>14. CASE UnchangeAll
  <2>1. KeepsTable
    BY <1>0, <1>14, UnchangeAllStep DEF UnchangeAll
  <2>2. HeaderOK' /\ disk' = disk
    BY <1>0, <1>14 DEF UnchangeAll, RevertComment, HeaderOK, MaybeComment
  <2>3. QED
    BY <1>0, <2>1, <2>2, DiskUnchanged DEF KeepsTable, KeepsInv
\* A call that changes neither entries nor names.
<1>15. ASSUME HeaderOK', UNCHANGED <<disk, nentry, entry, names>>
       PROVE  KeepsInv
  <2>1. Indices' = Indices
    BY <1>15 DEF Indices
  <2>2. TableOK' /\ TableSound' /\ (NamesOK => NamesOK')
    BY <1>0, <1>15, <2>1 DEF TableOK, TableSound, NamesOK
  <2>3. QED
    BY <1>0, <1>15, <2>2, DiskUnchanged DEF KeepsInv
<1>16. CASE UnchangeArchive
  BY <1>0, <1>15, <1>16 DEF UnchangeArchive, RevertComment, HeaderOK, MaybeComment
<1>17. ASSUME NEW c \in MaybeComment, SetArchiveComment(c)
       PROVE  KeepsInv
  BY <1>0, <1>15, <1>17 DEF SetArchiveComment, HeaderOK, MaybeComment
<1>18. ASSUME NEW f \in UserFlags, NEW value \in BOOLEAN, SetArchiveFlag(f, value)
       PROVE  KeepsInv
  BY <1>0, <1>15, <1>18, FlagsAssumption DEF SetArchiveFlag, HeaderOK, archiveVars
\* A call that frees the archive.
<1>19. ASSUME FreeArchive, disk' = NULL \/ IsArchiveFile(disk'),
              NamesOK /\ DiskNamesUnique => DiskNamesUnique'
       PROVE  KeepsInv
  BY <1>19, FreeStep, FreeHeader DEF KeepsInv
<1>20. ASSUME FreeArchive, disk' = disk
       PROVE  KeepsInv
  BY <1>0, <1>19, <1>20, DiskUnchanged DEF HeaderOK
<1>21. ASSUME NEW cloning \in BOOLEAN, CloseAndWrite(cloning)
       PROVE  KeepsInv
  BY <1>19, <1>21, WriteStep DEF CloseAndWrite
<1>22. CASE CloseAndRemove
  <2>1. CASE disk' = NULL
    BY <1>19, <1>22, <2>1 DEF CloseAndRemove, DiskNamesUnique
  <2>2. CASE disk' = disk
    BY <1>20, <1>22, <2>2 DEF CloseAndRemove
  <2>3. QED
    BY <1>22, <2>1, <2>2 DEF CloseAndRemove
<1>23. CASE CloseUnchanged
  BY <1>20, <1>23 DEF CloseUnchanged
<1>24. CASE Discard
  BY <1>20, <1>24 DEF Discard
<1>25. ASSUME NEW cloning \in BOOLEAN, NEW started \in SUBSET Indices,
              CloseFails(cloning, started)
       PROVE  KeepsInv
  <2> DEFINE f == [i \in Indices |-> IF i \in started \ Kept(cloning)
                                    THEN Prepared(entry[i]) ELSE entry[i]]
  <2>1. ASSUME NEW i \in Indices
        PROVE  Alike(entry[i], f[i])
    <3>1. entry[i] \in Entry /\ Sound(entry[i])
      BY <1>0, HasDirentFacts
    <3>2. Alike(entry[i], entry[i])
      BY <3>1 DEF Alike
    <3>3. i \in started => Alike(entry[i], Prepared(entry[i]))
      BY <1>25, <3>1, PreparedKeeps DEF CloseFails, Survivors
    <3>4. QED
      BY <3>2, <3>3
  <2>2. entry' = f
    BY <1>25 DEF CloseFails
  <2>3. entry' = [i \in Indices |-> f[i]]
    BY <2>2
  <2>4. UNCHANGED <<nentry, names>> /\ UNCHANGED <<disk, is_open, ch_flags, archiveVars>>
    BY <1>25 DEF CloseFails
  <2> HIDE DEF f
  <2>5. KeepsTable
    BY <1>0, <2>1, <2>3, <2>4, EntriesStep
  <2>6. QED
    BY <1>1, <2>4, <2>5
<1>26. CASE UNCHANGED vars
  BY <1>0, <1>15, <1>26, HeaderUnchanged DEF vars
<1>27. CASE Edit
  BY <1>27, <1>4, <1>5, <1>6, <1>7, <1>8, <1>9, <1>10, <1>11, <1>12, <1>13, <1>14,
     <1>16, <1>17, <1>18, <1>marks DEF Edit
<1>28. CASE Close
  BY <1>28, <1>21, <1>22, <1>23, <1>25 DEF Close, CloseSucceeds
<1>29. QED
  BY <1>3, <1>24, <1>26, <1>27, <1>28 DEF Call

\* Giving a method to any entry keeps the types and a sound table ...
LEMMA MethodKeeps ==
    ASSUME SoundInv, NEW i \in Indices, SetMethod(i)
    PROVE  /\ SoundInv'
           /\ i \in Survivors => KeepsInv
<1> USE TypeOKHeader, TypeOKHeaderPrime DEF SoundInv
<1>1. /\ HeaderOK /\ TableOK /\ TableSound
  OBVIOUS
<1>2. /\ entry' = [entry EXCEPT ![i] = Marked(entry[i])] /\ UNCHANGED <<nentry, names>>
      /\ UNCHANGED <<disk, is_open, ch_flags, archiveVars>>
  BY DEF SetMethod, SetFileCompression, SetFileEncryption, SetMark
<1>3. /\ TableOK' /\ TableSound'
      /\ i \in Survivors => (NamesOK => NamesOK')
  BY <1>1, <1>2, MarkStep DEF Survivors
<1>4. HeaderOK' /\ (DiskNamesUnique => DiskNamesUnique')
  BY <1>1, <1>2, HeaderUnchanged, DiskUnchanged
<1>5. QED
  BY <1>3, <1>4 DEF KeepsInv

\* ... so they hold whatever a program calls.
LEMMA NextSound == SoundInv /\ [Next]_vars => SoundInv'
BY CallKeeps, MethodKeeps DEF Next, KeepsInv

\* A careful program also keeps every name in the table.
LEMMA NextIInv == IInv /\ [CarefulNext]_vars => IInv'
<1> SUFFICES ASSUME IInv, [CarefulNext]_vars PROVE IInv'
  OBVIOUS
<1>1. SoundInv
  BY NamesOKIsSound DEF IInv, SoundInv
<1>2. \A i \in Survivors : i \in Indices
  BY DEF Survivors
<1>3. KeepsInv
  BY <1>1, <1>2, CallKeeps, MethodKeeps DEF CarefulNext
<1>4. QED
  BY <1>3 DEF KeepsInv, IInv, SoundInv

\* Whatever a program calls, the table never leads to an entry of another name.
LEMMA SoundInvHolds == Spec => []SoundInv
<1>1. Init => SoundInv
  BY InitIInv
<1>2. QED
  BY <1>1, NextSound, PTL DEF Spec

\* The calls of a careful program are calls of a program.
LEMMA CarefulIsAny == CarefulSpec => Spec
<1>1. [CarefulNext]_vars => [Next]_vars
  BY DEF CarefulNext, Next, Survivors
<1>2. QED
  BY <1>1, PTL DEF CarefulSpec, Spec

\* The invariant holds after any calls of a careful program in any number of
\* sessions.
THEOREM IInvHolds == InitialNamesUnique => (CarefulSpec => []IInv)
<1> SUFFICES ASSUME InitialNamesUnique PROVE CarefulSpec => []IInv
  OBVIOUS
<1>1. Init => IInv
  BY InitIInv
<1>2. QED
  BY <1>1, NextIInv, PTL DEF CarefulSpec

(***************************************************************************)
(* The theorems.                                                           *)
(***************************************************************************)

\* Every variable keeps its type, whatever the program calls and whatever archive
\* it opens: no entry has fields that its struct does not have, no index in the
\* table is out of range and what zip_close writes is an archive file.
THEOREM TypeCorrect == Spec => []TypeOK
<1>1. SoundInv => TypeOK
  BY DEF SoundInv
<1>2. QED
  BY <1>1, SoundInvHolds, PTL

\* What zip_name_locate and zip_unchange_all need follows from the invariant.
LEMMA NamesOKGivesLocate ==
    IInv => LocateFindsEveryName /\ RevertGivesOpenedNames
<1> SUFFICES ASSUME IInv
             PROVE  LocateFindsEveryName /\ RevertGivesOpenedNames
  OBVIOUS
<1>0. TableOK /\ TableSound /\ NamesOK
  BY TypeOKHeader, NamesOKIsSound DEF IInv
<1>1. LocateFindsEveryName
  <2> SUFFICES ASSUME NEW i \in Visible, NameOf(entry[i]) # Empty
               PROVE  HashLookup(names, NameOf(entry[i])) = i
    BY DEF LocateFindsEveryName
  <2>1. i \in Indices /\ NameOf(entry[i]) = Key(entry[i]) /\ Key(entry[i]) \in AllNames
    BY <1>0, HasDirentFacts DEF Visible
  <2>2. QED
    BY <1>0, <2>1 DEF NamesOK, HashLookup, AllNames
<1>2. RevertGivesOpenedNames
  <2> SUFFICES ASSUME NEW i \in Indices, entry[i].orig # NULL,
                      entry[i].orig.filename # Empty
               PROVE  HashLookup(HashRevert(names), entry[i].orig.filename) = i
    BY DEF RevertGivesOpenedNames
  <2> DEFINE o == OrigKey(entry[i])
  <2>1. o = entry[i].orig.filename /\ o \in Names /\ o \in AllNames
    BY <1>0, HasDirentFacts DEF OrigKey, AllNames
  <2>2. names[o].orig_index = i
    BY <1>0, <2>1 DEF NamesOK
  <2>3. HashRevert(names)[o].current_index = names[o].orig_index
    BY <1>0, <2>1, HashRevertType DEF TableOK
  <2>4. QED
    BY <2>1, <2>2, <2>3 DEF HashLookup
<1>3. QED
  BY <1>1, <1>2

\* What ZIP_FL_OVERWRITE needs follows from a sound table.
LEMMA SoundGivesOnlyThatName == SoundInv => LocateFindsOnlyThatName
<1> SUFFICES ASSUME SoundInv, NEW n \in Names, HashLookup(names, n) # NoIndex
             PROVE  /\ HashLookup(names, n) \in Visible
                    /\ NameOf(entry[HashLookup(names, n)]) = n
  BY DEF LocateFindsOnlyThatName, LocatesOnlyNamesake
<1>0. TableOK /\ TableSound
  BY TypeOKHeader DEF SoundInv
<1>1. HashLookup(names, n) \in Indices
  BY <1>0 DEF TableOK, TableType, HashLookup, AllNames
<1>2. Key(entry[HashLookup(names, n)]) = n /\ n # Empty
  BY <1>0, <1>1, NamesAssumption DEF TableSound, HashLookup
<1>3. QED
  BY <1>1, <1>2 DEF Key, Visible

\* After any calls of a careful program in any number of sessions the name table
\* leads from every name to the entry that has it (zip_name_locate).
THEOREM EveryNameIsFound == InitialNamesUnique => (CarefulSpec => []LocateFindsEveryName)
BY IInvHolds, NamesOKGivesLocate, PTL

\* Whatever a program calls, it leads to no entry of another name, so that
\* ZIP_FL_OVERWRITE replaces the file that has the name: also after a deleted entry
\* was given a method, and in archives that have one name twice.
THEOREM OnlyThatNameIsFound == Spec => []LocateFindsOnlyThatName
BY SoundInvHolds, SoundGivesOnlyThatName, PTL

\* zip_unchange_all can always give back the names of the opened archive to a
\* careful program.
THEOREM RevertIsPossible == InitialNamesUnique => (CarefulSpec => []RevertGivesOpenedNames)
BY IInvHolds, NamesOKGivesLocate, PTL

\* zip_close of a careful program never writes two files of one name.
THEOREM WrittenNamesAreUnique == InitialNamesUnique => (CarefulSpec => []DiskNamesUnique)
BY IInvHolds, PTL DEF IInv

(***************************************************************************)
(* Read-only archives.  The flags of an archive opened with ZIP_RDONLY     *)
(* cannot be changed, so nothing makes zip_close write.                    *)
(***************************************************************************)

ReadOnlyInv ==
    /\ ReadOnlyHasNoChanges
    /\ "RDONLY" \in flags => /\ ch_flags = flags
                            /\ flags \subseteq {"RDONLY", "IS_TORRENTZIP"}
                            /\ "TRUNCATE" \notin open_flags

\* _zip_unchange leaves no change.
LEMMA UnchangedHasNoChanges ==
    ASSUME NEW e PROVE ~HasChanges(Unchanged(e))
BY DEF Unchanged, NewEntry, HasChanges

\* What zip_close does to an entry before writing it marks no change.
LEMMA PreparedHasNoNewChanges ==
    ASSUME NEW e \in Entry PROVE HasChanges(Prepared(e)) => HasChanges(e)
<1>1. ChangesOf(e) \in Dirent /\ e.orig \in File \cup {NULL}
      /\ e.changes \in Dirent \cup {NULL}
  BY ChangesOfType DEF Entry
<1>2. /\ Prepared(e).source = e.source /\ Prepared(e).deleted = e.deleted
      /\ Prepared(e).changes.changed = ChangesOf(e).changed
  BY <1>1 DEF Prepared, Entry, Dirent
<1>3. e.changes = NULL => ChangesOf(e).changed = {}
  BY <1>1, CloneType DEF ChangesOf
<1>4. QED
  BY <1>2, <1>3 DEF HasChanges, ChangesOf

\* Every call keeps a read-only archive without changes.
LEMMA NextReadOnly == SoundInv /\ ReadOnlyInv /\ [Next]_vars => ReadOnlyInv'
<1> SUFFICES ASSUME SoundInv, ReadOnlyInv, [Next]_vars PROVE ReadOnlyInv'
  OBVIOUS
<1>0. TableOK /\ nentry \in Nat
  BY TypeOKHeader, BoundAssumption DEF SoundInv, TableOK
\* A call that needs a writable archive.
<1>1. ASSUME Writable, UNCHANGED <<open_flags, flags, ch_flags>>
      PROVE  ReadOnlyInv'
  BY <1>1 DEF Writable, ReadOnlyInv, ReadOnlyHasNoChanges
\* A call that changes no entry, or only takes changes away.
<1>2. ASSUME nentry' = nentry, comment_changed' => comment_changed,
             \A i \in Indices : HasChanges(entry'[i]) => HasChanges(entry[i]),
             UNCHANGED <<open_flags, flags>>,
             \/ ch_flags' = ch_flags
             \/ ch_flags' = flags
      PROVE  ReadOnlyInv'
  BY <1>2 DEF ReadOnlyInv, ReadOnlyHasNoChanges, Indices
<1>3. ASSUME FreeArchive
      PROVE  ReadOnlyInv'
  BY <1>3 DEF FreeArchive, ReadOnlyInv, ReadOnlyHasNoChanges
<1>4. ASSUME NEW oflags \in SUBSET {"RDONLY", "TRUNCATE"}, Open(oflags)
      PROVE  ReadOnlyInv'
  <2>1. \A i \in Indices' : ~HasChanges(entry'[i])
    BY <1>4 DEF Open, Indices, NewEntry, HasChanges
  <2>2. /\ ch_flags' = flags' /\ flags' \subseteq {"RDONLY", "IS_TORRENTZIP"}
        /\ "RDONLY" \in flags' => "TRUNCATE" \notin open_flags'
        /\ comment_changed' = FALSE
    BY <1>4 DEF Open
  <2>3. QED
    BY <2>1, <2>2 DEF ReadOnlyInv, ReadOnlyHasNoChanges
<1>5. ASSUME NEW i \in Indices, Unchange(i)
      PROVE  ReadOnlyInv'
  <2>1. \A j \in Indices : entry'[j] = IF j = i THEN Unchanged(entry[i]) ELSE entry[j]
    BY <1>0, <1>5 DEF Unchange, TableOK
  <2>2. QED
    BY <1>2, <1>5, <2>1, UnchangedHasNoChanges DEF Unchange, archiveVars
<1>6. CASE UnchangeAll
  BY <1>2, <1>6, UnchangedHasNoChanges DEF UnchangeAll, RevertComment
<1>7. CASE UnchangeArchive
  BY <1>2, <1>7 DEF UnchangeArchive, RevertComment
<1>8. ASSUME NEW f \in UserFlags, NEW value \in BOOLEAN, SetArchiveFlag(f, value)
      PROVE  ReadOnlyInv'
  <2>1. "RDONLY" \notin flags /\ UNCHANGED <<nentry, entry, flags, open_flags, comment_changed>>
    BY <1>8 DEF SetArchiveFlag, archiveVars
  <2>2. "RDONLY" \in ch_flags' => "RDONLY" \in ch_flags \/ ~Changed
    BY <1>8 DEF SetArchiveFlag
  <2>3. QED
    BY <2>1, <2>2 DEF ReadOnlyInv, ReadOnlyHasNoChanges, Changed, Indices
<1>9. CASE Close
  <2>1. ASSUME NEW cloning \in BOOLEAN, NEW started \in SUBSET Indices,
               CloseFails(cloning, started)
        PROVE  ReadOnlyInv'
    <3>1. \A i \in Indices : entry[i] \in Entry
      BY <1>0 DEF TableOK
    <3>2. \A i \in Indices : HasChanges(entry'[i]) => HasChanges(entry[i])
      BY <2>1, <3>1, PreparedHasNoNewChanges DEF CloseFails
    <3>3. QED
      BY <1>2, <2>1, <3>2 DEF CloseFails, archiveVars
  <2>2. CASE CloseSucceeds
    BY <1>3, <2>2 DEF CloseSucceeds, CloseAndWrite, CloseAndRemove, CloseUnchanged
  <2>3. QED
    BY <1>9, <2>1, <2>2 DEF Close
<1>10. CASE Discard
  BY <1>3, <1>10 DEF Discard
<1>11. CASE UNCHANGED vars
  BY <1>2, <1>11 DEF vars, archiveVars
<1>12. CASE Edit
  <2>1. ASSUME NEW n \in Names, NEW d \in Sources, FileAdd(n, d) \/ FileOverwrite(n, d)
        PROVE  ReadOnlyInv'
    BY <1>1, <2>1 DEF FileAdd, FileOverwrite, FileReplace, archiveVars
  <2>2. ASSUME NEW n \in Names, DirAdd(n) \/ DirOverwrite(n)
        PROVE  ReadOnlyInv'
    BY <1>1, <2>2 DEF DirAdd, DirOverwrite, archiveVars
  <2>3. ASSUME NEW i \in Indices, NEW d \in Sources, FileReplace(i, d)
        PROVE  ReadOnlyInv'
    BY <1>1, <2>3 DEF FileReplace, archiveVars
  <2>4. ASSUME NEW i \in Indices, NEW n \in Names, FileRename(i, n)
        PROVE  ReadOnlyInv'
    BY <1>1, <2>4 DEF FileRename, archiveVars
  <2>5. ASSUME NEW i \in Indices, NEW c \in MaybeComment, SetComment(i, c)
        PROVE  ReadOnlyInv'
    BY <1>1, <2>5 DEF SetComment, archiveVars
  <2>6. ASSUME NEW i \in Indices, NEW a \in Attrs, SetAttributes(i, a)
        PROVE  ReadOnlyInv'
    BY <1>1, <2>6 DEF SetAttributes, archiveVars
  <2>7. ASSUME NEW i \in Indices, Delete(i)
        PROVE  ReadOnlyInv'
    BY <1>1, <2>7 DEF Delete, archiveVars
  <2>8. ASSUME NEW c \in MaybeComment, SetArchiveComment(c)
        PROVE  ReadOnlyInv'
    BY <1>1, <2>8 DEF SetArchiveComment
  <2>9. ASSUME NEW i \in Indices, SetTime(i) \/ SetExtraFields(i)
        PROVE  ReadOnlyInv'
    BY <1>1, <2>9 DEF SetTime, SetExtraFields, SetMark, archiveVars
  <2>10. QED
    BY <1>12, <1>5, <1>6, <1>7, <1>8, <2>1, <2>2, <2>3, <2>4, <2>5, <2>6, <2>7, <2>8, <2>9
       DEF Edit
<1>13. ASSUME NEW i \in Indices, SetMethod(i)
       PROVE  ReadOnlyInv'
  BY <1>1, <1>13 DEF SetMethod, SetFileCompression, SetFileEncryption, SetMark, archiveVars
<1>14. QED
  BY <1>4, <1>9, <1>10, <1>11, <1>12, <1>13 DEF Next, Call

\* Whether it became read-only by zip_open or by zip_set_archive_flag: while an
\* archive is read-only nothing of it is marked as changed.
THEOREM ReadOnlyIsUnchanged == Spec => []ReadOnlyHasNoChanges
<1>1. Init => ReadOnlyInv
  BY DEF Init, ReadOnlyInv, ReadOnlyHasNoChanges
<1>2. ReadOnlyInv => ReadOnlyHasNoChanges
  BY DEF ReadOnlyInv
<1>3. Spec => []SoundInv
  BY SoundInvHolds
<1>4. QED
  BY <1>1, <1>2, <1>3, NextReadOnly, PTL DEF Spec

\* An archive file that was opened with ZIP_RDONLY is never written.
THEOREM ReadOnlyIsNeverWritten == Spec => ReadOnlyArchiveNeverWritten
<1>1. Init => ReadOnlyInv
  BY DEF Init, ReadOnlyInv, ReadOnlyHasNoChanges
<1>2. SoundInv /\ ReadOnlyInv /\ [Next]_vars => ["RDONLY" \in flags => disk' = disk]_vars
  <2> SUFFICES ASSUME ReadOnlyInv, Next, "RDONLY" \in flags PROVE disk' = disk
    OBVIOUS
  <2>1. ~Changed /\ ~WantTorrentzip /\ "CREATE_OR_KEEP" \notin ch_flags
        /\ "TRUNCATE" \notin open_flags /\ "RDONLY" \in ch_flags
    BY DEF ReadOnlyInv, ReadOnlyHasNoChanges, Changed, WantTorrentzip
  <2>2. CASE \E oflags \in SUBSET {"RDONLY", "TRUNCATE"} : Open(oflags)
    BY <2>2 DEF Open
  <2>3. CASE Edit
    BY <2>3 DEF Edit, FileAdd, FileOverwrite, FileReplace, DirAdd, DirOverwrite, FileRename,
       SetComment, SetAttributes, SetTime, SetExtraFields, SetMark, Delete,
       Unchange, UnchangeAll, UnchangeArchive,
       SetArchiveComment, SetArchiveFlag
  <2>method. CASE \E i \in Indices : SetMethod(i)
    BY <2>method DEF SetMethod, SetFileCompression, SetFileEncryption, SetMark
  <2>4. CASE Close
    <3>1. ~MustWrite
      BY <2>1 DEF MustWrite
    <3>2. QED
      BY <2>1, <2>4, <3>1 DEF Close, CloseSucceeds, CloseAndWrite, CloseAndRemove,
         CloseUnchanged, CloseFails
  <2>5. CASE Discard
    BY <2>5 DEF Discard
  <2>6. QED
    BY <2>2, <2>3, <2>4, <2>5, <2>method DEF Next, Call
<1>3. Spec => []SoundInv
  BY SoundInvHolds
<1>4. QED
  BY <1>1, <1>2, <1>3, NextReadOnly, PTL DEF Spec, ReadOnlyArchiveNeverWritten

(***************************************************************************)
(* What zip_close makes of an archive.  All of it needs to know what a     *)
(* session keeps of the file it was opened from.                           *)
(***************************************************************************)

(***************************************************************************)
(* Entries: what the directory entry of a change says of what did not      *)
(* change.                                                                 *)
(***************************************************************************)

\* A comment of a changed directory entry that is not marked is the original's.  Of
\* the attribute word that is not so: see Normalised.
CommentSeen(e) ==
    e.changes # NULL /\ e.orig # NULL /\ "COMMENT" \notin e.changes.changed =>
        e.changes.comment = e.orig.comment

\* New data comes with a directory entry whose extra fields are marked.
SourceMarked(e) ==
    e.source # NULL => e.changes # NULL /\ "OTHER" \in e.changes.changed

\* No call gives an entry the empty name.
RenamedHasName(e) ==
    e.changes # NULL /\ "FILENAME" \in e.changes.changed => e.changes.filename # Empty

Seen(e) == CommentSeen(e) /\ SourceMarked(e) /\ RenamedHasName(e)

\* c is a directory entry of e that says so.
Says(e, c) ==
    /\ e.source # NULL => "OTHER" \in c.changed
    /\ "FILENAME" \in c.changed => c.filename # Empty
    /\ e.orig # NULL /\ "COMMENT" \notin c.changed => c.comment = e.orig.comment

USE NullAssumption

\* Marking a field keeps the values of the fields.
LEMMA SetFieldSeen ==
    ASSUME NEW c \in Dirent, NEW f \in Fields, NEW differs \in BOOLEAN
    PROVE  /\ SetField(c, f, differs).comment = c.comment
           /\ SetField(c, f, differs).attr = c.attr
BY DEF SetField, Dirent

\* The directory entry that an operation modifies starts like the original.
LEMMA ChangesOfSeen ==
    ASSUME NEW e \in Entry, Seen(e)
    PROVE  LET c == ChangesOf(e)
           IN c \in Dirent /\ Says(e, c)
<1>1. ChangesOf(e) \in Dirent /\ e.orig \in File \cup {NULL}
  BY ChangesOfType DEF Entry
<1>2. QED
  BY <1>1 DEF ChangesOf, Clone, Says, Seen, CommentSeen, SourceMarked, RenamedHasName

\* An entry whose directory entry becomes c, which keeps what Seen says.
LEMMA ChangesSeen ==
    ASSUME NEW e \in Entry, NEW c \in Dirent, Says(e, c)
    PROVE  LET r == [e EXCEPT !.changes = c]
               s == [e EXCEPT !.changes = DropIfUnchanged(c)]
           IN /\ r.orig = e.orig /\ Seen(r)
              /\ s.orig = e.orig /\ Seen(s)
<1> DEFINE r == [e EXCEPT !.changes = c]
           s == [e EXCEPT !.changes = DropIfUnchanged(c)]
<1>1. /\ r.orig = e.orig /\ r.source = e.source /\ r.changes = c
      /\ s.orig = e.orig /\ s.source = e.source /\ s.changes = DropIfUnchanged(c)
  BY DEF Entry
<1> HIDE DEF r, s
<1>2. Seen(r)
  BY <1>1 DEF Says, Seen, CommentSeen, SourceMarked, RenamedHasName
<1>3. Seen(s)
  BY <1>1, DropType DEF Says, Seen, CommentSeen, SourceMarked, RenamedHasName
<1>4. QED
  BY <1>1, <1>2, <1>3 DEF r, s

\* A new entry has nothing that could differ.
LEMMA NewEntrySeen == Seen(NewEntry)
BY DEF NewEntry, Seen, CommentSeen, SourceMarked, RenamedHasName

\* _zip_set_name changes the name alone.
LEMMA RenamedSeen ==
    ASSUME NEW e \in Entry, Seen(e), NEW n \in Names
    PROVE  Renamed(e, n).orig = e.orig /\ Seen(Renamed(e, n))
<1> DEFINE c == ChangesOf(e)
           s == SetField(c, "FILENAME", TRUE)
           s2 == [s EXCEPT !.filename = n]
           t == SetField(c, "FILENAME", FALSE)
           t2 == [t EXCEPT !.filename = n]
<1>1. c \in Dirent /\ Says(e, c)
  BY ChangesOfSeen
<1>2. /\ s \in Dirent /\ s.changed = c.changed \cup {"FILENAME"}
      /\ s.comment = c.comment /\ s.attr = c.attr
      /\ t \in Dirent /\ t.changed = c.changed \ {"FILENAME"}
      /\ t.comment = c.comment /\ t.attr = c.attr
  BY <1>1, SetFieldType, SetFieldSeen DEF Fields
<1>3. /\ s2 \in Dirent /\ s2.changed = s.changed /\ s2.comment = s.comment /\ s2.attr = s.attr
      /\ t2 \in Dirent /\ t2.changed = t.changed /\ t2.comment = t.comment /\ t2.attr = t.attr
      /\ s2.filename = n /\ n # Empty
  BY <1>2, NamesAssumption DEF Dirent, AllNames
<1>4. FieldChanged(e, "FILENAME") => c = e.changes
  BY DEF FieldChanged, ChangesOf
<1>5. \/ Renamed(e, n) = [e EXCEPT !.changes = s2]
      \/ Renamed(e, n) = [e EXCEPT !.changes = DropIfUnchanged(t2)]
      \/ Renamed(e, n) = e
  BY <1>4 DEF Renamed
<1> HIDE DEF c, s, t, s2, t2
<1>6. Says(e, s2)
  BY <1>1, <1>2, <1>3 DEF Says
<1>7. Says(e, t2)
  BY <1>1, <1>2, <1>3 DEF Says
<1>8. QED
  BY <1>3, <1>5, <1>6, <1>7, ChangesSeen

\* A setter of a method, the time or extra fields only marks.
LEMMA MarkedSeen ==
    ASSUME NEW e \in Entry, Seen(e)
    PROVE  Marked(e).orig = e.orig /\ Seen(Marked(e))
<1> DEFINE c == ChangesOf(e)
           s == SetField(c, "OTHER", TRUE)
<1>1. c \in Dirent /\ Says(e, c)
  BY ChangesOfSeen
<1>2. s \in Dirent /\ s.changed = c.changed \cup {"OTHER"}
      /\ s.comment = c.comment /\ s.filename = c.filename
  BY <1>1, SetFieldType, SetFieldSeen DEF Fields
<1>3. Marked(e) = [e EXCEPT !.changes = s]
  BY DEF Marked
<1> HIDE DEF c, s
<1>4. Says(e, s)
  BY <1>1, <1>2 DEF Says
<1>5. QED
  BY <1>2, <1>3, <1>4, ChangesSeen

\* _zip_file_replace marks the extra fields.
LEMMA ReplacedSeen ==
    ASSUME NEW e \in Entry, Seen(e), NEW d \in Contents
    PROVE  Replaced(e, d).orig = e.orig /\ Seen(Replaced(e, d))
<1> DEFINE c == ChangesOf(e)
           s == SetField(c, "OTHER", TRUE)
           r == Replaced(e, d)
<1>1. c \in Dirent /\ Says(e, c)
  BY ChangesOfSeen
<1>2. /\ s \in Dirent /\ s.changed = c.changed \cup {"OTHER"} /\ s # NULL
      /\ s.comment = c.comment /\ s.attr = c.attr /\ s.filename = c.filename
  BY <1>1, SetFieldType, SetFieldSeen DEF Fields
<1>3. r.orig = e.orig /\ r.changes = s
  BY DEF Replaced, Entry
<1> HIDE DEF c, s, r
<1>4. Seen(r)
  BY <1>1, <1>2, <1>3 DEF Says, Seen, CommentSeen, SourceMarked, RenamedHasName
<1>5. QED
  BY <1>3, <1>4 DEF r

\* zip_file_set_comment sets the comment and marks whether it differs.
LEMMA CommentedSeen ==
    ASSUME NEW e \in Entry, Seen(e), NEW m \in MaybeComment
    PROVE  Commented(e, m).orig = e.orig /\ Seen(Commented(e, m))
<1> DEFINE c == ChangesOf(e)
           orig == IF e.orig = NULL THEN NULL ELSE e.orig.comment
           s == SetField(c, "COMMENT", TRUE)
           s2 == [s EXCEPT !.comment = m]
           t == SetField(c, "COMMENT", FALSE)
           t2 == [t EXCEPT !.comment = orig]
<1>0. orig \in MaybeComment
  BY DEF Entry, File, MaybeComment
<1>1. c \in Dirent /\ Says(e, c)
  BY ChangesOfSeen
<1>2. /\ s \in Dirent /\ s.changed = c.changed \cup {"COMMENT"} /\ s.attr = c.attr
      /\ s.filename = c.filename
      /\ t \in Dirent /\ t.changed = c.changed \ {"COMMENT"} /\ t.attr = c.attr
      /\ t.filename = c.filename
  BY <1>1, SetFieldType, SetFieldSeen DEF Fields
<1>3. /\ s2 \in Dirent /\ s2.changed = s.changed /\ s2.attr = s.attr
      /\ s2.filename = s.filename /\ t2.filename = t.filename
      /\ t2 \in Dirent /\ t2.changed = t.changed /\ t2.attr = t.attr /\ t2.comment = orig
  BY <1>0, <1>2 DEF Dirent
<1>4. e.changes # NULL => c = e.changes
  BY DEF ChangesOf
<1>5. \/ Commented(e, m) = [e EXCEPT !.changes = s2]
      \/ Commented(e, m) = [e EXCEPT !.changes = DropIfUnchanged(t2)]
      \/ Commented(e, m) = e
  BY <1>4 DEF Commented
<1>6. e.orig # NULL => t2.comment = e.orig.comment
  BY <1>3
<1> HIDE DEF c, s, t, s2, t2
<1>7. Says(e, s2)
  BY <1>1, <1>2, <1>3 DEF Says
<1>8. Says(e, t2)
  BY <1>1, <1>2, <1>3, <1>6 DEF Says
<1>9. QED
  BY <1>3, <1>5, <1>7, <1>8, ChangesSeen

\* zip_file_set_external_attributes sets the word and marks whether it differs.
LEMMA WithAttributesSeen ==
    ASSUME NEW e \in Entry, Seen(e), NEW a \in AllAttrs
    PROVE  WithAttributes(e, a).orig = e.orig /\ Seen(WithAttributes(e, a))
<1> DEFINE c == ChangesOf(e)
           orig == IF e.orig = NULL THEN DefaultAttr ELSE e.orig.attr
           s == SetField(c, "ATTRIBUTES", TRUE)
           s2 == [s EXCEPT !.attr = a]
           t == SetField(c, "ATTRIBUTES", FALSE)
           t2 == [t EXCEPT !.attr = orig]
<1>0. orig \in AllAttrs
  BY AttrsType DEF Entry, File
<1>1. c \in Dirent /\ Says(e, c)
  BY ChangesOfSeen
<1>2. /\ s \in Dirent /\ s.changed = c.changed \cup {"ATTRIBUTES"} /\ s.comment = c.comment
      /\ s.filename = c.filename
      /\ t \in Dirent /\ t.changed = c.changed \ {"ATTRIBUTES"} /\ t.comment = c.comment
      /\ t.filename = c.filename
  BY <1>1, SetFieldType, SetFieldSeen DEF Fields
<1>3. /\ s2 \in Dirent /\ s2.changed = s.changed /\ s2.comment = s.comment
      /\ s2.filename = s.filename /\ t2.filename = t.filename
      /\ t2 \in Dirent /\ t2.changed = t.changed /\ t2.comment = t.comment /\ t2.attr = orig
  BY <1>0, <1>2 DEF Dirent
<1>4. e.changes # NULL => c = e.changes
  BY DEF ChangesOf
<1>5. \/ WithAttributes(e, a) = [e EXCEPT !.changes = s2]
      \/ WithAttributes(e, a) = [e EXCEPT !.changes = DropIfUnchanged(t2)]
      \/ WithAttributes(e, a) = e
  BY <1>4 DEF WithAttributes
<1>6. e.orig # NULL => t2.attr = e.orig.attr
  BY <1>3
<1> HIDE DEF c, s, t, s2, t2
<1>7. Says(e, s2)
  BY <1>1, <1>2, <1>3 DEF Says
<1>8. Says(e, t2)
  BY <1>1, <1>2, <1>3, <1>6 DEF Says
<1>9. QED
  BY <1>3, <1>5, <1>7, <1>8, ChangesSeen

\* _zip_unchange leaves no directory entry of a change.
LEMMA UnchangedSeen ==
    ASSUME NEW e
    PROVE  LET u == Unchanged(e)
               v == [u EXCEPT !.deleted = TRUE]
           IN u.orig = e.orig /\ Seen(u) /\ v.orig = e.orig /\ Seen(v)
BY DEF Unchanged, NewEntry, Seen, CommentSeen, SourceMarked, RenamedHasName

\* zip_close fills what is not marked from the original before it writes.
LEMMA PreparedSeen ==
    ASSUME NEW e \in Entry, Seen(e)
    PROVE  Prepared(e).orig = e.orig /\ Seen(Prepared(e))
<1> DEFINE c == ChangesOf(e)
           m == IF e.orig = NULL THEN c
                ELSE [c EXCEPT
                  !.filename = IF "FILENAME" \in c.changed THEN @ ELSE e.orig.filename,
                  !.comment = IF "COMMENT" \in c.changed THEN @ ELSE e.orig.comment,
                  !.attr = IF "ATTRIBUTES" \in c.changed THEN @ ELSE e.orig.attr]
           w == IF WantTorrentzip THEN [m EXCEPT !.attr = ZeroAttr] ELSE m
<1>0. e.orig \in File \cup {NULL}
  BY DEF Entry
<1>1. c \in Dirent /\ Says(e, c)
  BY ChangesOfSeen
<1> HIDE DEF c
<1>2. m \in Dirent /\ Says(e, m)
  BY <1>0, <1>1 DEF Says, Dirent, File
<1>3. w \in Dirent /\ Says(e, w)
  BY <1>2, AttrsType DEF Says, Dirent
<1>4. Prepared(e) = [e EXCEPT !.changes = w]
  BY DEF Prepared, c
<1> HIDE DEF w
<1>5. QED
  BY <1>3, <1>4, ChangesSeen

(***************************************************************************)
(* A session and the file it was opened from.                              *)
(***************************************************************************)

\* The file whose entries the session started with; NULL for none.
OpenedDisk == IF "TRUNCATE" \in open_flags THEN NULL ELSE disk

\* The entries that have an original are the files of the archive, in order;
\* no change of the comment means that none is stored.
SessionOK ==
    /\ \A i \in Indices : entry[i].orig # NULL =>
          OpenedDisk # NULL /\ i < disk.nfiles /\ entry[i].orig = disk.files[i]
    /\ OpenedDisk # NULL =>
          /\ disk.nfiles <= nentry
          /\ \A i \in 0..(disk.nfiles - 1) : entry[i].orig # NULL
    /\ comment_orig = IF OpenedDisk = NULL \/ disk.torrentzip THEN NULL ELSE disk.comment
    /\ ~comment_changed => comment_changes = NULL

SessionInv ==
    /\ \A i \in Indices : Seen(entry[i])
    /\ "WANT_TORRENTZIP" \notin flags
    /\ is_open => SessionOK

\* What a call on an open archive keeps of the session.
SameSession ==
    /\ UNCHANGED <<disk, is_open, open_flags, flags, comment_orig>>
    /\ (~comment_changed => comment_changes = NULL) =>
         (~comment_changed' => comment_changes' = NULL)

\* ... and of the entries: each keeps its original, and a new one has none.
SameOriginals ==
    /\ nentry' \in Nat /\ nentry <= nentry'
    /\ \A i \in Indices : entry'[i].orig = entry[i].orig /\ Seen(entry'[i])
    /\ \A i \in Indices' \ Indices : entry'[i].orig = NULL /\ Seen(entry'[i])

\* A call that keeps both keeps the invariant.
LEMMA SessionStep ==
    ASSUME SoundInv, SessionInv, SameSession, SameOriginals
    PROVE  SessionInv'
<1>1. nentry \in Nat /\ nentry' \in Nat /\ (disk = NULL \/ IsArchiveFile(disk))
  BY BoundAssumption DEF SoundInv, TypeOK, SameOriginals
<1>2. disk # NULL => disk.nfiles \in Nat
  BY <1>1 DEF IsArchiveFile, ArchiveFile
<1>3. OpenedDisk' = OpenedDisk /\ disk' = disk
  BY DEF OpenedDisk, SameSession
<1>4. \A i \in Indices' : Seen(entry'[i])
  BY DEF SameOriginals
<1>5. ASSUME is_open'
      PROVE  SessionOK'
  <2>0. SessionOK /\ disk' = disk
    BY <1>5 DEF SessionInv, SameSession
  <2>1. ASSUME NEW i \in Indices', entry'[i].orig # NULL
        PROVE  OpenedDisk # NULL /\ i < disk.nfiles /\ entry'[i].orig = disk.files[i]
    <3>1. i \in Indices /\ entry'[i].orig = entry[i].orig
      BY <2>1 DEF SameOriginals
    <3>2. QED
      BY <2>0, <2>1, <3>1 DEF SessionOK
  <2>2. ASSUME OpenedDisk # NULL
        PROVE  /\ disk.nfiles <= nentry'
               /\ \A i \in 0..(disk.nfiles - 1) : entry'[i].orig # NULL
    <3>1. disk.nfiles \in Nat /\ disk.nfiles <= nentry /\ nentry <= nentry'
      BY <1>2, <2>0, <2>2 DEF SessionOK, OpenedDisk, SameOriginals
    <3>2. \A i \in 0..(disk.nfiles - 1) : i \in Indices
      BY <1>1, <3>1 DEF Indices
    <3>3. QED
      BY <1>1, <2>0, <2>2, <3>1, <3>2 DEF SessionOK, SameOriginals
  <2>3. comment_orig' = IF OpenedDisk = NULL \/ disk.torrentzip THEN NULL ELSE disk.comment
    BY <2>0 DEF SessionOK, SameSession
  <2>4. ~comment_changed' => comment_changes' = NULL
    BY <2>0 DEF SessionOK, SameSession
  <2>5. QED
    BY <1>3, <2>1, <2>2, <2>3, <2>4 DEF SessionOK
<1>6. QED
  BY <1>4, <1>5 DEF SessionInv, SameSession

\* A call that makes r of entry i.
LEMMA OneEntrySession ==
    ASSUME SoundInv, SessionInv, NEW i \in Indices, NEW r, r.orig = entry[i].orig, Seen(r),
           entry' = [entry EXCEPT ![i] = r], nentry' = nentry
    PROVE  SameOriginals
<1>1. nentry \in Nat /\ entry \in [Indices -> Entry] /\ Indices' = Indices
  BY BoundAssumption DEF SoundInv, TypeOK, Indices
<1>2. \A j \in Indices : entry'[j] = IF j = i THEN r ELSE entry[j]
  BY <1>1
<1>3. QED
  BY <1>1, <1>2 DEF SameOriginals, SessionInv

\* A call that adds the entry r.
LEMMA NewEntrySession ==
    ASSUME SoundInv, SessionInv, NEW r, r.orig = NULL, Seen(r), nentry' = nentry + 1,
           entry' = [i \in 0..nentry |-> IF i = nentry THEN r ELSE entry[i]]
    PROVE  SameOriginals
<1>1. /\ nentry \in Nat /\ nentry' \in Nat /\ nentry <= nentry'
      /\ Indices' = 0..nentry /\ nentry \notin Indices /\ Indices \subseteq 0..nentry
      /\ \A i \in 0..nentry : i = nentry \/ i \in Indices
  BY BoundAssumption DEF SoundInv, TypeOK, Indices
<1>2. QED
  BY <1>1 DEF SameOriginals, SessionInv

\* The calls that change a writable archive keep the session.
LEMMA EditKeeps ==
    SoundInv /\ SessionInv /\ (Edit \/ \E i \in Indices : SetMethod(i))
        => SameSession /\ SameOriginals
<1> SUFFICES ASSUME SoundInv, SessionInv, Edit \/ \E i \in Indices : SetMethod(i)
             PROVE  SameSession /\ SameOriginals
  OBVIOUS
<1>0. /\ TableOK /\ TableSound
      /\ nentry \in Nat /\ entry \in [Indices -> Entry]
      /\ \A i \in Indices : Seen(entry[i])
      /\ NoData \in Contents /\ Sources \subseteq Contents
  BY TypeOKHeader, BoundAssumption, DataAssumption DEF SoundInv, TypeOK, SessionInv
<1>1. ASSUME UNCHANGED <<disk, is_open, ch_flags, archiveVars>>
      PROVE  SameSession
  BY <1>1 DEF SameSession, SessionInv, WantTorrentzip, archiveVars
<1>2. ASSUME NEW n \in Names
      PROVE  LET e == Renamed(NewEntry, n)
             IN e.orig = NULL /\ Seen(e) /\ e \in Entry /\ n \in AllNames
  <2>1. n \in AllNames
    BY DEF AllNames
  <2>2. QED
    BY <2>1, NewEntryType, NewEntrySeen, RenamedSeen, RenamedType DEF EntryOK
<1>3. ASSUME NEW n \in Names, NEW d \in Contents
      PROVE  LET e == Replaced(Renamed(NewEntry, n), d)
             IN e.orig = NULL /\ Seen(e) /\ e \in Entry
  <2> DEFINE e == Renamed(NewEntry, n)
  <2>1. e.orig = NULL /\ Seen(e) /\ e \in Entry /\ Sound(e) /\ HasDirent(e)
    BY <1>2, NewEntryType, RenamedType DEF EntryOK
  <2> HIDE DEF e
  <2>2. Replaced(e, d).orig = NULL /\ Seen(Replaced(e, d)) /\ Replaced(e, d) \in Entry
    BY <2>1, ReplacedSeen, ReplacedKeeps DEF Alike
  <2>3. QED
    BY <2>2 DEF e
<1>4. ASSUME NEW n \in Names, NEW d \in Sources, FileAdd(n, d)
      PROVE  SameSession /\ SameOriginals
  <2> DEFINE e == Replaced(Renamed(NewEntry, n), d)
  <2>1. e.orig = NULL /\ Seen(e)
    BY <1>0, <1>3
  <2>2. /\ nentry' = nentry + 1
        /\ entry' = [i \in 0..nentry |-> IF i = nentry THEN e ELSE entry[i]]
        /\ SameSession
    BY <1>1, <1>4 DEF FileAdd, AddEntry
  <2> HIDE DEF e
  <2>3. QED
    BY <2>1, <2>2, NewEntrySession
<1>5. ASSUME NEW i \in Indices, NEW d \in Sources, FileReplace(i, d)
      PROVE  SameSession /\ SameOriginals
  <2>1. Replaced(entry[i], d).orig = entry[i].orig /\ Seen(Replaced(entry[i], d))
    BY <1>0, ReplacedSeen
  <2>2. entry' = [entry EXCEPT ![i] = Replaced(entry[i], d)] /\ nentry' = nentry
        /\ SameSession
    BY <1>1, <1>5 DEF FileReplace
  <2>3. QED
    BY <2>1, <2>2, OneEntrySession
<1>6. ASSUME NEW n \in Names, NEW d \in Sources, FileOverwrite(n, d)
      PROVE  SameSession /\ SameOriginals
  <2>1. HashLookup(names, n) \in Indices /\ FileReplace(HashLookup(names, n), d)
    BY <1>6 DEF FileOverwrite, FileReplace
  <2>2. QED
    BY <1>5, <2>1
<1>7. ASSUME NEW n \in Names, DirAdd(n)
      PROVE  SameSession /\ SameOriginals
  <2> DEFINE e == Replaced(Renamed(NewEntry, n), NoData)
             r == IF WantTorrentzip THEN [Unchanged(e) EXCEPT !.deleted = TRUE]
                  ELSE WithAttributes(e, DirAttr)
  <2>1. e.orig = NULL /\ Seen(e) /\ e \in Entry
    BY <1>0, <1>3
  <2>2. /\ nentry' = nentry + 1
        /\ entry' = [i \in 0..nentry |-> IF i = nentry THEN r ELSE entry[i]]
        /\ SameSession
    BY <1>1, <1>7 DEF DirAdd, AddEntry
  <2> HIDE DEF e
  <2>3. DirAttr \in AllAttrs
    BY AttrsType
  <2>4. r.orig = NULL /\ Seen(r)
    BY <2>1, <2>3, UnchangedSeen, WithAttributesSeen
  <2> HIDE DEF r
  <2>5. QED
    BY <2>2, <2>4, NewEntrySession
<1>8. ASSUME NEW n \in Names, DirOverwrite(n)
      PROVE  SameSession /\ SameOriginals
  <2> DEFINE i == HashLookup(names, n)
             e == Replaced(entry[i], NoData)
             r == IF WantTorrentzip THEN [Unchanged(e) EXCEPT !.deleted = TRUE]
                  ELSE WithAttributes(e, DirAttr)
  <2>1. i \in Indices /\ HasDirent(entry[i])
    BY <1>0, <1>8 DEF DirOverwrite, HashLookup, TableOK, TableType, AllNames
  <2>2. entry' = [entry EXCEPT ![i] = r] /\ nentry' = nentry /\ SameSession
    BY <1>1, <1>8 DEF DirOverwrite
  <2> HIDE DEF i
  <2>3. e.orig = entry[i].orig /\ Seen(e) /\ e \in Entry
    BY <1>0, <2>1, ReplacedSeen, ReplacedKeeps, HasDirentFacts DEF Alike
  <2>4. DirAttr \in AllAttrs
    BY AttrsType
  <2> HIDE DEF e
  <2>5. r.orig = entry[i].orig /\ Seen(r)
    BY <2>3, <2>4, UnchangedSeen, WithAttributesSeen
  <2> HIDE DEF r
  <2>6. QED
    BY <2>1, <2>2, <2>5, OneEntrySession
<1>9. ASSUME NEW i \in Indices, NEW n \in Names, FileRename(i, n)
      PROVE  SameSession /\ SameOriginals
  <2>1. Renamed(entry[i], n).orig = entry[i].orig /\ Seen(Renamed(entry[i], n))
    BY <1>0, RenamedSeen
  <2>2. entry' = [entry EXCEPT ![i] = Renamed(entry[i], n)] /\ nentry' = nentry
        /\ SameSession
    BY <1>1, <1>9 DEF FileRename
  <2>3. QED
    BY <2>1, <2>2, OneEntrySession
<1>10. ASSUME NEW i \in Indices, NEW c \in MaybeComment, SetComment(i, c)
       PROVE  SameSession /\ SameOriginals
  <2>1. Commented(entry[i], c).orig = entry[i].orig /\ Seen(Commented(entry[i], c))
    BY <1>0, CommentedSeen
  <2>2. entry' = [entry EXCEPT ![i] = Commented(entry[i], c)] /\ nentry' = nentry
        /\ SameSession
    BY <1>1, <1>10 DEF SetComment
  <2>3. QED
    BY <2>1, <2>2, OneEntrySession
<1>11. ASSUME NEW i \in Indices, NEW a \in Attrs, SetAttributes(i, a)
       PROVE  SameSession /\ SameOriginals
  <2>1. WithAttributes(entry[i], a).orig = entry[i].orig /\ Seen(WithAttributes(entry[i], a))
    BY <1>0, WithAttributesSeen DEF AllAttrs
  <2>2. entry' = [entry EXCEPT ![i] = WithAttributes(entry[i], a)] /\ nentry' = nentry
        /\ SameSession
    BY <1>1, <1>11 DEF SetAttributes
  <2>3. QED
    BY <2>1, <2>2, OneEntrySession
<1>mark. ASSUME NEW i \in Indices, SetMark(i)
       PROVE  SameSession /\ SameOriginals
  <2>1. Marked(entry[i]).orig = entry[i].orig /\ Seen(Marked(entry[i]))
    BY <1>0, MarkedSeen
  <2>2. entry' = [entry EXCEPT ![i] = Marked(entry[i])] /\ nentry' = nentry
        /\ SameSession
    BY <1>1, <1>mark DEF SetMark
  <2>3. QED
    BY <2>1, <2>2, OneEntrySession
<1>12. ASSUME NEW i \in Indices, Delete(i)
       PROVE  SameSession /\ SameOriginals
  <2> DEFINE r == [Unchanged(entry[i]) EXCEPT !.deleted = TRUE]
  <2>1. r.orig = entry[i].orig /\ Seen(r)
    BY UnchangedSeen
  <2>2. entry' = [entry EXCEPT ![i] = r] /\ nentry' = nentry /\ SameSession
    BY <1>1, <1>12 DEF Delete
  <2> HIDE DEF r
  <2>3. QED
    BY <2>1, <2>2, OneEntrySession
<1>13. ASSUME NEW i \in Indices, Unchange(i)
       PROVE  SameSession /\ SameOriginals
  <2>1. Unchanged(entry[i]).orig = entry[i].orig /\ Seen(Unchanged(entry[i]))
    BY UnchangedSeen
  <2>2. entry' = [entry EXCEPT ![i] = Unchanged(entry[i])] /\ nentry' = nentry /\ SameSession
    BY <1>1, <1>13 DEF Unchange
  <2>3. QED
    BY <2>1, <2>2, OneEntrySession
<1>14. CASE UnchangeAll
  <2>1. Indices' = Indices /\ nentry' = nentry
    BY <1>14 DEF UnchangeAll, Indices
  <2>2. \A i \in Indices : entry'[i].orig = entry[i].orig /\ Seen(entry'[i])
    BY <1>14, UnchangedSeen DEF UnchangeAll
  <2>3. SameOriginals
    BY <1>0, <2>1, <2>2 DEF SameOriginals
  <2>4. SameSession
    BY <1>14 DEF UnchangeAll, RevertComment, SameSession, SessionInv, WantTorrentzip
  <2>5. QED
    BY <2>3, <2>4
\* A call that leaves the entries alone.
<1>15. ASSUME SameSession, UNCHANGED <<nentry, entry>>
       PROVE  SameSession /\ SameOriginals
  <2>1. Indices' = Indices
    BY <1>15 DEF Indices
  <2>2. SameOriginals
    BY <1>0, <1>15, <2>1 DEF SameOriginals
  <2>3. QED
    BY <1>15, <2>2
<1>16. CASE UnchangeArchive
  <2>1. SameSession
    BY <1>16 DEF UnchangeArchive, RevertComment, SameSession, SessionInv, WantTorrentzip
  <2>2. QED
    BY <1>15, <1>16, <2>1 DEF UnchangeArchive
<1>17. ASSUME NEW c \in MaybeComment, SetArchiveComment(c)
       PROVE  SameSession /\ SameOriginals
  <2>1. SameSession
    BY <1>17 DEF SetArchiveComment, SameSession, SessionInv, WantTorrentzip
  <2>2. QED
    BY <1>15, <1>17, <2>1 DEF SetArchiveComment
<1>18. ASSUME NEW f \in UserFlags, NEW value \in BOOLEAN, SetArchiveFlag(f, value)
       PROVE  SameSession /\ SameOriginals
  <2>1. SameSession
    BY <1>18 DEF SetArchiveFlag, SameSession, SessionInv, archiveVars
  <2>2. QED
    BY <1>15, <1>18, <2>1 DEF SetArchiveFlag
<1>19. QED
  BY <1>4, <1>5, <1>6, <1>7, <1>8, <1>9, <1>10, <1>11, <1>12, <1>13, <1>14, <1>16, <1>17,
     <1>18, <1>mark DEF Edit, SetTime, SetExtraFields, SetMethod, SetFileCompression,
     SetFileEncryption

\* zip_close that fails keeps the session: what it prepared to write says the
\* same as before.
LEMMA CloseFailsKeeps ==
    ASSUME SoundInv, SessionInv, NEW cloning \in BOOLEAN, NEW started \in SUBSET Indices,
           CloseFails(cloning, started)
    PROVE  SameSession /\ SameOriginals
<1>1. nentry \in Nat /\ entry \in [Indices -> Entry] /\ Indices' = Indices
      /\ \A i \in Indices : Seen(entry[i])
  BY BoundAssumption DEF SoundInv, TypeOK, Indices, SessionInv, CloseFails
<1>3. \A i \in Indices : entry'[i].orig = entry[i].orig /\ Seen(entry'[i])
  BY <1>1, PreparedSeen DEF CloseFails
<1>4. SameOriginals
  BY <1>1, <1>3 DEF SameOriginals, CloseFails
<1>5. SameSession
  BY DEF SameSession, CloseFails, SessionInv, WantTorrentzip, archiveVars
<1>6. QED
  BY <1>4, <1>5

\* zip_open starts a session with the files of the archive.
LEMMA OpenSession ==
    ASSUME SoundInv, NEW oflags \in SUBSET {"RDONLY", "TRUNCATE"}, Open(oflags)
    PROVE  SessionInv'
<1> DEFINE n == IF OpenedDisk' = NULL THEN 0 ELSE disk.nfiles
<1>1. disk' = disk /\ open_flags' = oflags /\ (disk = NULL \/ IsArchiveFile(disk))
  BY DEF Open, SoundInv, TypeOK
<1>2. OpenedDisk' = (IF "TRUNCATE" \in oflags THEN NULL ELSE disk)
  BY <1>1 DEF OpenedDisk
<1>3. /\ nentry' = n
      /\ entry' = [i \in 0..(n - 1) |-> [NewEntry EXCEPT !.orig = disk.files[i]]]
      /\ comment_orig' = IF OpenedDisk' = NULL \/ disk.torrentzip THEN NULL ELSE disk.comment
      /\ flags' \subseteq {"RDONLY", "IS_TORRENTZIP"} /\ ch_flags' = flags'
      /\ comment_changes' = NULL
  BY <1>2 DEF Open
<1>4. n \in Nat /\ (OpenedDisk' # NULL =>
                     /\ disk # NULL
                     /\ \A i \in 0..(n - 1) : disk.files[i] \in File)
  BY <1>1, <1>2 DEF IsArchiveFile, ArchiveFile
<1>5. n = 0 \/ OpenedDisk' # NULL
  OBVIOUS
<1> HIDE DEF n
<1>6. \A i \in 0..(n - 1) : /\ entry'[i].orig = disk.files[i] /\ entry'[i].orig # NULL
                            /\ Seen(entry'[i])
  BY <1>3, <1>4, <1>5 DEF NewEntry, Seen, CommentSeen, SourceMarked, RenamedHasName
<1>7. Indices' = 0..(n - 1)
  BY <1>3 DEF Indices
<1>8. SessionOK'
  <2>1. \A i \in Indices' : entry'[i].orig # NULL =>
          OpenedDisk' # NULL /\ i < disk.nfiles /\ entry'[i].orig = disk.files[i]
    BY <1>4, <1>5, <1>6, <1>7 DEF n
  <2>2. OpenedDisk' # NULL =>
          /\ disk.nfiles <= nentry'
          /\ \A i \in 0..(disk.nfiles - 1) : entry'[i].orig # NULL
    BY <1>3, <1>4, <1>6 DEF n
  <2>3. QED
    BY <1>1, <1>3, <2>1, <2>2 DEF SessionOK
<1>9. QED
  BY <1>3, <1>6, <1>7, <1>8 DEF SessionInv, WantTorrentzip

\* Without a struct zip there is nothing to say.
LEMMA FreeSession == FreeArchive => SessionInv'
BY DEF FreeArchive, SessionInv, Indices, WantTorrentzip

\* Every call keeps what a session knows of the file it was opened from.
LEMMA NextSession == SoundInv /\ SessionInv /\ [Next]_vars => SessionInv'
<1> SUFFICES ASSUME SoundInv, SessionInv, [Next]_vars PROVE SessionInv'
  OBVIOUS
<1>1. CASE \E oflags \in SUBSET {"RDONLY", "TRUNCATE"} : Open(oflags)
  BY <1>1, OpenSession
<1>2. CASE Edit \/ \E i \in Indices : SetMethod(i)
  BY <1>2, EditKeeps, SessionStep
<1>3. CASE Close
  <2>1. CASE CloseSucceeds
    BY <2>1, FreeSession DEF CloseSucceeds, CloseAndWrite, CloseAndRemove, CloseUnchanged
  <2>2. CASE ~CloseSucceeds
    BY <1>3, <2>2, CloseFailsKeeps, SessionStep DEF Close
  <2>3. QED
    BY <2>1, <2>2
<1>4. CASE Discard
  BY <1>4, FreeSession DEF Discard
<1>5. CASE UNCHANGED vars
  <2>1. /\ UNCHANGED <<disk, is_open, open_flags, flags, ch_flags, comment_orig>>
        /\ UNCHANGED <<comment_changes, comment_changed, nentry, entry>>
    BY <1>5 DEF vars, archiveVars
  <2>2. QED
    BY <2>1 DEF SessionInv, SessionOK, OpenedDisk, Indices, WantTorrentzip
<1>6. QED
  BY <1>1, <1>2, <1>3, <1>4, <1>5 DEF Next, Call

\* In every session of any history.
LEMMA SessionHolds == Spec => []SessionInv
<1>1. Init => SessionInv
  BY DEF Init, SessionInv, Indices, WantTorrentzip
<1>2. Spec => []SoundInv
  BY SoundInvHolds
<1>3. QED
  BY <1>1, <1>2, NextSession, PTL DEF Spec

(***************************************************************************)
(* What zip_close writes of an entry.                                      *)
(***************************************************************************)

\* An entry that can be written has a directory entry with a name.
LEMMA WrittenHasDirent ==
    ASSUME NEW e \in Entry, Seen(e), ~e.deleted, CanBeWritten(e)
    PROVE  HasDirent(e)
BY DEF Seen, SourceMarked, CanBeWritten, HasDirent

\* The directory entry and the data of an entry, as a reader sees it.
LEMMA ViewOf ==
    ASSUME NEW e \in Entry, ~e.deleted, CanBeWritten(e), HasDirent(e)
    PROVE  View(e) = [filename |-> ChangesOf(e).filename, comment |-> ChangesOf(e).comment,
                      attr |-> ChangesOf(e).attr,
                      data |-> IF e.source # NULL THEN e.source ELSE e.orig.data]
<1>1. e.orig \in File \cup {NULL} /\ e.changes \in Dirent \cup {NULL}
  BY DEF Entry
<1>2. NameOf(e) = ChangesOf(e).filename
  BY <1>1, ChangesOfType DEF HasDirent, Key
<1>3. QED
  BY <1>2 DEF View, CanBeWritten

\* Without torrentzip, what is not marked is taken from the original and is
\* what the program saw.
LEMMA WrittenIsSeen ==
    ASSUME NEW e \in Entry, Sound(e), Seen(e), ~e.deleted, CanBeWritten(e),
           ~WantTorrentzip, ~Normalised(e)
    PROVE  /\ Written(Prepared(e)) = View(e)
           /\ e.source = NULL => InPlace(e) = View(e)
<1> DEFINE c == ChangesOf(e)
           m == IF e.orig = NULL THEN c
                ELSE [c EXCEPT
                  !.filename = IF "FILENAME" \in c.changed THEN @ ELSE e.orig.filename,
                  !.comment = IF "COMMENT" \in c.changed THEN @ ELSE e.orig.comment,
                  !.attr = IF "ATTRIBUTES" \in c.changed THEN @ ELSE e.orig.attr]
           r == Prepared(e)
           data == IF e.source # NULL THEN e.source ELSE e.orig.data
<1>1. /\ c \in Dirent /\ e.orig \in File \cup {NULL}
      /\ e.orig # NULL =>
           /\ "FILENAME" \notin c.changed => c.filename = e.orig.filename
           /\ "COMMENT" \notin c.changed => c.comment = e.orig.comment
           /\ "ATTRIBUTES" \notin c.changed => c.attr = e.orig.attr
  <2>1. c \in Dirent /\ e.orig \in File \cup {NULL} /\ e.changes \in Dirent \cup {NULL}
    BY ChangesOfType DEF Entry
  <2>2. e.orig # NULL => /\ "FILENAME" \notin c.changed => c.filename = e.orig.filename
                         /\ "COMMENT" \notin c.changed => c.comment = e.orig.comment
    BY ChangesOfType, ChangesOfSeen DEF OrigKey, Says
  <2>3. e.orig # NULL /\ "ATTRIBUTES" \notin c.changed => c.attr = e.orig.attr
    BY <2>1 DEF ChangesOf, Clone, Normalised
  <2>4. QED
    BY <2>1, <2>2, <2>3
<1>2. View(e) = [filename |-> c.filename, comment |-> c.comment, attr |-> c.attr, data |-> data]
  BY WrittenHasDirent, ViewOf
<1>3. r = [e EXCEPT !.changes = m]
  BY DEF Prepared
<1> HIDE DEF c
<1>4. m \in Dirent /\ m.filename = c.filename /\ m.comment = c.comment /\ m.attr = c.attr
  BY <1>1 DEF Dirent, File
<1> HIDE DEF m
<1>5. r.orig = e.orig /\ r.source = e.source /\ r.changes = m /\ m # NULL
  BY <1>3, <1>4 DEF Entry
<1> HIDE DEF r
<1>6. ChangesOf(r) = m
  BY <1>5 DEF ChangesOf
<1>7. Written(r) = [filename |-> c.filename, comment |-> c.comment, attr |-> c.attr,
                    data |-> data]
  BY <1>4, <1>5, <1>6 DEF Written
<1>8. ASSUME e.source = NULL
      PROVE  InPlace(e) = [filename |-> c.filename, comment |-> c.comment, attr |-> c.attr,
                           data |-> data]
  BY <1>8 DEF InPlace, Written, c
<1>9. QED
  BY <1>2, <1>7, <1>8 DEF r

\* With torrentzip the entry keeps its name and loses its comment and word.
LEMMA WrittenNormalised ==
    ASSUME NEW e \in Entry, Sound(e), Seen(e), ~e.deleted, CanBeWritten(e), WantTorrentzip
    PROVE  LET w == Written(Prepared(e))
           IN w.filename = NameOf(e) /\ w.comment = NULL /\ w.attr = ZeroAttr
<1> DEFINE r == Prepared(e)
<1>1. HasDirent(e)
  BY WrittenHasDirent
<1>2. Alike(e, r) /\ r.deleted = FALSE /\ r.source = e.source
  BY PreparedKeeps DEF Prepared, Entry
<1>3. CanBeWritten(r) /\ r \in Entry /\ Sound(r) /\ Key(r) = Key(e)
  BY <1>2 DEF CanBeWritten, Alike
<1>4. ChangesOf(r).attr = ZeroAttr
  <2> DEFINE c == ChangesOf(e)
             m == IF e.orig = NULL THEN c
                  ELSE [c EXCEPT
                    !.filename = IF "FILENAME" \in c.changed THEN @ ELSE e.orig.filename,
                    !.comment = IF "COMMENT" \in c.changed THEN @ ELSE e.orig.comment,
                    !.attr = IF "ATTRIBUTES" \in c.changed THEN @ ELSE e.orig.attr]
             z == [m EXCEPT !.attr = ZeroAttr]
  <2>1. r = [e EXCEPT !.changes = z]
    BY DEF Prepared
  <2>2. c \in Dirent /\ e.orig \in File \cup {NULL}
    BY ChangesOfType DEF Entry
  <2> HIDE DEF c
  <2>3. m \in Dirent
    BY <2>2 DEF Dirent, File
  <2> HIDE DEF m
  <2>4. z \in Dirent /\ z.attr = ZeroAttr
    BY <2>3, AttrsType DEF Dirent
  <2> HIDE DEF z
  <2>5. r.changes = z /\ z # NULL
    BY <2>1, <2>4 DEF Entry
  <2>6. QED
    BY <2>4, <2>5 DEF ChangesOf
<1> HIDE DEF r
<1>5. Written(r).filename = Key(e)
  BY <1>2, <1>3, WrittenType
<1>6. Written(r).comment = NULL /\ Written(r).attr = ZeroAttr
  BY <1>4 DEF Written
<1>7. QED
  BY <1>1, <1>5, <1>6 DEF Key, r

\* The files that zip_close writes are those it made of the survivors, each
\* once, in the order of the filelist.
LEMMA FilelistIsOnto ==
    ASSUME NEW f \in Filelists, TableOK
    PROVE  \A i \in Survivors : \E j \in 0..(Cardinality(Survivors) - 1) : f[j] = i
<1> DEFINE n == Cardinality(Survivors)
           I == 0..(n - 1)
<1>1. /\ IsFiniteSet(Survivors) /\ n \in Nat
      /\ f \in [I -> Survivors]
      /\ \A j, k \in I : f[j] = f[k] => j = k
  <2>1. /\ IsFiniteSet(Survivors)
        /\ f \in [0..(Cardinality(Survivors) - 1) -> Survivors]
        /\ \A j, k \in 0..(Cardinality(Survivors) - 1) : f[j] = f[k] => j = k
    BY FilelistType
  <2>2. QED
    BY <2>1, FS_CardinalityType
<1> HIDE DEF n
<1>2. IsFiniteSet(I) /\ Cardinality(I) = n
  BY <1>1, FS_Interval
<1>3. f \in Injection(I, Survivors)
  BY <1>1 DEF Injection, IsInjective
<1>4. f \in Surjection(I, Survivors)
  BY <1>1, <1>2, <1>3, FS_Injection DEF n
<1>5. QED
  BY <1>4 DEF Surjection, n

(***************************************************************************)
(* Torrentzip.                                                             *)
(***************************************************************************)

\* A torrentzip archive that a session may find is in normal form.
InitialTorrentzipNormalised ==
    \A f \in InitialDisk : f # NULL /\ f.torrentzip =>
        /\ f.comment = NULL
        /\ \A j \in 0..(f.nfiles - 1) : f.files[j].comment = NULL /\ f.files[j].attr = ZeroAttr
        /\ \A j, k \in 0..(f.nfiles - 1) :
              j < k => Rank[f.files[j].filename] <= Rank[f.files[k].filename]

\* zip_close writes a torrentzip archive in normal form.
LEMMA WriteNormalised ==
    ASSUME SoundInv, SessionInv, NEW cloning \in BOOLEAN, CloseAndWrite(cloning)
    PROVE  TorrentzipIsNormalised'
<1> SUFFICES ASSUME WantTorrentzip PROVE TorrentzipIsNormalised'
  BY DEF CloseAndWrite, TorrentzipIsNormalised
<1> DEFINE n == Cardinality(Survivors)
           I == 0..(n - 1)
<1>0. TableOK /\ TableSound
  BY TypeOKHeader DEF SoundInv
<1>1. PICK f \in Filelists :
        disk' = [nfiles |-> n,
                 files |-> [j \in DOMAIN f |->
                              LET i == f[j]
                              IN IF i \in Kept(cloning) THEN InPlace(entry[i])
                                 ELSE Written(Prepared(entry[i]))],
                 comment |-> NULL, torrentzip |-> WantTorrentzip]
  BY DEF CloseAndWrite
<1>2. f \in [I -> Survivors] /\ \A j, k \in I : j < k => Before(f[j], f[k])
  BY DEF Filelists
<1>3. Kept(cloning) = {}
  BY DEF Kept
<1>4. /\ disk'.nfiles = n /\ disk'.comment = NULL
      /\ \A j \in I : disk'.files[j] = Written(Prepared(entry[f[j]]))
  BY <1>1, <1>2, <1>3
<1> HIDE DEF n
<1>5. ASSUME NEW j \in I
      PROVE  /\ disk'.files[j].comment = NULL /\ disk'.files[j].attr = ZeroAttr
             /\ SortKey(f[j]) = Rank[disk'.files[j].filename]
  <2> DEFINE e == entry[f[j]]
  <2>1. f[j] \in Survivors
    BY <1>2
  <2>2. /\ e \in Entry /\ Sound(e) /\ Seen(e) /\ ~e.deleted /\ CanBeWritten(e)
    BY <1>0, <2>1 DEF Survivors, TableOK, TableSound, SessionInv, CloseAndWrite
  <2>3. SortKey(f[j]) = Rank[NameOf(e)]
    BY <2>2, WrittenHasDirent DEF SortKey
  <2>4. disk'.files[j] = Written(Prepared(e))
    BY <1>4
  <2> HIDE DEF e
  <2>5. QED
    BY <2>2, <2>3, <2>4, WrittenNormalised
<1>6. ASSUME NEW j \in I, NEW k \in I, j < k
      PROVE  Rank[disk'.files[j].filename] <= Rank[disk'.files[k].filename]
  <2>1. SortKey(f[j]) < SortKey(f[k]) \/ SortKey(f[j]) = SortKey(f[k])
    BY <1>2, <1>6 DEF Before
  <2>2. \A i \in I : Rank[disk'.files[i].filename] \in Nat
    <3> TAKE i \in I
    <3>1. IsArchiveFile(disk') /\ disk'.nfiles = n
      BY <1>4, WriteStep
    <3>2. disk'.files[i].filename \in AllNames
      BY <3>1 DEF IsArchiveFile, ArchiveFile, File
    <3>3. QED
      BY <3>2, NamesAssumption DEF AllNames
  <2>3. QED
    BY <1>5, <2>1, <2>2
<1>7. QED
  BY <1>4, <1>5, <1>6 DEF TorrentzipIsNormalised

\* zip_close is the only call that writes the file.
LEMMA OnlyCloseWrites ==
    ASSUME Next
    PROVE  \/ disk' = disk
           \/ disk' = NULL
           \/ \E cloning \in BOOLEAN : CloseAndWrite(cloning)
<1>1. CASE \E oflags \in SUBSET {"RDONLY", "TRUNCATE"} : Open(oflags)
  BY <1>1 DEF Open
<1>2. CASE Edit
  BY <1>2 DEF Edit, FileAdd, FileOverwrite, FileReplace, DirAdd, DirOverwrite, FileRename,
     SetComment, SetAttributes, SetTime, SetExtraFields, SetMark, Delete,
       Unchange, UnchangeAll, UnchangeArchive,
     SetArchiveComment, SetArchiveFlag
<1>3. CASE Close
  BY <1>3 DEF Close, CloseSucceeds, CloseAndRemove, CloseUnchanged, CloseFails
<1>4. CASE Discard
  BY <1>4 DEF Discard
<1>5. CASE \E i \in Indices : SetMethod(i)
  BY <1>5 DEF SetMethod, SetFileCompression, SetFileEncryption, SetMark
<1>6. QED
  BY <1>1, <1>2, <1>3, <1>4, <1>5 DEF Next, Call

\* Whatever the program did before, in any number of sessions: a torrentzip
\* archive is sorted by name, without comments and with one attribute word.
THEOREM TorrentzipStaysNormalised ==
    InitialTorrentzipNormalised => (Spec => []TorrentzipIsNormalised)
<1> SUFFICES ASSUME InitialTorrentzipNormalised
             PROVE  Spec => []TorrentzipIsNormalised
  OBVIOUS
<1>1. Init => TorrentzipIsNormalised
  BY DEF Init, InitialTorrentzipNormalised, TorrentzipIsNormalised
<1>2. SoundInv /\ SessionInv /\ TorrentzipIsNormalised /\ [Next]_vars => TorrentzipIsNormalised'
  <2> SUFFICES ASSUME SoundInv, SessionInv, TorrentzipIsNormalised, [Next]_vars
               PROVE  TorrentzipIsNormalised'
    OBVIOUS
  <2>1. CASE disk' = disk
    BY <2>1 DEF TorrentzipIsNormalised
  <2>2. CASE disk' = NULL
    BY <2>2 DEF TorrentzipIsNormalised
  <2>3. CASE \E cloning \in BOOLEAN : CloseAndWrite(cloning)
    BY <2>3, WriteNormalised
  <2>4. QED
    BY <2>1, <2>2, <2>3, OnlyCloseWrites DEF vars
<1>3. Spec => []SoundInv /\ []SessionInv
  BY SoundInvHolds, SessionHolds
<1>4. QED
  BY <1>1, <1>2, <1>3, PTL DEF Spec

(***************************************************************************)
(* What zip_close leaves on the disk is what the program saw.              *)
(***************************************************************************)

\* The comment the program saw, unless it was removed.
CommentOf == IF CommentRemoved THEN NULL ELSE ArchiveCommentSeen

\* The file at the end of the session has the entries and the comment the
\* program saw.
StoresWhatWasSeen ==
    /\ disk'.nfiles = Cardinality(Survivors)
    /\ {disk'.files[j] : j \in 0..(disk'.nfiles - 1)} = {View(entry[i]) : i \in Survivors}
    /\ disk'.comment = CommentOf

\* zip_close that writes the archive.
LEMMA WriteStoresSeen ==
    ASSUME SoundInv, SessionInv, is_open, ~WantTorrentzip,
           \A i \in Survivors : ~Normalised(entry[i]),
           NEW cloning \in BOOLEAN, CloseAndWrite(cloning)
    PROVE  StoresWhatWasSeen
<1> DEFINE n == Cardinality(Survivors)
           I == 0..(n - 1)
           W(i) == IF i \in Kept(cloning) THEN InPlace(entry[i])
                   ELSE Written(Prepared(entry[i]))
<1>0. /\ TableOK /\ TableSound /\ ~WantTorrentzip /\ SessionOK
      /\ nentry \in Nat /\ \A i \in Survivors : i \in Indices
  BY TypeOKHeader, BoundAssumption DEF SoundInv, SessionInv, TableOK, Survivors
<1>1. PICK f \in Filelists :
        disk' = [nfiles |-> n, files |-> [j \in DOMAIN f |-> W(f[j])],
                 comment |-> ArchiveComment, torrentzip |-> WantTorrentzip]
  BY <1>0 DEF CloseAndWrite
<1>2. f \in [I -> Survivors] /\ \A i \in Survivors : \E j \in I : f[j] = i
  BY <1>0, FilelistIsOnto DEF Filelists
<1>3. ASSUME NEW i \in Survivors
      PROVE  W(i) = View(entry[i])
  <2> DEFINE e == entry[i]
  <2>1. /\ i \in Indices /\ e \in Entry /\ Sound(e) /\ Seen(e) /\ ~e.deleted /\ CanBeWritten(e)
    BY <1>0 DEF Survivors, TableOK, TableSound, SessionInv, CloseAndWrite
  <2>2. i \in Kept(cloning) => e.source = NULL
    <3> SUFFICES ASSUME i \in Kept(cloning) PROVE e.source = NULL
      OBVIOUS
    <3>1. i \in Indices /\ e.orig # NULL /\ \A j \in 0..i : entry[j].orig # NULL => ~HasChanges(entry[j])
      BY <1>0 DEF Kept
    <3>2. i \in 0..i
      BY <1>0, <3>1 DEF Indices
    <3>3. QED
      BY <3>1, <3>2 DEF HasChanges
  <2>3. Written(Prepared(e)) = View(e) /\ (e.source = NULL => InPlace(e) = View(e))
    BY <1>0, <2>1, WrittenIsSeen
  <2>4. QED
    BY <2>2, <2>3
<1> HIDE DEF W, n
<1>4. /\ disk'.nfiles = n /\ disk'.comment = ArchiveComment
      /\ \A j \in I : disk'.files[j] = View(entry[f[j]])
  BY <1>1, <1>2, <1>3
<1>5. {disk'.files[j] : j \in I} = {View(entry[i]) : i \in Survivors}
  <2>1. ASSUME NEW j \in I
        PROVE  disk'.files[j] \in {View(entry[i]) : i \in Survivors}
    BY <1>2, <1>4
  <2>2. ASSUME NEW i \in Survivors
        PROVE  View(entry[i]) \in {disk'.files[j] : j \in I}
    BY <1>2, <1>4
  <2>3. QED
    BY <2>1, <2>2
<1>6. ArchiveComment = CommentOf
  BY <1>0 DEF SessionOK, ArchiveComment, CommentOf, CommentRemoved, ArchiveCommentSeen
<1>7. QED
  BY <1>4, <1>5, <1>6 DEF StoresWhatWasSeen, n

\* An archive that nobody changed shows its file.
LEMMA UnchangedShowsFile ==
    ASSUME SoundInv, SessionInv, TorrentzipIsNormalised, is_open, ~Changed,
           "TRUNCATE" \notin open_flags, disk # NULL,
           \A i \in Survivors : CanBeWritten(entry[i]) /\ ~Normalised(entry[i]), disk' = disk
    PROVE  StoresWhatWasSeen
<1>0. /\ TableOK /\ TableSound /\ SessionOK /\ nentry \in Nat
      /\ OpenedDisk # NULL /\ OpenedDisk = disk /\ IsArchiveFile(disk)
  BY TypeOKHeader, BoundAssumption DEF SoundInv, SessionInv, TypeOK, TableOK, OpenedDisk
<1>1. disk.nfiles \in Nat /\ disk.nfiles <= nentry
  BY <1>0 DEF IsArchiveFile, ArchiveFile, SessionOK
<1>2. \A i \in Indices : ~HasChanges(entry[i])
  BY DEF Changed
<1>3. Survivors = Indices
  BY <1>2 DEF Survivors, HasChanges
<1>4. ASSUME NEW i \in Indices
      PROVE  entry[i].orig # NULL /\ i < disk.nfiles /\ View(entry[i]) = disk.files[i]
  <2> DEFINE e == entry[i]
  <2>1. /\ e \in Entry /\ Sound(e) /\ Seen(e) /\ ~e.deleted /\ CanBeWritten(e)
        /\ ~Normalised(e) /\ e.source = NULL /\ (e.changes # NULL => e.changes.changed = {})
    BY <1>0, <1>2, <1>3 DEF TableOK, TableSound, SessionInv, HasChanges, Survivors
  <2>2. e.orig # NULL /\ i < disk.nfiles /\ e.orig = disk.files[i]
    BY <1>0, <2>1 DEF CanBeWritten, SessionOK
  <2> HIDE DEF e
  <2>3. e.orig \in File /\ HasDirent(e)
    BY <2>1, <2>2 DEF Entry, HasDirent
  <2>4. /\ ChangesOf(e).filename = e.orig.filename
        /\ ChangesOf(e).comment = e.orig.comment
        /\ ChangesOf(e).attr = e.orig.attr
    <3>1. ChangesOf(e).changed = {}
      BY <2>1, <2>3, CloneType DEF ChangesOf
    <3>2. ChangesOf(e).attr = e.orig.attr
      BY <2>1, <2>2 DEF ChangesOf, Clone, Normalised
    <3>3. QED
      BY <2>1, <2>2, <3>1, <3>2, ChangesOfType, ChangesOfSeen DEF OrigKey, Says
  <2>5. View(e) = [filename |-> e.orig.filename, comment |-> e.orig.comment,
                   attr |-> e.orig.attr, data |-> e.orig.data]
    BY <2>1, <2>3, <2>4, ViewOf
  <2>6. View(e) = e.orig
    BY <2>3, <2>5 DEF File
  <2>7. QED
    BY <2>2, <2>6 DEF e
<1>5. nentry = disk.nfiles
  <2>1. CASE nentry = 0
    BY <1>1, <2>1
  <2>2. CASE nentry > 0
    <3>1. nentry - 1 \in Indices
      BY <1>0, <2>2 DEF Indices
    <3>2. nentry - 1 < disk.nfiles
      BY <1>4, <3>1
    <3>3. QED
      BY <1>0, <1>1, <3>2
  <2>3. QED
    BY <1>0, <2>1, <2>2
<1>6. Cardinality(Survivors) = disk.nfiles /\ Survivors = 0..(disk.nfiles - 1)
  <2>1. Survivors = 0..(nentry - 1)
    BY <1>3 DEF Indices
  <2>2. Cardinality(0..(nentry - 1)) = nentry
    BY <1>0, FS_Interval
  <2>3. QED
    BY <1>5, <2>1, <2>2
<1>7. {disk.files[j] : j \in 0..(disk.nfiles - 1)} = {View(entry[i]) : i \in Survivors}
  BY <1>3, <1>4, <1>6
<1>8. disk.comment = CommentOf
  <2>1. ~comment_changed /\ comment_changes = NULL
    BY <1>0 DEF Changed, SessionOK
  <2>2. comment_orig = disk.comment
    BY <1>0 DEF SessionOK, TorrentzipIsNormalised
  <2>3. QED
    BY <2>1, <2>2 DEF CommentOf, CommentRemoved, ArchiveCommentSeen
<1>9. QED
  BY <1>6, <1>7, <1>8 DEF StoresWhatWasSeen

\* zip_close that succeeds leaves a file that contains exactly what the program
\* saw in the archive: also after other zip_closes of it that failed, and when
\* there is nothing to write or unchanged data is kept in place.
THEOREM StoredIsWhatWasSeen ==
    InitialTorrentzipNormalised => (Spec => CloseStoresWhatWasSeen)
<1> SUFFICES ASSUME InitialTorrentzipNormalised
             PROVE  Spec => CloseStoresWhatWasSeen
  OBVIOUS
<1> DEFINE Stored == is_open /\ ~is_open' /\ CloseSucceeds /\ ~WantTorrentzip
                       /\ (\A i \in Survivors : CanBeWritten(entry[i]) /\ ~Normalised(entry[i]))
                     => IF disk' = NULL THEN Survivors = {} ELSE StoresWhatWasSeen
<1>1. ASSUME SoundInv, SessionInv, TorrentzipIsNormalised, [Next]_vars
      PROVE  Stored
  <2> SUFFICES ASSUME is_open, ~is_open', CloseSucceeds, ~WantTorrentzip,
                      \A i \in Survivors : CanBeWritten(entry[i]) /\ ~Normalised(entry[i])
               PROVE  IF disk' = NULL THEN Survivors = {} ELSE StoresWhatWasSeen
    OBVIOUS
  <2>1. ASSUME NEW cloning \in BOOLEAN, CloseAndWrite(cloning)
        PROVE  disk' # NULL /\ StoresWhatWasSeen
    <3>1. StoresWhatWasSeen
      BY <1>1, <2>1, WriteStoresSeen
    <3>2. IsArchiveFile(disk')
      BY <1>1, <2>1, WriteStep
    <3>3. QED
      BY <3>1, <3>2, NullAssumption
  <2>2. CASE CloseAndRemove
    <3>1. Survivors = {}
      BY <2>2 DEF CloseAndRemove
    <3>2. disk' # NULL => disk' = disk /\ "TRUNCATE" \notin open_flags /\ ~Changed
      BY <2>2 DEF CloseAndRemove
    <3>3. QED
      BY <1>1, <3>1, <3>2, UnchangedShowsFile
  <2>3. CASE CloseUnchanged
    <3>1. Survivors # {} /\ ~Changed /\ disk' = disk
      BY <2>3 DEF CloseUnchanged
    <3>2. PICK i \in Survivors : TRUE
      BY <3>1
    <3>3. i \in Indices /\ entry[i].orig # NULL
      BY <3>1, <3>2 DEF Survivors, Changed, HasChanges, CanBeWritten
    <3>4. OpenedDisk # NULL
      BY <1>1, <3>3 DEF SessionInv, SessionOK
    <3>5. disk # NULL /\ "TRUNCATE" \notin open_flags
      BY <3>4 DEF OpenedDisk
    <3>6. QED
      BY <1>1, <3>1, <3>5, UnchangedShowsFile
  <2>4. QED
    BY <2>1, <2>2, <2>3 DEF CloseSucceeds
<1>2. ASSUME Stored
      PROVE  [ /\ is_open /\ ~is_open' /\ CloseSucceeds
               /\ ~WantTorrentzip
               /\ \A i \in Survivors : CanBeWritten(entry[i]) /\ ~Normalised(entry[i])
               => IF disk' = NULL THEN Survivors = {}
                  ELSE /\ disk'.nfiles = Cardinality(Survivors)
                       /\ {disk'.files[j] : j \in 0..(disk'.nfiles - 1)} =
                             {View(entry[i]) : i \in Survivors}
                       /\ disk'.comment = IF CommentRemoved THEN NULL ELSE ArchiveCommentSeen
             ]_vars
  BY <1>2 DEF StoresWhatWasSeen, CommentOf
<1>3. Spec => []SoundInv /\ []SessionInv /\ []TorrentzipIsNormalised
  BY SoundInvHolds, SessionHolds, TorrentzipStaysNormalised
<1> HIDE DEF Stored
<1>4. QED
  BY <1>1, <1>2, <1>3, PTL DEF Spec, CloseStoresWhatWasSeen

(***************************************************************************)
(* The refinement: every call of a careful program is an operation on the  *)
(* files by name, or shows nothing.  First, what the refinement mapping    *)
(* makes of a state; then one step per call.                               *)
(***************************************************************************)

USE NullAssumption

\* What a careful program may count on.
LEMMA CarefulIsSound == IInv => SoundInv /\ TableOK /\ TableSound /\ NamesOK
BY TypeOKHeader, NamesOKIsSound DEF IInv, SoundInv

(***************************************************************************)
(* The file that an entry is.                                              *)
(***************************************************************************)

WorkFile == [from: Names \cup {NULL}, data: Contents]

\* The data and the stored name of an entry.
DataOf(e) == IF e.source # NULL THEN e.source ELSE e.orig.data

FromOf(e) == IF OrigKey(e) # Empty THEN OrigKey(e) ELSE NULL

FileOf(e) == IF CanBeWritten(e) THEN [from |-> FromOf(e), data |-> DataOf(e)] ELSE NULL

\* An entry is a file exactly when it has data.
LEMMA FileOfType ==
    ASSUME NEW e \in Entry
    PROVE  /\ FileOf(e) \in WorkFile \cup {NULL}
           /\ FileOf(e) = NULL <=> ~CanBeWritten(e)
           /\ CanBeWritten(e) => /\ FileOf(e).from = FromOf(e)
                                /\ FileOf(e).data = DataOf(e)
                                /\ DataOf(e) \in Contents
           /\ FromOf(e) \in Names \cup {NULL}
<1>1. e.orig \in File \cup {NULL} /\ e.source \in Contents \cup {NULL}
  BY DEF Entry
<1>2. FromOf(e) \in Names \cup {NULL}
  BY <1>1 DEF FromOf, OrigKey, File, AllNames
<1>3. CanBeWritten(e) => DataOf(e) \in Contents
  BY <1>1 DEF CanBeWritten, DataOf, File
<1>4. CanBeWritten(e) => FileOf(e) \in WorkFile
  BY <1>2, <1>3 DEF FileOf, WorkFile
<1>5. NULL \notin WorkFile
  BY StoreAssumption DEF WorkFile
<1>6. QED
  BY <1>2, <1>3, <1>4, <1>5 DEF FileOf

\* A call that leaves the original and the source of an entry leaves its file.
LEMMA SameFile ==
    ASSUME NEW e, NEW r, r.orig = e.orig, r.source = e.source
    PROVE  FileOf(r) = FileOf(e)
BY DEF FileOf, CanBeWritten, FromOf, DataOf, OrigKey

(***************************************************************************)
(* What the mapping shows of a state.                                      *)
(***************************************************************************)

\* The working copy has the entries under their names.
WorkShown(w) ==
    /\ w \in [Names -> WorkFile \cup {NULL}]
    /\ \A n \in Names, i \in Indices : Key(entry[i]) = n => w[n] = FileOf(entry[i])
    /\ \A n \in Names : (\A i \in Indices : Key(entry[i]) # n) => w[n] = NULL

\* The stored files at the start of the session are the originals.
BaseShown(b) ==
    /\ b \in [Names -> Contents \cup {NULL}]
    /\ \A n \in Names, i \in Indices : OrigKey(entry[i]) = n => b[n] = entry[i].orig.data
    /\ \A n \in Names : (\A i \in Indices : OrigKey(entry[i]) # n) => b[n] = NULL

\* What is stored are the files on the disk.
StoredShown(s) ==
    /\ s \in [Names -> Contents \cup {NULL}]
    /\ disk # NULL => \A n \in Names, j \in 0..(disk.nfiles - 1) :
          disk.files[j].filename = n => s[n] = disk.files[j].data
    /\ \A n \in Names :
          (disk # NULL => \A j \in 0..(disk.nfiles - 1) : disk.files[j].filename # n) =>
              s[n] = NULL

\* An entry with a name that is in use is the file of that name if it is one.
LEMMA IsFileOf ==
    ASSUME IInv, NEW i \in Indices, NEW n \in Names
    PROVE  IsFile(i, n) <=> Key(entry[i]) = n /\ CanBeWritten(entry[i])
<1>1. n # Empty
  BY NamesAssumption
<1>2. QED
  BY <1>1 DEF IsFile, Visible, Key

\* The mapping of the working copy.
LEMMA WorkIsShown == IInv /\ is_open => WorkShown(WorkingFiles)
<1> SUFFICES ASSUME IInv, is_open PROVE WorkShown(WorkingFiles)
  OBVIOUS
<1>0. TableOK /\ TableSound /\ NamesOK
  BY CarefulIsSound
<1> DEFINE W(n) == IF \E i \in Indices : IsFile(i, n)
                   THEN LET i == CHOOSE i \in Indices : IsFile(i, n)
                            orig == entry[i].orig
                        IN [from |-> IF orig # NULL /\ orig.filename # Empty THEN orig.filename
                                     ELSE NULL,
                            data |-> View(entry[i]).data]
                   ELSE NULL
<1>1. WorkingFiles = [n \in Names |-> W(n)]
  BY DEF WorkingFiles
<1>2. ASSUME NEW n \in Names, NEW i \in Indices, Key(entry[i]) = n
      PROVE  W(n) = FileOf(entry[i])
  <2>1. \A j \in Indices : IsFile(j, n) <=> j = i /\ CanBeWritten(entry[i])
    BY <1>0, <1>2, IsFileOf DEF NamesOK
  <2>2. CASE CanBeWritten(entry[i])
    <3>1. (CHOOSE j \in Indices : IsFile(j, n)) = i
      BY <2>1, <2>2
    <3>2. View(entry[i]).data = DataOf(entry[i])
      BY <2>2 DEF View, DataOf, CanBeWritten
    <3>3. W(n) = [from |-> IF entry[i].orig # NULL /\ entry[i].orig.filename # Empty
                             THEN entry[i].orig.filename ELSE NULL,
                  data |-> View(entry[i]).data]
      BY <2>1, <2>2, <3>1
    <3>4. QED
      BY <2>2, <3>2, <3>3 DEF FileOf, FromOf, OrigKey
  <2>3. CASE ~CanBeWritten(entry[i])
    BY <2>1, <2>3 DEF FileOf
  <2>4. QED
    BY <2>2, <2>3
<1>3. ASSUME NEW n \in Names, \A i \in Indices : Key(entry[i]) # n
      PROVE  W(n) = NULL
  BY <1>3, IsFileOf
<1>4. ASSUME NEW n \in Names
      PROVE  W(n) \in WorkFile \cup {NULL}
  <2>1. CASE \E i \in Indices : Key(entry[i]) = n
    BY <1>0, <1>2, <2>1, FileOfType DEF TableOK
  <2>2. CASE \A i \in Indices : Key(entry[i]) # n
    BY <1>3, <2>2
  <2>3. QED
    BY <2>1, <2>2
<1> HIDE DEF W
<1>5. QED
  BY <1>1, <1>2, <1>3, <1>4 DEF WorkShown

\* The mapping of the stored files at the start.
LEMMA BaseIsShown == IInv /\ is_open => BaseShown(OpenedFiles)
<1> SUFFICES ASSUME IInv, is_open PROVE BaseShown(OpenedFiles)
  OBVIOUS
<1>0. TableOK /\ TableSound /\ NamesOK
  BY CarefulIsSound
<1> DEFINE B(n) == IF names[n].orig_index = NoIndex THEN NULL
                   ELSE entry[names[n].orig_index].orig.data
<1>1. OpenedFiles = [n \in Names |-> B(n)]
  BY DEF OpenedFiles
<1>2. ASSUME NEW n \in Names
      PROVE  /\ names[n].orig_index \in Indices \cup {NoIndex}
             /\ names[n].orig_index \in Indices => OrigKey(entry[names[n].orig_index]) = n
             /\ \A i \in Indices : OrigKey(entry[i]) = n => names[n].orig_index = i
  BY <1>0 DEF TableOK, TableType, AllNames, NamesOK
<1>3. \A i \in Indices : i # NoIndex /\ entry[i].orig \in File \cup {NULL}
  BY <1>0, HasDirentFacts DEF Entry
<1>4. ASSUME NEW n \in Names
      PROVE  B(n) \in Contents \cup {NULL}
  <2>1. CASE names[n].orig_index = NoIndex
    BY <2>1
  <2>2. CASE names[n].orig_index \in Indices
    <3>1. entry[names[n].orig_index].orig \in File
      BY <1>2, <1>3, <2>2, NamesAssumption DEF OrigKey
    <3>2. QED
      BY <3>1 DEF File
  <2>3. QED
    BY <1>2, <2>1, <2>2
<1>5. ASSUME NEW n \in Names, NEW i \in Indices, OrigKey(entry[i]) = n
      PROVE  B(n) = entry[i].orig.data
  BY <1>2, <1>3, <1>5
<1>6. ASSUME NEW n \in Names, \A i \in Indices : OrigKey(entry[i]) # n
      PROVE  B(n) = NULL
  BY <1>2, <1>6
<1> HIDE DEF B
<1>7. QED
  BY <1>1, <1>4, <1>5, <1>6 DEF BaseShown

\* The mapping of the disk.
LEMMA StoredIsShown == IInv => StoredShown(StoredFiles)
<1> SUFFICES ASSUME IInv PROVE StoredShown(StoredFiles)
  OBVIOUS
<1>0. DiskNamesUnique /\ (disk = NULL \/ IsArchiveFile(disk))
  BY DEF IInv, TypeOK
<1> DEFINE S(n) == IF disk # NULL /\ \E j \in 0..(disk.nfiles - 1) : disk.files[j].filename = n
                   THEN LET j == CHOOSE j \in 0..(disk.nfiles - 1) : disk.files[j].filename = n
                        IN disk.files[j].data
                   ELSE NULL
<1>1. StoredFiles = [n \in Names |-> S(n)]
  BY DEF StoredFiles
<1>2. ASSUME disk # NULL, NEW n \in Names, NEW j \in 0..(disk.nfiles - 1),
             disk.files[j].filename = n
      PROVE  S(n) = disk.files[j].data
  <2>1. n # Empty
    BY NamesAssumption
  <2>2. \A k \in 0..(disk.nfiles - 1) : disk.files[k].filename = n => k = j
    BY <1>0, <1>2, <2>1 DEF DiskNamesUnique
  <2>3. (CHOOSE k \in 0..(disk.nfiles - 1) : disk.files[k].filename = n) = j
    BY <1>2, <2>2
  <2>4. QED
    BY <1>2, <2>3
<1>3. ASSUME NEW n \in Names,
             disk # NULL => \A j \in 0..(disk.nfiles - 1) : disk.files[j].filename # n
      PROVE  S(n) = NULL
  BY <1>3
<1>4. ASSUME NEW n \in Names
      PROVE  S(n) \in Contents \cup {NULL}
  <2>1. CASE disk # NULL /\ \E j \in 0..(disk.nfiles - 1) : disk.files[j].filename = n
    <3>1. PICK j \in 0..(disk.nfiles - 1) : disk.files[j].filename = n
      BY <2>1
    <3>2. S(n) = disk.files[j].data
      BY <1>2, <2>1, <3>1
    <3>3. disk.files[j] \in File
      BY <1>0, <2>1 DEF IsArchiveFile, ArchiveFile
    <3> HIDE DEF S
    <3>4. QED
      BY <3>2, <3>3 DEF File
  <2>2. CASE ~(disk # NULL /\ \E j \in 0..(disk.nfiles - 1) : disk.files[j].filename = n)
    BY <2>2
  <2>3. QED
    BY <2>1, <2>2
<1> HIDE DEF S
<1>5. QED
  BY <1>1, <1>2, <1>3, <1>4 DEF StoredShown

\* The same of the next state.
LEMMA ShownPrime ==
    /\ IInv' /\ is_open' => WorkShown(WorkingFiles)' /\ BaseShown(OpenedFiles)'
    /\ IInv' => StoredShown(StoredFiles)'
<1>1. /\ IInv /\ is_open => WorkShown(WorkingFiles) /\ BaseShown(OpenedFiles)
      /\ IInv => StoredShown(StoredFiles)
  BY WorkIsShown, BaseIsShown, StoredIsShown
<1>2. QED
  BY <1>1, PTL

(***************************************************************************)
(* The operations of ArchiveStore.                                         *)
(***************************************************************************)

IsWork(w) == w \in [Names -> WorkFile \cup {NULL}]

IsBase(b) == b \in [Names -> Contents \cup {NULL}]

\* A file gets new data, or is put under a name not in use.
LEMMA PutEdited ==
    ASSUME NEW w, IsWork(w), NEW v, IsWork(v), NEW b, NEW n \in Names, NEW d \in Contents,
           v[n] = [from |-> IF w[n] = NULL THEN NULL ELSE w[n].from, data |-> d],
           \A m \in Names \ {n} : v[m] = w[m]
    PROVE  v \in Store!Edited(w, b)
<1>1. w[n] # NULL => w[n] \in [from: Names \cup {NULL}, data: Contents]
  BY DEF IsWork, WorkFile
<1>2. v[n] = IF w[n] = NULL THEN [from |-> NULL, data |-> d] ELSE [w[n] EXCEPT !.data = d]
  BY <1>1
<1>3. v = Store!Put(w, n, d)
  BY <1>2 DEF Store!Put, IsWork
<1>4. QED
  BY <1>3 DEF Store!Edited

\* A file goes.
LEMMA RemoveEdited ==
    ASSUME NEW w, IsWork(w), NEW v, IsWork(v), NEW b, NEW n \in Names,
           w[n] # NULL, v[n] = NULL, \A m \in Names \ {n} : v[m] = w[m]
    PROVE  v \in Store!Edited(w, b)
<1>1. v = Store!Remove(w, n)
  BY DEF Store!Remove, IsWork
<1>2. QED
  BY <1>1 DEF Store!Edited

\* A file takes a name that is not in use.
LEMMA RenameEdited ==
    ASSUME NEW w, IsWork(w), NEW v, IsWork(v), NEW b, NEW n \in Names, NEW k \in Names,
           w[k] # NULL, w[n] = NULL, v[k] = NULL, v[n] = w[k],
           \A m \in Names \ {n, k} : v[m] = w[m]
    PROVE  v \in Store!Edited(w, b)
<1>1. v = Store!Rename(w, k, n)
  BY DEF Store!Rename, IsWork
<1>2. QED
  BY <1>1 DEF Store!Edited

\* A file is as it was stored, and gone from the name it had.
LEMMA RestoreEdited ==
    ASSUME NEW w, IsWork(w), NEW v, IsWork(v), NEW b, IsBase(b), NEW o \in Names,
           b[o] # NULL, w[o] = NULL \/ w[o].from = o,
           v[o] = [from |-> o, data |-> b[o]],
           \A m \in Names \ {o} : v[m] = IF w[m] # NULL /\ w[m].from = o THEN NULL ELSE w[m]
    PROVE  v \in Store!Edited(w, b)
<1>1. Store!Without(w, o)[o] = NULL
  BY DEF Store!Without
<1>2. v = Store!Restore(w, b, o)
  BY DEF Store!Restore, Store!Without, IsWork
<1>3. o \in {n \in Names : b[n] # NULL /\ Store!Without(w, n)[n] = NULL}
  BY <1>1
<1>4. Store!Restore(w, b, o) \in {Store!Restore(w, b, n) :
                          n \in {m \in Names : b[m] # NULL /\ Store!Without(w, m)[m] = NULL}}
  BY <1>3
<1>5. QED
  BY <1>2, <1>4 DEF Store!Edited

\* Every file is as it was stored.
LEMMA CopyEdited ==
    ASSUME NEW w, NEW v, IsWork(v), NEW b,
           \A n \in Names : v[n] = IF b[n] = NULL THEN NULL ELSE [from |-> n, data |-> b[n]]
    PROVE  v = Store!Copy(b) /\ v \in Store!Edited(w, b)
<1>1. v = Store!Copy(b)
  BY DEF Store!Copy, IsWork
<1>2. QED
  BY <1>1 DEF Store!Edited

(***************************************************************************)
(* What a call does to the working copy.                                   *)
(***************************************************************************)

\* The invariants before and after a call on an open archive.
InCall == IInv /\ SoundInv /\ SessionInv /\ IInv' /\ is_open /\ is_open'

\* A call that makes something else of one entry changes nothing but the files
\* under its old and its new name.
LEMMA OneEntryShown ==
    ASSUME InCall, NEW i \in Indices, nentry' = nentry,
           \A j \in Indices \ {i} : entry'[j] = entry[j],
           NEW n \in Names
    PROVE  WorkingFiles'[n] =
             IF n = Key(entry'[i]) THEN FileOf(entry'[i])
             ELSE IF n = Key(entry[i]) THEN NULL ELSE WorkingFiles[n]
<1>0. Indices' = Indices /\ NamesOK /\ NamesOK'
  BY DEF Indices, InCall, IInv
<1>1. /\ \A j \in Indices : Key(entry[j]) = n => WorkingFiles[n] = FileOf(entry[j])
      /\ (\A j \in Indices : Key(entry[j]) # n) => WorkingFiles[n] = NULL
  BY WorkIsShown DEF InCall, WorkShown
<1>2. /\ \A j \in Indices : Key(entry'[j]) = n => WorkingFiles'[n] = FileOf(entry'[j])
      /\ (\A j \in Indices : Key(entry'[j]) # n) => WorkingFiles'[n] = NULL
  BY <1>0, ShownPrime DEF InCall, WorkShown
<1>3. \A j, k \in Indices : Key(entry[j]) = n /\ Key(entry[k]) = n => j = k
  BY <1>0 DEF NamesOK
<1>4. CASE n = Key(entry'[i])
  BY <1>2, <1>4
<1>5. CASE n # Key(entry'[i]) /\ n = Key(entry[i])
  <2>1. \A j \in Indices : Key(entry'[j]) # n
    BY <1>3, <1>5
  <2>2. QED
    BY <1>2, <1>5, <2>1
<1>6. CASE n # Key(entry'[i]) /\ n # Key(entry[i])
  <2>1. CASE \E j \in Indices : Key(entry[j]) = n
    <3>1. PICK j \in Indices : Key(entry[j]) = n
      BY <2>1
    <3>2. j # i /\ entry'[j] = entry[j]
      BY <1>6, <3>1
    <3>3. QED
      BY <1>1, <1>2, <1>6, <3>1, <3>2
  <2>2. CASE \A j \in Indices : Key(entry[j]) # n
    <3>1. \A j \in Indices : Key(entry'[j]) # n
      BY <1>6, <2>2
    <3>2. QED
      BY <1>1, <1>2, <1>6, <2>2, <3>1
  <2>3. QED
    BY <2>1, <2>2
<1>7. QED
  BY <1>4, <1>5, <1>6

\* A call that adds an entry changes nothing but the file under its name.
LEMMA NewEntryShown ==
    ASSUME InCall, nentry' = nentry + 1, \A j \in Indices : entry'[j] = entry[j],
           NEW n \in Names, HashLookup(names, n) = NoIndex \/ Key(entry'[nentry]) # n
    PROVE  WorkingFiles'[n] =
             IF n = Key(entry'[nentry]) THEN FileOf(entry'[nentry]) ELSE WorkingFiles[n]
<1>0. /\ nentry \in Nat /\ Indices' = Indices \cup {nentry}
      /\ NamesOK /\ NamesOK'
  BY BoundAssumption DEF Indices, InCall, IInv, TypeOK
<1>1. /\ \A j \in Indices : Key(entry[j]) = n => WorkingFiles[n] = FileOf(entry[j])
      /\ (\A j \in Indices : Key(entry[j]) # n) => WorkingFiles[n] = NULL
  BY WorkIsShown DEF InCall, WorkShown
<1>2. /\ \A j \in Indices' : Key(entry'[j]) = n => WorkingFiles'[n] = FileOf(entry'[j])
      /\ (\A j \in Indices' : Key(entry'[j]) # n) => WorkingFiles'[n] = NULL
  BY ShownPrime DEF InCall, WorkShown
<1>3. CASE n = Key(entry'[nentry])
  BY <1>0, <1>2, <1>3
<1>4. CASE n # Key(entry'[nentry])
  BY <1>0, <1>1, <1>2, <1>4
<1>5. QED
  BY <1>3, <1>4

\* A call that keeps the originals keeps the stored files of the session.
LEMMA BaseKept ==
    ASSUME InCall, SameOriginals
    PROVE  OpenedFiles' = OpenedFiles
<1>0. /\ nentry \in Nat /\ Indices \subseteq Indices'
  <2>1. nentry \in Nat /\ nentry' \in Nat /\ nentry <= nentry'
    BY BoundAssumption DEF InCall, IInv, TypeOK, SameOriginals
  <2>2. \A m, n \in Nat : m <= n => 0..(m - 1) \subseteq 0..(n - 1)
    OBVIOUS
  <2>3. QED
    BY <2>1, <2>2 DEF Indices
<1>1. BaseShown(OpenedFiles) /\ BaseShown(OpenedFiles)'
  BY BaseIsShown, ShownPrime DEF InCall
<1>2. ASSUME NEW n \in Names
      PROVE  OpenedFiles'[n] = OpenedFiles[n]
  <2>0. n # Empty
    BY NamesAssumption
  <2>1. CASE \E i \in Indices : OrigKey(entry[i]) = n
    <3>1. PICK i \in Indices : OrigKey(entry[i]) = n
      BY <2>1
    <3>2. i \in Indices' /\ entry'[i].orig = entry[i].orig /\ OrigKey(entry'[i]) = n
      BY <1>0, <3>1 DEF SameOriginals, OrigKey
    <3>3. QED
      BY <1>1, <3>1, <3>2 DEF BaseShown
  <2>2. CASE \A i \in Indices : OrigKey(entry[i]) # n
    <3>1. \A i \in Indices' : OrigKey(entry'[i]) # n
      BY <2>0, <2>2 DEF SameOriginals, OrigKey
    <3>2. QED
      BY <1>1, <2>2, <3>1 DEF BaseShown
  <2>3. QED
    BY <2>1, <2>2
<1>3. QED
  BY <1>1, <1>2 DEF BaseShown

\* A call that leaves the disk leaves what is stored.
LEMMA StoredKept ==
    ASSUME disk' = disk
    PROVE  StoredFiles' = StoredFiles
BY DEF StoredFiles

\* A call that keeps the names and the files of all entries shows nothing.
LEMMA NothingShown ==
    ASSUME InCall, nentry' = nentry,
           \A j \in Indices : Key(entry'[j]) = Key(entry[j]) /\ FileOf(entry'[j]) = FileOf(entry[j])
    PROVE  WorkingFiles' = WorkingFiles
<1>0. Indices' = Indices
  BY DEF Indices
<1>1. WorkShown(WorkingFiles) /\ WorkShown(WorkingFiles)'
  BY WorkIsShown, ShownPrime DEF InCall
<1>2. ASSUME NEW n \in Names
      PROVE  WorkingFiles'[n] = WorkingFiles[n]
  BY <1>0, <1>1 DEF WorkShown
<1>3. QED
  BY <1>1, <1>2 DEF WorkShown

(***************************************************************************)
(* One lemma per kind of call.                                             *)
(***************************************************************************)

\* What a call shows of the working copy: an operation or nothing.
WorkEdited ==
    WorkingFiles' = WorkingFiles \/ WorkingFiles' \in Store!Edited(WorkingFiles, OpenedFiles)

\* The types of what is shown.
LEMMA ShownTypes ==
    ASSUME InCall
    PROVE  IsWork(WorkingFiles) /\ IsWork(WorkingFiles') /\ IsBase(OpenedFiles)
BY WorkIsShown, BaseIsShown, ShownPrime DEF InCall, WorkShown, BaseShown, IsWork, IsBase

\* An entry without a name that was stored was stored without one.
LEMMA NoNameNoFrom ==
    ASSUME NEW e \in Entry, EntryOK(e), Seen(e), HasDirent(e), Key(e) = Empty
    PROVE  FromOf(e) = NULL
BY DEF EntryOK, Sound, Seen, RenamedHasName, HasDirent, Key, NameOf, FromOf, OrigKey

\* The facts about an entry that the lemmas need.
LEMMA EntryFacts ==
    ASSUME InCall, NEW i \in Indices
    PROVE  /\ entry[i] \in Entry /\ Sound(entry[i]) /\ EntryOK(entry[i]) /\ Seen(entry[i])
           /\ Key(entry[i]) \in AllNames
           /\ \A n \in Names : Key(entry[i]) = n => WorkingFiles[n] = FileOf(entry[i])
<1>1. TableOK /\ TableSound /\ NamesOK
  BY CarefulIsSound DEF InCall
<1>2. QED
  BY <1>1, HasDirentFacts, WorkIsShown DEF InCall, SessionInv, WorkShown

\* New data for an entry (_zip_file_replace).
LEMMA DataStep ==
    ASSUME InCall, NEW i \in Indices, nentry' = nentry,
           \A j \in Indices \ {i} : entry'[j] = entry[j],
           Alike(entry[i], entry'[i]), entry'[i].source \in Contents
    PROVE  WorkEdited
<1> DEFINE e == entry[i]
           r == entry'[i]
           k == Key(e)
           w == WorkingFiles
           v == WorkingFiles'
<1>1. e \in Entry /\ k \in AllNames /\ (k \in Names => w[k] = FileOf(e))
  BY EntryFacts
<1>2. r \in Entry /\ r.orig = e.orig /\ Key(r) = k /\ r.source # NULL
  BY DataAssumption DEF Alike
<1>3. \A n \in Names : v[n] = IF n = k THEN FileOf(r) ELSE w[n]
  BY <1>2, OneEntryShown
<1>4. IsWork(w) /\ IsWork(v)
  BY ShownTypes
<1>5. FileOf(r) = [from |-> FromOf(e), data |-> r.source]
  BY <1>2 DEF FileOf, CanBeWritten, DataOf, FromOf, OrigKey
<1>6. FromOf(e) = IF FileOf(e) = NULL THEN NULL ELSE FileOf(e).from
  BY <1>1, FileOfType DEF CanBeWritten, FromOf, OrigKey
<1> HIDE DEF e, r, k, w, v
<1>7. CASE k \in Names
  BY <1>1, <1>3, <1>4, <1>5, <1>6, <1>7, PutEdited DEF WorkEdited, w, v, r
<1>8. CASE k \notin Names
  <2>1. \A n \in Names : v[n] = w[n]
    BY <1>3, <1>8
  <2>2. v = w
    BY <1>4, <2>1 DEF IsWork
  <2>3. QED
    BY <2>2 DEF WorkEdited, w, v
<1>9. QED
  BY <1>7, <1>8

\* An entry loses its name (zip_delete).
LEMMA GoneStep ==
    ASSUME InCall, NEW i \in Indices, nentry' = nentry,
           \A j \in Indices \ {i} : entry'[j] = entry[j], Key(entry'[i]) = Empty
    PROVE  WorkEdited
<1> DEFINE k == Key(entry[i])
           w == WorkingFiles
           v == WorkingFiles'
<1>1. \A n \in Names : v[n] = IF n = k THEN NULL ELSE w[n]
  BY OneEntryShown, NamesAssumption
<1>2. IsWork(w) /\ IsWork(v)
  BY ShownTypes
<1> HIDE DEF k, w, v
<1>3. CASE k \in Names /\ w[k] # NULL
  BY <1>1, <1>2, <1>3, RemoveEdited DEF WorkEdited, w, v
<1>4. CASE ~(k \in Names /\ w[k] # NULL)
  <2>1. \A n \in Names : v[n] = w[n]
    BY <1>1, <1>4
  <2>2. v = w
    BY <1>2, <2>1 DEF IsWork
  <2>3. QED
    BY <2>2 DEF WorkEdited, w, v
<1>5. QED
  BY <1>3, <1>4

\* An added entry (zip_file_add, zip_dir_add).
LEMMA AddStep ==
    ASSUME InCall, NEW n \in Names, HashLookup(names, n) = NoIndex, nentry' = nentry + 1,
           \A j \in Indices : entry'[j] = entry[j],
           entry'[nentry].orig = NULL,
           \/ Key(entry'[nentry]) = n /\ entry'[nentry].source \in Contents
           \/ Key(entry'[nentry]) = Empty
    PROVE  WorkEdited
<1> DEFINE r == entry'[nentry]
           w == WorkingFiles
           v == WorkingFiles'
<1>1. \A m \in Names : v[m] = IF m = Key(r) THEN FileOf(r) ELSE w[m]
  BY NewEntryShown, NamesAssumption
<1>2. IsWork(w) /\ IsWork(v) /\ n # Empty
  BY ShownTypes, NamesAssumption
<1>3. w[n] = NULL
  <2>1. NamesOK /\ \A i \in Indices : i # NoIndex
    BY CarefulIsSound, HasDirentFacts DEF InCall
  <2>2. \A i \in Indices : Key(entry[i]) # n
    BY <2>1 DEF NamesOK, HashLookup
  <2>3. QED
    BY <2>2, WorkIsShown DEF InCall, WorkShown
<1> HIDE DEF w, v
<1>4. CASE Key(r) = n /\ r.source \in Contents
  <2>1. FileOf(r) = [from |-> NULL, data |-> r.source]
    BY <1>4, DataAssumption DEF FileOf, CanBeWritten, DataOf, FromOf, OrigKey
  <2>2. v[n] = [from |-> NULL, data |-> r.source] /\ \A m \in Names \ {n} : v[m] = w[m]
    BY <1>1, <1>4, <2>1
  <2> HIDE DEF r
  <2>3. QED
    BY <1>2, <1>3, <1>4, <2>2, PutEdited DEF WorkEdited, w, v
<1>5. CASE Key(r) = Empty
  <2>1. \A m \in Names : v[m] = w[m]
    BY <1>1, <1>5, NamesAssumption
  <2>2. v = w
    BY <1>2, <2>1 DEF IsWork
  <2>3. QED
    BY <2>2 DEF WorkEdited, w, v
<1>6. QED
  BY <1>4, <1>5

\* zip_file_rename: a file without a name is put under its new one.
LEMMA RenameShown ==
    ASSUME InCall, NEW i \in Indices, NEW n \in Names, FileRename(i, n)
    PROVE  WorkEdited
<1> DEFINE e == entry[i]
           r == Renamed(e, n)
           k == Key(e)
           w == WorkingFiles
           v == WorkingFiles'
<1>1. /\ HasDirent(e) /\ HashLookup(names, n) = NoIndex /\ nentry' = nentry
      /\ entry' = [entry EXCEPT ![i] = r]
  BY DEF FileRename
<1>2. /\ e \in Entry /\ Sound(e) /\ EntryOK(e) /\ Seen(e) /\ k \in AllNames
      /\ k \in Names => w[k] = FileOf(e)
  BY EntryFacts
<1>3. /\ \A j \in Indices : Key(entry[j]) # n
      /\ entry \in [Indices -> Entry] /\ n \in AllNames /\ n # Empty
  <2>1. TableOK /\ NamesOK /\ \A j \in Indices : j # NoIndex
    BY CarefulIsSound, HasDirentFacts DEF InCall
  <2>2. QED
    BY <1>1, <2>1, NamesAssumption DEF NamesOK, HashLookup, TableOK, AllNames
<1>4. k # n /\ w[n] = NULL
  BY <1>3, WorkIsShown DEF InCall, WorkShown
<1>5. Key(r) = n /\ r.orig = e.orig
  BY <1>1, <1>2, <1>3, <1>4, RenamedType
<1>6. r.source = e.source
  BY <1>2 DEF Renamed, Entry
<1>7. FileOf(r) = FileOf(e)
  BY <1>5, <1>6, SameFile
<1>8. entry'[i] = r /\ \A j \in Indices \ {i} : entry'[j] = entry[j]
  BY <1>1, <1>3
<1>9. \A m \in Names : v[m] = IF m = n THEN FileOf(e) ELSE IF m = k THEN NULL ELSE w[m]
  BY <1>1, <1>5, <1>7, <1>8, OneEntryShown
<1>10. IsWork(w) /\ IsWork(v)
  BY ShownTypes
<1>11. /\ FileOf(e) # NULL => CanBeWritten(e) /\ DataOf(e) \in Contents
                            /\ FileOf(e) = [from |-> FromOf(e), data |-> DataOf(e)]
       /\ k = Empty => FromOf(e) = NULL
  BY <1>1, <1>2, FileOfType, NoNameNoFrom DEF FileOf
<1> HIDE DEF e, r, k, w, v
<1>12. CASE FileOf(e) = NULL
  <2>1. \A m \in Names : v[m] = w[m]
    BY <1>2, <1>4, <1>9, <1>12
  <2>2. v = w
    BY <1>10, <2>1 DEF IsWork
  <2>3. QED
    BY <2>2 DEF WorkEdited, w, v
<1>13. CASE FileOf(e) # NULL /\ k \in Names
  BY <1>2, <1>4, <1>9, <1>10, <1>13, RenameEdited DEF WorkEdited, w, v
<1>14. CASE FileOf(e) # NULL /\ k \notin Names
  <2>1. k = Empty
    BY <1>2, <1>14 DEF AllNames
  <2>2. v[n] = [from |-> IF w[n] = NULL THEN NULL ELSE w[n].from, data |-> DataOf(e)]
    BY <1>4, <1>9, <1>11, <1>14, <2>1
  <2>3. \A m \in Names \ {n} : v[m] = w[m]
    BY <1>9, <1>14
  <2>4. QED
    BY <1>10, <1>11, <1>14, <2>2, <2>3, PutEdited DEF WorkEdited, w, v
<1>15. QED
  BY <1>12, <1>13, <1>14

\* zip_unchange: a file that was stored is restored, another one is gone.
LEMMA UnchangeShown ==
    ASSUME InCall, NEW i \in Indices, Unchange(i)
    PROVE  WorkEdited
<1> DEFINE e == entry[i]
           u == Unchanged(e)
           k == Key(e)
           o == OrigKey(e)
           w == WorkingFiles
           v == WorkingFiles'
           b == OpenedFiles
<1>1. entry' = [entry EXCEPT ![i] = u] /\ nentry' = nentry
  BY DEF Unchange
<1>2. /\ e \in Entry /\ Sound(e) /\ EntryOK(e) /\ Seen(e) /\ k \in AllNames
      /\ k \in Names => w[k] = FileOf(e)
  BY EntryFacts
<1>3. TableOK /\ TableSound /\ NamesOK
  BY CarefulIsSound DEF InCall
<1>4. entry \in [Indices -> Entry] /\ o \in AllNames
  BY <1>3, HasDirentFacts DEF TableOK
<1>5. u.orig = e.orig /\ Key(u) = o /\ u.source = NULL
  BY <1>2, UnchangedType DEF Unchanged, NewEntry
<1>6. entry'[i] = u /\ \A j \in Indices \ {i} : entry'[j] = entry[j]
  BY <1>1, <1>4
<1>7. CASE o = Empty
  BY <1>1, <1>5, <1>6, <1>7, GoneStep
<1>8. CASE o # Empty
  <2>1. o \in Names /\ e.orig \in File
    BY <1>2, <1>4, <1>8 DEF AllNames, OrigKey, Entry
  <2>2. \A m \in Names : v[m] = IF m = o THEN FileOf(u) ELSE IF m = k THEN NULL ELSE w[m]
    BY <1>1, <1>5, <1>6, OneEntryShown
  <2>3. b[o] = e.orig.data
    BY <2>1, BaseIsShown DEF InCall, BaseShown
  <2>4. b[o] # NULL /\ FileOf(u) = [from |-> o, data |-> b[o]]
    BY <1>5, <1>8, <2>1, <2>3, DataAssumption
       DEF FileOf, CanBeWritten, FromOf, DataOf, OrigKey, File
  <2>5. ASSUME NEW m \in Names, w[m] # NULL
        PROVE  w[m].from = o <=> m = k
    <3>1. PICK j \in Indices : Key(entry[j]) = m
      BY <2>5, WorkIsShown DEF InCall, WorkShown
    <3>2. w[m] = FileOf(entry[j]) /\ entry[j] \in Entry
      BY <3>1, EntryFacts
    <3>3. w[m].from = FromOf(entry[j])
      BY <2>5, <3>2, FileOfType
    <3>4. FromOf(entry[j]) = o <=> OrigKey(entry[j]) = o
      BY <1>8, <2>1, DataAssumption DEF FromOf
    <3>5. OrigKey(entry[j]) = o <=> j = i
      BY <1>3, <2>1 DEF NamesOK
    <3>6. m = k <=> j = i
      BY <1>3, <3>1 DEF NamesOK
    <3>7. QED
      BY <3>3, <3>4, <3>5, <3>6
  <2>6. o = k \/ w[o] = NULL
    <3>1. CASE FieldChanged(e, "FILENAME") \/ e.deleted
      <4>1. names[o].current_index = NoIndex
        BY <2>1, <3>1 DEF Unchange, HashCanAdd, OrigKey
      <4>2. \A j \in Indices : Key(entry[j]) # o
        BY <1>3, <2>1, <4>1, HasDirentFacts DEF NamesOK
      <4>3. QED
        BY <2>1, <4>2, WorkIsShown DEF InCall, WorkShown
    <3>2. CASE ~(FieldChanged(e, "FILENAME") \/ e.deleted)
      BY <1>2, <2>1, <3>2 DEF FieldChanged, EntryOK, Sound, HasDirent, Key, NameOf, OrigKey
    <3>3. QED
      BY <3>1, <3>2
  <2>7. IsWork(w) /\ IsWork(v) /\ IsBase(b)
    BY ShownTypes
  <2> HIDE DEF e, u, k, o, w, v, b
  <2>8. \A m \in Names \ {o} : v[m] = IF w[m] # NULL /\ w[m].from = o THEN NULL ELSE w[m]
    BY <2>2, <2>5
  <2>9. w[o] = NULL \/ w[o].from = o
    BY <2>1, <2>5, <2>6
  <2>10. v[o] = [from |-> o, data |-> b[o]]
    BY <2>1, <2>2, <2>4
  <2>11. v \in Store!Edited(w, b)
    BY <2>1, <2>4, <2>7, <2>8, <2>9, <2>10, RestoreEdited
  <2>12. QED
    BY <2>11 DEF WorkEdited, w, v, b
<1>9. QED
  BY <1>7, <1>8

\* The entries are what was stored and no more.
AsStored == \A i \in Indices : entry[i] = Unchanged(entry[i])

\* The working copy is a copy of the stored files.
WorkIsCopy ==
    \A n \in Names : WorkingFiles[n] = IF OpenedFiles[n] = NULL THEN NULL
                                       ELSE [from |-> n, data |-> OpenedFiles[n]]

\* Entries as they were stored show a copy of the stored files.
LEMMA AllAsStored == IInv /\ is_open /\ AsStored => WorkIsCopy
<1> SUFFICES ASSUME IInv, is_open, AsStored PROVE WorkIsCopy
  OBVIOUS
<1>0. TableOK /\ TableSound /\ NamesOK
  BY CarefulIsSound
<1>1. WorkShown(WorkingFiles) /\ BaseShown(OpenedFiles)
  BY WorkIsShown, BaseIsShown
<1>2. ASSUME NEW i \in Indices
      PROVE  Key(entry[i]) = OrigKey(entry[i]) /\ entry[i].source = NULL /\ entry[i] \in Entry
  BY <1>0, UnchangedType DEF TableOK, Unchanged, NewEntry, AsStored
<1> SUFFICES ASSUME NEW n \in Names
             PROVE  WorkingFiles[n] = IF OpenedFiles[n] = NULL THEN NULL
                                      ELSE [from |-> n, data |-> OpenedFiles[n]]
  BY DEF WorkIsCopy
<1>3. CASE \E i \in Indices : OrigKey(entry[i]) = n
  <2>1. PICK i \in Indices : OrigKey(entry[i]) = n
    BY <1>3
  <2>2. WorkingFiles[n] = FileOf(entry[i]) /\ OpenedFiles[n] = entry[i].orig.data
    BY <1>1, <1>2, <2>1 DEF WorkShown, BaseShown
  <2>3. n # Empty
    BY NamesAssumption
  <2>4. entry[i].orig \in File
    BY <1>2, <2>1, <2>3 DEF OrigKey, Entry
  <2>5. QED
    BY <1>2, <2>1, <2>2, <2>3, <2>4, DataAssumption
       DEF FileOf, CanBeWritten, FromOf, DataOf, File
<1>4. CASE \A i \in Indices : OrigKey(entry[i]) # n
  BY <1>1, <1>2, <1>4 DEF WorkShown, BaseShown
<1>5. QED
  BY <1>3, <1>4

\* The same of the next state.
LEMMA AllAsStoredPrime == IInv' /\ is_open' /\ AsStored' => WorkIsCopy'
<1>1. IInv /\ is_open /\ AsStored => WorkIsCopy
  BY AllAsStored
<1>2. QED
  BY <1>1, PTL

(***************************************************************************)
(* The calls that edit an open archive.                                    *)
(***************************************************************************)

\* Whatever a call does to an open archive is an operation on the working copy
\* or shows nothing.
LEMMA EditShown ==
    ASSUME InCall, Edit \/ \E i \in Survivors : SetMethod(i)
    PROVE  WorkEdited
<1>0. /\ TableOK /\ TableSound /\ NamesOK /\ nentry \in Nat /\ entry \in [Indices -> Entry]
      /\ NoData \in Contents /\ Sources \subseteq Contents
      /\ nentry \notin Indices
      /\ \A i \in Indices : i \in 0..nentry
  BY CarefulIsSound, BoundAssumption, DataAssumption DEF InCall, IInv, TypeOK, Indices
\* A call that changes one entry.
<1>1. ASSUME NEW i \in Indices, NEW r, entry' = [entry EXCEPT ![i] = r]
      PROVE  entry'[i] = r /\ \A j \in Indices \ {i} : entry'[j] = entry[j]
  BY <1>0, <1>1
<1>2. ASSUME NEW r, entry' = [i \in 0..nentry |-> IF i = nentry THEN r ELSE entry[i]]
      PROVE  entry'[nentry] = r /\ \A j \in Indices : entry'[j] = entry[j]
  BY <1>0, <1>2
<1>3. ASSUME NEW n \in Names, NEW d \in Contents
      PROVE  LET e == Replaced(Renamed(NewEntry, n), d)
             IN /\ e \in Entry /\ Sound(e) /\ e.orig = NULL /\ e.source = d
                /\ Key(e) = n /\ HasDirent(e)
  <2> DEFINE a == Renamed(NewEntry, n)
             e == Replaced(a, d)
  <2>1. /\ a \in Entry /\ Sound(a) /\ a.orig = NULL /\ HasDirent(a) /\ Key(a) = n
        /\ n # Empty
    BY NewEntryType, RenamedType, NamesAssumption DEF AllNames, EntryOK
  <2> HIDE DEF a
  <2>2. Alike(a, e) /\ e.source = d
    BY <2>1, ReplacedKeeps DEF Replaced, Entry
  <2> HIDE DEF e
  <2>3. e \in Entry /\ Sound(e) /\ e.orig = NULL /\ e.source = d /\ Key(e) = n /\ HasDirent(e)
    BY <2>1, <2>2 DEF Alike, Key
  <2>4. QED
    BY <2>3 DEF e, a
<1>4. ASSUME NEW n \in Names, NEW d \in Sources, FileAdd(n, d)
      PROVE  WorkEdited
  <2> DEFINE e == Replaced(Renamed(NewEntry, n), d)
  <2>1. e.orig = NULL /\ e.source \in Contents /\ Key(e) = n
    BY <1>0, <1>3
  <2>2. /\ HashLookup(names, n) = NoIndex /\ nentry' = nentry + 1
        /\ entry' = [i \in 0..nentry |-> IF i = nentry THEN e ELSE entry[i]]
    BY <1>4 DEF FileAdd, AddEntry
  <2> HIDE DEF e
  <2>3. entry'[nentry] = e /\ \A j \in Indices : entry'[j] = entry[j]
    BY <1>2, <2>2
  <2>4. QED
    BY <2>1, <2>2, <2>3, AddStep
<1>5. ASSUME NEW i \in Indices, NEW d \in Sources, FileReplace(i, d)
      PROVE  WorkEdited
  <2> DEFINE r == Replaced(entry[i], d)
  <2>1. HasDirent(entry[i]) /\ nentry' = nentry /\ entry' = [entry EXCEPT ![i] = r]
    BY <1>5 DEF FileReplace
  <2>2. Alike(entry[i], r)
    BY <1>0, <2>1, EntryFacts, ReplacedKeeps
  <2>3. r.source \in Contents
    BY <1>0 DEF Replaced, Entry
  <2> HIDE DEF r
  <2>4. QED
    BY <1>1, <2>1, <2>2, <2>3, DataStep
<1>6. ASSUME NEW n \in Names, NEW d \in Sources, FileOverwrite(n, d)
      PROVE  WorkEdited
  BY <1>5, <1>6 DEF FileOverwrite, FileReplace
<1>7. ASSUME NEW e \in Entry, Sound(e), HasDirent(e), NEW a \in AllAttrs
      PROVE  Alike(e, WithAttributes(e, a)) /\ WithAttributes(e, a).source = e.source
  BY <1>7, WithAttributesKeeps DEF WithAttributes, Entry
<1>8. ASSUME NEW n \in Names, DirAdd(n)
      PROVE  WorkEdited
  <2> DEFINE e == Replaced(Renamed(NewEntry, n), NoData)
             r == IF WantTorrentzip THEN [Unchanged(e) EXCEPT !.deleted = TRUE]
                  ELSE WithAttributes(e, DirAttr)
  <2>1. /\ e \in Entry /\ Sound(e) /\ e.orig = NULL /\ e.source = NoData
        /\ Key(e) = n /\ HasDirent(e)
    BY <1>0, <1>3
  <2>2. /\ HashLookup(names, n) = NoIndex /\ nentry' = nentry + 1
        /\ entry' = [i \in 0..nentry |-> IF i = nentry THEN r ELSE entry[i]]
    BY <1>8 DEF DirAdd, AddEntry
  <2> HIDE DEF e
  <2>3. WantTorrentzip => r.orig = NULL /\ Key(r) = Empty
    BY <2>1, UnchangedType
  <2>4. ~WantTorrentzip => r.orig = NULL /\ Key(r) = n /\ r.source \in Contents
    BY <1>0, <1>7, <2>1, AttrsType DEF Alike
  <2> HIDE DEF r
  <2>5. entry'[nentry] = r /\ \A j \in Indices : entry'[j] = entry[j]
    BY <1>2, <2>2
  <2>6. QED
    BY <2>2, <2>3, <2>4, <2>5, AddStep
<1>9. ASSUME NEW n \in Names, DirOverwrite(n)
      PROVE  WorkEdited
  <2> DEFINE i == HashLookup(names, n)
             e == Replaced(entry[i], NoData)
             r == IF WantTorrentzip THEN [Unchanged(e) EXCEPT !.deleted = TRUE]
                  ELSE WithAttributes(e, DirAttr)
  <2>1. i \in Indices /\ HasDirent(entry[i])
    BY <1>0, <1>9 DEF DirOverwrite, HashLookup, TableOK, TableType, AllNames
  <2>2. entry' = [entry EXCEPT ![i] = r] /\ nentry' = nentry
    BY <1>9 DEF DirOverwrite
  <2>3. Key(entry[i]) # Empty
    BY <1>0, <2>1, NamesAssumption DEF NamesOK, HashLookup
  <2> HIDE DEF i
  <2>4. Alike(entry[i], e) /\ e.source \in Contents
    BY <1>0, <2>1, EntryFacts, ReplacedKeeps DEF Replaced, Entry
  <2> HIDE DEF e
  <2>5. HasDirent(e) /\ e \in Entry /\ Sound(e)
    BY <2>3, <2>4 DEF Alike, Key
  <2>6. WantTorrentzip => Key(r) = Empty
    BY <2>5, UnchangedType
  <2>7. ~WantTorrentzip => Alike(entry[i], r) /\ r.source \in Contents
    BY <1>7, <2>4, <2>5, AttrsType DEF Alike
  <2> HIDE DEF r
  <2>8. entry'[i] = r /\ \A j \in Indices \ {i} : entry'[j] = entry[j]
    BY <1>1, <2>1, <2>2
  <2>9. QED
    BY <2>1, <2>2, <2>6, <2>7, <2>8, DataStep, GoneStep
<1>10. ASSUME NEW i \in Indices, NEW n \in Names, FileRename(i, n)
       PROVE  WorkEdited
  BY <1>10, RenameShown
\* A call that changes something of one entry that the store does not show.
<1>11. ASSUME NEW i \in Indices, NEW r, Alike(entry[i], r), r.source = entry[i].source,
              entry' = [entry EXCEPT ![i] = r], nentry' = nentry
       PROVE  WorkEdited
  <2>1. entry'[i] = r /\ \A j \in Indices \ {i} : entry'[j] = entry[j]
    BY <1>1, <1>11
  <2>2. Key(r) = Key(entry[i]) /\ FileOf(r) = FileOf(entry[i])
    BY <1>11, SameFile DEF Alike
  <2>3. WorkingFiles' = WorkingFiles
    BY <1>11, <2>1, <2>2, NothingShown
  <2>4. QED
    BY <2>3 DEF WorkEdited
<1>12. ASSUME NEW i \in Indices, NEW c \in MaybeComment, SetComment(i, c)
       PROVE  WorkEdited
  <2> DEFINE r == Commented(entry[i], c)
  <2>1. HasDirent(entry[i]) /\ entry' = [entry EXCEPT ![i] = r] /\ nentry' = nentry
    BY <1>12 DEF SetComment
  <2>2. Alike(entry[i], r) /\ r.source = entry[i].source
    BY <2>1, EntryFacts, CommentedKeeps DEF Commented, Entry
  <2> HIDE DEF r
  <2>3. QED
    BY <1>11, <2>1, <2>2
<1>13. ASSUME NEW i \in Indices, NEW a \in Attrs, SetAttributes(i, a)
       PROVE  WorkEdited
  <2> DEFINE r == WithAttributes(entry[i], a)
  <2>1. HasDirent(entry[i]) /\ entry' = [entry EXCEPT ![i] = r] /\ nentry' = nentry
    BY <1>13 DEF SetAttributes
  <2>2. Alike(entry[i], r) /\ r.source = entry[i].source
    BY <1>7, <2>1, EntryFacts DEF AllAttrs
  <2> HIDE DEF r
  <2>3. QED
    BY <1>11, <2>1, <2>2
<1>14. ASSUME NEW i \in Indices, Delete(i)
       PROVE  WorkEdited
  <2> DEFINE r == [Unchanged(entry[i]) EXCEPT !.deleted = TRUE]
  <2>1. Key(r) = Empty
    BY EntryFacts, UnchangedType
  <2>2. entry' = [entry EXCEPT ![i] = r] /\ nentry' = nentry
    BY <1>14 DEF Delete
  <2> HIDE DEF r
  <2>3. QED
    BY <1>1, <2>1, <2>2, GoneStep
<1>15. ASSUME NEW i \in Indices, Unchange(i)
       PROVE  WorkEdited
  BY <1>15, UnchangeShown
<1>16. CASE UnchangeAll
  <2>1. /\ entry' = [i \in Indices |-> Unchanged(entry[i])] /\ Indices' = Indices
        /\ SameOriginals
    BY <1>16, EditKeeps DEF UnchangeAll, Indices, InCall, Edit
  <2>2. AsStored'
    BY <2>1 DEF AsStored, Unchanged, NewEntry
  <2>3. WorkIsCopy' /\ OpenedFiles' = OpenedFiles
    BY <2>1, <2>2, AllAsStoredPrime, BaseKept DEF InCall
  <2>4. WorkingFiles' \in Store!Edited(WorkingFiles, OpenedFiles)
    BY <2>3, ShownTypes, CopyEdited DEF WorkIsCopy
  <2>5. QED
    BY <2>4 DEF WorkEdited
\* A call that leaves the entries alone.
<1>17. ASSUME UNCHANGED <<nentry, entry>>
       PROVE  WorkEdited
  BY <1>17, NothingShown DEF WorkEdited
<1>18. ASSUME NEW i \in Indices, SetMark(i), HasDirent(entry[i]) \/ ~entry[i].deleted
       PROVE  WorkEdited
  <2> DEFINE r == Marked(entry[i])
  <2>1. entry' = [entry EXCEPT ![i] = r] /\ nentry' = nentry
    BY <1>18 DEF SetMark
  <2>2. Alike(entry[i], r) /\ r.source = entry[i].source
    BY <1>18, EntryFacts, MarkedKeeps DEF Marked, Entry
  <2> HIDE DEF r
  <2>3. QED
    BY <1>11, <2>1, <2>2
<1>19. ASSUME NEW i \in Indices, SetTime(i) \/ SetExtraFields(i)
       PROVE  WorkEdited
  BY <1>18, <1>19 DEF SetTime, SetExtraFields
<1>20. CASE \E i \in Survivors : SetMethod(i)
  BY <1>18, <1>20 DEF SetMethod, SetFileCompression, SetFileEncryption, Survivors
<1>21. CASE Edit
  BY <1>4, <1>5, <1>6, <1>8, <1>9, <1>10, <1>12, <1>13, <1>14, <1>15, <1>16, <1>17, <1>19,
     <1>21 DEF Edit, UnchangeArchive, SetArchiveComment, SetArchiveFlag
<1>22. QED
  BY <1>20, <1>21

(***************************************************************************)
(* Opening and closing.                                                    *)
(***************************************************************************)

\* There is a session exactly when there is a struct zip.
LEMMA SessionShown ==
    /\ ~is_open => OpenedFiles = NULL /\ WorkingFiles = NULL
    /\ IInv /\ is_open => Store!InSession
<1>1. ~is_open => OpenedFiles = NULL /\ WorkingFiles = NULL
  BY DEF OpenedFiles, WorkingFiles
<1>2. IInv /\ is_open => OpenedFiles # NULL
  BY BaseIsShown, StoreAssumption DEF BaseShown
<1>3. QED
  BY <1>1, <1>2 DEF Store!InSession

\* Without a struct zip nothing of a session is shown.
LEMMA FreeShown ==
    ASSUME FreeArchive
    PROVE  OpenedFiles' = NULL /\ WorkingFiles' = NULL
BY DEF FreeArchive, OpenedFiles, WorkingFiles

\* zip_open begins a session with what is stored, or with nothing.
LEMMA OpenBegins ==
    ASSUME IInv, IInv', NEW oflags \in SUBSET {"RDONLY", "TRUNCATE"}, Open(oflags)
    PROVE  Store!Begin
<1> DEFINE fresh == disk = NULL \/ "TRUNCATE" \in oflags
           n == IF fresh THEN 0 ELSE disk.nfiles
<1>1. /\ ~is_open /\ is_open' /\ disk' = disk
      /\ nentry' = n
      /\ entry' = [i \in 0..(n - 1) |-> [NewEntry EXCEPT !.orig = disk.files[i]]]
  BY DEF Open
<1>2. Indices' = 0..(n - 1)
  BY <1>1 DEF Indices
<1>3. AsStored'
  BY <1>1, <1>2 DEF AsStored, Unchanged, NewEntry
<1>4. WorkIsCopy' /\ BaseShown(OpenedFiles)' /\ WorkShown(WorkingFiles)'
  BY <1>1, <1>3, AllAsStoredPrime, ShownPrime
<1>5. StoredShown(StoredFiles) /\ StoredFiles' = StoredFiles
  BY <1>1, StoredIsShown, StoredKept
<1>6. OpenedFiles' \in {StoredFiles, Store!Nothing}
  <2>1. fresh => OpenedFiles' = Store!Nothing
    BY <1>4, <1>2 DEF Store!Nothing, BaseShown
  <2>2. ~fresh => OpenedFiles' = StoredFiles
    <3> SUFFICES ASSUME ~fresh PROVE OpenedFiles' = StoredFiles
      OBVIOUS
    <3>0. /\ disk # NULL /\ \A i \in 0..(disk.nfiles - 1) : disk.files[i] \in File
          /\ Indices' = 0..(disk.nfiles - 1)
          /\ \A i \in Indices' : entry'[i].orig = disk.files[i]
      BY <1>1, <1>2 DEF IInv, TypeOK, IsArchiveFile, ArchiveFile, NewEntry
    <3>1. \A i \in Indices' : OrigKey(entry'[i]) = disk.files[i].filename
      BY <3>0 DEF OrigKey
    <3>2. \A m \in Names : OpenedFiles'[m] = StoredFiles[m]
      BY <1>4, <1>5, <3>0, <3>1 DEF BaseShown, StoredShown
    <3>3. QED
      BY <1>4, <1>5, <3>2 DEF BaseShown, StoredShown
  <2>3. QED
    BY <2>1, <2>2
<1>7. WorkingFiles' = Store!Copy(OpenedFiles')
  BY <1>4 DEF Store!Copy, WorkIsCopy, WorkShown
<1>8. ~Store!InSession
  BY <1>1, SessionShown DEF Store!InSession
<1>9. QED
  BY <1>5, <1>6, <1>7, <1>8 DEF Store!Begin

\* zip_close that writes: the working copy replaces what is stored.
LEMMA WriteCommits ==
    ASSUME IInv, IInv', SessionInv, NEW cloning \in BOOLEAN, CloseAndWrite(cloning)
    PROVE  Store!Commit
<1> DEFINE n == Cardinality(Survivors)
           I == 0..(n - 1)
           W(i) == IF i \in Kept(cloning) THEN InPlace(entry[i])
                   ELSE Written(Prepared(entry[i]))
           w == WorkingFiles
           s == StoredFiles'
<1>0. /\ TableOK /\ TableSound /\ NamesOK /\ is_open /\ FreeArchive
      /\ \A i \in Survivors : i \in Indices /\ CanBeWritten(entry[i])
  BY CarefulIsSound DEF CloseAndWrite, MustWrite, Survivors
<1>1. PICK f \in Filelists :
        disk' = [nfiles |-> n, files |-> [j \in DOMAIN f |-> W(f[j])],
                 comment |-> IF WantTorrentzip THEN NULL ELSE ArchiveComment,
                 torrentzip |-> WantTorrentzip]
  BY DEF CloseAndWrite
<1>2. f \in [I -> Survivors] /\ \A i \in Survivors : \E j \in I : f[j] = i
  BY <1>0, FilelistIsOnto DEF Filelists
<1>3. ASSUME NEW i \in Survivors
      PROVE  W(i).filename = Key(entry[i]) /\ W(i).data = DataOf(entry[i])
  <2> DEFINE e == entry[i]
  <2>1. /\ i \in Indices /\ e \in Entry /\ Sound(e) /\ ~e.deleted /\ CanBeWritten(e)
        /\ nentry \in Nat
    BY <1>0, BoundAssumption DEF Survivors, TableOK, TableSound
  <2>2. i \in Kept(cloning) => e.source = NULL
    <3> SUFFICES ASSUME i \in Kept(cloning) PROVE e.source = NULL
      OBVIOUS
    <3>1. e.orig # NULL /\ \A j \in 0..i : entry[j].orig # NULL => ~HasChanges(entry[j])
      BY DEF Kept
    <3>2. i \in 0..i
      BY <2>1 DEF Indices
    <3>3. QED
      BY <3>1, <3>2 DEF HasChanges
  <2>3. Alike(e, Prepared(e)) /\ Prepared(e).source = e.source /\ ~Prepared(e).deleted
    BY <2>1, PreparedKeeps DEF Prepared, Entry
  <2>4. CanBeWritten(Prepared(e))
    BY <2>1, <2>3 DEF CanBeWritten, Alike
  <2>5. Written(e).filename = Key(e) /\ Written(Prepared(e)).filename = Key(e)
    BY <2>1, <2>3, <2>4, WrittenType DEF Alike
  <2>6. Written(Prepared(e)).data = DataOf(e)
    BY <2>3 DEF Written, DataOf, Alike
  <2>7. InPlace(e).filename = Written(e).filename /\ InPlace(e).data = e.orig.data
    BY DEF InPlace, Written
  <2>8. QED
    BY <2>2, <2>5, <2>6, <2>7 DEF DataOf
<1> HIDE DEF W, n
<1>4. /\ disk' # NULL /\ disk'.nfiles = n
      /\ \A j \in I : /\ disk'.files[j].filename = Key(entry[f[j]])
                      /\ disk'.files[j].data = DataOf(entry[f[j]])
  <2>1. IsArchiveFile(disk')
    BY CarefulIsSound, WriteStep
  <2>2. QED
    BY <1>1, <1>2, <1>3, <2>1
<1>5. WorkShown(w) /\ StoredShown(StoredFiles)'
  BY <1>0, WorkIsShown, ShownPrime
<1>6. /\ s \in [Names -> Contents \cup {NULL}]
      /\ \A m \in Names, j \in I : Key(entry[f[j]]) = m => s[m] = DataOf(entry[f[j]])
      /\ \A m \in Names : (\A j \in I : Key(entry[f[j]]) # m) => s[m] = NULL
  BY <1>4, <1>5 DEF StoredShown
<1>7. ASSUME NEW m \in Names
      PROVE  s[m] = IF w[m] = NULL THEN NULL ELSE w[m].data
  <2>0. m # Empty
    BY NamesAssumption
  <2>1. CASE \E i \in Indices : Key(entry[i]) = m
    <3>1. PICK i \in Indices : Key(entry[i]) = m
      BY <2>1
    <3>2. entry[i] \in Entry /\ EntryOK(entry[i]) /\ HasDirent(entry[i])
      BY <1>0, <2>0, <3>1 DEF TableOK, NamesOK, Key
    <3>3. i \in Survivors
      BY <3>2 DEF Survivors, EntryOK, HasDirent
    <3>4. s[m] = DataOf(entry[i])
      BY <1>2, <1>6, <3>1, <3>3
    <3>5. w[m] = FileOf(entry[i])
      BY <1>5, <3>1 DEF WorkShown
    <3>6. QED
      BY <1>0, <3>2, <3>3, <3>4, <3>5, FileOfType
  <2>2. CASE \A i \in Indices : Key(entry[i]) # m
    <3>1. \A j \in I : Key(entry[f[j]]) # m
      BY <1>0, <1>2, <2>2
    <3>2. QED
      BY <1>5, <1>6, <2>2, <3>1 DEF WorkShown
  <2>3. QED
    BY <2>1, <2>2
<1> HIDE DEF w
<1>8. s = [m \in Names |-> IF w[m] = NULL THEN NULL ELSE w[m].data]
  BY <1>6, <1>7
<1>9. OpenedFiles' = NULL /\ WorkingFiles' = NULL /\ Store!InSession
  BY <1>0, FreeShown, SessionShown
<1>10. QED
  BY <1>8, <1>9 DEF Store!Commit, Store!End, w

\* zip_close that removes the file of an archive that has become empty, and
\* every end of a session that leaves the disk alone.
LEMMA RemoveCommits ==
    ASSUME IInv, IInv', CloseAndRemove
    PROVE  Store!Commit \/ Store!Abandon
<1>0. /\ TableOK /\ NamesOK /\ is_open /\ FreeArchive
  BY CarefulIsSound DEF CloseAndRemove
<1>1. OpenedFiles' = NULL /\ WorkingFiles' = NULL /\ Store!InSession
  BY <1>0, FreeShown, SessionShown
<1>2. CASE disk' = disk
  BY <1>1, <1>2, StoredKept DEF Store!Abandon, Store!End
<1>3. CASE disk' = NULL
  <2>1. WorkShown(WorkingFiles) /\ StoredShown(StoredFiles)'
    BY <1>0, WorkIsShown, ShownPrime
  <2>2. ASSUME NEW m \in Names
        PROVE  StoredFiles'[m] = NULL /\ WorkingFiles[m] = NULL
    <3>1. ASSUME NEW i \in Indices
          PROVE  Key(entry[i]) # m
      <4>1. EntryOK(entry[i]) /\ entry[i].deleted
        BY <1>0 DEF NamesOK, CloseAndRemove, Survivors
      <4>2. m # Empty
        BY NamesAssumption
      <4>3. QED
        BY <4>1, <4>2 DEF EntryOK, HasDirent, Key
    <3>2. QED
      BY <1>3, <2>1, <3>1 DEF WorkShown, StoredShown
  <2>3. StoredFiles' = [m \in Names |-> IF WorkingFiles[m] = NULL THEN NULL
                                        ELSE WorkingFiles[m].data]
    BY <2>1, <2>2 DEF StoredShown
  <2>4. QED
    BY <1>1, <2>3 DEF Store!Commit, Store!End
<1>4. QED
  BY <1>2, <1>3 DEF CloseAndRemove

\* A session that ends without writing: zip_discard, or zip_close of an archive
\* that nobody changed.
LEMMA EndAbandons ==
    ASSUME IInv, is_open, FreeArchive, disk' = disk
    PROVE  Store!Abandon
<1>1. OpenedFiles' = NULL /\ WorkingFiles' = NULL /\ Store!InSession
  BY FreeShown, SessionShown
<1>2. QED
  BY <1>1, StoredKept DEF Store!Abandon, Store!End

\* zip_close that fails shows nothing.
LEMMA FailShowsNothing ==
    ASSUME InCall, NEW cloning \in BOOLEAN, NEW started \in SUBSET Indices,
           CloseFails(cloning, started)
    PROVE  UNCHANGED <<StoredFiles, OpenedFiles, WorkingFiles>>
<1>1. SameOriginals /\ disk' = disk /\ nentry' = nentry
  BY CloseFailsKeeps DEF InCall, CloseFails
<1>2. ASSUME NEW j \in Indices
      PROVE  Key(entry'[j]) = Key(entry[j]) /\ FileOf(entry'[j]) = FileOf(entry[j])
  <2> DEFINE e == entry[j]
  <2>1. e \in Entry /\ Sound(e)
    BY EntryFacts
  <2>2. entry'[j] = (IF j \in started \ Kept(cloning) THEN Prepared(e) ELSE e)
    BY DEF CloseFails
  <2>3. CASE j \in started
    <3>1. ~e.deleted
      BY <2>3 DEF CloseFails, Survivors
    <3>2. Alike(e, Prepared(e)) /\ Prepared(e).source = e.source
      BY <2>1, <3>1, PreparedKeeps DEF Prepared, Entry
    <3>3. FileOf(Prepared(e)) = FileOf(e) /\ Key(Prepared(e)) = Key(e)
      BY <3>2, SameFile DEF Alike
    <3> HIDE DEF e
    <3>4. QED
      BY <2>2, <3>3 DEF e
  <2>4. CASE j \notin started
    BY <2>2, <2>4
  <2>5. QED
    BY <2>3, <2>4
<1>3. QED
  BY <1>1, <1>2, NothingShown, BaseKept, StoredKept

(***************************************************************************)
(* The refinement.                                                         *)
(***************************************************************************)

\* A fresh start shows what is on the disk and no session.
LEMMA InitShown == InitialNamesUnique /\ Init => Store!Init
<1> SUFFICES ASSUME InitialNamesUnique, Init PROVE Store!Init
  OBVIOUS
<1>1. IInv /\ ~is_open
  BY InitIInv DEF Init
<1>2. QED
  BY <1>1, StoredIsShown, SessionShown DEF Store!Init, StoredShown

\* Every call of a careful program is an operation of the store or shows nothing.
LEMMA NextShown ==
    IInv /\ IInv' /\ SessionInv /\ [CarefulNext]_vars => [Store!Next]_(Store!vars)
<1> SUFFICES ASSUME IInv, IInv', SessionInv, [CarefulNext]_vars
             PROVE  [Store!Next]_(Store!vars)
  OBVIOUS
<1>0. SoundInv
  BY CarefulIsSound
<1>1. ASSUME NEW oflags \in SUBSET {"RDONLY", "TRUNCATE"}, Open(oflags)
      PROVE  Store!Begin
  BY <1>1, OpenBegins
<1>2. CASE Edit \/ \E i \in Survivors : SetMethod(i)
  <2>0. Edit \/ \E i \in Indices : SetMethod(i)
    BY <1>2 DEF Survivors
  <2>1. SameSession /\ SameOriginals
    BY <1>0, <2>0, EditKeeps
  <2>2. is_open
    BY <2>0 DEF Edit, FileAdd, FileOverwrite, FileReplace, DirAdd, DirOverwrite, FileRename,
       SetComment, SetAttributes, SetTime, SetExtraFields, SetMark, SetMethod,
       SetFileCompression, SetFileEncryption, Delete, Unchange, UnchangeAll,
       UnchangeArchive, SetArchiveComment, SetArchiveFlag, Writable
  <2>3. InCall /\ disk' = disk
    BY <1>0, <2>1, <2>2 DEF InCall, SameSession
  <2>4. OpenedFiles' = OpenedFiles /\ StoredFiles' = StoredFiles /\ Store!InSession
    BY <2>1, <2>2, <2>3, BaseKept, StoredKept, SessionShown
  <2>5. WorkEdited
    BY <1>2, <2>3, EditShown
  <2>6. QED
    BY <2>4, <2>5 DEF WorkEdited, Store!Edit, Store!Next, Store!vars
<1>3. ASSUME NEW cloning \in BOOLEAN, CloseAndWrite(cloning)
      PROVE  Store!Commit
  BY <1>3, WriteCommits
<1>4. CASE CloseAndRemove
  BY <1>4, RemoveCommits DEF Store!Next
<1>5. CASE CloseUnchanged \/ Discard
  BY <1>5, EndAbandons DEF CloseUnchanged, Discard, Store!Next
<1>6. ASSUME NEW cloning \in BOOLEAN, NEW started \in SUBSET Indices,
             CloseFails(cloning, started)
      PROVE  UNCHANGED Store!vars
  <2>1. InCall
    BY <1>0, <1>6 DEF InCall, CloseFails, MustWrite
  <2>2. QED
    BY <1>6, <2>1, FailShowsNothing DEF Store!vars
<1>7. CASE UNCHANGED vars
  BY <1>7 DEF vars, archiveVars, Store!vars, StoredFiles, OpenedFiles, WorkingFiles,
     Indices, IsFile, Visible
<1>8. QED
  BY <1>1, <1>2, <1>3, <1>4, <1>5, <1>6, <1>7
     DEF CarefulNext, Call, Close, CloseSucceeds, Store!Next

\* What ArchiveStore promises holds of the archive object under a careful program:
\* a session works on a copy of the stored files, by name, and only zip_close
\* replaces what is stored.
THEOREM ArchiveImplementsStore == InitialNamesUnique => (CarefulSpec => ImplementsStore)
<1> SUFFICES ASSUME InitialNamesUnique PROVE CarefulSpec => ImplementsStore
  OBVIOUS
<1>1. Init => Store!Init
  BY InitShown
<1>2. IInv /\ IInv' /\ SessionInv /\ [CarefulNext]_vars => [Store!Next]_(Store!vars)
  BY NextShown
<1>3. CarefulSpec => []IInv /\ []SessionInv
  BY IInvHolds, SessionHolds, CarefulIsAny
<1>4. QED
  BY <1>1, <1>2, <1>3, PTL DEF CarefulSpec, ImplementsStore, Store!Spec
=============================================================================
