----------------------------- MODULE EntryData -----------------------------
(***************************************************************************)
(* The data of one entry, from the user's source through zip_close into an *)
(* archive, from there into a second archive (zip_source_zip_file, as      *)
(* zipmerge does), and out of either archive through zip_fopen_encrypted,  *)
(* zip_fread, zip_fseek and zip_fclose.                                    *)
(*                                                                         *)
(* Archive 1 is written by a job that reads the user's source, archive 2   *)
(* by a job that reads archive 1 through the same source as the files open *)
(* on it; each call may come between any two steps of the others.  The     *)
(* file of an archive may be damaged or cut off on disk while it is open.  *)
(***************************************************************************)
EXTENDS SourceLayers

CONSTANTS Contents,      \* contents of the user's file
          Readers,       \* files that may be open at once
          Programs,      \* what a program does: the requests for archive 1
                         \* (`adds', see AddStart) and archive 2 (`copies', see
                         \* CopyStart), the ways each reader may open a file
                         \* (`opens', see Fopen), the requests it may read before
                         \* zip_close (`changed'), how often it may seek (`seeks')
          ReadSizes,     \* cells asked for by one zip_fread
          SeekTo,        \* offsets for zip_fseek
          AE2_SIZE,      \* below this size, AES entries have no checksum
          Password,      \* the password entries are encrypted with
          Damages        \* what may happen to a file: "flip", "cut"

VARIABLES program,       \* one of Programs
          content,       \* the user's file
          file,          \* the archives' sources (za->src), one per archive
          entry,         \* their directory entries
          job,           \* the entry being written (add_data)
          rd,            \* the files open for reading (zip_file_t)
          damaged        \* archives whose file was damaged

vars == <<program, content, file, entry, job, rd, damaged>>

NoPassword == "no password"

\* The user's data.
Plain == [i \in DOMAIN content |-> Byte(content[i])]

-----------------------------------------------------------------------------
(***************************************************************************)
(* A source for an entry of an archive (zip_source_zip_file_create).       *)
(***************************************************************************)
\* zip_stat_index of an unchanged entry, and of one whose data was added or
\* replaced: what the source says, with the method and the time that were
\* asked for.
StatIndex(e) ==
    [valid |-> {"size", "mtime", "comp", "method", "em"} \cup (IF e.crcValid THEN {"crc"} ELSE {}),
     size |-> e.size, comp |-> e.comp, crc |-> e.crc, method |-> e.method, em |-> e.em,
     mtime |-> e.mtime]

StatChanged(st, de) ==
    LET Method == IF de.method = "default"
                  THEN IF "method" \notin st.valid \/ st.method = "store"
                       THEN Without(st, {"comp", "method"}) ELSE st
                  ELSE With(IF "method" \in st.valid /\ st.method # de.method THEN Without(st, {"comp"}) ELSE st,
                            "method", de.method)
        Sized(t)  == IF {"method", "size"} \subseteq t.valid /\ t.method = "store"
                     THEN With(t, "comp", t.size) ELSE t
        Dated(t)  == IF "mtime" \in de.changed THEN With(t, "mtime", de.mtime) ELSE t
    IN  Dated(Sized(Method))

EmptyBuffer == File(<<>>, {"SEEK", "REOPEN", "AT_EOF"}, 1, Unlimited, NoStat)

\* A layer on top of a stack, or the error of the stack.
Top(s) == s.w[Len(s.w)]

Layer(s, wanted, source) ==
    IF s.err # OK \/ ~wanted THEN s ELSE [s EXCEPT !.w = Append(@, source)]

CrcLayer(s, wanted, validate) == Layer(s, wanted, CrcNew(Top(s), validate))

WindowLayer(s, wanted, start, len, st, dostime) ==
    Layer(s, wanted, WindowNew(Top(s), start, len, st, dostime, FALSE))

DecodeLayer(s, wanted, em, password) ==
    LET Known(st) ==
            LET e == IF password = NoPassword THEN "INVAL"
                     ELSE IF st.err # OK THEN st.err
                     ELSE IF "comp" \notin st.st.valid \/ st.st.comp < AUX(em) THEN "OPNOTSUPP" ELSE OK
            IN  IF e # OK THEN [s EXCEPT !.err = e] ELSE Layer(s, TRUE, DecodeNew(em, password, st.st))
    IN  IF s.err # OK \/ ~wanted THEN s ELSE Known(StatOf(s.w, Len(s.w)))

\* The window on the data: all of it, or (for data that is neither encrypted
\* nor compressed) the part asked for.  A length of -1 is the largest number.
EntryWindow(bottom, st, mtime, changed, empty, whole, start, dataLen) ==
    LET part  == With([NoStat EXCEPT !.mtime = st.mtime, !.valid = st.valid \cap {"mtime"}],
                      "method", "store")
        sized == IF dataLen = -1 THEN part ELSE With(With(part, "size", dataLen), "comp", dataLen)
        first == IF whole THEN 0 ELSE start
        len   == IF whole /\ ~changed /\ ~empty THEN st.comp ELSE dataLen
        over  == start + dataLen > st.comp \/ (dataLen = -1 /\ start = 0)
    IN  [err |-> IF ~whole /\ over THEN "INCONS"
                 ELSE IF "size" \in bottom.st.valid /\ first + len > bottom.st.size THEN "INVAL" ELSE OK,
         w   |-> <<bottom, WindowNew(bottom, first, len, IF whole THEN st ELSE sized, mtime,
                                     ~empty /\ ~changed)>>,
         own |-> empty \/ changed]

\* len = -1 asks for everything from start on.
EntrySource(f, st, mtime, changed, flags, start, len, password) ==
    LET haveSize   == "size" \in st.valid
        dataLen    == IF len # -1 THEN len ELSE IF haveSize THEN st.size - start ELSE -1
        partial    == haveSize => dataLen < st.size
        encrypted  == "em" \in st.valid /\ st.em # "none"
        compressed == "method" \in st.valid /\ st.method # "store"
        decrypt    == "ENCRYPTED" \notin flags /\ encrypted
        decompress == "COMPRESSED" \notin flags /\ compressed
        crc        == ("COMPRESSED" \notin flags \/ ~compressed) /\ ~partial /\ "crc" \in st.valid
        empty      == IF decrypt \/ decompress THEN "comp" \in st.valid /\ st.comp = 0
                      ELSE haveSize /\ st.size = 0
        Windowed(s0) == WindowLayer(CrcLayer(Layer(DecodeLayer(s0, decrypt, st.em, password),
                                                   decompress, CompressNew(FALSE, st.method)),
                                             crc, TRUE),
                                    partial /\ (decrypt \/ decompress), start, dataLen,
                                    IF dataLen = -1 THEN NoStat ELSE With(NoStat, "size", dataLen), "")
        Refused(err) == [err |-> err, w |-> <<f>>, own |-> changed]
    IN  IF (start > 0 \/ len >= 0) /\ "COMPRESSED" \in flags THEN Refused("INVAL")
        ELSE IF haveSize /\ (start > st.size \/ (len > 0 /\ start + len > st.size)) THEN Refused("INVAL")
        ELSE IF decrypt /\ password = NoPassword THEN Refused("NOPASSWD")
        ELSE Windowed(EntryWindow(IF empty THEN EmptyBuffer ELSE f, st, mtime, changed, empty,
                                  ~partial \/ decrypt \/ decompress, start, dataLen))

Implied(flags) == IF "ENCRYPTED" \in flags THEN flags \cup {"COMPRESSED"} ELSE flags

ZipFileSource(f, e, flags, start, len, password) ==
    EntrySource(f, StatIndex(e), e.mtime, FALSE, Implied(flags), start, len, password)

\* Data that was added or replaced comes from its own source, if that can be
\* read more than once.
ChangedSource(f, de, flags, start, len, password) ==
    IF "COMPRESSED" \in Implied(flags) \/ "REOPEN" \notin f.supports
    THEN [err |-> "CHANGED", w |-> <<f>>, own |-> TRUE]
    ELSE EntrySource(f, StatChanged(f.st, de), de.mtime, TRUE, flags, start, len, password)

-----------------------------------------------------------------------------
(***************************************************************************)
(* Adding the data of an entry to an archive (add_data, zip_close.c).  `de'*)
(* is the new directory entry: method and em as requested, whether method, *)
(* password and modification time were set explicitly.                     *)
(***************************************************************************)
\* What the source says of itself, completed: no method means stored, and
\* the size of stored data is its compressed size.
SourceStat(w, de) ==
    LET Default(st, field, val) == IF field \in st.valid THEN st ELSE With(st, field, val)
        Sized(st, keep) ==
            IF keep THEN st
            ELSE IF de.method = "store" /\ "size" \in st.valid THEN With(st, "comp", st.size)
            ELSE Without(st, {"comp"})
        Kept(st, keep) == [st     |-> Default(Sized(st, keep), "em", "none"),
                           method |-> IF keep THEN st.method ELSE de.method]
        Known(st) == Kept(st, "method" \notin de.changed /\ st.method # "store")
    IN  Known(Default(StatOf(w, Len(w)).st, "method", "store"))

\* The layers between the source and the archive.  `st', `method' and `date'
\* describe the source; a decrypting or encrypting layer may be refused.
AddStack(s, de0, defaultPassword, st, method, mtime) ==
    LET recompress == st.method # Actual(method)
        decompress == recompress /\ st.method # "store"
        reencrypt  == recompress \/ "password" \in de0.changed \/ de0.em # st.em
        encrypt    == reencrypt /\ de0.em # "none"
        dated      == encrypt /\ de0.em = "trad" /\ "mtime" \in de0.changed
        key        == IF de0.password # NoPassword THEN de0.password ELSE defaultPassword
        Encode(t) ==
            IF t.err = OK /\ encrypt /\ key = NoPassword THEN [t EXCEPT !.err = "INVAL"]
            ELSE Layer(t, encrypt, EncodeNew(t.w, de0.em, key))
    IN  Encode(WindowLayer(
                 Layer(CrcLayer(Layer(DecodeLayer(s, reencrypt /\ st.em # "none", st.em, defaultPassword),
                                      decompress, CompressNew(FALSE, st.method)),
                                st.method = "store" \/ decompress, FALSE),
                       recompress /\ method # "store", CompressNew(TRUE, method)),
                 dated, 0, -1, NoStat, mtime))

AddLayers(s, de0, defaultPassword) ==
    LET dated == "mtime" \in de0.changed
        Built(st, method, date, mtime) ==
            LET reencrypt == st.method # Actual(method) \/ "password" \in de0.changed \/ de0.em # st.em
            IN  [s  |-> AddStack(s, de0, defaultPassword, st, method, mtime),
                 de |-> [de0 EXCEPT !.method = method, !.mtime = mtime,
                                    !.changed = IF ~reencrypt /\ st.em = "trad" /\ dated
                                                THEN @ \ {"mtime"} ELSE @],
                 haveDosTime |-> ~dated /\ date # "", before |-> IF dated THEN "not set" ELSE st.mtime,
                 descriptor  |-> reencrypt /\ de0.em = "trad"]
        Known(got, date) ==
            Built(got.st, got.method, date,
                  IF dated THEN de0.mtime ELSE IF date # "" THEN date ELSE got.st.mtime)
    IN  Known(SourceStat(s.w, de0), GetDosTime(s.w, Len(s.w)))

\* Faulty variant: the data ends where the data descriptor ends.
DirectoryEntryLate(a, st, written, garbage) ==
    LET before == IF a.before = "not set" THEN garbage ELSE a.before
        mtime  == IF "mtime" \notin a.de.changed /\ ~a.haveDosTime
                     /\ "mtime" \in st.valid /\ st.mtime # before
                  THEN st.mtime ELSE a.de.mtime
    IN  [method |-> st.method, em |-> a.de.em, crc |-> st.crc, size |-> st.size,
         comp |-> written + (IF a.descriptor THEN 1 ELSE 0), mtime |-> mtime,
         crcValid |-> ~(a.de.em = "aes" /\ st.size < AE2_SIZE)]

\* After the copy: the entry, from what the source says now and from the
\* number of cells written; an error if the source cannot say enough.  The
\* variable `before' may never have been set, and then holds anything.
DirectoryEntry(a, st, written, garbage) ==
    LET before == IF a.before = "not set" THEN garbage ELSE a.before
        mtime  == IF "mtime" \notin a.de.changed /\ ~a.haveDosTime
                     /\ "mtime" \in st.valid /\ st.mtime # before
                  THEN st.mtime ELSE a.de.mtime
    IN  [method |-> st.method, em |-> a.de.em, crc |-> st.crc, size |-> st.size,
         comp |-> written, mtime |-> mtime,
         crcValid |-> ~(a.de.em = "aes" /\ st.size < AE2_SIZE)]

LocalHeader == Cell("local header", "", 0)
Descriptor  == Cell("data descriptor", "", 0)
Directory   == Cell("central directory", "", 0)

ArchiveFile(cells, chunk) ==
    [File(cells, {"SEEK", "AT_EOF"}, chunk, Unlimited,
          With(NoStat, "size", Len(cells))) EXCEPT !.opens = 1]

-----------------------------------------------------------------------------
Idle == [phase |-> "idle"]
Unused == [state |-> "new"]

Init ==
    /\ program \in Programs /\ content \in Contents
    /\ file = <<>> /\ entry = <<>>
    /\ job = Idle
    /\ rd = [r \in Readers |-> Unused]
    /\ damaged = {}

Stack(x) == IF x.own THEN x.stack ELSE <<file[1]>> \o x.stack
Mine(x, w) == IF x.own THEN w ELSE Tail(w)

\* The shared source of archive g as a call leaves it.
Shared(x, g, w) == IF x.own THEN file ELSE [file EXCEPT ![g] = w[1]]

\* add_data up to the copy: the layers are built and opened.
Start(s, de, defaultPassword, garbage, chunk, g, flags) ==
    LET Opened(a, o) ==
            /\ job' = [phase |-> IF o.err = OK THEN "copying" ELSE "failed", err |-> o.err, a |-> a,
                       own |-> s.own, stack |-> Mine(s, o.w), out |-> <<>>, gen |-> g, hit |-> FALSE,
                       garbage |-> garbage, chunk |-> chunk, flags |-> flags,
                       defaultPassword |-> defaultPassword]
            /\ file' = Shared(s, 1, o.w)
        Built(a) == Opened(a, IF a.s.err # OK THEN Fail(s.w, a.s.err) ELSE Open(a.s.w, Len(a.s.w)))
    IN  Built(AddLayers(s, de, defaultPassword))

\* Archive 1 is made from the user's source: `known' is what the source
\* knows about itself, `failAt' where it fails.
UserSource(r) ==
    LET st == [NoStat EXCEPT !.valid = r.known, !.size = Len(content), !.comp = Len(content),
                             !.crc = Plain, !.mtime = "old"]
    IN  [err |-> OK, own |-> TRUE,
         w |-> <<File(Plain, r.supports, r.chunk, r.failAt, st)>>]

AddStart(r) ==
    /\ job.phase = "idle"
    /\ Start(UserSource(r), r.de, NoPassword, "anything", r.chunk, 1, {})
    /\ UNCHANGED <<program, content, entry, rd, damaged>>

\* Archive 2 is made from the entry of archive 1.
CopyStart(r) ==
    /\ job.phase = "done" /\ job.gen = 1
    /\ \E garbage \in r.garbage :
          LET Made(s) ==
                  IF s.err # OK
                  THEN /\ job' = [job EXCEPT !.phase = "failed", !.gen = 2, !.err = s.err,
                                             !.flags = r.flags, !.defaultPassword = r.password]
                       /\ UNCHANGED file
                  ELSE Start(s, r.de, r.password, garbage, job.chunk, 2, r.flags)
          IN  Made(ZipFileSource(file[1], entry[1], r.flags, 0, -1, r.password))
    /\ UNCHANGED <<program, content, entry, rd, damaged>>

\* Faulty variant: a source that fails is read again from its beginning.
CopyStepRetries ==
    /\ job.phase = "copying"
    /\ LET Reopen(w) == Open(w, Len(w)).w
           Got(r) == IF r.err # OK
                     THEN job' = [job EXCEPT !.out = <<>>, !.stack = Mine(job, Reopen(Close(r.w, Len(r.w)).w))]
                     ELSE IF r.data = <<>> THEN job' = [job EXCEPT !.phase = "failed"]
                     ELSE job' = [job EXCEPT !.out = @ \o r.data, !.stack = Mine(job, r.w)]
           Go(w)  == Got(Read(w, Len(w), BUFSIZE))
       IN  Go(Stack(job))
    /\ UNCHANGED <<program, content, file, entry, rd, damaged>>

\* One turn of the loop of copy_source; at the end of the data, the rest of
\* add_data.  Whether the source's own close fails is not looked at.
CopyStep ==
    /\ job.phase = "copying"
    /\ LET More(r) ==
               /\ job' = [job EXCEPT !.out = @ \o r.data, !.stack = Mine(job, r.w)]
               /\ file' = Shared(job, 1, r.w)
               /\ UNCHANGED entry
           Ended(w, hit, e, w1, made, cells) ==
               /\ job' = [job EXCEPT !.phase = IF e = OK THEN "done" ELSE "failed", !.err = e,
                                     !.stack = <<>>, !.hit = hit]
               /\ file' = Shared(job, 1, w1) \o (IF e = OK THEN <<ArchiveFile(cells, job.chunk)>> ELSE <<>>)
               /\ entry' = IF e = OK THEN Append(entry, made) ELSE entry
           Finish(r, w1, st) ==
               Ended(r.w, job.own /\ r.w[1].kind = "file" /\ r.w[1].bad,
                     IF st.err # OK THEN st.err
                     ELSE IF r.err # OK THEN r.err
                     ELSE IF ~({"method", "crc", "size"} \subseteq st.st.valid) THEN "INTERNAL" ELSE OK,
                     w1, DirectoryEntry(job.a, st.st, Len(job.out), job.garbage),
                     <<LocalHeader>> \o job.out
                       \o (IF job.a.descriptor THEN <<Descriptor>> ELSE <<>>) \o <<Directory>>)
           Closed(r, w1) == Finish(r, w1, StatOf(w1, Len(w1)))
           Got(r)   == IF r.data # <<>> THEN More(r) ELSE Closed(r, Close(r.w, Len(r.w)).w)
           Go(w)    == Got(Read(w, Len(w), BUFSIZE))
       IN  Go(Stack(job))
    /\ UNCHANGED <<program, content, rd, damaged>>

\* The file changes on disk: a cell of data, or its length.
Damage(g, how) ==
    /\ damaged = {} /\ Len(file[g].cells) > 2
    /\ file' = [file EXCEPT ![g].cells =
                   IF how = "cut" THEN Take(@, Len(@) - 2)
                   ELSE [@ EXCEPT ![2] = [@ EXCEPT !.v = "x"]]]
    /\ damaged' = {g}
    /\ UNCHANGED <<program, content, entry, job, rd>>
-----------------------------------------------------------------------------
(***************************************************************************)
(* Files of an archive (zip_fopen_index_encrypted.c, zip_fread.c,          *)
(* zip_fseek.c, zip_fclose.c).  The first error stays with the file.       *)
(* `got' is what was read since offset `from'.                             *)
(***************************************************************************)
ReaderStack(x) == IF x.own THEN x.stack ELSE <<file[x.g]>> \o x.stack

FopenAs(r, g, o, source) ==
    LET Opened(s, p) ==
            /\ rd' = [rd EXCEPT ![r] =
                         [state |-> IF p.err = OK THEN "open" ELSE "refused", g |-> g, o |-> o,
                          own |-> s.own, stack |-> IF p.err = OK THEN Mine(s, p.w) ELSE <<>>,
                          err |-> p.err, from |-> 0, got |-> <<>>, ended |-> FALSE, seeks |-> 0,
                          onDamaged |-> g \in damaged]]
            /\ file' = Shared(s, g, p.w)
        Made(s) == Opened(s, IF s.err # OK THEN Fail(s.w, s.err) ELSE Open(s.w, Len(s.w)))
    IN  Made(source)

Fopen(r, g, o) ==
    /\ rd[r].state = "new"
    /\ FopenAs(r, g, o, ZipFileSource(file[g], entry[g], o.flags, o.start, o.len, o.password))
    /\ UNCHANGED <<program, content, entry, job, damaged>>

\* A file that is not stored yet: `c' is the request of AddStart whose source
\* is read.
FopenChanged(r, c, o) ==
    /\ rd[r].state = "new" /\ job.phase = "idle"
    /\ FopenAs(r, 0, [o EXCEPT !.request = {c}],
               ChangedSource(UserSource(c).w[1], c.de, o.flags, o.start, o.len, o.password))
    /\ UNCHANGED <<program, content, entry, job, damaged>>

\* What a call on an open file leaves behind.
After(r, res, x) ==
    /\ rd' = [rd EXCEPT ![r] = [x EXCEPT !.stack = Mine(x, res.w), !.err = res.err]]
    /\ file' = Shared(x, x.g, res.w)
    /\ UNCHANGED <<program, content, entry, job, damaged>>

CanUse(r) == rd[r].state = "open" /\ rd[r].err = OK

Fread(r, n) ==
    /\ CanUse(r)
    /\ LET x         == rd[r]
           Done(res) == After(r, res, [x EXCEPT !.got = @ \o res.data,
                                                !.ended = res.err = OK /\ res.data = <<>>])
           Go(w)     == Done(Read(w, Len(w), n))
       IN  Go(ReaderStack(x))

Fseek(r, to) ==
    /\ CanUse(r) /\ rd[r].seeks < program.seeks[r]
    /\ LET x         == [rd[r] EXCEPT !.seeks = @ + 1]
           Done(res) == After(r, res, IF res.err # OK THEN x
                                      ELSE [x EXCEPT !.from = to, !.got = <<>>, !.ended = FALSE])
           Go(w)     == Done(Seek(w, Len(w), to, "SET"))
       IN  Go(ReaderStack(x))

Fclose(r) ==
    /\ rd[r].state = "open"
    /\ LET x         == rd[r]
           Done(res) == /\ rd' = [rd EXCEPT ![r] = [x EXCEPT !.state = "closed", !.stack = <<>>,
                                                             !.err = IF res.err # OK THEN res.err ELSE @]]
                        /\ file' = Shared(x, x.g, res.w)
           Go(w)     == Done(Close(w, Len(w)))
       IN  Go(ReaderStack(x))
    /\ UNCHANGED <<program, content, entry, job, damaged>>

-----------------------------------------------------------------------------
Next ==
    \/ \E r \in program.adds : AddStart(r)
    \/ \E r \in program.copies : CopyStart(r)
    \/ CopyStep
    \/ \E g \in DOMAIN file, how \in Damages : Damage(g, how)
    \/ \E r \in Readers : \/ \E g \in DOMAIN file, o \in program.opens[r] : Fopen(r, g, o)
                          \/ \E c \in program.changed[r], o \in program.opens[r] : FopenChanged(r, c, o)
                          \/ \E n \in ReadSizes : Fread(r, n)
                          \/ \E to \in SeekTo : Fseek(r, to)
                          \/ Fclose(r)

(***************************************************************************)
(* zip_close is a loop that runs to its end; a program that reads a file   *)
(* calls zip_fread until it returns 0 or an error.  This is weak fairness  *)
(* of CopyStep and of Fread with ENABLED written out, for TLC's sake: a    *)
(* copy can always go on, and Fread changes something until the end of the *)
(* data was seen.                                                          *)
(***************************************************************************)
CopyGoesOn == \/ []<>(job.phase # "copying")
              \/ []<><<job.phase = "copying">>_job

ReadGoesOn(r) ==
    \/ []<>(~CanUse(r) \/ rd[r].ended)
    \/ []<><<CanUse(r) /\ rd'[r].state = "open" /\ rd'[r].seeks = rd[r].seeks>>_(rd[r])

Spec == /\ Init /\ [][Next]_vars
        /\ CopyGoesOn
        /\ \A r \in Readers : ReadGoesOn(r)

-----------------------------------------------------------------------------
\* What a file opened the way `o' says holds, if all is well.
Stored(g) == SubSeq(file[g].cells, 2, entry[g].comp + 1)

Compressed(g) ==
    LET plain == Decrypt(entry[g].em, Password, <<>>, Stored(g))
    IN  IF entry[g].em = "none" THEN Stored(g)
        ELSE SubSeq(plain, 2, Len(plain) - AUX(entry[g].em) + 1)

Holds(g, o) ==
    IF g = 0 THEN SubSeq(Plain, o.start + 1, IF o.len = -1 THEN Len(Plain) ELSE o.start + o.len)
    ELSE IF "ENCRYPTED" \in o.flags THEN Stored(g)
    ELSE IF "COMPRESSED" \in o.flags THEN Compressed(g)
    ELSE SubSeq(Plain, o.start + 1, IF o.len = -1 THEN Len(Plain) ELSE o.start + o.len)

RightPassword(g, o) ==
    g = 0 \/ entry[g].em = "none" \/ "ENCRYPTED" \in o.flags \/ o.password = Password

\* What raw data does not deliver: nothing of an empty file that was
\* compressed, because its size is taken for that of the raw data; and
\* encrypted data that is checked against the checksum of the plain data.
RawFails(g, flags) ==
    /\ flags # {} /\ g # 0
    /\ \/ content = <<>>
       \/ "ENCRYPTED" \in flags /\ entry[g].em # "none" /\ entry[g].method = "store"

\* A copy of such data, or of raw data without the checksum that add_data
\* wants.
RawCopyFails ==
    job.gen = 2 /\ \/ RawFails(1, job.flags)
                   \/ job.flags # {} /\ ~entry[1].crcValid

\* What added data does not deliver: the method asked for is taken for the
\* method of the source, and data of unknown size is refused.
ChangedFails(x) ==
    \E c \in x.o.request : \/ c.de.method \notin {"default", "store"}
                           \/ "size" \notin c.known
                           \/ "REOPEN" \notin c.supports \/ x.o.flags # {}

\* The archive's source is open once for the archive, once for each file that
\* is open and once for the copy in progress: a layer that does not open, a
\* read that fails and a close that reports an error leave nothing open
\* (zip_source_open, zip_source_close).
ArchiveSourceBalanced ==
    \A g \in DOMAIN file :
        file[g].opens =
            1 + Cardinality({r \in Readers : rd[r].state = "open" /\ ~rd[r].own /\ rd[r].g = g})
              + (IF g = 1 /\ job.phase = "copying" /\ ~job.own THEN 1 ELSE 0)

\* A file opened on an undamaged archive with the right password delivers
\* exactly the data that was added, from wherever it is positioned, and
\* never an error, whatever other files do with the shared archive source
\* meanwhile and whatever way the data was compressed, encrypted, copied.
ReadersUndisturbed ==
    \A r \in Readers :
        LET x == rd[r]
            all == Holds(x.g, x.o)
        IN  /\ x.state # "new"
            /\ x.g \notin damaged /\ damaged = {}
            /\ RightPassword(x.g, x.o)
            /\ ~RawFails(x.g, x.o.flags) /\ ~(x.g = 2 /\ RawCopyFails) /\ ~ChangedFails(x)
            => \/ x.state = "refused" /\ x.o.start + x.o.len > Len(Plain)
               \/ x.err = "OPNOTSUPP" /\ x.seeks > 0
               \/ x.err = "INVAL" /\ x.seeks > 0
               \/ /\ x.err = OK
                  /\ x.got = SubSeq(all, x.from + 1, x.from + Len(x.got))
                  /\ x.ended => x.from + Len(x.got) = Len(all)

\* Reading an entry from its first byte to its end and closing the file,
\* with no error reported, means that the data is what was added: damage
\* that was there before and wrong passwords do not go unnoticed.
NoSilentDamage ==
    \A r \in Readers :
        LET x == rd[r] IN
        /\ x.state = "closed" /\ x.err = OK /\ x.ended
        /\ x.from = 0 /\ x.o.flags = {} /\ x.o.len = -1 /\ x.o.start = 0
        /\ (damaged = {} \/ x.onDamaged)
        => x.got = Plain

\* zip_close succeeds only if the source delivered all of its data.
SourceErrorsFailTheClose == job.phase = "done" => ~job.hit

\* zip_close fails only for a reason: the source failed, the archive that is
\* copied from is damaged, the password is wrong, or the copy is one of the
\* above.
NoFailureWithoutCause ==
    job.phase = "failed" => \/ job.gen = 1 /\ job.own /\ job.err = "READ"
                            \/ job.gen = 2 /\ damaged # {}
                            \/ job.gen = 2 /\ entry[1].em # "none" /\ job.defaultPassword # Password
                            \/ RawCopyFails

\* A directory entry describes the data before it in the file.
EntriesDescribeData ==
    \A g \in DOMAIN file :
        LET e == entry[g] IN
        g \notin damaged /\ damaged = {} =>
        /\ file[g].cells[e.comp + 2] \in {Descriptor, Directory}
        /\ e.size = Len(content) /\ (e.crcValid => e.crc = Plain)
        /\ e.method = "store" => e.comp = e.size + (IF e.em = "none" THEN 0 ELSE AUX(e.em))

\* Every zip_close returns, and a file that is read comes to its end, to an
\* error, or is closed.
Terminates ==
    /\ (job.phase = "copying") ~> (job.phase # "copying")
    /\ \A r \in Readers : (rd[r].state = "open") ~> (rd[r].state # "open" \/ rd[r].err # OK \/ rd[r].ended)
=============================================================================
