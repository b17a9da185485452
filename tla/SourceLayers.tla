---------------------------- MODULE SourceLayers ----------------------------
(***************************************************************************)
(* Reading through a stack of sources: the commands of lib/zip_source_*.c  *)
(* and the callbacks of the layers (window, checksum, compression, the two *)
(* ciphers).                                                               *)
(*                                                                         *)
(* A stack is a sequence of sources, the one that holds the data first.    *)
(* Every operator takes the stack and the index of the source it is called *)
(* on, calls the sources below it the way the code does, and returns the   *)
(* stack it leaves behind: a result is a record of the stack `w', the      *)
(* data, and an error code (OK when there is none).  The source at the     *)
(* bottom of an archive is shared by all stacks built on it; EntryData     *)
(* puts it into a stack before a call and takes it out again.              *)
(***************************************************************************)
EXTENDS Codec

CONSTANTS BUFSIZE,       \* size of the copy and compression buffers
          CheckCons,     \* the archive was opened with ZIP_CHECKCONS
          Lucky          \* wrong passwords that pass a cipher's short check

OK == "OK"
HEADERLEN == 1           \* cells of the local header before an entry's data
Unlimited == 1000000

Ret(w, data)  == [w |-> w, data |-> data, err |-> OK]
Fail(w, e)    == [w |-> w, data |-> <<>>, err |-> e]

NoStat == [valid |-> {}, size |-> 0, comp |-> 0, crc |-> <<>>, method |-> "store",
           em |-> "none", mtime |-> "now"]
With(st, field, val) == [st EXCEPT !.valid = @ \cup {field}, ![field] = val]
Without(st, fields)  == [st EXCEPT !.valid = @ \ fields]
StatMerge(st, own)   == [f \in DOMAIN st |-> IF f = "valid" THEN st.valid \cup own.valid
                                             ELSE IF f \in own.valid THEN own[f] ELSE st[f]]

\* What every source keeps (zip_source_t), and its callback's own state.
Source(kind, supports, own) ==
    [kind |-> kind, supports |-> supports, opens |-> 0, eof |-> FALSE,
     bad |-> FALSE, err |-> OK, next |-> <<>>, count |-> 0] @@ own

IsOpen(s) == s.opens > 0

\* zip_source_seek_compute_offset; -1 when the new offset is refused.
ComputeOffset(offset, length, delta, whence) ==
    LET new == CASE whence = "SET" -> delta
                 [] whence = "CUR" -> offset + delta
                 [] whence = "END" -> length + delta
    IN  IF new < 0 \/ new > length THEN -1 ELSE new

RECURSIVE ReadLoop(_, _, _, _), CompressLoop(_, _, _, _),
          StatOf(_, _), GetDosTime(_, _), CallAtEof(_, _)

\* The commands that move data call each other; all go through one operator
\* (defined with them below), the way the callbacks go through
\* _zip_source_call.
RECURSIVE Command(_, _, _)
Read(w, i, n) == Command(w, i, [cmd |-> "READ", n |-> n])
Seek(w, i, delta, whence) == Command(w, i, [cmd |-> "SEEK", delta |-> delta, whence |-> whence])
AtEof(w, i) == Command(w, i, [cmd |-> "AT_EOF"])
Open(w, i)  == Command(w, i, [cmd |-> "OPEN"])
Close(w, i) == Command(w, i, [cmd |-> "CLOSE"])

-----------------------------------------------------------------------------
(***************************************************************************)
(* The bottom: a seekable archive file, or a user's source.  It delivers   *)
(* at most `chunk' cells for each call and fails from cell `failAt' on.    *)
(***************************************************************************)
File(cells, supports, chunk, failAt, st) ==
    Source("file", supports,
           [cells |-> cells, pos |-> 0, chunk |-> chunk, failAt |-> failAt, st |-> st])

FileRead(w, n) ==
    LET f == w[1]
        k == IF n < f.chunk THEN n ELSE f.chunk
        d == Take(Drop(f.cells, f.pos), IF f.pos + k > f.failAt THEN f.failAt - f.pos ELSE k)
    IN  IF f.pos >= f.failAt THEN Fail(w, "READ")
        ELSE Ret([w EXCEPT ![1].pos = @ + Len(d)], d)

-----------------------------------------------------------------------------
(***************************************************************************)
(* Window (lib/zip_source_window.c): the part of the lower source between  *)
(* start and end.  On a seekable source it positions the lower source      *)
(* before each read, because others move it.                               *)
(***************************************************************************)
WindowNew(lower, start, len, st, dostime, archive) ==
    Source("window",
           (lower.supports \cap {"SEEK", "REOPEN"}) \cup {"TELL", "ATTR", "DOSTIME"}
             \cup (IF len >= 0 THEN {"AT_EOF"} ELSE {}),
           [start |-> start, end |-> start + len, endValid |-> len >= 0, offset |-> 0,
            own |-> st, dostime |-> dostime, archive |-> archive,
            needsSeek |-> "SEEK" \in lower.supports])

\* Where the entry's data begins is known once its local header was read.
FileGetOffset(w) ==
    LET Found(s, r) == IF s.err # OK \/ r.err # OK \/ Len(r.data) < HEADERLEN
                       THEN Fail(r.w, "READ") ELSE Ret(r.w, <<>>)
        Header(s)   == Found(s, Read(s.w, 1, HEADERLEN))
    IN  Header(Seek(w, 1, 0, "SET"))

RECURSIVE SkipTo(_, _, _)
SkipTo(w, i, n) ==
    IF n = 0 THEN Ret(w, <<>>)
    ELSE LET Next(r) == IF r.err # OK THEN r
                        ELSE IF r.data = <<>> THEN Fail(r.w, "EOF")
                        ELSE SkipTo(r.w, i, n - Len(r.data))
         IN  Next(Read(w, i, IF n > BUFSIZE THEN BUFSIZE ELSE n))

WindowOpen(w, i) ==
    LET There(r) == IF r.err # OK THEN r ELSE Ret([r.w EXCEPT ![i].offset = r.w[i].start], <<>>)
        From(v)  == There(IF v[i].needsSeek THEN Ret(v, <<>>) ELSE SkipTo(v, i - 1, v[i].start))
        Found(r) == IF r.err # OK THEN r
                    ELSE From([r.w EXCEPT ![i].start = @ + HEADERLEN, ![i].end = @ + HEADERLEN,
                                          ![i].archive = FALSE])
    IN  IF w[i].archive THEN Found(FileGetOffset(w)) ELSE From(w)

\* Faulty variant: the lower source is read where it stands.
WindowReadInPlace(w, i, n) ==
    LET c   == w[i]
        len == IF c.endValid /\ n > c.end - c.offset THEN c.end - c.offset ELSE n
        Got(r) == IF r.err # OK THEN r ELSE Ret([r.w EXCEPT ![i].offset = @ + Len(r.data)], r.data)
    IN  IF len = 0 THEN Ret(w, <<>>) ELSE Got(Read(w, i - 1, len))

WindowRead(w, i, n) ==
    LET c   == w[i]
        len == IF c.endValid /\ n > c.end - c.offset THEN c.end - c.offset ELSE n
        Got(r)   == IF r.err # OK THEN r
                    ELSE IF r.data = <<>> /\ c.endValid /\ c.offset < c.end THEN Fail(r.w, "EOF")
                    ELSE Ret([r.w EXCEPT ![i].offset = @ + Len(r.data)], r.data)
        There(s) == IF s.err # OK THEN Fail(s.w, IF s.err = "INVAL" THEN "EOF" ELSE s.err)
                    ELSE Got(Read(s.w, i - 1, len))
    IN  IF len = 0 THEN Ret(w, <<>>)
        ELSE There(IF c.needsSeek THEN Seek(w, i - 1, c.offset, "SET") ELSE Ret(w, <<>>))

\* Without a known end, the lower source says where the new position is.
WindowSeek(w, i, delta, whence) ==
    LET c     == w[i]
        toEnd == ~c.endValid /\ whence = "END"
        new   == ComputeOffset(c.offset - c.start,
                               IF c.endValid THEN c.end - c.start ELSE Unlimited, delta, whence)
        Moved(r) == IF r.err # OK THEN r
                    ELSE IF r.w[i - 1].pos < c.start THEN Fail(r.w, "INVAL")
                    ELSE Ret([r.w EXCEPT ![i].offset = r.w[i - 1].pos], <<>>)
    IN  IF ~toEnd /\ new < 0 THEN Fail(w, "INVAL")
        ELSE IF c.endValid THEN Ret([w EXCEPT ![i].offset = new + c.start], <<>>)
        ELSE Moved(Seek(w, i - 1, IF toEnd THEN delta ELSE new + c.start,
                        IF toEnd THEN "END" ELSE "SET"))

WindowStat(c, lower) ==
    LET st == StatMerge(lower, c.own)
    IN  IF "size" \in c.own.valid THEN st
        ELSE IF c.endValid THEN With(st, "size", c.end - c.start)
        ELSE IF "size" \notin st.valid THEN st
        ELSE IF st.size < c.start THEN Without(st, {"size"})
        ELSE With(st, "size", st.size - c.start)

-----------------------------------------------------------------------------
(***************************************************************************)
(* Checksum (lib/zip_source_crc.c).  The checksum of a prefix of the data  *)
(* is that prefix: the model's checksum never collides.                    *)
(***************************************************************************)
CrcNew(lower, validate) ==
    Source("crc", lower.supports \ {"ATTR"},
           [validate |-> validate, complete |-> FALSE, size |-> 0, position |-> 0, crc |-> <<>>])

CrcOpen(w, i) ==
    Ret([w EXCEPT ![i].complete = FALSE, ![i].size = 0, ![i].position = 0, ![i].crc = <<>>], <<>>)

\* Faulty variant: only the size is compared.
ValidateSize(w, i) ==
    LET c   == w[i]
        low == StatOf(w, i - 1)
        w1  == [w EXCEPT ![i].size = c.position, ![i].complete = @ \/ Len(c.crc) = c.position]
    IN  IF c.validate /\ "size" \in low.st.valid /\ low.st.size # c.position
        THEN Fail(w1, "INCONS") ELSE Ret(w1, <<>>)

ValidateCrc(w, i) ==
    LET c     == w[i]
        low   == StatOf(w, i - 1)
        whole == Len(c.crc) = c.position
        w1    == [w EXCEPT ![i].size = c.position, ![i].complete = @ \/ whole]
    IN  IF ~c.validate THEN Ret(w1, <<>>)
        ELSE IF low.err # OK THEN Fail(w1, low.err)
        ELSE IF whole /\ "crc" \in low.st.valid /\ low.st.crc # c.crc THEN Fail(w1, "CRC")
        ELSE IF "size" \in low.st.valid /\ low.st.size # c.position THEN Fail(w1, "INCONS")
        ELSE Ret(w1, <<>>)

\* Only data that continues what was summed up so far enters the checksum.
CrcRead(w, i, n) ==
    LET c == w[i]
        Sum(data) ==
            IF ~c.complete /\ c.position <= Len(c.crc) /\ Len(c.crc) < c.position + Len(data)
            THEN c.crc \o Drop(data, Len(c.crc) - c.position) ELSE c.crc
        Got(r) ==
            IF r.err # OK THEN r
            ELSE IF r.data = <<>> THEN ValidateCrc(r.w, i)
            ELSE Ret([r.w EXCEPT ![i].crc = Sum(r.data), ![i].position = @ + Len(r.data)], r.data)
    IN  Got(Read(w, i - 1, n))

CrcClose(w, i) ==
    LET At(r) == IF r.err # OK THEN Fail(r.w, r.err)
                 ELSE IF r.eof THEN ValidateCrc(r.w, i)
                 ELSE Ret(r.w, <<>>)
    IN  At(AtEof(w, i - 1))

Tell(s) ==
    CASE s.kind = "file"   -> s.pos
      [] s.kind = "window" -> s.offset - s.start
      [] s.kind = "crc"    -> s.position
      [] OTHER             -> s.count

CrcSeek(w, i, delta, whence) ==
    LET Moved(r) == IF r.err # OK THEN r ELSE Ret([r.w EXCEPT ![i].position = Tell(r.w[i - 1])], <<>>)
    IN  Moved(Seek(w, i - 1, delta, whence))

CrcStat(c, lower) ==
    IF ~c.complete THEN [st |-> lower, err |-> OK]
    ELSE IF "size" \in lower.valid /\ lower.size # c.size
    THEN [st |-> lower, err |-> "DATA_LENGTH"]
    ELSE [st  |-> StatMerge(lower, [valid |-> {"size", "crc", "comp", "method", "em"},
                                    size |-> c.size, crc |-> c.crc, comp |-> c.size,
                                    method |-> "store", em |-> "none", mtime |-> "now"]),
          err |-> OK]

-----------------------------------------------------------------------------
(***************************************************************************)
(* Compression and decompression (lib/zip_source_compress.c).  `default'   *)
(* is the method of an entry whose method was never chosen: it is deflate, *)
(* and the layer may decide to store the data instead.                     *)
(***************************************************************************)
Actual(method) == IF method = "default" THEN "deflate" ELSE method

CompressNew(compress, method) ==
    Source("compress", {"ATTR", "REOPEN"},
           [compress |-> compress, method |-> method, canStore |-> compress /\ method = "default",
            endIn |-> FALSE, endStream |-> FALSE, stored |-> FALSE, size |-> 0, first |-> -1,
            buffer |-> <<>>, cerr |-> OK, z |-> NewStream, fin |-> FALSE])

\* Neither cerr nor canStore nor the wrapper's own fin is reset.
CompressOpen(w, i) ==
    LET st == StatOf(w, i - 1)
        w1 == [w EXCEPT ![i].size = 0, ![i].endIn = FALSE, ![i].endStream = FALSE,
                        ![i].stored = FALSE, ![i].first = -1]
    IN  IF st.err # OK THEN Fail([w1 EXCEPT ![i].cerr = st.err], st.err)
        ELSE Ret([w1 EXCEPT ![i].z = [NewStream EXCEPT !.header = w[i].z.header]], <<>>)

CompressEnd(w, i, out) ==
    IF out # <<>> THEN Ret([w EXCEPT ![i].canStore = FALSE, ![i].size = @ + Len(out)], out)
    ELSE IF w[i].cerr = OK THEN Ret(w, <<>>) ELSE Fail(w, w[i].cerr)

\* The library reported the end of the stream: look for data behind it,
\* and store small data that did not get smaller.
EndOfStream(w, i, out) ==
    LET c     == w[i]
        Ended(w1, err, extra) ==
            IF err # OK THEN CompressEnd([w1 EXCEPT ![i].cerr = err], i, out)
            ELSE IF extra /\ CheckCons THEN CompressEnd([w1 EXCEPT ![i].cerr = "INCONS"], i, out)
            ELSE IF c.first < 0 THEN CompressEnd([w1 EXCEPT ![i].cerr = "INTERNAL"], i, out)
            ELSE IF c.canStore /\ c.first <= Len(out)
            THEN Ret([w1 EXCEPT ![i].stored = TRUE, ![i].size = c.first], Take(c.buffer, c.first))
            ELSE CompressEnd(w1, i, out)
        Probed(r, atEnd) ==
            Ended([r.w EXCEPT ![i].endStream = TRUE, ![i].endIn = @ \/ atEnd, ![i].fin = @ \/ atEnd],
                  r.err, r.data # <<>> \/ (atEnd /\ c.z.in # <<>>))
        Probe(r) == Probed(r, r.err = OK /\ r.data = <<>>)
    IN  IF c.endIn THEN Ended([w EXCEPT ![i].endStream = TRUE], OK, FALSE)
        ELSE Probe(Read(w, i - 1, 1))

\* The library wants more data: the end of the input, or a bufferful.
MoreInput(w, i, n, out) ==
    LET Fed(r, inp) ==
            [r.w EXCEPT ![i].canStore = @ /\ w[i].first < 0,
                        ![i].first = IF @ < 0 THEN Len(r.data) ELSE @,
                        ![i].buffer = r.data,
                        ![i].z = inp.z,
                        ![i].cerr = IF inp.ok \/ w[i].cerr # OK THEN @ ELSE "INVAL"]
        Ended(r) == [r.w EXCEPT ![i].endIn = TRUE, ![i].fin = TRUE,
                                ![i].first = IF @ < 0 THEN 0 ELSE @]
        Got(r) ==
            IF r.err # OK THEN CompressEnd([r.w EXCEPT ![i].cerr = r.err], i, out)
            ELSE CompressLoop(IF r.data = <<>> THEN Ended(r)
                              ELSE Fed(r, Input(w[i].method, w[i].compress, w[i].z, r.data)), i, n, out)
    IN  IF w[i].endIn THEN CompressEnd(w, i, out) ELSE Got(Read(w, i - 1, BUFSIZE))

CompressLoop(w, i, n, out) ==
    IF Len(out) >= n THEN CompressEnd(w, i, out)
    ELSE LET c == w[i]
             Next(p) ==
                 LET w1 == [w EXCEPT ![i].z = p.z]
                 IN  CASE p.status = "END"       -> EndOfStream(w1, i, out \o p.data)
                       [] p.status = "OK"        -> CompressLoop(w1, i, n, out \o p.data)
                       [] p.status = "NEED_DATA" -> MoreInput(w1, i, n, out \o p.data)
                       [] p.status = "ERROR"     ->
                             CompressEnd([w1 EXCEPT ![i].cerr = IF @ = OK THEN "ZLIB" ELSE @], i, out)
         IN  Next(Process(Actual(c.method), c.compress, c.z, n - Len(out), c.fin))

CompressRead(w, i, n) ==
    IF w[i].cerr # OK THEN Fail(w, w[i].cerr)
    ELSE IF n = 0 \/ w[i].endStream THEN Ret(w, <<>>)
    ELSE CompressLoop(w, i, n, <<>>)

CompressStat(c, lower) ==
    IF c.compress
    THEN IF c.endStream
         THEN With(With(lower, "method", IF c.stored THEN "store" ELSE Actual(c.method)), "comp", c.size)
         ELSE Without(lower, {"comp", "method"})
    ELSE LET st == Without(With(lower, "method", "store"), {"comp"})
         IN  IF c.endStream THEN With(st, "size", c.size) ELSE st

-----------------------------------------------------------------------------
(***************************************************************************)
(* Decryption.  A header goes before the data: for PKWARE its last byte    *)
(* must be the time of the entry (or match its checksum), for AES it       *)
(* verifies the password.  Either check lets some wrong passwords pass.    *)
(* AES also has an authentication code behind the data.                    *)
(***************************************************************************)
PKWARE_HEADERLEN == 1
AES_AUX_LENGTH   == 2    \* header and authentication code
AUX(em) == IF em = "trad" THEN PKWARE_HEADERLEN ELSE AES_AUX_LENGTH
HeaderCell(mtime) == Cell("header", mtime, 0)

PkwareDecodeNew(password, lowerStat) ==
    Source("pkware decode", {"AT_EOF", "REOPEN"},
           [em |-> "trad", key |-> password, plain |-> <<>>])

\* Faulty variant: what encryption added is counted as data.
AesDecodeNewWhole(password, lowerStat) ==
    Source("aes decode", {"AT_EOF", "REOPEN"},
           [em |-> "aes", key |-> password, length |-> lowerStat.comp, position |-> 0,
            plain |-> <<>>, seen |-> <<>>, verified |-> FALSE, failed |-> OK])

AesDecodeNew(password, lowerStat) ==
    Source("aes decode", {"AT_EOF", "REOPEN"},
           [em |-> "aes", key |-> password, length |-> lowerStat.comp - AES_AUX_LENGTH, position |-> 0,
            plain |-> <<>>, seen |-> <<>>, verified |-> FALSE, failed |-> OK])

DecodeNew(em, password, lowerStat) ==
    IF em = "trad" THEN PkwareDecodeNew(password, lowerStat) ELSE AesDecodeNew(password, lowerStat)

\* The header that was read tells whether the password may be right.
PkwareHeaderOpens(w, i, header) ==
    LET st    == StatOf(w, i - 1)
        date  == GetDosTime(w, i - 1)
        plain == Decrypt("trad", w[i].key, <<>>, header)[1]
    IN  \/ plain.kind = "header" /\ plain.v = (IF date # "" THEN date ELSE st.st.mtime)
        \/ plain = Junk /\ w[i].key \in Lucky
        \/ st.err # OK \/ "crc" \notin st.st.valid
        \/ date = "" /\ "mtime" \notin st.st.valid

AesHeaderOpens(w, i, header) ==
    LET plain == Decrypt("aes", w[i].key, <<>>, header)[1]
    IN  plain.kind = "header" \/ (plain = Junk /\ w[i].key \in Lucky)

\* The part of OPEN that both ciphers share: read the header, check it.
DecryptHeader(w, i) ==
    LET Opens(v, header) == IF v[i].em = "trad" THEN PkwareHeaderOpens(v, i, header)
                            ELSE AesHeaderOpens(v, i, header)
        Got(r) == IF r.err # OK THEN r
                  ELSE IF r.data = <<>> THEN Fail(r.w, "EOF")
                  ELSE IF ~Opens(r.w, r.data) THEN Fail(r.w, "WRONGPASSWD")
                  ELSE Ret([r.w EXCEPT ![i].plain = Decrypt(w[i].em, w[i].key, <<>>, r.data)], <<>>)
    IN  Got(Read(w, i - 1, 1))

PkwareDecodeOpen(w, i) == DecryptHeader(w, i)

AesDecodeOpen(w, i) ==
    LET Done(r) == IF r.err # OK THEN r ELSE Ret([r.w EXCEPT ![i].seen = <<>>, ![i].position = 0], <<>>)
    IN  Done(DecryptHeader([w EXCEPT ![i].verified = FALSE, ![i].failed = OK], i))

PkwareDecodeRead(w, i, n) ==
    LET Plain(r, plain) == Ret([r.w EXCEPT ![i].plain = @ \o plain], plain)
        Got(r) == IF r.err # OK THEN r ELSE Plain(r, Decrypt("trad", w[i].key, w[i].plain, r.data))
    IN  Got(Read(w, i - 1, n))

\* verify_hmac: once, when the last cell of data was read.
VerifyHmac(w, i) ==
    LET c == w[i]
        Verified(r) == [r.w EXCEPT ![i].verified = TRUE,
                                   ![i].failed = IF r.err # OK THEN r.err
                                                 ELSE IF r.data # <<Mac(c.key, c.seen)>> THEN "CRC"
                                                 ELSE OK]
    IN  IF c.position # c.length \/ c.verified THEN w ELSE Verified(Read(w, i - 1, 1))

AesDecodeRead(w, i, n) ==
    LET c     == w[i]
        len   == IF n > c.length - c.position THEN c.length - c.position ELSE n
        Checked(v, plain) == IF plain = <<>> /\ v[i].failed # OK THEN Fail(v, v[i].failed)
                             ELSE Ret(v, plain)
        Plain(r, plain) ==
            Checked(VerifyHmac([r.w EXCEPT ![i].position = @ + Len(r.data), ![i].plain = @ \o plain,
                                           ![i].seen = @ \o r.data], i), plain)
        Got(r) == IF r.err # OK THEN r
                  ELSE IF len > 0 /\ r.data = <<>> THEN Fail(r.w, "EOF")
                  ELSE Plain(r, Decrypt("aes", c.key, c.plain, r.data))
    IN  Got(IF len > 0 THEN Read(w, i - 1, len) ELSE Ret(w, <<>>))

\* An empty file is authenticated even when nothing of it was read.
AesDecodeClose(w, i) ==
    LET Checked(v) == IF v[i].failed # OK THEN Fail(v, v[i].failed) ELSE Ret(v, <<>>)
    IN  Checked(VerifyHmac(w, i))

\* STAT of either cipher.
DecodeStat(c, lower) ==
    LET st == With(lower, "em", "none")
    IN  IF "comp" \notin lower.valid THEN [st |-> st, err |-> OK]
        ELSE IF lower.comp < AUX(c.em) THEN [st |-> st, err |-> "DATA_LENGTH"]
        ELSE [st |-> [st EXCEPT !.comp = @ - AUX(c.em)], err |-> OK]

-----------------------------------------------------------------------------
(***************************************************************************)
(* Encryption.  A read that comes back short is taken for the end.         *)
(***************************************************************************)
EncodeSource(kind, supports, em, password, date) ==
    Source(kind, supports,
           [em |-> em, key |-> password, dostime |-> date, buffer |-> <<>>, plain |-> <<>>,
            sent |-> <<>>, ended |-> FALSE])

\* PKWARE writes the time of the entry into its header, so it has to know it
\* before it writes anything.
PkwareEncodeNew(w, password) ==
    LET date == GetDosTime(w, Len(w))
    IN  EncodeSource("pkware encode", {"ATTR", "AT_EOF", "DOSTIME"}, "trad", password,
                     IF date # "" THEN date ELSE StatOf(w, Len(w)).st.mtime)

AesEncodeNew(password) == EncodeSource("aes encode", {"ATTR"}, "aes", password, "")

EncodeNew(w, em, password) == IF em = "trad" THEN PkwareEncodeNew(w, password) ELSE AesEncodeNew(password)

\* The header goes into the buffer, encrypted.
EncryptHeader(w, i, header) ==
    Ret([w EXCEPT ![i].ended = FALSE, ![i].plain = header, ![i].sent = <<>>,
                  ![i].buffer = Encrypt(w[i].em, w[i].key, <<>>, header)], <<>>)

PkwareEncodeOpen(w, i) == EncryptHeader(w, i, <<HeaderCell(w[i].dostime)>>)
AesEncodeOpen(w, i)    == EncryptHeader(w, i, <<HeaderCell("")>>)

\* The rest of the buffer, then encrypted data of the source below.
PkwareEncodeRead(w, i, n) ==
    LET c    == w[i]
        head == Take(c.buffer, n)
        w0   == [w EXCEPT ![i].buffer = Drop(@, n)]
        Got(r) == IF r.err # OK THEN r
                  ELSE Ret([r.w EXCEPT ![i].plain = @ \o r.data,
                                       ![i].ended = Len(r.data) < n - Len(head)],
                           head \o Encrypt("trad", c.key, c.plain, r.data))
    IN  IF c.ended THEN Ret(w0, head) ELSE Got(Read(w0, i - 1, n - Len(head)))

\* At the end, the authentication code goes into the buffer.
AesEncodeRead(w, i, n) ==
    LET c    == w[i]
        head == Take(c.buffer, n)
        w0   == [w EXCEPT ![i].buffer = Drop(@, n)]
        Encrypted(r, enc, left) ==
            LET tail == IF left > 0 THEN <<Mac(c.key, c.sent \o enc)>> ELSE <<>>
            IN  Ret([r.w EXCEPT ![i].plain = @ \o r.data, ![i].sent = @ \o enc, ![i].ended = left > 0,
                                ![i].buffer = IF left > 0 THEN Drop(tail, left) ELSE @],
                    head \o enc \o Take(tail, left))
        Got(r) == IF r.err # OK THEN r
                  ELSE Encrypted(r, Encrypt("aes", c.key, c.plain, r.data), n - Len(head) - Len(r.data))
    IN  IF c.ended THEN Ret(w0, head) ELSE Got(Read(w0, i - 1, n - Len(head)))

PkwareEncodeClose(w, i) == Ret([w EXCEPT ![i].buffer = <<>>], <<>>)

\* STAT of either cipher.
EncodeStat(c, lower) ==
    LET st == With(lower, "em", c.em)
    IN  IF "comp" \in lower.valid THEN [st EXCEPT !.comp = @ + AUX(c.em)] ELSE st

-----------------------------------------------------------------------------
(***************************************************************************)
(* The commands (lib/zip_source_open.c, _read.c, _seek.c, _at_eof.c,       *)
(* _close.c, _stat.c, _get_file_attributes.c, _get_dostime.c, _call.c).    *)
(***************************************************************************)
CallOpen(w, i) ==
    CASE w[i].kind = "file"     -> Ret([w EXCEPT ![i].pos = 0], <<>>)
      [] w[i].kind = "window"   -> WindowOpen(w, i)
      [] w[i].kind = "crc"      -> CrcOpen(w, i)
      [] w[i].kind = "compress" -> CompressOpen(w, i)
      [] w[i].kind = "pkware decode" -> PkwareDecodeOpen(w, i)
      [] w[i].kind = "aes decode"    -> AesDecodeOpen(w, i)
      [] w[i].kind = "pkware encode" -> PkwareEncodeOpen(w, i)
      [] w[i].kind = "aes encode"    -> AesEncodeOpen(w, i)

CallRead(w, i, n) ==
    CASE w[i].kind = "file"     -> FileRead(w, n)
      [] w[i].kind = "window"   -> WindowRead(w, i, n)
      [] w[i].kind = "crc"      -> CrcRead(w, i, n)
      [] w[i].kind = "compress" -> CompressRead(w, i, n)
      [] w[i].kind = "pkware decode" -> PkwareDecodeRead(w, i, n)
      [] w[i].kind = "aes decode"    -> AesDecodeRead(w, i, n)
      [] w[i].kind = "pkware encode" -> PkwareEncodeRead(w, i, n)
      [] w[i].kind = "aes encode"    -> AesEncodeRead(w, i, n)

CallClose(w, i) ==
    CASE w[i].kind = "crc"           -> CrcClose(w, i)
      [] w[i].kind = "aes decode"    -> AesDecodeClose(w, i)
      [] w[i].kind = "pkware encode" -> PkwareEncodeClose(w, i)
      [] OTHER                       -> Ret(w, <<>>)

\* Faulty variant: when a source does not open, the one below stays open.
ZipSourceOpenLeaves(w, i) ==
    LET Own(r) == IF r.err # OK THEN r
                  ELSE Ret([r.w EXCEPT ![i].eof = FALSE, ![i].bad = FALSE, ![i].err = OK,
                                       ![i].count = 0, ![i].opens = @ + 1], <<>>)
        Low(r) == IF r.err # OK THEN r ELSE Own(CallOpen(r.w, i))
    IN  IF IsOpen(w[i])
        THEN IF "SEEK" \notin w[i].supports THEN Fail(w, "INUSE") ELSE Own(Ret(w, <<>>))
        ELSE Low(IF i = 1 THEN Ret(w, <<>>) ELSE Open(w, i - 1))

\* An open source can be opened again only if it can seek; it is not
\* rewound, but its end, its error and its count are forgotten.
ZipSourceOpen(w, i) ==
    LET Own(r) == IF r.err # OK THEN Fail(IF i > 1 THEN Close(r.w, i - 1).w ELSE r.w, r.err)
                  ELSE Ret([r.w EXCEPT ![i].eof = FALSE, ![i].bad = FALSE, ![i].err = OK,
                                       ![i].count = 0, ![i].opens = @ + 1], <<>>)
        Low(r) == IF r.err # OK THEN r ELSE Own(CallOpen(r.w, i))
    IN  IF IsOpen(w[i])
        THEN IF "SEEK" \notin w[i].supports THEN Fail(w, "INUSE") ELSE Own(Ret(w, <<>>))
        ELSE Low(IF i = 1 THEN Ret(w, <<>>) ELSE Open(w, i - 1))

\* The byte that at_eof put back, then callback after callback.  An error
\* after some data is kept for the next call.
ReadLoop(w, i, n, got) ==
    IF Len(got) >= n THEN Ret([w EXCEPT ![i].count = @ + Len(got)], got)
    ELSE LET Next(r) ==
                 LET failed == [r.w EXCEPT ![i].bad = TRUE, ![i].err = r.err]
                 IN  IF r.err # OK THEN IF got = <<>> THEN Fail(failed, r.err) ELSE Ret(failed, got)
                     ELSE IF r.data # <<>> THEN ReadLoop(r.w, i, n, got \o r.data)
                     ELSE Ret([r.w EXCEPT ![i].eof = TRUE, ![i].count = @ + Len(got)], got)
         IN  Next(CallRead(w, i, n - Len(got)))

\* Faulty variant: an error met after some data is never reported.
ZipSourceReadForgets(w, i, n) ==
    IF ~IsOpen(w[i]) THEN Fail([w EXCEPT ![i].err = "INVAL"], "INVAL")
    ELSE IF w[i].bad \/ w[i].eof \/ n = 0 THEN Ret(w, <<>>)
    ELSE ReadLoop([w EXCEPT ![i].next = <<>>], i, n, w[i].next)

ZipSourceRead(w, i, n) ==
    IF ~IsOpen(w[i]) THEN Fail([w EXCEPT ![i].err = "INVAL"], "INVAL")
    ELSE IF w[i].bad THEN Fail(w, w[i].err)
    ELSE IF w[i].eof \/ n = 0 THEN Ret(w, <<>>)
    ELSE ReadLoop([w EXCEPT ![i].next = <<>>], i, n, w[i].next)

FileSeek(w, delta, whence) ==
    LET new == ComputeOffset(w[1].pos, Len(w[1].cells), delta, whence)
    IN  IF new < 0 THEN Fail(w, "INVAL") ELSE Ret([w EXCEPT ![1].pos = new], <<>>)

ZipSourceSeek(w, i, delta, whence) ==
    LET Done(r) == IF r.err # OK THEN Fail([r.w EXCEPT ![i].err = r.err], r.err)
                   ELSE Ret([r.w EXCEPT ![i].eof = FALSE], <<>>)
    IN  Done(CASE ~IsOpen(w[i])                -> Fail(w, "INVAL")
               [] "SEEK" \notin w[i].supports  -> Fail(w, "OPNOTSUPP")
               [] w[i].kind = "window"         -> WindowSeek(w, i, delta, whence)
               [] w[i].kind = "crc"            -> CrcSeek(w, i, delta, whence)
               [] OTHER                        -> FileSeek(w, delta, whence))

\* The AT_EOF callbacks; a checksum and PKWARE decryption ask below.
CallAtEof(w, i) ==
    CASE w[i].kind = "file"                          -> w[i].pos = Len(w[i].cells)
      [] w[i].kind = "window"                        -> w[i].offset = w[i].end
      [] w[i].kind = "pkware encode"                 -> w[i].ended
      [] w[i].kind = "aes decode"                    -> w[i].position = w[i].length
      [] OTHER                                       -> CallAtEof(w, i - 1)

ZipSourceAtEof(w, i) ==
    LET c == w[i]
        Answer(v, e, eof) == [w |-> v, err |-> e, eof |-> eof]
        Back(r)   == Answer(r.w, r.err, FALSE)
        Peeked(r) == IF r.err # OK THEN Back(r)
                     ELSE IF r.data = <<>> THEN Answer(r.w, OK, TRUE)
                     ELSE IF "SEEK" \in c.supports THEN Back(Seek(r.w, i, -1, "CUR"))
                     ELSE Answer([r.w EXCEPT ![i].next = r.data, ![i].count = @ - 1], OK, FALSE)
    IN  IF ~IsOpen(c) THEN Answer(w, "INVAL", FALSE)
        ELSE IF c.eof THEN Answer(w, OK, TRUE)
        ELSE IF "AT_EOF" \in c.supports
        THEN Answer([w EXCEPT ![i].eof = CallAtEof(w, i)], OK, CallAtEof(w, i))
        ELSE Peeked(Read(w, i, 1))

\* The last close runs the callback and closes the source below, whatever
\* the callback said.
ZipSourceClose(w, i) ==
    LET w0 == [w EXCEPT ![i].opens = @ - 1, ![i].next = IF w[i].opens = 1 THEN <<>> ELSE @]
        Closed(v, e) == IF e = OK THEN Ret(v, <<>>) ELSE Fail([v EXCEPT ![i].err = e], e)
        Low(own, r)  == Closed(r.w, IF own.err # OK THEN own.err ELSE r.err)
        Own(own)     == Low(own, IF i = 1 THEN Ret(own.w, <<>>) ELSE Close(own.w, i - 1))
    IN  IF ~IsOpen(w[i]) THEN Fail([w EXCEPT ![i].err = "INVAL"], "INVAL")
        ELSE IF IsOpen(w0[i]) THEN Ret(w0, <<>>)
        ELSE Own(CallClose(w0, i))

Command(w, i, c) ==
    CASE c.cmd = "READ"   -> ZipSourceRead(w, i, c.n)
      [] c.cmd = "SEEK"   -> ZipSourceSeek(w, i, c.delta, c.whence)
      [] c.cmd = "AT_EOF" -> ZipSourceAtEof(w, i)
      [] c.cmd = "OPEN"   -> ZipSourceOpen(w, i)
      [] c.cmd = "CLOSE"  -> ZipSourceClose(w, i)

StatOf(w, i) ==
    LET low == IF i = 1 THEN [st |-> NoStat, err |-> OK] ELSE StatOf(w, i - 1)
        c   == w[i]
        Is(st) == [st |-> st, err |-> OK]
    IN  IF low.err # OK THEN low
        ELSE CASE c.kind = "file"     -> Is(c.st)
               [] c.kind = "window"   -> Is(WindowStat(c, low.st))
               [] c.kind = "crc"      -> CrcStat(c, low.st)
               [] c.kind = "compress" -> Is(CompressStat(c, low.st))
               [] c.kind \in {"pkware decode", "aes decode"} -> DecodeStat(c, low.st)
               [] c.kind \in {"pkware encode", "aes encode"} -> Is(EncodeStat(c, low.st))

GetDosTime(w, i) ==
    CASE "DOSTIME" \notin w[i].supports             -> ""
      [] w[i].kind \in {"window", "pkware encode"} -> w[i].dostime
      [] OTHER                                      -> GetDosTime(w, i - 1)
=============================================================================
