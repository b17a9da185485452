------------------------------- MODULE Dirent -------------------------------
(* Directory entries (zip_dirent.c): what is written of one into the local     *)
(* header and into the central directory, and what is read back.               *)
(*                                                                             *)
(* A file is its size and the records in it, each at its offset: headers, end  *)
(* records, descriptors, data.  Records have the sizes of the format, 32-bit   *)
(* fields a smaller maximum, MaxWord, so that small archives reach Zip64.      *)
EXTENDS Integers, FiniteSetsExt, ZipString, ExtraFields

CONSTANTS
    MaxWord,    \* ZIP_UINT32_MAX
    LatestTime  \* the last second a DOS time can name

ASSUME DirentAssumption ==
    MaxWord \in Nat /\ MaxFields \in Nat /\ LatestTime \in Nat /\ LatestTime % 2 = 0

LENTRYSIZE  == 30
CDENTRYSIZE == 46
MAGIC_LEN   == 4
MAX_DATA_DESCRIPTOR_LENGTH == 24

\* ------------------------------------------------------------------ files --

EmptyFile == [size |-> 0, at |-> <<>>]

Larger(m, n) == IF m > n THEN m ELSE n

\* _zip_write of a record at a position.
Put(file, pos, rec, len) ==
    [size |-> Larger(file.size, pos + len), at |-> (pos :> rec) @@ file.at]

\* copy_data: part of a file, and writing it elsewhere.
Slice(file, from, n) ==
    [size |-> n,
     at |-> [o \in {p - from : p \in {q \in DOMAIN file.at : from <= q /\ q < from + n} }
               |-> file.at[o + from]]]

Paste(file, pos, piece) ==
    [size |-> Larger(file.size, pos + piece.size),
     at |-> [o \in {pos + p : p \in DOMAIN piece.at} |-> piece.at[o - pos]] @@ file.at]

\* What the four bytes at a position say is there.
At(file, pos) ==
    IF pos \in DOMAIN file.at /\ pos + MAGIC_LEN <= file.size
    THEN file.at[pos] ELSE [magic |-> "none"]

HeaderSize(h) ==
    IF h.magic = "LOCAL"
    THEN LENTRYSIZE + h.name.len + EfSize(h.ef)
    ELSE CDENTRYSIZE + h.name.len + EfSize(h.ef) + h.comment.len

\* ------------------------------------------------------------------- times --

\* _zip_u2d_time: seconds since 1980, to two seconds, within what DOS can say.
DosTime(t) ==
    CASE t < 0            -> 0
      [] t > LatestTime   -> LatestTime
      [] OTHER            -> t - (t % 2)

\* ------------------------------------------------------- entries in memory --

\* _zip_dirent_init
DirentInit ==
    [name |-> NoString, comment |-> NoString, method |-> "default", encr |-> "none",
     bits |-> {}, time |-> 0, crc |-> 0, comp |-> 0, uncomp |-> 0, offset |-> 0,
     need |-> 10, attr |-> "default", central |-> <<>>, local |-> <<>>,
     localRead |-> FALSE, changed |-> {}]

\* ZIP_CM_ACTUAL
Actual(method) == IF method = "default" THEN "deflate" ELSE method

\* _zip_dirent_needs_zip64
NeedsZip64(de, local) ==
    \/ de.uncomp >= MaxWord
    \/ de.comp >= MaxWord
    \/ ~local /\ de.offset >= MaxWord

\* _zip_dirent_apply_attributes, of a source with no attributes of its own, to
\* an entry that is no directory.
ApplyAttributes(de, force) ==
    [de EXCEPT !.need =
        IF de.encr = "aes" THEN 51
        ELSE IF force \/ NeedsZip64(de, TRUE) THEN 45
        ELSE IF de.method = "deflate" \/ de.encr = "pkware" THEN 20
        ELSE 10]

\* ----------------------------------------------------------------- writing --

\* _zip_ef_utf8
Utf8Field(id, s) == [id |-> id, len |-> 5 + s.raw.len, data |-> [of |-> s.raw, as |-> s.raw]]

\* Of name and comment, one in known UTF-8 and none in another encoding than
\* that and ASCII: then a flag says so, otherwise extra fields do.
FlaggedUtf8(de) ==
    LET encodings == {GuessEncoding(de.name, "unknown"), GuessEncoding(de.comment, "unknown")}
    IN  "utf8_known" \in encodings /\ encodings \subseteq {"utf8_known", "ascii"}

Utf8Fields(de, local) ==
    LET known(s) == GuessEncoding(s, "unknown") = "utf8_known"
    IN  IF FlaggedUtf8(de) THEN <<>>
        ELSE (IF ~local /\ known(de.comment) THEN <<Utf8Field(EfUtf8Comment, de.comment)>> ELSE <<>>)
             \o (IF known(de.name) THEN <<Utf8Field(EfUtf8Name, de.name)>> ELSE <<>>)

\* The fields of an entry that have a place in the Zip64 extra field.
WideFields(local) == IF local THEN <<"uncomp", "comp">> ELSE <<"uncomp", "comp", "offset">>

\* Faulty variant: the offset is forgotten.
Zip64FieldOfSizes(de, local, force) ==
    LET present == IF local THEN WideFields(local)
                   ELSE SelectSeq(WideFields(TRUE), LAMBDA f : de[f] >= MaxWord)
    IN  [id |-> EfZip64, len |-> 8 * Len(present),
         data |-> [k \in DOMAIN present |-> de[present[k]]]]

\* The Zip64 extra field: the local header's has both sizes, the central
\* directory's what does not fit its own field.
Zip64Field(de, local, force) ==
    LET exceeds(f) == de[f] > MaxWord
        present == IF local THEN WideFields(local)
                   ELSE SelectSeq(WideFields(local), LAMBDA f : de[f] >= MaxWord)
        values  == IF force \/ \E f \in ToSet(WideFields(local)) : exceeds(f)
                   THEN [k \in DOMAIN present |-> de[present[k]]] ELSE <<>>
    IN  [id |-> EfZip64, len |-> 8 * Len(values), data |-> values]

\* The version of WinZip's AES format an entry is written in; version 2 has no CRC.
AesVersion(de) == IF de.encr # "aes" THEN 0 ELSE IF de.uncomp < 20 THEN 2 ELSE 1

AesField(de) ==
    [id |-> EfWinzipAes, len |-> 7,
     data |-> [version |-> AesVersion(de), method |-> de.method]]

\* The bits _zip_dirent_write sets and clears in the entry itself.
WithBits(de) ==
    [de EXCEPT !.bits = (@ \ {"utf8", "encrypted"})
                        \cup (IF FlaggedUtf8(de) THEN {"utf8"} ELSE {})
                        \cup (IF de.encr # "none" THEN {"encrypted"} ELSE {})]

IsZip64(de, local, force) == (local /\ force) \/ NeedsZip64(de, local)

Least(n) == IF n < MaxWord THEN n ELSE MaxWord

\* The extra fields of a header: libzip's own before the user's.
HeaderFields(de, local, force) ==
    (IF AesVersion(de) > 0 THEN <<AesField(de)>> ELSE <<>>)
    \o (IF IsZip64(de, local, force) THEN <<Zip64Field(de, local, local /\ force)>> ELSE <<>>)
    \o Utf8Fields(de, local)
    \o (IF local THEN de.local ELSE de.central)

\* _zip_dirent_write: the header, which may be too large to write.
Header(de, local, force) ==
    LET both == local /\ (de.comp >= MaxWord \/ de.uncomp >= MaxWord)
    IN  [magic |-> IF local THEN "LOCAL" ELSE "CENTRAL",
         need |-> Larger(IF NeedsZip64(de, local) THEN 45 ELSE 0, de.need),
         bits |-> WithBits(de).bits,
         method |-> IF AesVersion(de) > 0 THEN "aes" ELSE Actual(de.method),
         time |-> de.time,
         crc |-> IF AesVersion(de) = 2 THEN 0 ELSE de.crc,
         comp |-> IF both THEN MaxWord ELSE Least(de.comp),
         uncomp |-> IF both THEN MaxWord ELSE Least(de.uncomp),
         name |-> de.name.raw, ef |-> HeaderFields(de, local, force),
         comment |-> IF local THEN NoBytes ELSE de.comment.raw,
         attr |-> IF local THEN "" ELSE de.attr,
         offset |-> IF local THEN 0 ELSE Least(de.offset)]

\* write_data_descriptor
Descriptor(de, wide) ==
    [magic |-> "DATADES", crc |-> de.crc, comp |-> de.comp, uncomp |-> de.uncomp, wide |-> wide]

DescriptorSize(wide) == IF wide THEN MAX_DATA_DESCRIPTOR_LENGTH ELSE 16

\* ----------------------------------------------------------------- reading --

Failed(code)     == [err |-> code]
Succeeded(de)    == [err |-> "OK", de |-> de]
Then(r, Step(_)) == IF r.err = "OK" THEN Step(r.de) ELSE r

\* The fixed fields, and the strings, whose bytes are looked at when the header
\* says that they are UTF-8.
FieldsOf(h, local) ==
    LET read(raw) == LET s == StringNew(raw, "unknown")
                     IN  IF "utf8" \in h.bits /\ raw.len > 0
                         THEN [s EXCEPT !.enc = GuessEncoding(s, "utf8_known")] ELSE s
        de == [DirentInit EXCEPT
                 !.need = h.need, !.bits = h.bits, !.method = h.method, !.time = h.time,
                 !.crc = h.crc, !.comp = h.comp, !.uncomp = h.uncomp,
                 !.encr = IF "encrypted" \in h.bits THEN "pkware" ELSE "none",
                 !.name = read(h.name), !.comment = read(h.comment), !.attr = h.attr,
                 !.offset = h.offset, !.localRead = local /\ h.ef # <<>>,
                 !.local = IF local THEN h.ef ELSE <<>>, !.central = IF local THEN <<>> ELSE h.ef]
    IN  IF "error" \in {de.name.enc, de.comment.enc} THEN Failed("INCONS") ELSE Succeeded(de)

\* The header's own list of fields; _zip_extra_fields_get_by_id on it.
Own(de, local) == IF local THEN de.local ELSE de.central
FieldData(de, local, id) ==
    LET k == EfFind(Own(de, local), id, 0) IN IF k = 0 THEN NULL ELSE Own(de, local)[k].data

\* _zip_dirent_process_ef_utf_8: the string an extra field gives for another.
\* A field of other bytes is passed over.
FromUtf8Field(de, local, id, s, check) ==
    LET data == FieldData(de, local, id)
        new  == StringNew(data.as, "utf8_known")
    IN  IF data = NULL \/ data.of # s.raw \/ new.enc = "error" THEN s
        ELSE IF check /\ s.raw # data.as /\ IsAscii(data.as) THEN NULL
        ELSE new

UnicodeName(de, local, check) ==
    LET name == FromUtf8Field(de, local, EfUtf8Name, de.name, check)
    IN  IF name = NULL \/ (check /\ name.raw.kind = "nul") THEN Failed("INCONS")
        ELSE Succeeded([de EXCEPT !.name = name])

UnicodeComment(de, local, check) ==
    LET comment == FromUtf8Field(de, local, EfUtf8Comment, de.comment, check)
    IN  IF local THEN Succeeded(de)
        ELSE IF comment = NULL THEN Failed("INCONS")
        ELSE Succeeded([de EXCEPT !.comment = comment])

\* zip_dirent_process_ef_zip64: the values go to the fields that have the
\* largest value, or, in a local header, to both sizes.  More values than that
\* are accepted when they are all three and the same.
WideValues(de, local, values) ==
    LET used == SelectSeq(WideFields(local), LAMBDA f : local \/ de[f] = MaxWord)
        at(f) == CHOOSE k \in DOMAIN used : used[k] = f
        wide(f) == IF de[f] # MaxWord THEN de[f]
                   ELSE IF at(f) \in DOMAIN values THEN values[at(f)] ELSE 0
        new == [f \in ToSet(WideFields(FALSE)) |->
                  IF f \in ToSet(used) THEN wide(f) ELSE de[f]]
        all == <<new["uncomp"], new["comp"], new["offset"]>>
    IN  IF Len(values) = Len(used) \/ (Len(values) = 3 /\ values = all)
        THEN Succeeded([de EXCEPT !.uncomp = new["uncomp"], !.comp = new["comp"],
                                  !.offset = new["offset"]])
        ELSE Failed("INCONS")

Zip64(de, local, zip64) ==
    LET values == FieldData(de, local, EfZip64)
    IN  IF MaxWord \notin {de.uncomp, de.comp, de.offset} THEN Succeeded(de)
        ELSE IF values # NULL THEN WideValues(de, local, values)
        ELSE IF zip64 THEN Failed("INCONS")
        ELSE Succeeded(de)

\* The sizes in a data descriptor, read as 64-bit or 32-bit values whichever
\* way they were written.  Unreadable stands for other bytes.
Unreadable == -1

DescriptorValues(d, wide) ==
    CASE d.magic # "DATADES" -> [crc |-> Unreadable, comp |-> Unreadable, uncomp |-> Unreadable]
      [] d.magic = "DATADES" ->
           [crc |-> d.crc,
            comp |-> IF d.wide = wide THEN d.comp ELSE IF wide THEN Unreadable ELSE d.comp % (MaxWord + 1),
            uncomp |-> IF d.wide = wide THEN d.uncomp
                       ELSE IF wide THEN Unreadable ELSE d.comp \div (MaxWord + 1)]

\* The descriptor after the data of a local header; what the header says itself
\* has to agree.
WithDescriptor(file, pos, de, local, zip64) ==
    LET d == DescriptorValues(At(file, pos), zip64)
        differs(f) == de[f] # 0 /\ de[f] # d[f]
    IN  IF ~local \/ "descriptor" \notin de.bits THEN Succeeded(de)
        ELSE IF pos + MAX_DATA_DESCRIPTOR_LENGTH > file.size THEN Failed("EOF")
        ELSE IF differs("crc") \/ differs("comp") \/ differs("uncomp") THEN Failed("INCONS")
        ELSE Succeeded([de EXCEPT !.crc = d.crc, !.comp = d.comp, !.uncomp = d.uncomp])

\* _zip_dirent_process_winzip_aes
Aes(de, local) ==
    LET data == FieldData(de, local, EfWinzipAes)
    IN  IF de.method # "aes" THEN Succeeded(de)
        ELSE IF data = NULL THEN Failed("INCONS")
        ELSE Succeeded([de EXCEPT !.encr = "aes", !.method = data.method])

\* The room a header is read from: the rest of the file, or the part of it that
\* is in memory, where the end of it is another error.
Short(room, pos, n) == pos + n > room.end

\* _zip_dirent_read
DirentRead(file, pos, room, local, zip64, centralComp, check) ==
    LET h == At(file, pos)
        fixed == IF local THEN LENTRYSIZE ELSE CDENTRYSIZE
        after == pos + HeaderSize(h) + centralComp
    IN  IF Short(room, pos, fixed) THEN Failed(IF room.buffered THEN "NOZIP" ELSE "EOF")
        ELSE IF h.magic # (IF local THEN "LOCAL" ELSE "CENTRAL") THEN Failed("NOZIP")
        ELSE IF Short(room, pos, HeaderSize(h))
             THEN Failed(IF room.buffered THEN "INCONS" ELSE "EOF")
        ELSE Then(Then(Then(Then(Then(Then(FieldsOf(h, local),
                LAMBDA de : UnicodeName(de, local, check)),
                LAMBDA de : UnicodeComment(de, local, check)),
                LAMBDA de : Zip64(de, local, zip64)),
                LAMBDA de : WithDescriptor(file, after, de, local, zip64)),
                LAMBDA de : Aes(de, local)),
                LAMBDA de : Succeeded([de EXCEPT !.local = RemoveInternal(@),
                                                 !.central = RemoveInternal(@)]))

\* zip_dirent_check_consistency: stored data is as long as the file.
EncryptionOverhead(encr) == CASE encr = "none" -> 0 [] encr = "pkware" -> 12 [] encr = "aes" -> 28

StoredSizesAgree(de) ==
    de.method = "store" => de.comp = de.uncomp + EncryptionOverhead(de.encr)

\* _zip_read_local_ef: the fields of the local header, when they are needed.
LocalFields(file, de) == RemoveInternal(At(file, de.offset).ef)
=============================================================================
