------------------------------ MODULE Directory ------------------------------
(* The central directory and the end records (_zip_cdir_write), and how        *)
(* zip_open finds and believes them (zip_open.c).                              *)
EXTENDS Dirent

CONSTANTS
    MaxCount,  \* ZIP_UINT16_MAX as a number of entries
    CDBUFSIZE  \* how much of the end of a file is searched

ASSUME DirectoryAssumption == MaxCount \in Nat \ {0} /\ CDBUFSIZE \in Nat

EOCDLEN      == 22
EOCD64LEN    == 56
EOCD64LOCLEN == 20

\* ----------------------------------------------------------------- writing --

\* The directory, appended to a file.
RECURSIVE PutHeaders(_, _)
PutHeaders(file, entries) ==
    LET put(h) == Put(file, file.size, h, HeaderSize(h))
    IN  IF entries = <<>> THEN file
        ELSE PutHeaders(put(Header(Head(entries), FALSE, FALSE)), Tail(entries))

\* The end records after a directory.  The Zip64 end record is there when a
\* number does not fit; the number is the largest value from there.
PutEnd(with, n, offset, comment) ==
    LET size == with.size - offset
        wide == n > MaxCount \/ offset > MaxWord \/ size > MaxWord
        end64 == [magic |-> "EOCD64", length |-> EOCD64LEN - 12, thisDisk |-> 0, cdirDisk |-> 0,
                  diskEntries |-> n, entries |-> n, size |-> size, offset |-> offset]
        locator == [magic |-> "EOCD64LOC", disk |-> 0, offset |-> with.size, disks |-> 1]
        count  == IF n >= MaxCount THEN MaxCount ELSE n
        end    == [magic |-> "EOCD", thisDisk |-> 0, cdirDisk |-> 0, diskEntries |-> count,
                   entries |-> count, size |-> Least(size), offset |-> Least(offset),
                   commentLen |-> comment.size]
        then(file) == Paste(Put(file, file.size, end, EOCDLEN), file.size + EOCDLEN, comment)
    IN  IF ~wide THEN then(with)
        ELSE then(Put(Put(with, with.size, end64, EOCD64LEN),
                      with.size + EOCD64LEN, locator, EOCD64LOCLEN))

\* _zip_cdir_write
CdirWrite(file, entries, comment) ==
    PutEnd(PutHeaders(file, entries), Len(entries), file.size, comment)

\* ------------------------------------------------------------- end records --

BufferStart(file) == IF file.size > CDBUFSIZE THEN file.size - CDBUFSIZE ELSE 0

\* _zip_read_eocd
ReadEocd(e, pos) ==
    [zip64 |-> FALSE, at |-> pos, thisDisk |-> e.thisDisk, cdirDisk |-> e.cdirDisk,
     diskEntries |-> e.diskEntries, entries |-> e.entries, size |-> e.size, offset |-> e.offset]

\* What _zip_read_eocd64 makes of a locator and the record it points to.
NotFound      == [status |-> "NOT_FOUND", err |-> "none"]
Invalid(code) == [status |-> "INVALID", err |-> code]

ReadEocd64(file, cd, locPos, check) ==
    LET loc == At(file, locPos)
        e   == At(file, loc.offset)
        says(field, most) == cd[field] \in {most, e[field]}
    IN  IF e.magic # "EOCD64" THEN NotFound
        ELSE IF loc.disks # 1 THEN Invalid("MULTIDISK")
        ELSE IF loc.offset + EOCD64LEN > locPos THEN Invalid("INCONS")
        ELSE IF check /\ loc.offset + 12 + e.length # locPos THEN Invalid("INCONS")
        ELSE IF e.cdirDisk # loc.disk THEN Invalid("INCONS")
        ELSE IF e.diskEntries # e.entries THEN Invalid("MULTIDISK")
        ELSE IF e.entries > e.size \div CDENTRYSIZE THEN Invalid("INCONS")
        ELSE IF ~(/\ says("size", MaxWord) /\ says("offset", MaxWord)
                  /\ says("entries", MaxCount) /\ says("diskEntries", MaxCount)
                  /\ says("thisDisk", MaxCount) /\ says("cdirDisk", MaxCount))
             THEN Invalid("INCONS")
        ELSE [status |-> "OK", err |-> "none",
              cd |-> [ReadEocd(e, loc.offset) EXCEPT !.zip64 = TRUE]]

\* Faulty variant: an end record is believed whatever it points at.
PlausibleAlways(file, cd) == TRUE

\* Whether an end record without a Zip64 one points at a directory: a record
\* that does not is taken for other data that looks like one.
Plausible(file, cd) ==
    /\ (cd.cdirDisk # 0 \/ cd.thisDisk # 0) /\ cd.cdirDisk # cd.thisDisk
         => cd.thisDisk > cd.cdirDisk /\ cd.size > cd.at
    /\ \/ /\ cd.thisDisk = 0 /\ cd.cdirDisk = 0
          /\ cd.at = 0 /\ cd.offset = 0 /\ cd.entries = 0
       \/ At(file, cd.offset).magic = "CENTRAL"

\* check_eocd
EocdError(cd, check) ==
    IF cd.diskEntries # cd.entries \/ cd.thisDisk # 0 \/ cd.cdirDisk # 0 THEN "MULTIDISK"
    ELSE IF check /\ cd.offset + cd.size # cd.at THEN "INCONS"
    ELSE "none"

\* ----------------------------------------------------------------- entries --

\* The loop over the directory: up to the number of entries, and beyond it
\* when there is room, as old writers store the number modulo 65536.  A size
\* below zero is the huge number of the code.
RECURSIVE ReadHeaders(_, _, _, _, _)
ReadHeaders(file, cd, room, left, st) ==
    LET full  == Len(st.entries) = st.count
        size  == HeaderSize(At(file, st.pos))
        ended == full /\ (cd.zip64 \/ (0 <= left /\ left < CDENTRYSIZE))
        after(r) ==
            IF r.err # "OK" THEN Failed(IF full /\ r.err = "NOZIP" THEN "INCONS" ELSE r.err)
            ELSE ReadHeaders(file, cd, room, left - size,
                    [st EXCEPT !.entries = Append(@, r.de), !.pos = @ + size,
                               !.count = IF full THEN @ + MaxCount + 1 ELSE @])
    IN  IF left = 0 \/ ended
        THEN IF ~full \/ left # 0 THEN Failed("INCONS")
             ELSE [err |-> "OK", entries |-> st.entries, pos |-> st.pos]
        ELSE after(DirentRead(file, st.pos, room, FALSE, cd.zip64, 0, st.check))

Rejected           == [accepted |-> FALSE, err |-> "none"]
Refused(code)      == [accepted |-> TRUE, err |-> code]

\* What follows an end record that is accepted: its directory.
ReadDirectory(file, pos, cd, check) ==
    LET commentLen == At(file, pos).commentLen
        tail == file.size - (pos + EOCDLEN)
        inMemory == cd.offset >= BufferStart(file)
        room == [buffered |-> inMemory, end |-> IF inMemory THEN cd.offset + cd.size ELSE file.size]
        begin == [entries |-> <<>>, count |-> cd.entries, pos |-> cd.offset, check |-> check]
        ended(read) ==
            IF read.err # "OK" THEN Refused(read.err)
            ELSE IF check /\ read.pos # cd.offset + cd.size THEN Refused("INCONS")
            ELSE [accepted |-> TRUE, err |-> "OK", cd |-> cd, entries |-> read.entries,
                  comment |-> Slice(file, pos + EOCDLEN,
                                    IF tail < commentLen THEN tail ELSE commentLen)]
    IN  IF EocdError(cd, check) # "none" THEN Refused(EocdError(cd, check))
        ELSE IF cd.offset + cd.size > pos THEN Refused("INCONS")
        ELSE IF check /\ tail # commentLen THEN Refused("INCONS")
        ELSE ended(ReadHeaders(file, cd, room, cd.size, begin))

\* _zip_read_cdir: of the end record at a position, whether it is accepted, so
\* that no earlier one is tried, and what is read.
ReadCdir(file, pos, check) ==
    LET cd == ReadEocd(At(file, pos), pos)
        locPos == pos - EOCD64LOCLEN
        located == locPos >= BufferStart(file) /\ At(file, locPos).magic = "EOCD64LOC"
        found == IF located THEN ReadEocd64(file, cd, locPos, check)
                 ELSE IF Plausible(file, cd) THEN [status |-> "OK", cd |-> cd]
                 ELSE NotFound
        then(r) == CASE r.status = "OK"        -> ReadDirectory(file, pos, r.cd, check)
                     [] r.status = "INVALID"   -> Refused(r.err)
                     [] r.status = "NOT_FOUND" -> Rejected
    IN  IF pos + EOCDLEN > file.size THEN [accepted |-> FALSE, err |-> "INCONS"]
        ELSE then(found)

\* ------------------------------------------------------------- consistency --

\* Faulty variant: only the sizes are compared.
HeaderCompSizes(central, local) ==
    /\ central.need >= local.need
    /\ central.method = local.method
    /\ central.time = local.time
    /\ central.name.raw = local.name.raw
    /\ \A f \in {"comp", "uncomp"} :
         central[f] # local[f] => "descriptor" \in local.bits /\ local[f] = 0

\* _zip_headercomp: central directory and local header agree; with a data
\* descriptor the local header may leave a value out.
HeaderComp(central, local) ==
    /\ central.need >= local.need
    /\ central.method = local.method
    /\ central.time = local.time
    /\ central.name.raw = local.name.raw
    /\ \A f \in {"crc", "comp", "uncomp"} :
         central[f] # local[f] => "descriptor" \in local.bits /\ local[f] = 0

LocalHeader(file, cd, de) ==
    DirentRead(file, de.offset, [end |-> file.size, buffered |-> FALSE], TRUE,
               cd.zip64, de.comp, TRUE)

\* One round of the loop of _zip_checkcons: the entry with its local header's
\* extra fields, or an error.
CheckEntry(file, cd, entries, i) ==
    LET reaches(k) == entries[k].offset + entries[k].comp + entries[k].name.raw.len + LENTRYSIZE
        compare(r) ==
            IF r.err # "OK" THEN r
            ELSE IF ~HeaderComp(entries[i], r.de) \/ ~StoredSizesAgree(entries[i])
                 THEN Failed("INCONS")
            ELSE Succeeded([entries[i] EXCEPT !.local = r.de.local, !.localRead = TRUE])
    IN  IF (\A k \in 1..i : entries[k].offset > cd.offset) \/ (\E k \in 1..i : reaches(k) > cd.offset)
        THEN Failed("NOZIP")
        ELSE compare(LocalHeader(file, cd, entries[i]))

\* _zip_checkcons, of an archive that was read
CheckCons(file, r) ==
    LET result(checked) ==
            LET wrong == {i \in DOMAIN checked : checked[i].err # "OK"}
            IN  IF wrong # {} THEN checked[Min(wrong)]
                ELSE [r EXCEPT !.entries = [i \in DOMAIN checked |-> checked[i].de]]
    IN  result([i \in DOMAIN r.entries |-> CheckEntry(file, r.cd, r.entries, i)])

\* ----------------------------------------------------------------- opening --

\* _zip_find_central_dir: end records are tried from the end of the file until
\* one is accepted.
FindCentralDir(file, check) ==
    LET ends == {p \in DOMAIN file.at : p >= BufferStart(file) /\ At(file, p).magic = "EOCD"}
        last(reads) ==
            LET accepted == {p \in ends : reads[p].accepted}
            IN  IF accepted # {} THEN reads[Max(accepted)]
                ELSE Failed(IF \E p \in ends : reads[p].err = "INCONS" THEN "INCONS" ELSE "NOZIP")
        checked(r) == IF r.err = "OK" /\ check THEN CheckCons(file, r) ELSE r
    IN  IF file.size < EOCDLEN THEN Failed("NOZIP")
        ELSE checked(last([p \in ends |-> ReadCdir(file, p, check)]))

\* _zip_open: an empty file is an empty archive; names are entered into the
\* hash table, where one that is there already is an error only when checking.
OpenFile(file, check) ==
    LET twice(entries) == \E i, j \in DOMAIN entries :
                            i # j /\ Shown(entries[i].name) = Shown(entries[j].name)
        result(r) ==
            IF r.err = "NOZIP" /\ At(file, 0).magic = "LOCAL" THEN Failed("TRUNCATED_ZIP")
            ELSE IF r.err = "OK" /\ check /\ twice(r.entries) THEN Failed("EXISTS")
            ELSE r
    IN  IF file.size = 0 THEN [err |-> "OK", entries |-> <<>>, comment |-> EmptyFile]
        ELSE result(FindCentralDir(file, check))
=============================================================================
