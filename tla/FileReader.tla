----------------------------- MODULE FileReader -----------------------------
(***************************************************************************)
(* How a source that is (part of) a file is made and read: a named file,   *)
(* a FILE * or a HANDLE (zip_source_file_common.c over the operations of   *)
(* zip_source_file_stdio*.c and zip_source_file_win32*.c), under the calls *)
(* of zip_source_*.c.  Others make the file longer or shorter, replace it  *)
(* or remove it meanwhile.                                                 *)
(*                                                                         *)
(* Files are numbered, 0 stands for none; a byte is the file it is in and  *)
(* its offset there, so that files differ in their lengths only.  What the *)
(* C library reads ahead is left out.                                      *)
(***************************************************************************)
EXTENDS Integers, Sequences

CONSTANTS
    MaxLength,  \* bound on the length of files and on what is asked for
    MaxFiles,   \* bound on the files that ever have the name
    MaxReaders, \* bound on the readers of the source
    NOSOURCE

ASSUME ReaderAssumption == MaxLength \in Nat /\ MaxFiles \in Nat \ {0} /\ MaxReaders \in Nat

\* The lengths that are no number of bytes.
ZIP_LENGTH_TO_END == -1
ZIP_LENGTH_UNCHECKED == -2

VARIABLES
    os,      \* "unix" or "windows"
    path,    \* the file that has the name, or one of the following
    lengths, \* of the files
    stream,  \* what the user opened: [file, position, regular]
    source   \* struct zip_source_file_context, and what zip_source_t knows

NoFile == 0
Directory == -1
NoDirectory == -2  \* the name is one in a directory that there is not

readerVars == <<os, path, lengths, stream, source>>

Lengths == 0 .. MaxLength
Smaller(a, b) == IF a < b THEN a ELSE b

\* There is a name, or a stream: the first file, opened and perhaps read, or a
\* pipe.
ReaderInit ==
    /\ os \in {"unix", "windows"}
    /\ \E n \in Lengths : lengths = [i \in 1 .. MaxFiles |-> IF i = 1 THEN n ELSE 0]
    /\ \/ /\ path \in {1, NoFile, Directory, NoDirectory}
          /\ stream = [file |-> 0, position |-> 0, regular |-> FALSE]
       \/ /\ path = NoFile
          /\ stream \in [file : {1}, position : {0, 1}, regular : BOOLEAN]
    /\ source = NOSOURCE

(***************************************************************************)
(* Making a source                                                         *)
(***************************************************************************)

\* _zip_stdio_op_stat, for a name and for a stream.
UnixStat(named) ==
    IF ~named THEN [exists |-> TRUE, regular |-> stream.regular, size |-> lengths[stream.file]]
    ELSE [exists |-> path \notin {NoFile, NoDirectory}, regular |-> path \in 1 .. MaxFiles,
          size |-> IF path \in 1 .. MaxFiles THEN lengths[path] ELSE 0]

\* _zip_win32_named_op_stat and _zip_stat_win32, which fail for a name in a
\* directory that there is not.
WinStat(named) ==
    IF ~named THEN [exists |-> TRUE, regular |-> stream.regular,
                    size |-> IF stream.regular THEN lengths[stream.file] ELSE 0]
    ELSE [exists |-> path # NoFile, regular |-> path \in 1 .. MaxFiles,
          size |-> IF path \in 1 .. MaxFiles THEN lengths[path] ELSE 0]

Stat(named) == IF os = "unix" THEN UnixStat(named) ELSE WinStat(named)

StatFails(named) == os = "windows" /\ named /\ path = NoDirectory

\* ctx->len: what is wanted, or what there is now; 0 for no limit.
KnownLength(sb, start, length, wanted) ==
    IF sb.regular /\ wanted = 0 /\ length # ZIP_LENGTH_UNCHECKED THEN sb.size - start ELSE wanted

\* zip_source_file_context_new: the file is not open, what is read goes to
\* nobody.
NewContext ==
    [named |-> FALSE, start |-> 0, len |-> 0, size |-> -1, seekable |-> FALSE, missing |-> FALSE,
     handle |-> [file |-> 0, position |-> 0], offset |-> 0,
     open_count |-> 0, eof |-> FALSE, had_read_error |-> FALSE,
     placed |-> FALSE, got |-> <<>>]

\* zip_source_file_common_new: `size` is -1 when it is not known; that a file
\* to be written is missing is remembered.
SourceOf(named, start, length, sb) ==
    LET wanted == IF length < 0 THEN 0 ELSE length
        len == KnownLength(sb, start, length, wanted)
        known == len > 0 \/ (sb.exists /\ sb.regular /\ length # ZIP_LENGTH_UNCHECKED)
    IN [NewContext EXCEPT
            !.named = named, !.start = start, !.len = len,
            !.size = IF known THEN len ELSE -1,
            !.seekable = sb.regular \/ ~sb.exists,
            !.missing = ~sb.exists]

MayBeMade(named, start, length, sb) ==
    LET wanted == IF length < 0 THEN 0 ELSE length
    IN IF ~sb.exists THEN named /\ start = 0 /\ wanted = 0
       ELSE sb.regular => start + wanted <= sb.size

\* zip_source_file_create, zip_source_filep_create, zip_source_win32handle_create
CreateSource(named, start, length) ==
    /\ source = NOSOURCE
    /\ ~named => stream.file # 0
    /\ ~StatFails(named)
    /\ MayBeMade(named, start, length, Stat(named))
    /\ source' = SourceOf(named, start, length, Stat(named))
    /\ UNCHANGED <<os, path, lengths, stream>>

(***************************************************************************)
(* Reading it                                                              *)
(***************************************************************************)

Made == source # NOSOURCE
IsOpen == Made /\ source.open_count > 0

\* The file that is read, and where.
Handle == IF source.named THEN source.handle ELSE [file |-> stream.file, position |-> stream.position]

\* The source becomes s, and its file is read on from `position`.
ReadsOn(s, position) ==
    IF s.named
    THEN source' = [s EXCEPT !.handle.position = position] /\ UNCHANGED <<os, path, lengths, stream>>
    ELSE source' = s /\ stream' = [stream EXCEPT !.position = position] /\ UNCHANGED <<os, path, lengths>>

\* zip_source_open clears these for every reader.
Fresh(s) == [s EXCEPT !.open_count = @ + 1, !.eof = FALSE, !.had_read_error = FALSE, !.got = <<>>]

\* A source that is open already has to support seeking.
ReopenSource ==
    /\ IsOpen /\ source.open_count < MaxReaders
    /\ source.seekable
    /\ ReadsOn(Fresh(source), Handle.position)

\* win32_named_open and _zip_fopen_close_on_exec; a directory can be opened on
\* Unix, and cannot be read.
CanOpenPath == path \in 1 .. MaxFiles \/ (os = "unix" /\ path = Directory)

\* OPEN: a name is looked up now, and read from its start, a stream from where
\* it is unless `start` says where.
OpenAt(s) == IF s.start > 0 THEN s.start ELSE IF s.named THEN 0 ELSE stream.position

OpenReader ==
    /\ Made /\ source.open_count = 0
    /\ source.named => CanOpenPath
    /\ source.start > 0 => (IF source.named THEN path \in 1 .. MaxFiles ELSE stream.regular)
    /\ LET s == [Fresh(source) EXCEPT
                    !.offset = 0,
                    !.handle.file = IF source.named /\ path \in 1 .. MaxFiles THEN path ELSE 0,
                    !.placed = source.named \/ source.start > 0 \/ stream.position = 0]
       IN ReadsOn(s, OpenAt(source))

\* READ: how much the file is asked for.
Limit(n) == IF source.len > 0 THEN Smaller(source.len - source.offset, n) ELSE n

\* What fread or ReadFile have for a request of n.
Available(n) ==
    IF Handle.file = 0 \/ lengths[Handle.file] < Handle.position THEN 0
    ELSE Smaller(n, lengths[Handle.file] - Handle.position)

\* zip_source_read, which asks again until it has n bytes or there are none.
\* _zip_stdio_op_read and _zip_win32_op_read return what they have before an
\* error, which later calls report.
ReadFile(n) ==
    /\ IsOpen /\ ~source.had_read_error /\ ~source.eof
    /\ \E k \in 0 .. Available(Limit(n)), error \in BOOLEAN :
        /\ ~error => k = Available(Limit(n)) /\ Handle.file # 0
        /\ ReadsOn([source EXCEPT
                        !.offset = @ + k, !.eof = ~error /\ k < n, !.had_read_error = error,
                        !.got = [j \in 1 .. k |-> <<Handle.file, Handle.position + j - 1>>]],
                   Handle.position + k)

\* Faulty variant: the part is taken for the file.
PlaceInFile(offset) == offset

\* SEEK: the offset in the file.
Place(offset) == source.start + offset

\* _zip_stdio_op_seek, _zip_win32_op_seek
SeekSource(offset) ==
    /\ IsOpen /\ source.seekable
    /\ offset <= source.len
    /\ ReadsOn([source EXCEPT !.offset = offset, !.eof = FALSE, !.placed = TRUE, !.got = <<>>],
               Place(offset))

\* Where fseeko or SetFilePointerEx fails, the source has moved and its file
\* has not.
SeekFails(offset) ==
    /\ IsOpen /\ source.seekable
    /\ offset <= source.len
    /\ ReadsOn([source EXCEPT !.offset = offset, !.placed = FALSE, !.got = <<>>], Handle.position)

\* zip_source_close: the last reader closes the file.  A stream stays open, as
\* it is, until the source is freed.
CloseReader ==
    /\ IsOpen
    /\ source' = [source EXCEPT
            !.open_count = @ - 1, !.got = <<>>,
            !.handle = IF source.open_count > 1 THEN @ ELSE NewContext.handle]
    /\ UNCHANGED <<os, path, lengths, stream>>

\* zip_source_free and zip_source_file_context_free; a stream is closed with
\* its source.
FreeSource ==
    /\ Made
    /\ source' = NOSOURCE
    /\ stream' = IF source.named THEN stream ELSE [stream EXCEPT !.file = 0]
    /\ UNCHANGED <<os, path, lengths>>

(***************************************************************************)
(* What others do with the file.                                           *)
(***************************************************************************)

OthersWrite(i, n) ==
    /\ i \in {path, stream.file, IF Made THEN source.handle.file ELSE 0}
    /\ lengths' = [lengths EXCEPT ![i] = n]
    /\ UNCHANGED <<os, path, stream, source>>

OthersReplace(i) ==
    /\ i = NoFile \/ (i > path /\ path >= NoFile)
    /\ path' = i
    /\ UNCHANGED <<os, lengths, stream, source>>

ReaderNext ==
    \/ \E named \in BOOLEAN, start \in Lengths,
          length \in Lengths \cup {ZIP_LENGTH_TO_END, ZIP_LENGTH_UNCHECKED} :
            CreateSource(named, start, length)
    \/ OpenReader \/ ReopenSource \/ CloseReader \/ FreeSource
    \/ \E n \in 1 .. MaxLength : ReadFile(n)
    \/ \E offset \in Lengths : SeekSource(offset) \/ SeekFails(offset)
    \/ \E i \in 1 .. MaxFiles, n \in Lengths : OthersWrite(i, n)
    \/ \E i \in 0 .. MaxFiles : OthersReplace(i)

ReaderSpec == ReaderInit /\ [][ReaderNext]_readerVars

(***************************************************************************)
(* Properties                                                              *)
(***************************************************************************)

\* Whatever happens to the file meanwhile, a reader gets the bytes at its place
\* in the part of one file that the source stands for, none behind its end,
\* and all of them unless it is told of an error or the file became shorter.
\* (A stream that is to be read from its start is read from wherever it is
\* when it is opened, after a seek that failed the two offsets disagree until
\* the next one, and a file that was empty when the source was made has no end:
\* `placed` and len > 0.)
InItsPart ==
    LET n == Len(source.got)
        end == source.start + source.offset
    IN /\ \A k \in 1 .. n : source.got[k] = <<Handle.file, end - n + k - 1>>
       /\ source.len > 0 => source.offset <= source.len

AtItsEnd ==
    \/ source.len > 0 /\ source.offset = source.len
    \/ source.start + source.offset >= lengths[Handle.file]

SourceReadsItsPart ==
    [][IsOpen' /\ source'.placed => InItsPart' /\ (source'.eof /\ ~source.eof => AtItsEnd')]_readerVars

=============================================================================
