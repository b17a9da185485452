# A TLA+ model of libzip

libzip is a C library that reads, creates and modifies zip archives, with three
programs around it: zipcmp, zipmerge and ziptool. A program opens an archive,
edits it in memory, and `zip_close` writes all changes at once, or `zip_discard`
drops them. The library has no threads and no locks of its own. What makes it
hard to get right is elsewhere: long sequences of edits that must leave several
pieces of state in agreement, calls that fail half way, objects that own, open
and share each other, callbacks into the program, layers that pass data and
errors on, a file format with sizes in three places, and several processes that
work on one file.

This directory holds the specification: one module for each part of the library,
configurations that check it with TLC, and proofs that TLAPS checks.
`PROJECT.json` lists, for each definition, the lines of code that it stands for.

## 1. Inventory

The library is in `src/lib`, about 20 000 lines; paths below are relative to
`src`, and to `src/lib` where no directory is given.

| component | state | operations | modelled in |
|---|---|---|---|
| archive object (`zip_t`, `zip_entry_t`) | entries with original, changed copy, new data and deleted mark; flags; archive comment | `zip_file_add`, `zip_file_replace`, `zip_dir_add`, `zip_file_rename`, `zip_delete`, `zip_unchange*`, setters and getters | `ZipArchive`, `ArchiveStore`; the values of extra fields and times in `OpenArchive`, of methods in `EntryData` |
| table of names (`zip_hash.c`) | chained hash table; each name has the index it was opened with and the current one | add, delete, lookup, revert, reserve, grow, shrink | `NameHash` as the archive object sees it; `NameTable`, `ZipHash` |
| `zip_close` (`zip_close.c`, `zip_file_get_offset.c`) | entries to write, what may stay in place, offsets | clone or begin a new file, write or copy each entry, directory, commit or roll back | `ZipClose` (what goes where), `EntryData` (the data of one entry), `OpenArchive` (headers), `ToolClose` (callbacks) |
| named file source (`zip_source_file_*.c`) | the open file, its part, temporary file and stream | create, open, read, seek, clone, write, commit, roll back, remove | `FileCommit`, `AtomicFile`, `FileReader` |
| Windows file sources (`zip_source_file_win32*.c`) | handles | the same | `FileCommitWin32`, `FileReader` |
| source layer (`zip_source_*.c`, except those named elsewhere) | reference and open counts, write state, layers, registration with an archive, end of data and errors | keep, free, open, close, read, seek, stat, begin, commit, roll back, remove | `ZipSource` (life), `SourceLayers` (reading) |
| windows and open files (`zip_source_window.c`, `zip_source_zip_new.c`, `zip_f*.c`) | bounds and position; the position of the source below is shared | `zip_fopen`, `zip_fread`, `zip_fseek`, `zip_fclose`, `zip_source_zip_file` | `EntryData`; ownership and invalidation in `ZipSource` |
| compression, checksum and encryption layers | codec state, buffers, end of input, keys | open, read, stat, close | `Codec`, `SourceLayers`, `EntryData` |
| buffer source (`zip_source_buffer.c`) | fragments, shared between a buffer and its clone | read, write, seek, clone, commit, roll back, remove, free | `BufferSource`, `ByteSource` |
| `zip_open` (`zip_open.c`) | search for the end records, Zip64 forms, consistency checks | open, create, truncate | `Directory`, `OpenArchive` |
| directory entries, extra fields (`zip_dirent.c`, `zip_extra_field*.c`) | fields, sizes, two lists of extra fields, change marks | read, write, clone, merge, sizes | `Dirent`, `ExtraFields`, `OpenArchive` |
| strings (`zip_string.c`, `zip_utf-8.c`) | raw form and encoding | make, guess, show, compare | `ZipString` |
| progress (`zip_progress.c`) | section, last reported value | start, update, end, cancel | `ZipProgress`, `ToolClose` |
| zipcmp (`src/zipcmp.c`) | two sorted lists | compare | `ZipCmp` |
| zipmerge (`src/zipmerge.c`) | target and source archives | merge, ask, close | `ZipMerge` |
| ziptool (`src/ziptool.c`, `regress/programs/ziptool_regress.c`) | one archive, the archives it reads | commands on entries | `ZipTool` |
| source with holes (`regress/programs/source_hole.c`) | fragments or holes, a file | a writable source of the tests | `HoleSource`, `ByteFile` |
| memory buffers, errors, cryptography back ends, portability, zipsh | - | - | not modelled |

**How they interact.** A program holds a `zip_t`, which owns one source
(`za->src`, the archive's file) and, for each added entry, the source of its
data. `zip_fopen` stacks a window and layers for decryption, decompression and
checksum on `za->src` or on the entry's source. `zip_close` reads through the
same sources while it writes `za->src`, calls the program back to report progress
and to ask whether to go on, and finally commits, which for a named file renames
a temporary file. The table of names is changed by every call that gives, changes
or takes away a name, before or after the entry itself is changed.

**What is hard.**

- *Sequences of legal calls.* Renames in a circle, deletions taken back after
  another entry has taken the name, a directory added with overwrite: table,
  change marks and entries are changed separately and must agree afterwards.
- *One step of several failing.* `zip_close` can fail at every entry, in the
  directory and in the commit, and the archive lives on and can be edited and
  closed again. Allocations fail between two changes of one structure.
- *Deciding what not to write.* When a source can clone, `zip_close` leaves the
  beginning of the archive in place; it is off by one if it keeps too much.
- *Shared things.* Several files read through one source with one position; open
  and reference counts decide whether a commit is refused and when callbacks
  run; two buffers own the same memory; an entry and its changed copy have the
  same extra fields.
- *Data in layers.* Each layer asks, buffers, counts and passes on ends and
  errors; damage has to be noticed, and what is not damaged not refused.
- *Sizes that are written before they are known,* and limits of 16 and 32 bits
  in headers, directory and end records, where writer and reader must agree.
- *Several processes and crashes.* The temporary file, its permissions and its
  rename, with every system call failing and the process dying between any two;
  and files that change between being added and being read.

`PROJECT.json` lists each hazard at its line with the properties that would
catch it. What makes the parts correct, in a sentence each: a name leads to the
entry that has it and no name is stored twice (if the program gives no method to an
entry it has deleted); an archive that is read-only is
not written; what a successful `zip_close` stores is what the getters showed;
a writer replaces the file as a whole or not at all, and leaves nothing behind;
the table finds every name whatever its size; what is read from an entry is what
was added, or an error; an archive that was written can be opened and one that is
damaged is refused; programs do what their command line says, and end.

## 2. Modules

| module | what it is |
|---|---|
| `ArchiveStore` | abstract: an archive is a map of names to data, with a working copy that a session edits and commits |
| `NameHash` | the operators on the table of names, as a function of the names |
| `ZipArchive` | the archive object: one action for each call that changes it, and the programs that make all of them (`Spec`) or careful ones (`CarefulSpec`) |
| `ZipArchiveProofs` | theorems about `ZipArchive`: types, names, read-only archives, what `zip_close` stores, the normal form of torrentzip archives, and that it implements `ArchiveStore` |
| `NameTable` | abstract: what the table does to the two indices of a name |
| `ZipHash` | the chained table, its growth, and running out of memory |
| `ZipHashProofs` | theorem: `ZipHash` implements `NameTable` |
| `ZipClose` | `zip_close` step by step, with offsets, cloning, readers and failures |
| `ZipCloseProofs` | theorem: a commit stores what the program saw |
| `ZipSource` | sources as objects: owners, layers, opens, writing, and the windows of an archive |
| `ZipSourceProofs` | theorems about `ZipSource`: owners, opens, pointers, callbacks |
| `AtomicFile` | abstract: a file that writers replace atomically |
| `FileCommit`, `FileCommitWin32` | the named file source as system calls of several processes, on POSIX and on Windows |
| `FileReader` | a source that is a file, or part of one, while others change the file |
| `FileSourceProofs` | theorems about `FileCommit`, `FileCommitWin32` (they implement `AtomicFile`) and `FileReader` (readers get the bytes of their part) |
| `Codec` | data as cells; what the compression and encryption libraries do, and the wrappers around them |
| `SourceLayers` | reading, seeking and describing data through a stack of layers |
| `EntryData` | composes them: an entry is added, copied into a second archive, and read by several files |
| `ByteSource` | abstract: a source that is a sequence of bytes |
| `BufferSource` | the source in memory, with its fragments and their owners |
| `BufferSourceProofs` | theorems about `BufferSource`: memory and its owners, and that it implements `ByteSource` |
| `ByteFile` | abstract: a `ByteSource` that is kept in a file |
| `HoleSource` | the source with holes |
| `ZipString`, `ExtraFields`, `Dirent`, `Directory` | encodings, extra fields, headers, central directory and end records: written and read |
| `OpenArchive` | composes them: an archive is written, opened, edited, written again, and damaged |
| `ToolArchives`, `ZipProgress`, `ToolClose` | archives as the programs see them, progress, and `zip_close` with its callbacks |
| `ZipCmp`, `ZipMerge`, `ZipTool`, `Tools` | the programs, and a user who runs them one after the other |
| `ToolsProofs` | theorems about `Tools`: progress, cancelling, and what programs that fail leave |
| `MC*` | constants and definitions for TLC |

A definition that begins with "Faulty variant" is a plausible bug of the code,
stated before the operator it would replace. It is used by no specification; it
shows that the property it is paired with in `PROJECT.json` can fail.

### ZipArchive

Variables are the fields of `struct zip` and `struct zip_entry`; `disk` is the
archive file. A call is one action, because no other code runs during it; one
that fails and changes nothing is a stuttering step. The exception is
`CloseFails`: a `zip_close` that fails has already cloned or merged the
directory entries of some first part of its list. Names, file contents,
comments and attribute words are opaque values. `Rank` is the order in which
`strcasecmp` puts names. `names` is a total function over names; a node whose
two indices are both -1 is one that the code has freed.

Methods, encryption, times and extra fields appear as one change mark, `OTHER`,
which the setters and `zip_file_replace` set (`SetFileCompression`,
`SetFileEncryption`, `SetTime`, `SetExtraFields`); their values are in `OpenArchive`,
`EntryData` and `ToolArchives`. What matters here is which of them ask whether the
entry has a directory entry. `zip_set_file_compression` and
`zip_file_set_encryption` do not: a deleted entry gets a changed copy, is visible
again, and is not in the table. `zip_file_replace` brings it back for good, and
`zip_file_add` of its name succeeds. So there are two specifications. `Spec` has
every call. In `CarefulSpec` the program gives no method to an entry that it has
deleted; nothing else is asked of it. Properties that the first keeps are proved of
the first.

### ZipHash

Variables are those of `struct zip_hash`. A name stands for the string and the
pointer to it. `Hash` is any function of the names to numbers, for the keyed
hash. A change of size can fail for lack of memory; `resize_failed` remembers
that one did, and the refinement is claimed up to then.

### ZipClose

`zip_close` is a program with a counter `pc`: `BeginWrite`, then for each entry
`SkipEntry`, or `PrepareEntry` followed by `WriteNewData` or `CopyData`, then
`Commit`; `Fails` is possible at each of these points. The archive file is a
sequence of cells, each of which knows which file and method it belongs to, so
that a wrong offset or length shows as garbage. `view` is what the program saw
in each entry when it called `zip_close`. `stale` remembers that an earlier
`zip_close` failed after it had begun, with a source that clones or for a
torrentzip archive.

### ZipSource

Variables are the fields of `struct zip_source` that are not about positions,
those of `struct zip` that point to sources, what each callback has been
told (`callback`), and what the program has to give back or close (`held`,
`opened`). A call of the library goes through several objects, so it is an
operator from a memory to a memory, and an action is such a call with the guard
of its early returns. `zip_source_open`, `zip_source_close` and
`zip_source_free` call themselves for the source below; `Reached` is the set of
layers such a call gets to, the smallest set that the passing on does not lead out
of. `zip_discard` invalidates the windows of its archive one by one, and `windows`
are those that are left; nothing else happens before it is done. An archive has
one entry here.

The program is one that keeps to the manual: it closes only what it has opened,
frees only what it holds, and gives a source away once. It may call everything
in any order, also on a source that an archive uses, and keep a file or a source
longer than the archive.

### FileCommit, FileCommitWin32 and FileReader

Each action is one system call, or one call of stdio, of one process.
`dir` maps names to inodes and `data` holds what an inode contains; `buffer` is
what stdio has not written yet. A process may die between any two actions. The
system itself does not crash: the code never calls `fsync`. On Windows a file
that somebody has open is not replaced, data is written at once, and the file is
moved while it is open: `pc` has one value more.

In `FileReader` a byte is the file it is in and its offset there, so that bytes
of another file, or of another place, are seen. `placed` says that the source
knows where its stream is: it does not after a stream that somebody has read from
is opened without a start, because the code rewinds it only if the start is not 0.

### EntryData with SourceLayers and Codec

A stack of sources is a sequence, the one with the data first. `Command` is what
`zip_source_*` does with one of the layers' callbacks; every other module calls
it. Data is a sequence of cells: a byte, a run of equal bytes in compressed data,
a header of a cipher, an authentication code. Libraries keep what they were given,
may deliver less than is asked for, and report damage. `job` is one `zip_close`
writing one entry, in steps of the copy buffer; `rd` are files open with
`zip_fopen_encrypted`. They share the source of archive 1, `file[1]`, and every
call of one may come between two of the others; a file may be damaged or cut off
on disk at any time.

### BufferSource and HoleSource

`memory` says for each address which block of bytes is there and whether it is the
user's, or that none is (`NULL`; `CORRUPT` after a second free). A `Buffer` has a
sequence of `Fragment`s with their addresses, and the offsets they start at. Every
allocation may fail where the code has one. A call is computed on a record of the
memory and the two buffers, so that one that fails half way leaves what the code
has changed by then. Contents are defined from fragments and memory; `ByteSource`
knows neither, it has the bytes, the positions, and what the last read gave
(`data`). `HoleSource`
keeps fragments that may be holes, and its file; writing the file may fail half
way, and `ByteFile` allows what then happens.

### OpenArchive with Directory and Dirent

A file is a size and records at offsets: local headers, data, descriptors,
central headers, end records. Headers have their real sizes, 32-bit fields the
maximum `MaxWord`, counts the maximum `MaxCount`. `wanted` and `stored` are what
the calls asked for, in the open archive and in the file. `Cut`, `Prefix` and
`Changed` damage the file while it is closed.

### Tools

A process is a record with its program counter `pc`. A script is a list of
command lines, and `disk` the files. `StartTool`, `StartMerge` and `Compare` are
the beginnings of the three programs, `ToolClose` is the `zip_close` the last
two end with: `BeginEntry` reports that the section of the next entry begins,
`WriteBuffer` that a buffer of its data is written (`pc` is `"copying"` then), and
`WriteEntry` ends the turn of the loop; the callback is asked after every
report. How many buffers there are, and how far a source that is longer or
shorter than was thought has got, is open. `Touch` changes or removes, while
ziptool runs, a file that is to be added. `IsProper` says which command lines
there are: ziptool's archive is not written to by anybody else meanwhile, nor by
its own `extract_as`.

## 3. Runs

| run | instance | shows |
|---|---|---|
| `archive` | 2 names and the empty one, up to 3 entries, archives of 0, 1 and 2 files, read-only flag; careful programs | table and entries agree; names are unique in what is stored; every call is a step of `ArchiveStore` |
| `archive_close` | 2 directory names, up to 2 entries, a comment, attributes, all archive flags; every call, in programs that change comments, attributes and the data of one file (`MetadataOnly`) or names and data (`NamesOnly`) | what `zip_close` stores is what was seen before, also after a `zip_close` that failed; a torrentzip archive is in normal form; an archive opened read-only is never written |
| `archive_methods` | as `archive`, up to 2 entries; every call | **violated**: two files of one name are stored |
| `close` | 3 layouts of the archive, up to 2 entries, 1 reader, with and without cloning | what is committed is what was seen |
| `close_retry` | as `close`, up to 3 entries | **violated**: a retried `zip_close` writes stale offsets |
| `source` | 3 sources, 2 archives; the program holds 2 references and has 1 source open at a time | sources are freed when the last owner goes; windows learn that their archive is gone; no open is forgotten; callbacks get commands in the promised order |
| `file_commit` | 2 processes, 2 temporary names, files of 2 parts, 2 inodes created; POSIX and Windows. And 1 source of a name or a stream, 2 readers, 2 files of up to 2 bytes | readers see whole archives; no temporary file is forgotten; writing is atomic; a source reads the part of the file it was made for |
| `hash` | 4 names that collide, sizes 2 to 8 | the chained table implements `NameTable` |
| `entry_data` | files of 0, 2 and 3 bytes in every method and encryption; a second archive; 2 files open at once; copy buffer of 2 cells | readers do not disturb each other; damage is noticed; opens are given back; errors of sources fail `zip_close`, and nothing else does; entries describe their data; copies and readers come to an end |
| `buffer` | user memory in up to 3 fragments, 3 bytes in total, 2 opens, 11 addresses. And the source with holes, with 3 writes | memory has owners and is freed once; the user's is left alone; buffers implement `ByteSource`, holes `ByteFile` |
| `open` | 2 entries, 3 edits, 2 `zip_close`; the largest 32-bit value is 120, the largest count 1 | what is written can be opened and is what was asked for; pieces are refused; damage is detected with `ZIP_CHECKCONS` |
| `tools` | archives of 2 entries, 7 names, up to 3 commands from each of six choices, and up to 4 about an entry that is deleted and comes back (`Revivals`); data of up to 2 buffers; checksums compared modulo 8 | zipcmp's verdict, zipmerge's result and ziptool's archive are right; progress is truthful and cancelling obeyed; who fails leaves the archive as it was; every run ends |

**Bounds.** Three entries are the fewest in which two can exchange names while
a third holds one of them, and in which an entry that is kept, a changed one and
an added one occur together. With two entries `zip_close` has a first, a last
and a cut between them; layouts in the order of the directory, and in the
opposite order with a gap in front, differ in the arithmetic of what may stay, and
a torrentzip archive is written anew.
The sessions of `ZipArchive` are not bounded; `ZipClose` opens the archive once,
its initial states already being every layout it distinguishes. Two
processes are what a race needs; two inodes let each write once, or one write
twice. Two parts are the fewest of which one can be missing.
Three sources make a window on a layer or two windows on one source; with two
archives a window of one can be the data or the file of the other. The table
grows twice and shrinks twice between sizes 2 and 8, and the four names
collide in all, two or one of these sizes.

A file that is read has a first byte, a last one and one between them; the copy
buffer of two cells and a source that gives one or two at a time make reads end
in the middle of a header, of a run and of an authentication code. Two
fragments of the buffer can be shared, cut by a clone, and written across; three
bytes with fragments of two leave one half full. In `open` the real sizes of
headers make one entry fit below the limit of 120 and two exceed it; data of 119
and 121 bytes are on both sides, and an end record fits into 150 bytes of search
only if the comment is small. In `tools` three commands are the fewest with which
a name goes from one entry to another and back, and four those with which an entry is
deleted, given a method, replaced, and its name added; two entries of one name, of a
directory and of a name within it are what the walk of zipcmp distinguishes. With
two buffers a report can be a half, the whole, or more than was announced, and the
next one less.

All bounds are constants or guards that name them (`MaxEntries`, `MaxReaders`,
`MaxSessions`, `MaxInode`, `MaxHeld`, `MaxOpens`, `MaxLength`, `MaxFiles`,
`MaxSize`, `MaxWrites`, `MaxAddress`, `MaxLeft`, `MaxEdits`, `MaxCloses`,
`MaxWord`, `MaxCount`, `MaxBuffers`, `BUFSIZE`).

`file_commit` and `buffer` put two specifications into one run. They share no
state: a behaviour is one of the one or of the other (`part`).

**Fairness.** `Terminates` and `EveryRunEnds` assume it, nothing else does. `Tools`
has weak fairness of `ProgramStep`, because the operating system goes on running
a program and the shell starts the next; nothing is assumed of `Touch`. In
`EntryData` a copy goes on, as the loop of `zip_close` does, and a program that
reads a file reads on until the end or an error; nothing makes it open, seek,
or close anything. That the two formulas are weak fairness is said where they
are defined. All other specifications leave a program free to stop at any time.
Deadlock is checked, except where bounds, sessions or a script come to an end.

**The violations.** `archive_methods` states what man/zip_file_add.mdoc:140-143 says,
that a name that is in the archive is not added again; in its counterexample an entry
is deleted, given a method and new data, and its name is added. `close_retry` states what man/zip_close.mdoc says of a
`zip_close` that fails; its counterexample was reproduced with the library.

## 4. Proofs

TLAPS proves the theorems for all values of the constants that satisfy the
assumptions below: any set of names and contents, any number of entries,
processes, readers, sources, layers, windows, archives, and any number of
sessions, fragments of any size, any contents, any script. All 23 properties that
the runs `archive`, `archive_close`, `close`, `source`,
`file_commit`, `hash` and `buffer` check on small instances are theorems, except
`HoleKeepsBytes`, and two of those of `tools` are; section 4.11 lists the others.

Each proof has the same outline. The property does not follow from itself
before a step, so an invariant `IInv` that does is stated first, as a conjunction
of named parts; there is one lemma for each operator on data, saying what it
preserves; then one lemma for each call, with one step for each part it can
disturb; and a temporal step at the end.

### 4.1 Assumptions and hypotheses

The constants have the assumptions that the modules declare, which TLC evaluates
on every run:

- *values that are none*: NULL, NONE, and `NOSOURCE` stand for null pointers. That
  they differ from every value is `NullAssumption`, `NamesAssumption` of
  `FileCommit`, `ContentsAssumption`, and `StoreAssumption` for what `ArchiveStore`
  shows;
- *kinds of data*: `NamesAssumption` (directory names are names, the empty name is
  not one), `DataAssumption`, `LengthAssumption` (every file has a length in every
  method), `SourcesAssumption`, `KindsAssumption` (a source that can be written can
  seek), `PartsAssumption`;
- *what is found first*: `DiskAssumption` and `FilesAssumption` say that the
  archives that exist at first are archives of the sound kind section 5 describes;
- *the program*: `FlagsAssumption`, nobody can set `IS_TORRENTZIP` from outside,
  which `zip_set_archive_flag` ensures;
- *memory is finite*: `FiniteAssumption`, so that owners can be counted;
- *bounds are numbers*: `BoundAssumption`, `ReaderAssumption`. They are as large as
  one likes; nothing depends on them.
- *memory of the source in memory*: a new fragment is not empty and a buffer that
  is written to has room for one (`SizeAssumption` of `BufferSource`; the code has 64
  KiB and 16); what a user makes a source of are fragments, present or `NULL`,
  that fit into the memory there is, and what is written is bytes
  (`UserAssumption`); blocks, buffers and bytes are none of the values that mark
  their absence (`NullAssumption`). The user's fragments may be empty.
- *the table of names*: the hash is any function from the names to the numbers
  (`HashAssumption`), indices are numbers (`IndicesAssumption`), the smallest and
  the largest size are powers of two, and the two fill percentages are in range
  and in order (`SizeAssumption`). The code's 256, 2^31, 75 and 1
  (`zip_hash.c:42`) are an instance.

- *scripts*: the files that are there at first, and those `Touch` puts there, are
  files that programs write; commands are sequences, and nobody but
  `zip_close` writes to the archive that ziptool has open (`ScenariosAssumption`,
  with `IsProper`). Another program that does so wins or loses as
  `FileCommit` says. `ResultsAssumption`: `NULL` is not one of the results of
  `zip_close`, nor a list of entries.

Some theorems about `ZipArchive` have hypotheses besides:

- *a careful program* (`CarefulSpec`, the caller's side of the contract): it gives no
  method to an entry that it has deleted. `EveryNameIsFound`, `RevertIsPossible`,
  `WrittenNamesAreUnique` and `ArchiveImplementsStore` need it: without it the code
  breaks them (run `archive_methods`; what is reverted is wrong from the session after
  that one on). The others are theorems of `Spec`, in which a program makes any call;
- `InitialNamesUnique`, of the same four: the archive found first has no name twice.
  libzip opens one that does, and keeps the first of the two names; then two
  visible entries share it, and none of the properties is meant;
- `InitialTorrentzipNormalised`, of `TorrentzipStaysNormalised` and
  `StoredIsWhatWasSeen`: an archive found first that says it is a torrentzip archive is in
  normal form. libzip checks the checksum of the comment and believes the rest.

`StoredIsWhatWasSeen` does not speak of a `zip_close` that is to write a torrentzip
archive, nor of entries in which one that failed has left something: it has overwritten the attributes in the changed
directory entries (`zip_close.c:219`, `zip_dirent.c:1389`) without a mark; when the flag
is taken back, the next `zip_close` stores these for some entries and not for others.
The property has this as a premise, `Normalised`, not as an assumption about the
program.

### 4.2 The archive object: `ZipArchiveProofs`

Of every program (`Spec`): types (`TypeCorrect`), that the table leads to no other name
(`OnlyThatNameIsFound`), and read-only archives (`ReadOnlyIsUnchanged`,
`ReadOnlyIsNeverWritten`). Of a careful one (`CarefulSpec`): that the table leads to every
name, forgets none and lets none be written twice (`EveryNameIsFound`,
`RevertIsPossible`, `WrittenNamesAreUnique`).

There are two inductive invariants. `SoundInv` is that of every program: types; what
the table leads to has that name and is in the table under it (`TableSound`); and each
entry is `Sound`, that is, one that is not marked as renamed has its original name,
and a deleted one that was given a method stays marked. `IInv`, for careful
programs, is `TypeOK /\ NamesOK /\ DiskNamesUnique`. Its properties are about entries
that are visible, and are not inductive by themselves: whether a deletion or a
rename can be taken back depends on entries that are not visible and on names that
are not in use. `NamesOK` therefore speaks of all entries: the table leads from a name
to an entry exactly if the entry has that name, from its original name to the
entry it was opened with, and a deleted entry has no changed copy, which is the part
that `zip_set_file_compression` breaks in other programs. `DiskNamesUnique` is part of it
because `Open` builds `NamesOK` from what the last session wrote. `CallKeeps` shows both
for the calls all programs make, `MethodKeeps` what the two others keep.

The proof splits the calls by what they do to the table: calls that change one
entry and no name (`OneEntryStep`), that add one (`NewEntryStep`), rename
(`RenameStep`), delete (`DeleteStep`), take back (`UnchangeStep`,
`UnchangeAllStep`), open and write. `Alike` states what the first kind has in
common, and one lemma for each helper shows that it gives an entry
that is alike. Read-only archives need another invariant, `ReadOnlyInv`, on
top of `SoundInv`.

### 4.3 What is stored: `ZipArchiveProofs`, second part

The theorems about what is in the file need to know what a session makes of the file it opened. `SessionInv` says it:
an entry with an original has that of the file, at the same index
(`SessionOK`); a field of a changed directory entry that is not marked is the
original's (`Seen`, in four parts); the flag that asks for torrentzip is never an
archive's state. The marks are what `zip_close` looks at to decide whether to
write at all, so "nothing is marked, so the file is already what was seen" rests on
it, as does every `zip_close` after one that failed.

- `TorrentzipStaysNormalised`: sorting, dropping comments and setting the attribute
  word are all done on every path that writes the flag.
- `StoredIsWhatWasSeen`: names, data, comments and attributes.
- `ArchiveImplementsStore`: `ZipArchive` implements `ArchiveStore` under the refinement
  mapping `StoredFiles`, `OpenedFiles`, `WorkingFiles`, which forgets the table, the indices and
  the marks, and keeps a file for each name. Every call of a careful program maps to one step of the
  abstract specification, or to none. `InitShown` and `NextShown` are the two
  halves; each kind of call has a lemma about the one name it changes
  (`WorkEdited`). Calls that take everything back map to "begin again"
  (`WorkIsCopy`).

### 4.4 Writing the archive: `ZipCloseProofs`

`CommitStoresWhatWasSeen` is `CommitStoresView`: every entry of what is committed leads to
the data the program saw when it called `zip_close`, whatever the layout, however
much of the file was cloned, copied raw or compressed anew, and however many calls
failed before (except for the failure that `close_retry` shows, after which the
property claims nothing).

`CloseInv` consists of `Typed`; `OriginalsOK`, each original leads to a whole file in the
archive; `EntriesKept`, directory entries between calls have the size of the
data they stand for; and, while `zip_close` runs, `FilelistOK`, `DeflatedOK`
and `ViewOK`. The last is the loop invariant: entries in the list before `j` are done and
lead into the output, those that are cloned lead into its cloned part, those
from `j` on still lead to the old file. The one lemma the rest depends on is about
`FileAt`, which says what a directory entry leads to: more output does not change it,
nor does cutting the old file behind the last entry that stays.

### 4.5 The named file: `FileSourceProofs`

`PlatformSpec` is the POSIX specification or the Windows one, so each
theorem covers both. `FilesInvariant`: inodes that are known are older than the
next one (`InodesAreOld`); no two processes have the same temporary name
(`NamesAreOwn`); until it is renamed, the inode a process writes has no other
name and no other user (`OutputsArePrivate`); what is in it is the beginning of what
the process set out to write (`PlansAreFollowed`); and the mode it will have was put
right before the name is (`ModesArePublic`). The point of it is
`OutputsArePrivate`: an inode that has the archive's name is not written by anybody,
and it takes all the others to be inductive, since it must survive crashes,
clean-ups and renames by other processes between any two system calls. From it
follow `ReadersAlwaysSeeWhole`, `NoTempIsLeft`, and, step by step, `WritingIsAtomic`:
only renaming and unlinking change what `AtomicFile` shows.

`ReaderStaysTogether` and `ReadersGetTheirPart` are about a source that keeps an
offset of its own besides the position of its stream. `Together` says that the two agree
once the stream was positioned and that the offset is not past the end of the
part, for parts of any length of files that grow, shrink and are replaced.

### 4.6 Sources: `ZipSourceProofs`

`SourceInv` is the invariant of a heap with counted references. `Sound(m, h, o)` says
of memory `m`, of `h` owners and `o` openers outside of it: references are the
layers above and the owners (`Owned`), layers stand on sources that exist
(`LayersStand`) and not on themselves (`NoLoops`), a source is open at most as often as
by layers above and openers (`OpensCounted`), callbacks have been told what the
source has counted (`CallbacksTold`), and windows an archive lists exist and know it
(`WindowsKnow`). `SourceInv` has that for the owners and openers there are, which
are the program and the archives, with what a program observes (`ProgramOK`) and the
windows `zip_discard` has still to invalidate.

Stating it for any `h` and `o` is what makes the proof go: a call such as
`zip_discard` is a series of operations, and between two of them there are owners
that no variable shows. Each operation has a lemma (`OpenKeeps`, `CloseKeeps`,
`FreeKeeps`, `RollbackKeeps` and so on) which says how `h` and `o` change;
a call composes them.

Opening, closing and freeing go down the layers, in the code by recursion.
`Reached` is the set of layers a command gets to, defined as the smallest that is
closed, which the provers can reason about where a recursive definition would need
induction: `ReachedIsClosed` and `ReachedIsSmallest` are its two halves, and that it
takes one step at a time (`ReachedUnfolds`) follows from them and `NoLoops`.

### 4.7 The table of names: `ZipHashProofs`

`TableImplementsNames` is `ImplementsNameTable`: under the mapping that gives for each
name what a lookup finds, every operation is one step of `NameTable`, or none, as
long as no change of the size has failed. The invariant `TableInv` says that every
node is in the bucket of its hash value and no name has two (`Holds`, `IsTable`); that
`nentries` is the number of nodes, on which lookups rely, since they do not
search a table that counts none; and that each node has an index, so that a node is
found exactly if the map has its name.

The proof goes from sequences to sets. The operations build chains: by moving
every node (`Moved`), by leaving nodes out (`RevertedChain`), by taking one out or
changing one. One lemma for each says which nodes the new chain has and that no
name is there twice (`MovedIs`, `ChainReverted`, `ChainUnlinked`, `ChainUpdated`); the
model states the first two with `FlattenSeq`, so that all recursion is in one lemma,
`FlattenIs`. `ResizedIs`, `NodeInserted`, `NodeUpdated`, `NodeRemoved` and
`NodesReverted` carry this to the set of nodes of the whole table, where its size
no longer matters, and `MapOfAdded` to `MapOfReverted` from a set of nodes to the map of
names. `FlattenIs` is a proof by the first counterexample, as the provers cannot use
the library's induction theorems: `NatHasLeast` comes from its facts about
well-founded relations, `StepByStep` and `StepsExist` from that.

### 4.8 The source in memory: `BufferSourceProofs`

`MemoryAlwaysOwned`, `UserMemoryStays` and `BufferIsByteSource` state the three
properties of the run; `BuffersFitTogether` is the invariant they rest on. It has
three parts.

`States` relates `write_state`, the open count and which of the two buffers there are.

`Owned` says of any memory and any two buffers, one of which may be missing: each is
laid out (`Laid`: no fragment is empty, and the offsets are the sums of the lengths),
positioned (`Placed`: `current` is the fragment the offset is in or at the end of)
and backed (`Backed`: each fragment has a block of its own that is as long, and
`free_data` says whose it is); they share only in fragments of one number, and only
if both know (`Sharing`); and every block that is not free is held by one of them, or is
the user's to free. Stating it for arguments lets the lemmas speak of the moments
within a call, when a fragment is copied or the writer is freed and
the variables have not changed yet.

`Borrowed` says that the writer has the user's memory only in fragments it shares with the
readers. It is why nothing is written there: the writer copies what is shared
before it writes. It needs `Sharing` and the equal numbers to be inductive, because
`buffer_is_fragment_shared` compares only fragments of one number, and because
a commit makes the writer's buffer the readers'.

What a call does to bytes is a matter of loops, and there is one predicate for
each. `FindFragment` narrows a range; that the fragment it ends at is the one
that looking from `current` on finds (`IsAt`, `Advanced`) follows from the offsets growing
strictly. `buffer_write` makes room, copies the shared fragments it reaches, and
fills one fragment after the other: `Rewritten` says what has become of each place
when the bytes up to some place are written, `HasWritten` adds what the readers and
the user are left with, and `WrittenPart` relates it to a buffer that ends behind
what was written. Every loop is proved by `StepByStep`: what holds before
the first turn and passes from one turn to the next holds after each, itself
proved by the first turn that would not.

For `ByteSource` a write replaces bytes from an offset on: `OverwrittenIs` says which
byte of the concatenation is whose, and is compared with `Rewritten` place by place.
A write that runs out of memory in the middle has replaced some of the bytes there
were and added none (`WriteFails`), because the size changes last.

### 4.9 The programs: `ToolsProofs`

`ProgressIsTrue` is about everything that a callback is told while ziptool closes
its archive: reports begin at 0 and only grow, are never ahead of the entries that
are written and the one that is being written, and have reached the whole when the
archive has been written; and a callback that says stop is obeyed, with nothing changed on disk.
`ArchivesAreLeft` is about programs that fail, by whatever failed. Both are for any
number of entries, any commands, any limit of the callback and any number of
buffers.

The invariant `IInv` has what a process of each program keeps (`ToolRuns`,
`MergeRuns`), and in it `Truthful`: what was reported as `last` and the section
(`start`, `end`) as numbers, compared with the entries that are begun (`Begun`).
Between two entries the last report is not past the share of the entries
written; within the section of one (`InSection`) it is not past the end of that
section. `last` is what `_zip_progress_update` compares a report with, and is set
nowhere else, so sections need not follow each other exactly; what they must do is
end in time (`SectionDone`), and the last of them, and `_zip_progress_end`, at
the whole (`SubrangeIs`, `EndIs`, `WholeAtMost`). The shares are quotients: `PartIs` and
`LimitsAre` bound j/n and (j+1)/n of the whole after rounding, for any n.
`AnswersAreTruthful` is the one place where the answer of a callback matters: the
process goes on below the limit, or is cancelled at or past it.

One lemma for each command of ziptool says that it leaves the invariant
(`CommandIs` for what all of them keep, `EditsAre` for those that edit one entry), one
for each step of `zip_close`, for ziptool and zipmerge apart. That the list of
entries to write is a sequence of indices (`FilelistIs`) is `FlattenIs` again.

### 4.10 Where the theorems are

| module | theorems that runs check as properties |
|---|---|
| `ZipArchiveProofs` | `LocateFindsEveryName`, `LocateFindsOnlyThatName`, `RevertGivesOpenedNames`, `DiskNamesUnique`, `ReadOnlyArchiveNeverWritten`, `TypeOK`, `TorrentzipIsNormalised`, `CloseStoresWhatWasSeen`, `ImplementsStore` |
| `ZipCloseProofs` | `CommitStoresView` |
| `FileSourceProofs` | `ReadersSeeWhole`, `NoTempLeft`, `ImplementsAtomicFile`, `SourceReadsItsPart` |
| `ZipHashProofs` | `ImplementsNameTable` |
| `ZipSourceProofs` | `RefcountIsAccurate`, `NoDanglingSource`, `NoOpenIsForgotten`, `CallingConventions` |
| `BufferSourceProofs` | `MemoryIsOwned`, `UserMemoryUntouched`, `ImplementsByteSource` |
| `ToolsProofs` | `ProgressTellsTheTruth`, `FailuresLeaveArchives` |

### 4.11 Only model-checked

- All of `EntryData` and `OpenArchive`: their layers, headers and directories are
  recursive operators, for which the SMT backend is not available.
- `HoleKeepsBytes`, and of the programs `VerdictIsRight`, `MergeIsComplete` and
  `ZiptoolObeys`: what fragments, walks of zipcmp and lists of commands come to is
  known by induction over data, and each would need a proof like that of the
  source in memory.
- Liveness: `Terminates` and `EveryRunEnds`.

No run checks the `TypeOK` of `FileCommit`, `ZipClose`, `ZipSource` and `ZipHash`. That of
`FileCommit` is proved (`TypesCorrect`); `CloseInv` has the types of `ZipClose` in
`Typed` and `FilelistOK`; `SourceInv` those of `ZipSource`, where the bounds of `held`
and `opened` are guards; `TableInv` has that chains are sequences of nodes.

## 5. What the models assume and leave out

- *Archives that are opened* by `ZipClose` and `ZipArchive` are sound: no entry
  points to garbage or overlaps another, no name occurs twice. `OpenArchive`
  opens what libzip itself has written, whole, cut off, moved, or with one number
  changed, and edits only what is undamaged.
- *Failed attempts.* After a failed `zip_close` that leaves stale directory
  entries, `CommitStoresView` claims nothing; `close_retry` shows why.
- *Sources of added data* deliver raw data of known length in `ZipClose`;
  `EntryData` has those of unknown length, short reads and failures.
- *Callbacks* of sources succeed in `ZipSource`, except where a commit, a removal
  or opening an archive fails. An open that fails has closed what it opened below.
- *Temporary names.* Of 36^6 names, none is drawn that another process still
  remembers after its file is gone.
- *Memory.* Running out of it is modelled in `ZipHash` and `BufferSource`, where
  it has lasting effects; elsewhere it is one of the ways in which a call fails.
  The allocations of the source with holes succeed.
- *Libraries.* Compression and ciphers keep data apart, notice damage when their
  own check does, and a wrong password passes a cipher's short check only if it
  is one of `Lucky`. A changed cell changes the checksum.
- *Programs.* Archives are not encrypted and not torrentzipped in `Tools`, their
  sources cannot clone, and output is counted, not printed.
- *Composition.* `ZipClose`, `EntryData`, `OpenArchive` and `ToolClose` each have
  one aspect of `zip_close` and abstract the others.
- *Not modelled:* memory buffers (`zip_buffer.c`: sequences take their place),
  error texts, cryptography back ends, tables of code points, how random numbers
  are obtained, the spellings of Windows file names, commands that only print,
  zipsh, portability, `zip_fdopen`.

### Faults that properties leave out

Each was met in the code while it was modelled; the models have it, and the
property named leaves out the case and nothing more.

| where | what | left out of |
|---|---|---|
| `zip_dirent.c:976` | a size or offset of exactly 0xFFFFFFFF gets an empty Zip64 field, which `_zip_dirent_read` refuses | `OwnArchivesOpen` (`EmptyZip64`) |
| `zip_open.c:539` | a descriptor is as wide as its entry needs, and read as wide as the archive is: `ZIP_CHECKCONS` refuses such an archive of libzip's own | `OwnArchivesOpen` (`OddDescriptor`) |
| `zip_string.c` | a name declared to be CP437 whose bytes are valid UTF-8 is read back as UTF-8 | `ArchiveIsAsEdited` (`SameString`) |
| `zip_source_winzip_aes_encode.c:155`, `zip_source_pkware_encode.c:172` | a source that fails in the middle of a read ends the encrypted entry, and `zip_close` succeeds | sources that fail are not encrypted in `entry_data` |
| `zip_stat_index.c:66` | the method asked for is taken for the method of the source: added data cannot be read | `ReadersUndisturbed` (`ChangedFails`) |
| `zip_source_zip_new.c` | encrypted data that is read raw is checked against the checksum of the plain data; an empty compressed file has no raw data; AE-2 entries cannot be copied raw | `RawFails`, `RawCopyFails` |
| `zip_source_file_common.c:275` | a stream is rewound when it is opened again only if its start is not 0; a file that shrank is read short, and one that was empty without limit, against man/zip_source_file.mdoc:58-73 | `SourceReadsItsPart` (`placed`, which is also false from a seek that failed to the next one) |
| `zip_close.c:219` | a torrentzip `zip_close` that fails has already overwritten attributes in memory, without marks (`zip_dirent.c:1389`) | `CloseStoresWhatWasSeen` (`Normalised`) |
| `zip_set_file_compression.c:67`, `zip_file_set_encryption.c:66` | a deleted entry that is given a method is visible again without being in the table, and its name can be given away before it is brought back by `zip_file_replace` | `LocateFindsEveryName`, `RevertGivesOpenedNames`, `DiskNamesUnique`, `ImplementsStore` (`CarefulSpec`), the unique names of `ZiptoolObeys` (`MethodOfDeleted`) |
| `zip_source_open.c:70` | a source of added data that a file of the archive has open is read by `zip_close` from where it is | no model composes the two |
| `zip_progress.c:84` | the end of the progress of an archive without entries is computed from fields nobody has set | `ProgressTellsTheTruth` |
| `src/zipcmp.c:877` | checksums are compared by their difference as an int | `VerdictIsRight` (`InCycle`) |
| `src/zipcmp.c:904` | a second entry of one directory counts as something in it; with -T a directory on disk differs from its entry | `VerdictIsRight` (`DirectoriesMisjudged`) |

Others are in the models and contradict no property stated here:
`zip_unchange_all` keeps added entries; `zip_get_archive_comment` shows a comment
that was removed; a failed commit or removal leaves the archive without an open
source; `_zip_hash_add` and `_zip_hash_delete` change the table before an
allocation fails; an entry that was stored without a name stays in the table under
the empty name after it is renamed; a table that is reserved for fewer than 97
entries is smaller than `HASH_MIN_SIZE`; `zip_dir_add` with overwrite deletes an
existing directory when the torrentzip flag refuses its attributes; a source that
is not an archive is closed twice when it is opened as one;
`zip_source_begin_write` is accepted after a failed commit, where a comment in
`zipint.h` allows only a rollback; `zip_file_extra_field_set` for both lists has
changed the local one when the central one fails; zipmerge's `-s` and `-S` do
nothing without `-i`; ziptool writes the archive although a command failed; the
source with holes does not write zeros over data.

Outside the models: `zip_close` copies raw data from where the archive's source
stands, and a progress callback that reads a file moves it (`zip_close.c:660`);
`mtime_before_copy` is compared although it may not have been set
(`zip_close.c:594`); an estimate near 4 GiB that turns out wrong ends in
`ZIP_ER_INTERNAL` (`zip_close.c:614`).

## 6. Plan

Done, in this order: the archive object and its proofs, `zip_close`, the named
file source, the table of names, sources; then layers and the data of entries, the
buffer source, headers, directory and `zip_open`, extra fields and strings, the
programs and progress, Windows, reading files, the source with holes; then the
proofs of the archive object, `zip_close`, files, sources, the table of names,
the source in memory, and the progress and failures of the programs.

What recursion over a sequence computes can be proved without an induction
theorem: by the smallest set that is closed, as `Reached` is, or by the first
counterexample, as in `FlattenIs` and `StepByStep`. The same would do for
`HoleSource`, whose fragments are like those of `BufferSource`, and for `ZiptoolObeys`
and zipcmp, whose commands and walks are folds; `EntryData` and `OpenArchive` would have to be written without
recursive operators first.

To model, if there is reason to: a composition of `ZipClose` with the positions
of `EntryData`, for callbacks that read while raw data is copied; `zip_fdopen`.
