------------------------------ MODULE ZipTool -------------------------------
(***************************************************************************)
(* ziptool opens an archive, carries out one command after the other, and  *)
(* closes the archive; ziptool_regress knows some more commands.  The      *)
(* first command that fails is the last: the archive is closed all the     *)
(* same.  A line of the script is [program, path, flags, commands]; a      *)
(* command has its name as cmd and its arguments as further fields.  An    *)
(* index counts from 1 here.  Commands that only print are Looks.          *)
(* With -m ziptool_regress works on a copy of the file in memory, which    *)
(* disk[Memory] is, and writes it back at the end.                         *)
(***************************************************************************)
EXTENDS ToolClose

CONSTANT Memory

Running(cmd) ==
    /\ proc # NULL /\ proc.program = "ziptool" /\ proc.pc = "commands"
    /\ proc.commands # <<>>
    /\ Head(proc.commands).cmd = cmd

Args == Head(proc.commands)

\* dispatch: the command is done, or it has failed and no other is tried.
\* FailAgain is a faulty variant.
Done(p) == [p EXCEPT !.commands = Tail(@), !.done = Append(@, Args)]
FailAgain(p) == [p EXCEPT !.err = 1]
Fail(p) == [p EXCEPT !.commands = <<>>, !.err = 1]

\* A command that changes the archive, or fails to.
Change(za) == proc' = IF za = NULL THEN Fail(proc) ELSE Done([proc EXCEPT !.za = za])

StaysOnDisk == UNCHANGED <<disk, script>>

\* read_to_memory: a missing file makes an empty buffer, which is accepted as
\* an archive and is there already.
OpensBuffer(f, flags) ==
    "EXCL" \notin flags /\ (f = NoFile \/ "TRUNCATE" \in flags \/ CanOpen(f, flags))

\* main: without any flag the archive may be created.
StartTool ==
    /\ proc = NULL /\ script # <<>>
    /\ LET line == Head(script)
           flags == IF line.flags = {} THEN {"CREATE"} ELSE line.flags
           f == disk[line.path]
           opens == IF line.memory THEN OpensBuffer(f, flags) ELSE CanOpen(f, flags)
           p == [program |-> "ziptool", line |-> line, before |-> disk,
                 path |-> IF line.memory THEN Memory ELSE line.path,
                 pc |-> "exited", status |-> 1, err |-> 0, za |-> NULL,
                 commands |-> line.commands, done |-> <<>>,
                 z_in |-> <<>>, z_in_count |-> 0, isOpen |-> <<>>,
                 progress |-> NULL, left |-> NULL, out |-> <<>>, closed |-> NULL]
       IN /\ line.program = "ziptool"
          /\ proc' = IF opens THEN [p EXCEPT !.pc = "commands",
                                             !.za = OpenedZip(f, "TRUNCATE" \in flags)]
                     ELSE p
          /\ disk' = IF line.memory THEN [disk EXCEPT ![Memory] = f] ELSE disk
    /\ UNCHANGED script

\* add, add_nul, and add_dir, which adds an empty file.
AddData ==
    /\ Running("add")
    /\ Change(FileAdd(proc.za, Args.name, [kind |-> "data", data |-> Args.data]))
    /\ StaysOnDisk

\* add_file
AddFile ==
    /\ Running("add_file")
    /\ LET source == FileSource(Args.path, Args.start, Args.length)
       IN Change(IF source = NULL THEN NULL ELSE FileAdd(proc.za, Args.name, source))
    /\ StaysOnDisk

\* add_from_zip: the archive stays open until ziptool ends.  All of an entry is
\* taken as it is stored.
AddFromZip ==
    /\ Running("add_from_zip")
    /\ LET f == disk[Args.path]
           input == Len(proc.isOpen) + 1
           whole == Args.start = 0 /\ Args.length = -1
           source == IF ~CanOpen(f, {"CHECKCONS"}) THEN NULL
                     ELSE ZipSource(input, f.entries, Args.index, whole, Args.start, Args.length)
           za == IF source = NULL THEN NULL ELSE FileAdd(proc.za, Args.name, source)
       IN proc' = IF za = NULL THEN Fail(proc)
                  ELSE Done([proc EXCEPT !.za = za, !.z_in_count = @ + 1,
                                         !.z_in = Append(SubSeq(@, 1, proc.z_in_count), input),
                                         !.isOpen = Append(@, TRUE)])
    /\ StaysOnDisk

\* replace_file_contents
ReplaceContents ==
    /\ Running("replace_file_contents")
    /\ Change(FileReplace(proc.za, Args.index, [kind |-> "data", data |-> Args.data]))
    /\ StaysOnDisk

DeleteFile == Running("delete") /\ Change(Delete(proc.za, Args.index)) /\ StaysOnDisk

\* zrename
Rename == Running("rename") /\ Change(FileRename(proc.za, Args.index, Args.name)) /\ StaysOnDisk

UnchangeOne == Running("unchange") /\ Change(Unchange(proc.za, Args.index)) /\ StaysOnDisk

UnchangeEverything == Running("unchange_all") /\ Change(UnchangeAll(proc.za)) /\ StaysOnDisk

SetFileComment ==
    /\ Running("set_file_comment")
    /\ Change(SetComment(proc.za, Args.index, Args.comment))
    /\ StaysOnDisk

SetZipComment ==
    /\ Running("set_archive_comment")
    /\ Change(SetArchiveComment(proc.za, Args.comment))
    /\ StaysOnDisk

\* set_archive_flag of the two flags that are modelled, with
\* zip_set_archive_flag: an archive with changes cannot become read-only.
SetFlag ==
    /\ Running("set_archive_flag")
    /\ Change(IF Args.flag = "keep" THEN [proc.za EXCEPT !.keep = Args.value]
              ELSE IF Args.value /\ ~proc.za.rdonly /\ Changed(proc.za) THEN NULL
              ELSE [proc.za EXCEPT !.rdonly = Args.value])
    /\ StaysOnDisk

\* set_extra with index 65535, and delete_extra
SetExtra == Running("set_extra") /\ Change(AddField(proc.za, Args.index, Args.field)) /\ StaysOnDisk

DeleteExtra ==
    /\ Running("delete_extra")
    /\ Change(DeleteField(proc.za, Args.index, Args.field))
    /\ StaysOnDisk

SetMethod ==
    /\ Running("set_file_compression")
    /\ Change(SetCompression(proc.za, Args.index, Args.method))
    /\ StaysOnDisk

\* set_file_mtime, set_file_dostime
SetMtime == Running("set_file_mtime") /\ Change(SetTime(proc.za, Args.index, Args.mtime)) /\ StaysOnDisk

\* set_file_mtime_all: entries in front of one that is deleted get the time.
SetMtimeAll ==
    /\ Running("set_file_mtime_all")
    /\ LET za == proc.za
           gone == Indices(za) \ Visible(za)
           last == IF za.rdonly THEN 0 ELSE IF gone = {} THEN Len(za.entries) ELSE Min(gone) - 1
           e(i) == za.entries[i]
           set == [i \in Indices(za) |-> IF i <= last THEN Timed(e(i), Args.mtime) ELSE e(i)]
           p == [proc EXCEPT !.za = [za EXCEPT !.entries = set]]
       IN proc' = IF last = Len(za.entries) THEN Done(p) ELSE Fail(p)
    /\ StaysOnDisk

\* cancel, which also does what print_progress does; for that alone the limit
\* is more than the whole.
WatchProgress ==
    /\ Running("cancel")
    /\ proc' = Done([proc EXCEPT !.progress = [Progress!NewProgress EXCEPT !.limit = Args.limit]])
    /\ StaysOnDisk

\* stat, get_file_comment, count_extra, get_extra: there has to be the entry.
Look ==
    /\ Running("stat")
    /\ Change(IF Args.index \in Visible(proc.za) THEN proc.za ELSE NULL)
    /\ StaysOnDisk

\* The data that zip_source_zip_file_create finds for entry i now, and the
\* checksum it is held against if it is read as a whole; NULL if there is none.
\* New data is read as if it were stored with the method chosen for it already.
Contents(i) ==
    LET e == proc.za.entries[i]
        stored == proc.za.opened[e.orig]
        given == ReadSource(e.source, disk, proc.isOpen)
    IN IF i \notin Indices(proc.za) THEN NULL
       ELSE IF e.source = NULL
              THEN IF e.deleted \/ e.orig = 0 THEN NULL ELSE [data |-> stored.data, crc |-> stored.crc]
       ELSE IF given = NULL THEN NULL
       ELSE IF e.method \notin {"default", given.method} THEN NULL
       ELSE [data |-> given.data, crc |-> IF given.crc = NULL THEN Crc[given.data] ELSE given.crc]

\* cat_impl: a length of 0 stands for the size of the entry.
Readable(i, start, length) ==
    LET c == Contents(i)
        size == Len(c.data)
        asked == CASE length = 0 -> size [] length = -1 -> size - start [] OTHER -> length
    IN /\ c # NULL
       /\ start <= size /\ start + asked <= size
       /\ asked < size \/ c.crc = Crc[c.data]

\* cat, cat_partial
Cat ==
    /\ Running("cat")
    /\ Change(IF Readable(Args.index, Args.start, Args.length) THEN proc.za ELSE NULL)
    /\ StaysOnDisk

\* extract_as: the file is made, or emptied, before there is anything to write.
ExtractAs ==
    /\ Running("extract_as")
    /\ LET c == Contents(Args.index)
       IN disk' = [disk EXCEPT ![Args.path] =
                     [kind |-> "file", data |-> IF c = NULL THEN <<>> ELSE c.data, mtime |-> Now]]
    /\ proc' = IF Readable(Args.index, 0, -1) THEN Done(proc) ELSE Fail(proc)
    /\ UNCHANGED script

\* zin_close: what is read from the archive later fails.  The slot gets what is
\* behind the last one, which is nothing: an archive in a later slot is closed
\* never, and main finds no archive in this one if it was not the last.
ZinClose ==
    /\ Running("zin_close")
    /\ LET at == Args.index
       IN proc' = IF at > proc.z_in_count THEN Fail(proc)
                  ELSE Done([proc EXCEPT !.isOpen[proc.z_in[at]] = FALSE, !.z_in[at] = 0,
                                         !.z_in_count = @ - 1])
    /\ StaysOnDisk

\* main: no command is left.
CloseAll ==
    /\ proc # NULL /\ proc.program = "ziptool" /\ proc.pc = "commands"
    /\ proc.commands = <<>>
    /\ proc' = [proc EXCEPT !.pc = "closing"]
    /\ StaysOnDisk

\* write_memory_src_to_file: [file, ok].  Nothing can be written of an empty
\* buffer, and the file is emptied before it is written.
WriteBacks ==
    LET f == disk[Memory]
        emptied == [kind |-> "file", data |-> <<>>, mtime |-> Now]
    IN IF proc.closed = "removed" /\ f = NoFile /\ (proc.za.truncate \/ Changed(proc.za))
         THEN {[file |-> NoFile, ok |-> TRUE]}
       ELSE IF f = NoFile THEN {[file |-> emptied, ok |-> FALSE]}
       ELSE {[file |-> f, ok |-> TRUE], [file |-> emptied, ok |-> FALSE]}

\* main, after zip_close: closing an archive that is not there is an error.
ExitTool ==
    /\ proc # NULL /\ proc.program = "ziptool" /\ proc.pc = "closed"
    /\ LET empty == \E i \in 1..proc.z_in_count : proc.z_in[i] = 0
           exit(ok) == [proc EXCEPT !.pc = "exited",
                                    !.status = IF ok /\ ~empty THEN proc.err ELSE 1]
       IN \/ /\ proc.closed \in {"failed", "cancelled"} \/ ~proc.line.memory
             /\ proc' = exit(proc.closed \notin {"failed", "cancelled"})
             /\ UNCHANGED disk
          \/ /\ proc.closed \notin {"failed", "cancelled"} /\ proc.line.memory
             /\ \E back \in WriteBacks : /\ disk' = [disk EXCEPT ![proc.line.path] = back.file]
                                         /\ proc' = exit(back.ok)
    /\ UNCHANGED script

ToolStep ==
    \/ StartTool \/ CloseAll \/ ExitTool
    \/ AddData \/ AddFile \/ AddFromZip \/ ReplaceContents \/ DeleteFile \/ Rename
    \/ UnchangeOne \/ UnchangeEverything
    \/ SetFileComment \/ SetZipComment \/ SetFlag \/ SetExtra \/ DeleteExtra
    \/ SetMethod \/ SetMtime \/ SetMtimeAll
    \/ WatchProgress \/ Look \/ Cat \/ ExtractAs \/ ZinClose

(***************************************************************************)
(* Properties.                                                             *)
(***************************************************************************)

\* The entries of an archive as a user counts them: by index, with what the
\* commands that were done have made of them.
Entries(opened) ==
    [i \in DOMAIN opened |-> [name |-> opened[i].name, data |-> opened[i].data,
                              comment |-> opened[i].comment, gone |-> FALSE]]

Obeyed(opened, slots, c, files) ==
    LET new(data) == Append(slots, [name |-> c.name, data |-> data, comment |-> NULL, gone |-> FALSE])
        reverted(i) == IF i \in DOMAIN opened THEN Entries(opened)[i]
                       ELSE [name |-> NULL, data |-> <<>>, comment |-> NULL, gone |-> TRUE]
        part(data) == Piece(data, c.start, IF c.length = 0 THEN -1 ELSE c.length)
    IN CASE c.cmd = "add" -> new(c.data)
         [] c.cmd = "add_file" -> new(part(files[c.path].data))
         [] c.cmd = "add_from_zip" ->
              new(Piece(proc.before[c.path].entries[c.index].data, c.start, c.length))
         [] c.cmd = "replace_file_contents" ->
              [slots EXCEPT ![c.index].data = c.data, ![c.index].gone = FALSE]
         [] c.cmd = "delete" -> [slots EXCEPT ![c.index] = [reverted(c.index) EXCEPT !.gone = TRUE]]
         [] c.cmd = "rename" -> [slots EXCEPT ![c.index].name = c.name]
         [] c.cmd = "set_file_comment" -> [slots EXCEPT ![c.index].comment = c.comment]
         [] c.cmd = "unchange" -> [slots EXCEPT ![c.index] = reverted(c.index)]
         [] c.cmd = "unchange_all" -> [i \in DOMAIN slots |-> reverted(i)]
         [] OTHER -> slots

\* What is in the archive after the commands that were done, with the contents
\* that files have in the end or had in the beginning.
Obedient(files) ==
    LET opened == proc.za.opened
        slots == FoldLeft(LAMBDA s, c : Obeyed(opened, s, c, files), Entries(opened), proc.done)
    IN SelectSeq(slots, LAMBDA s : ~s.gone)

\* A method was chosen for an entry that had been deleted, which libzip does not
\* refuse, and nothing had brought the entry back in between.
MethodOfDeleted ==
    LET of(k, cmd, i) == proc.done[k].cmd = cmd /\ proc.done[k].index = i
    IN \E j, k \in DOMAIN proc.done :
          /\ j < k
          /\ proc.done[k].cmd = "set_file_compression"
          /\ of(j, "delete", proc.done[k].index)
          /\ \A between \in j..k :
                /\ proc.done[between].cmd # "unchange_all"
                /\ ~of(between, "unchange", proc.done[k].index)

InArchive(f) == IF f = NoFile THEN <<>> ELSE Entries(f.entries)

\* When ziptool ends, the archive is as it was, because it could not be opened
\* or closed, or every command that came before the first failing one is in it,
\* in whatever order entries were renamed, deleted, given a method, replaced and
\* unchanged (dispatch, zip_close), with the data they were given, even if that
\* is read from other archives and files only in the end.  Each name is there
\* once, unless a method was set for a deleted entry: replacing the data of that
\* one brings it back beside another of its name.  The exit status is 0
\* only if no command failed.
ZiptoolObeys ==
    proc # NULL /\ proc.program = "ziptool" /\ proc.pc = "exited" /\ ~proc.line.memory =>
        LET f == disk[proc.path]
            stored == InArchive(f)
        IN IF proc.za = NULL \/ proc.closed \in {"failed", "cancelled"}
             THEN f = proc.before[proc.path] /\ proc.status = 1
           ELSE /\ stored = Obedient(proc.before) \/ stored = Obedient(disk)
                /\ MethodOfDeleted \/ IsInjective([i \in DOMAIN stored |-> stored[i].name])
                /\ proc.status = 0 => proc.done = proc.line.commands

\* The progress that is reported begins at 0, only grows and is never ahead of
\* the entries that are written and the one that is being written; when the
\* archive has been written it has reached the whole.  A callback that says stop
\* is obeyed: nothing is changed on disk, and no archive is written after it said
\* so (_zip_progress_update, zip_close).  This is so whatever the other callback
\* limits, as long as there are entries.
ProgressTellsTheTruth ==
    proc # NULL /\ proc.program = "ziptool" /\ proc.left # NULL =>
        LET pr == proc.progress
            shown == pr.shown
            n == Len(proc.left) + Len(proc.out)
            begun == IF proc.pc = "closing" \/ proc.left = <<>> THEN Len(proc.out)
                     ELSE Len(proc.out) + 1
        IN pr # NULL /\ n > 0 =>
             /\ shown # <<>> => Head(shown) = 0
             /\ \A i, j \in DOMAIN shown : i < j => shown[i] < shown[j]
             /\ Progress!Reported(pr) * n <= begun * Progress!Whole
             /\ proc.closed = "written" => Progress!Reported(pr) = Progress!Whole
             /\ proc.closed = "cancelled" => /\ Progress!Cancels(pr)
                                             /\ disk[proc.path] = proc.before[proc.line.path]
             /\ \A i \in DOMAIN shown : shown[i] >= pr.limit =>
                  proc.closed = "cancelled" \/ proc.left = <<>>
=============================================================================
