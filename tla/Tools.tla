------------------------------- MODULE Tools --------------------------------
(***************************************************************************)
(* A user runs zipcmp, zipmerge and ziptool one after the other, each on   *)
(* what the ones before left on disk, while another program may write to a *)
(* file that ziptool reads.                                                *)
(***************************************************************************)
EXTENDS ZipCmp, ZipMerge, ZipTool

CONSTANT Scenarios  \* [disk, lines]: the files there are and the command lines

\* A file as programs write it.
IsFile(f) == IsZip(f) => f.entries \in Seq(Range(f.entries))

\* The path of the archive that ziptool works on.
ArchivePath(line) == IF line.memory THEN Memory ELSE line.path

\* A line for the files there are.  Nobody but zip_close writes to the archive
\* while ziptool has it open.
IsProper(line, paths) ==
    line.program = "ziptool" =>
        /\ {line.path, ArchivePath(line)} \subseteq paths
        /\ line.touch # NULL => line.touch.path # ArchivePath(line) /\ IsFile(line.touch.file)
        /\ line.commands \in Seq(Range(line.commands))
        /\ \A c \in Range(line.commands) :
            /\ c.cmd = "extract_as" => c.path # ArchivePath(line)
            /\ c.cmd = "cancel" => c.limit \in Int

ASSUME ScenariosAssumption ==
    \A s \in Scenarios :
        /\ \A path \in DOMAIN s.disk : IsFile(s.disk[path])
        /\ s.lines \in Seq(Range(s.lines))
        /\ \A line \in Range(s.lines) : IsProper(line, DOMAIN s.disk)

Init ==
    /\ \E s \in Scenarios : disk = s.disk /\ script = s.lines
    /\ proc = NULL

\* A program has ended; the next line is run.
Reap ==
    /\ proc # NULL /\ proc.pc = "exited"
    /\ proc' = NULL
    /\ script' = Tail(script)
    /\ UNCHANGED disk

\* The file that the line names gets other contents while ziptool runs.
Touch ==
    /\ proc # NULL /\ proc.program = "ziptool" /\ proc.pc # "exited"
    /\ proc.line.touch # NULL
    /\ disk' = [disk EXCEPT ![proc.line.touch.path] = proc.line.touch.file]
    /\ UNCHANGED <<script, proc>>

ProgramStep == CmpStep \/ MergeStep \/ ToolStep \/ CloseStep \/ Reap

Next == ProgramStep \/ Touch

\* The operating system goes on running the program and the shell.
Spec == Init /\ [][Next]_vars /\ WF_vars(ProgramStep)

\* Every program that is run ends: no loop over entries, sources, commands or
\* names goes on for ever, whatever fails on the way (main of the programs).
EveryRunEnds == <>(script = <<>>)

\* A program that does not get its archive written leaves it: a merge that exits
\* with status 1 has changed no file at all, and where ziptool could not open the
\* archive, zip_close failed or a callback cancelled it, the archive, in a file or
\* in memory, is as the file was, and the exit status is 1 (zip_close, and main of
\* zipmerge.c and ziptool.c).
FailuresLeaveArchives ==
    proc # NULL /\ proc.pc = "exited" =>
        /\ proc.program = "zipmerge" /\ proc.status = 1 => disk = proc.before
        /\ proc.program = "ziptool" /\ proc.closed \in {NULL, "failed", "cancelled"} =>
             disk[proc.path] = proc.before[proc.line.path] /\ proc.status = 1
=============================================================================
