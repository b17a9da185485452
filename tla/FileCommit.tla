----------------------------- MODULE FileCommit -----------------------------
(***************************************************************************)
(* How a source that is a named file is written (zip_source_file_common.c  *)
(* and zip_source_file_stdio_named.c): into a temporary file beside it,    *)
(* which is renamed over the file by COMMIT_WRITE and removed by           *)
(* ROLLBACK_WRITE.  Several processes do so with one archive, each step    *)
(* may fail, and a process may die between any two system calls.           *)
(*                                                                         *)
(* A file has Parts parts.  Part k of what a process writes is the number  *)
(* of its temporary file, or, when it has cloned the beginning of the      *)
(* archive, the first part of the archive that it opened.  The system      *)
(* itself does not crash: the code never calls fsync.                      *)
(***************************************************************************)
EXTENDS Integers, Sequences

CONSTANTS
    Processes,
    Temps,      \* names that create_temp_file makes up
    Archive,    \* ctx->fname
    Parts,      \* the number of parts of a file
    MaxInode,   \* bound on the number of files ever created
    NONE

ASSUME NamesAssumption == Archive \notin Temps /\ NONE \notin Temps /\ NONE \notin Int

ASSUME PartsAssumption == Parts \in Nat \ {0} /\ MaxInode \in Nat

FileNames == {Archive} \cup Temps
Inodes == 0..MaxInode

\* All that a file may have in the end.
Contents == [1..Parts -> Inodes]

ASSUME ContentsAssumption == NONE \notin Contents

VARIABLES
    dir,      \* the inode that a name has, NONE for no file
    data,     \* the parts that are in each inode
    mode,     \* its permission bits
    next,     \* the next inode
    whole,    \* everything that somebody set out to write, and the first archive
    orphans,  \* temporary files of processes that died
    pc,       \* where each process is
    f,        \* the inode each process has open for reading
    tmpname, out,  \* its temporary file: name and inode
    buffer,   \* what it has written that stdio still holds
    plan,     \* what it is about to write
    created   \* ctx->temp_output_created

fileSystem == <<dir, data, mode, next, whole, orphans>>
local == <<f, tmpname, out, buffer, plan, created>>
vars == <<fileSystem, local, pc>>

\* The first archive, if there is one, has permissions of its own.
Init ==
    /\ dir \in [FileNames -> {NONE, 0}] /\ \A t \in Temps : dir[t] = NONE
    /\ data = [i \in Inodes |-> IF i = 0 THEN [k \in 1..Parts |-> 0] ELSE <<>>]
    /\ mode = [i \in Inodes |-> "custom"]
    /\ next = 1 /\ whole = {[k \in 1..Parts |-> 0]} /\ orphans = {}
    /\ pc = [p \in Processes |-> "idle"]
    /\ f = [p \in Processes |-> NONE]
    /\ tmpname = [p \in Processes |-> NONE] /\ out = [p \in Processes |-> NONE]
    /\ buffer = [p \in Processes |-> <<>>] /\ plan = [p \in Processes |-> <<>>]
    /\ created = [p \in Processes |-> FALSE]

Goto(p, label) == pc' = [pc EXCEPT ![p] = label]

\* Faulty variant: the archive is removed in place of the temporary file.
RemovedArchive(d, t) == [d EXCEPT ![Archive] = NONE]

\* remove, of a file that need not be there
Removed(d, name) == [d EXCEPT ![name] = NONE]

\* The process has no temporary file any more.
Forget(p) ==
    /\ tmpname' = [tmpname EXCEPT ![p] = NONE]
    /\ out' = [out EXCEPT ![p] = NONE]
    /\ buffer' = [buffer EXCEPT ![p] = <<>>]
    /\ plan' = [plan EXCEPT ![p] = <<>>]

(***************************************************************************)
(* Reading.                                                                *)
(***************************************************************************)

\* ZIP_SOURCE_OPEN: _zip_stdio_op_open
OpenSource(p) ==
    /\ pc[p] = "idle" /\ f[p] = NONE
    /\ dir[Archive] # NONE
    /\ f' = [f EXCEPT ![p] = dir[Archive]]
    /\ UNCHANGED <<fileSystem, pc, tmpname, out, buffer, plan, created>>

\* ZIP_SOURCE_CLOSE
CloseSource(p) ==
    /\ pc[p] = "idle" /\ f[p] # NONE
    /\ f' = [f EXCEPT ![p] = NONE]
    /\ UNCHANGED <<fileSystem, pc, tmpname, out, buffer, plan, created>>

\* zip_source_remove and _zip_stdio_op_remove
RemoveArchive(p) ==
    /\ pc[p] = "idle"
    /\ f' = [f EXCEPT ![p] = NONE]
    /\ dir' \in {dir, Removed(dir, Archive)}
    /\ UNCHANGED <<data, mode, next, whole, orphans, pc, tmpname, out, buffer, plan, created>>

(***************************************************************************)
(* BEGIN_WRITE and BEGIN_WRITE_CLONING.                                    *)
(***************************************************************************)

\* create_temp_file looks whether the archive exists, to know whether its
\* permissions are to be copied.
StatArchive(p) ==
    /\ pc[p] = "idle"
    /\ created' = [created EXCEPT ![p] = (dir[Archive] = NONE)]
    /\ \/ Goto(p, "create")
       \/ f[p] # NONE /\ Goto(p, "create_cloning")
    /\ UNCHANGED <<fileSystem, f, tmpname, out, buffer, plan>>

\* Faulty variant: the file is opened without O_EXCL.
FreeNamesAnyTemp == Temps

\* Names are drawn until open finds one that no file has.  Of 36^6 names none
\* is drawn that another process still remembers after its file is gone.
FreeNames == {t \in Temps : dir[t] = NONE /\ \A q \in Processes : tmpname[q] # t}

\* The inode that open makes of a name.
Opened(t) == IF dir[t] = NONE THEN next ELSE dir[t]

CreateTemp(p, t) ==
    /\ pc[p] \in {"create", "create_cloning"}
    /\ t \in FreeNames
    /\ next <= MaxInode
    /\ LET i == Opened(t)
           new == [k \in 1..Parts |-> i]
       IN /\ dir' = [dir EXCEPT ![t] = i]
          /\ out' = [out EXCEPT ![p] = i]
          /\ mode' = [mode EXCEPT ![i] = IF created[p] THEN "default" ELSE "private"]
          /\ next' = IF i = next THEN next + 1 ELSE next
          /\ IF pc[p] = "create"
               THEN /\ plan' = [plan EXCEPT ![p] = new]
                    /\ whole' = whole \cup {new}
                    /\ Goto(p, "writing")
               ELSE /\ UNCHANGED <<plan, whole>>
                    /\ Goto(p, "clone")
    /\ tmpname' = [tmpname EXCEPT ![p] = t]
    /\ UNCHANGED <<data, orphans, f, buffer, created>>

\* The file cannot be created.
CreateTempFails(p) ==
    /\ pc[p] \in {"create", "create_cloning"}
    /\ Goto(p, "idle")
    /\ UNCHANGED <<fileSystem, local>>

\* ioctl(FICLONERANGE) clones the file that is open for reading.
Cloned(p) == f[p]

\* _zip_stdio_op_create_temp_output_cloning, of the first part; what follows
\* was laid out for the archive that was opened.
CloneArchive(p) ==
    /\ pc[p] = "clone"
    /\ data' = [data EXCEPT ![out[p]] = SubSeq(data[Cloned(p)], 1, 1)]
    /\ LET new == [k \in 1..Parts |-> IF k = 1 THEN data[f[p]][1] ELSE out[p]]
       IN plan' = [plan EXCEPT ![p] = new] /\ whole' = whole \cup {new}
    /\ Goto(p, "writing")
    /\ UNCHANGED <<dir, mode, next, orphans, f, tmpname, out, buffer, created>>

CloneFails(p) ==
    /\ pc[p] = "clone"
    /\ dir' = Removed(dir, tmpname[p])
    /\ Forget(p)
    /\ Goto(p, "idle")
    /\ UNCHANGED <<data, mode, next, whole, orphans, f, created>>

(***************************************************************************)
(* WRITE, COMMIT_WRITE, ROLLBACK_WRITE.                                    *)
(***************************************************************************)

\* _zip_stdio_op_write: fwrite puts data into the buffer.
Write(p) ==
    /\ pc[p] = "writing"
    /\ LET done == Len(data[out[p]]) + Len(buffer[p])
       IN /\ done < Parts
          /\ buffer' = [buffer EXCEPT ![p] = Append(@, plan[p][done + 1])]
    /\ UNCHANGED <<fileSystem, pc, f, tmpname, out, plan, created>>

\* What the inodes hold when the buffer of p is written.
Flushed(p) == [data EXCEPT ![out[p]] = @ \o buffer[p]]

\* stdio writes the buffer when it is full.
Spill(p) ==
    /\ pc[p] = "writing" /\ buffer[p] # <<>>
    /\ data' = Flushed(p)
    /\ buffer' = [buffer EXCEPT ![p] = <<>>]
    /\ UNCHANGED <<dir, mode, next, whole, orphans, pc, f, tmpname, out, plan, created>>

\* zip_source_commit_write closes the source for reading, then
\* _zip_stdio_op_commit_write flushes.
CommitFlush(p) ==
    /\ pc[p] = "writing"
    /\ Len(data[out[p]]) + Len(buffer[p]) = Parts
    /\ f' = [f EXCEPT ![p] = NONE]
    /\ data' = Flushed(p)
    /\ buffer' = [buffer EXCEPT ![p] = <<>>]
    /\ Goto(p, "flushed")
    /\ UNCHANGED <<dir, mode, next, whole, orphans, tmpname, out, plan, created>>

\* copy_permissions; zip_source_commit_write has closed the archive, so that
\* its permissions are looked up by its name.
CopiedMode(p) ==
    IF created[p] THEN mode ELSE [mode EXCEPT ![out[p]] = mode[dir[Archive]]]

CopyPermissions(p) ==
    /\ pc[p] = "flushed"
    /\ ~created[p] => dir[Archive] # NONE
    /\ mode' = CopiedMode(p)
    /\ Goto(p, "copied")
    /\ UNCHANGED <<dir, data, next, whole, orphans, local>>

\* fclose
CloseTemp(p) ==
    /\ pc[p] = "copied"
    /\ Goto(p, "closed")
    /\ UNCHANGED <<fileSystem, local>>

\* rename, of whatever file has the name now.
Rename(p) ==
    /\ pc[p] = "closed"
    /\ dir[tmpname[p]] # NONE
    /\ dir' = [dir EXCEPT ![Archive] = dir[tmpname[p]], ![tmpname[p]] = NONE]
    /\ Forget(p)
    /\ Goto(p, "idle")
    /\ UNCHANGED <<data, mode, next, whole, orphans, f, created>>

\* One of these steps fails: the temporary file is removed.  The source closed
\* it for reading before.
CommitFails(p) ==
    /\ \/ pc[p] = "writing" /\ Len(data[out[p]]) + Len(buffer[p]) = Parts
       \/ pc[p] \in {"flushed", "copied", "closed"}
    /\ dir' = Removed(dir, tmpname[p])
    /\ f' = [f EXCEPT ![p] = NONE]
    /\ Goto(p, "failed")
    /\ UNCHANGED <<data, mode, next, whole, orphans, tmpname, out, buffer, plan, created>>

\* Faulty variant: only the stream is closed.
RollbackKeepsFile(p) ==
    /\ pc[p] \in {"writing", "failed"}
    /\ Forget(p)
    /\ Goto(p, "idle")
    /\ UNCHANGED <<fileSystem, f, created>>

\* _zip_stdio_op_rollback_write, which removes the file once more after a
\* commit that failed.
Rollback(p) ==
    /\ pc[p] \in {"writing", "failed"}
    /\ dir' = Removed(dir, tmpname[p])
    /\ Forget(p)
    /\ Goto(p, "idle")
    /\ UNCHANGED <<data, mode, next, whole, orphans, f, created>>

\* The process dies; what stdio holds is lost.  Another process may run under
\* its identity later.
Crash(p) ==
    /\ orphans' = orphans \cup ({tmpname[p]} \cap Temps)
    /\ f' = [f EXCEPT ![p] = NONE]
    /\ Forget(p)
    /\ Goto(p, "idle")
    /\ UNCHANGED <<dir, data, mode, next, whole, created>>

Step(p) ==
    \/ OpenSource(p) \/ CloseSource(p) \/ RemoveArchive(p)
    \/ StatArchive(p) \/ (\E t \in Temps : CreateTemp(p, t)) \/ CreateTempFails(p)
    \/ CloneArchive(p) \/ CloneFails(p)
    \/ Write(p) \/ Spill(p)
    \/ CommitFlush(p) \/ CopyPermissions(p) \/ CloseTemp(p) \/ Rename(p)
    \/ CommitFails(p) \/ Rollback(p) \/ Crash(p)

Next == \E p \in Processes : Step(p)

Spec == Init /\ [][Next]_vars

(***************************************************************************)
(* Properties.                                                             *)
(***************************************************************************)

TypeOK ==
    /\ dir \in [FileNames -> Inodes \cup {NONE}]
    /\ data \in [Inodes -> Seq(Inodes)]
    /\ mode \in [Inodes -> {"custom", "default", "private"}]
    /\ next \in 1..(MaxInode + 1)
    /\ whole \subseteq Contents
    /\ orphans \subseteq Temps
    /\ pc \in [Processes -> {"idle", "create", "create_cloning", "clone", "writing",
                             "flushed", "copied", "closed", "moved", "failed"}]
    /\ f \in [Processes -> Inodes \cup {NONE}]
    /\ tmpname \in [Processes -> Temps \cup {NONE}]
    /\ out \in [Processes -> Inodes \cup {NONE}]
    /\ buffer \in [Processes -> Seq(Inodes)]
    /\ plan \in [Processes -> Contents \cup {<<>>}]
    /\ created \in [Processes -> BOOLEAN]

\* Whoever has the archive open, or opens it now, sees a whole archive: the
\* inode behind it never changes again, although other processes write
\* meanwhile, fail and die.  And the archive never has the 0600 that keeps others
\* from reading the temporary file while it is written.
ReadersSeeWhole ==
    /\ dir[Archive] # NONE =>
          data[dir[Archive]] \in whole /\ mode[dir[Archive]] # "private"
    /\ \A p \in Processes : f[p] # NONE => data[f[p]] \in whole

\* A temporary file has a process that is still writing it, or was left by one
\* that died: every failure of BEGIN_WRITE and COMMIT_WRITE, and every
\* rollback, has removed it.
NoTempLeft ==
    \A t \in Temps :
        dir[t] # NONE => t \in orphans \/ \E p \in Processes : pc[p] # "idle" /\ tmpname[p] = t

\* What the atomic file holds, and what each process is about to make of it.
ArchiveContents == IF dir[Archive] = NONE THEN NONE ELSE data[dir[Archive]]

Writing == {"writing", "flushed", "copied", "closed"}

Pending == [p \in Processes |-> IF pc[p] \in Writing THEN plan[p] ELSE NONE]

\* Writing is atomic: the archive takes what a process has planned when that
\* process renames its file, and nothing else changes it but zip_source_remove.
Atomic == INSTANCE AtomicFile WITH contents <- ArchiveContents, pending <- Pending

ImplementsAtomicFile == Atomic!Spec

=============================================================================
