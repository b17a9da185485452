-------------------------- MODULE FileCommitWin32 ---------------------------
(***************************************************************************)
(* FileCommit on Windows (zip_source_file_win32_named.c).  There a file    *)
(* can only be replaced or removed while nobody has it open who does not   *)
(* share that, and only be opened if those who have it open share reading: *)
(* the archive is open without FILE_SHARE_DELETE, the temporary file with  *)
(* nothing but that.  Data is written at once, nothing is cloned.  The     *)
(* mode of a file stands for its security descriptor, and "private" for    *)
(* FILE_ATTRIBUTE_TEMPORARY.                                               *)
(***************************************************************************)
EXTENDS FileCommit

VARIABLE platform  \* "unix" or "windows"

\* The archive is still the temporary file that a writer has open.
HeldByWriter == \E q \in Processes : pc[q] = "moved" /\ out[q] = dir[Archive]

HeldByReader == \E q \in Processes : f[q] # NONE /\ f[q] = dir[Archive]

\* win32_named_open for reading
WinOpenSource(p) == OpenSource(p) /\ ~HeldByWriter

\* _zip_win32_named_op_remove, after zip_source_remove has closed the source.
WinRemoveArchive(p) ==
    /\ RemoveArchive(p)
    /\ (\E q \in Processes \ {p} : f[q] # NONE /\ f[q] = dir[Archive]) => dir' = dir

\* _zip_win32_named_op_create_temp_output: the security descriptor is that of
\* the archive if it is open.
WinCreateTemp(p, t) ==
    /\ pc[p] = "idle"
    /\ t \in FreeNames
    /\ next <= MaxInode
    /\ dir' = [dir EXCEPT ![t] = next]
    /\ tmpname' = [tmpname EXCEPT ![p] = t]
    /\ out' = [out EXCEPT ![p] = next]
    /\ mode' = [mode EXCEPT ![next] = "private"]
    /\ created' = [created EXCEPT ![p] = (f[p] = NONE)]
    /\ LET new == [k \in 1..Parts |-> next]
       IN plan' = [plan EXCEPT ![p] = new] /\ whole' = whole \cup {new}
    /\ next' = next + 1
    /\ Goto(p, "writing")
    /\ UNCHANGED <<data, orphans, f, buffer>>

\* _zip_win32_named_op_write
WinWrite(p) ==
    /\ pc[p] = "writing"
    /\ LET done == Len(data[out[p]])
       IN done < Parts /\ data' = [data EXCEPT ![out[p]] = Append(@, plan[p][done + 1])]
    /\ UNCHANGED <<dir, mode, next, whole, orphans, local, pc>>

\* _zip_win32_named_op_commit_write, up to the attributes.
WinClearTemporary(p) ==
    /\ pc[p] = "writing" /\ Len(data[out[p]]) = Parts
    /\ f' = [f EXCEPT ![p] = NONE]
    /\ mode' = [mode EXCEPT ![out[p]] = IF created[p] THEN "default" ELSE "custom"]
    /\ Goto(p, "copied")
    /\ UNCHANGED <<dir, data, next, whole, orphans, tmpname, out, buffer, plan, created>>

\* MoveFileEx; the temporary file is open still.  Readers of the archive keep
\* it from being replaced; another writer that has moved its file there may.
WinMove(p) ==
    /\ pc[p] = "copied"
    /\ ~HeldByReader
    /\ dir' = [dir EXCEPT ![Archive] = out[p], ![tmpname[p]] = NONE]
    /\ Goto(p, "moved")
    /\ UNCHANGED <<data, mode, next, whole, orphans, local>>

\* CloseHandle
WinCloseTemp(p) ==
    /\ pc[p] = "moved"
    /\ Forget(p)
    /\ Goto(p, "idle")
    /\ UNCHANGED <<fileSystem, f, created>>

\* One of these steps fails: the temporary file stays for the rollback.  If the
\* last one does, the archive is replaced all the same.
WinCommitFails(p) ==
    /\ \/ pc[p] = "writing" /\ Len(data[out[p]]) = Parts
       \/ pc[p] \in {"copied", "moved"}
    /\ f' = [f EXCEPT ![p] = NONE]
    /\ Goto(p, "failed")
    /\ UNCHANGED <<fileSystem, tmpname, out, buffer, plan, created>>

\* _zip_win32_named_op_rollback_write
WinRollback(p) == Rollback(p)

WinStep(p) ==
    \/ WinOpenSource(p) \/ CloseSource(p) \/ WinRemoveArchive(p)
    \/ (\E t \in Temps : WinCreateTemp(p, t)) \/ WinWrite(p)
    \/ WinClearTemporary(p) \/ WinMove(p) \/ WinCloseTemp(p)
    \/ WinCommitFails(p) \/ WinRollback(p) \/ Crash(p)

WinNext == \E p \in Processes : WinStep(p)

PlatformInit == Init /\ platform \in {"unix", "windows"}

PlatformNext ==
    /\ \/ platform = "unix" /\ Next
       \/ platform = "windows" /\ WinNext
    /\ UNCHANGED platform

PlatformSpec == PlatformInit /\ [][PlatformNext]_<<vars, platform>>
=============================================================================
