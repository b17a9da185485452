------------------------------ MODULE ToolClose -----------------------------
(***************************************************************************)
(* zip_close as zipmerge and ziptool call it: entry by entry, reporting to *)
(* the progress callbacks, into a new file that takes the place of the old *)
(* one at the end.  A process proc that closes an archive has              *)
(*   path, za      the archive and its path                                *)
(*   isOpen        whether each archive that data comes from is open still *)
(*   progress      the progress object, NULL when there is none            *)
(*   left, out     the entries that are to be written, and those that are  *)
(*   closed        what zip_close returned, NULL before                    *)
(* and is "closing", or "copying" the data of an entry, until zip_close    *)
(* returns, then "closed".                                                 *)
(***************************************************************************)
EXTENDS ToolArchives

CONSTANT MaxBuffers  \* bound: the buffers that the data of an entry fills

Progress == INSTANCE ZipProgress

Closing == proc # NULL /\ proc.pc = "closing"
Copying == proc # NULL /\ proc.pc = "copying"

Results == {"removed", "unchanged", "written", "failed", "cancelled"}

ASSUME ResultsAssumption == NULL \notin Results /\ NULL \notin Seq(Nat)

Return(p, result) == [p EXCEPT !.pc = "closed", !.closed = result]

\* A callback has answered: zip_close goes on or fails with ZIP_ER_CANCELLED.
Asked(p) ==
    IF p.progress # NULL /\ Progress!Cancels(p.progress) THEN Return(p, "cancelled") ELSE p

\* The beginning of zip_close, up to _zip_progress_start.
CloseArchive ==
    /\ Closing /\ proc.left = NULL
    /\ LET za == proc.za
           p == [proc EXCEPT !.left = Filelist(za), !.out = <<>>]
       IN IF CloseRemoves(za)
            THEN /\ disk' = IF za.truncate \/ Changed(za) THEN [disk EXCEPT ![proc.path] = NoFile]
                            ELSE disk
                 /\ proc' = Return(proc, "removed")
          ELSE /\ UNCHANGED disk
               /\ proc' = IF ~CloseWrites(za) THEN Return(proc, "unchanged")
                          ELSE IF p.progress = NULL THEN p
                          ELSE Asked([p EXCEPT !.progress = Progress!Start(@)])
    /\ UNCHANGED script

\* One turn of the loop of zip_close, up to the data of the entry.
BeginEntry ==
    /\ Closing /\ proc.left \notin {NULL, <<>>}
    /\ LET n == Len(proc.left) + Len(proc.out)
       IN proc' = Asked([proc EXCEPT !.pc = "copying",
                           !.progress = IF @ = NULL THEN @ ELSE Progress!Subrange(@, Len(proc.out), n)])
    /\ UNCHANGED <<disk, script>>

Written == WrittenEntry(proc.za, Head(proc.left), disk, proc.isOpen)

\* copy_source, copy_data: a buffer is full and its data written.  What fails in
\* the end may have been read in part.
WriteBuffer ==
    /\ Copying /\ proc.progress # NULL
    /\ \A e \in Written : e.data # <<>>
    /\ \E k, n \in 1..MaxBuffers :
         proc' = Asked([proc EXCEPT !.progress = Progress!Update(@, k, n)])
    /\ UNCHANGED <<disk, script>>

\* The rest of the turn.
WriteEntry ==
    /\ Copying
    /\ \/ Written = {} /\ proc' = Return(proc, "failed")
       \/ \E e \in Written : proc' = [proc EXCEPT !.pc = "closing", !.left = Tail(@),
                                                  !.out = Append(@, e)]
    /\ UNCHANGED <<disk, script>>

\* _zip_progress_end: what the last callback answers does not matter any more.
Ended(p) ==
    {[p EXCEPT !.progress = pr] :
        pr \in IF p.progress = NULL THEN {NULL} ELSE Progress!End(p.progress)}

\* The central directory is written and the file takes the place of the old one.
Commit ==
    /\ Closing /\ proc.left = <<>>
    /\ disk' = [disk EXCEPT ![proc.path] = [kind |-> "zip", entries |-> proc.out,
                                            comment |-> ArchiveComment(proc.za)]]
    /\ \E p \in Ended(proc) : proc' = Return(p, "written")
    /\ UNCHANGED script

\* Faulty variant: the old file is removed first.
CommitFailsLate ==
    /\ Closing /\ proc.left = <<>>
    /\ disk' = [disk EXCEPT ![proc.path] = NoFile]
    /\ \E p \in Ended(proc) : proc' = Return(p, "failed")
    /\ UNCHANGED script

\* The file cannot be put in place; everything is reported done all the same.
CommitFails ==
    /\ Closing /\ proc.left = <<>>
    /\ \E p \in Ended(proc) : proc' = Return(p, "failed")
    /\ UNCHANGED <<disk, script>>

CloseStep == CloseArchive \/ BeginEntry \/ WriteBuffer \/ WriteEntry \/ Commit \/ CommitFails
=============================================================================
