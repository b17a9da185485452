-------------------------- MODULE FileSourceProofs --------------------------
(***************************************************************************)
(* Proofs about FileCommitWin32, and so about FileCommit: whatever several *)
(* processes do with one archive, on either platform, whoever reads it     *)
(* reads a whole archive, no temporary file is left without an owner, and  *)
(* writing it is atomic.                                                   *)
(*                                                                         *)
(* And proofs about FileReader: whatever others do with the file           *)
(* meanwhile, a reader of a source gets the bytes of the part it stands    *)
(* for.  The source keeps an offset of its own and the operating system    *)
(* one of its file; the proof is that the two stay together.               *)
(***************************************************************************)
EXTENDS FileCommitWin32, FileReader, SequenceTheorems, TLAPS

(***************************************************************************)
(* The inductive invariant.  A process uses a temporary file from its      *)
(* creation on; until the file is renamed, the process alone knows the     *)
(* inode behind it.                                                        *)
(***************************************************************************)

Owned == {"clone", "writing", "flushed", "copied", "closed"}

Owns(p) == pc[p] \in Owned

Uses(p) == pc[p] \in Owned \cup {"moved", "failed"}

\* Everything that is known is older than the next inode.
InodesAreOld ==
    /\ \A n \in FileNames : dir[n] # NONE => dir[n] < next
    /\ \A p \in Processes : (f[p] # NONE => f[p] < next) /\ (out[p] # NONE => out[p] < next)
    /\ \A i \in Inodes : i >= next => data[i] = <<>>

\* Nobody has the temporary name of somebody else.
NamesAreOwn ==
    /\ \A p \in Processes :
          /\ Uses(p) => tmpname[p] \in Temps /\ out[p] \in Inodes
          /\ ~Uses(p) => tmpname[p] = NONE
    /\ \A p, q \in Processes : p # q /\ tmpname[p] = tmpname[q] => tmpname[p] = NONE
    /\ \A p \in Processes : pc[p] = "moved" => dir[tmpname[p]] = NONE

\* The inode that p writes has no other name and no other user.
OutputIsPrivate(p) ==
    /\ dir[tmpname[p]] = out[p]
    /\ \A n \in FileNames : dir[n] = out[p] => n = tmpname[p]
    /\ \A q \in Processes : f[q] # out[p]
    /\ \A q \in Processes : q # p => out[q] # out[p]

OutputsArePrivate == \A p \in Processes : Owns(p) => OutputIsPrivate(p)

\* What is in the temporary file, with what stdio holds, is the beginning of
\* what p set out to write.
FollowsPlan(p) ==
    /\ Len(data[out[p]]) + Len(buffer[p]) <= Parts
    /\ \A k \in 1 .. Len(data[out[p]]) : data[out[p]][k] = plan[p][k]
    /\ \A k \in 1 .. Len(buffer[p]) : buffer[p][k] = plan[p][Len(data[out[p]]) + k]

WritesItsPlan(p) ==
    /\ pc[p] \in {"create_cloning", "clone"} => f[p] # NONE
    /\ pc[p] \in {"idle", "create", "create_cloning", "clone"} => buffer[p] = <<>>
    /\ platform = "windows" => buffer[p] = <<>>
    /\ pc[p] = "clone" => data[out[p]] = <<>>
    /\ pc[p] = "writing" => plan[p] \in whole /\ FollowsPlan(p)
    /\ pc[p] \in {"flushed", "copied", "closed"} =>
          plan[p] \in whole /\ data[out[p]] = plan[p]

PlansAreFollowed == \A p \in Processes : WritesItsPlan(p)

\* The mode that the archive may get is not the one of a temporary file.
ModeIsPublic(p) ==
    /\ platform = "unix" /\ pc[p] \in {"clone", "writing", "flushed"} /\ created[p] =>
          mode[out[p]] = "default"
    /\ pc[p] \in {"copied", "closed"} => mode[out[p]] # "private"

ModesArePublic == \A p \in Processes : ModeIsPublic(p)

IInv ==
    /\ TypeOK /\ platform \in {"unix", "windows"}
    /\ InodesAreOld /\ NamesAreOwn /\ OutputsArePrivate
    /\ PlansAreFollowed /\ ModesArePublic
    /\ ReadersSeeWhole /\ NoTempLeft

(***************************************************************************)
(* What a step of p can change.                                            *)
(***************************************************************************)

\* A step of p on its platform.
Steps(p) ==
    /\ \/ platform = "unix" /\ Step(p)
       \/ platform = "windows" /\ WinStep(p)
    /\ UNCHANGED platform

\* A process takes a new inode.
TakesInode == next' = next + 1

\* Only p itself is affected.
OthersWait(p) ==
    \A q \in Processes \ {p} :
        /\ pc'[q] = pc[q] /\ f'[q] = f[q] /\ tmpname'[q] = tmpname[q] /\ out'[q] = out[q]
        /\ buffer'[q] = buffer[q] /\ plan'[q] = plan[q] /\ created'[q] = created[q]

\* What is known becomes more, and p opens nothing but the archive.
Growth(p) ==
    /\ f'[p] \in {f[p], NONE, dir[Archive]}
    /\ TakesInode \/ next' = next
    /\ whole \subseteq whole' /\ orphans \subseteq orphans' /\ platform' = platform

\* p forgets its temporary file, which is gone or left by its death; or keeps
\* it; or makes one.
OutputFrame(p) ==
    \/ /\ ~Uses(p)' /\ tmpname'[p] = NONE /\ out'[p] \in {out[p], NONE}
       /\ tmpname[p] \in Temps => tmpname[p] \in orphans' \/ dir'[tmpname[p]] = NONE
    \/ /\ Uses(p) /\ Uses(p)' /\ tmpname'[p] = tmpname[p] /\ out'[p] = out[p]
       /\ Owns(p)' => Owns(p) /\ dir' = dir /\ f'[p] \in {f[p], NONE}
       /\ pc'[p] = "moved" => dir'[tmpname[p]] = NONE
    \/ /\ ~Uses(p) /\ Owns(p)' /\ tmpname'[p] \in FreeNames /\ dir'[tmpname'[p]] = next
       /\ out'[p] = next /\ next \in Inodes /\ TakesInode /\ f'[p] = f[p]

\* A name goes, the archive becomes what p wrote, or a free name is taken.
NameFrame(p) ==
    \A n \in FileNames :
        \/ dir'[n] = dir[n]
        \/ n \in {Archive, tmpname[p]} /\ dir'[n] = NONE
        \/ /\ n = Archive /\ dir'[n] = out[p] /\ pc[p] \in {"copied", "closed"}
           /\ data' = data /\ mode' = mode
        \/ n \in FreeNames /\ n = tmpname'[p] /\ dir'[n] = next /\ TakesInode

\* What is in a file changes only while p alone knows it.
InodeFrame(p) ==
    \A i \in Inodes :
        /\ \/ data'[i] = data[i]
           \/ i = out[p] /\ Owns(p)
        /\ \/ mode'[i] = mode[i]
           \/ i = out[p] /\ Owns(p)
           \/ i = next /\ TakesInode

USE NamesAssumption, PartsAssumption, ContentsAssumption

\* What a step of either platform can change, whatever step it is.
LEMMA StepFrame ==
    ASSUME TypeOK, NamesAreOwn, OutputsArePrivate, NEW p \in Processes, Steps(p)
    PROVE  OthersWait(p) /\ Growth(p) /\ OutputFrame(p) /\ NameFrame(p) /\ InodeFrame(p)
<1>0. /\ UNCHANGED platform
      /\ ~Uses(p) => tmpname[p] = NONE
      /\ Uses(p) => tmpname[p] \in Temps /\ out[p] \in Inodes
      /\ Owns(p) => dir[tmpname[p]] = out[p]
      /\ pc[p] = "moved" => dir[tmpname[p]] = NONE
  BY DEF Steps, NamesAreOwn, OutputsArePrivate, OutputIsPrivate
<1> USE <1>0 DEF TypeOK, fileSystem, local, Goto, Forget, Removed, Owns, Owned, FileNames, Inodes,
            Opened, FreeNames, Flushed, CopiedMode, Uses, TakesInode,
            OthersWait, Growth, OutputFrame, NameFrame, InodeFrame
<1>1. CASE OpenSource(p)
  BY <1>1 DEF OpenSource
<1>2. CASE CloseSource(p)
  BY <1>2 DEF CloseSource
<1>3. CASE RemoveArchive(p)
  BY <1>3 DEF RemoveArchive
<1>4. CASE StatArchive(p)
  BY <1>4 DEF StatArchive
<1>5. CASE \E t \in Temps : CreateTemp(p, t)
  BY <1>5 DEF CreateTemp
<1>6. CASE CreateTempFails(p)
  BY <1>6 DEF CreateTempFails
<1>7. CASE CloneArchive(p)
  BY <1>7 DEF CloneArchive
<1>8. CASE CloneFails(p)
  BY <1>8 DEF CloneFails
<1>9. CASE Write(p)
  BY <1>9 DEF Write
<1>10. CASE Spill(p)
  BY <1>10 DEF Spill
<1>11. CASE CommitFlush(p)
  BY <1>11 DEF CommitFlush
<1>12. CASE CopyPermissions(p)
  BY <1>12 DEF CopyPermissions
<1>13. CASE CloseTemp(p)
  BY <1>13 DEF CloseTemp
<1>14. CASE Rename(p)
  BY <1>14 DEF Rename
<1>15. CASE CommitFails(p)
  BY <1>15 DEF CommitFails
<1>16. CASE Rollback(p)
  BY <1>16 DEF Rollback
<1>17. CASE Crash(p)
  BY <1>17 DEF Crash
<1>18. CASE WinOpenSource(p)
  BY <1>18 DEF WinOpenSource, OpenSource
<1>19. CASE WinRemoveArchive(p)
  BY <1>19 DEF WinRemoveArchive, RemoveArchive
<1>20. CASE \E t \in Temps : WinCreateTemp(p, t)
  BY <1>20 DEF WinCreateTemp
<1>21. CASE WinWrite(p)
  BY <1>21 DEF WinWrite
<1>22. CASE WinClearTemporary(p)
  BY <1>22 DEF WinClearTemporary
<1>23. CASE WinMove(p)
  BY <1>23 DEF WinMove
<1>24. CASE WinCloseTemp(p)
  BY <1>24 DEF WinCloseTemp
<1>25. CASE WinCommitFails(p)
  BY <1>25 DEF WinCommitFails
<1>26. CASE WinRollback(p)
  BY <1>26 DEF WinRollback, Rollback
<1> QED
  BY <1>1, <1>2, <1>3, <1>4, <1>5, <1>6, <1>7, <1>8, <1>9, <1>10, <1>11, <1>12, <1>13,
     <1>14, <1>15, <1>16, <1>17, <1>18, <1>19, <1>20, <1>21, <1>22, <1>23, <1>24, <1>25,
     <1>26 DEF Steps, Step, WinStep

(***************************************************************************)
(* What follows for all processes from what one of them does.              *)
(***************************************************************************)

\* Inodes are numbered in the order in which open creates them.
LEMMA InodesStayOld ==
    ASSUME IInv, NEW p \in Processes, Steps(p)
    PROVE  InodesAreOld'
<1>1. OthersWait(p) /\ Growth(p) /\ OutputFrame(p) /\ NameFrame(p) /\ InodeFrame(p)
  BY StepFrame DEF IInv
<1>2. /\ next \in Int /\ next' \in Int /\ next <= next' /\ (TakesInode => next < next')
      /\ Inodes \subseteq Int
  BY <1>1 DEF IInv, TypeOK, Growth, TakesInode, Inodes
<1>3. /\ \A n \in FileNames : dir[n] # NONE => dir[n] \in Int /\ dir[n] < next
      /\ \A q \in Processes : /\ f[q] # NONE => f[q] \in Int /\ f[q] < next
                              /\ out[q] # NONE => out[q] \in Int /\ out[q] < next
      /\ \A i \in Inodes : i >= next => data[i] = <<>>
  BY <1>2 DEF IInv, TypeOK, InodesAreOld
<1>4. Owns(p) \/ pc[p] \in {"copied", "closed"} => out[p] # NONE
  BY DEF IInv, NamesAreOwn, Owns, Owned, Uses, Inodes
<1>5. ASSUME NEW n \in FileNames, dir'[n] # NONE
      PROVE  dir'[n] < next'
  BY <1>1, <1>2, <1>3, <1>4, <1>5 DEF NameFrame
<1>6. ASSUME NEW q \in Processes
      PROVE  (f'[q] # NONE => f'[q] < next') /\ (out'[q] # NONE => out'[q] < next')
  <2>1. CASE q = p
    <3>1. f'[p] # NONE => f'[p] < next'
      BY <1>1, <1>2, <1>3 DEF Growth, FileNames
    <3>2. out'[p] # NONE => out'[p] < next'
      BY <1>1, <1>2, <1>3 DEF OutputFrame
    <3> QED BY <2>1, <3>1, <3>2
  <2>2. CASE q # p
    BY <1>1, <1>2, <1>3, <2>2 DEF OthersWait
  <2> QED BY <2>1, <2>2
<1>7. ASSUME NEW i \in Inodes, i >= next'
      PROVE  data'[i] = <<>>
  <2>1. i >= next /\ data[i] = <<>>
    BY <1>2, <1>3, <1>7
  <2>2. Owns(p) => i # out[p]
    BY <1>2, <1>3, <1>4, <2>1
  <2> QED BY <1>1, <2>1, <2>2 DEF InodeFrame
<1> QED BY <1>5, <1>6, <1>7 DEF InodesAreOld

\* A name that create_temp_file draws is nobody else's.
LEMMA NamesStayOwn ==
    ASSUME IInv, NEW p \in Processes, Steps(p)
    PROVE  NamesAreOwn'
<1>1. OthersWait(p) /\ OutputFrame(p) /\ NameFrame(p)
  BY StepFrame DEF IInv
<1>2. TypeOK /\ NamesAreOwn
  BY DEF IInv
<1> USE <1>1, <1>2 DEF TypeOK, NamesAreOwn, FreeNames
<1>3. ASSUME NEW q \in Processes
      PROVE  /\ Uses(q)' => tmpname'[q] \in Temps /\ out'[q] \in Inodes
             /\ ~Uses(q)' => tmpname'[q] = NONE
  <2>1. CASE q = p
    <3>1. Owns(p)' => Uses(p)'
      BY DEF Owns, Uses
    <3> QED BY <2>1, <3>1 DEF OutputFrame
  <2>2. CASE q # p
    <3>1. Uses(q)' = Uses(q) /\ tmpname'[q] = tmpname[q] /\ out'[q] = out[q]
      BY <2>2 DEF OthersWait, Uses
    <3> QED BY <3>1
  <2> QED BY <2>1, <2>2
<1>4. ASSUME NEW q \in Processes, NEW r \in Processes, q # r, tmpname'[q] = tmpname'[r]
      PROVE  tmpname'[q] = NONE
  <2>1. \A x \in Processes \ {p} : tmpname'[x] = tmpname[x] /\ tmpname'[x] \notin FreeNames
    BY DEF OthersWait
  <2>2. tmpname'[p] \in {NONE, tmpname[p]} \cup FreeNames
    BY DEF OutputFrame
  <2>3. CASE q # p /\ r # p
    BY <1>4, <2>1, <2>3
  <2>4. CASE q = p
    BY <1>4, <2>1, <2>2, <2>4
  <2>5. CASE r = p
    BY <1>4, <2>1, <2>2, <2>5
  <2> QED BY <2>3, <2>4, <2>5
<1>5. ASSUME NEW q \in Processes, pc'[q] = "moved"
      PROVE  dir'[tmpname'[q]] = NONE
  <2>1. CASE q = p
    BY <1>5, <2>1 DEF OutputFrame, Uses, Owns, Owned
  <2>2. CASE q # p
    <3>1. pc[q] = "moved" /\ tmpname'[q] = tmpname[q] /\ tmpname[q] \in Temps /\ dir[tmpname[q]] = NONE
      BY <1>5, <2>2 DEF OthersWait, Uses
    <3>2. tmpname[q] # tmpname'[p] \/ tmpname[q] \notin FreeNames
      OBVIOUS
    <3> QED BY <3>1, <3>2 DEF NameFrame, FileNames
  <2> QED BY <2>1, <2>2
<1> QED BY <1>3, <1>4, <1>5

\* Nobody opens, renames or writes the temporary file of another process.
LEMMA OutputsStayPrivate ==
    ASSUME IInv, NEW p \in Processes, Steps(p)
    PROVE  OutputsArePrivate'
<1>1. OthersWait(p) /\ Growth(p) /\ OutputFrame(p) /\ NameFrame(p)
  BY StepFrame DEF IInv
<1>2. TypeOK /\ InodesAreOld /\ NamesAreOwn /\ OutputsArePrivate
  BY DEF IInv
<1> USE <1>1, <1>2 DEF TypeOK
<1>3. ASSUME NEW q \in Processes, q # p, Owns(q)'
      PROVE  OutputIsPrivate(q)'
  <2>1. Owns(q) /\ tmpname'[q] = tmpname[q] /\ out'[q] = out[q]
    BY <1>3 DEF OthersWait, Owns
  <2>2. tmpname[q] \in Temps /\ out[q] \in Inodes /\ out[q] < next
    <3>1. Uses(q)
      BY <2>1 DEF Owns, Uses
    <3> QED BY <3>1 DEF NamesAreOwn, InodesAreOld, Inodes
  <2>3. tmpname[q] # tmpname[p] /\ tmpname[q] \notin FreeNames
    BY <1>3, <2>2 DEF NamesAreOwn, FreeNames
  <2>4. OutputIsPrivate(q)
    BY <2>1 DEF OutputsArePrivate
  <2>5. dir'[tmpname[q]] = out[q]
    BY <2>2, <2>3, <2>4 DEF NameFrame, OutputIsPrivate, FileNames
  <2>6. \A n \in FileNames : dir'[n] = out[q] => n = tmpname[q]
    BY <1>3, <2>2, <2>4 DEF NameFrame, OutputIsPrivate, Inodes
  <2>7. \A r \in Processes : f'[r] # out[q]
    <3>1. dir[Archive] # out[q] /\ f[p] # out[q] /\ out[q] # NONE
      BY <2>2, <2>4 DEF OutputIsPrivate, FileNames, Inodes
    <3>2. f'[p] # out[q]
      BY <3>1 DEF Growth
    <3> QED BY <3>2, <2>4 DEF OthersWait, OutputIsPrivate
  <2>8. \A r \in Processes : r # q => out'[r] # out[q]
    BY <1>3, <2>2, <2>4 DEF OthersWait, OutputFrame, OutputIsPrivate, Inodes
  <2> QED BY <2>1, <2>5, <2>6, <2>7, <2>8 DEF OutputIsPrivate
<1>4. ASSUME Owns(p)', Owns(p), dir' = dir, f'[p] \in {f[p], NONE},
             tmpname'[p] = tmpname[p], out'[p] = out[p]
      PROVE  OutputIsPrivate(p)'
  BY <1>4 DEF OthersWait, OutputsArePrivate, OutputIsPrivate, NamesAreOwn, Owns, Uses, Inodes
<1>5. ASSUME tmpname'[p] \in FreeNames, dir'[tmpname'[p]] = next, out'[p] = next, next \in Inodes,
             f'[p] = f[p]
      PROVE  OutputIsPrivate(p)'
  <2>1. \A n \in FileNames : dir'[n] = next => n = tmpname'[p]
    <3>1. Owns(p) => out[p] # next
      BY DEF InodesAreOld, NamesAreOwn, Owns, Uses, Inodes
    <3> QED BY <3>1, <1>5 DEF NameFrame, InodesAreOld, Owns, Owned, Inodes
  <2>2. \A r \in Processes : f'[r] # next
    <3>1. \A r \in Processes : f'[r] = f[r]
      BY <1>5 DEF OthersWait
    <3> QED BY <3>1 DEF InodesAreOld, Inodes
  <2>3. \A r \in Processes : r # p => out'[r] # next
    BY <1>5 DEF OthersWait, InodesAreOld, Inodes
  <2> QED BY <1>5, <2>1, <2>2, <2>3 DEF OutputIsPrivate
<1>6. Owns(p)' => OutputIsPrivate(p)'
  BY <1>4, <1>5 DEF OutputFrame, Uses, Owns
<1> QED BY <1>3, <1>6 DEF OutputsArePrivate

\* A step of p does not disturb what q has written.
LEMMA OthersStayOnPlan ==
    ASSUME IInv, NEW p \in Processes, Steps(p), NEW q \in Processes, q # p
    PROVE  WritesItsPlan(q)' /\ ModeIsPublic(q)'
<1>1. OthersWait(p) /\ Growth(p) /\ InodeFrame(p)
  BY StepFrame DEF IInv
<1>2. TypeOK /\ InodesAreOld /\ NamesAreOwn /\ OutputsArePrivate /\ WritesItsPlan(q) /\ ModeIsPublic(q)
  BY DEF IInv, PlansAreFollowed, ModesArePublic
<1> USE <1>1, <1>2 DEF TypeOK
<1>3. /\ pc'[q] = pc[q] /\ out'[q] = out[q] /\ f'[q] = f[q] /\ buffer'[q] = buffer[q]
      /\ plan'[q] = plan[q] /\ created'[q] = created[q] /\ platform' = platform
      /\ whole \subseteq whole'
  BY DEF OthersWait, Growth
<1>4. ASSUME Owns(q)
      PROVE  data'[out[q]] = data[out[q]] /\ mode'[out[q]] = mode[out[q]]
  <2>1. out[q] \in Inodes /\ out[q] # next
    BY <1>4 DEF NamesAreOwn, Owns, Uses, InodesAreOld, Inodes
  <2>2. out[p] # out[q]
    BY <1>4 DEF OutputsArePrivate, OutputIsPrivate
  <2> QED BY <2>1, <2>2 DEF InodeFrame
<1>5. WritesItsPlan(q)'
  <2>1. CASE Owns(q)
    <3>1. FollowsPlan(q) => FollowsPlan(q)'
      BY <1>3, <1>4, <2>1 DEF FollowsPlan
    <3> QED BY <1>3, <1>4, <2>1, <3>1 DEF WritesItsPlan
  <2>2. CASE ~Owns(q)
    BY <1>3, <2>2 DEF WritesItsPlan, Owns, Owned
  <2> QED BY <2>1, <2>2
<1>6. ModeIsPublic(q)'
  BY <1>3, <1>4 DEF ModeIsPublic, Owns, Owned
<1> QED BY <1>5, <1>6

\* Neither writing nor renaming shows a reader anything that is not whole.
LEMMA ReadersStillSeeWhole ==
    ASSUME IInv, NEW p \in Processes, Steps(p)
    PROVE  ReadersSeeWhole'
<1>1. OthersWait(p) /\ Growth(p) /\ NameFrame(p) /\ InodeFrame(p)
  BY StepFrame DEF IInv
<1>2. /\ TypeOK /\ InodesAreOld /\ NamesAreOwn /\ OutputsArePrivate /\ WritesItsPlan(p) /\ ModeIsPublic(p)
      /\ ReadersSeeWhole
  BY DEF IInv, PlansAreFollowed, ModesArePublic
<1> USE <1>1, <1>2 DEF TypeOK
<1>3. ASSUME NEW i \in Inodes, Owns(p) => i # out[p], data[i] \in whole
      PROVE  data'[i] \in whole'
  BY <1>3 DEF InodeFrame, Growth
<1>4. ASSUME Owns(p)
      PROVE  dir[Archive] # out[p] /\ \A q \in Processes : f[q] # out[p]
  BY <1>4 DEF OutputsArePrivate, OutputIsPrivate, NamesAreOwn, Owns, Uses, FileNames
<1>5. ASSUME dir[Archive] # NONE
      PROVE  /\ dir[Archive] \in Inodes /\ data'[dir[Archive]] \in whole'
             /\ mode'[dir[Archive]] # "private"
  <2>1. dir[Archive] \in Inodes /\ dir[Archive] # next
    BY <1>5 DEF FileNames, InodesAreOld, Inodes
  <2>2. data'[dir[Archive]] \in whole'
    BY <1>3, <1>4, <1>5, <2>1 DEF ReadersSeeWhole
  <2>3. mode'[dir[Archive]] # "private"
    BY <1>4, <1>5, <2>1 DEF InodeFrame, ReadersSeeWhole
  <2> QED BY <2>1, <2>2, <2>3
<1>6. ASSUME NEW q \in Processes, f[q] # NONE
      PROVE  data'[f[q]] \in whole'
  BY <1>3, <1>4, <1>6 DEF ReadersSeeWhole
<1>7. ASSUME NEW q \in Processes, f'[q] # NONE
      PROVE  data'[f'[q]] \in whole'
  BY <1>5, <1>6, <1>7 DEF OthersWait, Growth
<1>8. ASSUME dir'[Archive] # NONE
      PROVE  data'[dir'[Archive]] \in whole' /\ mode'[dir'[Archive]] # "private"
  <2>1. CASE dir'[Archive] = dir[Archive]
    BY <1>5, <1>8, <2>1
  <2>2. CASE /\ dir'[Archive] = out[p] /\ pc[p] \in {"copied", "closed"}
             /\ data' = data /\ mode' = mode
    BY <2>2 DEF WritesItsPlan, ModeIsPublic, Growth
  <2> QED BY <1>8, <2>1, <2>2 DEF NameFrame, FileNames, FreeNames
<1> QED BY <1>7, <1>8 DEF ReadersSeeWhole

\* A process that has no use for its temporary file any more has removed it.
LEMMA StillNoTempLeft ==
    ASSUME IInv, NEW p \in Processes, Steps(p)
    PROVE  NoTempLeft'
<1>1. OthersWait(p) /\ Growth(p) /\ OutputFrame(p) /\ NameFrame(p)
  BY StepFrame DEF IInv
<1>2. TypeOK /\ NamesAreOwn /\ NoTempLeft
  BY DEF IInv
<1> SUFFICES ASSUME NEW t \in Temps, dir'[t] # NONE, t \notin orphans'
             PROVE  \E q \in Processes : pc'[q] # "idle" /\ tmpname'[q] = t
  BY DEF NoTempLeft
<1> USE <1>1, <1>2
<1>3. Uses(p)' => pc'[p] # "idle"
  BY DEF Uses, Owned
<1>4. CASE tmpname'[p] = t
  BY <1>3, <1>4 DEF OutputFrame, Uses, Owns
<1>5. CASE tmpname'[p] # t
  <2>1. dir[t] # NONE /\ t \notin orphans
    BY <1>5 DEF NameFrame, Growth, FileNames
  <2>2. PICK q \in Processes : pc[q] # "idle" /\ tmpname[q] = t
    BY <2>1 DEF NoTempLeft
  <2>3. q # p
    <3>1. ASSUME tmpname[p] = t
          PROVE  FALSE
      <4>1. dir'[t] # NONE /\ t \notin orphans'
        OBVIOUS
      <4>2. tmpname'[p] # tmpname[p] /\ tmpname[p] \in Temps
        BY <1>5, <3>1
      <4>3. Owns(p)' /\ tmpname'[p] \in FreeNames
        BY <3>1, <4>1, <4>2 DEF OutputFrame
      <4> QED BY <3>1, <4>1, <4>2, <4>3, <1>2 DEF OutputFrame, NamesAreOwn
    <3> QED BY <2>2, <3>1
  <2> QED BY <2>2, <2>3 DEF OthersWait
<1> QED BY <1>4, <1>5

(***************************************************************************)
(* What p itself comes to.                                                 *)
(***************************************************************************)

\* What a file may have in the end is a sequence of Parts parts.
LEMMA ContentsAreSequences ==
    ASSUME NEW c \in Contents
    PROVE  c \in Seq(Inodes) /\ Len(c) = Parts
<1>1. \A n \in Nat : [1..n -> Inodes] \subseteq Seq(Inodes)
  BY SeqDef
<1>2. c \in Seq(Inodes)
  BY <1>1 DEF Contents
<1> QED BY <1>2, LenProperties DEF Contents

\* A file that has all parts of a plan is what was planned.
LEMMA AllPartsAreWhole ==
    ASSUME NEW s \in Seq(Inodes), NEW c \in Contents, Len(s) = Parts,
           \A k \in 1 .. Len(s) : s[k] = c[k]
    PROVE  s = c
<1>1. c \in Seq(Inodes) /\ Len(c) = Parts
  BY ContentsAreSequences
<1> QED BY <1>1, SeqEqual

\* Buffered parts that are written continue what is there.
LEMMA FlushFollows ==
    ASSUME TypeOK, NEW p \in Processes, out[p] \in Inodes, plan[p] \in Contents, FollowsPlan(p)
    PROVE  /\ Flushed(p) \in [Inodes -> Seq(Inodes)]
           /\ Len(Flushed(p)[out[p]]) = Len(data[out[p]]) + Len(buffer[p])
           /\ \A k \in 1 .. Len(Flushed(p)[out[p]]) : Flushed(p)[out[p]][k] = plan[p][k]
<1> DEFINE d == data[out[p]]
           b == buffer[p]
<1>1. d \in Seq(Inodes) /\ b \in Seq(Inodes)
  BY DEF TypeOK
<1>2. /\ d \o b \in Seq(Inodes) /\ Len(d \o b) = Len(d) + Len(b)
      /\ \A k \in 1 .. Len(d) + Len(b) :
            (d \o b)[k] = IF k <= Len(d) THEN d[k] ELSE b[k - Len(d)]
  BY <1>1, ConcatProperties
<1>3. Flushed(p)[out[p]] = d \o b
  BY DEF Flushed, TypeOK
<1>4. ASSUME NEW k \in 1 .. Len(d) + Len(b)
      PROVE  (d \o b)[k] = plan[p][k]
  <2>1. Len(d) \in Nat /\ Len(b) \in Nat
    BY <1>1
  <2>2. CASE k <= Len(d)
    BY <1>2, <2>1, <2>2 DEF FollowsPlan
  <2>3. CASE k > Len(d)
    <3>1. \A m, n \in Nat : \A j \in 1 .. m + n :
              j > m => j - m \in 1 .. n /\ m + (j - m) = j
      OBVIOUS
    <3>2. k - Len(d) \in 1 .. Len(b) /\ Len(d) + (k - Len(d)) = k
      BY <2>1, <2>3, <3>1
    <3> QED BY <1>2, <2>1, <2>3, <3>2 DEF FollowsPlan
  <2> QED BY <2>1, <2>2, <2>3
<1>5. Flushed(p) \in [Inodes -> Seq(Inodes)]
  BY <1>1, <1>2 DEF Flushed, TypeOK
<1> QED BY <1>2, <1>3, <1>4, <1>5

\* Forgetting the temporary file keeps the types.
LEMMA ForgetType ==
    ASSUME TypeOK, NEW p \in Processes, Forget(p)
    PROVE  /\ tmpname' \in [Processes -> Temps \cup {NONE}]
           /\ out' \in [Processes -> Inodes \cup {NONE}]
           /\ buffer' \in [Processes -> Seq(Inodes)]
           /\ plan' \in [Processes -> Contents \cup {<<>>}]
<1>1. <<>> \in Seq(Inodes)
  OBVIOUS
<1> QED BY <1>1 DEF Forget, TypeOK

\* Every step keeps the types.
LEMMA TypeStep ==
    ASSUME IInv, NEW p \in Processes, Steps(p)
    PROVE  TypeOK'
<1> USE DEF IInv, TypeOK, fileSystem, local, Goto, Removed, FileNames, Opened, FreeNames
<1>0. /\ Inodes \subseteq Int /\ (Uses(p) => out[p] \in Inodes)
      /\ next <= MaxInode => next \in Inodes /\ next + 1 \in 1 .. MaxInode + 1
  BY DEF Inodes, NamesAreOwn
<1>00. \A i \in Inodes : [k \in 1..Parts |-> i] \in Contents
  BY DEF Contents
<1>1. CASE OpenSource(p)
  BY <1>1, <1>0 DEF OpenSource
<1>2. CASE CloseSource(p)
  BY <1>2, <1>0 DEF CloseSource
<1>3. CASE RemoveArchive(p)
  BY <1>3, <1>0 DEF RemoveArchive
<1>4. CASE StatArchive(p)
  BY <1>4, <1>0 DEF StatArchive
<1>5. CASE \E t \in Temps : CreateTemp(p, t)
  <2>1. PICK t \in Temps : CreateTemp(p, t)
    BY <1>5
  <2>2. Opened(t) = next /\ next \in Inodes
    BY <1>0, <2>1 DEF CreateTemp
  <2>3. /\ dir' = [dir EXCEPT ![t] = next] /\ out' = [out EXCEPT ![p] = next]
        /\ mode' = [mode EXCEPT ![next] = IF created[p] THEN "default" ELSE "private"]
        /\ next' = next + 1 /\ tmpname' = [tmpname EXCEPT ![p] = t]
        /\ UNCHANGED <<data, orphans, f, buffer, created>>
    BY <2>1, <2>2 DEF CreateTemp
  <2>4. /\ plan' \in [Processes -> Contents \cup {<<>>}] /\ whole' \subseteq Contents
        /\ pc' \in {[pc EXCEPT ![p] = "writing"], [pc EXCEPT ![p] = "clone"]}
    <3> DEFINE new == [k \in 1..Parts |-> Opened(t)]
    <3>1. new \in Contents
      BY <1>00, <2>2
    <3>2. CASE pc[p] = "create"
      <4>1. /\ plan' = [plan EXCEPT ![p] = new] /\ whole' = whole \cup {new}
            /\ pc' = [pc EXCEPT ![p] = "writing"]
        BY <2>1, <3>2 DEF CreateTemp
      <4> QED BY <3>1, <4>1
    <3>3. CASE pc[p] # "create"
      <4>1. UNCHANGED <<plan, whole>> /\ pc' = [pc EXCEPT ![p] = "clone"]
        BY <2>1, <3>3 DEF CreateTemp
      <4> QED BY <4>1
    <3> QED BY <3>2, <3>3
  <2>5. /\ dir' \in [FileNames -> Inodes \cup {NONE}]
        /\ mode' \in [Inodes -> {"custom", "default", "private"}]
        /\ next' \in 1 .. MaxInode + 1
    BY <1>0, <2>1, <2>2, <2>3 DEF CreateTemp
  <2>6. pc' \in [Processes -> {"idle", "create", "create_cloning", "clone", "writing",
                             "flushed", "copied", "closed", "moved", "failed"}]
    BY <2>4
  <2>7. /\ tmpname' \in [Processes -> Temps \cup {NONE}]
        /\ out' \in [Processes -> Inodes \cup {NONE}]
    BY <2>2, <2>3
  <2> QED BY <2>3, <2>4, <2>5, <2>6, <2>7
<1>6. CASE CreateTempFails(p)
  BY <1>6, <1>0 DEF CreateTempFails
<1>7. CASE CloneArchive(p)
  <2>1. out[p] \in Inodes /\ f[p] \in Inodes /\ data[f[p]] \in Contents
    BY <1>7, <1>0 DEF CloneArchive, Uses, Owned, PlansAreFollowed, WritesItsPlan, ReadersSeeWhole
  <2>2. SubSeq(data[f[p]], 1, 1) \in Seq(Inodes)
    BY <2>1, ContentsAreSequences, SubSeqProperties
  <2>3. data[f[p]][1] \in Inodes
    BY <2>1 DEF Contents
  <2>4. [k \in 1..Parts |-> IF k = 1 THEN data[f[p]][1] ELSE out[p]] \in Contents
    BY <2>1, <2>3 DEF Contents
  <2> QED BY <1>7, <2>2, <2>4 DEF CloneArchive, Cloned
<1>8. CASE CloneFails(p)
  <2>1. Forget(p)
    BY <1>8 DEF CloneFails
  <2> QED BY <1>8, <2>1, ForgetType DEF CloneFails
<1>9. CASE Write(p)
  <2>1. out[p] \in Inodes /\ plan[p] \in Contents
    BY <1>9, <1>0 DEF Write, Uses, Owned, PlansAreFollowed, WritesItsPlan
  <2>2. Len(data[out[p]]) + Len(buffer[p]) \in Nat
    BY <2>1
  <2>3. plan[p][Len(data[out[p]]) + Len(buffer[p]) + 1] \in Inodes
    BY <1>9, <2>1, <2>2 DEF Write, Contents
  <2>4. Append(buffer[p], plan[p][Len(data[out[p]]) + Len(buffer[p]) + 1]) \in Seq(Inodes)
    BY <2>3
  <2> QED BY <1>9, <2>4 DEF Write
<1>10. CASE Spill(p)
  <2>1. out[p] \in Inodes /\ plan[p] \in Contents /\ FollowsPlan(p)
    BY <1>10, <1>0 DEF Spill, Uses, Owned, PlansAreFollowed, WritesItsPlan
  <2>2. Flushed(p) \in [Inodes -> Seq(Inodes)]
    BY <2>1, FlushFollows
  <2>3. <<>> \in Seq(Inodes)
    OBVIOUS
  <2> QED BY <1>10, <2>2, <2>3 DEF Spill
<1>11. CASE CommitFlush(p)
  <2>1. out[p] \in Inodes /\ plan[p] \in Contents /\ FollowsPlan(p)
    BY <1>11, <1>0 DEF CommitFlush, Uses, Owned, PlansAreFollowed, WritesItsPlan
  <2>2. Flushed(p) \in [Inodes -> Seq(Inodes)]
    BY <2>1, FlushFollows
  <2>3. <<>> \in Seq(Inodes)
    OBVIOUS
  <2> QED BY <1>11, <2>2, <2>3 DEF CommitFlush
<1>12. CASE CopyPermissions(p)
  <2>1. ~created[p] => dir[Archive] \in Inodes
    BY <1>12 DEF CopyPermissions
  <2>2. CopiedMode(p) \in [Inodes -> {"custom", "default", "private"}]
    BY <2>1 DEF CopiedMode
  <2> QED BY <1>12, <2>2 DEF CopyPermissions
<1>13. CASE CloseTemp(p)
  BY <1>13, <1>0 DEF CloseTemp
<1>14. CASE Rename(p)
  <2>1. Forget(p)
    BY <1>14 DEF Rename
  <2>2. dir[tmpname[p]] \in Inodes
    BY <1>14 DEF Rename, NamesAreOwn, Uses, Owned
  <2> QED BY <1>14, <2>1, <2>2, ForgetType DEF Rename
<1>15. CASE CommitFails(p)
  BY <1>15, <1>0 DEF CommitFails
<1>16. CASE Rollback(p)
  <2>1. Forget(p)
    BY <1>16 DEF Rollback
  <2> QED BY <1>16, <2>1, ForgetType DEF Rollback
<1>17. CASE Crash(p)
  <2>1. Forget(p)
    BY <1>17 DEF Crash
  <2> QED BY <1>17, <2>1, ForgetType DEF Crash
<1>18. CASE WinOpenSource(p)
  BY <1>18, <1>0 DEF WinOpenSource, OpenSource
<1>19. CASE WinRemoveArchive(p)
  BY <1>19, <1>0 DEF WinRemoveArchive, RemoveArchive
<1>20. CASE \E t \in Temps : WinCreateTemp(p, t)
  <2>1. PICK t \in Temps : WinCreateTemp(p, t)
    BY <1>20
  <2>2. next \in Inodes /\ [k \in 1..Parts |-> next] \in Contents
    BY <1>0, <1>00, <2>1 DEF WinCreateTemp
  <2> QED BY <1>0, <2>1, <2>2 DEF WinCreateTemp
<1>21. CASE WinWrite(p)
  <2>1. out[p] \in Inodes /\ plan[p] \in Contents
    BY <1>21, <1>0 DEF WinWrite, Uses, Owned, PlansAreFollowed, WritesItsPlan
  <2>2. Len(data[out[p]]) \in Nat
    BY <2>1
  <2>3. plan[p][Len(data[out[p]]) + 1] \in Inodes
    BY <1>21, <2>1, <2>2 DEF WinWrite, Contents
  <2>4. Append(data[out[p]], plan[p][Len(data[out[p]]) + 1]) \in Seq(Inodes)
    BY <2>1, <2>3
  <2> QED BY <1>21, <2>4 DEF WinWrite
<1>22. CASE WinClearTemporary(p)
  BY <1>22, <1>0 DEF WinClearTemporary
<1>23. CASE WinMove(p)
  BY <1>23, <1>0 DEF WinMove
<1>24. CASE WinCloseTemp(p)
  <2>1. Forget(p)
    BY <1>24 DEF WinCloseTemp
  <2> QED BY <1>24, <2>1, ForgetType DEF WinCloseTemp
<1>25. CASE WinCommitFails(p)
  BY <1>25, <1>0 DEF WinCommitFails
<1>26. CASE WinRollback(p)
  <2>1. Forget(p)
    BY <1>26 DEF WinRollback, Rollback
  <2> QED BY <1>26, <2>1, ForgetType DEF WinRollback, Rollback
<1> QED
  BY <1>1, <1>2, <1>3, <1>4, <1>5, <1>6, <1>7, <1>8, <1>9, <1>10, <1>11, <1>12, <1>13,
     <1>14, <1>15, <1>16, <1>17, <1>18, <1>19, <1>20, <1>21, <1>22, <1>23, <1>24, <1>25,
     <1>26 DEF Steps, Step, WinStep

\* A step of p writes what comes next in its plan, and the mode it gives the file.
LEMMA OwnPlanFollowed ==
    ASSUME IInv, NEW p \in Processes, Steps(p)
    PROVE  WritesItsPlan(p)' /\ ModeIsPublic(p)'
<1> USE DEF IInv, TypeOK, fileSystem, local, Goto
<1>0. /\ Uses(p) => out[p] \in Inodes
      /\ platform' = platform /\ WritesItsPlan(p) /\ ModeIsPublic(p)
  BY DEF NamesAreOwn, Steps, PlansAreFollowed, ModesArePublic
<1>1. CASE OpenSource(p)
  BY <1>1, <1>0 DEF OpenSource, WritesItsPlan, ModeIsPublic, FollowsPlan
<1>2. CASE CloseSource(p)
  BY <1>2, <1>0 DEF CloseSource, WritesItsPlan, ModeIsPublic, FollowsPlan
<1>3. CASE RemoveArchive(p)
  BY <1>3, <1>0 DEF RemoveArchive, WritesItsPlan, ModeIsPublic, FollowsPlan
<1>4. CASE StatArchive(p)
  BY <1>4, <1>0 DEF StatArchive, WritesItsPlan, ModeIsPublic, FollowsPlan
<1>5. CASE platform = "unix" /\ (\E t \in Temps : CreateTemp(p, t))
  <2>1. PICK t \in Temps : CreateTemp(p, t)
    BY <1>5
  <2>2. Opened(t) = next /\ next \in Inodes /\ data[next] = <<>> /\ buffer[p] = <<>>
    BY <1>0, <2>1 DEF CreateTemp, Opened, FreeNames, Inodes, InodesAreOld, WritesItsPlan
  <2>3. /\ data'[out'[p]] = <<>> /\ buffer'[p] = <<>> /\ f' = f
        /\ created'[p] => mode'[out'[p]] = "default"
    BY <2>1, <2>2 DEF CreateTemp
  <2>4. CASE pc[p] = "create"
    <3>1. pc'[p] = "writing" /\ plan'[p] \in whole'
      BY <2>1, <2>2, <2>4 DEF CreateTemp
    <3> QED BY <2>3, <3>1 DEF WritesItsPlan, ModeIsPublic, FollowsPlan
  <2>5. CASE pc[p] = "create_cloning"
    <3>1. pc'[p] = "clone" /\ f[p] # NONE
      BY <1>0, <2>1, <2>5 DEF CreateTemp, WritesItsPlan
    <3> QED BY <2>3, <3>1 DEF WritesItsPlan, ModeIsPublic
  <2> QED BY <2>1, <2>4, <2>5 DEF CreateTemp
<1>6. CASE CreateTempFails(p)
  BY <1>6, <1>0 DEF CreateTempFails, WritesItsPlan, ModeIsPublic, FollowsPlan
<1>7. CASE platform = "unix" /\ CloneArchive(p)
  <2>1. out[p] \in Inodes /\ f[p] \in Inodes /\ data[f[p]] \in Contents /\ buffer[p] = <<>>
    BY <1>7, <1>0 DEF CloneArchive, Uses, Owned, WritesItsPlan, ReadersSeeWhole
  <2> DEFINE d == SubSeq(data[f[p]], 1, 1)
  <2>2. d \in Seq(Inodes) /\ Len(d) = 1 /\ d[1] = data[f[p]][1]
    BY <2>1, ContentsAreSequences, SubSeqProperties
  <2>3. /\ data'[out'[p]] = d /\ plan'[p][1] = d[1] /\ buffer'[p] = <<>>
        /\ plan'[p] \in whole' /\ pc'[p] = "writing" /\ UNCHANGED <<mode, created, out>>
    BY <1>7, <2>1, <2>2 DEF CloneArchive, Cloned
  <2>4. FollowsPlan(p)'
    BY <2>2, <2>3 DEF FollowsPlan
  <2> QED BY <1>0, <1>7, <2>3, <2>4 DEF WritesItsPlan, ModeIsPublic, CloneArchive
<1>8. CASE CloneFails(p)
  <2>1. pc'[p] = "idle" /\ buffer'[p] = <<>>
    BY <1>8 DEF CloneFails, Forget
  <2> QED BY <2>1 DEF WritesItsPlan, ModeIsPublic
<1>9. CASE platform = "unix" /\ Write(p)
  <2> DEFINE done == Len(data[out[p]]) + Len(buffer[p])
  <2>1. out[p] \in Inodes /\ plan[p] \in Contents /\ FollowsPlan(p) /\ plan[p] \in whole
    BY <1>9, <1>0 DEF Write, Uses, Owned, WritesItsPlan
  <2>2. /\ done < Parts /\ pc'[p] = "writing"
        /\ buffer'[p] = Append(buffer[p], plan[p][done + 1])
        /\ UNCHANGED <<data, out, plan, whole, mode, created>>
    BY <1>9 DEF Write
  <2>3. /\ Len(buffer'[p]) = Len(buffer[p]) + 1
        /\ \A k \in 1 .. Len(buffer[p]) : buffer'[p][k] = buffer[p][k]
        /\ buffer'[p][Len(buffer[p]) + 1] = plan[p][done + 1]
    BY <2>2, AppendProperties
  <2>4. Len(data[out[p]]) \in Nat /\ Len(buffer[p]) \in Nat
    BY <2>1
  <2>5. FollowsPlan(p)'
    <3>1. ASSUME NEW k \in 1 .. Len(buffer[p]) + 1
          PROVE  buffer'[p][k] = plan[p][Len(data[out[p]]) + k]
      <4>1. CASE k = Len(buffer[p]) + 1
        <5>1. Len(data[out[p]]) + k = done + 1
          <6>1. \A m, n \in Nat : m + (n + 1) = m + n + 1
            OBVIOUS
          <6> QED BY <2>4, <4>1, <6>1
        <5> QED BY <2>3, <4>1, <5>1
      <4>2. CASE k \in 1 .. Len(buffer[p])
        BY <2>1, <2>3, <4>2 DEF FollowsPlan
      <4> QED BY <2>4, <4>1, <4>2
    <3>2. Len(data[out[p]]) + (Len(buffer[p]) + 1) <= Parts
      <4>1. \A m, n \in Nat : m + n < Parts => m + (n + 1) <= Parts
        OBVIOUS
      <4> QED BY <2>2, <2>4, <4>1
    <3> QED BY <2>1, <2>2, <2>3, <3>1, <3>2 DEF FollowsPlan
  <2> QED BY <1>0, <1>9, <2>1, <2>2, <2>5 DEF WritesItsPlan, ModeIsPublic, Write
<1>10. CASE platform = "unix" /\ Spill(p)
  <2>1. out[p] \in Inodes /\ plan[p] \in Contents /\ FollowsPlan(p) /\ plan[p] \in whole
    BY <1>10, <1>0 DEF Spill, Uses, Owned, WritesItsPlan
  <2>2. /\ Len(Flushed(p)[out[p]]) = Len(data[out[p]]) + Len(buffer[p])
        /\ \A k \in 1 .. Len(Flushed(p)[out[p]]) : Flushed(p)[out[p]][k] = plan[p][k]
    BY <2>1, FlushFollows
  <2>3. /\ data' = Flushed(p) /\ buffer'[p] = <<>> /\ pc'[p] = "writing"
        /\ UNCHANGED <<out, plan, whole, mode, created>>
    BY <1>10 DEF Spill
  <2>4. FollowsPlan(p)'
    BY <2>1, <2>2, <2>3 DEF FollowsPlan
  <2> QED BY <1>0, <1>10, <2>1, <2>3, <2>4 DEF WritesItsPlan, ModeIsPublic, Spill
<1>11. CASE platform = "unix" /\ CommitFlush(p)
  <2>1. out[p] \in Inodes /\ plan[p] \in Contents /\ FollowsPlan(p) /\ plan[p] \in whole
    BY <1>11, <1>0 DEF CommitFlush, Uses, Owned, WritesItsPlan
  <2>2. /\ Len(Flushed(p)[out[p]]) = Parts /\ Flushed(p)[out[p]] \in Seq(Inodes)
        /\ \A k \in 1 .. Len(Flushed(p)[out[p]]) : Flushed(p)[out[p]][k] = plan[p][k]
    BY <1>11, <2>1, FlushFollows DEF CommitFlush
  <2>3. Flushed(p)[out[p]] = plan[p]
    BY <2>1, <2>2, AllPartsAreWhole
  <2>4. /\ data' = Flushed(p) /\ buffer'[p] = <<>> /\ pc'[p] = "flushed"
        /\ UNCHANGED <<out, plan, whole, mode, created>>
    BY <1>11 DEF CommitFlush
  <2> QED BY <1>0, <1>11, <2>1, <2>3, <2>4 DEF WritesItsPlan, ModeIsPublic, CommitFlush
<1>12. CASE platform = "unix" /\ CopyPermissions(p)
  <2>1. pc[p] = "flushed" /\ pc'[p] = "copied" /\ UNCHANGED <<data, whole, out, buffer, plan, created>>
    BY <1>12 DEF CopyPermissions
  <2>2. WritesItsPlan(p)'
    BY <1>0, <2>1 DEF WritesItsPlan
  <2>3. mode'[out[p]] # "private"
    <3>1. CASE created[p]
      BY <1>0, <1>12, <2>1, <3>1 DEF CopyPermissions, CopiedMode, ModeIsPublic
    <3>2. CASE ~created[p]
      <4>1. out[p] \in Inodes
        BY <1>0, <2>1 DEF Uses, Owned
      <4> QED BY <1>12, <3>2, <4>1 DEF CopyPermissions, CopiedMode, ReadersSeeWhole
    <3> QED BY <3>1, <3>2
  <2> QED BY <2>1, <2>2, <2>3 DEF ModeIsPublic
<1>13. CASE CloseTemp(p)
  BY <1>13, <1>0 DEF CloseTemp, WritesItsPlan, ModeIsPublic, FollowsPlan
<1>14. CASE Rename(p)
  <2>1. pc'[p] = "idle" /\ buffer'[p] = <<>>
    BY <1>14 DEF Rename, Forget
  <2> QED BY <2>1 DEF WritesItsPlan, ModeIsPublic
<1>15. CASE CommitFails(p)
  BY <1>15, <1>0 DEF CommitFails, WritesItsPlan, ModeIsPublic, FollowsPlan
<1>16. CASE Rollback(p)
  <2>1. pc'[p] = "idle" /\ buffer'[p] = <<>>
    BY <1>16 DEF Rollback, Forget
  <2> QED BY <2>1 DEF WritesItsPlan, ModeIsPublic
<1>17. CASE Crash(p)
  <2>1. pc'[p] = "idle" /\ buffer'[p] = <<>>
    BY <1>17 DEF Crash, Forget
  <2> QED BY <2>1 DEF WritesItsPlan, ModeIsPublic
<1>18. CASE WinOpenSource(p)
  BY <1>18, <1>0 DEF WinOpenSource, OpenSource, WritesItsPlan, ModeIsPublic, FollowsPlan
<1>19. CASE WinRemoveArchive(p)
  BY <1>19, <1>0 DEF WinRemoveArchive, RemoveArchive, WritesItsPlan, ModeIsPublic, FollowsPlan
<1>20. CASE platform = "windows" /\ (\E t \in Temps : WinCreateTemp(p, t))
  <2>1. PICK t \in Temps : WinCreateTemp(p, t)
    BY <1>20
  <2>2. next \in Inodes /\ data[next] = <<>> /\ buffer[p] = <<>>
    BY <1>0, <2>1 DEF WinCreateTemp, Inodes, InodesAreOld, WritesItsPlan
  <2>3. /\ data'[out'[p]] = <<>> /\ buffer'[p] = <<>> /\ pc'[p] = "writing"
        /\ plan'[p] \in whole'
    BY <2>1, <2>2 DEF WinCreateTemp
  <2> QED BY <1>0, <1>20, <2>3 DEF WritesItsPlan, ModeIsPublic, FollowsPlan
<1>21. CASE platform = "windows" /\ WinWrite(p)
  <2> DEFINE done == Len(data[out[p]])
  <2>1. /\ out[p] \in Inodes /\ plan[p] \in Contents /\ FollowsPlan(p) /\ plan[p] \in whole
        /\ buffer[p] = <<>>
    BY <1>21, <1>0 DEF WinWrite, Uses, Owned, WritesItsPlan
  <2>2. /\ done < Parts /\ pc'[p] = "writing"
        /\ data'[out[p]] = Append(data[out[p]], plan[p][done + 1])
        /\ UNCHANGED <<buffer, out, plan, whole>>
    BY <1>21, <2>1 DEF WinWrite
  <2>3. /\ Len(data'[out[p]]) = done + 1
        /\ \A k \in 1 .. done : data'[out[p]][k] = data[out[p]][k]
        /\ data'[out[p]][done + 1] = plan[p][done + 1]
    BY <2>1, <2>2, AppendProperties
  <2>4. done \in Nat
    BY <2>1
  <2>5. FollowsPlan(p)'
    <3>1. ASSUME NEW k \in 1 .. done + 1
          PROVE  data'[out[p]][k] = plan[p][k]
      <4>1. CASE k = done + 1
        BY <2>3, <4>1
      <4>2. CASE k \in 1 .. done
        BY <2>1, <2>3, <4>2 DEF FollowsPlan
      <4> QED BY <2>4, <4>1, <4>2
    <3>2. /\ done + 1 + Len(buffer'[p]) <= Parts
          /\ \A k \in 1 .. Len(buffer'[p]) : buffer'[p][k] = plan[p][done + 1 + k]
      <4>1. Len(buffer'[p]) = 0
        BY <2>1, <2>2
      <4> QED BY <2>2, <2>4, <4>1
    <3>3. out'[p] = out[p] /\ plan'[p] = plan[p]
      BY <2>2
    <3> HIDE DEF done
    <3> QED BY <2>3, <3>1, <3>2, <3>3 DEF FollowsPlan
  <2> QED BY <1>0, <1>21, <2>1, <2>2, <2>5 DEF WritesItsPlan, ModeIsPublic
<1>22. CASE platform = "windows" /\ WinClearTemporary(p)
  <2>1. /\ out[p] \in Inodes /\ plan[p] \in Contents /\ FollowsPlan(p) /\ plan[p] \in whole
        /\ buffer[p] = <<>>
    BY <1>22, <1>0 DEF WinClearTemporary, Uses, Owned, WritesItsPlan
  <2>2. data[out[p]] = plan[p]
    BY <1>22, <2>1, AllPartsAreWhole DEF WinClearTemporary, FollowsPlan
  <2>3. /\ pc'[p] = "copied" /\ mode'[out[p]] # "private"
        /\ UNCHANGED <<data, whole, out, buffer, plan>>
    BY <1>22, <2>1 DEF WinClearTemporary
  <2> QED BY <2>1, <2>2, <2>3 DEF WritesItsPlan, ModeIsPublic
<1>23. CASE WinMove(p)
  BY <1>23, <1>0 DEF WinMove, WritesItsPlan, ModeIsPublic, FollowsPlan
<1>24. CASE WinCloseTemp(p)
  <2>1. pc'[p] = "idle" /\ buffer'[p] = <<>>
    BY <1>24 DEF WinCloseTemp, Forget
  <2> QED BY <2>1 DEF WritesItsPlan, ModeIsPublic
<1>25. CASE WinCommitFails(p)
  BY <1>25, <1>0 DEF WinCommitFails, WritesItsPlan, ModeIsPublic, FollowsPlan
<1>26. CASE WinRollback(p)
  <2>1. pc'[p] = "idle" /\ buffer'[p] = <<>>
    BY <1>26 DEF WinRollback, Rollback, Forget
  <2> QED BY <2>1 DEF WritesItsPlan, ModeIsPublic
<1> QED
  BY <1>1, <1>2, <1>3, <1>4, <1>5, <1>6, <1>7, <1>8, <1>9, <1>10, <1>11, <1>12, <1>13,
     <1>14, <1>15, <1>16, <1>17, <1>18, <1>19, <1>20, <1>21, <1>22, <1>23, <1>24, <1>25,
     <1>26 DEF Steps, Step, WinStep

(***************************************************************************)
(* The theorems.                                                           *)
(***************************************************************************)

\* The invariant holds before anything is written.
LEMMA InitInvariant ==
    ASSUME PlatformInit
    PROVE  IInv
<1> USE DEF PlatformInit, Init
<1>1. [k \in 1..Parts |-> 0] \in Contents /\ 0 \in Inodes
  BY DEF Contents, Inodes
<1>2. data[0] = [k \in 1..Parts |-> 0] /\ \A i \in Inodes : i >= 1 => data[i] = <<>>
  BY <1>1
<1>3. TypeOK
  <2>1. data \in [Inodes -> Seq(Inodes)] /\ <<>> \in Seq(Inodes)
    BY <1>1, ContentsAreSequences
  <2>2. dir \in [FileNames -> Inodes \cup {NONE}] /\ next \in 1 .. MaxInode + 1
    BY <1>1
  <2> QED BY <1>1, <2>1, <2>2 DEF TypeOK
<1>4. InodesAreOld
  BY <1>2 DEF InodesAreOld
<1>5. NamesAreOwn /\ OutputsArePrivate /\ ModesArePublic
  BY DEF NamesAreOwn, OutputsArePrivate, ModesArePublic, ModeIsPublic, Uses, Owns, Owned
<1>6. PlansAreFollowed
  BY DEF PlansAreFollowed, WritesItsPlan
<1>7. ReadersSeeWhole /\ NoTempLeft
  BY <1>1, <1>2 DEF ReadersSeeWhole, NoTempLeft, FileNames
<1> QED BY <1>3, <1>4, <1>5, <1>6, <1>7 DEF IInv

\* Every step keeps the invariant.
LEMMA StepInvariant ==
    ASSUME IInv, NEW p \in Processes, Steps(p)
    PROVE  IInv'
<1>1. platform' \in {"unix", "windows"}
  BY DEF IInv, Steps
<1>2. TypeOK'
  BY TypeStep
<1>3. InodesAreOld' /\ NamesAreOwn' /\ OutputsArePrivate'
  BY InodesStayOld, NamesStayOwn, OutputsStayPrivate
<1>4. PlansAreFollowed' /\ ModesArePublic'
  BY OthersStayOnPlan, OwnPlanFollowed DEF PlansAreFollowed, ModesArePublic
<1>5. ReadersSeeWhole' /\ NoTempLeft'
  BY ReadersStillSeeWhole, StillNoTempLeft
<1> QED BY <1>1, <1>2, <1>3, <1>4, <1>5 DEF IInv

\* The invariant depends on nothing but the variables.
LEMMA StutterInvariant ==
    ASSUME IInv, UNCHANGED <<vars, platform>>
    PROVE  IInv'
BY DEF IInv, TypeOK, InodesAreOld, NamesAreOwn, OutputsArePrivate, OutputIsPrivate, PlansAreFollowed,
       WritesItsPlan, FollowsPlan, ModesArePublic, ModeIsPublic, ReadersSeeWhole, NoTempLeft,
       Uses, Owns, vars, fileSystem, local

\* Every step is a step of some process on its platform.
LEMMA NextSteps ==
    ASSUME PlatformNext
    PROVE  \E p \in Processes : Steps(p)
BY DEF PlatformNext, Next, WinNext, Steps

\* What is claimed of the files holds in every state of every execution.
THEOREM FilesInvariant == PlatformSpec => []IInv
<1>1. PlatformInit => IInv
  BY InitInvariant
<1>2. IInv /\ [PlatformNext]_<<vars, platform>> => IInv'
  BY NextSteps, StepInvariant, StutterInvariant
<1> QED BY <1>1, <1>2, PTL DEF PlatformSpec

\* Every variable keeps its type.
THEOREM TypesCorrect == PlatformSpec => []TypeOK
<1>1. IInv => TypeOK
  BY DEF IInv
<1> QED BY <1>1, FilesInvariant, PTL

\* Whoever has the archive open, or opens it, sees all of something that some
\* process set out to write: nobody writes to the inode behind an archive.
THEOREM ReadersAlwaysSeeWhole == PlatformSpec => []ReadersSeeWhole
<1>1. IInv => ReadersSeeWhole
  BY DEF IInv
<1> QED BY <1>1, FilesInvariant, PTL

\* A temporary file has a process that is writing it or one that died.
THEOREM NoTempIsLeft == PlatformSpec => []NoTempLeft
<1>1. IInv => NoTempLeft
  BY DEF IInv
<1> QED BY <1>1, FilesInvariant, PTL

(***************************************************************************)
(* Writing is atomic.                                                      *)
(***************************************************************************)

\* Only removing it and committing change which file the archive is, and a
\* plan does not change while it is being carried out.
CommitFrame(p) ==
    /\ \/ dir'[Archive] = dir[Archive]
       \/ dir'[Archive] = NONE /\ pc[p] \notin Writing /\ pc'[p] = pc[p]
       \/ /\ dir'[Archive] = out[p] /\ pc[p] \in {"copied", "closed"}
          /\ pc'[p] \notin Writing /\ data' = data
    /\ pc[p] \in Writing /\ pc'[p] \in Writing => plan'[p] = plan[p]

\* A step changes the archive only as CommitFrame says.
LEMMA StepCommits ==
    ASSUME TypeOK, NamesAreOwn, OutputsArePrivate, NEW p \in Processes, Steps(p)
    PROVE  CommitFrame(p)
<1> USE DEF TypeOK, fileSystem, local, Goto, Forget, Removed, FileNames, FreeNames, Writing, CommitFrame
<1>0. /\ Owns(p) => tmpname[p] \in Temps /\ dir[tmpname[p]] = out[p]
      /\ Uses(p) => tmpname[p] # Archive
  BY DEF NamesAreOwn, OutputsArePrivate, OutputIsPrivate, Owns, Uses
<1>1. CASE OpenSource(p)
  BY <1>0, <1>1 DEF OpenSource, Owns, Uses, Owned
<1>2. CASE CloseSource(p)
  BY <1>0, <1>2 DEF CloseSource, Owns, Uses, Owned
<1>3. CASE RemoveArchive(p)
  BY <1>0, <1>3 DEF RemoveArchive, Owns, Uses, Owned
<1>4. CASE StatArchive(p)
  BY <1>0, <1>4 DEF StatArchive, Owns, Uses, Owned
<1>5. CASE \E t \in Temps : CreateTemp(p, t)
  BY <1>0, <1>5 DEF CreateTemp, Owns, Uses, Owned
<1>6. CASE CreateTempFails(p)
  BY <1>0, <1>6 DEF CreateTempFails, Owns, Uses, Owned
<1>7. CASE CloneArchive(p)
  BY <1>0, <1>7 DEF CloneArchive, Owns, Uses, Owned
<1>8. CASE CloneFails(p)
  BY <1>0, <1>8 DEF CloneFails, Owns, Uses, Owned
<1>9. CASE Write(p)
  BY <1>0, <1>9 DEF Write, Owns, Uses, Owned
<1>10. CASE Spill(p)
  BY <1>0, <1>10 DEF Spill, Owns, Uses, Owned
<1>11. CASE CommitFlush(p)
  BY <1>0, <1>11 DEF CommitFlush, Owns, Uses, Owned
<1>12. CASE CopyPermissions(p)
  BY <1>0, <1>12 DEF CopyPermissions, Owns, Uses, Owned
<1>13. CASE CloseTemp(p)
  BY <1>0, <1>13 DEF CloseTemp, Owns, Uses, Owned
<1>14. CASE Rename(p)
  BY <1>0, <1>14 DEF Rename, Owns, Uses, Owned
<1>15. CASE CommitFails(p)
  BY <1>0, <1>15 DEF CommitFails, Owns, Uses, Owned
<1>16. CASE Rollback(p)
  BY <1>0, <1>16 DEF Rollback, Owns, Uses, Owned
<1>17. CASE Crash(p)
  BY <1>0, <1>17 DEF Crash, Owns, Uses, Owned
<1>18. CASE WinOpenSource(p)
  BY <1>0, <1>18 DEF WinOpenSource, OpenSource, Owns, Uses, Owned
<1>19. CASE WinRemoveArchive(p)
  BY <1>0, <1>19 DEF WinRemoveArchive, RemoveArchive, Owns, Uses, Owned
<1>20. CASE \E t \in Temps : WinCreateTemp(p, t)
  BY <1>0, <1>20 DEF WinCreateTemp, Owns, Uses, Owned
<1>21. CASE WinWrite(p)
  BY <1>0, <1>21 DEF WinWrite, Owns, Uses, Owned
<1>22. CASE WinClearTemporary(p)
  BY <1>0, <1>22 DEF WinClearTemporary, Owns, Uses, Owned
<1>23. CASE WinMove(p)
  BY <1>0, <1>23 DEF WinMove, Owns, Uses, Owned
<1>24. CASE WinCloseTemp(p)
  BY <1>0, <1>24 DEF WinCloseTemp, Owns, Uses, Owned
<1>25. CASE WinCommitFails(p)
  BY <1>0, <1>25 DEF WinCommitFails, Owns, Uses, Owned
<1>26. CASE WinRollback(p)
  BY <1>0, <1>26 DEF WinRollback, Rollback, Owns, Uses, Owned
<1> QED
  BY <1>1, <1>2, <1>3, <1>4, <1>5, <1>6, <1>7, <1>8, <1>9, <1>10, <1>11, <1>12, <1>13,
     <1>14, <1>15, <1>16, <1>17, <1>18, <1>19, <1>20, <1>21, <1>22, <1>23, <1>24, <1>25,
     <1>26 DEF Steps, Step, WinStep

\* The mapped variables of AtomicFile have their types.
LEMMA FileContents ==
    ASSUME IInv
    PROVE  /\ ArchiveContents \in Contents \cup {NONE}
           /\ \A p \in Processes : pc[p] \in Writing => Pending[p] = plan[p] /\ plan[p] \in Contents
           /\ \A p \in Processes : pc[p] \notin Writing => Pending[p] = NONE
BY DEF IInv, TypeOK, ReadersSeeWhole, PlansAreFollowed, WritesItsPlan, ArchiveContents, Pending, Writing

\* A step of p is one that the atomic file allows.
LEMMA StepImplements ==
    ASSUME IInv, IInv', NEW p \in Processes, Steps(p)
    PROVE  Atomic!Next \/ UNCHANGED <<ArchiveContents, Pending>>
<1>1. OthersWait(p) /\ InodeFrame(p) /\ CommitFrame(p)
  BY StepFrame, StepCommits DEF IInv
<1>2. TypeOK /\ NamesAreOwn /\ OutputsArePrivate /\ WritesItsPlan(p)
  BY DEF IInv, PlansAreFollowed
<1>3. Pending' = [Pending EXCEPT ![p] = Pending'[p]]
  <2>1. \A q \in Processes \ {p} : Pending'[q] = Pending[q]
    BY <1>1 DEF Pending, OthersWait
  <2> QED BY <2>1 DEF Pending
<1>4. Pending[p] = IF pc[p] \in Writing THEN plan[p] ELSE NONE
  BY DEF Pending
<1>5. Pending'[p] = IF pc'[p] \in Writing THEN plan'[p] ELSE NONE
  BY DEF Pending
<1>9. pc'[p] \in Writing => plan'[p] \in Contents
  BY DEF IInv, TypeOK, PlansAreFollowed, WritesItsPlan, Writing
<1>6. CASE dir'[Archive] = dir[Archive]
  <2>1. ArchiveContents' = ArchiveContents
    <3>1. Owns(p) => dir[Archive] # out[p]
      BY <1>2 DEF NamesAreOwn, OutputsArePrivate, OutputIsPrivate, Owns, Uses, FileNames
    <3>2. dir[Archive] \in Inodes \cup {NONE}
      BY <1>2 DEF TypeOK, FileNames
    <3> QED BY <1>1, <1>6, <3>1, <3>2 DEF ArchiveContents, InodeFrame
  <2>2. CASE pc[p] \in Writing /\ pc'[p] \in Writing
    <3>1. Pending' = Pending
      BY <1>1, <1>3, <1>4, <1>5, <2>2 DEF CommitFrame, Pending
    <3> QED BY <2>1, <3>1
  <2>3. CASE pc[p] \notin Writing /\ pc'[p] \in Writing
    <3>1. Pending[p] = NONE /\ Pending'[p] \in Contents
      BY <1>4, <1>5, <2>3, <1>9
    <3> QED BY <1>3, <2>1, <3>1 DEF Atomic!Next, Atomic!Begin
  <2>4. CASE pc'[p] \notin Writing
    <3>1. Pending' = [Pending EXCEPT ![p] = NONE]
      BY <1>3, <1>5, <2>4
    <3> QED BY <2>1, <3>1 DEF Atomic!Next, Atomic!Abort
  <2> QED BY <2>2, <2>3, <2>4
<1>7. CASE dir'[Archive] = NONE /\ pc[p] \notin Writing /\ pc'[p] = pc[p]
  <2>1. ArchiveContents' = NONE /\ Pending[p] = NONE /\ Pending'[p] = NONE
    BY <1>4, <1>5, <1>7 DEF ArchiveContents
  <2>2. Pending' = Pending
    BY <1>3, <2>1 DEF Pending
  <2> QED BY <2>1, <2>2 DEF Atomic!Next, Atomic!Remove
<1>8. CASE /\ dir'[Archive] = out[p] /\ pc[p] \in {"copied", "closed"}
           /\ pc'[p] \notin Writing /\ data' = data
  <2>1. plan[p] \in Contents /\ data[out[p]] = plan[p] /\ out[p] # NONE
    BY <1>2, <1>8 DEF WritesItsPlan, TypeOK, NamesAreOwn, Uses, Owned, Inodes
  <2>2. Pending[p] = plan[p] /\ Pending[p] # NONE
    BY <1>4, <1>8, <2>1 DEF Writing
  <2>3. ArchiveContents' = Pending[p]
    BY <1>8, <2>1, <2>2 DEF ArchiveContents
  <2>4. Pending' = [Pending EXCEPT ![p] = NONE]
    BY <1>3, <1>5, <1>8
  <2> QED BY <2>2, <2>3, <2>4 DEF Atomic!Next, Atomic!Commit
<1> QED BY <1>1, <1>6, <1>7, <1>8 DEF CommitFrame

\* The archive changes only when a process commits what it set out to write,
\* as a whole, or removes it.
THEOREM WritingIsAtomic == PlatformSpec => ImplementsAtomicFile
<1>1. PlatformInit => Atomic!Init
  <2> SUFFICES ASSUME PlatformInit
               PROVE  Atomic!Init
    OBVIOUS
  <2>1. IInv
    BY InitInvariant
  <2>2. Pending = [p \in Processes |-> NONE]
    BY DEF Pending, PlatformInit, Init, Writing
  <2> QED BY <2>1, <2>2, FileContents DEF Atomic!Init
<1>2. IInv /\ IInv' /\ [PlatformNext]_<<vars, platform>>
          => [Atomic!Next]_<<ArchiveContents, Pending>>
  <2>1. ASSUME IInv, IInv', PlatformNext
        PROVE  [Atomic!Next]_<<ArchiveContents, Pending>>
    BY <2>1, NextSteps, StepImplements
  <2>2. UNCHANGED <<vars, platform>> => UNCHANGED <<ArchiveContents, Pending>>
    BY DEF vars, fileSystem, local, ArchiveContents, Pending
  <2> QED BY <2>1, <2>2
<1> QED BY <1>1, <1>2, FilesInvariant, PTL DEF PlatformSpec, ImplementsAtomicFile, Atomic!Spec

(***************************************************************************)
(* The inductive invariant.                                                *)
(***************************************************************************)

Context ==
    [named: BOOLEAN, start: Nat, len: Nat, size: Int, seekable: BOOLEAN, missing: BOOLEAN,
     handle: [file: 0..MaxFiles, position: Nat], offset: Nat,
     open_count: Nat, eof: BOOLEAN, had_read_error: BOOLEAN,
     placed: BOOLEAN, got: Seq(Nat \X Nat)]

ReaderTypeOK ==
    /\ os \in {"unix", "windows"}
    /\ path \in NoDirectory..MaxFiles
    /\ lengths \in [1..MaxFiles -> Nat]
    /\ stream \in [file: 0..MaxFiles, position: Nat, regular: BOOLEAN]
    /\ Made => source \in Context

\* The source is not past the end of its part, its file is where the source
\* takes it to be, and what was read last came from there.
Together ==
    IsOpen =>
        /\ source.len > 0 => source.offset <= source.len
        /\ source.placed =>
             /\ Handle.position = source.start + source.offset
             /\ InItsPart

ReaderInv == ReaderTypeOK /\ Together

USE ReaderAssumption DEF NoFile, Directory, NoDirectory

\* The smaller of two numbers.
LEMMA SmallerType ==
    ASSUME NEW a \in Nat, NEW b \in Nat
    PROVE  /\ Smaller(a, b) \in Nat /\ Smaller(a, b) <= a /\ Smaller(a, b) <= b
           /\ Smaller(a, b) = a \/ Smaller(a, b) = b
BY DEF Smaller

\* The length of a sequence that is given place by place.
LEMMA LengthOf ==
    ASSUME NEW S, NEW k \in Nat, NEW s \in [1..k -> S]
    PROVE  s \in Seq(S) /\ Len(s) = k
OBVIOUS

\* Nothing read is a sequence of bytes.
LEMMA NothingRead ==
    /\ <<>> \in Seq(Nat \X Nat)
    /\ Len(<<>>) = 0
    /\ \A k \in 1..Len(<<>>) : FALSE
OBVIOUS

\* At the start there is no source.
LEMMA InitReader == ReaderInit => ReaderInv
<1> SUFFICES ASSUME ReaderInit PROVE ReaderInv
  OBVIOUS
<1>1. ~Made
  BY DEF ReaderInit, Made
<1>2. lengths \in [1..MaxFiles -> Nat]
  BY DEF ReaderInit, Lengths
<1>3. os \in {"unix", "windows"} /\ path \in -2..MaxFiles
  BY DEF ReaderInit
<1>4. stream \in [file: 0..MaxFiles, position: Nat, regular: BOOLEAN]
  <2>1. {1} \subseteq 0..MaxFiles /\ {0, 1} \subseteq Nat /\ 0 \in 0..MaxFiles
    OBVIOUS
  <2>2. \/ stream = [file |-> 0, position |-> 0, regular |-> FALSE]
        \/ stream \in [file : {1}, position : {0, 1}, regular : BOOLEAN]
    BY DEF ReaderInit
  <2>3. CASE stream = [file |-> 0, position |-> 0, regular |-> FALSE]
    BY <2>1, <2>3
  <2>4. CASE stream \in [file : {1}, position : {0, 1}, regular : BOOLEAN]
    BY <2>1, <2>4
  <2>5. QED
    BY <2>2, <2>3, <2>4
<1>5. QED
  BY <1>1, <1>2, <1>3, <1>4 DEF ReaderInv, ReaderTypeOK, Together, IsOpen

\* What the operating system says of a file.
LEMMA StatType ==
    ASSUME ReaderTypeOK, NEW named \in BOOLEAN, ~named => stream.file # 0
    PROVE  Stat(named) \in [exists: BOOLEAN, regular: BOOLEAN, size: Nat]
BY DEF ReaderTypeOK, Stat, UnixStat, WinStat

\* A new source is not open.
LEMMA CreateType ==
    ASSUME ReaderTypeOK, NEW named \in BOOLEAN, NEW start \in Nat, NEW length \in Int,
           NEW sb \in [exists: BOOLEAN, regular: BOOLEAN, size: Nat],
           MayBeMade(named, start, length, sb)
    PROVE  SourceOf(named, start, length, sb) \in Context
           /\ SourceOf(named, start, length, sb).open_count = 0
<1> DEFINE wanted == IF length < 0 THEN 0 ELSE length
           len == KnownLength(sb, start, length, wanted)
           known == len > 0 \/ (sb.exists /\ sb.regular /\ length # ZIP_LENGTH_UNCHECKED)
           seekable == sb.regular \/ ~sb.exists
<1>1. wanted \in Nat /\ start <= start + wanted
  OBVIOUS
<1>2. sb.regular /\ sb.exists => start + wanted <= sb.size
  BY DEF MayBeMade
<1>3. ~sb.exists => start = 0
  BY DEF MayBeMade
<1>4. len \in Nat
  BY <1>1, <1>2, <1>3 DEF KnownLength
<1> HIDE DEF wanted, len
<1>5. SourceOf(named, start, length, sb) =
        [NewContext EXCEPT !.named = named, !.start = start, !.len = len,
                           !.size = IF known THEN len ELSE -1,
                           !.seekable = seekable, !.missing = ~sb.exists]
  BY DEF SourceOf, wanted, len
<1>6. (IF known THEN len ELSE -1) \in Int /\ seekable \in BOOLEAN /\ (~sb.exists) \in BOOLEAN
  <2>1. (IF known THEN len ELSE -1) \in Int
    <3> HIDE DEF known
    <3>1. QED
      BY <1>4
  <2>2. sb.exists \in BOOLEAN /\ sb.regular \in BOOLEAN
    OBVIOUS
  <2>3. QED
    BY <2>1, <2>2
<1> HIDE DEF known, seekable
<1>7. NewContext \in Context /\ NewContext.open_count = 0
  BY DEF NewContext, Context
<1>8. QED
  <2> DEFINE size == IF known THEN len ELSE -1
             missing == ~sb.exists
             c == SourceOf(named, start, length, sb)
  <2>1. c = [NewContext EXCEPT !.named = named, !.start = start, !.len = len,
                               !.size = size, !.seekable = seekable, !.missing = missing]
    BY <1>5
  <2>2. size \in Int /\ missing \in BOOLEAN
    BY <1>6
  <2> HIDE DEF size, missing, c
  <2>3. c \in Context /\ c.open_count = 0
    BY <1>4, <1>6, <1>7, <2>1, <2>2 DEF Context
  <2> QED
    BY <2>3 DEF c

\* A source that becomes s and whose file is read on from a position.
LEMMA ReadsOnStep ==
    ASSUME ReaderTypeOK, Made, NEW s \in Context, NEW position \in Nat, ReadsOn(s, position),
           s.len > 0 => s.offset <= s.len,
           s.named = source.named,
           s.placed => position = s.start + s.offset,
           s.placed => \A k \in 1..Len(s.got) :
              s.got[k] = <<IF s.named THEN s.handle.file ELSE stream.file,
                           s.start + s.offset - Len(s.got) + k - 1>>
    PROVE  ReaderInv'
<1>1. /\ UNCHANGED <<os, path, lengths>>
      /\ s.named => source' = [s EXCEPT !.handle.position = position] /\ stream' = stream
      /\ ~s.named => source' = s /\ stream' = [stream EXCEPT !.position = position]
  BY DEF ReadsOn
<1>2. /\ source' \in Context
      /\ stream' \in [file: 0..MaxFiles, position: Nat, regular: BOOLEAN]
  <2>1. s.named \in BOOLEAN /\ s.handle \in [file: 0..MaxFiles, position: Nat]
    BY DEF Context
  <2>2. [s.handle EXCEPT !.position = position] \in [file: 0..MaxFiles, position: Nat]
    BY <2>1
  <2>3. [s EXCEPT !.handle.position = position] = [s EXCEPT !.handle = [s.handle EXCEPT !.position = position]]
    BY DEF Context
  <2>4. [s EXCEPT !.handle = [s.handle EXCEPT !.position = position]] \in Context
    BY <2>2 DEF Context
  <2>5. QED
    BY <1>1, <2>1, <2>3, <2>4 DEF ReaderTypeOK
<1>3. /\ source'.named = s.named /\ source'.len = s.len /\ source'.offset = s.offset
      /\ source'.start = s.start /\ source'.placed = s.placed /\ source'.got = s.got
  BY <1>1 DEF Context
<1>4. Handle' = [file |-> IF s.named THEN s.handle.file ELSE stream.file, position |-> position]
  BY <1>1, <1>3 DEF Handle, ReaderTypeOK, Context
<1>5. ReaderTypeOK'
  BY <1>1, <1>2 DEF ReaderTypeOK
<1> HIDE DEF Context
<1> DEFINE n == Len(s.got)
           opened == IF s.named THEN s.handle.file ELSE stream.file
<1>6. InItsPart' <=>
        /\ \A k \in 1..n : s.got[k] = <<opened, s.start + s.offset - n + k - 1>>
        /\ s.len > 0 => s.offset <= s.len
  <2>1. Len(source'.got) = n /\ Handle'.file = opened
    BY <1>3, <1>4
  <2>4. source'.start \in Nat /\ source'.offset \in Nat /\ Len(source'.got) \in Nat
        /\ source'.len \in Nat
    BY <1>2, LenProperties DEF Context
  <2> HIDE DEF opened, n
  <2>2. InItsPart' <=>
          /\ \A k \in 1..Len(source'.got) :
                source'.got[k] = <<Handle'.file, source'.start + source'.offset - Len(source'.got) + k - 1>>
          /\ source'.len > 0 => source'.offset <= source'.len
    BY <2>4 DEF InItsPart
  <2>3. QED
    BY <1>3, <2>1, <2>2
<1>7. Together'
  BY <1>3, <1>4, <1>6 DEF Together
<1>8. QED
  BY <1>5, <1>7 DEF ReaderInv

\* A read takes what there is, up to the end of the part.
LEMMA ReadStep ==
    ASSUME ReaderInv, NEW n \in 1..MaxLength, ReadFile(n)
    PROVE  ReaderInv' /\ (source'.placed /\ source'.eof => AtItsEnd')
<1>1. ReaderTypeOK /\ Made /\ IsOpen /\ source \in Context /\ ~source.eof
  BY DEF ReaderInv, ReaderTypeOK, IsOpen, ReadFile
<1>2. /\ source.offset \in Nat /\ source.len \in Nat /\ source.start \in Nat
      /\ source.named \in BOOLEAN
      /\ source.len > 0 => source.offset <= source.len
      /\ source.placed => Handle.position = source.start + source.offset
  BY <1>1 DEF Context, ReaderInv, Together
<1>3. /\ Handle.file \in 0..MaxFiles /\ Handle.position \in Nat
      /\ Handle.file = IF source.named THEN source.handle.file ELSE stream.file
  BY <1>1, <1>2 DEF Handle, ReaderTypeOK, Context
<1>4. /\ Limit(n) \in Nat /\ Limit(n) <= n
      /\ source.len > 0 => source.offset + Limit(n) <= source.len
      /\ Limit(n) < n => source.len > 0 /\ source.offset + Limit(n) = source.len
  BY <1>2 DEF Limit, Smaller
<1>5. /\ Handle.file # 0 => lengths[Handle.file] \in Nat
      /\ Available(Limit(n)) \in Nat /\ Available(Limit(n)) <= Limit(n)
      /\ Handle.file # 0 /\ Available(Limit(n)) < Limit(n) =>
           Handle.position + Available(Limit(n)) >= lengths[Handle.file]
  <2>1. Handle.file # 0 => lengths[Handle.file] \in Nat
    BY <1>1, <1>3 DEF ReaderTypeOK
  <2> HIDE DEF Handle
  <2>2. QED
    BY <1>3, <1>4, <2>1 DEF Available, Smaller
<1>6. PICK k \in 0 .. Available(Limit(n)), error \in BOOLEAN :
        /\ ~error => k = Available(Limit(n)) /\ Handle.file # 0
        /\ ReadsOn([source EXCEPT
                        !.offset = @ + k, !.eof = ~error /\ k < n, !.had_read_error = error,
                        !.got = [j \in 1 .. k |-> <<Handle.file, Handle.position + j - 1>>]],
                   Handle.position + k)
  BY DEF ReadFile
<1> DEFINE g == [j \in 1 .. k |-> <<Handle.file, Handle.position + j - 1>>]
           eof == ~error /\ k < n
           s == [source EXCEPT !.offset = @ + k, !.eof = eof, !.had_read_error = error, !.got = g]
<1>7. k \in Nat /\ k <= Limit(n) /\ Handle.position + k \in Nat
  BY <1>3, <1>4, <1>5
<1>8. g \in Seq(Nat \X Nat) /\ Len(g) = k /\ \A j \in 1..k : g[j] = <<Handle.file, Handle.position + j - 1>>
  <2>1. g \in [1..k -> Nat \X Nat]
    BY <1>3
  <2>2. QED
    BY <1>7, <2>1, LengthOf
<1> HIDE DEF g
<1>9. s \in Context /\ s.named = source.named /\ s.placed = source.placed /\ s.handle = source.handle
      /\ s.start = source.start /\ s.len = source.len /\ s.offset = source.offset + k
      /\ s.got = g /\ s.eof = eof
  <2>1. source.offset + k \in Nat /\ eof \in BOOLEAN
    BY <1>2, <1>7
  <2> HIDE DEF eof
  <2>2. QED
    BY <1>1, <1>8, <2>1 DEF Context
<1>10. ReadsOn(s, Handle.position + k)
  BY <1>6 DEF g
<1> HIDE DEF s
<1>11. s.len > 0 => s.offset <= s.len
  BY <1>2, <1>4, <1>7, <1>9
<1>12. ASSUME s.placed
       PROVE  /\ Handle.position + k = s.start + s.offset
              /\ \A j \in 1..Len(s.got) :
                   s.got[j] = <<IF s.named THEN s.handle.file ELSE stream.file,
                                s.start + s.offset - Len(s.got) + j - 1>>
  <2>1. /\ Handle.position = source.start + source.offset
        /\ Handle.position + k = s.start + s.offset
    BY <1>2, <1>7, <1>9, <1>12
  <2>2. \A j \in 1..k : Handle.position + j - 1 = s.start + s.offset - k + j - 1
    BY <1>2, <1>7, <1>9, <2>1
  <2>3. ASSUME NEW j \in 1..Len(s.got)
        PROVE  s.got[j] = <<IF s.named THEN s.handle.file ELSE stream.file,
                            s.start + s.offset - Len(s.got) + j - 1>>
    <3>1. Len(s.got) = k /\ j \in 1..k
      BY <1>8, <1>9
    <3>2. s.got[j] = <<Handle.file, Handle.position + j - 1>>
      BY <1>8, <1>9, <3>1
    <3>3. Handle.file = IF s.named THEN s.handle.file ELSE stream.file
      BY <1>3, <1>9
    <3>4. Handle.position + j - 1 = s.start + s.offset - k + j - 1
      BY <2>2, <3>1
    <3>5. QED
      BY <3>1, <3>2, <3>3, <3>4
  <2>4. QED
    BY <2>1, <2>3
<1>13. ReaderInv'
  BY <1>1, <1>7, <1>9, <1>10, <1>11, <1>12, ReadsOnStep
<1>14. /\ source'.offset = s.offset /\ source'.start = s.start /\ source'.len = s.len
       /\ source'.placed = s.placed /\ source'.eof = s.eof
       /\ Handle'.file = Handle.file /\ lengths' = lengths
  <2>1. /\ lengths' = lengths
        /\ s.named => source' = [s EXCEPT !.handle.position = Handle.position + k] /\ stream' = stream
        /\ ~s.named => source' = s /\ stream' = [stream EXCEPT !.position = Handle.position + k]
    BY <1>10 DEF ReadsOn
  <2>2. source'.named = s.named /\ (s.named => source'.handle.file = s.handle.file)
        /\ (~s.named => stream'.file = stream.file)
    <3>1. s.named \in BOOLEAN /\ s.handle \in [file: 0..MaxFiles, position: Nat]
      BY <1>9 DEF Context
    <3>2. CASE s.named
      BY <1>9, <2>1, <3>1, <3>2 DEF Context
    <3>3. CASE ~s.named
      BY <1>1, <2>1, <3>3 DEF ReaderTypeOK
    <3>4. QED
      BY <3>1, <3>2, <3>3
  <2>3. QED
    BY <1>3, <1>9, <2>1, <2>2 DEF Context, Handle
<1>15. ASSUME s.placed, eof
       PROVE  AtItsEnd'
  <2>1. k = Available(Limit(n)) /\ Handle.file # 0 /\ k < n
    BY <1>6, <1>15
  <2>2. Handle.position + k = s.start + s.offset
    BY <1>12, <1>15
  <2>3. CASE k = Limit(n)
    BY <1>4, <1>9, <1>14, <2>1, <2>3 DEF AtItsEnd
  <2>4. CASE k # Limit(n)
    <3>1. s.start + s.offset >= lengths[Handle.file]
      BY <1>4, <1>5, <1>7, <2>1, <2>2, <2>4
    <3>2. QED
      BY <1>14, <3>1 DEF AtItsEnd
  <2>5. QED
    BY <2>3, <2>4
<1>16. QED
  BY <1>9, <1>13, <1>14, <1>15

\* A seek leads both offsets to one place.
LEMMA SeekStep ==
    ASSUME ReaderInv, NEW offset \in Nat, SeekSource(offset)
    PROVE  ReaderInv'
<1>1. ReaderTypeOK /\ Made /\ source \in Context /\ offset <= source.len
  BY DEF ReaderInv, ReaderTypeOK, IsOpen, SeekSource
<1> DEFINE s == [source EXCEPT !.offset = offset, !.eof = FALSE, !.placed = TRUE, !.got = <<>>]
<1>2. /\ s \in Context /\ s.named = source.named /\ s.start = source.start /\ s.len = source.len
      /\ s.offset = offset /\ s.got = <<>>
  BY <1>1, NothingRead DEF Context
<1>3. ReadsOn(s, Place(offset))
  BY DEF SeekSource
<1> HIDE DEF s
<1>4. Place(offset) \in Nat /\ Place(offset) = s.start + s.offset
  BY <1>1, <1>2 DEF Place, Context
<1>5. QED
  BY <1>1, <1>2, <1>3, <1>4, NothingRead, ReadsOnStep

\* After a seek that failed a source is not taken to be where its file is.
LEMMA SeekFailsStep ==
    ASSUME ReaderInv, NEW offset \in Nat, SeekFails(offset)
    PROVE  ReaderInv' /\ ~source'.placed
<1>1. ReaderTypeOK /\ Made /\ source \in Context /\ offset <= source.len
  BY DEF ReaderInv, ReaderTypeOK, IsOpen, SeekFails
<1> DEFINE s == [source EXCEPT !.offset = offset, !.placed = FALSE, !.got = <<>>]
<1>2. /\ s \in Context /\ s.named = source.named /\ s.len = source.len
      /\ s.offset = offset /\ ~s.placed
  BY <1>1, NothingRead DEF Context
<1>3. ReadsOn(s, Handle.position)
  BY DEF SeekFails
<1> HIDE DEF s
<1>4. Handle.position \in Nat
  BY <1>1 DEF Handle, ReaderTypeOK, Context
<1>5. ReaderInv'
  BY <1>1, <1>2, <1>3, <1>4, ReadsOnStep
<1>6. ~source'.placed
  <2>1. source' = s \/ source' = [s EXCEPT !.handle.position = Handle.position]
    BY <1>3 DEF ReadsOn
  <2>2. QED
    BY <1>2, <2>1 DEF Context
<1>7. QED
  BY <1>5, <1>6

\* A source that is opened for a reader, also for another one.
LEMMA FreshType ==
    ASSUME NEW s \in Context
    PROVE  /\ Fresh(s) \in Context /\ ~Fresh(s).eof
           /\ Fresh(s).named = s.named /\ Fresh(s).start = s.start /\ Fresh(s).len = s.len
           /\ Fresh(s).offset = s.offset /\ Fresh(s).placed = s.placed /\ Fresh(s).got = <<>>
           /\ Fresh(s).handle = s.handle
<1>1. s.open_count + 1 \in Nat
  BY DEF Context
<1>2. Fresh(s) = [s EXCEPT !.open_count = s.open_count + 1, !.eof = FALSE,
                           !.had_read_error = FALSE, !.got = <<>>]
  BY DEF Fresh
<1>3. Fresh(s) \in Context
  BY <1>1, <1>2, NothingRead DEF Context
<1>4. QED
  BY <1>2, <1>3 DEF Context

\* A new reader of an open source reads on where the others are.
LEMMA ReopenStep ==
    ASSUME ReaderInv, ReopenSource
    PROVE  ReaderInv'
<1>1. ReaderTypeOK /\ Made /\ IsOpen /\ source \in Context
  BY DEF ReaderInv, ReaderTypeOK, IsOpen, ReopenSource
<1>2. Handle.position \in Nat
  BY <1>1 DEF Handle, ReaderTypeOK, Context
<1>3. ReadsOn(Fresh(source), Handle.position)
  BY DEF ReopenSource
<1>4. /\ source.len > 0 => source.offset <= source.len
      /\ source.placed => Handle.position = source.start + source.offset
  BY <1>1 DEF ReaderInv, Together
<1>5. QED
  <2> DEFINE s == Fresh(source)
  <2>1. /\ s \in Context /\ s.named = source.named /\ s.start = source.start
        /\ s.len = source.len /\ s.offset = source.offset /\ s.placed = source.placed
        /\ s.got = <<>>
    BY <1>1, FreshType
  <2>2. ReadsOn(s, Handle.position)
    BY <1>3
  <2> HIDE DEF s
  <2>3. QED
    BY <1>1, <1>2, <1>4, <2>1, <2>2, NothingRead, ReadsOnStep

\* A source is opened: at the start of its part, unless the user's stream is
\* somewhere else and nothing says where to read.
LEMMA OpenStep ==
    ASSUME ReaderInv, OpenReader
    PROVE  ReaderInv'
<1>1. ReaderTypeOK /\ Made /\ source \in Context
  BY DEF ReaderInv, ReaderTypeOK, OpenReader
<1> DEFINE opened == IF source.named /\ path \in 1 .. MaxFiles THEN path ELSE 0
           placed == source.named \/ source.start > 0 \/ stream.position = 0
           s == [Fresh(source) EXCEPT !.offset = 0, !.handle.file = opened, !.placed = placed]
<1>2. opened \in 0..MaxFiles /\ placed \in BOOLEAN
  <2>1. source.named \in BOOLEAN
    BY <1>1 DEF Context
  <2>2. QED
    BY <2>1
<1>3. ReadsOn(s, OpenAt(source))
  BY DEF OpenReader
<1>4. OpenAt(source) \in Nat /\ (placed => OpenAt(source) = source.start)
  BY <1>1 DEF OpenAt, Context, ReaderTypeOK
<1> HIDE DEF opened, placed
<1>5. /\ s \in Context /\ s.named = source.named /\ s.start = source.start /\ s.len = source.len
      /\ s.offset = 0 /\ s.placed = placed /\ s.got = <<>>
  <2> DEFINE r == Fresh(source)
             h == [r.handle EXCEPT !.file = opened]
  <2>1. /\ r \in Context /\ r.named = source.named /\ r.start = source.start
        /\ r.len = source.len /\ r.got = <<>>
    BY <1>1, FreshType
  <2> HIDE DEF r
  <2>2. h \in [file: 0..MaxFiles, position: Nat]
    BY <1>2, <2>1 DEF Context
  <2>3. s = [r EXCEPT !.offset = 0, !.handle = h, !.placed = placed]
    BY <2>1 DEF Context, r
  <2> HIDE DEF h, s
  <2>4. QED
    BY <1>2, <2>1, <2>2, <2>3 DEF Context
<1> HIDE DEF s
<1>6. s.len > 0 => s.offset <= s.len
  BY <1>5 DEF Context
<1>7. s.placed => OpenAt(source) = s.start + s.offset
  BY <1>1, <1>4, <1>5 DEF Context
<1>8. QED
  BY <1>1, <1>3, <1>4, <1>5, <1>6, <1>7, NothingRead, ReadsOnStep

\* The last reader closes the file.
LEMMA CloseStep ==
    ASSUME ReaderInv, CloseReader
    PROVE  ReaderInv' /\ ~(source'.eof /\ ~source.eof)
<1>1. ReaderTypeOK /\ Made /\ IsOpen /\ source \in Context /\ source.open_count > 0
      /\ Together
  BY DEF ReaderInv, ReaderTypeOK, IsOpen, CloseReader
<1> DEFINE h == IF source.open_count > 1 THEN source.handle ELSE NewContext.handle
           s == [source EXCEPT !.open_count = @ - 1, !.got = <<>>, !.handle = h]
<1>2. h \in [file: 0..MaxFiles, position: Nat]
  BY <1>1 DEF NewContext, Context
<1>3. source' = s /\ UNCHANGED <<os, path, lengths, stream>>
  BY DEF CloseReader
<1>4. source.open_count - 1 \in Nat /\ (source.open_count - 1 > 0 => h = source.handle)
  BY <1>1 DEF Context
<1> HIDE DEF h
<1>5. /\ s \in Context /\ s.named = source.named /\ s.start = source.start /\ s.len = source.len
      /\ s.offset = source.offset /\ s.placed = source.placed /\ s.got = <<>> /\ s.handle = h
      /\ s.open_count = source.open_count - 1 /\ s.eof = source.eof
  BY <1>1, <1>2, <1>4, NothingRead DEF Context
<1> HIDE DEF s
<1>6. ReaderTypeOK'
  BY <1>1, <1>3, <1>5 DEF ReaderTypeOK
<1>7. IsOpen' => Handle' = Handle
  BY <1>3, <1>4, <1>5 DEF IsOpen, Handle
<1>8. Together'
  BY <1>1, <1>3, <1>5, <1>7, NothingRead DEF Together, InItsPart
<1>9. QED
  BY <1>3, <1>5, <1>6, <1>8 DEF ReaderInv

\* A source is made, or freed.
LEMMA CreateStep ==
    ASSUME ReaderInv, NEW named \in BOOLEAN, NEW start \in Nat, NEW length \in Int,
           CreateSource(named, start, length)
    PROVE  ReaderInv' /\ ~IsOpen'
<1>1. ReaderTypeOK /\ (~named => stream.file # 0)
  BY DEF ReaderInv, CreateSource
<1>2. Stat(named) \in [exists: BOOLEAN, regular: BOOLEAN, size: Nat]
  BY <1>1, StatType
<1>3. source' \in Context /\ source'.open_count = 0 /\ UNCHANGED <<os, path, lengths, stream>>
  BY <1>1, <1>2, CreateType DEF CreateSource
<1>4. QED
  BY <1>1, <1>3 DEF ReaderInv, ReaderTypeOK, Together, IsOpen

LEMMA FreeStep ==
    ASSUME ReaderInv, FreeSource
    PROVE  ReaderInv' /\ ~IsOpen'
<1>1. ReaderTypeOK /\ ~Made' /\ UNCHANGED <<os, path, lengths>>
      /\ (stream' = stream \/ stream' = [stream EXCEPT !.file = 0])
  BY DEF ReaderInv, FreeSource, Made
<1>2. stream' \in [file: 0..MaxFiles, position: Nat, regular: BOOLEAN]
  BY <1>1 DEF ReaderTypeOK
<1>3. QED
  BY <1>1, <1>2 DEF ReaderInv, ReaderTypeOK, Together, IsOpen

\* What others do does not move a reader.
LEMMA OthersStep ==
    ASSUME ReaderInv, UNCHANGED <<os, stream, source>>,
           \/ path' = path /\ \E i, n \in Nat : lengths' = [lengths EXCEPT ![i] = n]
           \/ path' \in 0..MaxFiles /\ lengths' = lengths
           \/ UNCHANGED <<path, lengths>>
    PROVE  ReaderInv'
<1>1. ReaderTypeOK /\ Together
  BY DEF ReaderInv
<1>2. ReaderTypeOK'
  BY <1>1 DEF ReaderTypeOK, Made
<1>3. Together'
  BY <1>1 DEF Together, IsOpen, Made, Handle, InItsPart
<1>4. QED
  BY <1>2, <1>3 DEF ReaderInv

\* No step parts the two offsets, and a reader is told of the end only there.
THEOREM NextReader ==
    ReaderInv /\ [ReaderNext]_readerVars =>
        /\ ReaderInv'
        /\ IsOpen' /\ source'.placed /\ source'.eof /\ ~source.eof => AtItsEnd'
<1> SUFFICES ASSUME ReaderInv, [ReaderNext]_readerVars
             PROVE  /\ ReaderInv'
                    /\ IsOpen' /\ source'.placed /\ source'.eof /\ ~source.eof => AtItsEnd'
  OBVIOUS
<1>0. Lengths \subseteq Nat /\ ZIP_LENGTH_TO_END \in Int /\ ZIP_LENGTH_UNCHECKED \in Int
  BY DEF Lengths, ZIP_LENGTH_TO_END, ZIP_LENGTH_UNCHECKED
<1>1. ASSUME NEW named \in BOOLEAN, NEW start \in Lengths,
             NEW length \in Lengths \cup {ZIP_LENGTH_TO_END, ZIP_LENGTH_UNCHECKED},
             CreateSource(named, start, length)
      PROVE  ReaderInv' /\ ~IsOpen'
  <2>1. start \in Nat /\ length \in Int
    BY <1>0
  <2>2. QED
    BY <1>1, <2>1, CreateStep
<1>2. CASE OpenReader
  <2>1. ReaderInv' /\ source \in Context
    BY <1>2, OpenStep DEF OpenReader, ReaderInv, ReaderTypeOK
  <2>2. ~source'.eof
    <3> DEFINE opened == IF source.named /\ path \in 1 .. MaxFiles THEN path ELSE 0
               placed == source.named \/ source.start > 0 \/ stream.position = 0
               r == Fresh(source)
               s == [r EXCEPT !.offset = 0, !.handle.file = opened, !.placed = placed]
    <3>1. ReadsOn(s, OpenAt(source))
      BY <1>2 DEF OpenReader
    <3>2. r \in Context /\ ~r.eof
      BY <2>1, FreshType
    <3> HIDE DEF r, opened, placed
    <3>3. s.eof = r.eof /\ DOMAIN s = DOMAIN r /\ "eof" \in DOMAIN r
      BY <3>2 DEF Context
    <3> HIDE DEF s
    <3>4. source' = s \/ source' = [s EXCEPT !.handle.position = OpenAt(source)]
      BY <3>1 DEF ReadsOn
    <3>5. QED
      BY <3>2, <3>3, <3>4
  <2>3. QED
    BY <2>1, <2>2
<1>3. CASE ReopenSource
  <2>1. ReaderInv' /\ source \in Context
    BY <1>3, ReopenStep DEF ReopenSource, IsOpen, ReaderInv, ReaderTypeOK
  <2>2. ~source'.eof
    <3> DEFINE s == Fresh(source)
    <3>1. s \in Context /\ ~s.eof
      BY <2>1, FreshType
    <3>2. source' = s \/ source' = [s EXCEPT !.handle.position = Handle.position]
      BY <1>3 DEF ReopenSource, ReadsOn
    <3> HIDE DEF s
    <3>3. QED
      BY <3>1, <3>2 DEF Context
  <2>3. QED
    BY <2>1, <2>2
<1>4. CASE CloseReader
  BY <1>4, CloseStep
<1>5. CASE FreeSource
  BY <1>5, FreeStep
<1>6. ASSUME NEW n \in 1..MaxLength, ReadFile(n)
      PROVE  ReaderInv' /\ (source'.placed /\ source'.eof => AtItsEnd')
  BY <1>6, ReadStep
<1>7. ASSUME NEW offset \in Lengths, SeekSource(offset)
      PROVE  ReaderInv' /\ ~source'.eof
  <2>1. ReaderInv' /\ source \in Context
    BY <1>0, <1>7, SeekStep DEF SeekSource, IsOpen, ReaderInv, ReaderTypeOK
  <2>2. ~source'.eof
    <3> DEFINE s == [source EXCEPT !.offset = offset, !.eof = FALSE, !.placed = TRUE, !.got = <<>>]
    <3>1. source' = s \/ source' = [s EXCEPT !.handle.position = Place(offset)]
      BY <1>7 DEF SeekSource, ReadsOn
    <3>2. "eof" \in DOMAIN s /\ ~s.eof
      BY <2>1 DEF Context
    <3> HIDE DEF s
    <3>3. QED
      BY <3>1, <3>2
  <2>3. QED
    BY <2>1, <2>2
<1>12. ASSUME NEW offset \in Lengths, SeekFails(offset)
       PROVE  ReaderInv' /\ ~source'.placed
  BY <1>0, <1>12, SeekFailsStep
<1>8. ASSUME NEW i \in 1..MaxFiles, NEW n \in Lengths, OthersWrite(i, n)
      PROVE  ReaderInv' /\ source' = source
  <2>1. i \in Nat /\ n \in Nat
    BY <1>0
  <2>2. QED
    BY <1>8, <2>1, OthersStep DEF OthersWrite
<1>9. ASSUME NEW i \in 0..MaxFiles, OthersReplace(i)
      PROVE  ReaderInv' /\ source' = source
  BY <1>9, OthersStep DEF OthersReplace
<1>10. CASE UNCHANGED readerVars
  <2>1. UNCHANGED <<os, path, lengths, stream, source>>
    BY <1>10 DEF readerVars
  <2>2. QED
    BY <2>1, OthersStep
<1>11. QED
  BY <1>1, <1>2, <1>3, <1>4, <1>5, <1>6, <1>7, <1>8, <1>9, <1>10, <1>12 DEF ReaderNext

\* The invariant holds in every state of a reader.
THEOREM ReaderStaysTogether == ReaderSpec => []ReaderInv
<1>1. ReaderInit => ReaderInv
  BY InitReader
<1>2. ReaderInv /\ [ReaderNext]_readerVars => ReaderInv'
  BY NextReader
<1>3. QED
  BY <1>1, <1>2, PTL DEF ReaderSpec

\* Whatever others do with the file, what a reader gets is at its place in the
\* part of the file that the source stands for, and all of it.
THEOREM ReadersGetTheirPart == ReaderSpec => SourceReadsItsPart
<1> DEFINE A == IsOpen' /\ source'.placed =>
                   InItsPart' /\ (source'.eof /\ ~source.eof => AtItsEnd')
<1>1. ReaderInv /\ [ReaderNext]_readerVars => A
  <2> SUFFICES ASSUME ReaderInv, [ReaderNext]_readerVars, IsOpen', source'.placed
               PROVE  InItsPart' /\ (source'.eof /\ ~source.eof => AtItsEnd')
    OBVIOUS
  <2>1. Together'
    BY NextReader DEF ReaderInv
  <2>2. QED
    BY <2>1, NextReader DEF Together
<1>2. ASSUME A
      PROVE  [IsOpen' /\ source'.placed =>
                 InItsPart' /\ (source'.eof /\ ~source.eof => AtItsEnd')]_readerVars
  BY <1>2
<1>3. ReaderSpec => []ReaderInv
  BY ReaderStaysTogether
<1> HIDE DEF A
<1>4. QED
  BY <1>1, <1>2, <1>3, PTL DEF ReaderSpec, SourceReadsItsPart

============================================================================
