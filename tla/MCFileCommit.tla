---------------------------- MODULE MCFileCommit ----------------------------
(***************************************************************************)
(* An instance of FileCommitWin32 and of FileReader for TLC.  Writing and  *)
(* reading share no state but the file, which others change in both: each  *)
(* behaviour is one of writers or one of a reader.                         *)
(***************************************************************************)
EXTENDS FileCommitWin32, FileReader, TLC

VARIABLE part

allVars == <<vars, platform, readerVars, part>>

Writers ==
    /\ part = "writers"
    /\ PlatformInit
    /\ os = "unix" /\ path = 0 /\ lengths = <<>> /\ stream = 0 /\ source = NOSOURCE

Reader ==
    /\ part = "reader"
    /\ ReaderInit
    /\ Init /\ dir[Archive] = NONE /\ platform = os

MCNext ==
    \/ part = "writers" /\ PlatformNext /\ UNCHANGED <<readerVars, part>>
    \/ part = "reader" /\ ReaderNext /\ UNCHANGED <<vars, platform, part>>

MCSpec == (Writers \/ Reader) /\ [][MCNext]_allVars

Symmetry == Permutations(Processes) \cup Permutations(Temps)
=============================================================================
