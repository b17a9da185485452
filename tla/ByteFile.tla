------------------------------ MODULE ByteFile ------------------------------
(***************************************************************************)
(* A ByteSource whose contents are kept in a file: they come from the file *)
(* when the source is made and are in it after the writer's commit.        *)
(***************************************************************************)
EXTENDS ByteSource

CONSTANT DAMAGED  \* the contents of a file that cannot be read

VARIABLES
    disk,  \* the contents of the file, NULL if there is none
    fault  \* whether the system refused to open or to write the file

fileVars == <<vars, disk, fault>>

FileInit ==
    /\ Init
    /\ disk \in Initial \cup {NULL}
    /\ fault = FALSE

\* The source of a file that is missing, or is to be replaced, is empty.
CreateFromFile ==
    /\ ~Exists
    /\ contents' \in {disk, <<>>} \ {NULL, DAMAGED}
    /\ UNCHANGED <<position, opens, Writer, disk, fault>>

ReadFile == Read /\ UNCHANGED <<disk, fault>>

Nulls(n) == [i \in 1 .. n |-> 0]

\* Zeros are not written over what is there: they only make the file longer.
Effective(bytes) ==
    IF bytes # Nulls(Len(bytes)) THEN bytes
    ELSE [i \in DOMAIN bytes |->
            IF write_position + i <= Len(staged) THEN staged[write_position + i] ELSE 0]

WriteFile ==
    /\ Writing
    /\ \E bytes \in Written :
        /\ staged' = Overwritten(staged, write_position, Effective(bytes))
        /\ write_position' = write_position + Len(bytes)
    /\ UNCHANGED <<Readers, disk, fault>>

CommitFile == CommitWrite /\ disk' = staged /\ UNCHANGED fault

\* The file cannot be opened, or not be written, which may go unnoticed.
CommitFails ==
    /\ Writing /\ opens <= 1
    /\ \/ disk' \in {disk, DAMAGED} /\ contents' = contents
       \/ disk' = DAMAGED /\ contents' = staged
    /\ position' \in 0 .. Len(contents')
    /\ opens' = 0
    /\ NoWriter
    /\ fault' = TRUE

RemoveFile == Remove /\ disk' = NULL /\ UNCHANGED fault

FileNext ==
    \/ ReadFile
    \/ /\ \/ CreateFromFile \/ WriteFile \/ CommitFile \/ CommitFails \/ RemoveFile
          \/ (Open \/ Seek \/ Close \/ BeginWrite \/ SeekWrite \/ RollbackWrite \/ Free)
             /\ UNCHANGED <<disk, fault>>
       /\ data' = <<>>

FileSpec == FileInit /\ [][FileNext]_fileVars

=============================================================================
