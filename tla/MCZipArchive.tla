---------------------------- MODULE MCZipArchive ----------------------------
(***************************************************************************)
(* Instances of ZipArchive for TLC.                                        *)
(***************************************************************************)
EXTENDS ZipArchive

CONSTANTS a, b, d, x, y, c1, Programs

VARIABLE program

F(n, data) == [filename |-> n, comment |-> NULL, attr |-> DefaultAttr, data |-> data]

Archive(n, f) ==
    [nfiles |-> n, files |-> f, comment |-> NULL, torrentzip |-> FALSE]

\* The names in an order that is not that of their first use.
MCRank == [n \in Names \cup {Empty} |->
             CASE n = a -> 2 [] n = b -> 1 [] n = d -> 3 [] OTHER -> 0]

\* No file, an archive of one file and one of two.
MCDisks == {NULL, Archive(1, [i \in {0} |-> F(a, x)]),
            Archive(2, [i \in 0..1 |-> IF i = 0 THEN F(a, x) ELSE F(b, y)])}

\* No file, and an archive of one file with a comment.
MCCommentedDisks == {NULL} \cup {Archive(1, [i \in {0} |-> [F(n, x) EXCEPT !.comment = c1]]) : n \in Names}

(***************************************************************************)
(* Programs that make all calls or the careful ones only, that change      *)
(* comments, attributes and data of one file and never want a torrentzip   *)
(* archive, or that change names and data and may want one.                *)
(***************************************************************************)
Unmarked(f) == \A i \in Indices : ~FieldChanged(entry[i], f)

MetadataOnly ==
    /\ ~WantTorrentzip /\ names[b] = NoNode
    /\ \A i \in Indices : entry[i].source = NULL => ~FieldChanged(entry[i], "OTHER")

NamesOnly ==
    /\ ch_flags \ flags \subseteq {"WANT_TORRENTZIP"}
    /\ ~comment_changed /\ Unmarked("COMMENT") /\ Unmarked("ATTRIBUTES")

MCNext ==
    \/ program = "any" /\ Next
    \/ program = "careful" /\ CarefulNext
    \/ program = "metadata" /\ Next /\ MetadataOnly'
    \/ program = "names" /\ Next /\ NamesOnly'

MCInit == Init /\ program \in Programs

MCSpec == MCInit /\ [][MCNext /\ UNCHANGED program]_<<vars, program>>
=============================================================================
