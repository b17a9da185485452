----------------------------- MODULE MCZipClose -----------------------------
(***************************************************************************)
(* Instances of ZipClose for TLC.                                          *)
(***************************************************************************)
EXTENDS ZipClose

CONSTANTS x, y, z

\* z is the file that a program adds; storing takes more space than deflating.
MCLength == [fm \in Files \X Methods |->
    CASE fm[2] = "DEFLATE" -> 1
      [] fm[1] = z -> 3
      [] OTHER -> 2]

Dirent(o, f, m) ==
    [offset |-> o, comp_size |-> Length[f, m], comp_method |-> m, changed |-> {}]

Archive(cells, cdir) == [cells |-> cells, cdir |-> cdir, torrentzip |-> FALSE]

MCGaps == {<<"gap">>}

\* Two entries in the order of the directory.
Ordered == Archive(Stored(x, "STORE") \o Stored(y, "DEFLATE"),
                   <<Dirent(0, x, "STORE"), Dirent(3, y, "DEFLATE")>>)

\* That; two entries in the other order, with a gap in front; a torrentzip
\* archive of one entry.
MCInitialFiles == {Ordered,
    Archive(<<<<"gap">>>> \o Stored(y, "STORE") \o Stored(x, "STORE"),
            <<Dirent(4, x, "STORE"), Dirent(1, y, "STORE")>>),
    [Archive(Stored(x, "DEFLATE"), <<Dirent(0, x, "DEFLATE")>>) EXCEPT !.torrentzip = TRUE]}

MCOrderedFile == {Ordered}

\* Bound: what follows a failure that may leave stale entries is left to the
\* run that shows it.
NotStale == ~stale
=============================================================================
