------------------------------- MODULE ZipCmp -------------------------------
(***************************************************************************)
(* zipcmp compares two archives, or an archive and a directory tree: both  *)
(* are listed and sorted, then the lists are walked in parallel.  A line   *)
(* of the script is [program, paths, ignore_case, compare_time_stamps,     *)
(* paranoid].                                                              *)
(***************************************************************************)
EXTENDS ToolArchives

CONSTANT Word  \* the number of checksums: 2^32 in the code

ASSUME WordAssumption == Word \in Nat /\ Word % 2 = 0

\* A 32-bit value as an int.
AsInt(x) == LET u == x % Word IN IF u >= Word \div 2 THEN u - Word ELSE u

Order(line) == IF line.ignore_case THEN FoldedRank ELSE Rank

\* Faulty variant: entries of one name and checksum are the same.
EntryCmpNoSize(line, a, b) ==
    IF Order(line)[a.name] # Order(line)[b.name] THEN Order(line)[a.name] - Order(line)[b.name]
    ELSE IF a.crc # b.crc THEN AsInt(AsInt(a.crc) - AsInt(b.crc))
    ELSE 0

\* entry_cmp
EntryCmp(line, a, b) ==
    IF Order(line)[a.name] # Order(line)[b.name] THEN Order(line)[a.name] - Order(line)[b.name]
    ELSE IF a.size # b.size THEN a.size - b.size
    ELSE IF a.crc # b.crc THEN AsInt(AsInt(a.crc) - AsInt(b.crc))
    ELSE IF line.compare_time_stamps THEN a.mtime - b.mtime
    ELSE 0

\* list_directory: the directories below the top have no time of their own.
ListedDirectory(f) ==
    LET listed(name, size, crc, mtime) ==
            [name |-> name, size |-> size, crc |-> crc, mtime |-> mtime,
             method |-> "store", comment |-> NULL, fields |-> <<>>]
    IN SetToSeq({listed(d, 0, 0, 0) : d \in f.dirs}
                \cup {listed(n, Len(f.files[n].data), Crc[f.files[n].data], f.files[n].mtime)
                        : n \in DOMAIN f.files})

\* list_zip
ListedZip(f) ==
    [i \in DOMAIN f.entries |->
        LET e == f.entries[i]
        IN [name |-> e.name, size |-> Len(e.data), crc |-> e.crc, mtime |-> e.mtime,
            method |-> e.method, comment |-> e.comment, fields |-> e.fields]]

Listed(f) == IF f.kind = "dir" THEN ListedDirectory(f) ELSE ListedZip(f)

\* What qsort can make of a list.
Sortings(line, list) ==
    {s \in {[k \in DOMAIN list |-> list[p[k]]] : p \in SetToSeqs(DOMAIN list)} :
        \A k \in 1..(Len(s) - 1) : EntryCmp(line, s[k], s[k + 1]) <= 0}

\* The archive comment is read with the first entry.
ListedComment(f) == IF IsZip(f) /\ f.entries # <<>> THEN f.comment ELSE NULL

CanList(f) == f.kind = "dir" \/ CanOpen(f, {})

\* main and the first half of compare_zip
StartCmp ==
    /\ proc = NULL /\ script # <<>>
    /\ LET line == Head(script)
           f == [k \in 1..2 |-> disk[line.paths[k]]]
           dirs == "dir" \in {f[k].kind : k \in 1..2}
           p == [program |-> "zipcmp", line |-> line, before |-> disk, pc |-> "exited",
                 status |-> 2, list |-> <<>>, minus |-> 0, plus |-> 0, res |-> 0,
                 have_directory |-> dirs, paranoid |-> line.paranoid /\ ~dirs]
       IN /\ line.program = "zipcmp"
          /\ IF \E k \in 1..2 : ~CanList(f[k]) THEN proc' = p
             ELSE \E s1 \in Sortings(line, Listed(f[1])), s2 \in Sortings(line, Listed(f[2])) :
                    proc' = [p EXCEPT !.pc = "compare", !.list = <<s1, s2>>]
    /\ UNCHANGED <<disk, script>>

StartsWith(name, dir) == name = dir \/ name \in Inside[dir]

\* entry_ignore: the entry of a directory that is not empty is no difference.
EntryIgnore(own, other) ==
    LET name == Head(own).name
    IN /\ name \in DirNames
       /\ \/ other # <<>> /\ Head(other).name \in Inside[name]
          \/ Len(own) > 1 /\ StartsWith(own[2].name, name)

\* How many elements of one sequence the other does not have.
CountMissing(s, t) ==
    FoldSet(LAMBDA x, n : n + Max({0, Cardinality({k \in DOMAIN s : s[k] = x})
                                      - Cardinality({k \in DOMAIN t : t[k] = x})}),
            0, Range(s))

\* entry_paranoia_checks; ef_compare counts with the counters of the entries.
Paranoia(p, a, b) ==
    LET removed == CountMissing(a.fields, b.fields)
        added == CountMissing(b.fields, a.fields)
    IN [p EXCEPT !.minus = @ + removed, !.plus = @ + added,
                 !.res = IF removed + added > 0 \/ a.method # b.method \/ a.comment # b.comment
                         THEN 1 ELSE @]

\* PRINT and INC: the element is counted unless it is to be ignored.
Printed(p, k) ==
    LET p1 == [p EXCEPT !.list[k] = Tail(@)]
    IN IF p.have_directory /\ EntryIgnore(p.list[k], p.list[3 - k]) THEN p1
       ELSE IF k = 1 THEN [p1 EXCEPT !.minus = @ + 1, !.res = 1]
       ELSE [p1 EXCEPT !.plus = @ + 1, !.res = 1]

\* One step of compare_list.
Compared(p) ==
    IF p.list[1] = <<>> THEN Printed(p, 2)
    ELSE IF p.list[2] = <<>> THEN Printed(p, 1)
    ELSE LET a == Head(p.list[1])
             b == Head(p.list[2])
             next(c) ==
                 IF c < 0 THEN Printed(p, 1)
                 ELSE IF c > 0 THEN Printed(p, 2)
                 ELSE [(IF p.paranoid THEN Paranoia(p, a, b) ELSE p)
                         EXCEPT !.list = <<Tail(p.list[1]), Tail(p.list[2])>>]
         IN next(EntryCmp(p.line, a, b))

CompareEntry ==
    /\ proc # NULL /\ proc.program = "zipcmp" /\ proc.pc = "compare"
    /\ proc.list # << <<>>, <<>> >>
    /\ proc' = Compared(proc)
    /\ UNCHANGED <<disk, script>>

\* The second half of compare_zip: archive comments, and the exit status.
CompareComments ==
    /\ proc # NULL /\ proc.program = "zipcmp" /\ proc.pc = "compare"
    /\ proc.list = << <<>>, <<>> >>
    /\ LET c == [k \in 1..2 |-> ListedComment(proc.before[proc.line.paths[k]])]
           differ == proc.paranoid /\ c[1] # c[2]
       IN proc' = [proc EXCEPT !.pc = "exited",
                               !.minus = IF differ /\ c[1] # NULL THEN @ + 1 ELSE @,
                               !.plus = IF differ /\ c[2] # NULL THEN @ + 1 ELSE @,
                               !.status = IF differ THEN 1 ELSE proc.res]
    /\ UNCHANGED <<disk, script>>

CmpStep == StartCmp \/ CompareEntry \/ CompareComments

(***************************************************************************)
(* Properties.                                                             *)
(***************************************************************************)

\* What two entries have to agree in.
Key(line, e) ==
    <<Order(line)[e.name], e.size, e.crc, IF line.compare_time_stamps THEN e.mtime ELSE 0>>

\* The entries of one list the other lacks; a directory is there if anything in
\* it is, on either side.
Lacking(line, s, t, dirs) ==
    LET implied(d) == \E k \in DOMAIN s \cup DOMAIN t :
                        \/ k \in DOMAIN s /\ s[k].name \in Inside[d]
                        \/ k \in DOMAIN t /\ t[k].name \in Inside[d]
        keys(u) == [k \in DOMAIN u |-> Key(line, u[k])]
        real == SelectSeq(s, LAMBDA e : ~(dirs /\ e.name \in DirNames /\ implied(e.name)))
    IN CountMissing(keys(real), keys(t))

\* The difference of checksums overflows, so that three entries of one name and
\* size can be in a cycle.
InCycle(line, u) ==
    \E i, j, k \in DOMAIN u :
        /\ Cardinality({u[i].crc, u[j].crc, u[k].crc}) = 3
        /\ Cardinality({<<Order(line)[u[x].name], u[x].size>> : x \in {i, j, k}}) = 1

\* The second of two entries of one directory looks like something in it, and
\* that of a directory on disk has no time that -T could compare.
DirectoriesMisjudged(line, s, t) ==
    \E d \in DirNames :
        \/ \E u \in {s, t} : \E i, j \in DOMAIN u : i # j /\ u[i].name = d /\ u[j].name = d
        \/ /\ line.compare_time_stamps
           /\ \E i \in DOMAIN s, j \in DOMAIN t : s[i].name = d /\ t[j].name = d

\* What -p compares of an entry.
Detail(line, e) == <<Key(line, e), e.method, e.comment, Range(e.fields)>>

\* zipcmp exits with 0 exactly if both sides hold the same files, and counts as
\* many files removed and added as differ (compare_zip): whatever the order of
\* the entries, with names that sort together, with several entries of a name,
\* and with directories that have an entry on one side only.  With -p it exits
\* with 0 exactly if all details are the same too; then the counts also hold the
\* extra fields, and of archives without entries the comment is not read.
VerdictIsRight ==
    proc # NULL /\ proc.program = "zipcmp" /\ proc.pc = "exited" =>
        LET line == proc.line
            f == [k \in 1..2 |-> disk[line.paths[k]]]
            lists == [k \in 1..2 |-> Listed(f[k])]
            lacking(k) == Lacking(line, lists[k], lists[3 - k], proc.have_directory)
            details(k) == {Detail(line, e) : e \in Range(lists[k])}
            same == details(1) = details(2) /\ f[1].comment = f[2].comment
        IN IF \E k \in 1..2 : f[k].kind \notin {"zip", "dir"} THEN proc.status = 2
           ELSE IF \E k \in 1..2 : InCycle(line, lists[k])
             THEN TRUE
           ELSE IF proc.have_directory /\ DirectoriesMisjudged(line, lists[1], lists[2])
             THEN TRUE
           ELSE IF ~proc.paranoid
             THEN /\ proc.minus = lacking(1) /\ proc.plus = lacking(2)
                  /\ proc.status = IF lacking(1) + lacking(2) = 0 THEN 0 ELSE 1
           ELSE IF \A k \in 1..2 :
                     /\ lists[k] # <<>>
                     /\ Cardinality({Key(line, e) : e \in Range(lists[k])}) = Len(lists[k])
             THEN proc.status = IF same THEN 0 ELSE 1
           ELSE TRUE
=============================================================================
