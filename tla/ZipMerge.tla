------------------------------ MODULE ZipMerge ------------------------------
(***************************************************************************)
(* zipmerge copies the entries of source archives into a target archive,   *)
(* replacing entries of the same name.  A line of the script is [program,  *)
(* path, sources, name_flags, confirm, keep_stored]; confirm is a set of   *)
(* "ALL_YES", "SAME_YES" and "SAME_NO".                                    *)
(***************************************************************************)
EXTENDS ToolClose

Merging == proc # NULL /\ proc.program = "zipmerge"

Exit(p, status) == [p EXCEPT !.pc = "exited", !.status = status]

\* main: the target is opened, and created when there is none.
StartMerge ==
    /\ proc = NULL /\ script # <<>>
    /\ LET line == Head(script)
           f == disk[line.path]
           p == [program |-> "zipmerge", line |-> line, path |-> line.path, before |-> disk,
                 pc |-> "exited", status |-> 1, za |-> NULL, sources |-> <<>>, next |-> 1,
                 declined |-> {}, isOpen |-> <<>>, progress |-> NULL, left |-> NULL,
                 out |-> <<>>, closed |-> NULL]
       IN /\ line.program = "zipmerge"
          /\ proc' = IF CanOpen(f, {"CREATE"})
                       THEN [p EXCEPT !.pc = "merging", !.za = OpenedZip(f, FALSE)]
                     ELSE p
    /\ UNCHANGED <<disk, script>>

\* The entries of the source that is open now.
Source == IF proc.sources = <<>> THEN <<>> ELSE Last(proc.sources)

SourceIsDone == proc.next > Len(Source)

\* merge_zip: a source is opened; the sources before stay open until the end.
OpenSource ==
    /\ Merging /\ proc.pc = "merging" /\ SourceIsDone
    /\ Len(proc.sources) < Len(proc.line.sources)
    /\ LET f == disk[proc.line.sources[Len(proc.sources) + 1]]
       IN proc' = IF ~CanOpen(f, {}) THEN Exit(proc, 1)
                  ELSE [proc EXCEPT !.sources = Append(@, f.entries), !.next = 1,
                                    !.isOpen = Append(@, TRUE)]
    /\ UNCHANGED <<disk, script>>

\* copy_extra_fields for central, then for local fields.
WithFieldsOf(e, za, at) ==
    LET of(flags) == SelectSeq(e.fields, LAMBDA f : f[1] = flags)
    IN FoldLeft(LAMBDA z, f : AddField(z, at, f), za, of("central") \o of("local"))

\* Faulty variant: nothing is put into an entry that exists.
CopyFileAddsOnly(za, at, e) ==
    LET source == ZipSource(Len(proc.sources), Source, proc.next, TRUE, 0, -1)
    IN IF at = 0 THEN FileAdd(za, e.name, source) ELSE za

\* copy_file: the entry becomes that of the source, or is added.
CopyFile(za, at, e) ==
    LET source == ZipSource(Len(proc.sources), Source, proc.next, TRUE, 0, -1)
        put == IF at = 0 THEN FileAdd(za, e.name, source) ELSE FileReplace(za, at, source)
        i == IF at = 0 THEN Len(put.entries) ELSE at
        copied == WithFieldsOf(e, put, i)
    IN IF put = NULL THEN NULL
       ELSE IF proc.line.keep_stored /\ e.method = "store" THEN SetCompression(copied, i, "store")
       ELSE copied

\* confirm_replace: whether to replace the i-th entry, which is looked up as it
\* was when the target was opened; NULL if that fails.
Answers(i, e) ==
    LET confirm == proc.line.confirm
        old == proc.za.entries[i].orig
        same == LET t == proc.za.opened[old] IN Len(t.data) = Len(e.data) /\ t.crc = e.crc
    IN IF "ALL_YES" \in confirm THEN {TRUE}
       ELSE IF old = 0 THEN {NULL}
       ELSE IF same /\ "SAME_YES" \in confirm THEN {TRUE}
       ELSE IF same /\ "SAME_NO" \in confirm THEN {FALSE}
       ELSE {TRUE, FALSE, NULL}

\* merge_zip: one entry of a source.
MergeEntry ==
    /\ Merging /\ proc.pc = "merging" /\ ~SourceIsDone
    /\ LET e == Source[proc.next]
           at == Locate(proc.za, e.name, proc.line.name_flags)
           copied(za) == IF za = NULL THEN Exit(proc, 1)
                         ELSE [proc EXCEPT !.za = za, !.next = @ + 1]
       IN \E answer \in IF at = 0 THEN {TRUE} ELSE Answers(at, e) :
            proc' = IF answer = NULL THEN Exit(proc, 1)
                    ELSE IF answer THEN copied(CopyFile(proc.za, at, e))
                    ELSE [proc EXCEPT !.next = @ + 1,
                                      !.declined = @ \cup {<<Len(proc.sources), proc.next>>}]
    /\ UNCHANGED <<disk, script>>

\* main: all sources are merged, the target is closed.
CloseTarget ==
    /\ Merging /\ proc.pc = "merging" /\ SourceIsDone
    /\ Len(proc.sources) = Len(proc.line.sources)
    /\ proc' = [proc EXCEPT !.pc = "closing"]
    /\ UNCHANGED <<disk, script>>

\* main: only then the sources are.
ExitMerge ==
    /\ Merging /\ proc.pc = "closed"
    /\ proc' = Exit(proc, IF proc.closed \in {"failed", "cancelled"} THEN 1 ELSE 0)
    /\ UNCHANGED <<disk, script>>

MergeStep == StartMerge \/ OpenSource \/ MergeEntry \/ CloseTarget \/ ExitMerge

(***************************************************************************)
(* Properties.                                                             *)
(***************************************************************************)

\* What merging entry j of source k, known by its name, does to files that are
\* known by theirs.
Namesake(files, name, flags) ==
    LET last(n) == IF "NODIR" \in flags THEN Base[n] ELSE n
        same(n) == IF "NOCASE" \in flags THEN FoldedRank[last(n)] = FoldedRank[name]
                   ELSE last(n) = name
        at == {i \in DOMAIN files : same(files[i].name)}
    IN IF at = {} THEN Len(files) + 1 ELSE Min(at)

Merged(p) ==
    LET source(k) == p.before[p.line.sources[k]].entries
        all == FlattenSeq([k \in DOMAIN p.line.sources |-> [j \in DOMAIN source(k) |-> <<k, j>>]])
        taken == SelectSeq(all, LAMBDA x : x \notin p.declined)
        put(files, x) ==
            LET e == source(x[1])[x[2]]
                i == Namesake(files, e.name, p.line.name_flags)
                name == IF i > Len(files) THEN e.name ELSE files[i].name
            IN [k \in 1..Max({i, Len(files)}) |->
                  IF k = i THEN [name |-> name, data |-> e.data, fields |-> Range(e.fields)]
                  ELSE files[k]]
        old == IF p.before[p.path] = NoFile THEN <<>> ELSE p.before[p.path].entries
        start == [i \in DOMAIN old |-> [name |-> old[i].name, data |-> old[i].data,
                                        fields |-> Range(old[i].fields)]]
    IN FoldLeft(put, start, taken)

\* A merge that succeeds leaves every file of the target and the sources in it
\* once, with the data and the extra fields of the last source that has it and
\* was not declined (merge_zip, copy_file): also if a source holds a name twice,
\* is the target itself, or names are compared without case or directories.  A
\* merge that fails leaves the target as it was.
MergeIsComplete ==
    proc # NULL /\ proc.program = "zipmerge" /\ proc.pc = "exited" =>
        LET f == disk[proc.path]
        IN IF proc.status = 1 THEN disk = proc.before
           ELSE IF Merged(proc) = <<>> THEN f = proc.before[proc.path]
           ELSE [i \in DOMAIN f.entries |->
                   [name |-> f.entries[i].name, data |-> f.entries[i].data,
                    fields |-> Range(f.entries[i].fields)]] = Merged(proc)
=============================================================================
