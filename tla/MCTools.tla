------------------------------ MODULE MCTools -------------------------------
EXTENDS Tools

NameRank == [n \in {"", "A", "a", "b", "d/", "d/a", "d0"} |->
    CASE n = "" -> 0 [] n = "A" -> 1 [] n = "a" -> 2 [] n = "b" -> 3
      [] n = "d/" -> 4 [] n = "d/a" -> 5 [] n = "d0" -> 6]
NameFolded == [n \in DOMAIN NameRank |-> IF n = "A" THEN NameRank["a"] ELSE NameRank[n]]
BaseName == [n \in DOMAIN NameRank |-> IF n = "d/" THEN "" ELSE IF n = "d/a" THEN "a" ELSE n]
NamesInside == [d \in {"d/"} |-> {"d/a"}]

Checksum == [d \in {<<>>, <<1>>, <<2>>, <<3>>, <<1, 2>>} |->
    CASE d = <<>> -> 0 [] d = <<1>> -> 1 [] d = <<2>> -> 3 [] d = <<3>> -> 6
      [] d = <<1, 2>> -> 1]

Entry(name, data, mtime) ==
    [name |-> name, data |-> data, crc |-> Checksum[data], method |-> "store", mtime |-> mtime,
     comment |-> NULL, fields |-> <<>>]
Archive(entries) == [kind |-> "zip", entries |-> entries, comment |-> NULL]

CmpEntries ==
    {Entry("a", <<1>>, 1), Entry("a", <<1>>, 2), Entry("a", <<1, 2>>, 1), Entry("A", <<1>>, 1),
     Entry("d/", <<>>, 1), Entry("d/a", <<3>>, 1), Entry("d0", <<2>>, 1), Entry("a", <<3>>, 1)}

Commented == {Entry("a", <<1>>, 1), [Entry("a", <<1>>, 1) EXCEPT !.comment = "x"],
              [Entry("a", <<1>>, 1) EXCEPT !.fields = <<<<"local", 1>>>>]}

Few == {Entry("a", <<1>>, 1), Entry("A", <<1>>, 1), Entry("d/", <<>>, 1), Entry("d/a", <<3>>, 1)}

CmpZips == {Archive(s) : s \in BoundedSeq(CmpEntries, 2)}
CmpPairs ==
    {<<f, g>> \in CmpZips \X CmpZips :
        \/ Len(f.entries) + Len(g.entries) < 4
        \/ Range(f.entries) \cup Range(g.entries) \subseteq Few}

Tree(dirs, files) == [kind |-> "dir", dirs |-> dirs, files |-> files]
CmpTrees ==
    {Tree(IF "d/a" \in s THEN {"d/"} ELSE t, [n \in s |-> [data |-> d, mtime |-> 1]]) :
        s \in SUBSET {"a", "d/a"}, t \in SUBSET {"d/"}, d \in {<<1>>}}

CmpLine(fold, times, paranoid) ==
    [program |-> "zipcmp", paths |-> <<"one", "two">>, ignore_case |-> fold,
     compare_time_stamps |-> times, paranoid |-> paranoid]

Pair(f, g) == [p \in {"one", "two"} |-> IF p = "one" THEN f ELSE g]

CmpScenarios ==
    [disk: {Pair(p[1], p[2]) : p \in CmpPairs},
     lines: {<<CmpLine(fold, times, FALSE)>> : fold \in BOOLEAN, times \in BOOLEAN}]
    \cup [disk: {Pair(f, g) : f \in CmpZips, g \in CmpTrees} \cup {Pair(g, f) : f \in CmpZips, g \in CmpTrees},
     lines: {<<CmpLine(fold, times, FALSE)>> : fold \in BOOLEAN, times \in BOOLEAN}]

Unopened ==
    [disk: {Pair([kind |-> "broken"], Archive(<<>>))}, lines: {<<CmpLine(FALSE, FALSE, FALSE)>>}]

Comments ==
    [disk: {Pair([Archive(<<e>>) EXCEPT !.comment = c], [Archive(<<f>>) EXCEPT !.comment = d]) :
                c \in {NULL, "x"}, d \in {NULL, "x"}, e \in Commented, f \in Commented},
     lines: {<<CmpLine(FALSE, FALSE, TRUE)>>}]

\* zipmerge.
Deflated(e) == [e EXCEPT !.method = "deflate"]
Extended(e) == [e EXCEPT !.fields = <<<<"local", 1>>, <<"central", 2>>>>]
Damaged(e) == [e EXCEPT !.crc = 9]

Targets == {NoFile, Archive(<<Entry("a", <<1>>, 1), Entry("b", <<2>>, 1)>>),
            Archive(<<Entry("d/a", <<1>>, 1), Deflated(Entry("A", <<1, 2>>, 1))>>)}
Sources == {Archive(<<Entry("a", <<1>>, 1)>>),
            Archive(<<Deflated(Extended(Entry("a", <<1, 2>>, 2))), Extended(Entry("d/a", <<3>>, 2))>>),
            Archive(<<Entry("A", <<1, 2>>, 1), Damaged(Deflated(Entry("b", <<2>>, 2)))>>),
            Archive(<<Damaged(Entry("b", <<2>>, 2))>>)}

MergeLine(sources, fold, confirm, keep) ==
    [program |-> "zipmerge", path |-> "target", sources |-> sources, name_flags |-> fold,
     confirm |-> confirm, keep_stored |-> keep]

Merges(disks, sources, keep) ==
    [disk: disks,
     lines: {<<MergeLine(sources, fold, confirm, k)>> :
                fold \in {{}, {"NODIR"}, {"NOCASE"}},
                confirm \in {{"ALL_YES"}, {}, {"SAME_YES"}, {"SAME_NO"}}, k \in keep}]

MergeScenarios ==
    Merges([target: Targets, one: Sources, two: Sources], <<"one", "two">>, {FALSE})
    \cup Merges([target: Targets, one: Sources], <<"one">>, {TRUE})
    \cup Merges([target: Targets \ {NoFile}, one: Sources], <<"one", "target">>, {TRUE})
    \cup [disk: [target: Targets, one: Sources],
          lines: {<<MergeLine(<<"one">>, {}, {}, FALSE),
                    [CmpLine(fold, TRUE, FALSE) EXCEPT !.paths = <<"target", "one">>]>> :
                        fold \in BOOLEAN}]
    \cup [disk: [target: {[kind |-> "broken"], NoFile}, one: {[kind |-> "broken"], NoFile}],
          lines: {<<MergeLine(<<"one">>, {}, {"ALL_YES"}, FALSE)>>}]

\* ziptool.
ToolLine(flags, memory, touch, commands) ==
    [program |-> "ziptool", path |-> "target", flags |-> flags, memory |-> memory,
     touch |-> touch, commands |-> commands]

TwoEntries == Archive(<<Entry("a", <<1>>, 1), Deflated(Extended(Entry("b", <<1, 2>>, 2)))>>)
Other == Archive(<<Entry("a", <<3>>, 1), Deflated(Entry("b", <<2>>, 1)), Damaged(Entry("A", <<1>>, 1))>>)
Data(d) == [kind |-> "file", data |-> d, mtime |-> 1]

Cmd(c) == [cmd |-> c]
At(c, i) == [cmd |-> c, index |-> i]
Edits ==
    {[cmd |-> "add", name |-> "a", data |-> <<3>>], [cmd |-> "add", name |-> "d0", data |-> <<>>],
     [cmd |-> "replace_file_contents", index |-> 1, data |-> <<2>>],
     [cmd |-> "rename", index |-> 1, name |-> "b"], [cmd |-> "rename", index |-> 1, name |-> "A"],
     [cmd |-> "rename", index |-> 2, name |-> "a"], [cmd |-> "rename", index |-> 2, name |-> "d/"],
     [cmd |-> "set_file_comment", index |-> 1, comment |-> "x"],
     [cmd |-> "set_file_compression", index |-> 1, method |-> "deflate"],
     At("delete", 1), At("delete", 2), At("unchange", 1), At("unchange", 3), Cmd("unchange_all")}

\* What brings a deleted entry back, and what gives its name to another.
Revivals ==
    {At("delete", 1), [cmd |-> "set_file_compression", index |-> 1, method |-> "deflate"],
     [cmd |-> "replace_file_contents", index |-> 1, data |-> <<2>>],
     [cmd |-> "add", name |-> "a", data |-> <<3>>], [cmd |-> "rename", index |-> 1, name |-> "A"],
     [cmd |-> "rename", index |-> 2, name |-> "a"], At("unchange", 1)}

Settings ==
    {[cmd |-> "set_archive_comment", comment |-> "x"],
     [cmd |-> "set_archive_flag", flag |-> "rdonly", value |-> TRUE],
     [cmd |-> "set_archive_flag", flag |-> "rdonly", value |-> FALSE],
     [cmd |-> "set_extra", index |-> 1, field |-> <<"local", 1>>],
     [cmd |-> "delete_extra", index |-> 2, field |-> <<"local", 1>>],
     [cmd |-> "set_file_mtime", index |-> 2, mtime |-> 4], [cmd |-> "set_file_mtime_all", mtime |-> 4],
     [cmd |-> "set_file_comment", index |-> 1, comment |-> NULL],
     At("delete", 1), At("stat", 1)}

FromFiles ==
    {[cmd |-> "add_file", name |-> "d0", path |-> "file", start |-> s, length |-> l] :
        s \in 0..1, l \in {0, 1}}
    \cup {[cmd |-> "extract_as", index |-> i, path |-> "out"] : i \in 1..3}
    \cup {[cmd |-> "cat", index |-> i, start |-> 0, length |-> 1] : i \in 1..3}
    \cup {[cmd |-> "replace_file_contents", index |-> 2, data |-> <<2>>]}

FromZips ==
    {[cmd |-> "add_from_zip", name |-> n, path |-> p, index |-> i, start |-> 0, length |-> l] :
        n \in {"A", "d0"}, p \in {"other"}, i \in {1, 2, 3}, l \in {-1, 0}}
    \cup {[cmd |-> "add_from_zip", name |-> "d/a", path |-> p, index |-> 2, start |-> 1, length |-> -1] :
        p \in {"target", "file"}}
    \cup {At("zin_close", i) : i \in 1..2}
    \cup {[cmd |-> "cat", index |-> 3, start |-> 0, length |-> 0]}

Reports ==
    {[cmd |-> "cancel", limit |-> l] : l \in {0, 1, 4, 5, 6, 8, 12, 13}}
    \cup {[cmd |-> "set_archive_flag", flag |-> "keep", value |-> TRUE],
          [cmd |-> "add", name |-> "d0", data |-> <<1, 2>>],
          [cmd |-> "set_file_compression", index |-> 2, method |-> "store"],
          At("delete", 1), At("delete", 2)}

\* A closed slot is not closed again.
ToolDisk(f) == [p \in {"target", "other", "file", "out", "memory"} |->
    CASE p = "target" -> f [] p = "other" -> Other [] p = "file" -> Data(<<1, 2>>)
      [] p \in {"out", "memory"} -> NoFile]

Tool(files, flags, memory, touches, commands) ==
    [disk: {ToolDisk(f) : f \in files},
     lines: {<<ToolLine(fl, m, t, c)>> : fl \in flags, m \in memory, t \in touches, c \in commands}]

ToolScenarios ==
    Tool({TwoEntries}, {{}}, {FALSE}, {NULL}, BoundedSeq(Edits, 3))
    \cup Tool({TwoEntries}, {{}}, {FALSE}, {NULL}, BoundedSeq(Revivals, 4))
    \cup Tool({TwoEntries}, {{}}, {FALSE}, {NULL}, BoundedSeq(Settings, 2))
    \cup Tool({TwoEntries}, {{}}, {FALSE}, {NULL, [path |-> "file", file |-> NoFile],
                                              [path |-> "file", file |-> Data(<<2>>)]},
              BoundedSeq(FromFiles, 2))
    \cup Tool({TwoEntries}, {{}}, {FALSE}, {NULL},
              {c \in BoundedSeq(FromZips, 3) : Cardinality({i \in DOMAIN c : c[i] = At("zin_close", 1)}) < 2})
    \cup Tool({TwoEntries}, {{}}, {FALSE}, {NULL}, BoundedSeq(Reports, 3))
    \cup Tool({TwoEntries, NoFile, Archive(<<>>), [kind |-> "broken"]},
              SUBSET {"CREATE", "EXCL", "TRUNCATE"}, BOOLEAN, {NULL},
              BoundedSeq({At("delete", 1), [cmd |-> "add", name |-> "a", data |-> <<3>>],
                          [cmd |-> "set_archive_flag", flag |-> "keep", value |-> TRUE]}, 2))

AllScenarios == CmpScenarios \cup Unopened \cup Comments \cup MergeScenarios \cup ToolScenarios
=============================================================================
