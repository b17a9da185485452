---------------------------- MODULE ToolsProofs -----------------------------
(***************************************************************************)
(* Proofs about Tools: whatever commands and archives ziptool is given,    *)
(* what it reports of its progress is true, a callback that cancels is     *)
(* obeyed, and a program that fails leaves the archive as it was.          *)
(***************************************************************************)
EXTENDS Tools, SequenceTheorems, NaturalsInduction, WellFoundedInduction, TLAPS

(***************************************************************************)
(* The inductive invariant.                                                *)
(***************************************************************************)

IsSequence(s) == s \in Seq(Range(s))

ProgressObject == [shown : Seq(Int), limit : Int, last : Int, start : Int, end : Int]

\* A progress object that nothing was reported to.
IsNew(pr) == pr \in ProgressObject /\ pr.shown = <<>> /\ pr.last = Progress!Unset

\* The reports so far, the last of which is `last`.
Grows(pr) ==
    /\ pr.shown # <<>> /\ pr.shown[1] = 0 /\ pr.shown[Len(pr.shown)] = pr.last
    /\ \A i, j \in 1 .. Len(pr.shown) : i < j => pr.shown[i] < pr.shown[j]

\* The progress when `done` of n entries are written.
IsAhead(pr, done, n) == pr.last * n > done * Progress!Whole

\* The progress within the section of the next of n entries, when `done` are written.
InSection(pr, done, n) ==
    /\ pr \in ProgressObject /\ Grows(pr)
    /\ pr.start \in Nat /\ pr.start <= pr.end /\ pr.end * n <= (done + 1) * Progress!Whole
    /\ pr.last \in Int /\ pr.last <= pr.end
    /\ done + 1 = n => pr.end = Progress!Whole

IsWriting(p) == p.pc \in {"closing", "copying"}

\* The entries that are written and the one that may have been begun.
Begun(p) == IF p.pc = "closing" \/ p.left = <<>> THEN Len(p.out) ELSE Len(p.out) + 1

\* The progress of a zip_close that has entries to write.
Truthful(p) ==
    LET pr == p.progress
        n == Len(p.left) + Len(p.out)
    IN /\ pr \in ProgressObject /\ Grows(pr)
       /\ ~IsAhead(pr, Begun(p), n)
       /\ p.pc = "copying" => InSection(pr, Len(p.out), n)
       /\ p.pc = "closing" /\ p.left = <<>> => pr.end = Progress!Whole
       /\ p.closed = "written" => pr.last = Progress!Whole
       /\ p.closed = "cancelled" => pr.last >= pr.limit
       /\ p.closed = "cancelled" \/ p.left = <<>> \/ pr.last < pr.limit
       /\ IsWriting(p) => pr.last < pr.limit

\* What the programs that write an archive have.
Writer == {"program", "line", "before", "path", "pc", "status", "za", "isOpen",
           "progress", "left", "out", "closed"}

Fields == Writer \cup {"err", "commands", "done", "z_in", "z_in_count"}

\* An open archive.
IsArchive(za) == "entries" \in DOMAIN za /\ IsSequence(za.entries)

ToolRuns(p, files) ==
    /\ Fields \subseteq DOMAIN p
    /\ p.pc \in {"commands", "closing", "copying", "closed", "exited"}
    /\ IsProper(p.line, DOMAIN files) /\ p.line.program = "ziptool" /\ p.path = ArchivePath(p.line)
    /\ p.pc = "commands" =>
        /\ IsSequence(p.commands) /\ Range(p.commands) \subseteq Range(p.line.commands)
        /\ p.left = NULL
    /\ p.pc \in {"commands", "closing", "copying"} => IsArchive(p.za) /\ p.closed = NULL
    /\ p.pc = "copying" => p.left # NULL /\ p.left # <<>>
    /\ p.pc = "closed" => p.closed \in Results
    /\ p.closed \in Results \cup {NULL}
    /\ p.closed \in {NULL, "failed", "cancelled"} => files[p.path] = p.before[p.line.path]
    /\ p.pc = "exited" /\ p.closed \in {NULL, "failed", "cancelled"} => p.status = 1
    /\ IsSequence(p.out)
    /\ p.left = NULL /\ p.progress # NULL => IsNew(p.progress)
    /\ p.left # NULL => p.left \in Seq(Nat)
    /\ p.left # NULL /\ p.progress # NULL /\ Len(p.left) + Len(p.out) > 0 => Truthful(p)

MergeRuns(p, files) ==
    /\ Writer \subseteq DOMAIN p
    /\ p.pc \in {"merging", "closing", "copying", "closed", "exited"}
    /\ p.progress = NULL
    /\ p.pc \in {"merging", "closing", "copying"} => p.closed = NULL
    /\ p.pc = "closed" => p.closed \in Results
    /\ p.closed \in Results \cup {NULL}
    /\ p.closed \in {NULL, "failed", "cancelled"} => files = p.before
    /\ p.pc = "exited" /\ p.status = 1 => p.closed \in {NULL, "failed", "cancelled"}
    /\ IsSequence(p.out)

\* A process is one of the three programs, and these are the files.
Runs(p, files) ==
    \/ p.program = "zipcmp" /\ p.pc \in {"compare", "exited"}
       /\ {"program", "pc"} \subseteq DOMAIN p
    \/ p.program = "zipmerge" /\ MergeRuns(p, files)
    \/ p.program = "ziptool" /\ ToolRuns(p, files)

IInv ==
    /\ \A path \in DOMAIN disk : IsFile(disk[path])
    /\ IsSequence(script) /\ \A line \in Range(script) : IsProper(line, DOMAIN disk)
    /\ proc # NULL => script # <<>> /\ Runs(proc, disk)

(***************************************************************************)
(* Sequences and archives.                                                 *)
(***************************************************************************)

LEMMA SequenceIs ==
    ASSUME NEW T, NEW s \in Seq(T)
    PROVE  IsSequence(s) /\ Range(s) \subseteq T /\ Len(s) \in Nat /\ DOMAIN s = 1 .. Len(s)
<1>1. Len(s) \in Nat /\ DOMAIN s = 1 .. Len(s) /\ s = [i \in 1 .. Len(s) |-> s[i]]
  OBVIOUS
<1>2. \A i \in 1 .. Len(s) : s[i] \in Range(s)
  BY <1>1 DEF Range
<1>3. s \in [1 .. Len(s) -> Range(s)]
  BY <1>1, <1>2
<1>4. s \in Seq(Range(s))
  BY <1>1, <1>3, SeqDef
<1>5. Range(s) \subseteq T
  BY DEF Range
<1> QED
  BY <1>1, <1>4, <1>5 DEF IsSequence

LEMMA FunctionIsSequence ==
    ASSUME NEW n \in Nat, NEW f, f = [i \in 1 .. n |-> f[i]]
    PROVE  IsSequence(f) /\ Len(f) = n
<1>1. f \in [1 .. n -> {f[i] : i \in 1 .. n}]
  OBVIOUS
<1>2. f \in Seq({f[i] : i \in 1 .. n}) /\ Len(f) = n
  BY <1>1, SeqDef
<1> QED
  BY <1>2, SequenceIs

LEMMA Appended ==
    ASSUME NEW s, IsSequence(s), NEW e
    PROVE  /\ IsSequence(Append(s, e)) /\ Len(s) \in Nat /\ Len(Append(s, e)) = Len(s) + 1
<1>1. s \in Seq(Range(s) \cup {e})
  <2>1. s \in Seq(Range(s))
    BY DEF IsSequence
  <2> QED
    BY <2>1
<1>2. Append(s, e) \in Seq(Range(s) \cup {e}) /\ Len(s) \in Nat /\ Len(Append(s, e)) = Len(s) + 1
  BY <1>1
<1> QED
  BY <1>2, SequenceIs

LEMMA EmptyIsSequence == IsSequence(<<>>) /\ Range(<<>>) = {}
BY DEF IsSequence, Range

LEMMA TailIs ==
    ASSUME NEW s, IsSequence(s), s # <<>>
    PROVE  /\ IsSequence(Tail(s)) /\ Range(Tail(s)) \subseteq Range(s)
           /\ Head(s) \in Range(s) /\ Len(s) \in Nat \ {0} /\ Len(Tail(s)) = Len(s) - 1
<1> DEFINE T == Range(s)
<1>1. s \in Seq(T)
  BY DEF IsSequence
<1> HIDE DEF T
<1>2. Tail(s) \in Seq(T) /\ Head(s) \in T /\ Len(s) \in Nat \ {0} /\ Len(Tail(s)) = Len(s) - 1
  BY <1>1
<1> QED
  BY <1>2, SequenceIs DEF T

LEMMA Replaced ==
    ASSUME NEW s, IsSequence(s), NEW i, NEW e
    PROVE  IsSequence([s EXCEPT ![i] = e])
<1> DEFINE n == Len(s)
           new == [s EXCEPT ![i] = e]
<1>1. n \in Nat /\ DOMAIN s = 1 .. n /\ s = [j \in 1 .. n |-> s[j]]
  BY DEF IsSequence
<1>2. new = [j \in 1 .. n |-> new[j]]
  BY <1>1
<1> HIDE DEF n, new
<1>3. IsSequence(new)
  BY <1>1, <1>2, FunctionIsSequence
<1> QED
  BY <1>3 DEF new

\* What the calls make of the entries.
LEMMA EntriesBecome ==
    ASSUME NEW za, IsArchive(za), NEW entries, IsSequence(entries)
    PROVE  IsArchive([za EXCEPT !.entries = entries])
BY DEF IsArchive

LEMMA OneEntryChanged ==
    ASSUME NEW za, IsArchive(za), NEW i, NEW e
    PROVE  IsArchive([za EXCEPT !.entries[i] = e])
<1> DEFINE entries == [za.entries EXCEPT ![i] = e]
<1>1. IsSequence(entries)
  BY Replaced DEF IsArchive
<1> HIDE DEF entries
<1>2. IsArchive([za EXCEPT !.entries = entries])
  BY <1>1, EntriesBecome
<1> QED
  BY <1>2 DEF entries

LEMMA EntryAdded ==
    ASSUME NEW za, IsArchive(za), NEW e
    PROVE  IsArchive([za EXCEPT !.entries = Append(@, e)])
<1> DEFINE entries == Append(za.entries, e)
<1>1. IsSequence(entries)
  BY Appended DEF IsArchive
<1> HIDE DEF entries
<1>2. IsArchive([za EXCEPT !.entries = entries])
  BY <1>1, EntriesBecome
<1> QED
  BY <1>2 DEF entries

LEMMA UnlistedIs ==
    ASSUME NEW za, IsArchive(za), NEW entries, IsSequence(entries), NEW name
    PROVE  IsArchive([za EXCEPT !.entries = Unlisted(entries, name)])
<1> DEFINE n == Len(entries)
           new == [i \in 1 .. n |-> [entries[i] EXCEPT !.named = @ /\ entries[i].name # name]]
<1>1. n \in Nat /\ Unlisted(entries, name) = new
  BY DEF IsSequence, Unlisted
<1>2. new = [i \in 1 .. n |-> new[i]]
  OBVIOUS
<1> HIDE DEF n, new
<1>3. IsSequence(new)
  BY <1>1, <1>2, FunctionIsSequence
<1> QED
  BY <1>1, <1>3, EntriesBecome

\* The API functions give an archive, if they succeed.
IsResult(za) == za = NULL \/ IsArchive(za)

LEMMA FileAddIs ==
    ASSUME NEW za, IsArchive(za), NEW name, NEW source
    PROVE  IsResult(FileAdd(za, name, source))
BY EntryAdded DEF FileAdd, IsResult

LEMMA FileReplaceIs ==
    ASSUME NEW za, IsArchive(za), NEW i, NEW source
    PROVE  IsResult(FileReplace(za, i, source))
BY OneEntryChanged DEF FileReplace, IsResult

LEMMA DeleteIs ==
    ASSUME NEW za, IsArchive(za), NEW i
    PROVE  IsResult(Delete(za, i))
<1> DEFINE rest == Unlisted(za.entries, za.entries[i].name)
           e == [Original(za.opened, za.entries[i].orig)
                   EXCEPT !.deleted = TRUE, !.named = FALSE]
<1>1. IsArchive([za EXCEPT !.entries = rest])
  BY UnlistedIs DEF IsArchive
<1>2. IsSequence(rest)
  BY <1>1 DEF IsArchive
<1> HIDE DEF rest, e
<1>3. IsArchive([za EXCEPT !.entries = [rest EXCEPT ![i] = e]])
  BY <1>2, Replaced, EntriesBecome
<1> QED
  BY <1>3 DEF Delete, IsResult, rest, e

LEMMA FileRenameIs ==
    ASSUME NEW za, IsArchive(za), NEW i, NEW name
    PROVE  IsResult(FileRename(za, i, name))
<1>1. ASSUME NEW e
      PROVE  IsArchive([za EXCEPT !.entries =
                          Unlisted([za.entries EXCEPT ![i] = e], za.entries[i].name)])
  <2> DEFINE renamed == [za.entries EXCEPT ![i] = e]
  <2>1. IsSequence(renamed)
    BY Replaced DEF IsArchive
  <2> HIDE DEF renamed
  <2>2. \A old : IsArchive([za EXCEPT !.entries = Unlisted(renamed, old)])
    BY <2>1, UnlistedIs
  <2> QED
    BY <2>2 DEF renamed
<1> QED
  BY <1>1 DEF FileRename, IsResult

LEMMA SetCommentIs ==
    ASSUME NEW za, IsArchive(za), NEW i, NEW comment
    PROVE  IsResult(SetComment(za, i, comment))
<1>1. \A e : IsArchive([za EXCEPT !.entries[i] = e])
  BY OneEntryChanged
<1> QED
  BY <1>1 DEF SetComment, IsResult

LEMMA SettersGiveArchives ==
    ASSUME NEW za, IsArchive(za), NEW i, NEW x
    PROVE  /\ IsResult(SetCompression(za, i, x)) /\ IsResult(SetTime(za, i, x))
           /\ IsResult(AddField(za, i, x)) /\ IsResult(DeleteField(za, i, x))
           /\ IsResult(SetArchiveComment(za, x))
<1>1. \A e : IsArchive([za EXCEPT !.entries[i] = e])
  BY OneEntryChanged
<1>2. IsResult(SetArchiveComment(za, x))
  BY DEF SetArchiveComment, IsResult, IsArchive
<1> QED
  BY <1>1, <1>2 DEF SetCompression, SetTime, AddField, DeleteField, IsResult

LEMMA UnchangeIs ==
    ASSUME NEW za, IsArchive(za), NEW i
    PROVE  IsResult(Unchange(za, i)) /\ IsResult(UnchangeAll(za))
<1>1. IsResult(Unchange(za, i))
  <2> DEFINE rest == Unlisted(za.entries, za.entries[i].name)
  <2>1. IsArchive([za EXCEPT !.entries = rest])
    BY UnlistedIs DEF IsArchive
  <2>2. IsSequence(rest) /\ IsSequence(za.entries)
    BY <2>1 DEF IsArchive
  <2> HIDE DEF rest
  <2>3. \A e : /\ IsArchive([za EXCEPT !.entries = [rest EXCEPT ![i] = e]])
              /\ IsArchive([za EXCEPT !.entries = [za.entries EXCEPT ![i] = e]])
    BY <2>2, Replaced, EntriesBecome
  <2> QED
    BY <2>3 DEF Unchange, IsResult, rest
<1> DEFINE entries == [j \in Indices(za) |-> Original(za.opened, za.entries[j].orig)]
<1>2. IsSequence(entries)
  <2>1. IsSequence(za.entries)
    BY DEF IsArchive
  <2>2. Len(za.entries) \in Nat /\ Indices(za) = 1 .. Len(za.entries)
    BY <2>1 DEF IsSequence, Indices
  <2>3. entries = [j \in 1 .. Len(za.entries) |-> entries[j]]
    BY <2>2
  <2> HIDE DEF entries
  <2> QED
    BY <2>2, <2>3, FunctionIsSequence
<1> HIDE DEF entries
<1>3. IsArchive([za EXCEPT !.entries = entries, !.comment_changes = NULL, !.comment_changed = FALSE,
                           !.keep = FALSE, !.rdonly = FALSE])
  BY <1>2 DEF IsArchive
<1> QED
  BY <1>1, <1>3 DEF UnchangeAll, IsResult, entries

LEMMA OpenedZipIs ==
    ASSUME NEW f, NEW truncate \in BOOLEAN, f # NoFile /\ ~truncate => IsSequence(f.entries)
    PROVE  IsArchive(OpenedZip(f, truncate))
<1> DEFINE opened == IF f = NoFile \/ truncate THEN <<>> ELSE f.entries
           entries == [i \in DOMAIN opened |-> Original(opened, i)]
<1>1. IsSequence(opened)
  BY EmptyIsSequence
<1> HIDE DEF opened
<1>2. Len(opened) \in Nat /\ DOMAIN opened = 1 .. Len(opened)
  BY <1>1 DEF IsSequence
<1>3. entries = [i \in 1 .. Len(opened) |-> entries[i]]
  BY <1>2
<1> HIDE DEF entries
<1>4. IsSequence(entries)
  BY <1>2, <1>3, FunctionIsSequence
<1>5. OpenedZip(f, truncate).entries = entries /\ "entries" \in DOMAIN OpenedZip(f, truncate)
  BY DEF OpenedZip, entries, opened
<1> QED
  BY <1>4, <1>5 DEF IsArchive

(***************************************************************************)
(* Recursion: what holds before the first step and passes from one to the  *)
(* next holds after each.                                                  *)
(***************************************************************************)

LEMMA NatHasLeast ==
    ASSUME NEW S \in SUBSET Nat, S # {}
    PROVE  \E x \in S : \A y \in S : x <= y
<1>1. PICK x \in S : \A y \in S : ~(<<y, x>> \in OpToRel(<, Nat))
  BY NatLessThanWellFounded, WFMin, Zenon
<1>2. \A y \in S : ~(y < x)
  BY <1>1 DEF OpToRel
<1> QED
  BY <1>2

\* What holds of the first step and passes from each to the next.
LEMMA StepByStep ==
    ASSUME NEW n \in Nat, NEW Good, 0 \in Good,
           \A k \in 1 .. n : k - 1 \in Good => k \in Good
    PROVE  \A k \in 0 .. n : k \in Good
<1> DEFINE Bad == {k \in 0 .. n : k \notin Good}
<1>1. SUFFICES ASSUME Bad # {} PROVE FALSE
  OBVIOUS
<1>2. PICK m \in Bad : \A y \in Bad : m <= y
  <2>1. Bad \in SUBSET Nat
    OBVIOUS
  <2> HIDE DEF Bad
  <2> QED
    BY <2>1, <1>1, NatHasLeast
<1>3. m \in 1 .. n /\ m - 1 \in 0 .. n /\ m - 1 \notin Bad
  BY <1>2
<1> QED
  BY <1>3

\* A function that begins with first and goes on as step says.
FollowsSteps(f, n, first, step) == f[0] = first /\ \A k \in 1 .. n : f[k] = step[k][f[k - 1]]

LEMMA StepsExist ==
    ASSUME NEW n \in Nat, NEW X, NEW first \in X, NEW step \in [1 .. n -> [X -> X]]
    PROVE  \E f \in [0 .. n -> X] : FollowsSteps(f, n, first, step)
<1> DEFINE Upto(m, f) == f \in [0 .. m -> X] /\ FollowsSteps(f, m, first, step)
           Good == {m \in 0 .. n : \E f \in [0 .. m -> X] : Upto(m, f)}
<1>1. 0 \in Good
  <2> DEFINE g == [i \in 0 .. 0 |-> first]
  <2>1. g \in [0 .. 0 -> X] /\ g[0] = first /\ 0 \in 0 .. n
    OBVIOUS
  <2> HIDE DEF g
  <2>2. Upto(0, g)
    BY <2>1 DEF FollowsSteps
  <2> QED
    BY <2>1, <2>2
<1>2. ASSUME NEW m \in 1 .. n, m - 1 \in Good PROVE m \in Good
  <2>1. PICK f \in [0 .. (m - 1) -> X] : Upto(m - 1, f)
    BY <1>2
  <2> DEFINE v == step[m][f[m - 1]]
             g == [i \in 0 .. m |-> IF i = m THEN v ELSE f[i]]
  <2>2. m - 1 \in 0 .. (m - 1) /\ f[m - 1] \in X
    BY <2>1
  <2>3. v \in X
    <3>1. step[m] \in [X -> X]
      OBVIOUS
    <3> QED
      BY <3>1, <2>2
  <2> HIDE DEF v
  <2>4. g \in [0 .. m -> X] /\ g[m] = v /\ \A i \in 0 .. (m - 1) : g[i] = f[i]
    <3>1. \A i \in 0 .. m : i # m => i \in 0 .. (m - 1)
      OBVIOUS
    <3>2. \A i \in 0 .. m : g[i] \in X
      BY <3>1, <2>1, <2>3
    <3> QED
      BY <3>2
  <2> HIDE DEF g
  <2>5. ASSUME NEW k \in 1 .. m PROVE g[k] = step[k][g[k - 1]]
    <3>1. CASE k = m
      <4>1. g[k - 1] = f[m - 1]
        BY <3>1, <2>4
      <4> QED
        BY <4>1, <3>1, <2>4 DEF v
    <3>2. CASE k # m
      <4>1. k \in 1 .. (m - 1) /\ k \in 0 .. (m - 1) /\ k - 1 \in 0 .. (m - 1)
        BY <3>2
      <4> QED
        BY <4>1, <2>1, <2>4 DEF FollowsSteps
    <3> QED
      BY <3>1, <3>2
  <2>6. g[0] = first
    BY <2>1, <2>4 DEF FollowsSteps
  <2>7. Upto(m, g) /\ m \in 0 .. n
    BY <2>4, <2>5, <2>6 DEF FollowsSteps
  <2> HIDE DEF Upto
  <2> QED
    BY <2>4, <2>7
<1> HIDE DEF Good
<1>3. n \in Good
  <2>1. n \in 0 .. n
    OBVIOUS
  <2> QED
    BY <2>1, <1>1, <1>2, StepByStep
<1> QED
  BY <1>3 DEF Good

LEMMA FlattenIs ==
    ASSUME NEW T, NEW n \in Nat, NEW piece \in [1 .. n -> Seq(T)]
    PROVE  FlattenSeq(piece) \in Seq(T)
<1>1. Len(piece) = n
  OBVIOUS
<1>2. CASE n = 0
  <2>1. FlattenSeq(piece) = piece
    BY <1>1, <1>2 DEF FlattenSeq
  <2> QED
    BY <2>1, <1>2
<1>3. CASE n # 0
  <2> DEFINE body(f) == [i \in 1 .. n |-> IF i = 1 THEN piece[i] ELSE f[i - 1] \o piece[i]]
             flat == CHOOSE f : f = body(f)
             first == piece[1]
             step == [k \in 1 .. (n - 1) |-> [s \in Seq(T) |-> s \o piece[k + 1]]]
  <2>1. n - 1 \in Nat /\ first \in Seq(T) /\ \A k \in 1 .. n : piece[k] \in Seq(T)
    BY <1>3
  <2>2. step \in [1 .. (n - 1) -> [Seq(T) -> Seq(T)]]
    <3>1. ASSUME NEW k \in 1 .. (n - 1), NEW s \in Seq(T) PROVE s \o piece[k + 1] \in Seq(T)
      <4>1. piece[k + 1] \in Seq(T)
        <5>1. k + 1 \in 1 .. n
          OBVIOUS
        <5> QED
          BY <5>1
      <4> QED
        BY <4>1
    <3> QED
      BY <3>1
  <2>3. PICK f \in [0 .. (n - 1) -> Seq(T)] : FollowsSteps(f, n - 1, first, step)
    <3> DEFINE m == n - 1
    <3>1. m \in Nat /\ step \in [1 .. m -> [Seq(T) -> Seq(T)]]
      BY <2>1, <2>2
    <3> HIDE DEF m, first, step
    <3>2. \E f \in [0 .. m -> Seq(T)] : FollowsSteps(f, m, first, step)
      BY <3>1, <2>1, StepsExist
    <3> QED
      BY <3>2 DEF m
  <2> DEFINE g == [i \in 1 .. n |-> f[i - 1]]
  <2>4. \A i \in 1 .. n : g[i] = IF i = 1 THEN piece[i] ELSE g[i - 1] \o piece[i]
    <3>1. ASSUME NEW i \in 1 .. n, i # 1 PROVE g[i] = g[i - 1] \o piece[i]
      <4> DEFINE k == i - 1
      <4>1. k \in 1 .. (n - 1) /\ k \in 1 .. n /\ k - 1 \in 0 .. (n - 1) /\ k + 1 = i
        BY <3>1
      <4>2. f[k] = step[k][f[k - 1]]
        BY <4>1, <2>3 DEF FollowsSteps
      <4>3. f[k - 1] \in Seq(T)
        BY <4>1, <2>3
      <4>4. step[k][f[k - 1]] = f[k - 1] \o piece[i]
        <5> HIDE DEF k
        <5> QED
          BY <4>1, <4>3
      <4>5. g[i] = f[k] /\ g[k] = f[k - 1]
        <5>1. g[k] = f[k - 1]
          <6> HIDE DEF k
          <6> QED
            BY <4>1
        <5> QED
          BY <5>1
      <4> QED
        BY <4>2, <4>4, <4>5
    <3>2. g[1] = piece[1] /\ 1 \in 1 .. n
      BY <1>3, <2>3 DEF FollowsSteps
    <3> HIDE DEF g
    <3> QED
      BY <3>1, <3>2
  <2>5. g = body(g)
    <3>1. \A i \in 1 .. n : g[i] = body(g)[i]
      BY <2>4
    <3>2. g = [i \in 1 .. n |-> g[i]] /\ body(g) = [i \in 1 .. n |-> body(g)[i]]
      OBVIOUS
    <3> HIDE DEF g, body
    <3> QED
      BY <3>1, <3>2
  <2>6. flat = body(flat)
    BY <2>5
  <2>7. FlattenSeq(piece) = flat[n]
    BY <1>1, <1>3 DEF FlattenSeq
  <2>8. \A i \in 1 .. n : flat[i] = IF i = 1 THEN piece[i] ELSE flat[i - 1] \o piece[i]
    <3> HIDE DEF flat
    <3> QED
      BY <2>6
  <2> HIDE DEF body, flat, first, step, g
  <2> DEFINE Good == {k \in 0 .. n : k = 0 \/ flat[k] \in Seq(T)}
  <2>9. ASSUME NEW k \in 1 .. n, k - 1 \in Good PROVE k \in Good
    <3>1. CASE k = 1
      BY <3>1, <2>1, <2>8
    <3>2. CASE k # 1
      <4>1. flat[k - 1] \in Seq(T) /\ piece[k] \in Seq(T) /\ k \in 0 .. n
        BY <3>2, <2>1, <2>9
      <4>2. flat[k] = flat[k - 1] \o piece[k]
        BY <3>2, <2>8
      <4>3. flat[k] \in Seq(T)
        BY <4>1, <4>2
      <4> QED
        BY <4>1, <4>3
    <3> QED
      BY <3>1, <3>2
  <2>10. 0 \in Good
    OBVIOUS
  <2> HIDE DEF Good
  <2>11. n \in Good
    <3>1. n \in 0 .. n
      OBVIOUS
    <3> QED
      BY <3>1, <2>9, <2>10, StepByStep
  <2> QED
    BY <2>7, <2>11, <1>3 DEF Good
<1> QED
  BY <1>2, <1>3

LEMMA FilelistIs ==
    ASSUME NEW za, IsArchive(za)
    PROVE  Filelist(za) \in Seq(Nat)
<1> DEFINE n == Len(za.entries)
           piece == [i \in Indices(za) |-> IF za.entries[i].deleted THEN <<>> ELSE <<i>>]
<1>1. n \in Nat /\ Indices(za) = 1 .. n
  BY DEF IsArchive, IsSequence, Indices
<1>2. piece \in [1 .. n -> Seq(Nat)]
  BY <1>1
<1>3. Filelist(za) = FlattenSeq(piece)
  BY DEF Filelist
<1> HIDE DEF n, piece
<1> QED
  BY <1>1, <1>2, <1>3, FlattenIs

(***************************************************************************)
(* The progress.                                                           *)
(***************************************************************************)

LEMMA NewProgressIs ==
    ASSUME NEW limit \in Int
    PROVE  IsNew([Progress!NewProgress EXCEPT !.limit = limit])
<1> DEFINE unset == Progress!Unset
           pr == [Progress!NewProgress EXCEPT !.limit = limit]
<1>1. unset \in Int
  BY DEF Progress!Unset
<1> HIDE DEF unset
<1>2. pr = [shown |-> <<>>, limit |-> limit, last |-> unset, start |-> unset, end |-> unset]
  BY DEF Progress!NewProgress, unset
<1> HIDE DEF pr
<1>3. pr \in ProgressObject /\ pr.shown = <<>> /\ pr.last = unset
  BY <1>1, <1>2 DEF ProgressObject
<1> QED
  BY <1>3 DEF IsNew, unset, pr

LEMMA ObjectFields ==
    ASSUME NEW pr \in ProgressObject
    PROVE  /\ pr.shown \in Seq(Int) /\ pr.limit \in Int /\ pr.last \in Int
           /\ pr.start \in Int /\ pr.end \in Int
           /\ {"shown", "limit", "last", "start", "end"} = DOMAIN pr
BY DEF ProgressObject

\* One more report, which is more than the last.
LEMMA ShowIs ==
    ASSUME NEW pr \in ProgressObject, NEW current \in Int,
           (pr.shown = <<>> /\ current = 0) \/ (Grows(pr) /\ current > pr.last)
    PROVE  /\ Progress!Show(pr, current) \in ProgressObject /\ Grows(Progress!Show(pr, current))
           /\ Progress!Show(pr, current).last = current
           /\ Progress!Show(pr, current).limit = pr.limit
           /\ Progress!Show(pr, current).start = pr.start
           /\ Progress!Show(pr, current).end = pr.end
<1> DEFINE s == pr.shown
           n == Len(s)
           t == Append(s, current)
           new == Progress!Show(pr, current)
<1>1. s \in Seq(Int) /\ n \in Nat /\ t \in Seq(Int) /\ Len(t) = n + 1 /\ t[n + 1] = current
      /\ \A i \in 1 .. n : t[i] = s[i] /\ s[i] \in Int
  BY ObjectFields
<1>2. /\ new = [pr EXCEPT !.shown = t, !.last = current] /\ new \in ProgressObject
      /\ new.shown = t /\ new.last = current /\ new.limit = pr.limit /\ new.start = pr.start
      /\ new.end = pr.end
  <2>1. new = [pr EXCEPT !.shown = t, !.last = current]
    BY DEF Progress!Show
  <2> HIDE DEF new, t
  <2> QED
    BY <2>1, <1>1 DEF ProgressObject
<1>3. t # <<>> /\ t[1] = 0 /\ t[Len(t)] = current
  <2>1. CASE s = <<>> /\ current = 0
    BY <2>1, <1>1
  <2>2. CASE Grows(pr) /\ current > pr.last
    <3>1. s # <<>> /\ s[1] = 0
      BY <2>2 DEF Grows
    <3> QED
      BY <3>1, <1>1
  <2> QED
    BY <2>1, <2>2
<1>4. ASSUME NEW i \in 1 .. n + 1, NEW j \in 1 .. n + 1, i < j
      PROVE  t[i] < t[j]
  <2>1. Grows(pr) /\ current > pr.last /\ n >= 1 /\ i \in 1 .. n
    <3>1. n # 0
      BY <1>1, <1>4
    <3>2. s # <<>>
      BY <3>1
    <3> QED
      BY <3>1, <3>2, <1>1, <1>4
  <2>2. s[n] = pr.last /\ s[n] < current /\ n \in 1 .. n
    BY <2>1, <1>1 DEF Grows
  <2>3. CASE j \in 1 .. n
    <3>1. s[i] < s[j]
      BY <2>1, <2>3, <1>4 DEF Grows
    <3> QED
      BY <3>1, <2>1, <2>3, <1>1
  <2>4. CASE j = n + 1
    <3>1. i = n \/ s[i] < s[n]
      BY <2>1, <2>2, <1>1 DEF Grows
    <3>2. t[i] = s[i] /\ t[j] = current /\ s[i] \in Int /\ s[n] \in Int
      BY <2>1, <2>2, <2>4, <1>1
    <3> QED
      BY <3>1, <3>2, <2>2
  <2> QED
    BY <2>3, <2>4, <1>1, <1>4
<1> HIDE DEF new, t, s, n
<1>5. Grows(new)
  BY <1>1, <1>2, <1>3, <1>4 DEF Grows
<1> QED
  BY <1>2, <1>5 DEF new

LEMMA StartIs ==
    ASSUME NEW pr, IsNew(pr)
    PROVE  /\ Progress!Start(pr) \in ProgressObject /\ Grows(Progress!Start(pr))
           /\ Progress!Start(pr).last = 0
<1>1. pr \in ProgressObject /\ pr.shown = <<>>
  BY DEF IsNew
<1> DEFINE zero == 0
<1>2. zero \in Int /\ zero = 0
  OBVIOUS
<1> HIDE DEF zero
<1>3. /\ Progress!Show(pr, zero) \in ProgressObject /\ Grows(Progress!Show(pr, zero))
      /\ Progress!Show(pr, zero).last = zero
  BY <1>1, <1>2, ShowIs
<1> QED
  BY <1>2, <1>3 DEF Progress!Start

\* What the callbacks have been told of last.
LEMMA ReportedIs ==
    ASSUME NEW pr, Grows(pr)
    PROVE  /\ Progress!Reported(pr) = pr.last
           /\ Progress!Cancels(pr) <=> pr.last >= pr.limit
BY DEF Grows, Progress!Reported, Progress!Cancels

\* What an update may make of the progress.
IsUpdated(pr, new, current) ==
    /\ new \in ProgressObject /\ Grows(new)
    /\ new.limit = pr.limit /\ new.start = pr.start /\ new.end = pr.end
    /\ new.last = IF current > pr.last THEN current ELSE pr.last

LEMMA UpdateIs ==
    ASSUME NEW pr \in ProgressObject, Grows(pr), NEW part \in Nat, NEW of \in Nat \ {0}, part <= of
    PROVE  IsUpdated(pr, Progress!Update(pr, part, of), pr.start + (part * (pr.end - pr.start)) \div of)
<1> DEFINE current == pr.start + (part * (pr.end - pr.start)) \div of
<1>1. current \in Int /\ pr.last \in Int
  <2>1. pr.start \in Int /\ pr.end \in Int /\ pr.last \in Int
    BY ObjectFields
  <2> DEFINE d == part * (pr.end - pr.start)
  <2>2. d \in Int
    BY <2>1
  <2> HIDE DEF d
  <2>3. d \div of \in Int
    BY <2>2
  <2> QED
    BY <2>1, <2>3 DEF d
<1>2. (IF part > of THEN of ELSE part) = part
  OBVIOUS
<1>3. Progress!Update(pr, part, of) =
        IF current > pr.last \/ (pr.last < Progress!Whole /\ current = Progress!Whole)
        THEN Progress!Show(pr, current) ELSE pr
  BY <1>2 DEF Progress!Update
<1> HIDE DEF current
<1>4. current > pr.last \/ (pr.last < Progress!Whole /\ current = Progress!Whole) <=> current > pr.last
  BY <1>1 DEF Progress!Whole
<1>5. IsUpdated(pr, Progress!Update(pr, part, of), current)
  <2>1. CASE current > pr.last
    <3>1. Progress!Update(pr, part, of) = Progress!Show(pr, current)
      BY <2>1, <1>3, <1>4
    <3> QED
      BY <2>1, <3>1, <1>1, ShowIs DEF IsUpdated
  <2>2. CASE ~(current > pr.last)
    <3>1. Progress!Update(pr, part, of) = pr
      BY <2>2, <1>3, <1>4
    <3> QED
      BY <2>2, <3>1 DEF IsUpdated
  <2> QED
    BY <2>1, <2>2
<1> QED
  BY <1>5 DEF current

(***************************************************************************)
(* The sections of zip_close.                                              *)
(***************************************************************************)

LEMMA QuotientIs ==
    ASSUME NEW a \in Nat, NEW n \in Nat \ {0}
    PROVE  a \div n \in Nat /\ (a \div n) * n <= a /\ a < (a \div n + 1) * n
OBVIOUS

LEMMA QuotientIsLargest ==
    ASSUME NEW a \in Nat, NEW n \in Nat \ {0}, NEW q \in Int, q * n <= a
    PROVE  q <= a \div n
<1> DEFINE d == a \div n
<1>1. d \in Nat /\ a < (d + 1) * n
  BY QuotientIs
<1> HIDE DEF d
<1>2. ASSUME q >= d + 1 PROVE FALSE
  <2>1. q * n >= (d + 1) * n
    BY <1>1, <1>2
  <2> QED
    BY <2>1, <1>1
<1>3. q <= d
  BY <1>1, <1>2
<1> QED
  BY <1>3 DEF d

\* A part of a difference is not more than the difference.
LEMMA PartIs ==
    ASSUME NEW size \in Nat \ {0}, NEW k \in 0 .. size, NEW d \in Nat
    PROVE  (k * d) \div size \in Nat /\ (k * d) \div size <= d
<1> DEFINE a == k * d
           q == a \div size
<1>1. a \in Nat /\ a <= size * d
  OBVIOUS
<1> HIDE DEF a
<1>2. q \in Nat /\ q * size <= a
  BY <1>1, QuotientIs
<1> HIDE DEF q
<1>3. ASSUME q >= d + 1 PROVE FALSE
  <2>1. q * size >= (d + 1) * size
    BY <1>2, <1>3
  <2>2. (d + 1) * size = size * d + size
    OBVIOUS
  <2> QED
    BY <2>1, <2>2, <1>1, <1>2
<1>4. q <= d
  BY <1>2, <1>3
<1> QED
  BY <1>2, <1>4 DEF q, a

\* The limits of the section of the next of n entries, when j are written.
AreLimits(start, end, j, n) ==
    /\ start \in Nat /\ end \in Nat /\ start <= end
    /\ start * n <= j * Progress!Whole /\ end * n <= (j + 1) * Progress!Whole
    /\ \A last \in Int : last * n <= j * Progress!Whole => last <= start
    /\ j + 1 = n => end = Progress!Whole

LEMMA LimitsAre ==
    ASSUME NEW n \in Nat \ {0}, NEW j \in Nat, j < n, NEW start, NEW end,
           start = (j * Progress!Whole) \div n, end = ((j + 1) * Progress!Whole) \div n
    PROVE  AreLimits(start, end, j, n)
<1> DEFINE W == Progress!Whole
           a == j * W
           b == (j + 1) * W
<1>1. W \in Nat /\ a \in Nat /\ b \in Nat /\ a <= b
  BY DEF Progress!Whole
<1>2. j + 1 = n => b = W * n
  BY <1>1
<1>3. start = a \div n /\ end = b \div n
  OBVIOUS
<1> HIDE DEF a, b, W
<1>4. start \in Nat /\ start * n <= a /\ end \in Nat /\ end * n <= b
  BY <1>1, <1>3, QuotientIs
<1>5. \A last \in Int : last * n <= a => last <= start
  BY <1>1, <1>3, QuotientIsLargest
<1>6. start <= end
  <2>1. start * n <= b
    BY <1>1, <1>4
  <2> QED
    BY <2>1, <1>1, <1>3, <1>4, QuotientIsLargest
<1>7. ASSUME j + 1 = n PROVE end = W
  <2>1. b = W * n /\ W * n <= b
    BY <1>1, <1>2, <1>7
  <2>2. W <= end
    BY <2>1, <1>1, <1>3, QuotientIsLargest
  <2>3. end * n <= W * n
    BY <2>1, <1>4
  <2>4. ASSUME end >= W + 1 PROVE FALSE
    <3>1. end * n >= (W + 1) * n
      BY <2>4, <1>4, <1>1
    <3>2. (W + 1) * n = W * n + n
      BY <1>1
    <3> QED
      BY <3>1, <3>2, <2>3, <1>4, <1>1
  <2> QED
    BY <2>2, <2>4, <1>1, <1>4
<1> QED
  BY <1>4, <1>5, <1>6, <1>7 DEF AreLimits, a, b, W

LEMMA SubrangeIs ==
    ASSUME NEW n \in Nat \ {0}, NEW j \in Nat, j < n,
           NEW pr \in ProgressObject, Grows(pr), ~IsAhead(pr, j, n)
    PROVE  /\ InSection(Progress!Subrange(pr, j, n), j, n)
           /\ Progress!Subrange(pr, j, n).limit = pr.limit
           /\ ~IsAhead(Progress!Subrange(pr, j, n), j, n)
<1> DEFINE s == (j * Progress!Whole) \div n
           e == ((j + 1) * Progress!Whole) \div n
           q == [pr EXCEPT !.start = s, !.end = e]
           new == Progress!Subrange(pr, j, n)
<1>1. new = Progress!Update(q, 0, 1)
  BY DEF Progress!Subrange
<1>2. /\ s \in Nat /\ e \in Nat /\ s <= e
      /\ s * n <= j * Progress!Whole /\ e * n <= (j + 1) * Progress!Whole
      /\ \A last \in Int : last * n <= j * Progress!Whole => last <= s
      /\ j + 1 = n => e = Progress!Whole
  <2>1. AreLimits(s, e, j, n)
    BY LimitsAre
  <2> QED
    BY <2>1 DEF AreLimits
<1> HIDE DEF s, e, new
<1>3. /\ q \in ProgressObject /\ Grows(q) /\ q.last = pr.last /\ q.limit = pr.limit
      /\ q.start = s /\ q.end = e /\ pr.last \in Int
  <2>1. q \in ProgressObject /\ q.start = s /\ q.end = e /\ q.last = pr.last /\ q.limit = pr.limit
        /\ q.shown = pr.shown /\ pr.last \in Int
    <3>1. s \in Int /\ e \in Int
      BY <1>2
    <3>2. q = [pr EXCEPT !.start = s, !.end = e]
      OBVIOUS
    <3> HIDE DEF q
    <3> QED
      BY <3>1, <3>2 DEF ProgressObject
  <2> HIDE DEF q
  <2> QED
    BY <2>1 DEF Grows
<1> HIDE DEF q
<1>4. pr.last <= s
  <2>1. pr.last * n <= j * Progress!Whole
    <3>1. ~(pr.last * n > j * Progress!Whole)
      BY DEF IsAhead
    <3>2. j * Progress!Whole \in Int /\ pr.last * n \in Int
      BY <1>3 DEF Progress!Whole
    <3> QED
      BY <3>1, <3>2
  <2> QED
    BY <2>1, <1>2, <1>3
<1>5. IsUpdated(q, new, s)
  <2> DEFINE zero == 0
             one == 1
  <2>1. zero \in Nat /\ one \in Nat \ {0} /\ zero <= one /\ q.start + (zero * (q.end - q.start)) \div one = s
    BY <1>2, <1>3
  <2>2. new = Progress!Update(q, zero, one)
    BY <1>1
  <2> HIDE DEF zero, one
  <2>3. IsUpdated(q, new, q.start + (zero * (q.end - q.start)) \div one)
    BY <2>1, <2>2, <1>3, UpdateIs
  <2> QED
    BY <2>1, <2>3
<1>6. /\ new \in ProgressObject /\ Grows(new) /\ new.limit = pr.limit /\ new.start = s /\ new.end = e
      /\ new.last = s
  BY <1>2, <1>3, <1>4, <1>5 DEF IsUpdated
<1>7. ~IsAhead(new, j, n)
  <2>1. new.last * n <= j * Progress!Whole
    BY <1>2, <1>6
  <2>2. new.last * n \in Int /\ j * Progress!Whole \in Int
    BY <1>2, <1>6 DEF Progress!Whole
  <2> QED
    BY <2>1, <2>2 DEF IsAhead
<1> QED
  BY <1>2, <1>6, <1>7 DEF InSection, new

LEMMA UpdatesAre ==
    ASSUME NEW n \in Nat \ {0}, NEW j \in Nat, j < n, NEW pr, InSection(pr, j, n),
           NEW k \in 1 .. MaxBuffers, NEW of \in 1 .. MaxBuffers, NEW new,
           new = Progress!Update(pr, k, of)
    PROVE  InSection(new, j, n) /\ new.limit = pr.limit
<1>1. pr \in ProgressObject /\ Grows(pr) /\ pr.start \in Nat /\ pr.start <= pr.end
      /\ pr.last \in Int /\ pr.last <= pr.end /\ pr.end \in Int
  BY ObjectFields DEF InSection
<1>2. PICK part \in 1 .. of : new = Progress!Update(pr, part, of)
  <2>1. CASE k <= of
    BY <2>1
  <2>2. CASE k > of
    <3>1. new = Progress!Update(pr, of, of)
      BY <2>2 DEF Progress!Update
    <3> QED
      BY <3>1
  <2> QED
    BY <2>1, <2>2
<1> DEFINE d == pr.end - pr.start
           done == (part * d) \div of
           current == pr.start + done
<1>3. of \in Nat \ {0} /\ part \in Nat /\ part \in 0 .. of /\ d \in Nat /\ part <= of
  BY <1>1
<1>4. IsUpdated(pr, new, current)
  <2>1. IsUpdated(pr, new, pr.start + (part * (pr.end - pr.start)) \div of)
    BY <1>1, <1>2, <1>3, UpdateIs
  <2> QED
    BY <2>1
<1> HIDE DEF d
<1>5. done \in Nat /\ done <= d
  BY <1>3, PartIs
<1> HIDE DEF done
<1>6. current \in Int /\ current <= pr.end
  BY <1>5, <1>1 DEF d
<1> HIDE DEF current
<1>7. new.last \in Int /\ new.last <= pr.end /\ new.end = pr.end /\ new.start = pr.start
      /\ new \in ProgressObject /\ Grows(new) /\ new.limit = pr.limit
  BY <1>4, <1>6, <1>1 DEF IsUpdated
<1> QED
  BY <1>7 DEF InSection

\* The section of an entry is done.
LEMMA SectionDone ==
    ASSUME NEW n \in Nat \ {0}, NEW j \in Nat, j < n, NEW pr, InSection(pr, j, n)
    PROVE  ~IsAhead(pr, j + 1, n)
<1>1. pr.last \in Int /\ pr.end \in Int /\ pr.last <= pr.end /\ pr.end * n <= (j + 1) * Progress!Whole
  BY ObjectFields DEF InSection
<1>2. pr.last * n <= pr.end * n
  BY <1>1
<1>3. pr.last * n <= (j + 1) * Progress!Whole
  <2>1. pr.last * n \in Int /\ pr.end * n \in Int /\ (j + 1) * Progress!Whole \in Int
    BY <1>1 DEF Progress!Whole
  <2> QED
    BY <2>1, <1>1, <1>2
<1>4. pr.last * n \in Int /\ (j + 1) * Progress!Whole \in Int
  BY <1>1 DEF Progress!Whole
<1> QED
  BY <1>3, <1>4 DEF IsAhead

\* Everything is reported done in the end.
LEMMA EndIs ==
    ASSUME NEW pr \in ProgressObject, Grows(pr), pr.end = Progress!Whole, pr.last <= Progress!Whole,
           NEW new \in Progress!End(pr)
    PROVE  /\ new \in ProgressObject /\ Grows(new) /\ new.limit = pr.limit
           /\ new.last = Progress!Whole
<1> DEFINE one == 1
<1>1. one \in Nat \ {0} /\ one \in Nat /\ one <= one
  OBVIOUS
<1>2. pr.start \in Int /\ pr.last \in Int
  BY ObjectFields
<1>3. new = Progress!Update(pr, one, one)
  BY DEF Progress!End, Progress!Unset, Progress!Whole
<1>4. pr.start + (one * (pr.end - pr.start)) \div one = Progress!Whole
  BY <1>2 DEF Progress!Whole
<1> HIDE DEF one
<1>5. IsUpdated(pr, new, pr.start + (one * (pr.end - pr.start)) \div one)
  BY <1>1, <1>3, UpdateIs
<1>6. IsUpdated(pr, new, Progress!Whole)
  BY <1>4, <1>5
<1>7. new.last = Progress!Whole
  BY <1>6, <1>2 DEF IsUpdated, Progress!Whole
<1> QED
  BY <1>6, <1>7 DEF IsUpdated

\* Nobody has more than the whole.
LEMMA WholeAtMost ==
    ASSUME NEW pr \in ProgressObject, NEW n \in Nat \ {0}, ~IsAhead(pr, n, n)
    PROVE  pr.last <= Progress!Whole
<1>1. pr.last \in Int /\ Progress!Whole \in Nat
  BY ObjectFields DEF Progress!Whole
<1> DEFINE last == pr.last
           W == Progress!Whole
<1>2. ~(last * n > n * W)
  BY DEF IsAhead
<1> HIDE DEF last, W
<1>3. last \in Int /\ W \in Nat
  BY <1>1 DEF last, W
<1>4. ASSUME last >= W + 1 PROVE FALSE
  <2>1. last * n >= (W + 1) * n
    BY <1>3, <1>4
  <2>2. (W + 1) * n = n * W + n
    BY <1>3
  <2>3. last * n \in Int /\ n * W \in Int
    BY <1>3
  <2> QED
    BY <2>1, <2>2, <2>3, <1>2
<1>5. last <= W
  BY <1>3, <1>4
<1> QED
  BY <1>5 DEF last, W

(***************************************************************************)
(* The disk, and the commands of ziptool.                                  *)
(***************************************************************************)

\* The same paths lead to files.
FilesStay ==
    /\ DOMAIN disk' = DOMAIN disk
    /\ \A path \in DOMAIN disk : IsFile(disk'[path])

LEMMA DiskUnchanged ==
    ASSUME IInv, UNCHANGED disk
    PROVE  FilesStay
BY DEF IInv, FilesStay

LEMMA DiskWritten ==
    ASSUME IInv, NEW path, NEW file, IsFile(file), disk' = [disk EXCEPT ![path] = file]
    PROVE  FilesStay /\ \A other \in DOMAIN disk : other # path => disk'[other] = disk[other]
<1>1. \A other \in DOMAIN disk : disk'[other] = IF other = path THEN file ELSE disk[other]
  OBVIOUS
<1>2. DOMAIN disk' = DOMAIN disk
  OBVIOUS
<1>3. \A other \in DOMAIN disk : IsFile(disk[other])
  BY DEF IInv
<1> QED
  BY <1>1, <1>2, <1>3 DEF FilesStay

\* What is not a process of its own.
LEMMA OthersStay ==
    ASSUME IInv, FilesStay, script' = script, proc' # NULL => script # <<>> /\ Runs(proc', disk')
    PROVE  IInv'
<1>1. \A path \in DOMAIN disk' : IsFile(disk'[path])
  BY DEF FilesStay
<1>2. \A line \in Range(script) : IsProper(line, DOMAIN disk)
  BY DEF IInv
<1>3. \A line \in Range(script)' : IsProper(line, DOMAIN disk')
  BY <1>2 DEF FilesStay
<1>4. IsSequence(script)'
  BY DEF IInv
<1> QED
  BY <1>1, <1>3, <1>4 DEF IInv

\* A process of ziptool after one more command.
Continues(q) ==
    /\ Fields \subseteq DOMAIN q
    /\ q.program = "ziptool" /\ q.line = proc.line /\ q.before = proc.before /\ q.path = proc.path
    /\ q.pc = "commands" /\ q.left = proc.left /\ q.out = proc.out /\ q.closed = proc.closed
    /\ q.commands = <<>> \/ q.commands = Tail(proc.commands)
    /\ IsArchive(q.za)
    /\ q.progress = proc.progress \/ IsNew(q.progress)

InCommands == proc # NULL /\ proc.program = "ziptool" /\ proc.pc = "commands"

LEMMA ToolInCommands ==
    ASSUME IInv, InCommands
    PROVE  /\ ToolRuns(proc, disk) /\ script # <<>>
           /\ Fields \subseteq DOMAIN proc /\ IsArchive(proc.za) /\ proc.left = NULL /\ proc.closed = NULL
           /\ IsSequence(proc.commands) /\ IsSequence(proc.out)
           /\ proc.commands # <<>> =>
                /\ Args \in Range(proc.line.commands) /\ IsSequence(Tail(proc.commands))
                /\ Range(Tail(proc.commands)) \subseteq Range(proc.commands)
           /\ Range(proc.commands) \subseteq Range(proc.line.commands)
           /\ IsProper(proc.line, DOMAIN disk) /\ proc.line.program = "ziptool"
           /\ proc.path = ArchivePath(proc.line)
<1>1. ToolRuns(proc, disk) /\ script # <<>>
  BY DEF IInv, InCommands, Runs
<1>2. /\ Fields \subseteq DOMAIN proc /\ IsArchive(proc.za) /\ proc.left = NULL /\ proc.closed = NULL
      /\ IsSequence(proc.commands) /\ IsSequence(proc.out)
      /\ Range(proc.commands) \subseteq Range(proc.line.commands)
      /\ IsProper(proc.line, DOMAIN disk) /\ proc.line.program = "ziptool"
      /\ proc.path = ArchivePath(proc.line)
  BY <1>1 DEF ToolRuns, InCommands
<1>3. ASSUME proc.commands # <<>>
      PROVE  /\ Args \in Range(proc.commands) /\ IsSequence(Tail(proc.commands))
             /\ Range(Tail(proc.commands)) \subseteq Range(proc.commands)
  BY <1>2, <1>3, TailIs DEF Args
<1> QED
  BY <1>1, <1>2, <1>3

LEMMA CommandIs ==
    ASSUME IInv, InCommands, proc.commands # <<>>, Continues(proc'), script' = script, FilesStay,
           disk'[proc.path] = disk[proc.path]
    PROVE  IInv'
<1> DEFINE q == proc'
<1>1. Continues(q)
  OBVIOUS
<1> HIDE DEF q
<1>2. /\ Fields \subseteq DOMAIN q
      /\ q.program = "ziptool" /\ q.line = proc.line /\ q.before = proc.before /\ q.path = proc.path
      /\ q.pc = "commands" /\ q.left = NULL /\ q.out = proc.out /\ q.closed = NULL
      /\ IsArchive(q.za) /\ IsSequence(q.out)
      /\ IsSequence(q.commands) /\ Range(q.commands) \subseteq Range(q.line.commands)
  <2>1. CASE q.commands = <<>>
    BY <2>1, <1>1, ToolInCommands, EmptyIsSequence DEF Continues
  <2>2. CASE q.commands = Tail(proc.commands)
    BY <2>2, <1>1, ToolInCommands DEF Continues
  <2> QED
    BY <2>1, <2>2, <1>1 DEF Continues
<1>3. q.progress # NULL => IsNew(q.progress)
  BY <1>1, ToolInCommands DEF Continues, ToolRuns
<1>4. IsProper(q.line, DOMAIN disk') /\ q.line.program = "ziptool" /\ q.path = ArchivePath(q.line)
  BY <1>2, ToolInCommands DEF FilesStay
<1>5. disk'[q.path] = q.before[q.line.path]
  <2>1. disk[proc.path] = proc.before[proc.line.path]
    BY ToolInCommands DEF ToolRuns
  <2> QED
    BY <2>1, <1>2
<1>6. ToolRuns(q, disk')
  BY <1>2, <1>3, <1>4, <1>5 DEF ToolRuns
<1>7. Runs(proc', disk')
  BY <1>2, <1>6 DEF Runs, q
<1> QED
  BY <1>7, ToolInCommands, OthersStay

LEMMA RunningIs ==
    ASSUME NEW cmd, Running(cmd)
    PROVE  InCommands /\ proc.commands # <<>> /\ Args.cmd = cmd
BY DEF Running, InCommands, Args

\* What dispatch makes of the process.
LEMMA DispatchedIs ==
    ASSUME IInv, InCommands, NEW p, Fields \subseteq DOMAIN p, p.program = "ziptool",
           p.line = proc.line, p.before = proc.before, p.path = proc.path, p.pc = "commands",
           p.left = proc.left, p.out = proc.out, p.closed = proc.closed, IsArchive(p.za),
           p.progress = proc.progress \/ IsNew(p.progress), p.commands = proc.commands
    PROVE  Continues(Fail(p)) /\ Continues(Done(p))
<1>1. Continues(Fail(p))
  BY DEF Continues, Fail, Fields, Writer
<1>2. Continues(Done(p))
  BY DEF Continues, Done, Fields, Writer
<1> QED
  BY <1>1, <1>2

LEMMA NothingWritten ==
    ASSUME IInv, StaysOnDisk
    PROVE  FilesStay /\ script' = script /\ disk' = disk
BY DiskUnchanged DEF StaysOnDisk

LEMMA DispatchIs ==
    ASSUME IInv, InCommands, proc.commands # <<>>, FilesStay, script' = script,
           disk'[proc.path] = disk[proc.path], proc' = Fail(proc) \/ proc' = Done(proc)
    PROVE  IInv'
<1>1. Continues(Fail(proc)) /\ Continues(Done(proc))
  BY ToolInCommands, DispatchedIs DEF InCommands
<1> QED
  BY <1>1, CommandIs

LEMMA ChangeIs ==
    ASSUME IInv, NEW cmd, Running(cmd), NEW za, IsResult(za), Change(za), StaysOnDisk
    PROVE  IInv'
<1>1. CASE za = NULL
  BY <1>1, RunningIs, NothingWritten, DispatchIs DEF Change
<1>2. CASE za # NULL
  <2> DEFINE p == [proc EXCEPT !.za = za]
  <2>1. proc' = Done(p)
    BY <1>2 DEF Change
  <2>2. IsArchive(za)
    BY <1>2 DEF IsResult
  <2>3. /\ Fields \subseteq DOMAIN p /\ p.program = "ziptool"
        /\ p.line = proc.line /\ p.before = proc.before /\ p.path = proc.path /\ p.pc = "commands"
        /\ p.left = proc.left /\ p.out = proc.out /\ p.closed = proc.closed /\ p.za = za
        /\ p.progress = proc.progress /\ p.commands = proc.commands
    BY RunningIs, ToolInCommands DEF Fields, Writer, InCommands
  <2> HIDE DEF p
  <2>4. Continues(Done(p))
    BY <2>2, <2>3, RunningIs, DispatchedIs
  <2> QED
    BY <2>1, <2>4, RunningIs, NothingWritten, CommandIs
<1> QED
  BY <1>1, <1>2

LEMMA NothingIsResult == IsResult(NULL)
BY DEF IsResult

LEMMA AddDataIs ==
    ASSUME IInv, AddData
    PROVE  IInv'
<1> DEFINE source == [kind |-> "data", data |-> Args.data]
           za == FileAdd(proc.za, Args.name, source)
<1>1. Running("add") /\ Change(za) /\ StaysOnDisk
  BY DEF AddData
<1>2. IsArchive(proc.za)
  BY <1>1, RunningIs, ToolInCommands
<1> HIDE DEF source
<1>3. IsResult(za)
  BY <1>2, FileAddIs
<1> HIDE DEF za
<1> QED
  BY <1>1, <1>3, ChangeIs

LEMMA AddFileIs ==
    ASSUME IInv, AddFile
    PROVE  IInv'
<1> DEFINE source == FileSource(Args.path, Args.start, Args.length)
           za == IF source = NULL THEN NULL ELSE FileAdd(proc.za, Args.name, source)
<1>1. Running("add_file") /\ Change(za) /\ StaysOnDisk
  BY DEF AddFile
<1>2. IsArchive(proc.za)
  BY <1>1, RunningIs, ToolInCommands
<1> HIDE DEF source
<1>3. IsResult(za)
  BY <1>2, FileAddIs, NothingIsResult
<1> HIDE DEF za
<1> QED
  BY <1>1, <1>3, ChangeIs

LEMMA AddFromZipIs ==
    ASSUME IInv, AddFromZip
    PROVE  IInv'
<1> DEFINE f == disk[Args.path]
           input == Len(proc.isOpen) + 1
           whole == Args.start = 0 /\ Args.length = -1
           source == IF ~CanOpen(f, {"CHECKCONS"}) THEN NULL
                     ELSE ZipSource(input, f.entries, Args.index, whole, Args.start, Args.length)
           za == IF source = NULL THEN NULL ELSE FileAdd(proc.za, Args.name, source)
           z_in == Append(SubSeq(proc.z_in, 1, proc.z_in_count), input)
           p == [proc EXCEPT !.za = za, !.z_in_count = @ + 1, !.z_in = z_in,
                             !.isOpen = Append(@, TRUE)]
<1>1. Running("add_from_zip") /\ StaysOnDisk /\ proc' = IF za = NULL THEN Fail(proc) ELSE Done(p)
  BY DEF AddFromZip
<1>2. InCommands /\ proc.commands # <<>> /\ Fields \subseteq DOMAIN proc /\ IsArchive(proc.za)
      /\ FilesStay /\ script' = script /\ disk' = disk
  BY <1>1, RunningIs, ToolInCommands, NothingWritten
<1> HIDE DEF source, z_in
<1>3. za = NULL \/ IsArchive(za)
  BY <1>2, FileAddIs, NothingIsResult DEF IsResult
<1> HIDE DEF za, input
<1>4. CASE za = NULL
  BY <1>4, <1>1, <1>2, DispatchIs
<1>5. CASE za # NULL
  <2>1. /\ Fields \subseteq DOMAIN p /\ p.program = "ziptool"
        /\ p.line = proc.line /\ p.before = proc.before /\ p.path = proc.path /\ p.pc = "commands"
        /\ p.left = proc.left /\ p.out = proc.out /\ p.closed = proc.closed /\ p.za = za
        /\ p.progress = proc.progress /\ p.commands = proc.commands
    BY <1>2 DEF Fields, Writer, InCommands
  <2> HIDE DEF p
  <2>2. Continues(Done(p))
    BY <1>2, <1>3, <1>5, <2>1, DispatchedIs
  <2> QED
    BY <1>1, <1>2, <1>5, <2>2, CommandIs
<1> QED
  BY <1>4, <1>5

\* The commands that change one entry, or all, and need nothing else.
LEMMA EditsAre ==
    ASSUME IInv,
           \/ ReplaceContents \/ DeleteFile \/ Rename \/ UnchangeOne \/ UnchangeEverything
           \/ SetFileComment \/ SetZipComment \/ SetExtra \/ DeleteExtra \/ SetMethod \/ SetMtime
    PROVE  IInv'
<1> DEFINE z == proc.za
           source == [kind |-> "data", data |-> Args.data]
<1> HIDE DEF source
<1>1. ASSUME NEW cmd, NEW za, IsArchive(z) => IsResult(za), Running(cmd), Change(za), StaysOnDisk
      PROVE  IInv'
  <2>1. IsArchive(z)
    BY <1>1, RunningIs, ToolInCommands
  <2> QED
    BY <1>1, <2>1, ChangeIs
<1>2. CASE ReplaceContents
  <2> DEFINE za == FileReplace(z, Args.index, source)
  <2>1. IsArchive(z) => IsResult(za)
    BY FileReplaceIs
  <2>2. Running("replace_file_contents") /\ Change(za) /\ StaysOnDisk
    BY <1>2 DEF ReplaceContents, source
  <2> HIDE DEF za
  <2> QED
    BY <2>1, <2>2, <1>1
<1>3. CASE DeleteFile
  <2> DEFINE za == Delete(z, Args.index)
  <2>1. IsArchive(z) => IsResult(za)
    BY DeleteIs
  <2>2. Running("delete") /\ Change(za) /\ StaysOnDisk
    BY <1>3 DEF DeleteFile
  <2> HIDE DEF za
  <2> QED
    BY <2>1, <2>2, <1>1
<1>4. CASE Rename
  <2> DEFINE za == FileRename(z, Args.index, Args.name)
  <2>1. IsArchive(z) => IsResult(za)
    BY FileRenameIs
  <2>2. Running("rename") /\ Change(za) /\ StaysOnDisk
    BY <1>4 DEF Rename
  <2> HIDE DEF za
  <2> QED
    BY <2>1, <2>2, <1>1
<1>5. CASE UnchangeOne
  <2> DEFINE za == Unchange(z, Args.index)
  <2>1. IsArchive(z) => IsResult(za)
    BY UnchangeIs
  <2>2. Running("unchange") /\ Change(za) /\ StaysOnDisk
    BY <1>5 DEF UnchangeOne
  <2> HIDE DEF za
  <2> QED
    BY <2>1, <2>2, <1>1
<1>6. CASE UnchangeEverything
  <2> DEFINE za == UnchangeAll(z)
  <2>1. IsArchive(z) => IsResult(za)
    BY UnchangeIs
  <2>2. Running("unchange_all") /\ Change(za) /\ StaysOnDisk
    BY <1>6 DEF UnchangeEverything
  <2> HIDE DEF za
  <2> QED
    BY <2>1, <2>2, <1>1
<1>7. CASE SetFileComment
  <2> DEFINE za == SetComment(z, Args.index, Args.comment)
  <2>1. IsArchive(z) => IsResult(za)
    BY SetCommentIs
  <2>2. Running("set_file_comment") /\ Change(za) /\ StaysOnDisk
    BY <1>7 DEF SetFileComment
  <2> HIDE DEF za
  <2> QED
    BY <2>1, <2>2, <1>1
<1>8. CASE SetZipComment
  <2> DEFINE za == SetArchiveComment(z, Args.comment)
  <2>1. IsArchive(z) => IsResult(za)
    BY SettersGiveArchives
  <2>2. Running("set_archive_comment") /\ Change(za) /\ StaysOnDisk
    BY <1>8 DEF SetZipComment
  <2> HIDE DEF za
  <2> QED
    BY <2>1, <2>2, <1>1
<1>9. CASE SetExtra
  <2> DEFINE za == AddField(z, Args.index, Args.field)
  <2>1. IsArchive(z) => IsResult(za)
    BY SettersGiveArchives
  <2>2. Running("set_extra") /\ Change(za) /\ StaysOnDisk
    BY <1>9 DEF SetExtra
  <2> HIDE DEF za
  <2> QED
    BY <2>1, <2>2, <1>1
<1>10. CASE DeleteExtra
  <2> DEFINE za == DeleteField(z, Args.index, Args.field)
  <2>1. IsArchive(z) => IsResult(za)
    BY SettersGiveArchives
  <2>2. Running("delete_extra") /\ Change(za) /\ StaysOnDisk
    BY <1>10 DEF DeleteExtra
  <2> HIDE DEF za
  <2> QED
    BY <2>1, <2>2, <1>1
<1>11. CASE SetMethod
  <2> DEFINE za == SetCompression(z, Args.index, Args.method)
  <2>1. IsArchive(z) => IsResult(za)
    BY SettersGiveArchives
  <2>2. Running("set_file_compression") /\ Change(za) /\ StaysOnDisk
    BY <1>11 DEF SetMethod
  <2> HIDE DEF za
  <2> QED
    BY <2>1, <2>2, <1>1
<1>12. CASE SetMtime
  <2> DEFINE za == SetTime(z, Args.index, Args.mtime)
  <2>1. IsArchive(z) => IsResult(za)
    BY SettersGiveArchives
  <2>2. Running("set_file_mtime") /\ Change(za) /\ StaysOnDisk
    BY <1>12 DEF SetMtime
  <2> HIDE DEF za
  <2> QED
    BY <2>1, <2>2, <1>1
<1> QED
  BY <1>2, <1>3, <1>4, <1>5, <1>6, <1>7, <1>8, <1>9, <1>10, <1>11, <1>12

LEMMA SetFlagIs ==
    ASSUME IInv, SetFlag
    PROVE  IInv'
<1> DEFINE z == proc.za
           za == IF Args.flag = "keep" THEN [z EXCEPT !.keep = Args.value]
                 ELSE IF Args.value /\ ~z.rdonly /\ Changed(z) THEN NULL
                 ELSE [z EXCEPT !.rdonly = Args.value]
<1>1. Running("set_archive_flag") /\ Change(za) /\ StaysOnDisk
  BY DEF SetFlag
<1>2. IsArchive(z)
  BY <1>1, RunningIs, ToolInCommands
<1>3. IsResult(za)
  BY <1>2 DEF IsArchive, IsResult
<1> HIDE DEF za
<1> QED
  BY <1>1, <1>3, ChangeIs

LEMMA SetMtimeAllIs ==
    ASSUME IInv, SetMtimeAll
    PROVE  IInv'
<1> DEFINE za == proc.za
           gone == Indices(za) \ Visible(za)
           last == IF za.rdonly THEN 0 ELSE IF gone = {} THEN Len(za.entries) ELSE Min(gone) - 1
           e(i) == za.entries[i]
           set == [i \in Indices(za) |-> IF i <= last THEN Timed(e(i), Args.mtime) ELSE e(i)]
           p == [proc EXCEPT !.za = [za EXCEPT !.entries = set]]
<1>1. Running("set_file_mtime_all") /\ StaysOnDisk
      /\ proc' = IF last = Len(za.entries) THEN Done(p) ELSE Fail(p)
  BY DEF SetMtimeAll
<1>2. InCommands /\ proc.commands # <<>> /\ Fields \subseteq DOMAIN proc /\ IsArchive(za)
      /\ FilesStay /\ script' = script /\ disk' = disk
  BY <1>1, RunningIs, ToolInCommands, NothingWritten
<1> HIDE DEF last
<1>3. IsSequence(set)
  <2>1. Len(za.entries) \in Nat /\ Indices(za) = 1 .. Len(za.entries)
    BY <1>2 DEF IsArchive, IsSequence, Indices
  <2>2. set = [i \in 1 .. Len(za.entries) |-> set[i]]
    BY <2>1
  <2> HIDE DEF set
  <2> QED
    BY <2>1, <2>2, FunctionIsSequence
<1> HIDE DEF set
<1> DEFINE new == [za EXCEPT !.entries = set]
<1>4. IsArchive(new)
  BY <1>2, <1>3, EntriesBecome
<1> HIDE DEF new
<1>5. /\ Fields \subseteq DOMAIN p /\ p.program = "ziptool"
      /\ p.line = proc.line /\ p.before = proc.before /\ p.path = proc.path /\ p.pc = "commands"
      /\ p.left = proc.left /\ p.out = proc.out /\ p.closed = proc.closed /\ p.za = new
      /\ p.progress = proc.progress /\ p.commands = proc.commands
  BY <1>2 DEF Fields, Writer, InCommands, new
<1> HIDE DEF p
<1>6. Continues(Fail(p)) /\ Continues(Done(p))
  BY <1>2, <1>4, <1>5, DispatchedIs
<1>7. Continues(proc')
  BY <1>1, <1>6
<1> QED
  BY <1>2, <1>7, CommandIs

LEMMA WatchProgressIs ==
    ASSUME IInv, WatchProgress
    PROVE  IInv'
<1> DEFINE limit == Args.limit
           pr == [Progress!NewProgress EXCEPT !.limit = limit]
           p == [proc EXCEPT !.progress = pr]
<1>1. Running("cancel") /\ StaysOnDisk /\ proc' = Done(p)
  BY DEF WatchProgress
<1>2. InCommands /\ proc.commands # <<>> /\ Fields \subseteq DOMAIN proc /\ IsArchive(proc.za)
      /\ FilesStay /\ script' = script /\ disk' = disk
  BY <1>1, RunningIs, ToolInCommands, NothingWritten
<1>3. limit \in Int
  <2>1. Args.cmd = "cancel" /\ Args \in Range(proc.line.commands) /\ IsProper(proc.line, DOMAIN disk)
        /\ proc.line.program = "ziptool"
    BY <1>1, <1>2, RunningIs, ToolInCommands
  <2> QED
    BY <2>1 DEF IsProper
<1> HIDE DEF limit
<1>4. IsNew(pr)
  BY <1>3, NewProgressIs
<1> HIDE DEF pr
<1>5. /\ Fields \subseteq DOMAIN p /\ p.program = "ziptool"
      /\ p.line = proc.line /\ p.before = proc.before /\ p.path = proc.path /\ p.pc = "commands"
      /\ p.left = proc.left /\ p.out = proc.out /\ p.closed = proc.closed /\ p.za = proc.za
      /\ p.progress = pr /\ p.commands = proc.commands
  BY <1>2 DEF Fields, Writer, InCommands
<1> HIDE DEF p
<1>6. Continues(Done(p))
  BY <1>2, <1>4, <1>5, DispatchedIs
<1> QED
  BY <1>1, <1>2, <1>6, CommandIs

LEMMA LookIs ==
    ASSUME IInv, Look
    PROVE  IInv'
<1> DEFINE za == IF Args.index \in Visible(proc.za) THEN proc.za ELSE NULL
<1>1. Running("stat") /\ Change(za) /\ StaysOnDisk
  BY DEF Look
<1>2. IsResult(za)
  BY <1>1, RunningIs, ToolInCommands DEF IsResult
<1> HIDE DEF za
<1> QED
  BY <1>1, <1>2, ChangeIs

LEMMA CatIs ==
    ASSUME IInv, Cat
    PROVE  IInv'
<1> DEFINE za == IF Readable(Args.index, Args.start, Args.length) THEN proc.za ELSE NULL
<1>1. Running("cat") /\ Change(za) /\ StaysOnDisk
  BY DEF Cat
<1>2. IsResult(za)
  BY <1>1, RunningIs, ToolInCommands DEF IsResult
<1> HIDE DEF za
<1> QED
  BY <1>1, <1>2, ChangeIs

LEMMA ExtractAsIs ==
    ASSUME IInv, ExtractAs
    PROVE  IInv'
<1> DEFINE c == Contents(Args.index)
           data == IF c = NULL THEN <<>> ELSE c.data
           file == [kind |-> "file", data |-> data, mtime |-> Now]
           path == Args.path
<1>1. Running("extract_as") /\ script' = script /\ disk' = [disk EXCEPT ![path] = file]
      /\ proc' = IF Readable(Args.index, 0, -1) THEN Done(proc) ELSE Fail(proc)
  BY DEF ExtractAs
<1>2. InCommands /\ proc.commands # <<>>
  BY <1>1, RunningIs
<1>3. path # proc.path /\ proc.path \in DOMAIN disk
  <2>1. Args.cmd = "extract_as" /\ Args \in Range(proc.line.commands) /\ IsProper(proc.line, DOMAIN disk)
        /\ proc.line.program = "ziptool" /\ proc.path = ArchivePath(proc.line)
    BY <1>1, <1>2, RunningIs, ToolInCommands
  <2> QED
    BY <2>1 DEF IsProper
<1>4. IsFile(file)
  BY DEF IsFile, IsZip
<1> HIDE DEF file, path
<1>5. FilesStay /\ disk'[proc.path] = disk[proc.path]
  BY <1>1, <1>3, <1>4, DiskWritten
<1> QED
  BY <1>1, <1>2, <1>5, DispatchIs

LEMMA ZinCloseIs ==
    ASSUME IInv, ZinClose
    PROVE  IInv'
<1> DEFINE at == Args.index
           p == [proc EXCEPT !.isOpen[proc.z_in[at]] = FALSE, !.z_in[at] = 0, !.z_in_count = @ - 1]
<1>1. Running("zin_close") /\ StaysOnDisk
      /\ proc' = IF at > proc.z_in_count THEN Fail(proc) ELSE Done(p)
  BY DEF ZinClose
<1>2. InCommands /\ proc.commands # <<>> /\ Fields \subseteq DOMAIN proc /\ IsArchive(proc.za)
      /\ FilesStay /\ script' = script /\ disk' = disk
  BY <1>1, RunningIs, ToolInCommands, NothingWritten
<1>3. /\ Fields \subseteq DOMAIN p /\ p.program = "ziptool"
      /\ p.line = proc.line /\ p.before = proc.before /\ p.path = proc.path /\ p.pc = "commands"
      /\ p.left = proc.left /\ p.out = proc.out /\ p.closed = proc.closed /\ p.za = proc.za
      /\ p.progress = proc.progress /\ p.commands = proc.commands
  BY <1>2 DEF Fields, Writer, InCommands
<1> HIDE DEF p
<1>4. Continues(Done(p))
  BY <1>2, <1>3, DispatchedIs
<1>5. CASE at > proc.z_in_count
  BY <1>5, <1>1, <1>2, DispatchIs
<1>6. CASE ~(at > proc.z_in_count)
  BY <1>6, <1>1, <1>2, <1>4, CommandIs
<1> QED
  BY <1>5, <1>6

LEMMA StartToolIs ==
    ASSUME IInv, StartTool
    PROVE  IInv'
<1> DEFINE line == Head(script)
           flags == IF line.flags = {} THEN {"CREATE"} ELSE line.flags
           f == disk[line.path]
           opens == IF line.memory THEN OpensBuffer(f, flags) ELSE CanOpen(f, flags)
           path == IF line.memory THEN Memory ELSE line.path
           p == [program |-> "ziptool", line |-> line, before |-> disk, path |-> path,
                 pc |-> "exited", status |-> 1, err |-> 0, za |-> NULL,
                 commands |-> line.commands, done |-> <<>>,
                 z_in |-> <<>>, z_in_count |-> 0, isOpen |-> <<>>,
                 progress |-> NULL, left |-> NULL, out |-> <<>>, closed |-> NULL]
           truncate == "TRUNCATE" \in flags
           q == proc'
<1>1. /\ script # <<>> /\ script' = script /\ line.program = "ziptool"
      /\ q = IF opens THEN [p EXCEPT !.pc = "commands", !.za = OpenedZip(f, truncate)] ELSE p
      /\ disk' = IF line.memory THEN [disk EXCEPT ![Memory] = f] ELSE disk
  BY DEF StartTool
<1>2. /\ line \in Range(script) /\ IsProper(line, DOMAIN disk) /\ path = ArchivePath(line)
      /\ path \in DOMAIN disk /\ line.path \in DOMAIN disk /\ IsFile(f)
  <2>1. line \in Range(script)
    BY <1>1, TailIs DEF IInv
  <2>2. IsProper(line, DOMAIN disk)
    BY <2>1 DEF IInv
  <2>3. path = ArchivePath(line)
    BY DEF ArchivePath
  <2>4. path \in DOMAIN disk /\ line.path \in DOMAIN disk
    BY <2>2, <2>3, <1>1 DEF IsProper
  <2> QED
    BY <2>1, <2>2, <2>3, <2>4 DEF IInv
<1> HIDE DEF line
<1>3. FilesStay /\ disk'[path] = f
  <2>1. CASE line.memory
    <3>1. disk' = [disk EXCEPT ![Memory] = f] /\ path = Memory
      BY <2>1, <1>1
    <3> HIDE DEF f, path
    <3> QED
      BY <3>1, <1>2, DiskWritten
  <2>2. CASE ~line.memory
    BY <2>2, <1>1, DiskUnchanged
  <2> QED
    BY <2>1, <2>2
<1>4. opens => IsArchive(OpenedZip(f, truncate))
  <2>1. opens /\ f # NoFile /\ ~truncate => IsZip(f)
    BY DEF OpensBuffer, CanOpen
  <2>2. opens /\ f # NoFile /\ ~truncate => IsSequence(f.entries)
    BY <2>1, <1>2 DEF IsFile, IsSequence
  <2>3. truncate \in BOOLEAN
    OBVIOUS
  <2> HIDE DEF opens, f, truncate
  <2> QED
    BY <2>2, <2>3, OpenedZipIs
<1> HIDE DEF opens, flags, truncate
<1>5. /\ Fields \subseteq DOMAIN q /\ q.program = "ziptool" /\ q.line = line /\ q.before = disk
      /\ q.path = path /\ q.pc = IF opens THEN "commands" ELSE "exited"
      /\ q.status = 1
      /\ opens => IsArchive(q.za)
      /\ q.commands = line.commands /\ q.progress = NULL /\ q.left = NULL /\ q.out = <<>>
      /\ q.closed = NULL
  <2> DEFINE za == OpenedZip(f, truncate)
  <2> HIDE DEF za, path, f
  <2>1. q = IF opens THEN [p EXCEPT !.pc = "commands", !.za = za] ELSE p
    BY <1>1 DEF za
  <2>2. opens => IsArchive(za)
    BY <1>4 DEF za
  <2> HIDE DEF q
  <2> QED
    BY <2>1, <2>2 DEF Fields, Writer
<1> HIDE DEF q, p, f
<1>6. IsSequence(q.commands)
  BY <1>1, <1>2, <1>5 DEF IsProper, IsSequence
<1>7. q.before[q.line.path] = disk'[q.path]
  BY <1>3, <1>5 DEF f
<1>8. IsProper(q.line, DOMAIN disk') /\ q.line.program = "ziptool" /\ q.path = ArchivePath(q.line)
  BY <1>1, <1>2, <1>3, <1>5 DEF FilesStay
<1>9. IsSequence(q.out)
  BY <1>5, EmptyIsSequence
<1>10. ToolRuns(q, disk')
  BY <1>5, <1>6, <1>7, <1>8, <1>9 DEF ToolRuns
<1>11. Runs(proc', disk')
  BY <1>5, <1>10 DEF Runs, q
<1> QED
  BY <1>1, <1>3, <1>11, OthersStay

LEMMA CloseAllIs ==
    ASSUME IInv, CloseAll
    PROVE  IInv'
<1> DEFINE q == proc'
<1>1. InCommands /\ script' = script /\ disk' = disk /\ q = [proc EXCEPT !.pc = "closing"]
      /\ FilesStay
  BY NothingWritten DEF CloseAll, InCommands
<1>2. ToolRuns(proc, disk) /\ Fields \subseteq DOMAIN proc /\ proc.program = "ziptool"
      /\ proc.pc = "commands" /\ proc.left = NULL
  BY <1>1, ToolInCommands DEF InCommands
<1>3. /\ Fields \subseteq DOMAIN q /\ q.program = "ziptool" /\ q.line = proc.line
      /\ q.before = proc.before /\ q.path = proc.path /\ q.pc = "closing"
      /\ q.za = proc.za /\ q.progress = proc.progress /\ q.left = NULL /\ q.out = proc.out
      /\ q.closed = proc.closed
  BY <1>1, <1>2 DEF Fields, Writer
<1> HIDE DEF q
<1>4. ToolRuns(q, disk')
  BY <1>1, <1>2, <1>3 DEF ToolRuns
<1>5. Runs(proc', disk')
  BY <1>3, <1>4 DEF Runs, q
<1> QED
  BY <1>1, <1>5, ToolInCommands, OthersStay

(***************************************************************************)
(* Other programs, and the end of each.                                    *)
(***************************************************************************)

LEMMA TouchIs ==
    ASSUME IInv, Touch
    PROVE  IInv'
<1> DEFINE touch == proc.line.touch
<1>1. /\ proc # NULL /\ proc.program = "ziptool" /\ touch # NULL
      /\ disk' = [disk EXCEPT ![touch.path] = touch.file] /\ script' = script /\ proc' = proc
  BY DEF Touch
<1>2. ToolRuns(proc, disk) /\ script # <<>>
  BY <1>1 DEF IInv, Runs
<1>3. /\ touch.path # proc.path /\ IsFile(touch.file) /\ proc.path \in DOMAIN disk
      /\ IsProper(proc.line, DOMAIN disk)
  BY <1>1, <1>2 DEF ToolRuns, IsProper
<1> HIDE DEF touch
<1>4. FilesStay /\ disk'[proc.path] = disk[proc.path]
  BY <1>1, <1>3, DiskWritten
<1>5. ToolRuns(proc, disk')
  BY <1>2, <1>4 DEF ToolRuns, FilesStay
<1>6. Runs(proc', disk')
  BY <1>1, <1>5 DEF Runs
<1> QED
  BY <1>1, <1>2, <1>4, <1>6, OthersStay

LEMMA ReapIs ==
    ASSUME IInv, Reap
    PROVE  IInv'
<1>1. proc # NULL /\ proc' = NULL /\ script' = Tail(script) /\ disk' = disk
  BY DEF Reap
<1>2. IsSequence(script) /\ script # <<>>
  BY <1>1 DEF IInv
<1>3. IsSequence(Tail(script)) /\ Range(Tail(script)) \subseteq Range(script)
  BY <1>2, TailIs
<1> QED
  BY <1>1, <1>3 DEF IInv

\* A process of zipcmp.
IsCmp(p) ==
    p.program = "zipcmp" /\ p.pc \in {"compare", "exited"} /\ {"program", "pc"} \subseteq DOMAIN p

LEMMA PrintedIs ==
    ASSUME NEW p, IsCmp(p), NEW k
    PROVE  IsCmp(Printed(p, k))
BY DEF IsCmp, Printed

LEMMA ComparedIs ==
    ASSUME NEW p, IsCmp(p)
    PROVE  IsCmp(Compared(p))
<1>1. \A k : IsCmp(Printed(p, k))
  BY PrintedIs
<1>2. \A a, b : IsCmp(Paranoia(p, a, b))
  BY DEF IsCmp, Paranoia
<1>3. \A q, list : IsCmp(q) => IsCmp([q EXCEPT !.list = list])
  BY DEF IsCmp
<1> QED
  BY <1>1, <1>2, <1>3 DEF Compared

LEMMA CmpStepIs ==
    ASSUME IInv, CmpStep
    PROVE  IInv'
<1>1. script' = script /\ disk' = disk /\ script # <<>>
  BY DEF CmpStep, StartCmp, CompareEntry, CompareComments, IInv
<1>2. IsCmp(proc')
  <2>1. CASE StartCmp
    <3> DEFINE line == Head(script)
               f == [k \in 1..2 |-> disk[line.paths[k]]]
               dirs == "dir" \in {f[k].kind : k \in 1..2}
               paranoid == line.paranoid /\ ~dirs
               p == [program |-> "zipcmp", line |-> line, before |-> disk, pc |-> "exited",
                     status |-> 2, list |-> <<>>, minus |-> 0, plus |-> 0, res |-> 0,
                     have_directory |-> dirs, paranoid |-> paranoid]
    <3>1. proc' = p \/ \E s1, s2 : proc' = [p EXCEPT !.pc = "compare", !.list = <<s1, s2>>]
      <4> DEFINE failed == \E k \in 1..2 : ~CanList(f[k])
                 ones == Sortings(line, Listed(f[1]))
                 twos == Sortings(line, Listed(f[2]))
      <4>1. IF failed THEN proc' = p
            ELSE \E s1 \in ones, s2 \in twos : proc' = [p EXCEPT !.pc = "compare", !.list = <<s1, s2>>]
        BY <2>1, Zenon DEF StartCmp
      <4> HIDE DEF failed, ones, twos, line, f, dirs, paranoid, p
      <4> QED
        BY <4>1
    <3> HIDE DEF line, f, dirs, paranoid
    <3>2. IsCmp(p)
      BY DEF IsCmp
    <3>3. \A s1, s2 : IsCmp([p EXCEPT !.pc = "compare", !.list = <<s1, s2>>])
      BY DEF IsCmp
    <3> HIDE DEF p
    <3> QED
      BY <3>1, <3>2, <3>3
  <2>2. CASE CompareEntry
    <3>1. IsCmp(proc)
      BY <2>2 DEF CompareEntry, IInv, Runs, IsCmp
    <3> QED
      BY <3>1, <2>2, ComparedIs DEF CompareEntry
  <2>3. CASE CompareComments
    <3>1. IsCmp(proc)
      BY <2>3 DEF CompareComments, IInv, Runs, IsCmp
    <3> QED
      BY <3>1, <2>3 DEF CompareComments, IsCmp
  <2> QED
    BY <2>1, <2>2, <2>3 DEF CmpStep
<1>3. Runs(proc', disk')
  BY <1>2 DEF IsCmp, Runs
<1>4. FilesStay
  BY <1>1, DiskUnchanged
<1> QED
  BY <1>1, <1>3, <1>4, OthersStay

LEMMA MergeStepIs ==
    ASSUME IInv, MergeStep
    PROVE  IInv'
<1>1. script' = script /\ disk' = disk /\ script # <<>>
  BY DEF MergeStep, StartMerge, OpenSource, MergeEntry, CloseTarget, ExitMerge, Merging, IInv
<1>2. proc'.program = "zipmerge" /\ MergeRuns(proc', disk)
  <2>1. CASE StartMerge
    <3> DEFINE line == Head(script)
               za == OpenedZip(disk[line.path], FALSE)
               p == [program |-> "zipmerge", line |-> line, path |-> line.path, before |-> disk,
                     pc |-> "exited", status |-> 1, za |-> NULL, sources |-> <<>>, next |-> 1,
                     declined |-> {}, isOpen |-> <<>>, progress |-> NULL, left |-> NULL,
                     out |-> <<>>, closed |-> NULL]
               q == proc'
    <3>1. q = p \/ q = [p EXCEPT !.pc = "merging", !.za = za]
      BY <2>1 DEF StartMerge
    <3> HIDE DEF q, za, line
    <3> DEFINE Starts(r) == /\ Writer \subseteq DOMAIN r /\ r.program = "zipmerge"
                            /\ r.pc \in {"merging", "exited"} /\ r.progress = NULL
                            /\ r.closed = NULL /\ r.before = disk /\ r.out = <<>>
    <3>4. Starts(p)
      BY DEF Writer
    <3>5. Starts([p EXCEPT !.pc = "merging", !.za = za])
      BY DEF Writer
    <3> HIDE DEF p
    <3>2. Starts(q)
      BY <3>1, <3>4, <3>5
    <3>3. MergeRuns(q, disk)
      BY <3>2, EmptyIsSequence DEF MergeRuns
    <3> QED
      BY <3>2, <3>3 DEF q
  <2>2. CASE OpenSource \/ MergeEntry \/ CloseTarget
    <3>1. proc # NULL /\ proc.program = "zipmerge" /\ proc.pc = "merging"
      BY <2>2 DEF OpenSource, MergeEntry, CloseTarget, Merging
    <3>2. MergeRuns(proc, disk) /\ Writer \subseteq DOMAIN proc
      BY <3>1 DEF IInv, Runs, MergeRuns
    <3> DEFINE Goes(q) == /\ Writer \subseteq DOMAIN q /\ q.program = "zipmerge"
                          /\ q.pc \in {"merging", "closing", "exited"} /\ q.progress = proc.progress
                          /\ q.closed = proc.closed /\ q.before = proc.before /\ q.out = proc.out
    <3>3. Goes(Exit(proc, 1))
      BY <3>1, <3>2 DEF Exit, Writer
    <3>4. CASE OpenSource
      <4>1. \A sources, isOpen : Goes([proc EXCEPT !.sources = sources, !.next = 1, !.isOpen = isOpen])
        BY <3>1, <3>2 DEF Writer
      <4> HIDE DEF Goes
      <4>2. Goes(proc')
        BY <3>3, <3>4, <4>1 DEF OpenSource
      <4> QED
        BY <4>2, <3>1, <3>2 DEF MergeRuns, Goes
    <3>5. CASE MergeEntry
      <4>1. \A za, next : Goes([proc EXCEPT !.za = za, !.next = next])
        BY <3>1, <3>2 DEF Writer
      <4>2. \A declined, next : Goes([proc EXCEPT !.next = next, !.declined = declined])
        BY <3>1, <3>2 DEF Writer
      <4>4. \/ proc' = Exit(proc, 1)
            \/ \E za, next : proc' = [proc EXCEPT !.za = za, !.next = next]
            \/ \E declined, next : proc' = [proc EXCEPT !.next = next, !.declined = declined]
        <5>1. PICK answer : proc' =
                IF answer = NULL THEN Exit(proc, 1)
                ELSE IF answer
                  THEN LET za == CopyFile(proc.za, Locate(proc.za, Source[proc.next].name,
                                                          proc.line.name_flags), Source[proc.next])
                       IN IF za = NULL THEN Exit(proc, 1)
                          ELSE [proc EXCEPT !.za = za, !.next = proc.next + 1]
                ELSE [proc EXCEPT !.next = proc.next + 1,
                        !.declined = proc.declined \cup {<<Len(proc.sources), proc.next>>}]
          BY <3>5 DEF MergeEntry
        <5> QED
          BY <5>1
      <4>3. Goes(proc')
        <5> DEFINE q == proc'
        <5> HIDE DEF q
        <5>1. \/ q = Exit(proc, 1)
              \/ \E za, next : q = [proc EXCEPT !.za = za, !.next = next]
              \/ \E declined, next : q = [proc EXCEPT !.next = next, !.declined = declined]
          BY <4>4 DEF q
        <5>2. Goes(q)
          <6>1. CASE q = Exit(proc, 1)
            BY <6>1, <3>3
          <6>2. CASE \E za, next : q = [proc EXCEPT !.za = za, !.next = next]
            <7>1. PICK za, next : q = [proc EXCEPT !.za = za, !.next = next]
              BY <6>2
            <7> DEFINE r == [proc EXCEPT !.za = za, !.next = next]
            <7>2. Goes(r)
              BY <3>1, <3>2 DEF Writer
            <7> HIDE DEF r
            <7> QED
              BY <7>1, <7>2 DEF r
          <6>3. CASE \E declined, next : q = [proc EXCEPT !.next = next, !.declined = declined]
            BY <6>3, <3>1, <3>2 DEF Writer
          <6> QED
            BY <5>1, <6>1, <6>2, <6>3
        <5> QED
          BY <5>2 DEF q
      <4> QED
        BY <4>3, <3>1, <3>2 DEF MergeRuns, Goes
    <3>6. CASE CloseTarget
      <4>1. Goes(proc')
        BY <3>1, <3>2, <3>6 DEF CloseTarget, Writer
      <4> QED
        BY <4>1, <3>1, <3>2 DEF MergeRuns
    <3> QED
      BY <3>4, <3>5, <3>6, <2>2
  <2>3. CASE ExitMerge
    <3> DEFINE q == proc'
               status == IF proc.closed \in {"failed", "cancelled"} THEN 1 ELSE 0
    <3>1. proc # NULL /\ proc.program = "zipmerge" /\ proc.pc = "closed" /\ q = Exit(proc, status)
      BY <2>3 DEF ExitMerge, Merging
    <3>2. MergeRuns(proc, disk) /\ Writer \subseteq DOMAIN proc
      BY <3>1 DEF IInv, Runs, MergeRuns
    <3>3. status = 1 => proc.closed \in {"failed", "cancelled"}
      OBVIOUS
    <3> HIDE DEF status
    <3>4. /\ Writer \subseteq DOMAIN q /\ q.program = "zipmerge" /\ q.pc = "exited"
          /\ q.progress = proc.progress /\ q.closed = proc.closed /\ q.before = proc.before
          /\ q.out = proc.out /\ q.status = status
      BY <3>1, <3>2 DEF Exit, Writer
    <3> HIDE DEF q
    <3>5. MergeRuns(q, disk)
      BY <3>1, <3>2, <3>3, <3>4 DEF MergeRuns
    <3> QED
      BY <3>4, <3>5 DEF q
  <2> QED
    BY <2>1, <2>2, <2>3 DEF MergeStep
<1>3. Runs(proc', disk')
  BY <1>1, <1>2 DEF Runs
<1>4. FilesStay
  BY <1>1, DiskUnchanged
<1> QED
  BY <1>1, <1>3, <1>4, OthersStay

\* ziptool ends, and writes the memory back.
LEMMA ExitToolIs ==
    ASSUME IInv, ExitTool
    PROVE  IInv'
<1> DEFINE q == proc'
           empty == \E i \in 1..proc.z_in_count : proc.z_in[i] = 0
           Failed == proc.closed \in {"failed", "cancelled"}
           exit(ok) == [proc EXCEPT !.pc = "exited", !.status = IF ok /\ ~empty THEN proc.err ELSE 1]
<1>1. /\ proc # NULL /\ proc.program = "ziptool" /\ proc.pc = "closed" /\ script' = script
      /\ \/ (Failed \/ ~proc.line.memory) /\ q = exit(~Failed) /\ disk' = disk
         \/ /\ ~Failed /\ proc.line.memory
            /\ \E back \in WriteBacks : /\ disk' = [disk EXCEPT ![proc.line.path] = back.file]
                                        /\ q = exit(back.ok)
  BY DEF ExitTool
<1>2. ToolRuns(proc, disk) /\ script # <<>> /\ Fields \subseteq DOMAIN proc
  BY <1>1 DEF IInv, Runs, ToolRuns
<1>3. /\ proc.closed \in Results /\ proc.closed # NULL /\ IsProper(proc.line, DOMAIN disk)
      /\ proc.line.program = "ziptool" /\ proc.path = ArchivePath(proc.line)
  BY <1>1, <1>2, ResultsAssumption DEF ToolRuns
<1> HIDE DEF empty
<1>4. /\ Fields \subseteq DOMAIN q /\ q.program = "ziptool" /\ q.line = proc.line
      /\ q.before = proc.before /\ q.path = proc.path /\ q.pc = "exited"
      /\ q.progress = proc.progress /\ q.left = proc.left /\ q.out = proc.out
      /\ q.closed = proc.closed /\ (Failed => q.status = 1)
  <2>1. PICK ok : q = exit(ok) /\ (Failed => ok = FALSE)
    BY <1>1
  <2>2. Failed => (IF ok /\ ~empty THEN proc.err ELSE 1) = 1
    BY <2>1
  <2> DEFINE status == IF ok /\ ~empty THEN proc.err ELSE 1
  <2> HIDE DEF status, q
  <2>3. q = [proc EXCEPT !.pc = "exited", !.status = status]
    BY <2>1 DEF status
  <2>4. Failed => status = 1
    BY <2>2 DEF status
  <2> QED
    BY <2>3, <2>4, <1>1, <1>2 DEF Fields, Writer
<1>5. FilesStay /\ (Failed => disk' = disk)
  <2>1. CASE disk' = disk
    BY <2>1, DiskUnchanged
  <2>2. CASE disk' # disk
    <3>1. ~Failed /\ proc.line.memory
      BY <2>2, <1>1
    <3>2. PICK back \in WriteBacks : disk' = [disk EXCEPT ![proc.line.path] = back.file]
      BY <2>2, <1>1
    <3>3. Memory \in DOMAIN disk
      BY <3>1, <1>3 DEF IsProper, ArchivePath
    <3>4. IsFile(disk[Memory])
      BY <3>3 DEF IInv
    <3> DEFINE file == back.file
               emptied == [kind |-> "file", data |-> <<>>, mtime |-> Now]
    <3>5. file = NoFile \/ file = disk[Memory] \/ file = emptied
      BY DEF WriteBacks
    <3>6. IsFile(NoFile) /\ IsFile(emptied)
      BY DEF IsFile, IsZip, NoFile
    <3>7. IsFile(file)
      <4> HIDE DEF file, emptied
      <4> QED
        BY <3>4, <3>5, <3>6
    <3> DEFINE path == proc.line.path
    <3> HIDE DEF file, path
    <3>8. disk' = [disk EXCEPT ![path] = file]
      BY <3>2 DEF file, path
    <3>9. FilesStay
      BY <3>7, <3>8, DiskWritten
    <3> QED
      BY <3>1, <3>9
  <2> QED
    BY <2>1, <2>2
<1> HIDE DEF q
<1>6. q.left # NULL /\ q.progress # NULL /\ Len(q.left) + Len(q.out) > 0 => Truthful(q)
  <2>1. q.left # NULL /\ q.progress # NULL /\ Len(q.left) + Len(q.out) > 0 => Truthful(proc)
    BY <1>2, <1>4 DEF ToolRuns
  <2>2. Begun(q) = Begun(proc) /\ ~IsWriting(q) /\ proc.pc \notin {"closing", "copying"}
    BY <1>1, <1>4 DEF Begun, IsWriting
  <2>3. Truthful(proc) => Truthful(q)
    BY <2>2, <1>4 DEF Truthful
  <2> QED
    BY <2>1, <2>3
<1>7. Failed => disk'[q.path] = q.before[q.line.path]
  BY <1>2, <1>4, <1>5 DEF ToolRuns
<1>8. IsProper(q.line, DOMAIN disk')
  BY <1>3, <1>4, <1>5 DEF FilesStay
<1>9. ToolRuns(q, disk')
  BY <1>1, <1>2, <1>3, <1>4, <1>6, <1>7, <1>8 DEF ToolRuns
<1>10. Runs(proc', disk')
  BY <1>4, <1>9 DEF Runs, q
<1> QED
  BY <1>1, <1>2, <1>5, <1>10, OthersStay

(***************************************************************************)
(* zip_close.                                                              *)
(***************************************************************************)

\* The same run of ziptool.
SameRun(q) ==
    /\ Fields \subseteq DOMAIN q /\ q.program = "ziptool" /\ q.line = proc.line
    /\ q.before = proc.before /\ q.path = proc.path

\* A process that closes its archive, or has.
Closes(q) ==
    /\ q.pc \in {"closing", "copying", "closed"}
    /\ IsWriting(q) => IsArchive(q.za) /\ q.closed = NULL
    /\ q.pc = "copying" => q.left # NULL /\ q.left # <<>>
    /\ q.pc = "closed" => q.closed \in Results
    /\ IsSequence(q.out)
    /\ q.left = NULL /\ q.progress # NULL => IsNew(q.progress)
    /\ q.left # NULL => q.left \in Seq(Nat)
    /\ q.left # NULL /\ q.progress # NULL /\ Len(q.left) + Len(q.out) > 0 => Truthful(q)

InClose == proc # NULL /\ IsWriting(proc)

LEMMA ToolInClose ==
    ASSUME IInv, InClose, proc.program = "ziptool"
    PROVE  /\ ToolRuns(proc, disk) /\ script # <<>> /\ SameRun(proc) /\ Closes(proc)
           /\ IsArchive(proc.za) /\ proc.closed = NULL
<1>1. ToolRuns(proc, disk) /\ script # <<>> /\ proc.pc \in {"closing", "copying"}
  BY DEF IInv, Runs, InClose, IsWriting
<1>2. SameRun(proc) /\ Closes(proc) /\ IsArchive(proc.za) /\ proc.closed = NULL
  BY <1>1 DEF ToolRuns, SameRun, Closes, IsWriting
<1> QED
  BY <1>1, <1>2

LEMMA ToolCloses ==
    ASSUME IInv, InClose, proc.program = "ziptool", SameRun(proc'), Closes(proc'),
           FilesStay, script' = script,
           proc'.closed \in {NULL, "failed", "cancelled"} => disk'[proc.path] = disk[proc.path]
    PROVE  IInv'
<1> DEFINE q == proc'
<1>1. /\ SameRun(q) /\ Closes(q)
      /\ q.closed \in {NULL, "failed", "cancelled"} => disk'[proc.path] = disk[proc.path]
  OBVIOUS
<1> HIDE DEF q
<1>2. ToolRuns(proc, disk) /\ script # <<>> /\ proc.closed = NULL
  BY ToolInClose
<1>3. /\ IsProper(q.line, DOMAIN disk') /\ q.line.program = "ziptool" /\ q.path = ArchivePath(q.line)
      /\ q.closed \in {NULL, "failed", "cancelled"} => disk'[q.path] = q.before[q.line.path]
  BY <1>1, <1>2 DEF ToolRuns, SameRun, FilesStay
<1>4. q.closed \in Results \cup {NULL} /\ Fields \subseteq DOMAIN q
  BY <1>1 DEF Closes, SameRun, IsWriting
<1>5. ToolRuns(q, disk')
  BY <1>1, <1>3, <1>4 DEF ToolRuns, Closes, IsWriting
<1>6. Runs(proc', disk')
  BY <1>1, <1>5 DEF Runs, SameRun, q
<1> QED
  BY <1>2, <1>6, OthersStay

\* What zipmerge is between the steps of zip_close.
MergeGoes(q) ==
    /\ Writer \subseteq DOMAIN q /\ q.program = proc.program /\ q.before = proc.before
    /\ q.progress = NULL /\ q.pc \in {"closing", "copying", "closed"}
    /\ IsWriting(q) => q.closed = NULL
    /\ q.pc = "closed" => q.closed \in Results
    /\ IsSequence(q.out)

LEMMA MergeCloses ==
    ASSUME IInv, InClose, proc.program # "ziptool", NEW q, q = proc', MergeGoes(q),
           FilesStay, script' = script,
           q.closed \in {NULL, "failed", "cancelled"} => disk' = disk
    PROVE  IInv'
<1>1. proc.program = "zipmerge" /\ MergeRuns(proc, disk) /\ script # <<>> /\ proc.closed = NULL
  BY DEF IInv, Runs, MergeRuns, InClose, IsWriting
<1>2. MergeRuns(q, disk')
  BY <1>1 DEF MergeRuns, MergeGoes, IsWriting
<1>3. Runs(proc', disk')
  BY <1>1, <1>2 DEF Runs, MergeGoes
<1> QED
  BY <1>1, <1>3, OthersStay

LEMMA MergeInClose ==
    ASSUME IInv, InClose, proc.program # "ziptool"
    PROVE  /\ Writer \subseteq DOMAIN proc /\ proc.progress = NULL /\ proc.closed = NULL
           /\ proc.pc \in {"closing", "copying"} /\ IsSequence(proc.out)
BY DEF IInv, Runs, MergeRuns, InClose, IsWriting

\* What the answer of a callback makes of a process that closes its archive.
LEMMA AnswerIs ==
    ASSUME NEW p, p.progress # NULL => Grows(p.progress)
    PROVE  \/ Asked(p) = p /\ (p.progress # NULL => ~(p.progress.last >= p.progress.limit))
           \/ Asked(p) = Return(p, "cancelled") /\ p.progress # NULL
              /\ p.progress.last >= p.progress.limit
BY ReportedIs DEF Asked

\* What Return changes.
LEMMA ReturnIs ==
    ASSUME NEW p, Writer \subseteq DOMAIN p, NEW result
    PROVE  LET q == Return(p, result)
           IN /\ DOMAIN q = DOMAIN p /\ q.pc = "closed" /\ q.closed = result
              /\ q.program = p.program /\ q.line = p.line /\ q.before = p.before /\ q.path = p.path
              /\ q.za = p.za /\ q.progress = p.progress /\ q.left = p.left /\ q.out = p.out
BY DEF Return, Writer

\* Something was reported, and the callback has not been asked yet.
IsReporting(p) ==
    LET pr == p.progress
        n == Len(p.left) + Len(p.out)
    IN /\ pr \in ProgressObject /\ Grows(pr) /\ p.left # <<>>
       /\ ~IsAhead(pr, Begun(p), n) /\ ~IsAhead(pr, Len(p.out) + 1, n)
       /\ p.pc = "copying" => InSection(pr, Len(p.out), n)

\* The truth, whatever the callback answers.
LEMMA AnswersAreTruthful ==
    ASSUME NEW p, Writer \subseteq DOMAIN p, IsWriting(p), p.closed = NULL, IsReporting(p),
           p.progress # NULL
    PROVE  Truthful(Asked(p))
<1> DEFINE pr == p.progress
           n == Len(p.left) + Len(p.out)
<1>1. /\ pr \in ProgressObject /\ Grows(pr) /\ p.left # <<>>
      /\ ~IsAhead(pr, Begun(p), n) /\ ~IsAhead(pr, Len(p.out) + 1, n)
      /\ p.pc = "copying" => InSection(pr, Len(p.out), n)
      /\ pr.last \in Int /\ pr.limit \in Int
  BY ObjectFields DEF IsReporting
<1>2. CASE Asked(p) = p /\ ~(pr.last >= pr.limit)
  <2>1. pr.last < pr.limit
    BY <1>1, <1>2
  <2>2. p.closed # "written" /\ p.closed # "cancelled"
    BY ResultsAssumption DEF Results
  <2>3. Truthful(p)
    BY <1>1, <2>1, <2>2 DEF Truthful
  <2> QED
    BY <1>2, <2>3
<1>3. CASE Asked(p) = Return(p, "cancelled") /\ pr.last >= pr.limit
  <2> DEFINE q == Return(p, "cancelled")
  <2>1. /\ q.pc = "closed" /\ q.closed = "cancelled"
        /\ q.progress = p.progress /\ q.left = p.left /\ q.out = p.out
    BY ReturnIs
  <2> HIDE DEF q
  <2>2. Begun(q) = Len(p.out) + 1
    BY <1>1, <2>1 DEF Begun
  <2>3. Truthful(q)
    BY <1>1, <1>3, <2>1, <2>2 DEF Truthful, IsWriting
  <2> QED
    BY <1>3, <2>3 DEF q
<1> QED
  BY <1>1, <1>2, <1>3, AnswerIs

\* ziptool asks, and closes the archive.
LEMMA AskedCloses ==
    ASSUME NEW p, SameRun(p), IsWriting(p), p.closed = NULL, IsArchive(p.za), IsSequence(p.out),
           p.left \in Seq(Nat), p.left # NULL, p.pc = "copying" => p.left # <<>>,
           p.progress # NULL /\ Len(p.left) + Len(p.out) > 0 => IsReporting(p)
    PROVE  /\ SameRun(Asked(p)) /\ Closes(Asked(p))
           /\ Asked(p).closed \in {NULL, "cancelled"} /\ Asked(p).left = p.left
<1> DEFINE q == Asked(p)
           r == Return(p, "cancelled")
<1>1. Writer \subseteq DOMAIN p
  BY DEF SameRun, Fields
<1>2. p.progress # NULL /\ Len(p.left) + Len(p.out) > 0 => Truthful(q)
  BY <1>1, AnswersAreTruthful
<1>3. /\ DOMAIN r = DOMAIN p /\ r.pc = "closed" /\ r.closed = "cancelled"
      /\ r.program = p.program /\ r.line = p.line /\ r.before = p.before /\ r.path = p.path
      /\ r.za = p.za /\ r.progress = p.progress /\ r.left = p.left /\ r.out = p.out
  BY <1>1, ReturnIs
<1>4. q = p \/ q = r
  BY DEF Asked
<1> HIDE DEF q, r
<1>5. /\ SameRun(q) /\ q.left = p.left /\ q.out = p.out /\ q.progress = p.progress
      /\ \/ q.pc = p.pc /\ q.closed = NULL /\ q.za = p.za
         \/ q.pc = "closed" /\ q.closed = "cancelled"
  BY <1>3, <1>4 DEF SameRun
<1>6. Closes(q)
  BY <1>2, <1>5 DEF Closes, Results, IsWriting
<1> QED
  BY <1>5, <1>6 DEF q

\* A result that leaves the process as it was otherwise.
LEMMA ReturnCloses ==
    ASSUME NEW p, SameRun(p), NEW result \in Results, IsSequence(p.out),
           p.left = NULL /\ p.progress # NULL => IsNew(p.progress),
           p.left # NULL => p.left \in Seq(Nat),
           p.left # NULL /\ p.progress # NULL /\ Len(p.left) + Len(p.out) > 0 =>
                Truthful(Return(p, result))
    PROVE  SameRun(Return(p, result)) /\ Closes(Return(p, result)) /\ Return(p, result).closed = result
<1> DEFINE q == Return(p, result)
<1>1. Writer \subseteq DOMAIN p
  BY DEF SameRun, Fields
<1>2. /\ DOMAIN q = DOMAIN p /\ q.pc = "closed" /\ q.closed = result
      /\ q.program = p.program /\ q.line = p.line /\ q.before = p.before /\ q.path = p.path
      /\ q.za = p.za /\ q.progress = p.progress /\ q.left = p.left /\ q.out = p.out
  BY <1>1, ReturnIs
<1>3. p.left # NULL /\ p.progress # NULL /\ Len(p.left) + Len(p.out) > 0 => Truthful(q)
  OBVIOUS
<1> HIDE DEF q
<1>4. SameRun(q) /\ Closes(q)
  BY <1>2, <1>3 DEF SameRun, Closes, IsWriting
<1> QED
  BY <1>2, <1>4 DEF q

LEMMA CloseArchiveIs ==
    ASSUME IInv, CloseArchive
    PROVE  IInv'
<1> DEFINE za == proc.za
           list == Filelist(za)
           p == [proc EXCEPT !.left = list, !.out = <<>>]
           started == [p EXCEPT !.progress = Progress!Start(@)]
           written == [disk EXCEPT ![proc.path] = NoFile]
<1>1. /\ InClose /\ proc.pc = "closing" /\ proc.left = NULL /\ script' = script
      /\ \/ (disk' = written \/ disk' = disk) /\ proc' = Return(proc, "removed")
         \/ disk' = disk /\ proc' = Return(proc, "unchanged")
         \/ disk' = disk /\ proc.progress = NULL /\ proc' = p
         \/ disk' = disk /\ proc.progress # NULL /\ proc' = Asked(started)
  BY DEF CloseArchive, Closing, InClose, IsWriting
<1>2. FilesStay
  <2>1. IsFile(NoFile)
    BY DEF IsFile, IsZip, NoFile
  <2>2. disk' = written => FilesStay
    BY <2>1, DiskWritten
  <2> QED
    BY <2>2, <1>1, DiskUnchanged
<1>3. "removed" \in Results /\ "unchanged" \in Results
      /\ {"removed", "unchanged"} \cap {NULL, "failed", "cancelled"} = {}
  BY ResultsAssumption DEF Results
<1>4. CASE proc.program = "ziptool"
  <2>1. /\ SameRun(proc) /\ Closes(proc) /\ IsArchive(za) /\ proc.closed = NULL /\ proc.pc = "closing"
        /\ IsSequence(proc.out) /\ (proc.progress # NULL => IsNew(proc.progress))
    BY <1>1, <1>4, ToolInClose DEF Closes
  <2>2. list \in Seq(Nat) /\ list # NULL
    BY <2>1, FilelistIs, ResultsAssumption
  <2> HIDE DEF list
  <2>3. ASSUME NEW result \in {"removed", "unchanged"}, proc' = Return(proc, result) PROVE IInv'
    <3>1. SameRun(proc') /\ Closes(proc') /\ proc'.closed = result
      BY <1>1, <1>3, <2>1, <2>3, ReturnCloses
    <3> QED
      BY <3>1, <1>1, <1>2, <1>3, <1>4, <2>3, ToolCloses
  <2>4. /\ SameRun(p) /\ p.pc = "closing" /\ p.closed = NULL /\ p.za = za /\ p.left = list
        /\ p.out = <<>> /\ p.progress = proc.progress
    BY <2>1 DEF SameRun, Fields, Writer
  <2> HIDE DEF p
  <2>6. CASE disk' = disk /\ proc.progress = NULL /\ proc' = p
    <3>1. Closes(p) /\ p.closed = NULL
      BY <2>1, <2>2, <2>4, <2>6, EmptyIsSequence DEF Closes, IsWriting
    <3> QED
      BY <3>1, <2>4, <2>6, <1>1, <1>2, <1>4, ToolCloses
  <2>7. CASE disk' = disk /\ proc.progress # NULL /\ proc' = Asked(started)
    <3> DEFINE pr == Progress!Start(proc.progress)
    <3>1. pr \in ProgressObject /\ Grows(pr) /\ pr.last = 0
      BY <2>1, <2>7, StartIs
    <3> HIDE DEF pr
    <3>2. /\ SameRun(started) /\ started.pc = "closing" /\ started.closed = NULL /\ started.za = za
          /\ started.left = list /\ started.out = <<>> /\ started.progress = pr
      BY <2>4 DEF SameRun, Fields, Writer, pr
    <3> HIDE DEF started
    <3> DEFINE n == Len(started.left) + Len(started.out)
    <3>3. Len(started.out) = 0 /\ n \in Nat /\ n = Len(list) /\ Begun(started) = 0
      BY <3>2, <2>2 DEF Begun
    <3> HIDE DEF n
    <3>4. ASSUME n > 0 PROVE IsReporting(started)
      <4>1. ~IsAhead(pr, 0, n) /\ ~IsAhead(pr, 1, n)
        BY <3>1, <3>3 DEF IsAhead, Progress!Whole
      <4>2. started.left # <<>>
        <5>1. Len(<<>>) = 0
          OBVIOUS
        <5> QED
          BY <5>1, <3>2, <3>3, <3>4
      <4>3. ~IsAhead(pr, Begun(started), n) /\ ~IsAhead(pr, Len(started.out) + 1, n)
        <5>1. 0 + 1 = 1
          OBVIOUS
        <5> QED
          BY <4>1, <5>1, <3>3
      <4> QED
        BY <3>1, <3>2, <4>2, <4>3 DEF IsReporting, n
    <3>5. /\ SameRun(Asked(started)) /\ Closes(Asked(started))
          /\ Asked(started).closed \in {NULL, "cancelled"}
      <4>1. IsWriting(started) /\ started.pc # "copying"
        BY <3>2 DEF IsWriting
      <4>2. started.progress # NULL /\ Len(started.left) + Len(started.out) > 0 => IsReporting(started)
        BY <3>4 DEF n
      <4> QED
        BY <4>1, <4>2, <3>2, <2>1, <2>2, EmptyIsSequence, AskedCloses
    <3> QED
      BY <3>5, <2>7, <1>1, <1>2, <1>4, ToolCloses
  <2> QED
    BY <1>1, <2>3, <2>6, <2>7
<1>5. CASE proc.program # "ziptool"
  <2> DEFINE q == proc'
  <2>1. Writer \subseteq DOMAIN proc /\ proc.progress = NULL /\ proc.closed = NULL
        /\ IsSequence(proc.out)
    BY <1>1, <1>5, MergeInClose
  <2> HIDE DEF list
  <2>2. MergeGoes(p) /\ p.closed = NULL
    <3>1. /\ Writer \subseteq DOMAIN p /\ p.program = proc.program /\ p.before = proc.before
          /\ p.progress = NULL /\ p.pc = "closing" /\ p.closed = NULL /\ p.out = <<>>
      BY <2>1, <1>1 DEF Writer
    <3> HIDE DEF p
    <3> QED
      BY <3>1, EmptyIsSequence DEF MergeGoes, IsWriting
  <2> HIDE DEF p
  <2>3. ASSUME NEW result \in {"removed", "unchanged"}, q = Return(proc, result)
        PROVE  MergeGoes(q) /\ q.closed \notin {NULL, "failed", "cancelled"}
    <3> DEFINE r == Return(proc, result)
    <3>1. /\ DOMAIN r = DOMAIN proc /\ r.pc = "closed" /\ r.closed = result
          /\ r.program = proc.program /\ r.before = proc.before
          /\ r.progress = proc.progress /\ r.out = proc.out
      BY <2>1, ReturnIs
    <3>2. q = r
      BY <2>3
    <3> HIDE DEF q, r
    <3> QED
      BY <3>1, <3>2, <2>1, <1>3 DEF MergeGoes, IsWriting
  <2>4. \/ q = p /\ disk' = disk
        \/ \E result \in {"removed", "unchanged"} : q = Return(proc, result)
    BY <1>1, <2>1
  <2> HIDE DEF q
  <2>5. MergeGoes(q) /\ (q.closed \in {NULL, "failed", "cancelled"} => disk' = disk)
    BY <2>2, <2>3, <2>4
  <2>6. q = proc'
    BY DEF q
  <2> QED
    BY <2>5, <2>6, <1>1, <1>2, <1>5, MergeCloses
<1> QED
  BY <1>4, <1>5

\* The progress of the run of ziptool, in the section of the entry and after it.
LEMMA SectionIs ==
    ASSUME IInv, Closing, proc.program = "ziptool", proc.left # NULL, proc.left # <<>>,
           proc.progress # NULL, NEW j, j = Len(proc.out), NEW n, n = Len(proc.left) + Len(proc.out)
    PROVE  /\ j \in Nat /\ n \in Nat \ {0} /\ j < n
           /\ InSection(Progress!Subrange(proc.progress, j, n), j, n)
           /\ ~IsAhead(Progress!Subrange(proc.progress, j, n), j, n)
<1> DEFINE pr == proc.progress
<1>1. Closes(proc) /\ proc.pc = "closing"
  BY ToolInClose DEF Closing, InClose, IsWriting
<1>2. proc.left \in Seq(Nat) /\ IsSequence(proc.out)
  BY <1>1 DEF Closes
<1>3. Len(proc.left) \in Nat \ {0} /\ Len(proc.out) \in Nat
  BY <1>2, SequenceIs, TailIs DEF IsSequence
<1> DEFINE a == Len(proc.left)
           b == Len(proc.out)
<1>9. a \in Nat \ {0} /\ b \in Nat /\ j = b /\ n = a + b
  BY <1>3
<1> HIDE DEF a, b
<1>4. j \in Nat /\ n \in Nat \ {0} /\ j < n /\ a + b > 0
  BY <1>9
<1>5. Truthful(proc)
  BY <1>1, <1>4 DEF Closes, a, b
<1>6. pr \in ProgressObject /\ Grows(pr) /\ ~IsAhead(pr, j, n)
  <2>1. Begun(proc) = j
    BY <1>1 DEF Begun
  <2> QED
    BY <1>5, <2>1 DEF Truthful
<1> HIDE DEF pr
<1>7. InSection(Progress!Subrange(pr, j, n), j, n) /\ ~IsAhead(Progress!Subrange(pr, j, n), j, n)
  BY <1>4, <1>6, SubrangeIs
<1> QED
  BY <1>4, <1>7 DEF pr

\* The next entry is begun.
LEMMA BeginEntryDoes ==
    ASSUME BeginEntry, NEW sub,
           sub = IF proc.progress = NULL THEN proc.progress
                 ELSE Progress!Subrange(proc.progress, Len(proc.out), Len(proc.left) + Len(proc.out))
    PROVE  /\ Closing /\ proc.left # NULL /\ proc.left # <<>> /\ disk' = disk /\ script' = script
           /\ proc' = Asked([proc EXCEPT !.pc = "copying", !.progress = sub])
BY DEF BeginEntry

LEMMA ToolBeginsEntry ==
    ASSUME IInv, BeginEntry, proc.program = "ziptool"
    PROVE  IInv'
<1> DEFINE j == Len(proc.out)
           n == Len(proc.left) + Len(proc.out)
           sub == IF proc.progress = NULL THEN proc.progress
                  ELSE Progress!Subrange(proc.progress, j, n)
           p == [proc EXCEPT !.pc = "copying", !.progress = sub]
<1>1. Closing /\ InClose /\ proc.left # NULL /\ proc.left # <<>> /\ disk' = disk /\ script' = script
  BY DEF BeginEntry, InClose, Closing, IsWriting
<1>2. /\ SameRun(proc) /\ Closes(proc) /\ IsArchive(proc.za) /\ proc.closed = NULL
      /\ Writer \subseteq DOMAIN proc
  BY <1>1, ToolInClose DEF SameRun, Fields
<1>3. proc.left \in Seq(Nat) /\ IsSequence(proc.out)
  BY <1>1, <1>2 DEF Closes
<1>4. proc' = Asked(p)
  <2>1. sub = IF proc.progress = NULL THEN proc.progress
              ELSE Progress!Subrange(proc.progress, Len(proc.out), Len(proc.left) + Len(proc.out))
    OBVIOUS
  <2> HIDE DEF sub
  <2> QED
    BY <2>1, BeginEntryDoes
<1>5. sub # NULL => proc.progress # NULL
  OBVIOUS
<1>6. sub # NULL => InSection(sub, j, n) /\ j \in Nat /\ j < n /\ n \in Nat \ {0}
  BY <1>1, <1>5, SectionIs
<1> HIDE DEF sub
<1>7. /\ SameRun(p) /\ p.pc = "copying" /\ p.closed = NULL /\ p.za = proc.za /\ p.left = proc.left
      /\ p.out = proc.out /\ p.progress = sub
  BY <1>2 DEF SameRun, Fields, Writer
<1> HIDE DEF p
<1>8. Len(p.left) + Len(p.out) = n /\ Len(p.out) = j /\ Begun(p) = j + 1
  BY <1>1, <1>7 DEF Begun
<1> HIDE DEF n, j
<1>9. sub # NULL => IsReporting(p)
  <2>1. sub # NULL => ~IsAhead(sub, j + 1, n)
    BY <1>6, SectionDone
  <2>2. sub # NULL => sub \in ProgressObject /\ Grows(sub)
    BY <1>6 DEF InSection
  <2> QED
    BY <2>1, <2>2, <1>1, <1>6, <1>7, <1>8 DEF IsReporting
<1>10. SameRun(Asked(p)) /\ Closes(Asked(p)) /\ Asked(p).closed \in {NULL, "cancelled"}
  <2>1. IsWriting(p) /\ p.left \in Seq(Nat) /\ p.left # NULL /\ p.left # <<>> /\ IsSequence(p.out)
    BY <1>1, <1>3, <1>7 DEF IsWriting
  <2> QED
    BY <2>1, <1>2, <1>7, <1>9, AskedCloses
<1>11. FilesStay
  BY <1>1, DiskUnchanged
<1> QED
  BY <1>1, <1>4, <1>10, <1>11, ToolCloses

LEMMA MergeBeginsEntry ==
    ASSUME IInv, BeginEntry, proc.program # "ziptool"
    PROVE  IInv'
<1> DEFINE p == [proc EXCEPT !.pc = "copying", !.progress = NULL]
           q == proc'
<1>1. InClose /\ disk' = disk /\ script' = script
  BY DEF BeginEntry, InClose, Closing, IsWriting
<1>2. Writer \subseteq DOMAIN proc /\ proc.progress = NULL /\ proc.closed = NULL /\ IsSequence(proc.out)
  BY <1>1, MergeInClose
<1>3. q = Asked(p)
  <2> DEFINE sub == NULL
  <2>1. sub = IF proc.progress = NULL THEN proc.progress
              ELSE Progress!Subrange(proc.progress, Len(proc.out), Len(proc.left) + Len(proc.out))
    BY <1>2
  <2> HIDE DEF sub
  <2>2. proc' = Asked([proc EXCEPT !.pc = "copying", !.progress = sub])
    BY <2>1, BeginEntryDoes
  <2> QED
    BY <2>2 DEF sub
<1>4. p.progress = NULL /\ MergeGoes(p) /\ p.closed = NULL
  BY <1>2 DEF Writer, MergeGoes, IsWriting
<1> HIDE DEF p, q
<1>5. Asked(p) = p
  BY <1>4 DEF Asked
<1>6. q = proc' /\ FilesStay
  BY <1>1, DiskUnchanged DEF q
<1> QED
  BY <1>1, <1>3, <1>4, <1>5, <1>6, MergeCloses

\* The progress while the data of an entry is copied.
LEMMA CopyingIs ==
    ASSUME IInv, Copying, proc.program = "ziptool", NEW j, j = Len(proc.out),
           NEW n, n = Len(proc.left) + Len(proc.out)
    PROVE  /\ j \in Nat /\ n \in Nat \ {0} /\ j < n /\ proc.left # NULL /\ proc.left # <<>>
           /\ Begun(proc) = j + 1
           /\ proc.progress # NULL =>
                /\ Truthful(proc) /\ InSection(proc.progress, j, n)
                /\ ~IsAhead(proc.progress, j + 1, n)
<1>1. Closes(proc) /\ proc.pc = "copying"
  BY ToolInClose DEF Copying, InClose, IsWriting
<1>2. proc.left # NULL /\ proc.left # <<>> /\ proc.left \in Seq(Nat) /\ IsSequence(proc.out)
  BY <1>1 DEF Closes
<1>3. Len(proc.left) \in Nat \ {0} /\ Len(proc.out) \in Nat
  BY <1>2, SequenceIs, TailIs DEF IsSequence
<1> DEFINE a == Len(proc.left)
           b == Len(proc.out)
<1>4. a \in Nat \ {0} /\ b \in Nat /\ j = b /\ n = a + b
  BY <1>3
<1> HIDE DEF a, b
<1>5. j \in Nat /\ n \in Nat \ {0} /\ j < n /\ a + b > 0
  BY <1>4
<1>6. proc.progress # NULL => Truthful(proc)
  BY <1>1, <1>2, <1>5 DEF Closes, a, b
<1>7. Begun(proc) = j + 1
  BY <1>1, <1>2 DEF Begun
<1>8. proc.progress # NULL => InSection(proc.progress, j, n) /\ ~IsAhead(proc.progress, j + 1, n)
  BY <1>1, <1>6, <1>7 DEF Truthful
<1> QED
  BY <1>2, <1>5, <1>6, <1>7, <1>8

LEMMA WriteBufferIs ==
    ASSUME IInv, WriteBuffer
    PROVE  IInv'
<1> DEFINE j == Len(proc.out)
           n == Len(proc.left) + Len(proc.out)
           old == proc.progress
<1>1. /\ Copying /\ InClose /\ old # NULL /\ disk' = disk /\ script' = script
  BY DEF WriteBuffer, Copying, InClose, IsWriting
<1>2. proc.program = "ziptool"
  BY <1>1, MergeInClose
<1>3. PICK k \in 1 .. MaxBuffers, of \in 1 .. MaxBuffers :
        proc' = Asked([proc EXCEPT !.progress = Progress!Update(old, k, of)])
  BY DEF WriteBuffer
<1> DEFINE new == Progress!Update(old, k, of)
           p == [proc EXCEPT !.progress = new]
<1>4. /\ SameRun(proc) /\ Closes(proc) /\ IsArchive(proc.za) /\ proc.closed = NULL
      /\ proc.pc = "copying" /\ Writer \subseteq DOMAIN proc
  BY <1>1, <1>2, ToolInClose DEF SameRun, Fields, Copying
<1>5. /\ j \in Nat /\ n \in Nat \ {0} /\ j < n /\ proc.left # NULL /\ proc.left # <<>>
      /\ InSection(old, j, n)
  BY <1>1, <1>2, CopyingIs
<1> HIDE DEF new
<1>6. /\ SameRun(p) /\ p.pc = "copying" /\ p.closed = NULL /\ p.za = proc.za /\ p.left = proc.left
      /\ p.out = proc.out /\ p.progress = new
  BY <1>4 DEF SameRun, Fields, Writer
<1> HIDE DEF p
<1>7. Len(p.left) + Len(p.out) = n /\ Len(p.out) = j /\ Begun(p) = j + 1
  BY <1>5, <1>6 DEF Begun
<1> HIDE DEF n, j, old
<1>8. InSection(new, j, n)
  <2>1. new = Progress!Update(old, k, of)
    BY DEF new
  <2> QED
    BY <2>1, <1>5, UpdatesAre
<1>9. IsReporting(p)
  <2>1. ~IsAhead(new, j + 1, n)
    BY <1>5, <1>8, SectionDone
  <2> QED
    BY <2>1, <1>5, <1>6, <1>7, <1>8 DEF IsReporting, InSection
<1>10. SameRun(Asked(p)) /\ Closes(Asked(p)) /\ Asked(p).closed \in {NULL, "cancelled"}
  <2>1. IsWriting(p) /\ p.left \in Seq(Nat) /\ p.left # NULL /\ p.left # <<>> /\ IsSequence(p.out)
    BY <1>4, <1>5, <1>6 DEF IsWriting, Closes
  <2> QED
    BY <2>1, <1>4, <1>6, <1>9, AskedCloses
<1>11. FilesStay
  BY <1>1, DiskUnchanged
<1>12. proc' = Asked(p)
  BY <1>3 DEF p, new, old
<1> QED
  BY <1>1, <1>2, <1>10, <1>11, <1>12, ToolCloses

LEMMA ToolWritesEntry ==
    ASSUME IInv, WriteEntry, proc.program = "ziptool"
    PROVE  IInv'
<1> DEFINE j == Len(proc.out)
           n == Len(proc.left) + Len(proc.out)
           pr == proc.progress
<1>1. Copying /\ InClose /\ disk' = disk /\ script' = script /\ proc.pc = "copying"
  BY DEF WriteEntry, Copying, InClose, IsWriting
<1>2. /\ SameRun(proc) /\ Closes(proc) /\ IsArchive(proc.za) /\ proc.closed = NULL
      /\ Writer \subseteq DOMAIN proc
  BY <1>1, ToolInClose DEF SameRun, Fields
<1>3. /\ j \in Nat /\ n \in Nat \ {0} /\ j < n /\ proc.left # NULL /\ proc.left # <<>>
      /\ Begun(proc) = j + 1
      /\ pr # NULL => Truthful(proc) /\ InSection(pr, j, n) /\ ~IsAhead(pr, j + 1, n)
  BY <1>1, CopyingIs
<1>4. proc.left \in Seq(Nat) /\ IsSequence(proc.out) /\ IsSequence(proc.left)
  BY <1>2, <1>3, SequenceIs DEF Closes
<1>5. pr # NULL => pr \in ProgressObject /\ Grows(pr) /\ pr.last < pr.limit
  BY <1>1, <1>3 DEF Truthful, IsWriting
<1>6. FilesStay
  BY <1>1, DiskUnchanged
<1>7. CASE proc' = Return(proc, "failed")
  <2> DEFINE q == Return(proc, "failed")
  <2>1. "failed" \in Results
    BY DEF Results
  <2>2. q.pc = "closed" /\ q.closed = "failed" /\ q.progress = pr /\ q.left = proc.left /\ q.out = proc.out
    BY <1>2, ReturnIs
  <2> HIDE DEF q
  <2>3. Begun(q) = j + 1 /\ Len(q.left) + Len(q.out) = n
    BY <1>3, <2>2 DEF Begun
  <2> HIDE DEF pr, n
  <2>4. pr # NULL => Truthful(q)
    BY <1>3, <1>5, <2>2, <2>3 DEF Truthful, IsWriting
  <2>5. SameRun(q) /\ Closes(q)
    BY <2>1, <2>4, <1>2, <1>3, <1>4, ReturnCloses DEF q, pr
  <2> QED
    BY <2>5, <1>1, <1>6, <1>7, ToolCloses DEF q
<1>8. ASSUME NEW e,
             proc' = [proc EXCEPT !.pc = "closing", !.left = Tail(proc.left),
                                  !.out = Append(proc.out, e)]
      PROVE  IInv'
  <2> DEFINE left == Tail(proc.left)
             out == Append(proc.out, e)
             q == [proc EXCEPT !.pc = "closing", !.left = left, !.out = out]
  <2>1. left \in Seq(Nat) /\ left # NULL /\ Len(left) = Len(proc.left) - 1 /\ Len(proc.left) \in Nat
    <3>1. Len(left) = Len(proc.left) - 1 /\ Len(proc.left) \in Nat
      BY <1>3, <1>4, TailIs
    <3>2. left \in Seq(Nat)
      BY <1>3, <1>4
    <3> QED
      BY <3>1, <3>2, ResultsAssumption
  <2>2. IsSequence(out) /\ Len(out) = j + 1
    BY <1>4, Appended
  <2> HIDE DEF left, out
  <2>3. left = <<>> => Len(left) = 0
    OBVIOUS
  <2>4. Len(left) + Len(out) = n /\ (left = <<>> => j + 1 = n)
    <3> DEFINE a == Len(proc.left)
               b == Len(left)
               c == Len(out)
    <3>1. a \in Nat /\ j \in Nat /\ n = a + j /\ b = a - 1 /\ c = j + 1 /\ (left = <<>> => b = 0)
      BY <2>1, <2>2, <2>3, <1>3
    <3> HIDE DEF a, b, c, j, n
    <3>2. b + c = n /\ (left = <<>> => j + 1 = n)
      BY <3>1
    <3> QED
      BY <3>2 DEF b, c
  <2>5. /\ SameRun(q) /\ q.pc = "closing" /\ q.closed = NULL /\ q.za = proc.za /\ q.left = left
        /\ q.out = out /\ q.progress = pr
    BY <1>2 DEF SameRun, Fields, Writer
  <2>6. proc' = q
    BY <1>8 DEF left, out
  <2> HIDE DEF q
  <2>7. Begun(q) = j + 1 /\ Len(q.left) + Len(q.out) = n
    BY <2>2, <2>4, <2>5 DEF Begun
  <2>8. q.closed # "written" /\ q.closed # "cancelled"
    BY <2>5, ResultsAssumption DEF Results
  <2> HIDE DEF pr, n, j
  <2>9. pr # NULL => Truthful(q)
    <3>1. pr # NULL /\ left = <<>> => pr.end = Progress!Whole
      BY <1>3, <2>4 DEF InSection
    <3> QED
      BY <3>1, <1>3, <1>5, <2>5, <2>7, <2>8 DEF Truthful
  <2>10. Closes(q)
    BY <2>1, <2>2, <2>5, <2>9, <1>2 DEF Closes, IsWriting
  <2> QED
    BY <2>5, <2>6, <2>10, <1>1, <1>6, ToolCloses
<1> QED
  BY <1>7, <1>8 DEF WriteEntry

LEMMA MergeWritesEntry ==
    ASSUME IInv, WriteEntry, proc.program # "ziptool"
    PROVE  IInv'
<1> DEFINE q == proc'
<1>1. InClose /\ disk' = disk /\ script' = script
  BY DEF WriteEntry, Copying, InClose, IsWriting
<1>2. Writer \subseteq DOMAIN proc /\ proc.progress = NULL /\ proc.closed = NULL /\ IsSequence(proc.out)
  BY <1>1, MergeInClose
<1>3. MergeGoes(Return(proc, "failed"))
  <2> DEFINE r == Return(proc, "failed")
  <2>1. /\ DOMAIN r = DOMAIN proc /\ r.pc = "closed" /\ r.closed = "failed"
        /\ r.program = proc.program /\ r.before = proc.before /\ r.progress = proc.progress
        /\ r.out = proc.out
    BY <1>2, ReturnIs
  <2> HIDE DEF r
  <2>2. MergeGoes(r)
    BY <2>1, <1>2 DEF Results, MergeGoes, IsWriting
  <2> QED
    BY <2>2 DEF r
<1>4. ASSUME NEW e
      PROVE  MergeGoes([proc EXCEPT !.pc = "closing", !.left = Tail(proc.left),
                                    !.out = Append(proc.out, e)])
  <2> DEFINE out == Append(proc.out, e)
             left == Tail(proc.left)
             r == [proc EXCEPT !.pc = "closing", !.left = left, !.out = out]
  <2>1. IsSequence(out)
    BY <1>2, Appended
  <2> HIDE DEF out, left
  <2>2. /\ Writer \subseteq DOMAIN r /\ r.program = proc.program /\ r.before = proc.before
        /\ r.progress = NULL /\ r.pc = "closing" /\ r.closed = NULL /\ r.out = out
    BY <1>2 DEF Writer
  <2> HIDE DEF r
  <2>3. MergeGoes(r)
    BY <2>1, <2>2 DEF MergeGoes, IsWriting
  <2> QED
    BY <2>3 DEF r, out, left
<1>5. \/ q = Return(proc, "failed")
      \/ \E e : q = [proc EXCEPT !.pc = "closing", !.left = Tail(proc.left),
                                 !.out = Append(proc.out, e)]
  BY DEF WriteEntry
<1> HIDE DEF q
<1>6. MergeGoes(q)
  BY <1>3, <1>4, <1>5
<1>7. q = proc' /\ FilesStay
  BY <1>1, DiskUnchanged DEF q
<1> QED
  BY <1>1, <1>6, <1>7, MergeCloses

\* The end of zip_close, whether the file is put in place or not.
EndsWith(p, result) ==
    /\ Closing /\ proc.left = <<>> /\ p \in Ended(proc) /\ proc' = Return(p, result)
    /\ FilesStay /\ script' = script
    /\ result \in {"written", "failed"} /\ (result = "failed" => disk' = disk)

LEMMA EndedIs ==
    ASSUME NEW p \in Ended(proc)
    PROVE  \E pr : /\ p = [proc EXCEPT !.progress = pr]
                   /\ IF proc.progress = NULL THEN pr = NULL ELSE pr \in Progress!End(proc.progress)
BY DEF Ended

LEMMA ToolEnds ==
    ASSUME IInv, proc.program = "ziptool", NEW p, NEW result, EndsWith(p, result)
    PROVE  IInv'
<1> DEFINE q == Return(p, result)
           m == Len(proc.out)
<1>1. /\ InClose /\ proc.pc = "closing" /\ proc.left = <<>> /\ p \in Ended(proc) /\ proc' = q
      /\ FilesStay /\ script' = script
      /\ result \in {"written", "failed"} /\ (result = "failed" => disk' = disk)
      /\ result \in Results
  BY DEF EndsWith, Results, Closing, InClose, IsWriting
<1>2. /\ SameRun(proc) /\ Closes(proc) /\ proc.closed = NULL
      /\ proc.pc = "closing" /\ Writer \subseteq DOMAIN proc
  BY <1>1, ToolInClose DEF SameRun, Fields
<1>3. IsSequence(proc.out) /\ proc.left # NULL /\ <<>> \in Seq(Nat) /\ m \in Nat
  <2>1. IsSequence(proc.out)
    BY <1>2 DEF Closes
  <2>2. m \in Nat
    BY <2>1 DEF IsSequence
  <2>3. <<>> \in Seq(Nat)
    OBVIOUS
  <2>4. proc.left # NULL
    BY <2>3, <1>1, ResultsAssumption
  <2> QED
    BY <2>1, <2>2, <2>3, <2>4
<1>4. PICK pr : /\ p = [proc EXCEPT !.progress = pr]
                /\ IF proc.progress = NULL THEN pr = NULL ELSE pr \in Progress!End(proc.progress)
  BY <1>1, EndedIs
<1>5. /\ SameRun(p) /\ p.left = <<>> /\ p.out = proc.out /\ p.progress = pr
      /\ Writer \subseteq DOMAIN p
  BY <1>1, <1>2, <1>4 DEF SameRun, Fields, Writer
<1>6. q.pc = "closed" /\ q.closed = result /\ q.progress = pr /\ q.left = <<>> /\ q.out = proc.out
  BY <1>5, ReturnIs
<1>7. Len(proc.left) + Len(proc.out) = m /\ Len(<<>>) + m = m
  BY <1>1, <1>3
<1> HIDE DEF q, m
<1>8. ASSUME pr # NULL, m > 0 PROVE Truthful(q)
  <2> DEFINE old == proc.progress
  <2>1. old # NULL /\ pr \in Progress!End(old)
    BY <1>4, <1>8
  <2>2. Truthful(proc)
    BY <2>1, <1>2, <1>3, <1>1, <1>7, <1>8 DEF Closes
  <2>3. /\ old \in ProgressObject /\ Grows(old) /\ old.end = Progress!Whole /\ ~IsAhead(old, m, m)
    <3>1. Begun(proc) = m
      BY <1>1 DEF Begun, m
    <3> QED
      BY <2>2, <3>1, <1>1, <1>2, <1>7 DEF Truthful
  <2> HIDE DEF old
  <2>4. m \in Nat \ {0}
    BY <1>3, <1>8
  <2>5. old.last <= Progress!Whole
    BY <2>3, <2>4, WholeAtMost
  <2>6. pr \in ProgressObject /\ Grows(pr) /\ pr.last = Progress!Whole
    BY <2>1, <2>3, <2>5, EndIs
  <2>7. ~IsAhead(pr, m, m)
    <3> DEFINE W == Progress!Whole
    <3>1. W \in Nat
      BY DEF Progress!Whole
    <3> HIDE DEF W
    <3>2. ~(W * m > m * W)
      BY <3>1, <1>3
    <3> QED
      BY <3>2, <2>6 DEF IsAhead, W
  <2>8. ~IsAhead(pr, Begun(q), Len(q.left) + Len(q.out))
    <3>1. Begun(q) = m /\ Len(q.left) + Len(q.out) = m
      BY <1>6, <1>7 DEF m, Begun
    <3> QED
      BY <3>1, <2>7
  <2>9. q.closed # "cancelled" /\ ~IsWriting(q)
    BY <1>1, <1>6 DEF IsWriting
  <2> QED
    BY <2>6, <2>8, <2>9, <1>6 DEF Truthful
<1>9. SameRun(q) /\ Closes(q) /\ q.closed = result
  <2>1. /\ p.left # NULL /\ p.left \in Seq(Nat) /\ IsSequence(p.out)
        /\ p.progress # NULL /\ Len(p.left) + Len(p.out) > 0 => Truthful(q)
    <3>1. Len(p.left) + Len(p.out) = m
      BY <1>1, <1>5, <1>7 DEF m
    <3> QED
      BY <3>1, <1>1, <1>3, <1>5, <1>8
  <2> QED
    BY <2>1, <1>1, <1>5, ReturnCloses DEF q
<1>10. q.closed \in {NULL, "failed", "cancelled"} => disk' = disk
  BY <1>1, <1>9, ResultsAssumption
<1> QED
  BY <1>1, <1>9, <1>10, ToolCloses

LEMMA MergeEnds ==
    ASSUME IInv, proc.program # "ziptool", NEW p, NEW result, EndsWith(p, result)
    PROVE  IInv'
<1> DEFINE q == Return(p, result)
<1>1. /\ InClose /\ p \in Ended(proc) /\ proc' = q /\ FilesStay /\ script' = script
      /\ result \in {"written", "failed"} /\ (result = "failed" => disk' = disk)
      /\ result \in Results
  BY DEF EndsWith, Results, Closing, InClose, IsWriting
<1>2. Writer \subseteq DOMAIN proc /\ proc.progress = NULL /\ proc.closed = NULL
      /\ IsSequence(proc.out)
  BY <1>1, MergeInClose
<1>3. PICK pr : p = [proc EXCEPT !.progress = pr] /\ pr = NULL
  BY <1>1, <1>2, EndedIs
<1>4. /\ Writer \subseteq DOMAIN p /\ p.program = proc.program /\ p.before = proc.before
      /\ p.progress = NULL /\ p.out = proc.out
  BY <1>2, <1>3 DEF Writer
<1>5. /\ DOMAIN q = DOMAIN p /\ q.pc = "closed" /\ q.closed = result
      /\ q.program = p.program /\ q.before = p.before /\ q.progress = p.progress /\ q.out = p.out
  BY <1>4, ReturnIs
<1>6. q = proc'
  BY <1>1
<1> HIDE DEF q
<1>7. MergeGoes(q)
  BY <1>1, <1>2, <1>4, <1>5 DEF MergeGoes, IsWriting
<1>8. q.closed \in {NULL, "failed", "cancelled"} => disk' = disk
  BY <1>1, <1>5, ResultsAssumption
<1> QED
  BY <1>1, <1>6, <1>7, <1>8, MergeCloses

LEMMA EndsAre ==
    ASSUME IInv, NEW p, NEW result, EndsWith(p, result)
    PROVE  IInv'
BY ToolEnds, MergeEnds

LEMMA CommitIs ==
    ASSUME IInv, Commit
    PROVE  IInv'
<1> DEFINE file == [kind |-> "zip", entries |-> proc.out, comment |-> ArchiveComment(proc.za)]
           path == proc.path
<1>1. /\ Closing /\ proc.left = <<>> /\ script' = script /\ disk' = [disk EXCEPT ![path] = file]
  BY DEF Commit
<1>2. PICK p \in Ended(proc) : proc' = Return(p, "written")
  BY DEF Commit
<1>3. IsFile(file)
  <2>1. IsSequence(proc.out)
    BY <1>1, ToolInClose, MergeInClose DEF Closes, Closing, InClose, IsWriting
  <2> QED
    BY <2>1 DEF IsFile, IsSequence
<1> HIDE DEF file, path
<1>4. FilesStay
  BY <1>1, <1>3, DiskWritten
<1>5. EndsWith(p, "written")
  BY <1>1, <1>2, <1>4 DEF EndsWith
<1> QED
  BY <1>5, EndsAre

LEMMA CommitFailsIs ==
    ASSUME IInv, CommitFails
    PROVE  IInv'
<1>1. Closing /\ proc.left = <<>> /\ script' = script /\ disk' = disk
  BY DEF CommitFails
<1>2. PICK p \in Ended(proc) : proc' = Return(p, "failed")
  BY DEF CommitFails
<1>3. FilesStay
  BY <1>1, DiskUnchanged
<1>4. EndsWith(p, "failed")
  BY <1>1, <1>2, <1>3 DEF EndsWith
<1> QED
  BY <1>4, EndsAre

(***************************************************************************)
(* The theorems.                                                           *)
(***************************************************************************)

LEMMA InitIs ==
    ASSUME Init
    PROVE  IInv
<1>1. PICK s \in Scenarios : disk = s.disk /\ script = s.lines
  BY DEF Init
<1>2. /\ \A path \in DOMAIN s.disk : IsFile(s.disk[path])
      /\ s.lines \in Seq(Range(s.lines))
      /\ \A line \in Range(s.lines) : IsProper(line, DOMAIN s.disk)
  BY ScenariosAssumption
<1>3. proc = NULL
  BY DEF Init
<1> QED
  BY <1>1, <1>2, <1>3 DEF IInv, IsSequence

LEMMA NextIs ==
    ASSUME IInv, [Next]_vars
    PROVE  IInv'
<1>1. CASE UNCHANGED vars
  <2>1. disk' = disk /\ script' = script /\ proc' = proc
    BY <1>1 DEF vars
  <2>2. FilesStay
    BY <2>1, DiskUnchanged
  <2>3. proc' # NULL => script # <<>> /\ Runs(proc', disk')
    BY <2>1 DEF IInv
  <2> QED
    BY <2>1, <2>2, <2>3, OthersStay
<1>2. CASE Touch
  BY <1>2, TouchIs
<1>3. CASE Reap
  BY <1>3, ReapIs
<1>4. CASE CmpStep
  BY <1>4, CmpStepIs
<1>5. CASE MergeStep
  BY <1>5, MergeStepIs
<1>6. CASE CloseStep
  <2>1. CASE WriteEntry
    BY <2>1, ToolWritesEntry, MergeWritesEntry
  <2>2. CASE BeginEntry
    BY <2>2, ToolBeginsEntry, MergeBeginsEntry
  <2> QED
    BY <2>1, <2>2, <1>6, CloseArchiveIs, WriteBufferIs, CommitIs, CommitFailsIs DEF CloseStep
<1>7. CASE ToolStep
  <2>1. CASE \/ ReplaceContents \/ DeleteFile \/ Rename \/ UnchangeOne \/ UnchangeEverything
             \/ SetFileComment \/ SetZipComment \/ SetExtra \/ DeleteExtra \/ SetMethod \/ SetMtime
    BY <2>1, EditsAre
  <2>2. CASE AddData \/ AddFile \/ AddFromZip \/ SetFlag \/ SetMtimeAll
    BY <2>2, AddDataIs, AddFileIs, AddFromZipIs, SetFlagIs, SetMtimeAllIs
  <2>3. CASE WatchProgress \/ Look \/ Cat \/ ExtractAs \/ ZinClose
    BY <2>3, WatchProgressIs, LookIs, CatIs, ExtractAsIs, ZinCloseIs
  <2>4. CASE StartTool \/ CloseAll \/ ExitTool
    BY <2>4, StartToolIs, CloseAllIs, ExitToolIs
  <2> QED
    BY <2>1, <2>2, <2>3, <2>4, <1>7 DEF ToolStep
<1> QED
  BY <1>1, <1>2, <1>3, <1>4, <1>5, <1>6, <1>7 DEF Next, ProgramStep

\* What a process of ziptool reports is true.
LEMMA TruthIs ==
    ASSUME NEW p, Truthful(p), NEW n, n = Len(p.left) + Len(p.out), n \in Nat, Len(p.out) \in Nat
    PROVE  LET pr == p.progress
           IN /\ pr.shown # <<>> => Head(pr.shown) = 0
              /\ \A i, j \in DOMAIN pr.shown : i < j => pr.shown[i] < pr.shown[j]
              /\ Progress!Reported(pr) * n <= Begun(p) * Progress!Whole
              /\ p.closed = "written" => Progress!Reported(pr) = Progress!Whole
              /\ p.closed = "cancelled" => Progress!Cancels(pr)
              /\ \A i \in DOMAIN pr.shown : pr.shown[i] >= pr.limit =>
                   p.closed = "cancelled" \/ p.left = <<>>
<1> DEFINE pr == p.progress
           shown == pr.shown
           last == pr.last
           m == Begun(p)
           W == Progress!Whole
<1>1. /\ pr \in ProgressObject /\ Grows(pr) /\ ~(last * n > m * W)
      /\ p.closed = "written" => last = W
      /\ p.closed = "cancelled" => last >= pr.limit
      /\ p.closed = "cancelled" \/ p.left = <<>> \/ last < pr.limit
  BY DEF Truthful, IsAhead
<1>2. /\ shown \in Seq(Int) /\ last \in Int /\ pr.limit \in Int /\ W \in Nat
  BY <1>1, ObjectFields DEF Progress!Whole
<1>9. m \in Nat
  BY DEF Begun
<1>3. Progress!Reported(pr) = last /\ (Progress!Cancels(pr) <=> last >= pr.limit)
  BY <1>1, ReportedIs
<1>4. /\ shown # <<>> /\ shown[1] = 0 /\ shown[Len(shown)] = last
      /\ \A i, j \in 1 .. Len(shown) : i < j => shown[i] < shown[j]
  BY <1>1 DEF Grows
<1> HIDE DEF last, m, W, shown
<1>5. last * n <= m * W
  <2> DEFINE a == last * n
             b == m * W
  <2>1. a \in Int /\ b \in Int
    BY <1>2, <1>9
  <2>2. ~(a > b)
    BY <1>1 DEF last, m, W, pr
  <2> HIDE DEF a, b
  <2>3. a <= b
    BY <2>1, <2>2
  <2> QED
    BY <2>3 DEF a, b
<1>6. Len(shown) \in Nat /\ DOMAIN shown = 1 .. Len(shown) /\ Head(shown) = shown[1]
  BY <1>2, <1>4
<1>7. ASSUME NEW i \in DOMAIN shown PROVE shown[i] \in Int /\ shown[i] <= last
  <2>1. i = Len(shown) \/ i < Len(shown)
    BY <1>6
  <2>2. Len(shown) \in 1 .. Len(shown)
    BY <1>6
  <2>3. shown[i] \in Int
    BY <1>2, <1>6
  <2>4. CASE i = Len(shown)
    BY <2>3, <2>4, <1>2, <1>4
  <2>5. CASE i < Len(shown)
    <3>1. shown[i] < shown[Len(shown)]
      BY <2>2, <2>5, <1>4, <1>6
    <3> QED
      BY <3>1, <2>3, <1>2, <1>4
  <2> QED
    BY <2>1, <2>4, <2>5
<1>8. ASSUME NEW i \in DOMAIN shown, shown[i] >= pr.limit
      PROVE  p.closed = "cancelled" \/ p.left = <<>>
  <2>1. shown[i] \in Int /\ shown[i] <= last
    BY <1>7
  <2>2. ~(last < pr.limit)
    BY <2>1, <1>2, <1>8
  <2> QED
    BY <2>2, <1>1
<1> QED
  BY <1>1, <1>3, <1>4, <1>5, <1>6, <1>8 DEF shown, m, W

LEMMA InvariantTellsTheTruth ==
    ASSUME IInv
    PROVE  ProgressTellsTheTruth
<1> DEFINE pr == proc.progress
           n == Len(proc.left) + Len(proc.out)
<1>1. SUFFICES ASSUME proc # NULL, proc.program = "ziptool", proc.left # NULL, pr # NULL, n > 0
      PROVE  /\ pr.shown # <<>> => Head(pr.shown) = 0
             /\ \A i, j \in DOMAIN pr.shown : i < j => pr.shown[i] < pr.shown[j]
             /\ Progress!Reported(pr) * n <= Begun(proc) * Progress!Whole
             /\ proc.closed = "written" => Progress!Reported(pr) = Progress!Whole
             /\ proc.closed = "cancelled" => /\ Progress!Cancels(pr)
                                             /\ disk[proc.path] = proc.before[proc.line.path]
             /\ \A i \in DOMAIN pr.shown : pr.shown[i] >= pr.limit =>
                  proc.closed = "cancelled" \/ proc.left = <<>>
  BY DEF ProgressTellsTheTruth, Begun
<1>2. ToolRuns(proc, disk)
  BY <1>1 DEF IInv, Runs
<1>3. /\ Truthful(proc) /\ proc.left \in Seq(Nat) /\ IsSequence(proc.out)
      /\ proc.closed = "cancelled" => disk[proc.path] = proc.before[proc.line.path]
  BY <1>1, <1>2 DEF ToolRuns
<1>4. Len(proc.left) \in Nat /\ Len(proc.out) \in Nat /\ n \in Nat
  <2>1. Len(proc.left) \in Nat
    BY <1>3
  <2>2. Len(proc.out) \in Nat
    BY <1>3 DEF IsSequence
  <2>3. \A a, b \in Nat : a + b \in Nat
    OBVIOUS
  <2> QED
    BY <2>1, <2>2, <2>3
<1> DEFINE m == n
<1>5. m = Len(proc.left) + Len(proc.out) /\ m \in Nat
  BY <1>4
<1> HIDE DEF m
<1>6. /\ pr.shown # <<>> => Head(pr.shown) = 0
      /\ \A i, j \in DOMAIN pr.shown : i < j => pr.shown[i] < pr.shown[j]
      /\ Progress!Reported(pr) * m <= Begun(proc) * Progress!Whole
      /\ proc.closed = "written" => Progress!Reported(pr) = Progress!Whole
      /\ proc.closed = "cancelled" => Progress!Cancels(pr)
      /\ \A i \in DOMAIN pr.shown : pr.shown[i] >= pr.limit =>
           proc.closed = "cancelled" \/ proc.left = <<>>
  BY <1>3, <1>4, <1>5, TruthIs
<1> HIDE DEF pr, n
<1>7. m = n
  BY DEF m
<1> QED
  BY <1>3, <1>6, <1>7 DEF pr

\* The inductive invariant: the files are files that programs write, and the
\* program that runs is in one of the states above.
THEOREM IInvHolds == Spec => []IInv
<1>1. Init => IInv
  BY InitIs
<1>2. IInv /\ [Next]_vars => IInv'
  BY NextIs
<1>3. Spec => Init /\ [][Next]_vars
  BY PTL DEF Spec
<1> QED
  BY <1>1, <1>2, <1>3, PTL

\* What ziptool is told of the progress of zip_close is true and a callback that
\* says stop is obeyed, for every archive, any commands, limit, failure and
\* number of reports for the data of an entry (_zip_progress_update,
\* _zip_progress_subrange, _zip_progress_end, zip_close).
THEOREM ProgressIsTrue == Spec => []ProgressTellsTheTruth
<1>1. IInv => ProgressTellsTheTruth
  BY InvariantTellsTheTruth
<1> QED
  BY <1>1, IInvHolds, PTL

\* A merge that exits with status 1 has changed no file at all, and an archive
\* that ziptool could not open, or not close, or that a callback cancelled, is
\* as it was, and the exit status says so (main of zipmerge.c and ziptool.c).
THEOREM ArchivesAreLeft == Spec => []FailuresLeaveArchives
<1>1. IInv => FailuresLeaveArchives
  <2>1. SUFFICES ASSUME IInv, proc # NULL, proc.pc = "exited"
        PROVE  /\ proc.program = "zipmerge" /\ proc.status = 1 => disk = proc.before
               /\ proc.program = "ziptool" /\ proc.closed \in {NULL, "failed", "cancelled"} =>
                    disk[proc.path] = proc.before[proc.line.path] /\ proc.status = 1
    BY DEF FailuresLeaveArchives
  <2>2. Runs(proc, disk)
    BY <2>1 DEF IInv
  <2>3. ASSUME proc.program = "zipmerge", proc.status = 1 PROVE disk = proc.before
    BY <2>1, <2>2, <2>3 DEF Runs, MergeRuns
  <2>4. ASSUME proc.program = "ziptool", proc.closed \in {NULL, "failed", "cancelled"}
        PROVE  disk[proc.path] = proc.before[proc.line.path] /\ proc.status = 1
    BY <2>1, <2>2, <2>4 DEF Runs, ToolRuns
  <2> QED
    BY <2>3, <2>4
<1> QED
  BY <1>1, IInvHolds, PTL
=============================================================================
