--------------------------- MODULE ZipCloseProofs ---------------------------
(***************************************************************************)
(* Proofs about zip_close (ZipClose): whatever it keeps by cloning, copies *)
(* or compresses anew, every entry of the directory that it writes leads   *)
(* to the data that the program saw.  First what FileAt finds, then the    *)
(* cells that cloning keeps, then one step per call and per step of        *)
(* zip_close.                                                              *)
(***************************************************************************)
EXTENDS ZipClose, SequenceTheorems, FiniteSetTheorems, TLAPS

USE NullAssumption, LengthAssumption, SourcesAssumption, BoundAssumption

Cells == Gaps \cup (Files \X Methods \X Nat)

(***************************************************************************)
(* What a directory entry leads to.                                        *)
(***************************************************************************)

LEMMA OrigIsDirent == OrigDirents \subseteq Dirents
BY DEF OrigDirents, Dirents

LEMMA FunctionIsSequence ==
    ASSUME NEW S, NEW n \in Nat, NEW s \in [1..n -> S]
    PROVE  s \in Seq(S) /\ Len(s) = n
OBVIOUS

\* The cells of a file.
LEMMA StoredIs ==
    ASSUME NEW f \in Files, NEW m \in Methods
    PROVE  /\ Length[f, m] \in Nat
           /\ Stored(f, m) \in Seq(Cells) /\ Len(Stored(f, m)) = Length[f, m] + 1
           /\ \A k \in 1..(Length[f, m] + 1) : Stored(f, m)[k] = <<f, m, k - 1>>
<1> DEFINE n == Length[f, m]
<1>0. n \in Nat
  <2>1. <<f, m>> \in Files \X Methods
    OBVIOUS
  <2>2. QED
    BY <2>1
<1>2. Stored(f, m) = [k \in 1..(n + 1) |-> <<f, m, k - 1>>]
  BY DEF Stored
<1> HIDE DEF n
<1>3. \A k \in 1..(n + 1) : <<f, m, k - 1>> \in Cells
  <2>1. ASSUME NEW k \in 1..(n + 1)
        PROVE  k - 1 \in Nat
    BY <1>0
  <2>2. \A k \in 1..(n + 1) : <<f, m, k - 1>> \in Files \X Methods \X Nat
    BY <2>1
  <2>3. QED
    BY <2>2 DEF Cells
<1>4. Stored(f, m) \in [1..(n + 1) -> Cells] /\ n + 1 \in Nat
  BY <1>0, <1>2, <1>3
<1>5. Stored(f, m) \in Seq(Cells) /\ Len(Stored(f, m)) = n + 1
  BY <1>4, FunctionIsSequence
<1>6. \A k \in 1..(n + 1) : Stored(f, m)[k] = <<f, m, k - 1>>
  BY <1>2
<1>7. QED
  BY <1>0, <1>5, <1>6, Zenon DEF n

\* The cells that FileAt compares are the cells of the file.
Leads(cells, d, f) ==
    /\ Length[f, d.comp_method] = d.comp_size
    /\ \A n \in 1..(d.comp_size + 1) :
          d.offset + n \in DOMAIN cells /\ cells[d.offset + n] = <<f, d.comp_method, n - 1>>

LEMMA LeadsIs ==
    ASSUME NEW cells, NEW d \in Dirents, NEW f \in Files
    PROVE  Leads(cells, d, f) <=>
             /\ Length[f, d.comp_method] = d.comp_size
             /\ Extent(d) \subseteq DOMAIN cells
             /\ \A k \in Extent(d) : cells[k] = Stored(f, d.comp_method)[k - d.offset]
<1> DEFINE o == d.offset
           m == d.comp_method
           s == d.comp_size
<1>1. o \in Nat /\ s \in Nat /\ m \in Methods
  BY DEF Dirents
<1>2. Extent(d) = (o + 1) .. (o + 1 + s)
  BY DEF Extent
<1>3. Length[f, m] = s => \A k \in 1..(s + 1) : Stored(f, m)[k] = <<f, m, k - 1>>
  BY <1>1, StoredIs
<1>4. ASSUME Leads(cells, d, f), NEW k \in Extent(d)
      PROVE  k \in DOMAIN cells /\ cells[k] = Stored(f, m)[k - o]
  <2>1. k - o \in 1..(s + 1) /\ o + (k - o) = k
    BY <1>1, <1>2
  <2> HIDE DEF o, m, s
  <2>2. o + (k - o) \in DOMAIN cells /\ cells[o + (k - o)] = <<f, m, (k - o) - 1>> /\ Length[f, m] = s
    BY <1>4, <2>1 DEF Leads, o, m, s
  <2>3. QED
    BY <1>3, <2>1, <2>2
<1>5. ASSUME Length[f, m] = s, Extent(d) \subseteq DOMAIN cells,
             \A k \in Extent(d) : cells[k] = Stored(f, m)[k - o],
             NEW n \in 1..(s + 1)
      PROVE  o + n \in DOMAIN cells /\ cells[o + n] = <<f, m, n - 1>>
  <2>1. o + n \in Extent(d) /\ (o + n) - o = n
    BY <1>1, <1>2
  <2>2. QED
    BY <1>3, <1>5, <2>1
<1>6. Leads(cells, d, f) => Length[f, m] = s
  BY DEF Leads
<1>7. QED
  BY <1>4, <1>5, <1>6 DEF Leads

\* FileAt finds the file that the entry leads to, and nothing else.
LEMMA FileAtFacts ==
    ASSUME NEW cells, NEW d \in Dirents
    PROVE  /\ FileAt(cells, d) \in Files \cup {NULL}
           /\ FileAt(cells, d) # NULL => Leads(cells, d, FileAt(cells, d))
           /\ \A f \in Files : Leads(cells, d, f) => FileAt(cells, d) = f
<1> DEFINE found == {f \in Files : Leads(cells, d, f)}
<1>1. FileAt(cells, d) = IF found = {} THEN NULL ELSE CHOOSE f \in found : TRUE
  <2>1. found = {f \in Files :
                    /\ Length[f, d.comp_method] = d.comp_size
                    /\ Extent(d) \subseteq DOMAIN cells
                    /\ \A k \in Extent(d) :
                          cells[k] = Stored(f, d.comp_method)[k - d.offset]}
    BY LeadsIs
  <2>2. FileAt(cells, d) =
          LET set == {f \in Files :
                    /\ Length[f, d.comp_method] = d.comp_size
                    /\ Extent(d) \subseteq DOMAIN cells
                    /\ \A k \in Extent(d) :
                          cells[k] = Stored(f, d.comp_method)[k - d.offset]}
          IN  IF set = {} THEN NULL ELSE CHOOSE f \in set : TRUE
    BY DEF FileAt
  <2> HIDE DEF found
  <2>3. QED
    BY <2>1, <2>2, Zenon
<1>2. ASSUME NEW f \in found, NEW g \in found
      PROVE  f = g
  <2>1. d.comp_size + 1 \in Nat /\ 1 \in 1..(d.comp_size + 1)
    BY DEF Dirents
  <2>2. cells[d.offset + 1] = <<f, d.comp_method, 1 - 1>> /\ cells[d.offset + 1] = <<g, d.comp_method, 1 - 1>>
    BY <2>1 DEF Leads
  <2>3. QED
    BY <2>2
<1>3. \A f \in found : f \in Files /\ f # NULL /\ Leads(cells, d, f)
  OBVIOUS
<1>4. \A f \in Files : Leads(cells, d, f) => f \in found
  OBVIOUS
<1> HIDE DEF found
<1>5. found # {} => (CHOOSE f \in found : TRUE) \in found
  OBVIOUS
<1>6. QED
  BY <1>1, <1>2, <1>3, <1>4, <1>5

\* Cells that are found at another place, or in a longer file, lead to the same.
LEMMA FileAtSame ==
    ASSUME NEW cells, NEW d \in Dirents, NEW cells2, NEW d2 \in Dirents,
           FileAt(cells, d) # NULL,
           d2.comp_method = d.comp_method, d2.comp_size = d.comp_size,
           \A n \in 1..(d.comp_size + 1) :
              d2.offset + n \in DOMAIN cells2 /\ cells2[d2.offset + n] = cells[d.offset + n]
    PROVE  FileAt(cells2, d2) = FileAt(cells, d)
<1> DEFINE f == FileAt(cells, d)
<1>1. f \in Files /\ Leads(cells, d, f)
  BY FileAtFacts
<1> HIDE DEF f
<1>2. Leads(cells2, d2, f)
  BY <1>1 DEF Leads
<1>3. QED
  BY <1>1, <1>2, FileAtFacts DEF f

LEMMA Shifted ==
    ASSUME NEW l \in Nat, NEW z \in Nat, NEW n \in 1..(z + 1)
    PROVE  l + n \in 1..(l + (z + 1)) /\ ~(l + n <= l) /\ (l + n) - l = n
OBVIOUS

LengthOf(f, m) == Length[f, m]

\* A new file is found where it is written.
LEMMA FileAtNew ==
    ASSUME NEW cells \in Seq(Cells), NEW f \in Files, NEW d \in Dirents,
           d.offset = Len(cells), d.comp_size = LengthOf(f, d.comp_method)
    PROVE  FileAt(cells \o Stored(f, d.comp_method), d) = f
<1> DEFINE s == Stored(f, d.comp_method)
           c == cells \o s
<1>1. /\ s \in Seq(Cells) /\ Len(s) = d.comp_size + 1 /\ d.comp_size \in Nat
      /\ \A k \in 1..(d.comp_size + 1) : s[k] = <<f, d.comp_method, k - 1>>
  BY StoredIs DEF Dirents, LengthOf
<1> HIDE DEF s
<1>2. ASSUME NEW n \in 1..(d.comp_size + 1)
      PROVE  d.offset + n \in DOMAIN c /\ c[d.offset + n] = <<f, d.comp_method, n - 1>>
  <2>1. /\ Len(c) = Len(cells) + Len(s) /\ c \in Seq(Cells)
        /\ Len(cells) \in Nat
        /\ \A k \in 1..(Len(cells) + Len(s)) : c[k] = IF k <= Len(cells) THEN cells[k] ELSE s[k - Len(cells)]
    BY <1>1, ConcatProperties, LenProperties
  <2>2. DOMAIN c = 1..(Len(cells) + Len(s))
    BY <2>1, LenProperties
  <2> HIDE DEF c
  <2> DEFINE o == d.offset
             z == d.comp_size
  <2>0. o = Len(cells) /\ n \in 1..(z + 1) /\ Len(s) = z + 1 /\ z \in Nat
    BY <1>1
  <2> HIDE DEF o, z
  <2>3. o + n \in 1..(Len(cells) + Len(s)) /\ ~(o + n <= Len(cells)) /\ (o + n) - Len(cells) = n
    BY <2>0, <2>1, Shifted
  <2>4. s[n] = <<f, d.comp_method, n - 1>>
    BY <1>1, <2>0 DEF z
  <2>5. o + n \in DOMAIN c /\ c[o + n] = <<f, d.comp_method, n - 1>>
    BY <2>1, <2>2, <2>3, <2>4
  <2>6. QED
    BY <2>5 DEF o
<1>3. Leads(c, d, f)
  BY <1>2, Zenon DEF Leads, LengthOf
<1>4. FileAt(c, d) = f
  BY <1>3, FileAtFacts
<1>5. QED
  BY <1>4 DEF s

\* What is appended changes nothing of what is found.
LEMMA FileAtGrows ==
    ASSUME NEW cells \in Seq(Cells), NEW more \in Seq(Cells), NEW d \in Dirents,
           FileAt(cells, d) # NULL
    PROVE  FileAt(cells \o more, d) = FileAt(cells, d)
<1> DEFINE c == cells \o more
<1>1. /\ Len(c) = Len(cells) + Len(more) /\ c \in Seq(Cells)
      /\ Len(cells) \in Nat /\ Len(more) \in Nat
      /\ \A k \in 1..(Len(cells) + Len(more)) : c[k] = IF k <= Len(cells) THEN cells[k] ELSE more[k - Len(cells)]
  BY ConcatProperties, LenProperties
<1>2. DOMAIN c = 1..(Len(cells) + Len(more)) /\ DOMAIN cells = 1..Len(cells)
  BY <1>1, LenProperties
<1> HIDE DEF c
<1>3. \A k \in DOMAIN cells : k \in DOMAIN c /\ c[k] = cells[k]
  BY <1>1, <1>2
<1>4. \A n \in 1..(d.comp_size + 1) : d.offset + n \in DOMAIN cells
  BY FileAtFacts DEF Leads
<1>5. \A n \in 1..(d.comp_size + 1) : d.offset + n \in DOMAIN c /\ c[d.offset + n] = cells[d.offset + n]
  BY <1>3, <1>4
<1>6. FileAt(c, d) = FileAt(cells, d)
  BY <1>5, FileAtSame
<1>7. QED
  BY <1>6 DEF c

\* Two directory entries of one archive lead to the same file or to files that
\* are apart: the first cell of a file is a local header.
LEMMA FilesApart ==
    ASSUME NEW cells, NEW d \in Dirents, NEW e \in Dirents,
           FileAt(cells, d) # NULL, FileAt(cells, e) # NULL
    PROVE  /\ d.offset < e.offset => d.offset + 1 + d.comp_size <= e.offset
           /\ d.offset = e.offset => d.comp_size = e.comp_size
<1> DEFINE f == FileAt(cells, d)
           g == FileAt(cells, e)
<1>0. /\ d.offset \in Nat /\ d.comp_size \in Nat /\ e.offset \in Nat /\ e.comp_size \in Nat
      /\ Leads(cells, d, f) /\ Leads(cells, e, g)
  BY FileAtFacts DEF Dirents
<1> HIDE DEF f, g
<1>1. cells[e.offset + 1] = <<g, e.comp_method, 0>>
  <2>1. 1 \in 1..(e.comp_size + 1) /\ 1 - 1 = 0
    BY <1>0
  <2>2. cells[e.offset + 1] = <<g, e.comp_method, 1 - 1>>
    BY <1>0, <2>1 DEF Leads
  <2>3. QED
    BY <2>1, <2>2
<1>2. ASSUME d.offset < e.offset, ~(d.offset + 1 + d.comp_size <= e.offset)
      PROVE  FALSE
  <2> DEFINE n == e.offset + 1 - d.offset
  <2>1. n \in 1..(d.comp_size + 1) /\ d.offset + n = e.offset + 1 /\ n - 1 # 0
    BY <1>0, <1>2
  <2>2. cells[d.offset + n] = <<f, d.comp_method, n - 1>>
    BY <1>0, <2>1 DEF Leads
  <2>3. QED
    BY <1>1, <2>1, <2>2
<1>3. ASSUME d.offset = e.offset
      PROVE  d.comp_size = e.comp_size
  <2>1. 1 \in 1..(d.comp_size + 1) /\ 1 - 1 = 0
    BY <1>0
  <2>2. cells[d.offset + 1] = <<f, d.comp_method, 1 - 1>>
    BY <1>0, <2>1 DEF Leads
  <2>3. f = g /\ d.comp_method = e.comp_method
    BY <1>1, <1>3, <2>1, <2>2
  <2>4. QED
    BY <1>0, <2>3 DEF Leads
<1>4. QED
  BY <1>0, <1>2, <1>3

(***************************************************************************)
(* The inductive invariant.                                                *)
(***************************************************************************)

Closing == pc # "idle"

Torrent(f) == f # NULL /\ f.torrentzip

\* The states of the archive that any sequence of calls can reach.
Typed ==
    /\ file = NULL \/ file \in Archives
    /\ is_open \in BOOLEAN /\ can_clone \in BOOLEAN /\ stale \in BOOLEAN
    /\ entry \in Seq(Entries)
    /\ pc \in {"idle", "prepare", "write"}
    /\ out \in Seq(Cells)
    /\ IsTorrentzip => is_open /\ Torrent(file)
    /\ ~is_open => pc = "idle" /\ entry = <<>> /\ ~stale

\* Every original of an open archive leads to a file, and is deflated in a
\* torrentzip archive.
Original(d) ==
    /\ file \in Archives
    /\ FileAt(file.cells, d) # NULL
    /\ IsTorrentzip => d.comp_method = "DEFLATE"

OriginalsOK == \A i \in Indices : Entry(i).orig # NULL => Original(Entry(i).orig)

\* The entry has neither new data nor another method.
OldData(e) == e.source = NULL /\ e.orig # NULL /\ ~MethodChanged(e)

\* Its directory entry then has the size of the original.
SizeKept(e) == OldData(e) /\ e.changes # NULL => e.changes.comp_size = e.orig.comp_size

\* A directory entry without marks exists while zip_close runs only.
Marked(e) == e.changes # NULL => e.changes.changed # {}

\* Between calls, as long as no zip_close has failed that could leave more.
EntriesKept ==
    ~Closing /\ ~stale => \A i \in Indices :
        SizeKept(Entry(i)) /\ (can_clone => Marked(Entry(i)))

\* zip_close works on a list of different entries.
FilelistOK ==
    Closing =>
        /\ is_open
        /\ filelist \in Seq(Indices)
        /\ \A a, b \in DOMAIN filelist : filelist[a] = filelist[b] => a = b
        /\ j \in 1..(Len(filelist) + 1)
        /\ pc = "write" => j <= Len(filelist)
        /\ unchanged_offset \in Nat
        /\ unchanged_offset > 0 => can_clone /\ ~WantTorrentzip

\* The entries of the list that are to be looked at, and those that are done.
ToDo == {k \in DOMAIN filelist : k > j \/ (k = j /\ pc = "prepare")}
Done == {k \in DOMAIN filelist : k < j}

Listed(k) == Entry(filelist[k])

\* The entries in the cloned part are as they were, and their data is there.
ClonedOK(e) ==
    e.orig # NULL /\ e.orig.offset < unchanged_offset =>
        /\ e.changes = NULL /\ e.source = NULL
        /\ FileAt(out, e.orig) = FileAt(file.cells, e.orig)

\* The entry that is about to be written.
PreparedOK(e) ==
    /\ e.changes # NULL /\ e.changes.offset = Len(out)
    /\ WantTorrentzip => e.changes.comp_method = "DEFLATE"
    /\ OldData(e) /\ ~WantTorrentzip => e.changes.comp_method = e.orig.comp_method

\* All of a torrentzip archive that is done is deflated.
DeflatedOK ==
    Closing =>
        /\ WantTorrentzip => \A k \in Done : CentralEntry(Listed(k)).comp_method = "DEFLATE"
        /\ pc = "write" => PreparedOK(Listed(j))
        /\ \A k \in Done : CentralEntry(Listed(k)) # NULL

\* What is to be written, what is written, and what a failure leaves.
ViewOK ==
    Closing /\ ~stale =>
        /\ view = [k \in DOMAIN filelist |-> Seen(Listed(k))]
        /\ \A k \in ToDo : ClonedOK(Listed(k)) /\ SizeKept(Listed(k))
        /\ pc = "write" => SizeKept(Listed(j))
        /\ \A k \in Done : FileAt(out, CentralEntry(Listed(k))) = view[k] /\ view[k] # NULL
        /\ ~WantTorrentzip => \A i \in Indices : SizeKept(Entry(i))

CloseInv ==
    /\ Typed /\ OriginalsOK /\ EntriesKept
    /\ FilelistOK /\ DeflatedOK /\ ViewOK

(***************************************************************************)
(* The cells that cloning keeps.                                           *)
(***************************************************************************)

LEMMA LeastExists ==
    ASSUME NEW T \in SUBSET Nat, T # {}
    PROVE  \E x \in T : \A y \in T : x <= y
<1> DEFINE R == StrictSubsetOrdering(Nat)
           D == {0..x : x \in T}
<1>1. \A x \in T : 0..x \in FiniteSubsetsOf(Nat)
  BY FS_Interval DEF FiniteSubsetsOf
<1>2. D \subseteq FiniteSubsetsOf(Nat) /\ D # {}
  BY <1>1
<1>3. PICK s \in D : \A t \in D : <<t, s>> \notin R
  <2>1. IsWellFoundedOn(R, FiniteSubsetsOf(Nat))
    BY FS_StrictSubsetOrderingWellFounded
  <2> HIDE DEF R, D
  <2>2. QED
    BY <1>2, <2>1, WFMin
<1>4. PICK x \in T : s = 0..x
  OBVIOUS
<1>5. ASSUME NEW y \in T, y < x
      PROVE  FALSE
  <2>1. 0..y \subseteq 0..x /\ 0..y # 0..x /\ 0..y \in SUBSET Nat /\ 0..x \in SUBSET Nat
    BY <1>5
  <2>2. <<0..y, s>> \in R
    BY <1>4, <2>1 DEF StrictSubsetOrdering
  <2>3. QED
    BY <1>3, <2>2
<1>6. QED
  BY <1>5

LEMMA MinIs ==
    ASSUME NEW T \in SUBSET Nat, T # {}
    PROVE  Min(T) \in T /\ \A y \in T : Min(T) <= y
BY LeastExists DEF Min

LEMMA MaxIs ==
    ASSUME NEW b \in Nat, NEW T \in SUBSET (0..b), T # {}
    PROVE  Max(T) \in T /\ \A y \in T : Max(T) >= y
<1> DEFINE U == {b - x : x \in T}
<1>1. U \in SUBSET Nat /\ U # {}
  <2>1. \A x \in T : x \in 0..b /\ b - x \in Nat
    OBVIOUS
  <2>2. QED
    BY <2>1
<1>2. PICK u \in U : \A v \in U : u <= v
  <2> HIDE DEF U
  <2>1. QED
    BY <1>1, LeastExists
<1>3. PICK x \in T : u = b - x
  BY <1>2
<1>4. \A y \in T : x >= y
  <2>1. ASSUME NEW y \in T
        PROVE  x >= y
    <3>1. b - y \in U /\ y \in 0..b /\ x \in 0..b
      OBVIOUS
    <3>2. b - x <= b - y
      BY <1>2, <1>3, <3>1
    <3>3. QED
      BY <3>1, <3>2
  <2>2. QED
    BY <2>1
<1>5. QED
  BY <1>4 DEF Max

LEMMA MaxOfInterval ==
    ASSUME NEW a \in Nat, NEW z \in Nat
    PROVE  Max(a + 1 .. a + 1 + z) = a + 1 + z
<1>1. a + 1 + z \in a + 1 .. a + 1 + z /\ \A y \in a + 1 .. a + 1 + z : a + 1 + z >= y
  OBVIOUS
<1>2. \A x \in a + 1 .. a + 1 + z : x >= a + 1 + z => x = a + 1 + z
  OBVIOUS
<1>3. QED
  BY <1>1, <1>2 DEF Max

\* A file that lies before the cut stays where it is.
LEMMA FileAtCut ==
    ASSUME NEW cells \in Seq(Cells), NEW d \in Dirents, NEW n \in 1..Len(cells),
           FileAt(cells, d) # NULL, d.offset + 1 + d.comp_size <= n
    PROVE  FileAt(SubSeq(cells, 1, n), d) = FileAt(cells, d)
<1> DEFINE c == SubSeq(cells, 1, n)
<1>1. /\ Len(cells) \in Nat /\ n \in Nat
      /\ \A k \in 1..Len(cells) : cells[k] \in Cells
  BY LenProperties, ElementOfSeq
<1>2. c \in Seq(Cells) /\ Len(c) = n /\ \A k \in 1..n : c[k] = cells[k]
  <2>1. 1 \in Int /\ n \in Int /\ \A k \in 1..n : cells[k] \in Cells
    BY <1>1
  <2>2. /\ c \in Seq(Cells)
        /\ Len(c) = IF 1 <= n THEN n - 1 + 1 ELSE 0
        /\ \A k \in 1..n - 1 + 1 : c[k] = cells[1 + k - 1]
    <3> HIDE DEF Cells
    <3>1. QED
      BY <2>1, SubSeqProperties
  <2> HIDE DEF c
  <2>3. n - 1 + 1 = n /\ 1 <= n /\ \A k \in 1..n : 1 + k - 1 = k
    BY <1>1
  <2>4. QED
    BY <2>2, <2>3
<1>3. DOMAIN c = 1..n
  BY <1>2, LenProperties
<1> HIDE DEF c
<1>4. \A k \in 1..(d.comp_size + 1) : d.offset + k \in 1..n
  BY <1>1 DEF Dirents
<1>5. \A k \in 1..(d.comp_size + 1) : d.offset + k \in DOMAIN c /\ c[d.offset + k] = cells[d.offset + k]
  BY <1>2, <1>3, <1>4
<1>6. FileAt(c, d) = FileAt(cells, d)
  BY <1>5, FileAtSame
<1>7. QED
  BY <1>6 DEF c

\* A file that is found ends within the archive.
LEMMA FileAtFits ==
    ASSUME NEW cells \in Seq(Cells), NEW d \in Dirents, FileAt(cells, d) # NULL
    PROVE  d.offset + 1 + d.comp_size <= Len(cells)
<1>1. d.offset \in Nat /\ d.comp_size \in Nat /\ Len(cells) \in Nat /\ DOMAIN cells = 1..Len(cells)
  BY LenProperties DEF Dirents
<1>2. \A n \in 1..(d.comp_size + 1) : d.offset + n \in DOMAIN cells
  BY FileAtFacts DEF Leads
<1>3. d.offset + (d.comp_size + 1) \in DOMAIN cells
  BY <1>1, <1>2
<1>4. QED
  BY <1>1, <1>3

LEMMA EntryTyped ==
    ASSUME Typed, NEW i \in Indices
    PROVE  Entry(i) \in Entries /\ i + 1 \in 1..Len(entry) /\ i \in Nat /\ Len(entry) \in Nat
<1>1. entry \in Seq(Entries) /\ Len(entry) \in Nat
  BY LenProperties DEF Typed
<1>2. i + 1 \in 1..Len(entry) /\ i \in Nat
  BY <1>1 DEF Indices
<1>3. QED
  BY <1>1, <1>2, ElementOfSeq DEF Entry

LEMMA OriginalTyped ==
    ASSUME Typed, OriginalsOK, NEW i \in Indices, Entry(i).orig # NULL
    PROVE  /\ Entry(i).orig \in Dirents /\ Entry(i).orig \in OrigDirents
           /\ Original(Entry(i).orig)
           /\ file.cells \in Seq(Cells)
           /\ Entry(i).orig.offset \in Nat /\ Entry(i).orig.comp_size \in Nat
           /\ Entry(i).orig.offset + 1 + Entry(i).orig.comp_size <= Len(file.cells)
<1> DEFINE d == Entry(i).orig
<1>1. d \in OrigDirents /\ d \in Dirents
  BY EntryTyped, OrigIsDirent DEF Entries
<1>2. Original(d)
  BY DEF OriginalsOK
<1>3. file.cells \in Seq(Cells) /\ FileAt(file.cells, d) # NULL
  BY <1>2 DEF Original, Archives, Cells
<1> HIDE DEF d
<1>4. d.offset + 1 + d.comp_size <= Len(file.cells) /\ d.offset \in Nat /\ d.comp_size \in Nat
  BY <1>1, <1>3, FileAtFits DEF Dirents
<1>5. QED
  BY <1>1, <1>2, <1>3, <1>4 DEF d

\* The part that stays in place ends where a file begins or where the last one
\* ends, and none of the entries in it has changes.
LEMMA KeptByCloning ==
    ASSUME Typed, OriginalsOK, UnchangedOffset # 0
    PROVE  /\ can_clone /\ ~WantTorrentzip /\ file \in Archives
           /\ UnchangedOffset \in 1..Len(file.cells)
           /\ \A i \in Indices :
                Entry(i).orig # NULL /\ Entry(i).orig.offset < UnchangedOffset =>
                    /\ ~HasChanges(Entry(i))
                    /\ Entry(i).orig.offset + 1 + Entry(i).orig.comp_size <= UnchangedOffset
<1> DEFINE Offset(i) == Entry(i).orig.offset
           End(i) == Entry(i).orig.offset + 1 + Entry(i).orig.comp_size
           old == {i \in Indices : Entry(i).orig # NULL}
           new == {i \in Indices : HasChanges(Entry(i))}
           C == OrigOffsets(new)
           O == OrigOffsets(Indices)
           n == UnchangedOffset
<1>1. \A i \in old : /\ Offset(i) \in Nat /\ End(i) \in Nat /\ End(i) <= Len(file.cells) /\ Offset(i) < End(i)
                     /\ file \in Archives /\ Len(file.cells) \in Nat
  <2>1. ASSUME NEW i \in old
        PROVE  /\ Offset(i) \in Nat /\ End(i) \in Nat /\ End(i) <= Len(file.cells) /\ Offset(i) < End(i)
               /\ file \in Archives /\ Len(file.cells) \in Nat
    <3>1. /\ Entry(i).orig.offset \in Nat /\ Entry(i).orig.comp_size \in Nat /\ End(i) <= Len(file.cells)
          /\ file \in Archives /\ Len(file.cells) \in Nat
      BY OriginalTyped, LenProperties DEF Original
    <3>2. QED
      BY <3>1
  <2>2. QED
    BY <2>1
<1>2. \A i, k \in old : /\ Offset(i) < Offset(k) => End(i) <= Offset(k)
                        /\ Offset(i) = Offset(k) => End(i) = End(k)
  <2>1. ASSUME NEW i \in old, NEW k \in old
        PROVE  /\ Offset(i) < Offset(k) => End(i) <= Offset(k)
               /\ Offset(i) = Offset(k) => End(i) = End(k)
    <3>1. /\ Entry(i).orig \in Dirents /\ Entry(k).orig \in Dirents
          /\ FileAt(file.cells, Entry(i).orig) # NULL /\ FileAt(file.cells, Entry(k).orig) # NULL
      BY OriginalTyped DEF Original
    <3>2. QED
      BY <3>1, FilesApart
  <2>2. QED
    BY <2>1
<1>3. /\ O = {Offset(i) : i \in old}
      /\ C = {Offset(i) : i \in {k \in new : Entry(k).orig # NULL}}
  BY DEF OrigOffsets
<1>4. n = IF WantTorrentzip \/ ~can_clone THEN 0
          ELSE IF C # {} THEN Min(C)
          ELSE IF O = {} THEN 0
          ELSE EndOfData
  BY DEF UnchangedOffset
<1>5. can_clone /\ ~WantTorrentzip
  BY <1>4
<1>6. new \subseteq Indices /\ old \subseteq Indices
  OBVIOUS
<1> HIDE DEF Offset, End, C, O, n
<1>7. CASE C # {}
  <2>1. C \in SUBSET Nat
    BY <1>1, <1>3
  <2>2. n \in C /\ \A y \in C : n <= y
    BY <1>4, <1>5, <1>7, <2>1, MinIs
  <2>3. PICK c \in old : n = Offset(c)
    BY <1>3, <2>2
  <2>4. n \in 1..Len(file.cells) /\ file \in Archives
    BY <1>1, <2>3 DEF n
  <2>5. ASSUME NEW i \in old, Offset(i) < n
        PROVE  ~HasChanges(Entry(i)) /\ End(i) <= n
    <3>0. i \in new => Offset(i) \in C
      BY <1>3
    <3>1. i \notin new
      BY <1>1, <2>2, <2>3, <2>5, <3>0
    <3>2. End(i) <= n
      BY <1>2, <2>3, <2>5
    <3>3. QED
      BY <3>1, <3>2
  <2>6. QED
    BY <1>5, <2>4, <2>5 DEF Offset, End, n
<1>8. CASE C = {}
  <2>1. O # {} /\ n = EndOfData
    BY <1>4, <1>5, <1>8 DEF n
  <2>2. PICK some \in old : TRUE
    BY <1>3, <2>1
  <2>3. Len(file.cells) \in Nat /\ O \in SUBSET (0..Len(file.cells)) /\ file \in Archives
    BY <1>1, <1>3, <2>2
  <2>4. Max(O) \in O /\ \A y \in O : Max(O) >= y
    BY <2>1, <2>3, MaxIs
  <2> DEFINE L == {i \in Indices : Entry(i).orig # NULL /\ Entry(i).orig.offset = Max(OrigOffsets(Indices))}
             last == Max(L)
  <2>5. \A i : i \in L <=> i \in old /\ Offset(i) = Max(O)
    BY DEF Offset, O
  <2>6. L # {} /\ L \in SUBSET (0..Len(entry)) /\ Len(entry) \in Nat
    <3>1. L # {}
      BY <1>3, <2>4, <2>5
    <3>2. entry \in Seq(Entries)
      BY DEF Typed
    <3>3. Len(entry) \in Nat
      BY <3>2, LenProperties
    <3>4. QED
      BY <3>1, <3>3 DEF Indices
  <2>7. n = Max(Extent(Entry(last).orig))
    BY <2>1 DEF EndOfData
  <2> HIDE DEF L
  <2>8. last \in old /\ Offset(last) = Max(O)
    BY <2>5, <2>6, MaxIs
  <2> HIDE DEF last
  <2>9. n = End(last)
    <3> DEFINE d == Entry(last).orig
    <3>1. d.offset \in Nat /\ d.comp_size \in Nat
      BY <2>8, OriginalTyped
    <3>2. Extent(d) = d.offset + 1 .. d.offset + 1 + d.comp_size
      BY DEF Extent
    <3>3. Max(Extent(d)) = d.offset + 1 + d.comp_size
      BY <3>1, <3>2, MaxOfInterval
    <3>4. QED
      BY <2>7, <3>3 DEF End
  <2>10. n \in 1..Len(file.cells)
    BY <1>1, <2>8, <2>9
  <2>11. ASSUME NEW i \in old
         PROVE  ~HasChanges(Entry(i)) /\ End(i) <= n
    <3>1. i \notin new
      BY <1>3, <1>8
    <3>2. Offset(i) <= Offset(last)
      BY <1>1, <1>3, <2>4, <2>8
    <3>3. CASE Offset(i) < Offset(last)
      <4>1. End(i) <= Offset(last) /\ Offset(last) < End(last)
        BY <1>1, <1>2, <2>8, <3>3
      <4>2. QED
        BY <1>1, <2>8, <2>9, <3>1, <4>1
    <3>4. CASE Offset(i) = Offset(last)
      BY <1>1, <1>2, <2>8, <2>9, <3>1, <3>4
    <3>5. QED
      BY <1>1, <2>8, <3>2, <3>3, <3>4
  <2>12. QED
    BY <1>5, <2>3, <2>10, <2>11 DEF Offset, End, n
<1>9. QED
  BY <1>7, <1>8

(***************************************************************************)
(* Steps while zip_close does not run.                                     *)
(***************************************************************************)

InvVars == <<file, can_clone, is_open, flags, pc, entry, stale, closeVars>>

LEMMA InvFrame ==
    ASSUME CloseInv, UNCHANGED InvVars
    PROVE  CloseInv'
BY DEF InvVars, closeVars, CloseInv, Typed, OriginalsOK, EntriesKept, FilelistOK, DeflatedOK, ViewOK,
       Closing, Torrent, Original, Done, ToDo, Listed, ClonedOK, PreparedOK,
       Indices, Entry, IsTorrentzip, WantTorrentzip, Seen

\* One entry is replaced.
LEMMA EntrySet ==
    ASSUME Typed, NEW i \in Indices, NEW r \in Entries, entry' = [entry EXCEPT ![i + 1] = r]
    PROVE  /\ entry' \in Seq(Entries) /\ Indices' = Indices
           /\ \A k \in Indices : Entry(k)' = IF k = i THEN r ELSE Entry(k)
<1>1. entry \in Seq(Entries) /\ Len(entry) \in Nat /\ DOMAIN entry = 1..Len(entry)
  BY LenProperties DEF Typed
<1>2. i + 1 \in 1..Len(entry) /\ i \in Int
  BY EntryTyped
<1>3. entry' \in Seq(Entries) /\ Len(entry') = Len(entry)
  BY <1>1, <1>2
<1>4. Indices' = Indices
  BY <1>3 DEF Indices
<1>5. ASSUME NEW k \in Indices
      PROVE  Entry(k)' = IF k = i THEN r ELSE Entry(k)
  <2>1. k + 1 \in DOMAIN entry /\ (k + 1 = i + 1 <=> k = i)
    BY <1>1, <1>2, EntryTyped
  <2>2. Entry(k)' = entry'[k + 1] /\ Entry(k) = entry[k + 1]
    BY DEF Entry
  <2>3. QED
    BY <2>1, <2>2
<1>6. QED
  BY <1>3, <1>4, <1>5

LEMMA Clones ==
    ASSUME NEW e \in Entries
    PROVE  /\ ChangesOf(e) \in Dirents
           /\ e.changes # NULL => ChangesOf(e) = e.changes
           /\ e.changes = NULL /\ e.orig # NULL =>
                /\ ChangesOf(e).comp_size = e.orig.comp_size
                /\ ChangesOf(e).changed = {}
<1>1. NewDirent \in Dirents
  BY DEF NewDirent, Dirents, Methods
<1>2. /\ e.changes \in Dirents \cup {NULL}
      /\ e.orig \in OrigDirents \cup {NULL}
  BY DEF Entries
<1>3. ASSUME e.changes = NULL, e.orig # NULL
      PROVE  /\ ChangesOf(e) = [e.orig EXCEPT !.changed = {}]
             /\ ChangesOf(e) \in Dirents
             /\ ChangesOf(e).comp_size = e.orig.comp_size
             /\ ChangesOf(e).changed = {}
  <2>1. ChangesOf(e) = [e.orig EXCEPT !.changed = {}]
    BY <1>3 DEF ChangesOf
  <2>2. e.orig \in Dirents
    BY <1>2, <1>3, OrigIsDirent
  <2>3. QED
    BY <2>1, <2>2 DEF Dirents
<1>4. e.changes # NULL => ChangesOf(e) = e.changes
  BY DEF ChangesOf
<1>5. e.changes = NULL /\ e.orig = NULL => ChangesOf(e) = NewDirent
  BY DEF ChangesOf
<1>6. QED
  BY <1>1, <1>2, <1>3, <1>4, <1>5

\* An edit keeps the invariant if it keeps the original and leaves no directory
\* entry of another size without a reason.
LEMMA EditStep ==
    ASSUME CloseInv, Idle, NEW i \in Indices, NEW r \in Entries, Edited(i, r),
           r.orig = Entry(i).orig,
           ~stale => SizeKept(r) /\ Marked(r)
    PROVE  CloseInv'
<1>1. /\ entry' \in Seq(Entries) /\ Indices' = Indices
      /\ \A k \in Indices : Entry(k)' = IF k = i THEN r ELSE Entry(k)
  BY EntrySet DEF CloseInv, Edited
<1>2. /\ file' = file /\ can_clone' = can_clone /\ is_open' = is_open /\ flags' = flags
      /\ pc' = pc /\ stale' = stale /\ out' = out /\ pc = "idle" /\ is_open = TRUE
  BY DEF Edited, archiveVars, closeVars, Idle, CloseInv, Typed
<1>3. Typed'
  BY <1>1, <1>2 DEF CloseInv, Typed, IsTorrentzip, Torrent
<1>4. OriginalsOK'
  <2>1. \A k \in Indices : Entry(k)'.orig # NULL => Original(Entry(k)'.orig)
    BY <1>1 DEF CloseInv, OriginalsOK
  <2>2. QED
    BY <1>1, <1>2, <2>1 DEF OriginalsOK, Original, IsTorrentzip
<1>5. EntriesKept'
  <2>1. ~stale => \A k \in Indices : SizeKept(Entry(k)') /\ (can_clone => Marked(Entry(k)'))
    BY <1>1, <1>2 DEF CloseInv, EntriesKept, Closing
  <2>2. QED
    BY <1>1, <1>2, <2>1 DEF EntriesKept
<1>6. FilelistOK' /\ DeflatedOK' /\ ViewOK'
  BY <1>2 DEF FilelistOK, DeflatedOK, ViewOK, Closing
<1>7. QED
  BY <1>3, <1>4, <1>5, <1>6 DEF CloseInv

\* New data needs no old size.
LEMMA NewDataIsFree ==
    ASSUME NEW e, e.source # NULL \/ e.orig = NULL \/ MethodChanged(e)
    PROVE  SizeKept(e)
BY DEF SizeKept, OldData

LEMMA FileReplaceKeeps ==
    ASSUME CloseInv, NEW i \in Indices, NEW s \in Sources, FileReplace(i, s)
    PROVE  CloseInv'
<1> DEFINE e == Entry(i)
           c == [ChangesOf(e) EXCEPT !.changed = @ \cup {"OTHER"}]
           r == [e EXCEPT !.source = s, !.deleted = FALSE, !.changes = c]
<1>1. e \in Entries /\ ChangesOf(e) \in Dirents
  BY EntryTyped, Clones DEF CloseInv
<1>2. Idle /\ Edited(i, r)
  BY DEF FileReplace
<1> HIDE DEF e
<1>3. c \in Dirents /\ c.changed # {}
  BY <1>1 DEF Dirents
<1> HIDE DEF c
<1>4. r \in Entries /\ r.orig = e.orig /\ r.source = s /\ r.changes = c
  BY <1>1, <1>3 DEF Entries
<1> HIDE DEF r
<1>5. SizeKept(r) /\ Marked(r)
  BY <1>3, <1>4, NewDataIsFree, SourcesAssumption DEF Marked
<1>6. QED
  BY <1>2, <1>4, <1>5, EditStep DEF e

LEMMA ForgetKeeps ==
    ASSUME CloseInv, NEW i \in Indices, Delete(i) \/ Unchange(i)
    PROVE  CloseInv'
<1> DEFINE e == Entry(i)
<1>1. PICK b \in BOOLEAN :
        Idle /\ Edited(i, [e EXCEPT !.changes = NULL, !.source = NULL, !.deleted = b])
  BY DEF Delete, Unchange
<1>2. e \in Entries
  BY EntryTyped DEF CloseInv
<1> HIDE DEF e
<1> DEFINE r == [e EXCEPT !.changes = NULL, !.source = NULL, !.deleted = b]
<1>3. r \in Entries /\ r.orig = e.orig /\ r.changes = NULL
  BY <1>2 DEF Entries
<1>4. Idle /\ Edited(i, r)
  BY <1>1
<1> HIDE DEF r
<1>5. SizeKept(r) /\ Marked(r)
  BY <1>3 DEF SizeKept, Marked
<1>6. QED
  BY <1>3, <1>4, <1>5, EditStep DEF e

LEMMA SetCompressionKeeps ==
    ASSUME CloseInv, NEW i \in Indices, NEW m \in Methods, SetCompression(i, m)
    PROVE  CloseInv'
<1> DEFINE e == Entry(i)
           c == [ChangesOf(e) EXCEPT !.comp_method = m, !.changed = @ \cup {"COMP_METHOD"}]
           r == [e EXCEPT !.changes = c]
<1>1. e \in Entries /\ ChangesOf(e) \in Dirents
  BY EntryTyped, Clones DEF CloseInv
<1>2. Idle /\ Edited(i, r)
  BY DEF SetCompression
<1> HIDE DEF e
<1>3. c \in Dirents /\ "COMP_METHOD" \in c.changed
  BY <1>1 DEF Dirents
<1> HIDE DEF c
<1>4. r \in Entries /\ r.orig = e.orig /\ r.changes = c
  BY <1>1, <1>3 DEF Entries
<1> HIDE DEF r
<1>5. MethodChanged(r) /\ Marked(r)
  BY <1>3, <1>4, NullAssumption DEF Marked, MethodChanged
<1>6. SizeKept(r)
  BY <1>5, NewDataIsFree
<1>7. QED
  BY <1>2, <1>4, <1>5, <1>6, EditStep DEF e

LEMMA SetCommentKeeps ==
    ASSUME CloseInv, NEW i \in Indices, SetComment(i)
    PROVE  CloseInv'
<1> DEFINE e == Entry(i)
           o == ChangesOf(e)
           c == [o EXCEPT !.changed = @ \cup {"OTHER"}]
           r == [e EXCEPT !.changes = c]
<1>1. /\ e \in Entries /\ o \in Dirents
      /\ e.changes # NULL => o = e.changes
      /\ e.changes = NULL /\ e.orig # NULL => o.comp_size = e.orig.comp_size
  BY EntryTyped, Clones DEF CloseInv
<1>2. Idle /\ Edited(i, r)
  BY DEF SetComment
<1>3. ~stale => SizeKept(e)
  BY <1>2 DEF CloseInv, EntriesKept, Closing, Idle
<1> HIDE DEF e, o
<1>4. c \in Dirents /\ c.changed = o.changed \cup {"OTHER"} /\ c.comp_size = o.comp_size
  BY <1>1 DEF Dirents
<1> HIDE DEF c
<1>5. r \in Entries /\ r.orig = e.orig /\ r.source = e.source /\ r.changes = c
  BY <1>1, <1>4 DEF Entries
<1> HIDE DEF r
<1>6. Marked(r)
  BY <1>4, <1>5 DEF Marked
<1>7. ASSUME ~stale, OldData(r) PROVE c.comp_size = r.orig.comp_size
  <2>1. CASE e.changes = NULL
    BY <1>1, <1>4, <1>5, <1>7, <2>1 DEF OldData
  <2>2. CASE e.changes # NULL
    <3>1. OldData(e)
      BY <1>1, <1>4, <1>5, <1>7, <2>2, NullAssumption DEF OldData, MethodChanged
    <3>2. QED
      BY <1>1, <1>3, <1>4, <1>5, <1>7, <2>2, <3>1 DEF SizeKept
  <2>3. QED
    BY <2>1, <2>2
<1>8. ~stale => SizeKept(r)
  BY <1>5, <1>7 DEF SizeKept
<1>9. QED
  BY <1>2, <1>5, <1>6, <1>8, EditStep DEF e

LEMMA RestoreCommentKeeps ==
    ASSUME CloseInv, NEW i \in Indices, RestoreComment(i)
    PROVE  CloseInv'
<1> DEFINE e == Entry(i)
           c == [e.changes EXCEPT !.changed = @ \ {"OTHER"}]
           r == [e EXCEPT !.changes = IF c.changed = {} THEN NULL ELSE c]
<1>1. e \in Entries
  BY EntryTyped DEF CloseInv
<1>2. Idle /\ Edited(i, r) /\ e.changes # NULL
  BY DEF RestoreComment
<1>3. ~stale => SizeKept(e)
  BY <1>2 DEF CloseInv, EntriesKept, Closing, Idle
<1> HIDE DEF e
<1>4. e.changes \in Dirents
  BY <1>1, <1>2 DEF Entries
<1>5. /\ c \in Dirents /\ c.changed = e.changes.changed \ {"OTHER"}
      /\ c.comp_size = e.changes.comp_size
  BY <1>4 DEF Dirents
<1> HIDE DEF c
<1>6. /\ r \in Entries /\ r.orig = e.orig /\ r.source = e.source
      /\ r.changes = IF c.changed = {} THEN NULL ELSE c
  BY <1>1, <1>5 DEF Entries
<1> HIDE DEF r
<1>7. Marked(r)
  BY <1>6 DEF Marked
<1>8. ASSUME ~stale, OldData(r), r.changes # NULL PROVE r.changes.comp_size = r.orig.comp_size
  <2>1. r.changes = c
    BY <1>6, <1>8
  <2>2. OldData(e)
    BY <1>2, <1>5, <1>6, <1>8, <2>1 DEF OldData, MethodChanged
  <2>3. QED
    BY <1>2, <1>3, <1>5, <1>6, <1>8, <2>1, <2>2 DEF SizeKept
<1>9. ~stale => SizeKept(r)
  BY <1>8 DEF SizeKept
<1>10. QED
  BY <1>2, <1>6, <1>7, <1>9, EditStep DEF e

LEMMA EmptyEntries == <<>> \in Seq(Entries) /\ <<>> \in Seq(Cells) /\ Len(<<>>) = 0
OBVIOUS

LEMMA NoIndices == \A i \in 0..(0 - 1) : FALSE
OBVIOUS

\* Nothing is open.
LEMMA ClosedIs ==
    ASSUME is_open = FALSE, pc = "idle", entry = <<>>, out = <<>>, flags = {}, stale = FALSE,
           can_clone \in BOOLEAN, file = NULL \/ file \in Archives
    PROVE  CloseInv
<1>1. Indices = {}
  <2>1. Indices = 0..(0 - 1)
    BY EmptyEntries DEF Indices
  <2>2. QED
    BY <2>1, NoIndices
<1>2. Typed
  BY EmptyEntries DEF Typed, IsTorrentzip
<1>3. QED
  BY <1>1, <1>2 DEF CloseInv, OriginalsOK, EntriesKept, FilelistOK, DeflatedOK, ViewOK, Closing

LEMMA InitIsClosed == Init => CloseInv
<1> SUFFICES ASSUME Init PROVE CloseInv
  OBVIOUS
<1>1. file = NULL \/ file \in Archives
  BY FilesAssumption DEF Init
<1>2. QED
  BY <1>1, ClosedIs DEF Init

LEMMA FreeArchiveKeeps ==
    ASSUME CloseInv, FreeArchive, file' = NULL \/ file' = file \/ file' \in Archives
    PROVE  CloseInv'
<1>1. /\ is_open' = FALSE /\ pc' = "idle" /\ entry' = <<>> /\ out' = <<>> /\ flags' = {}
      /\ stale' = FALSE /\ can_clone' = can_clone
  BY DEF FreeArchive
<1>2. Indices' = {}
  <2>1. Indices' = 0..(0 - 1)
    BY <1>1, EmptyEntries DEF Indices
  <2>2. QED
    BY <2>1, NoIndices
<1>3. Typed'
  BY <1>1, EmptyEntries DEF CloseInv, Typed, IsTorrentzip
<1>4. QED
  BY <1>1, <1>2, <1>3 DEF CloseInv, OriginalsOK, EntriesKept, FilelistOK, DeflatedOK, ViewOK, Closing

LEMMA OpenKeeps ==
    ASSUME CloseInv, Open
    PROVE  CloseInv'
<1>1. /\ is_open = FALSE /\ is_open' = TRUE /\ file' = file /\ can_clone' = can_clone
      /\ pc' = pc /\ stale' = stale /\ out' = out /\ pc = "idle" /\ ~stale
      /\ IsSound(file)
      /\ entry' = IF file = NULL THEN <<>>
                  ELSE [k \in DOMAIN file.cdir |-> NewEntry(file.cdir[k])]
      /\ flags' = IF file # NULL /\ file.torrentzip THEN {"IS_TORRENTZIP"} ELSE {}
  BY DEF Open, closeVars, CloseInv, Typed
<1>2. CASE file = NULL
  <2>1. Indices' = {}
    <3>1. Indices' = 0..(0 - 1)
      BY <1>1, <1>2, EmptyEntries DEF Indices
    <3>2. QED
      BY <3>1, NoIndices
  <2>2. Typed'
    BY <1>1, <1>2, EmptyEntries DEF CloseInv, Typed, IsTorrentzip
  <2>3. QED
    BY <1>1, <2>1, <2>2
       DEF CloseInv, OriginalsOK, EntriesKept, FilelistOK, DeflatedOK, ViewOK, Closing
<1>3. CASE file # NULL
  <2> DEFINE dir == file.cdir
             n == Len(dir)
  <2>1. /\ file \in Archives /\ dir \in Seq(OrigDirents)
        /\ file.torrentzip => \A k \in DOMAIN dir : dir[k].comp_method = "DEFLATE"
        /\ file.torrentzip \in BOOLEAN
    BY <1>3 DEF CloseInv, Typed, Archives
  <2>2. n \in Nat /\ DOMAIN dir = 1..n /\ \A k \in 1..n : dir[k] \in OrigDirents
    BY <2>1, LenProperties, ElementOfSeq
  <2>3. \A d \in OrigDirents : NewEntry(d) \in Entries /\ NewEntry(d).orig = d /\ NewEntry(d).changes = NULL
    BY DEF NewEntry, Entries
  <2>4. entry' = [k \in 1..n |-> NewEntry(dir[k])]
    BY <1>1, <1>3, <2>2
  <2>5. entry' \in [1..n -> Entries]
    BY <2>2, <2>3, <2>4
  <2> HIDE DEF n
  <2>6. entry' \in Seq(Entries) /\ Len(entry') = n
    BY <2>2, <2>5, FunctionIsSequence
  <2>7. Indices' = 0..(n - 1)
    BY <2>6 DEF Indices
  <2>8. ASSUME NEW i \in Indices'
        PROVE  /\ i + 1 \in 1..n
               /\ Entry(i)'.orig = dir[i + 1] /\ Entry(i)'.changes = NULL
    <3>1. i + 1 \in 1..n
      BY <2>2, <2>7
    <3>2. Entry(i)' = NewEntry(dir[i + 1])
      BY <2>4, <3>1 DEF Entry
    <3>3. QED
      BY <2>2, <2>3, <3>1, <3>2
  <2>9. Typed'
    BY <1>1, <1>3, <2>1, <2>6 DEF CloseInv, Typed, IsTorrentzip, Torrent
  <2>10. ASSUME NEW i \in Indices'
         PROVE  /\ file' \in Archives
                /\ FileAt(file'.cells, Entry(i)'.orig) # NULL
                /\ IsTorrentzip' => Entry(i)'.orig.comp_method = "DEFLATE"
    <3>1. FileAt(file.cells, dir[i + 1]) # NULL
      <4>1. FilesOf(file) = [k \in 1..n |-> FileAt(file.cells, dir[k])]
        BY <2>2 DEF FilesOf
      <4>2. NULL \notin Range(FilesOf(file))
        BY <1>1, <1>3 DEF IsSound
      <4>3. FilesOf(file)[i + 1] = FileAt(file.cells, dir[i + 1]) /\ i + 1 \in DOMAIN FilesOf(file)
        BY <2>8, <4>1
      <4>4. QED
        BY <4>2, <4>3 DEF Range
    <3>2. IsTorrentzip' => file.torrentzip
      BY <1>1, <1>3 DEF IsTorrentzip
    <3>3. QED
      BY <1>1, <2>1, <2>2, <2>8, <3>1, <3>2
  <2>11. OriginalsOK'
    BY <2>10 DEF OriginalsOK, Original
  <2>12. EntriesKept'
    BY <2>8 DEF EntriesKept, SizeKept, Marked
  <2>13. QED
    BY <1>1, <2>9, <2>11, <2>12 DEF CloseInv, FilelistOK, DeflatedOK, ViewOK, Closing
<1>4. QED
  BY <1>2, <1>3

LEMMA FileAddKeeps ==
    ASSUME CloseInv, NEW s \in Sources, FileAdd(s)
    PROVE  CloseInv'
<1> DEFINE c == [NewDirent EXCEPT !.changed = {"OTHER"}]
           r == [NewEntry(NULL) EXCEPT !.source = s, !.changes = c]
           n == Len(entry)
<1>1. c \in Dirents /\ c.changed # {}
  BY DEF NewDirent, Dirents, Methods
<1>2. /\ entry' = Append(entry, r)
      /\ file' = file /\ can_clone' = can_clone /\ is_open' = is_open /\ flags' = flags
      /\ pc' = pc /\ stale' = stale /\ out' = out /\ pc = "idle" /\ is_open = TRUE
  BY DEF FileAdd, archiveVars, closeVars, Idle, CloseInv, Typed
<1> HIDE DEF c
<1>3. r \in Entries /\ r.orig = NULL /\ r.changes = c /\ r.source = s
  BY <1>1 DEF NewEntry, Entries
<1> HIDE DEF r
<1>4. entry \in Seq(Entries) /\ n \in Nat
  BY LenProperties DEF CloseInv, Typed
<1>5. /\ entry' \in Seq(Entries) /\ Len(entry') = n + 1
      /\ \A k \in 1..n : entry'[k] = entry[k]
      /\ entry'[n + 1] = r
  BY <1>2, <1>3, <1>4, AppendProperties
<1> HIDE DEF n
<1>6. Indices = 0..(n - 1) /\ Indices' = 0..((n + 1) - 1)
  BY <1>5 DEF Indices, n
<1>7. ASSUME NEW k \in Indices'
      PROVE  (k \in Indices /\ Entry(k)' = Entry(k)) \/ Entry(k)' = r
  <2>1. CASE k = n
    <3>1. Entry(k)' = entry'[n + 1]
      BY <2>1 DEF Entry
    <3>2. QED
      BY <1>5, <3>1
  <2>2. CASE k # n
    <3>1. k \in Indices /\ k + 1 \in 1..n
      BY <1>4, <1>6, <2>2
    <3>2. Entry(k)' = Entry(k)
      BY <1>5, <3>1 DEF Entry
    <3>3. QED
      BY <3>1, <3>2
  <2>3. QED
    BY <2>1, <2>2
<1>8. Typed'
  BY <1>2, <1>5 DEF CloseInv, Typed, IsTorrentzip, Torrent
<1>9. OriginalsOK'
  <2>1. \A k \in Indices' : Entry(k)'.orig # NULL => Original(Entry(k)'.orig)
    BY <1>3, <1>7 DEF CloseInv, OriginalsOK
  <2>2. QED
    BY <1>2, <2>1 DEF OriginalsOK, Original, IsTorrentzip
<1>10. SizeKept(r) /\ Marked(r)
  BY <1>1, <1>3, NewDataIsFree DEF Marked
<1>11. EntriesKept'
  <2>1. ~stale => \A k \in Indices' : SizeKept(Entry(k)') /\ (can_clone => Marked(Entry(k)'))
    BY <1>2, <1>7, <1>10 DEF CloseInv, EntriesKept, Closing
  <2>2. QED
    BY <1>2, <2>1 DEF EntriesKept
<1>12. QED
  BY <1>2, <1>8, <1>9, <1>11 DEF CloseInv, FilelistOK, DeflatedOK, ViewOK, Closing

LEMMA SetTorrentzipKeeps ==
    ASSUME CloseInv, NEW want \in BOOLEAN, SetTorrentzip(want)
    PROVE  CloseInv'
<1>1. /\ IsTorrentzip' = IsTorrentzip /\ pc = "idle"
      /\ UNCHANGED <<file, can_clone, is_open, pc, entry, stale, out>>
  BY DEF SetTorrentzip, closeVars, Idle, IsTorrentzip
<1>2. Indices' = Indices /\ \A i \in Indices : Entry(i)' = Entry(i)
  BY <1>1 DEF Indices, Entry
<1>3. Typed' /\ OriginalsOK' /\ EntriesKept'
  BY <1>1, <1>2 DEF CloseInv, Typed, OriginalsOK, EntriesKept, Original, Torrent, Closing
<1>4. QED
  BY <1>1, <1>3 DEF CloseInv, FilelistOK, DeflatedOK, ViewOK, Closing

LEMMA EditKeeps ==
    ASSUME CloseInv, Edit
    PROVE  CloseInv'
<1>1. CASE \E s \in Sources : FileAdd(s)
  BY <1>1, FileAddKeeps
<1>2. ASSUME NEW i \in Indices, \E s \in Sources : FileReplace(i, s)
      PROVE  CloseInv'
  BY <1>2, FileReplaceKeeps
<1>3. ASSUME NEW i \in Indices, Delete(i) \/ Unchange(i)
      PROVE  CloseInv'
  BY <1>3, ForgetKeeps
<1>4. ASSUME NEW i \in Indices, SetComment(i) \/ RestoreComment(i)
      PROVE  CloseInv'
  BY <1>4, SetCommentKeeps, RestoreCommentKeeps
<1>5. ASSUME NEW i \in Indices, \E m \in Methods : SetCompression(i, m)
      PROVE  CloseInv'
  BY <1>5, SetCompressionKeeps
<1>6. ASSUME NEW i \in Indices, Fopen(i)
      PROVE  CloseInv'
  <2>1. UNCHANGED InvVars
    BY <1>6 DEF Fopen, InvVars, closeVars
  <2>2. QED
    BY <2>1, InvFrame
<1>7. CASE \E want \in BOOLEAN : SetTorrentzip(want)
  BY <1>7, SetTorrentzipKeeps
<1>8. CASE Fclose
  <2>1. UNCHANGED InvVars
    BY <1>8 DEF Fclose, InvVars, closeVars
  <2>2. QED
    BY <2>1, InvFrame
<1>9. QED
  BY <1>1, <1>2, <1>3, <1>4, <1>5, <1>6, <1>7, <1>8 DEF Edit

(***************************************************************************)
(* The steps of zip_close.                                                 *)
(***************************************************************************)

\* The filelist has every survivor once.
LEMMA FilelistIs ==
    ASSUME Typed, NEW f \in Filelists
    PROVE  /\ f \in Seq(Indices) /\ Len(f) \in Nat /\ DOMAIN f = 1..Len(f)
           /\ \A k \in DOMAIN f : f[k] \in Indices /\ ~Entry(f[k]).deleted
           /\ \A a, b \in DOMAIN f : f[a] = f[b] => a = b
<1> DEFINE n == Cardinality(Survivors)
<1>1. IsFiniteSet(Survivors) /\ Survivors \subseteq Indices
  <2>1. entry \in Seq(Entries)
    BY DEF Typed
  <2>2. Len(entry) \in Nat
    BY <2>1, LenProperties
  <2>3. 0 \in Int /\ Len(entry) - 1 \in Int
    BY <2>2
  <2>4. IsFiniteSet(0..(Len(entry) - 1))
    BY <2>3, FS_Interval
  <2>5. IsFiniteSet(Indices) /\ Survivors \subseteq Indices
    BY <2>4 DEF Indices, Survivors
  <2>6. QED
    BY <2>5, FS_Subset
<1>2. n \in Nat
  BY <1>1, FS_CardinalityType
<1>3. f \in SetToSeqs(Survivors)
  BY DEF Filelists
<1>4. f \in [1..n -> Survivors] /\ \A a, b \in 1..n : a # b => f[a] # f[b]
  BY <1>3 DEF SetToSeqs
<1> HIDE DEF n
<1>5. f \in [1..n -> Indices] /\ DOMAIN f = 1..n
  BY <1>1, <1>4
<1>6. f \in Seq(Indices) /\ Len(f) = n
  BY <1>2, <1>5, FunctionIsSequence
<1>7. \A k \in 1..n : f[k] \in Survivors
  BY <1>4
<1>8. QED
  BY <1>2, <1>4, <1>5, <1>6, <1>7 DEF Survivors

LEMMA BeginWriteKeeps ==
    ASSUME CloseInv, BeginWrite
    PROVE  CloseInv'
<1>1. /\ UNCHANGED <<file, can_clone, is_open, flags, entry, stale>>
      /\ pc = "idle" /\ is_open = TRUE /\ pc' = "prepare" /\ j' = 1
      /\ filelist' \in Filelists
      /\ view' = [k \in DOMAIN filelist' |-> Seen(Entry(filelist'[k]))]
  BY DEF BeginWrite, archiveVars, Idle, CloseInv, Typed
<1>2. PICK n \in {0, UnchangedOffset} :
        unchanged_offset' = n /\ out' = SubSeq(IF n = 0 THEN <<>> ELSE file.cells, 1, n)
  BY DEF BeginWrite
<1>3. /\ \A i : Entry(i)' = Entry(i)
      /\ Indices' = Indices /\ IsTorrentzip' = IsTorrentzip /\ WantTorrentzip' = WantTorrentzip
      /\ \A e : Seen(e)' = Seen(e)
  BY <1>1 DEF Entry, Indices, IsTorrentzip, WantTorrentzip, Seen
<1>4. /\ filelist' \in Seq(Indices) /\ Len(filelist') \in Nat /\ DOMAIN filelist' = 1..Len(filelist')
      /\ \A k \in DOMAIN filelist' : filelist'[k] \in Indices /\ ~Entry(filelist'[k]).deleted
      /\ \A a, b \in DOMAIN filelist' : filelist'[a] = filelist'[b] => a = b
  BY <1>1, FilelistIs DEF CloseInv
<1>5. n # 0 =>
        /\ can_clone /\ ~WantTorrentzip /\ file \in Archives
        /\ n \in 1..Len(file.cells)
        /\ \A i \in Indices :
             Entry(i).orig # NULL /\ Entry(i).orig.offset < n =>
                 /\ ~HasChanges(Entry(i))
                 /\ Entry(i).orig.offset + 1 + Entry(i).orig.comp_size <= n
  BY <1>2, KeptByCloning DEF CloseInv
<1>6. out' \in Seq(Cells) /\ n \in Nat
  <2>1. CASE n = 0
    <3>1. out' = SubSeq(<<>>, 1, 0)
      BY <1>2, <2>1
    <3>2. SubSeq(<<>>, 1, 0) = <<>>
      BY SubSeqEmpty
    <3>3. QED
      BY <2>1, <3>1, <3>2, EmptyEntries
  <2>2. CASE n # 0
    <3>1. file.cells \in Seq(Cells) /\ n \in 1..Len(file.cells) /\ out' = SubSeq(file.cells, 1, n)
      BY <1>2, <1>5, <2>2 DEF Archives, Cells
    <3>2. 1 \in Int /\ n \in Int /\ n \in Nat /\ \A k \in 1..n : file.cells[k] \in Cells
      BY <3>1, ElementOfSeq, LenProperties
    <3>3. QED
      BY <3>1, <3>2, SubSeqProperties
  <2>3. QED
    BY <2>1, <2>2
<1>7. Typed'
  BY <1>1, <1>3, <1>6 DEF CloseInv, Typed, Torrent
<1>8. OriginalsOK'
  <2>1. \A i \in Indices : Entry(i).orig # NULL => Original(Entry(i).orig)
    BY DEF CloseInv, OriginalsOK
  <2>2. QED
    BY <1>1, <1>3, <2>1 DEF OriginalsOK, Original
<1>9. EntriesKept'
  BY <1>1 DEF EntriesKept, Closing
<1>10. FilelistOK'
  BY <1>1, <1>2, <1>3, <1>4, <1>5, <1>6 DEF FilelistOK
<1>11. Done' = {}
  BY <1>1, <1>4 DEF Done
<1>12. DeflatedOK'
  BY <1>1, <1>11 DEF DeflatedOK
<1>13. ASSUME ~stale, NEW k \in DOMAIN filelist'
       PROVE  ClonedOK(Listed(k))' /\ SizeKept(Listed(k)')
  <2> DEFINE i == filelist'[k]
             e == Entry(i)
  <2>1. i \in Indices /\ Listed(k)' = e /\ ~e.deleted
    BY <1>3, <1>4 DEF Listed, Entry
  <2>2. SizeKept(e) /\ (can_clone => Marked(e))
    BY <1>1, <1>13, <2>1 DEF CloseInv, EntriesKept, Closing
  <2>3. ASSUME e.orig # NULL, e.orig.offset < n
        PROVE  /\ e.changes = NULL /\ e.source = NULL
               /\ FileAt(out', e.orig) = FileAt(file.cells, e.orig)
    <3>1. n # 0
      BY <2>1, <2>3, OriginalTyped DEF CloseInv
    <3>2. /\ ~HasChanges(e) /\ e.orig.offset + 1 + e.orig.comp_size <= n
          /\ can_clone /\ n \in 1..Len(file.cells) /\ out' = SubSeq(file.cells, 1, n)
      BY <1>2, <1>5, <2>1, <2>3, <3>1
    <3>3. e.orig \in Dirents /\ FileAt(file.cells, e.orig) # NULL /\ file.cells \in Seq(Cells)
      BY <2>1, <2>3, OriginalTyped DEF CloseInv, Original
    <3> HIDE DEF i, e
    <3>4. FileAt(out', e.orig) = FileAt(file.cells, e.orig)
      BY <3>2, <3>3, FileAtCut
    <3>5. e.changes = NULL /\ e.source = NULL
      BY <2>2, <3>2 DEF HasChanges, Marked
    <3>6. QED
      BY <3>4, <3>5
  <2> HIDE DEF i, e
  <2>4. ClonedOK(Listed(k))'
    BY <1>1, <1>2, <2>1, <2>3 DEF ClonedOK
  <2>5. QED
    BY <2>1, <2>2, <2>4
<1>14. \A k \in DOMAIN filelist' : Seen(Listed(k))' = Seen(Entry(filelist'[k]))
  BY <1>1 DEF Listed, Entry, Seen
<1>15. ~stale => \A i \in Indices : SizeKept(Entry(i))
  BY <1>1 DEF CloseInv, EntriesKept, Closing
<1>16. ViewOK'
  BY <1>1, <1>3, <1>11, <1>13, <1>14, <1>15 DEF ViewOK, ToDo
<1>17. QED
  BY <1>7, <1>8, <1>9, <1>10, <1>12, <1>16 DEF CloseInv

\* What the steps of the loop leave alone.
LoopFrame == UNCHANGED <<file, can_clone, is_open, flags, stale, filelist, unchanged_offset, view>>

LEMMA LoopFacts ==
    ASSUME CloseInv, Closing
    PROVE  /\ is_open /\ filelist \in Seq(Indices)
           /\ Len(filelist) \in Nat /\ DOMAIN filelist = 1..Len(filelist)
           /\ j \in Nat /\ j >= 1
           /\ \A k \in DOMAIN filelist :
                 /\ k \in Nat /\ filelist[k] \in Indices
                 /\ Listed(k) = Entry(filelist[k]) /\ Listed(k) \in Entries
<1>1. /\ is_open /\ filelist \in Seq(Indices) /\ j \in 1..(Len(filelist) + 1)
  BY DEF CloseInv, FilelistOK
<1>2. Len(filelist) \in Nat /\ DOMAIN filelist = 1..Len(filelist)
  BY <1>1, LenProperties
<1>3. \A k \in DOMAIN filelist : k \in Nat /\ filelist[k] \in Indices
  BY <1>1, <1>2, ElementOfSeq
<1>4. \A k \in DOMAIN filelist : Listed(k) = Entry(filelist[k]) /\ Listed(k) \in Entries
  BY <1>3, EntryTyped DEF Listed, CloseInv
<1>5. QED
  BY <1>1, <1>2, <1>3, <1>4

LEMMA SkipEntryKeeps ==
    ASSUME CloseInv, SkipEntry
    PROVE  CloseInv'
<1>1. /\ UNCHANGED <<file, can_clone, is_open, flags, stale, filelist, unchanged_offset, view, entry, out, pc>>
      /\ pc = "prepare" /\ j <= Len(filelist) /\ j' = j + 1 /\ Closing /\ Closing'
      /\ Listed(j).orig # NULL /\ Listed(j).orig.offset < unchanged_offset
  BY DEF SkipEntry, Skipped, Current, Listed, archiveVars, Closing
<1>2. /\ is_open /\ filelist \in Seq(Indices)
      /\ Len(filelist) \in Nat /\ DOMAIN filelist = 1..Len(filelist)
      /\ j \in Nat /\ j >= 1
      /\ \A k \in DOMAIN filelist :
            /\ k \in Nat /\ filelist[k] \in Indices
            /\ Listed(k) = Entry(filelist[k]) /\ Listed(k) \in Entries
  BY <1>1, LoopFacts
<1>3. j \in DOMAIN filelist /\ j \in ToDo
  BY <1>1, <1>2 DEF ToDo
<1>4. /\ \A i : Entry(i)' = Entry(i)
      /\ Indices' = Indices /\ IsTorrentzip' = IsTorrentzip /\ WantTorrentzip' = WantTorrentzip
      /\ \A e : Seen(e)' = Seen(e)
      /\ \A k : Listed(k)' = Listed(k)
      /\ \A e : ClonedOK(e)' = ClonedOK(e)
  BY <1>1 DEF Entry, Indices, IsTorrentzip, WantTorrentzip, Seen, Listed, ClonedOK
<1>5. Done' = Done \cup {j} /\ ToDo' \subseteq ToDo
  BY <1>1, <1>2, <1>3 DEF Done, ToDo
<1>6. ~WantTorrentzip
  <2>1. Listed(j).orig.offset \in Nat
    BY <1>1, <1>2, <1>3, OriginalTyped DEF CloseInv
  <2>2. unchanged_offset \in Nat /\ (unchanged_offset > 0 => ~WantTorrentzip)
    BY <1>1 DEF CloseInv, FilelistOK
  <2>3. QED
    BY <1>1, <2>1, <2>2
<1>7. Typed' /\ OriginalsOK' /\ EntriesKept'
  BY <1>1, <1>4 DEF CloseInv, Typed, OriginalsOK, Original, Torrent, EntriesKept
<1>8. FilelistOK'
  <2>1. j + 1 \in 1..(Len(filelist) + 1)
    BY <1>1, <1>2
  <2>2. QED
    BY <1>1, <1>4, <2>1 DEF CloseInv, FilelistOK
<1>9. DeflatedOK'
  <2>1. CentralEntry(Listed(j)) # NULL
    BY <1>1 DEF CentralEntry
  <2>2. QED
    BY <1>1, <1>4, <1>5, <1>6, <2>1 DEF CloseInv, DeflatedOK
<1>10. ASSUME ~stale
       PROVE  FileAt(out, CentralEntry(Listed(j))) = view[j] /\ view[j] # NULL
  <2>1. /\ view = [k \in DOMAIN filelist |-> Seen(Listed(k))]
        /\ ClonedOK(Listed(j))
    BY <1>1, <1>3, <1>10 DEF CloseInv, ViewOK
  <2>2. /\ Listed(j).changes = NULL /\ Listed(j).source = NULL
        /\ FileAt(out, Listed(j).orig) = FileAt(file.cells, Listed(j).orig)
    BY <1>1, <2>1 DEF ClonedOK
  <2>3. FileAt(file.cells, Listed(j).orig) # NULL
    BY <1>1, <1>2, <1>3, OriginalTyped DEF CloseInv, Original
  <2>4. Seen(Listed(j)) = FileAt(file.cells, Listed(j).orig) /\ CentralEntry(Listed(j)) = Listed(j).orig
    BY <1>1, <2>2 DEF Seen, CentralEntry
  <2>5. QED
    BY <1>3, <2>1, <2>2, <2>3, <2>4
<1>11. ViewOK'
  <2>1. ASSUME ~stale
        PROVE  /\ view = [k \in DOMAIN filelist |-> Seen(Listed(k))]
               /\ \A k \in ToDo' : ClonedOK(Listed(k)) /\ SizeKept(Listed(k))
               /\ \A k \in Done' : FileAt(out, CentralEntry(Listed(k))) = view[k] /\ view[k] # NULL
               /\ ~WantTorrentzip => \A i \in Indices : SizeKept(Entry(i))
    BY <1>1, <1>5, <1>10, <2>1 DEF CloseInv, ViewOK
  <2>2. view' = view /\ DOMAIN filelist' = DOMAIN filelist /\ out' = out
    BY <1>1
  <2>3. QED
    BY <1>1, <1>4, <2>1, <2>2 DEF ViewOK
<1>12. QED
  BY <1>7, <1>8, <1>9, <1>11 DEF CloseInv

\* The loop replaces the entry it is at, but not its original and source.
LEMMA CurrentSet ==
    ASSUME CloseInv, Closing, j <= Len(filelist), LoopFrame,
           NEW r \in Entries, r.orig = Current.orig, r.source = Current.source,
           entry' = [entry EXCEPT ![filelist[j] + 1] = r]
    PROVE  /\ entry' \in Seq(Entries) /\ Indices' = Indices /\ j \in DOMAIN filelist
           /\ Current = Listed(j) /\ filelist[j] \in Indices /\ Current = Entry(filelist[j])
           /\ \A k \in DOMAIN filelist : Listed(k)' = IF k = j THEN r ELSE Listed(k)
           /\ \A i \in Indices : Entry(i)' = IF i = filelist[j] THEN r ELSE Entry(i)
           /\ \A k \in DOMAIN filelist : Seen(Listed(k))' = Seen(Listed(k))
           /\ OriginalsOK'
           /\ IsTorrentzip' = IsTorrentzip /\ WantTorrentzip' = WantTorrentzip
<1>1. /\ file' = file /\ flags' = flags /\ stale' = stale /\ filelist' = filelist /\ can_clone' = can_clone
      /\ is_open' = is_open /\ unchanged_offset' = unchanged_offset /\ view' = view
  BY DEF LoopFrame
<1>2. /\ filelist \in Seq(Indices)
      /\ Len(filelist) \in Nat /\ DOMAIN filelist = 1..Len(filelist)
      /\ j \in Nat /\ j >= 1
      /\ \A k \in DOMAIN filelist :
            /\ k \in Nat /\ filelist[k] \in Indices
            /\ Listed(k) = Entry(filelist[k]) /\ Listed(k) \in Entries
  BY LoopFacts
<1>3. j \in DOMAIN filelist
  BY <1>2
<1>4. filelist[j] \in Indices /\ Current = Listed(j) /\ Current = Entry(filelist[j])
  BY <1>2, <1>3 DEF Current
<1>5. /\ entry' \in Seq(Entries) /\ Indices' = Indices
      /\ \A i \in Indices : Entry(i)' = IF i = filelist[j] THEN r ELSE Entry(i)
  BY <1>4, EntrySet DEF CloseInv
<1>6. \A k \in DOMAIN filelist : Listed(k)' = IF k = j THEN r ELSE Listed(k)
  <2>1. ASSUME NEW k \in DOMAIN filelist
        PROVE  Listed(k)' = IF k = j THEN r ELSE Listed(k)
    <3>1. Listed(k)' = Entry(filelist[k])'
      BY <1>1 DEF Listed, Entry
    <3>2. Entry(filelist[k])' = IF filelist[k] = filelist[j] THEN r ELSE Entry(filelist[k])
      <4>1. \A i \in Indices : Entry(i)' = entry'[i + 1]
        BY DEF Entry
      <4>2. Entry(filelist[k])' = entry'[filelist[k] + 1]
        BY <1>1 DEF Entry
      <4>3. QED
        BY <1>2, <1>5, <4>1, <4>2
    <3>3. filelist[k] = filelist[j] <=> k = j
      BY <1>3 DEF CloseInv, FilelistOK
    <3>4. QED
      BY <1>2, <3>1, <3>2, <3>3
  <2>2. QED
    BY <2>1
<1>7. IsTorrentzip' = IsTorrentzip /\ WantTorrentzip' = WantTorrentzip
  BY <1>1 DEF IsTorrentzip, WantTorrentzip
<1>8. \A k \in DOMAIN filelist : Seen(Listed(k))' = Seen(Listed(k))
  <2>1. ASSUME NEW k \in DOMAIN filelist
        PROVE  Seen(Listed(k))' = Seen(Listed(k))
    <3>1. Listed(k)'.orig = Listed(k).orig /\ Listed(k)'.source = Listed(k).source
      BY <1>4, <1>6
    <3>2. QED
      BY <1>1, <3>1 DEF Seen
  <2>2. QED
    BY <2>1
<1>9. OriginalsOK'
  <2>1. \A i \in Indices : Entry(i)'.orig = Entry(i).orig
    BY <1>4, <1>5
  <2>2. \A i \in Indices : Entry(i)'.orig # NULL => Original(Entry(i)'.orig)
    BY <2>1 DEF CloseInv, OriginalsOK
  <2>3. QED
    BY <1>1, <1>5, <1>7, <2>2 DEF OriginalsOK, Original
<1>10. QED
  BY <1>3, <1>4, <1>5, <1>6, <1>7, <1>8, <1>9


LEMMA PrepareEntryKeeps ==
    ASSUME CloseInv, PrepareEntry
    PROVE  CloseInv'
<1> DEFINE e == Current
           c == ChangesOf(e)
           d == [Merged(e) EXCEPT !.offset = Len(out)]
           r == Prepared(e)
<1>1. /\ LoopFrame /\ Closing /\ Closing' /\ j <= Len(filelist) /\ j' = j /\ out' = out
      /\ pc = "prepare" /\ pc' = "write"
      /\ entry' = [entry EXCEPT ![filelist[j] + 1] = Prepared(@)]
  BY DEF PrepareEntry, archiveVars, closeVars, LoopFrame, Closing
<1>2. /\ j \in DOMAIN filelist /\ e = Listed(j) /\ e \in Entries /\ e = entry[filelist[j] + 1]
      /\ filelist[j] \in Indices /\ Len(filelist) \in Nat /\ j \in Nat
      /\ filelist[j] + 1 \in DOMAIN entry
  <2>1. j \in DOMAIN filelist /\ filelist[j] \in Indices /\ Listed(j) \in Entries
        /\ Listed(j) = Entry(filelist[j]) /\ Len(filelist) \in Nat /\ j \in Nat
    BY <1>1, LoopFacts
  <2>2. entry \in Seq(Entries)
    BY DEF CloseInv, Typed
  <2>3. filelist[j] + 1 \in DOMAIN entry
    BY <2>1, <2>2, EntryTyped, LenProperties DEF CloseInv
  <2>4. QED
    BY <2>1, <2>3 DEF Current, Entry
<1>3. entry' = [entry EXCEPT ![filelist[j] + 1] = r]
  BY <1>1, <1>2
<1>4. /\ c \in Dirents
      /\ e.changes # NULL => c = e.changes
      /\ e.changes = NULL /\ e.orig # NULL => c.comp_size = e.orig.comp_size
  BY <1>2, Clones
<1>5. Len(out) \in Nat /\ out \in Seq(Cells)
  BY LenProperties DEF CloseInv, Typed
<1> DEFINE m == IF WantTorrentzip THEN "DEFLATE"
                ELSE IF e.orig = NULL \/ "COMP_METHOD" \in c.changed THEN c.comp_method
                ELSE IF e.source # NULL THEN "DEFLATE"
                ELSE e.orig.comp_method
<1>6. m \in Methods
  <2>1. "DEFLATE" \in Methods /\ c.comp_method \in Methods
    BY <1>4 DEF Methods, Dirents
  <2>2. e.orig # NULL => e.orig.comp_method \in Methods
    BY <1>2 DEF Entries, OrigDirents
  <2>3. QED
    BY <2>1, <2>2
<1>7. Merged(e) = [c EXCEPT !.comp_method = m]
  BY DEF Merged
<1>8. r = [e EXCEPT !.changes = d, !.ef_read = (e.orig # NULL)]
  BY DEF Prepared
<1>9. (e.orig # NULL) \in BOOLEAN
  OBVIOUS
<1> HIDE DEF e, c, m
<1>10. /\ d \in Dirents /\ d.offset = Len(out) /\ d.comp_method = m
       /\ d.comp_size = c.comp_size /\ d.changed = c.changed
  BY <1>4, <1>5, <1>6, <1>7 DEF Dirents
<1> HIDE DEF d
<1>11. r \in Entries /\ r.orig = e.orig /\ r.source = e.source /\ r.changes = d
  BY <1>2, <1>8, <1>9, <1>10 DEF Entries
<1> HIDE DEF r
<1>12. /\ entry' \in Seq(Entries) /\ Indices' = Indices
       /\ \A k \in DOMAIN filelist : Listed(k)' = IF k = j THEN r ELSE Listed(k)
       /\ \A i \in Indices : Entry(i)' = IF i = filelist[j] THEN r ELSE Entry(i)
       /\ \A k \in DOMAIN filelist : Seen(Listed(k))' = Seen(Listed(k))
       /\ OriginalsOK'
       /\ IsTorrentzip' = IsTorrentzip /\ WantTorrentzip' = WantTorrentzip
       /\ e = Entry(filelist[j])
  BY <1>1, <1>3, <1>11, CurrentSet DEF e
<1>13. /\ UNCHANGED <<file, can_clone, is_open, flags, stale, filelist, unchanged_offset, view>>
  BY <1>1 DEF LoopFrame
<1>14. Typed'
  BY <1>1, <1>12, <1>13 DEF CloseInv, Typed, Torrent
<1>15. FilelistOK'
  BY <1>1, <1>12, <1>13 DEF CloseInv, FilelistOK
<1>16. /\ Done' = Done /\ \A k \in Done : k \in DOMAIN filelist /\ k # j
       /\ ToDo' \subseteq ToDo /\ \A k \in ToDo' : k \in DOMAIN filelist /\ k # j
       /\ j \in ToDo
  <2>1. \A k \in DOMAIN filelist : k \in Nat
    BY <1>1, LoopFacts
  <2>2. Done' = Done /\ ToDo' = {k \in DOMAIN filelist : k > j}
    BY <1>1, <1>13 DEF Done, ToDo
  <2>3. QED
    BY <1>1, <1>2, <2>1, <2>2 DEF Done, ToDo
<1>17. OldData(r) => e.source = NULL /\ e.orig # NULL /\ "COMP_METHOD" \notin c.changed
  BY <1>10, <1>11, NullAssumption DEF OldData, MethodChanged
<1>18. /\ WantTorrentzip => m = "DEFLATE"
       /\ OldData(r) /\ ~WantTorrentzip => m = r.orig.comp_method
  BY <1>11, <1>17 DEF m
<1>18a. Listed(j)' = r
  BY <1>1, <1>2, <1>12 DEF Listed, Entry
<1>19. /\ r.changes # NULL /\ r.changes.offset = Len(out')
       /\ WantTorrentzip' => r.changes.comp_method = "DEFLATE"
       /\ OldData(r) /\ ~WantTorrentzip' => r.changes.comp_method = r.orig.comp_method
  <2>1. d # NULL
    BY <1>10, NullAssumption
  <2>2. QED
    BY <1>1, <1>10, <1>11, <1>12, <1>18, <2>1
<1>20. SizeKept(e) => SizeKept(r)
  <2>1. ASSUME SizeKept(e), OldData(r)
        PROVE  d.comp_size = r.orig.comp_size
    <3>1. CASE e.changes = NULL
      BY <1>4, <1>10, <1>11, <1>17, <2>1, <3>1
    <3>2. CASE e.changes # NULL
      <4>1. OldData(e)
        BY <1>4, <1>17, <2>1, <3>2 DEF OldData, MethodChanged
      <4>2. QED
        BY <1>4, <1>10, <1>11, <2>1, <3>2, <4>1 DEF SizeKept
    <3>3. QED
      BY <3>1, <3>2
  <2>2. QED
    BY <1>11, <2>1 DEF SizeKept
<1>21. DeflatedOK'
  <2>1. /\ WantTorrentzip => \A k \in Done : CentralEntry(Listed(k)').comp_method = "DEFLATE"
        /\ \A k \in Done : CentralEntry(Listed(k)') # NULL
    BY <1>1, <1>12, <1>16 DEF CloseInv, DeflatedOK
  <2>2. PreparedOK(Listed(j))'
    BY <1>19, <1>18a DEF PreparedOK
  <2>3. QED
    BY <1>1, <1>12, <1>16, <1>19, <2>1, <2>2 DEF DeflatedOK, PreparedOK
<1>22. ViewOK'
  <2>1. ASSUME ~stale
        PROVE  /\ view = [k \in DOMAIN filelist |-> Seen(Listed(k))]
               /\ \A k \in ToDo : ClonedOK(Listed(k)) /\ SizeKept(Listed(k))
               /\ \A k \in Done : FileAt(out, CentralEntry(Listed(k))) = view[k] /\ view[k] # NULL
               /\ ~WantTorrentzip => \A i \in Indices : SizeKept(Entry(i))
    BY <1>1, <2>1 DEF CloseInv, ViewOK
  <2>2. ASSUME ~stale PROVE view' = [k \in DOMAIN filelist' |-> Seen(Listed(k))']
    BY <1>12, <1>13, <2>1, <2>2
  <2>3. ASSUME ~stale, NEW k \in ToDo' PROVE ClonedOK(Listed(k))' /\ SizeKept(Listed(k)')
    <3>1. Listed(k)' = Listed(k) /\ ClonedOK(Listed(k)) /\ SizeKept(Listed(k))
      BY <1>12, <1>16, <2>1, <2>3
    <3>2. QED
      BY <1>1, <1>13, <3>1 DEF ClonedOK
  <2>4. ASSUME ~stale PROVE SizeKept(r)
    BY <1>2, <1>16, <1>20, <2>1, <2>4
  <2>5. ASSUME ~stale, NEW k \in Done
        PROVE  FileAt(out', CentralEntry(Listed(k)')) = view'[k] /\ view'[k] # NULL
    BY <1>1, <1>12, <1>13, <1>16, <2>1, <2>5
  <2>6. ASSUME ~stale, ~WantTorrentzip, NEW i \in Indices PROVE SizeKept(Entry(i)')
    BY <1>12, <2>1, <2>4, <2>6
  <2>8. ~stale => SizeKept(Listed(j)')
    BY <1>18a, <2>4
  <2>9. stale' = stale /\ DOMAIN filelist' = DOMAIN filelist
    BY <1>13
  <2>10. QED
    BY <1>1, <1>12, <1>16, <2>8, <2>9, <2>2, <2>3, <2>4, <2>5, <2>6 DEF ViewOK
<1>23. EntriesKept'
  BY <1>1 DEF EntriesKept
<1>24. QED
  BY <1>12, <1>23, <1>14, <1>15, <1>21, <1>22 DEF CloseInv

\* What an entry leads to once its data is in the archive.
LEMMA ListedType ==
    ASSUME CloseInv, Closing, NEW k \in Done
    PROVE  /\ k \in DOMAIN filelist /\ k \in Nat /\ k < j
           /\ CentralEntry(Listed(k)) \in Dirents
<1>1. k \in DOMAIN filelist /\ k < j
  BY DEF Done
<1>2. Listed(k) \in Entries /\ k \in Nat
  BY <1>1, LoopFacts
<1>3. CentralEntry(Listed(k)) # NULL
  BY DEF CloseInv, DeflatedOK
<1>4. CentralEntry(Listed(k)) \in Dirents
  BY <1>2, <1>3, OrigIsDirent DEF CentralEntry, Entries
<1>5. QED
  BY <1>1, <1>2, <1>4

\* What is appended disturbs neither the entries that are done nor those that
\* are to be done.
LEMMA AppendedKeeps ==
    ASSUME CloseInv, Closing, ~stale, NEW more \in Seq(Cells)
    PROVE  /\ \A k \in Done : /\ FileAt(out \o more, CentralEntry(Listed(k))) = view[k]
                              /\ view[k] # NULL
           /\ \A k \in ToDo :
                Listed(k).orig # NULL /\ Listed(k).orig.offset < unchanged_offset =>
                    /\ Listed(k).changes = NULL /\ Listed(k).source = NULL
                    /\ FileAt(out \o more, Listed(k).orig) = FileAt(file.cells, Listed(k).orig)
<1>1. out \in Seq(Cells)
  BY DEF CloseInv, Typed
<1>2. ASSUME NEW k \in Done
      PROVE  /\ FileAt(out \o more, CentralEntry(Listed(k))) = view[k]
             /\ view[k] # NULL
  <2>1. FileAt(out, CentralEntry(Listed(k))) = view[k] /\ view[k] # NULL
    BY DEF CloseInv, ViewOK
  <2>2. CentralEntry(Listed(k)) \in Dirents
    BY ListedType
  <2>3. QED
    BY <1>1, <2>1, <2>2, FileAtGrows
<1>3. ASSUME NEW k \in ToDo,
             Listed(k).orig # NULL, Listed(k).orig.offset < unchanged_offset
      PROVE  /\ Listed(k).changes = NULL /\ Listed(k).source = NULL
             /\ FileAt(out \o more, Listed(k).orig) = FileAt(file.cells, Listed(k).orig)
  <2>1. /\ Listed(k).changes = NULL /\ Listed(k).source = NULL
        /\ FileAt(out, Listed(k).orig) = FileAt(file.cells, Listed(k).orig)
    BY <1>3 DEF CloseInv, ViewOK, ClonedOK
  <2>2. k \in DOMAIN filelist /\ filelist[k] \in Indices /\ Listed(k) = Entry(filelist[k])
    BY LoopFacts DEF ToDo
  <2>3. Listed(k).orig \in Dirents /\ FileAt(file.cells, Listed(k).orig) # NULL
    BY <1>3, <2>2, OriginalTyped DEF CloseInv, Original
  <2>4. QED
    BY <1>1, <2>1, <2>3, FileAtGrows
<1>4. QED
  BY <1>2, <1>3

\* The current entry is written: what then has to hold of it.
LEMMA WrittenKeeps ==
    ASSUME CloseInv, Closing, pc = "write", LoopFrame, j' = j + 1, pc' = "prepare",
           NEW more \in Seq(Cells), out' = out \o more,
           NEW r \in Entries, r.orig = Current.orig, r.source = Current.source,
           entry' = [entry EXCEPT ![filelist[j] + 1] = r],
           r.changes # NULL,
           WantTorrentzip => r.changes.comp_method = "DEFLATE",
           ~stale => FileAt(out \o more, r.changes) = Seen(Current) /\ Seen(Current) # NULL,
           ~stale /\ ~WantTorrentzip => SizeKept(r)
    PROVE  CloseInv'
<1>1. /\ UNCHANGED <<file, can_clone, is_open, flags, stale, filelist, unchanged_offset, view>>
      /\ j <= Len(filelist) /\ Closing'
  BY DEF LoopFrame, Closing, CloseInv, FilelistOK
<1>2. /\ entry' \in Seq(Entries) /\ Indices' = Indices /\ j \in DOMAIN filelist
      /\ Current = Listed(j) /\ filelist[j] \in Indices /\ Current = Entry(filelist[j])
      /\ \A k \in DOMAIN filelist : Listed(k)' = IF k = j THEN r ELSE Listed(k)
      /\ \A i \in Indices : Entry(i)' = IF i = filelist[j] THEN r ELSE Entry(i)
      /\ \A k \in DOMAIN filelist : Seen(Listed(k))' = Seen(Listed(k))
      /\ OriginalsOK'
      /\ IsTorrentzip' = IsTorrentzip /\ WantTorrentzip' = WantTorrentzip
  BY <1>1, CurrentSet
<1>3. /\ Len(filelist) \in Nat /\ DOMAIN filelist = 1..Len(filelist) /\ j \in Nat /\ j >= 1
      /\ \A k \in DOMAIN filelist : k \in Nat
  BY LoopFacts
<1>4. /\ Done' = Done \cup {j} /\ ToDo' = ToDo
      /\ \A k \in Done : k \in DOMAIN filelist /\ k # j
      /\ \A k \in ToDo : k \in DOMAIN filelist /\ k # j
  <2>1. Done' = Done \cup {j} /\ \A k \in Done : k \in DOMAIN filelist /\ k # j
    BY <1>1, <1>2, <1>3 DEF Done
  <2>2. ToDo = {k \in DOMAIN filelist : k > j}
    BY DEF ToDo
  <2>3. ToDo' = {k \in DOMAIN filelist : k > j + 1 \/ k = j + 1}
    BY <1>1 DEF ToDo
  <2>4. \A k \in DOMAIN filelist : k > j <=> k > j + 1 \/ k = j + 1
    BY <1>3
  <2>5. QED
    BY <1>3, <2>1, <2>2, <2>3, <2>4
<1>5. CentralEntry(r) = r.changes
  BY DEF CentralEntry
<1>6. Typed'
  <2>1. out' \in Seq(Cells)
    BY ConcatProperties DEF CloseInv, Typed
  <2>2. QED
    BY <1>1, <1>2, <2>1 DEF CloseInv, Typed, Torrent, Closing
<1>7. EntriesKept'
  BY <1>1 DEF EntriesKept
<1>8. FilelistOK'
  <2>1. j + 1 \in 1..(Len(filelist) + 1)
    BY <1>1, <1>3
  <2>2. QED
    BY <1>1, <1>2, <2>1 DEF CloseInv, FilelistOK
<1>9. DeflatedOK'
  <2>1. \A k \in Done : /\ CentralEntry(Listed(k)) # NULL
                        /\ WantTorrentzip => CentralEntry(Listed(k)).comp_method = "DEFLATE"
    BY DEF CloseInv, DeflatedOK
  <2>2. \A k \in Done' : /\ CentralEntry(Listed(k)') # NULL
                         /\ WantTorrentzip => CentralEntry(Listed(k)').comp_method = "DEFLATE"
    BY <1>2, <1>4, <1>5, <2>1
  <2>3. pc' # "write"
    OBVIOUS
  <2>4. QED
    BY <1>2, <2>2, <2>3 DEF DeflatedOK
<1>10. ViewOK'
  <2>1. ASSUME ~stale
        PROVE  /\ view = [k \in DOMAIN filelist |-> Seen(Listed(k))]
               /\ \A k \in ToDo : SizeKept(Listed(k))
               /\ ~WantTorrentzip => \A i \in Indices : SizeKept(Entry(i))
    BY <2>1 DEF CloseInv, ViewOK
  <2>2. ASSUME ~stale PROVE view' = [k \in DOMAIN filelist' |-> Seen(Listed(k))']
    BY <1>1, <1>2, <2>1, <2>2
  <2>3. ASSUME ~stale, NEW k \in ToDo' PROVE ClonedOK(Listed(k))' /\ SizeKept(Listed(k)')
    <3>1. Listed(k)' = Listed(k) /\ SizeKept(Listed(k)) /\ k \in ToDo
      BY <1>2, <1>4, <2>1, <2>3
    <3>2. Listed(k).orig # NULL /\ Listed(k).orig.offset < unchanged_offset =>
                    /\ Listed(k).changes = NULL /\ Listed(k).source = NULL
                    /\ FileAt(out \o more, Listed(k).orig) = FileAt(file.cells, Listed(k).orig)
      BY <2>3, <3>1, AppendedKeeps
    <3>3. QED
      BY <1>1, <3>1, <3>2 DEF ClonedOK
  <2>4. ASSUME ~stale, NEW k \in Done'
        PROVE  FileAt(out', CentralEntry(Listed(k)')) = view'[k] /\ view'[k] # NULL
    <3>1. CASE k = j
      <4>1. Listed(k)' = r /\ view'[k] = Seen(Current)
        BY <1>1, <1>2, <2>1, <2>4, <3>1
      <4>2. QED
        BY <1>5, <2>4, <4>1
    <3>2. CASE k # j
      <4>1. k \in Done /\ Listed(k)' = Listed(k)
        BY <1>2, <1>4, <3>2
      <4>2. FileAt(out \o more, CentralEntry(Listed(k))) = view[k] /\ view[k] # NULL
        BY <2>4, <4>1, AppendedKeeps
      <4>3. QED
        BY <1>1, <4>1, <4>2
    <3>3. QED
      BY <3>1, <3>2
  <2>5. ASSUME ~stale, ~WantTorrentzip, NEW i \in Indices PROVE SizeKept(Entry(i)')
    BY <1>2, <2>1, <2>5
  <2>6. stale' = stale /\ DOMAIN filelist' = DOMAIN filelist
    BY <1>1
  <2>7. QED
    BY <1>2, <2>2, <2>3, <2>4, <2>5, <2>6 DEF ViewOK
<1>11. QED
  BY <1>2, <1>6, <1>7, <1>8, <1>9, <1>10 DEF CloseInv

\* The current entry when it is about to be written.
LEMMA WriteFacts ==
    ASSUME CloseInv, pc = "write"
    PROVE  /\ Closing /\ Current \in Entries /\ Current.changes \in Dirents
           /\ Current.changes # NULL /\ PreparedOK(Current)
           /\ j \in DOMAIN filelist /\ filelist[j] \in Indices
           /\ Current = Entry(filelist[j]) /\ Current = entry[filelist[j] + 1]
           /\ filelist[j] + 1 \in DOMAIN entry
           /\ ~stale => SizeKept(Current)
           /\ out \in Seq(Cells)
<1>1. Closing /\ j <= Len(filelist)
  BY DEF Closing, CloseInv, FilelistOK
<1>2. j \in DOMAIN filelist /\ filelist[j] \in Indices /\ Listed(j) \in Entries
      /\ Listed(j) = Entry(filelist[j])
  BY <1>1, LoopFacts
<1>3. Current = Listed(j) /\ Current = entry[filelist[j] + 1]
  BY <1>2 DEF Current, Entry
<1>4. entry \in Seq(Entries) /\ out \in Seq(Cells)
  BY DEF CloseInv, Typed
<1>5. filelist[j] + 1 \in DOMAIN entry
  BY <1>2, <1>4, EntryTyped, LenProperties DEF CloseInv
<1>6. PreparedOK(Current) /\ (~stale => SizeKept(Current))
  BY <1>1, <1>3 DEF CloseInv, DeflatedOK, ViewOK
<1>7. Current.changes # NULL
  BY <1>6 DEF PreparedOK
<1>8. Current.changes \in Dirents
  BY <1>2, <1>3, <1>7 DEF Entries
<1>9. QED
  BY <1>1, <1>2, <1>3, <1>4, <1>5, <1>6, <1>7, <1>8

LEMMA SeenIsFile ==
    ASSUME CloseInv, Closing
    PROVE  Seen(Current) # NULL /\ j \in DOMAIN filelist => Seen(Current) \in Files
<1> SUFFICES ASSUME Seen(Current) # NULL, j \in DOMAIN filelist
             PROVE  Seen(Current) \in Files
  OBVIOUS
<1>1. filelist[j] \in Indices /\ Current = Entry(filelist[j]) /\ Current \in Entries
  BY LoopFacts DEF Current
<1>2. Current.source # NULL => Current.source \in Files
  BY <1>1, SourcesAssumption DEF Entries
<1>3. Current.orig # NULL => Current.orig \in Dirents
  BY <1>1, OrigIsDirent DEF Entries
<1>4. Current.orig # NULL => FileAt(file.cells, Current.orig) \in Files \cup {NULL}
  BY <1>3, FileAtFacts
<1>5. QED
  BY <1>2, <1>4 DEF Seen

LEMMA WriteNewDataKeeps ==
    ASSUME CloseInv, WriteNewData
    PROVE  CloseInv'
<1> DEFINE e == Current
           s == Seen(e)
           m == e.changes.comp_method
           n == LengthOf(s, m)
           c == [e.changes EXCEPT !.comp_size = n]
           r == [e EXCEPT !.changes = c]
           more == Stored(s, m)
<1>1. /\ pc = "write" /\ NewData /\ s # NULL
      /\ entry' = [entry EXCEPT ![filelist[j] + 1] = WithNewSize(@, Seen(@))]
      /\ out' = out \o more /\ j' = j + 1 /\ pc' = "prepare" /\ LoopFrame
  BY DEF WriteNewData, archiveVars, LoopFrame
<1>2. /\ Closing /\ e \in Entries /\ e.changes \in Dirents
      /\ e.changes # NULL /\ PreparedOK(e)
      /\ j \in DOMAIN filelist
      /\ e = entry[filelist[j] + 1] /\ filelist[j] + 1 \in DOMAIN entry
      /\ out \in Seq(Cells)
  BY <1>1, WriteFacts
<1>3. s \in Files
  BY <1>1, <1>2, SeenIsFile
<1>4. m \in Methods
  BY <1>2 DEF Dirents
<1>5. WithNewSize(e, s) = r
  <2>1. WithNewSize(e, s) = [e EXCEPT !.changes = [e.changes EXCEPT !.comp_size = Length[s, e.changes.comp_method]]]
    BY DEF WithNewSize
  <2>2. QED
    BY <2>1, Zenon DEF LengthOf
<1>6. entry' = [entry EXCEPT ![filelist[j] + 1] = r]
  <2> HIDE DEF r
  <2>1. entry' = [entry EXCEPT ![filelist[j] + 1] = WithNewSize(e, s)]
    BY <1>1, <1>2
  <2>2. QED
    BY <1>5, <2>1
<1>8. NewData <=> e.source # NULL \/ MethodChanged(e) \/ (WantTorrentzip /\ ~IsTorrentzip)
  BY DEF NewData
<1> HIDE DEF e, s, m
<1>7. n \in Nat /\ more \in Seq(Cells)
  <2>1. n \in Nat
    BY <1>3, <1>4, StoredIs, Zenon DEF LengthOf
  <2>2. more \in Seq(Cells)
    BY <1>3, <1>4, StoredIs
  <2>3. QED
    BY <2>1, <2>2
<1>7a. n = LengthOf(s, m)
  OBVIOUS
<1> HIDE DEF n, more
<1>9. /\ c \in Dirents /\ c.comp_size = n /\ c.offset = e.changes.offset /\ c.changed = e.changes.changed
      /\ c.comp_method = e.changes.comp_method
  BY <1>2, <1>7 DEF Dirents
<1>10. c.offset = Len(out) /\ c.comp_method = m
  BY <1>2, <1>9 DEF PreparedOK, m
<1> HIDE DEF c
<1>11. r \in Entries /\ r.orig = e.orig /\ r.source = e.source /\ r.changes = c
  BY <1>2, <1>9 DEF Entries
<1> HIDE DEF r
<1>12. c # NULL
  BY <1>9, NullAssumption
<1>13. WantTorrentzip => c.comp_method = "DEFLATE"
  BY <1>2, <1>9 DEF PreparedOK
<1>14. FileAt(out \o Stored(s, c.comp_method), c) = s
  <2>1. c.comp_size = LengthOf(s, c.comp_method)
    BY <1>7a, <1>9, <1>10
  <2>2. QED
    BY <1>2, <1>3, <1>9, <1>10, <2>1, FileAtNew
<1>15. FileAt(out \o more, c) = Seen(Current) /\ Seen(Current) # NULL
  <2>1. more = Stored(s, c.comp_method)
    BY <1>10 DEF more
  <2>2. s = Seen(Current)
    BY DEF s, e
  <2>3. QED
    BY <1>1, <1>14, <2>1, <2>2
<1>16. ~WantTorrentzip => SizeKept(r)
  <2>1. ~WantTorrentzip => e.source # NULL \/ MethodChanged(e)
    BY <1>1, <1>8
  <2>2. MethodChanged(e) => MethodChanged(r)
    BY <1>9, <1>11, <1>12 DEF MethodChanged
  <2>3. QED
    BY <1>11, <2>1, <2>2, NewDataIsFree
<1>17. r.orig = Current.orig /\ r.source = Current.source
  BY <1>11 DEF e
<1>18. QED
  BY <1>1, <1>2, <1>6, <1>7, <1>11, <1>12, <1>13, <1>15, <1>16, <1>17, WrittenKeeps

LEMMA CopyDataKeeps ==
    ASSUME CloseInv, CopyData
    PROVE  CloseInv'
<1> DEFINE e == Current
           o == e.orig.offset
           z == e.changes.comp_size
           more == SubSeq(file.cells, o + 1, o + 1 + z)
           d == [e.changes EXCEPT !.offset = o]
<1>1. /\ pc = "write" /\ ~NewData /\ e.orig # NULL
      /\ entry' = entry /\ j' = j + 1 /\ pc' = "prepare" /\ LoopFrame
      /\ Extent(d) \subseteq DOMAIN file.cells
      /\ out' = out \o SubSeq(file.cells, d.offset + 1, d.offset + 1 + d.comp_size)
  BY DEF CopyData, archiveVars, LoopFrame
<1>2. /\ Closing /\ e \in Entries /\ e.changes \in Dirents
      /\ e.changes # NULL /\ PreparedOK(e)
      /\ j \in DOMAIN filelist /\ filelist[j] \in Indices
      /\ e = Entry(filelist[j])
      /\ e = entry[filelist[j] + 1] /\ filelist[j] + 1 \in DOMAIN entry
      /\ out \in Seq(Cells)
      /\ ~stale => SizeKept(e)
  BY <1>1, WriteFacts
<1>3. /\ e.orig \in Dirents /\ Original(e.orig) /\ file.cells \in Seq(Cells)
      /\ o \in Nat /\ z \in Nat
  <2>1. e.orig \in Dirents /\ Original(e.orig) /\ file.cells \in Seq(Cells)
    BY <1>1, <1>2, OriginalTyped DEF CloseInv
  <2>2. QED
    BY <1>2, <2>1 DEF Dirents
<1>4. OldData(e) /\ (WantTorrentzip => IsTorrentzip)
  BY <1>1 DEF NewData, OldData
<1>5. Seen(e) = FileAt(file.cells, e.orig) /\ Seen(e) # NULL
  BY <1>3, <1>4 DEF Seen, OldData, Original
<1>6. e.changes.comp_method = e.orig.comp_method
  BY <1>2, <1>3, <1>4 DEF PreparedOK, Original
<1>7. d.offset = o /\ d.comp_size = z
  BY <1>2 DEF Dirents
<1>8. out' = out \o more /\ (o + 1 .. o + 1 + z) \subseteq DOMAIN file.cells
  <2>1. Extent(d) = o + 1 .. o + 1 + z
    BY <1>7 DEF Extent
  <2>2. QED
    BY <1>1, <1>7, <2>1
<1>9. entry' = [entry EXCEPT ![filelist[j] + 1] = e]
  BY <1>1, <1>2 DEF CloseInv, Typed
<1>10. e.orig = Current.orig /\ e.source = Current.source /\ Seen(e) = Seen(Current)
  OBVIOUS
<1> HIDE DEF e, o, z, d
<1>11. /\ more \in Seq(Cells) /\ Len(more) = z + 1
       /\ \A k \in 1..(z + 1) : more[k] = file.cells[o + k]
  <2> DEFINE a == o + 1
             b == o + 1 + z
  <2>1. a \in Int /\ b \in Int /\ a <= b /\ b - a + 1 = z + 1 /\ \A k \in 1..(z + 1) : a + k - 1 = o + k
    BY <1>3
  <2>2. \A k \in a..b : file.cells[k] \in Cells
    BY <1>3, <1>8, ElementOfSeq, LenProperties
  <2> HIDE DEF a, b
  <2>3. /\ SubSeq(file.cells, a, b) \in Seq(Cells)
        /\ Len(SubSeq(file.cells, a, b)) = IF a <= b THEN b - a + 1 ELSE 0
        /\ \A k \in 1 .. b - a + 1 : SubSeq(file.cells, a, b)[k] = file.cells[a + k - 1]
    <3> HIDE DEF Cells
    <3>1. QED
      BY <2>1, <2>2, SubSeqProperties
  <2>4. more = SubSeq(file.cells, a, b)
    BY DEF a, b
  <2> HIDE DEF more
  <2>5. QED
    BY <2>1, <2>3, <2>4
<1> HIDE DEF more
<1>12. ASSUME ~stale
       PROVE  FileAt(out \o more, e.changes) = FileAt(file.cells, e.orig)
  <2> DEFINE all == out \o more
             l == Len(out)
  <2>1. e.changes.comp_size = e.orig.comp_size /\ z = e.orig.comp_size /\ e.changes.offset = l
    BY <1>2, <1>4, <1>12 DEF SizeKept, PreparedOK, z
  <2>2. /\ all \in Seq(Cells) /\ Len(all) = l + (z + 1) /\ l \in Nat
        /\ \A k \in 1..(l + (z + 1)) : all[k] = IF k <= l THEN out[k] ELSE more[k - l]
        /\ DOMAIN all = 1..(l + (z + 1))
    <3>0. out \in Seq(Cells) /\ more \in Seq(Cells)
      BY <1>2, <1>11
    <3>1. /\ all \in Seq(Cells) /\ Len(all) = Len(out) + Len(more)
          /\ \A k \in 1..(Len(out) + Len(more)) : all[k] = IF k <= Len(out) THEN out[k] ELSE more[k - Len(out)]
      <4> HIDE DEF Cells, o, z
      <4>1. QED
        BY <3>0, ConcatProperties
    <3>2. l \in Nat
      BY <1>2, LenProperties
    <3> HIDE DEF all
    <3>3. DOMAIN all = 1..Len(all)
      BY <3>1, LenProperties
    <3>4. QED
      BY <1>11, <3>1, <3>2, <3>3
  <2> HIDE DEF all, l
  <2>3. ASSUME NEW k \in 1..(z + 1)
        PROVE  l + k \in DOMAIN all /\ all[l + k] = file.cells[o + k]
    <3>1. l + k \in 1..(l + (z + 1)) /\ ~(l + k <= l) /\ (l + k) - l = k
      BY <1>3, <2>2, Shifted
    <3>2. QED
      BY <1>11, <2>2, <3>1
  <2>4. \A k \in 1..(e.orig.comp_size + 1) :
          e.changes.offset + k \in DOMAIN all /\ all[e.changes.offset + k] = file.cells[e.orig.offset + k]
    BY <2>1, <2>3 DEF o
  <2>5. FileAt(all, e.changes) = FileAt(file.cells, e.orig)
    BY <1>2, <1>3, <1>5, <1>6, <2>1, <2>4, FileAtSame
  <2>6. QED
    BY <2>5 DEF all
<1>13. WantTorrentzip => e.changes.comp_method = "DEFLATE"
  BY <1>2 DEF PreparedOK
<1>14. QED
  BY <1>1, <1>2, <1>5, <1>8, <1>9, <1>10, <1>11, <1>12, <1>13, WrittenKeeps

\* All entries are done when the directory is written.
LEMMA CommitFacts ==
    ASSUME CloseInv, Commit
    PROVE  /\ FreeArchive
           /\ file'.cells = out /\ out \in Seq(Cells)
           /\ Done = DOMAIN filelist
           /\ DOMAIN file'.cdir = DOMAIN filelist
           /\ \A k \in DOMAIN filelist :
                file'.cdir[k] = [CentralEntry(Listed(k)) EXCEPT !.changed = {}]
           /\ file' \in Archives
<1> DEFINE dir == [k \in DOMAIN filelist |-> [CentralEntry(Listed(k)) EXCEPT !.changed = {}]]
<1>1. /\ FreeArchive /\ pc = "prepare" /\ Closing /\ j > Len(filelist)
      /\ file' = [cells |-> out, cdir |-> dir, torrentzip |-> WantTorrentzip]
  BY DEF Commit, Closing, Listed
<1>2. /\ Len(filelist) \in Nat /\ DOMAIN filelist = 1..Len(filelist) /\ j \in Nat
  BY <1>1, LoopFacts
<1>3. Done = DOMAIN filelist
  BY <1>1, <1>2 DEF Done
<1>4. out \in Seq(Cells)
  BY DEF CloseInv, Typed
<1>5. \A k \in DOMAIN filelist : CentralEntry(Listed(k)) \in Dirents
  BY <1>1, <1>3, ListedType
<1>6. \A d \in Dirents : /\ [d EXCEPT !.changed = {}] \in OrigDirents
                         /\ [d EXCEPT !.changed = {}].comp_method = d.comp_method
  BY DEF Dirents, OrigDirents
<1>7. dir \in [1..Len(filelist) -> OrigDirents]
  BY <1>2, <1>5, <1>6
<1>8. dir \in Seq(OrigDirents) /\ DOMAIN dir = DOMAIN filelist
  BY <1>2, <1>7, FunctionIsSequence
<1>9. WantTorrentzip => \A k \in DOMAIN dir : dir[k].comp_method = "DEFLATE"
  <2>1. WantTorrentzip => \A k \in Done : CentralEntry(Listed(k)).comp_method = "DEFLATE"
    BY <1>1 DEF CloseInv, DeflatedOK
  <2>2. QED
    BY <1>3, <1>5, <1>6, <2>1
<1>10. \A k \in DOMAIN filelist : dir[k] = [CentralEntry(Listed(k)) EXCEPT !.changed = {}]
  OBVIOUS
<1> HIDE DEF dir
<1>11. file' \in Archives
  <2> DEFINE a == [cells |-> out, cdir |-> dir, torrentzip |-> WantTorrentzip]
  <2>1. WantTorrentzip \in BOOLEAN
    BY DEF WantTorrentzip
  <2>2. a \in [cells : Seq(Cells), cdir : Seq(OrigDirents), torrentzip : BOOLEAN]
    BY <1>4, <1>8, <2>1
  <2>3. a.torrentzip => \A k \in DOMAIN a.cdir : a.cdir[k].comp_method = "DEFLATE"
    BY <1>9
  <2> HIDE DEF a
  <2>4. a \in Archives
    BY <2>2, <2>3 DEF Archives, Cells
  <2>5. QED
    BY <1>1, <2>4 DEF a
<1>12. QED
  BY <1>1, <1>3, <1>4, <1>8, <1>10, <1>11

LEMMA FailsKeeps ==
    ASSUME CloseInv, Fails
    PROVE  CloseInv'
<1>1. /\ UNCHANGED <<file, can_clone, is_open, flags, entry>> /\ Closing
      /\ pc' = "idle" /\ out' = <<>> /\ stale' = (stale \/ can_clone \/ WantTorrentzip)
  BY DEF Fails, archiveVars, Closing
<1>2. /\ \A i : Entry(i)' = Entry(i)
      /\ Indices' = Indices /\ IsTorrentzip' = IsTorrentzip
  BY <1>1 DEF Entry, Indices, IsTorrentzip
<1>3. is_open
  BY <1>1, LoopFacts
<1>4. stale' \in BOOLEAN
  BY <1>1
<1>5. Typed'
  BY <1>1, <1>2, <1>3, <1>4, EmptyEntries DEF CloseInv, Typed, Torrent
<1>6. OriginalsOK'
  <2>1. \A i \in Indices : Entry(i).orig # NULL => Original(Entry(i).orig)
    BY DEF CloseInv, OriginalsOK
  <2>2. QED
    BY <1>1, <1>2, <2>1 DEF OriginalsOK, Original
<1>7. EntriesKept'
  <2>1. ~stale' => ~stale /\ ~can_clone /\ ~WantTorrentzip
    BY <1>1
  <2>2. ~stale' => \A i \in Indices : SizeKept(Entry(i))
    BY <1>1, <2>1 DEF CloseInv, ViewOK
  <2>3. QED
    BY <1>1, <1>2, <2>1, <2>2 DEF EntriesKept
<1>8. QED
  BY <1>1, <1>5, <1>6, <1>7 DEF CloseInv, FilelistOK, DeflatedOK, ViewOK, Closing

(***************************************************************************)
(* The theorems.                                                           *)
(***************************************************************************)

LEMMA CloseStepKeeps ==
    ASSUME CloseInv, CloseStep
    PROVE  CloseInv'
<1>1. CASE SkipEntry
  BY <1>1, SkipEntryKeeps
<1>2. CASE PrepareEntry
  BY <1>2, PrepareEntryKeeps
<1>3. CASE WriteNewData
  BY <1>3, WriteNewDataKeeps
<1>4. CASE CopyData
  BY <1>4, CopyDataKeeps
<1>5. CASE Commit
  BY <1>5, CommitFacts, FreeArchiveKeeps
<1>6. CASE Fails
  BY <1>6, FailsKeeps
<1>7. QED
  BY <1>1, <1>2, <1>3, <1>4, <1>5, <1>6 DEF CloseStep

LEMMA NextKeeps ==
    ASSUME CloseInv, [Next]_vars
    PROVE  CloseInv'
<1>1. CASE Open
  BY <1>1, OpenKeeps
<1>2. CASE Edit
  BY <1>2, EditKeeps
<1>3. CASE Discard \/ CloseUnchanged
  BY <1>3, FreeArchiveKeeps DEF Discard, CloseUnchanged
<1>4. CASE CloseAndRemove
  <2>1. CASE file' = NULL /\ FreeArchive
    BY <2>1, FreeArchiveKeeps
  <2>2. CASE UNCHANGED <<archiveVars, closeVars, entry, write_state, pc, sessions, stale>>
    <3>1. UNCHANGED InvVars
      BY <2>2 DEF archiveVars, closeVars, InvVars
    <3>2. QED
      BY <3>1, InvFrame
  <2>3. QED
    BY <1>4, <2>1, <2>2 DEF CloseAndRemove
<1>5. CASE BeginWrite
  BY <1>5, BeginWriteKeeps
<1>6. CASE CloseStep
  BY <1>6, CloseStepKeeps
<1>7. CASE UNCHANGED vars
  <2>1. UNCHANGED InvVars
    BY <1>7 DEF vars, archiveVars, closeVars, InvVars
  <2>2. QED
    BY <2>1, InvFrame
<1>8. QED
  BY <1>1, <1>2, <1>3, <1>4, <1>5, <1>6, <1>7 DEF Next

\* The states that any sequence of calls and of failures of zip_close reaches:
\* directory entries that are kept describe the data that is kept.
THEOREM CloseInvariant == Spec => []CloseInv
<1>1. CloseInv /\ [Next]_vars => CloseInv'
  BY NextKeeps
<1>2. QED
  BY <1>1, InitIsClosed, PTL DEF Spec

\* The mark of what has changed is not looked at.
LEMMA FileAtUnmarked ==
    ASSUME NEW cells, NEW d \in Dirents
    PROVE  FileAt(cells, [d EXCEPT !.changed = {}]) = FileAt(cells, d)
<1> DEFINE u == [d EXCEPT !.changed = {}]
<1>1. u \in Dirents /\ u.offset = d.offset /\ u.comp_size = d.comp_size /\ u.comp_method = d.comp_method
  BY DEF Dirents
<1> HIDE DEF u
<1>2. Extent(u) = Extent(d)
  BY <1>1 DEF Extent
<1>3. FileAt(cells, u) = FileAt(cells, d)
  BY <1>1, <1>2 DEF FileAt
<1>4. QED
  BY <1>3 DEF u

LEMMA CommitStores ==
    ASSUME CloseInv, Commit, ~stale
    PROVE  FilesOf(file') = view
<1>1. /\ file'.cells = out /\ out \in Seq(Cells)
      /\ Done = DOMAIN filelist
      /\ DOMAIN file'.cdir = DOMAIN filelist
      /\ \A k \in DOMAIN filelist :
           file'.cdir[k] = [CentralEntry(Listed(k)) EXCEPT !.changed = {}]
  BY CommitFacts
<1>2. Closing
  BY DEF Commit, Closing
<1>3. /\ view = [k \in DOMAIN filelist |-> Seen(Listed(k))]
      /\ \A k \in Done : FileAt(out, CentralEntry(Listed(k))) = view[k]
  BY <1>2 DEF CloseInv, ViewOK
<1>4. \A k \in DOMAIN filelist : FileAt(file'.cells, file'.cdir[k]) = view[k]
  <2>1. ASSUME NEW k \in DOMAIN filelist
        PROVE  FileAt(file'.cells, file'.cdir[k]) = view[k]
    <3>1. CentralEntry(Listed(k)) \in Dirents
      BY <1>1, <1>2, ListedType
    <3>2. FileAt(out, [CentralEntry(Listed(k)) EXCEPT !.changed = {}]) = FileAt(out, CentralEntry(Listed(k)))
      BY <3>1, FileAtUnmarked
    <3>3. QED
      BY <1>1, <1>3, <3>2
  <2>2. QED
    BY <2>1
<1>5. FilesOf(file') = [k \in DOMAIN filelist |-> FileAt(file'.cells, file'.cdir[k])]
  BY <1>1 DEF FilesOf
<1>6. QED
  BY <1>3, <1>4, <1>5

\* CommitStoresView: when zip_close commits, every entry of the directory that
\* it wrote leads to the data that the program saw in that entry.  Of the steps
\* of zip_close only the commit frees the archive.
THEOREM CommitStoresWhatWasSeen == Spec => CommitStoresView
<1>1. ASSUME CloseInv, [Next]_vars, pc # "idle", ~is_open', ~stale
      PROVE  FilesOf(file') = view
  <2>1. is_open /\ Closing
    BY <1>1, LoopFacts DEF Closing
  <2>2. CASE Commit
    BY <1>1, <2>2, CommitStores
  <2>3. CASE SkipEntry \/ PrepareEntry \/ WriteNewData \/ CopyData \/ Fails
    BY <1>1, <2>1, <2>3 DEF SkipEntry, PrepareEntry, WriteNewData, CopyData, Fails, archiveVars
  <2>4. CASE UNCHANGED vars
    BY <1>1, <2>1, <2>4 DEF vars, archiveVars
  <2>5. CASE Open
    BY <2>1, <2>5 DEF Open
  <2>6. CASE Edit
    BY <1>1, <2>6 DEF Edit, Idle, FileAdd, FileReplace, Delete, Unchange, SetComment, RestoreComment, Fopen,
                      SetCompression, SetTorrentzip, Fclose
  <2>7. CASE Discard \/ CloseUnchanged \/ CloseAndRemove \/ BeginWrite
    BY <1>1, <2>7 DEF Discard, CloseUnchanged, CloseAndRemove, BeginWrite, Idle
  <2>8. QED
    BY <1>1, <2>2, <2>3, <2>4, <2>5, <2>6, <2>7 DEF Next, CloseStep
<1>2. CloseInv /\ [Next]_vars => [pc # "idle" /\ ~is_open' /\ ~stale => FilesOf(file') = view]_vars
  BY <1>1
<1>3. QED
  BY <1>2, CloseInvariant, PTL DEF Spec, CommitStoresView
=============================================================================
