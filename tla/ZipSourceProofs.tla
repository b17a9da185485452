--------------------------- MODULE ZipSourceProofs ---------------------------
(***************************************************************************)
(* Proofs about ZipSource: for any number of sources, layers, windows and  *)
(* archives, a source has as many references as it has owners and is open  *)
(* at most as often as somebody wants to read it, nothing points to one    *)
(* that was freed, and its callback gets its commands in the order         *)
(* promised.                                                               *)
(*                                                                         *)
(* The calls of the library are operators on what is in memory, so the     *)
(* lemmas are about memory: m satisfies the invariant for the owners       *)
(* outside of it, h, and for those that have it open, o.  A call that      *)
(* takes a reference or an open away satisfies it for one less.            *)
(***************************************************************************)
EXTENDS ZipSource, FiniteSetTheorems, TLAPS

(***************************************************************************)
(* The inductive invariant.                                                *)
(***************************************************************************)

Callback == [reading : BOOLEAN, writing : {"no", "open", "failed"}, ok : BOOLEAN]

MemoryTyped ==
    [source : [Ids -> Source \cup {NULL}], callback : [Ids -> Callback],
     archive : [Archives -> Archive \cup {NULL}]]

AboveIn(m, s) == {l \in LiveIn(m) : m.source[l].lower = s}
OpenAbove(m, s) == {l \in AboveIn(m, s) : m.source[l].open_count > 0}

\* Every source has as many references as layers above it and owners outside,
\* and nobody owns what was freed.
Owned(m, h) ==
    \A s \in Ids :
        /\ s \in LiveIn(m) => m.source[s].refcount = h[s] + Cardinality(AboveIn(m, s))
        /\ s \notin LiveIn(m) => h[s] = 0

\* A layer is above a source that is there.
LayersStand(m) == \A s \in LiveIn(m) : m.source[s].lower \in LiveIn(m) \cup {NULL}

\* No layer is above itself: of some sources, one is not above any of them.
NoLoops(m) ==
    \A T \in SUBSET LiveIn(m) : T # {} => \E s \in T : m.source[s].lower \notin T

\* A source is open as often as by layers above it and by others, at most.
OpensCounted(m, o) ==
    \A s \in LiveIn(m) : m.source[s].open_count <= o[s] + Cardinality(OpenAbove(m, s))

\* The callback has been told what the source has counted.
ToldFor(c, r) ==
    /\ c.reading <=> r.open_count > 0
    /\ c.writing = "open" <=> r.write_state = "OPEN"
    /\ r.write_state = "FAILED" => c.writing # "no"

CallbacksTold(m) ==
    /\ \A s \in Ids : m.callback[s].ok
    /\ \A s \in LiveIn(m) : ToldFor(m.callback[s], m.source[s])

\* The windows that an archive knows of are there and know the archive.
WindowsKnow(m) ==
    \A a \in Archives : m.archive[a] # NULL =>
        \A w \in m.archive[a].open_source :
            w \in LiveIn(m) /\ m.source[w].source_archive = a /\ ~m.source[w].source_closed

\* What holds of memory between two calls, for h owners and o opens.
Sound(m, h, o) ==
    /\ m \in MemoryTyped /\ h \in [Ids -> Nat] /\ o \in [Ids -> Int]
    /\ Owned(m, h) /\ LayersStand(m) /\ NoLoops(m)
    /\ OpensCounted(m, o) /\ CallbacksTold(m) /\ WindowsKnow(m)

ArchivesFrom(m, s) == {a \in Archives : m.archive[a] # NULL /\ m.archive[a].src = s}
EntriesFrom(m, s) == {a \in Archives : m.archive[a] # NULL /\ m.archive[a].entry = s}

\* The program, the archives and their entries own references; the program and
\* the archives have opened sources.
OwnersIn(m, f) ==
    [s \in Ids |-> f[s] + Cardinality(ArchivesFrom(m, s)) + Cardinality(EntriesFrom(m, s))]
OpenersIn(m, f) == [s \in Ids |-> f[s] + Cardinality(ArchivesFrom(m, s))]

\* The program opens what it holds.
ProgramOK ==
    /\ held \in [Ids -> Nat] /\ opened \in [Ids -> Nat]
    /\ \A s \in Ids : opened[s] > 0 => held[s] > 0

SourceInv ==
    /\ Sound(Memory, OwnersIn(Memory, held), OpenersIn(Memory, opened))
    /\ ProgramOK
    /\ \A w \in windows :
          /\ w \in LiveIn(Memory)
          /\ \A a \in Archives : archive[a] # NULL => w \notin archive[a].open_source

USE FiniteAssumption, NullAssumption

(***************************************************************************)
(* Counting.                                                               *)
(***************************************************************************)

\* Sets of sources and of archives are finite.
LEMMA Counted ==
    /\ \A S \in SUBSET Ids : IsFiniteSet(S) /\ Cardinality(S) \in Nat
    /\ \A S \in SUBSET Archives : IsFiniteSet(S) /\ Cardinality(S) \in Nat
<1>1. ASSUME NEW S \in SUBSET Ids PROVE IsFiniteSet(S) /\ Cardinality(S) \in Nat
  BY FS_Subset, FS_CardinalityType
<1>2. ASSUME NEW S \in SUBSET Archives PROVE IsFiniteSet(S) /\ Cardinality(S) \in Nat
  BY FS_Subset, FS_CardinalityType
<1> QED
  BY <1>1, <1>2

\* A set of sources or archives has one element more, or less, than one that
\* it is but for one element.
LEMMA OneMore ==
    ASSUME NEW S, IsFiniteSet(S), NEW x, x \notin S
    PROVE  Cardinality(S \cup {x}) = Cardinality(S) + 1
BY FS_AddElement

LEMMA OneLess ==
    ASSUME NEW S, IsFiniteSet(S), NEW x \in S
    PROVE  Cardinality(S \ {x}) = Cardinality(S) - 1
BY FS_RemoveElement

\* A larger set of sources has more elements.
LEMMA Fewer ==
    ASSUME NEW S \in SUBSET Ids, NEW T \in SUBSET S
    PROVE  /\ Cardinality(T) \in Nat /\ Cardinality(S) \in Nat
           /\ Cardinality(T) <= Cardinality(S)
BY Counted, FS_Subset

\* Without one of its elements, a set of sources has one element less.
LEMMA FewerByOne ==
    ASSUME NEW S \in SUBSET Ids, NEW T \in SUBSET S, NEW x \in S, x \notin T
    PROVE  /\ Cardinality(T) \in Nat /\ Cardinality(S) \in Nat
           /\ Cardinality(T) + 1 <= Cardinality(S)
<1>1. T \in SUBSET (S \ {x}) /\ (S \ {x}) \in SUBSET Ids
  OBVIOUS
<1>2. Cardinality(T) <= Cardinality(S \ {x}) /\ Cardinality(T) \in Nat
  BY <1>1, Fewer
<1>3. Cardinality(S \ {x}) = Cardinality(S) - 1 /\ Cardinality(S) \in Nat
  BY OneLess, Counted
<1> QED
  BY <1>2, <1>3

\* The only element of a set that has one.
LEMMA OnlyOne ==
    ASSUME NEW S \in SUBSET Ids, Cardinality(S) <= 1, NEW x \in S, NEW y \in S
    PROVE  x = y
<1>1. SUFFICES ASSUME x # y PROVE FALSE
  OBVIOUS
<1>2. {x} \in SUBSET S /\ y \notin {x}
  BY <1>1
<1>3. Cardinality({x}) + 1 <= Cardinality(S) /\ Cardinality(S) \in Nat
  BY <1>2, FewerByOne
<1>4. Cardinality({x}) = 1
  BY FS_Singleton
<1> QED
  BY <1>3, <1>4

(***************************************************************************)
(* The layers that a command reaches.                                      *)
(***************************************************************************)

\* T contains what it passes a command on to.
Closed(m, T, passes) ==
    \A k \in passes : k \in T => m.source[k].lower \in T \cup {NULL}

\* Reached is the smallest set that contains s and is closed.
LEMMA ReachedIsClosed ==
    ASSUME NEW m, NEW s \in Ids, NEW passes \in SUBSET Ids,
           \A k \in passes : m.source[k].lower \in Ids \cup {NULL}
    PROVE  /\ s \in Reached(m, s, passes) /\ Reached(m, s, passes) \in SUBSET Ids
           /\ Closed(m, Reached(m, s, passes), passes)
BY DEF Reached, Closed

LEMMA ReachedIsSmallest ==
    ASSUME NEW m, NEW s \in Ids, NEW passes \in SUBSET Ids,
           NEW T \in SUBSET Ids, s \in T, Closed(m, T, passes)
    PROVE  Reached(m, s, passes) \subseteq T
BY DEF Reached, Closed

\* What is reached from s: s, and what is reached from the source below.
LEMMA ReachedUnfolds ==
    ASSUME NEW m, NEW s \in Ids, NEW passes \in SUBSET Ids,
           \A k \in passes : m.source[k].lower \in Ids \cup {NULL}
    PROVE  Reached(m, s, passes) =
               IF s \in passes /\ m.source[s].lower # NULL
               THEN {s} \cup Reached(m, m.source[s].lower, passes) ELSE {s}
<1> DEFINE R == Reached(m, s, passes)
<1>1. s \in R /\ R \in SUBSET Ids /\ Closed(m, R, passes)
  BY ReachedIsClosed
<1>2. CASE s \in passes /\ m.source[s].lower # NULL
  <2> DEFINE l == m.source[s].lower
             B == Reached(m, l, passes)
  <2>1. l \in Ids /\ l \in R
    BY <1>1, <1>2 DEF Closed
  <2>2. l \in B /\ B \in SUBSET Ids /\ Closed(m, B, passes)
    BY <2>1, ReachedIsClosed
  <2>3. Closed(m, {s} \cup B, passes)
    BY <2>2, <1>2 DEF Closed
  <2>4. R \subseteq {s} \cup B
    BY <2>2, <2>3, ReachedIsSmallest
  <2>5. B \subseteq R
    BY <2>1, <1>1, ReachedIsSmallest
  <2> QED
    BY <1>1, <1>2, <2>4, <2>5
<1>3. CASE ~(s \in passes /\ m.source[s].lower # NULL)
  <2>1. Closed(m, {s}, passes)
    BY <1>3 DEF Closed
  <2>2. R \subseteq {s}
    BY <2>1, ReachedIsSmallest
  <2> QED
    BY <1>1, <1>3, <2>2
<1> QED
  BY <1>2, <1>3

\* Of two sources that are reached, one is reached from the other.
LEMMA ReachedIsChain ==
    ASSUME NEW m, NEW s \in Ids, NEW passes \in SUBSET Ids,
           \A k \in passes : m.source[k].lower \in Ids \cup {NULL},
           NEW x \in Reached(m, s, passes), NEW y \in Reached(m, s, passes)
    PROVE  y \in Reached(m, x, passes) \/ x \in Reached(m, y, passes)
<1> DEFINE R == Reached(m, s, passes)
           T == {z \in R : z \in Reached(m, x, passes) \/ x \in Reached(m, z, passes)}
<1>1. s \in R /\ R \in SUBSET Ids /\ Closed(m, R, passes)
  BY ReachedIsClosed
<1>2. x \in Ids /\ Closed(m, Reached(m, x, passes), passes) /\ x \in Reached(m, x, passes)
  BY <1>1, ReachedIsClosed
<1>3. ASSUME NEW k \in T \cap passes, m.source[k].lower # NULL PROVE m.source[k].lower \in T
  <2> DEFINE l == m.source[k].lower
  <2>1. l \in R /\ k \in Ids
    BY <1>1, <1>3 DEF Closed
  <2>2. CASE k \in Reached(m, x, passes)
    BY <2>1, <2>2, <1>2, <1>3 DEF Closed
  <2>3. CASE x \in Reached(m, k, passes)
    <3>1. Reached(m, k, passes) = {k} \cup Reached(m, l, passes)
      BY <2>1, <1>3, ReachedUnfolds
    <3>2. x = k \/ x \in Reached(m, l, passes)
      BY <2>3, <3>1
    <3> QED
      BY <3>2, <2>1, <2>2, <1>2
  <2> QED
    BY <2>2, <2>3
<1>4. Closed(m, T, passes)
  BY <1>3 DEF Closed
<1>5. s \in T /\ T \in SUBSET Ids
  BY <1>1
<1>6. R \subseteq T
  BY <1>4, <1>5, ReachedIsSmallest
<1> QED
  BY <1>6

\* Every source that is reached below s is below one that passes the command.
LEMMA ReachedFromAbove ==
    ASSUME NEW m, NEW s \in Ids, NEW passes \in SUBSET Ids,
           \A k \in passes : m.source[k].lower \in Ids \cup {NULL},
           NEW x \in Reached(m, s, passes), x # s
    PROVE  \E p \in Reached(m, s, passes) \cap passes : m.source[p].lower = x
<1> DEFINE R == Reached(m, s, passes)
           T == R \ {x}
<1>1. s \in R /\ R \in SUBSET Ids /\ Closed(m, R, passes)
  BY ReachedIsClosed
<1>2. SUFFICES ASSUME ~\E p \in R \cap passes : m.source[p].lower = x PROVE FALSE
  OBVIOUS
<1>3. Closed(m, T, passes)
  BY <1>1, <1>2 DEF Closed
<1>4. s \in T /\ T \in SUBSET Ids
  BY <1>1
<1>5. R \subseteq T
  BY <1>3, <1>4, ReachedIsSmallest
<1> QED
  BY <1>5

\* Where the command stops, there is one source at most.
LEMMA ReachedStopsOnce ==
    ASSUME NEW m, NEW s \in Ids, NEW passes \in SUBSET Ids,
           \A k \in passes : m.source[k].lower \in Ids \cup {NULL},
           NEW x \in Reached(m, s, passes) \ passes, NEW y \in Reached(m, s, passes) \ passes
    PROVE  x = y
<1>1. x \in Ids /\ y \in Ids
  BY ReachedIsClosed
<1>2. Reached(m, x, passes) = {x} /\ Reached(m, y, passes) = {y}
  BY <1>1, ReachedUnfolds
<1>3. y \in Reached(m, x, passes) \/ x \in Reached(m, y, passes)
  BY ReachedIsChain
<1> QED
  BY <1>2, <1>3

\* And above it one that passes it the command.
LEMMA ReachedOnceFromAbove ==
    ASSUME NEW m, NEW s \in Ids, NEW passes \in SUBSET Ids,
           \A k \in passes : m.source[k].lower \in Ids \cup {NULL},
           NEW x \in Ids \ passes,
           NEW p \in Reached(m, s, passes) \cap passes, m.source[p].lower = x,
           NEW q \in Reached(m, s, passes) \cap passes, m.source[q].lower = x
    PROVE  p = q
<1>1. p \in Ids /\ q \in Ids
  OBVIOUS
<1>2. Reached(m, x, passes) = {x}
  BY ReachedUnfolds
<1>3. x # NULL
  OBVIOUS
<1>4. Reached(m, p, passes) = {p, x} /\ Reached(m, q, passes) = {q, x}
  <2>1. Reached(m, p, passes) = {p} \cup Reached(m, x, passes)
    BY <1>1, <1>3, ReachedUnfolds
  <2>2. Reached(m, q, passes) = {q} \cup Reached(m, x, passes)
    BY <1>1, <1>3, ReachedUnfolds
  <2> QED
    BY <2>1, <2>2, <1>2
<1>5. q \in Reached(m, p, passes) \/ p \in Reached(m, q, passes)
  BY ReachedIsChain
<1> QED
  BY <1>4, <1>5

\* Nothing that is reached from x is above x.
LEMMA ReachedHasNoLoop ==
    ASSUME NEW m, NEW passes \in SUBSET LiveIn(m), LayersStand(m), NoLoops(m),
           NEW x \in LiveIn(m), NEW p \in Reached(m, x, passes) \cap passes
    PROVE  m.source[p].lower # x
<1> DEFINE RR(z) == Reached(m, z, passes)
           T == {y \in RR(x) : x \in RR(y)}
<1>0. LiveIn(m) \in SUBSET Ids /\ NULL \notin Ids /\ passes \in SUBSET Ids
  BY DEF LiveIn
<1>1. \A k \in passes : m.source[k].lower \in Ids \cup {NULL}
  BY <1>0 DEF LayersStand
<1>2. SUFFICES ASSUME m.source[p].lower = x PROVE FALSE
  OBVIOUS
<1>3. x \in RR(x) /\ RR(x) \in SUBSET Ids /\ Closed(m, RR(x), passes)
  BY <1>0, <1>1, ReachedIsClosed
<1>4. x \in T
  BY <1>3
<1>5. T \in SUBSET LiveIn(m)
  <2>1. Closed(m, LiveIn(m), passes)
    BY DEF Closed, LayersStand
  <2>2. RR(x) \subseteq LiveIn(m)
    BY <1>0, <2>1, ReachedIsSmallest
  <2> QED
    BY <2>2
<1>6. ASSUME NEW y \in T PROVE m.source[y].lower \in T
  <2> DEFINE l == m.source[y].lower
  <2>0. y \in Ids /\ y \in RR(x) /\ x \in RR(y)
    BY <1>3
  <2>1. CASE y \in passes /\ l # NULL
    <3>1. RR(y) = {y} \cup RR(l) /\ l \in Ids /\ l \in RR(x)
      BY <2>0, <2>1, <1>0, <1>1, <1>3, ReachedUnfolds DEF Closed
    <3>2. x = y \/ x \in RR(l)
      BY <2>0, <3>1
    <3>3. CASE x = y
      <4>1. p = x \/ p \in RR(l)
        BY <3>1, <3>3
      <4>2. CASE p = x
        BY <4>2, <3>3, <1>2, <1>4
      <4>3. CASE p \in RR(l)
        <5>1. Closed(m, RR(l), passes)
          BY <3>1, <1>0, <1>1, ReachedIsClosed
        <5>2. x \in RR(l)
          BY <5>1, <4>3, <1>2, <1>0 DEF Closed
        <5> QED
          BY <5>2, <3>1
      <4> QED
        BY <4>1, <4>2, <4>3
    <3> QED
      BY <3>1, <3>2, <3>3
  <2>2. CASE ~(y \in passes /\ l # NULL)
    <3>1. RR(y) = {y}
      BY <2>0, <2>2, <1>0, <1>1, ReachedUnfolds
    <3>2. x = y /\ p = x
      BY <2>0, <3>1
    <3> QED
      BY <3>2, <2>2, <1>2, <1>0
  <2> QED
    BY <2>1, <2>2
<1> QED
  BY <1>4, <1>5, <1>6 DEF NoLoops

\* Every source that is reached is below one of the others at most.
LEMMA ReachedFromOne ==
    ASSUME NEW m, NEW passes \in SUBSET LiveIn(m), LayersStand(m), NoLoops(m),
           NEW s \in LiveIn(m), NEW x \in LiveIn(m),
           NEW p \in Reached(m, s, passes) \cap passes, m.source[p].lower = x,
           NEW q \in Reached(m, s, passes) \cap passes, m.source[q].lower = x
    PROVE  p = q
<1>0. LiveIn(m) \in SUBSET Ids /\ NULL \notin Ids /\ passes \in SUBSET Ids
  BY DEF LiveIn
<1>1. \A k \in passes : m.source[k].lower \in Ids \cup {NULL}
  BY <1>0 DEF LayersStand
<1>2. x # NULL /\ x \in Ids /\ s \in Ids /\ p \in Ids /\ q \in Ids
  BY <1>0
<1>3. Reached(m, p, passes) = {p} \cup Reached(m, x, passes)
  BY <1>1, <1>2, <1>0, ReachedUnfolds
<1>4. Reached(m, q, passes) = {q} \cup Reached(m, x, passes)
  BY <1>1, <1>2, <1>0, ReachedUnfolds
<1>5. q \in Reached(m, p, passes) \/ p \in Reached(m, q, passes)
  BY <1>0, <1>1, <1>2, ReachedIsChain
<1>6. p \notin Reached(m, x, passes) /\ q \notin Reached(m, x, passes)
  BY ReachedHasNoLoop
<1> QED
  BY <1>3, <1>4, <1>5, <1>6

(***************************************************************************)
(* What the calls of the callbacks and the counts change.                  *)
(***************************************************************************)

Commands == {"OPEN", "CLOSE", "BEGIN_WRITE", "COMMIT_WRITE", "COMMIT_WRITE fails",
             "ROLLBACK_WRITE", "FREE"}

LEMMA LiveTyped ==
    ASSUME NEW m \in MemoryTyped
    PROVE  /\ LiveIn(m) \in SUBSET Ids /\ NULL \notin Ids
           /\ \A i \in LiveIn(m) : m.source[i] \in Source
           /\ \A i \in Ids : m.callback[i] \in Callback
           /\ \A s : AboveIn(m, s) \in SUBSET Ids /\ OpenAbove(m, s) \in SUBSET AboveIn(m, s)
BY DEF MemoryTyped, LiveIn, AboveIn, OpenAbove

LEMMA AfterTyped ==
    ASSUME NEW c \in Callback, NEW cmd \in Commands
    PROVE  After(c, cmd) \in Callback
<1>1. (c.ok /\ Follows(c, cmd)) \in BOOLEAN
  OBVIOUS
<1> QED
  BY <1>1 DEF After, Callback, Commands

\* Only callbacks learn of a command.
LEMMA CallEffect ==
    ASSUME NEW m \in MemoryTyped, NEW ids, NEW cmd \in Commands
    PROVE  /\ Call(m, ids, cmd) \in MemoryTyped
           /\ Call(m, ids, cmd).source = m.source /\ Call(m, ids, cmd).archive = m.archive
           /\ \A i \in Ids :
                 Call(m, ids, cmd).callback[i] =
                     IF i \in ids THEN After(m.callback[i], cmd) ELSE m.callback[i]
<1> DEFINE new == [i \in Ids |-> IF i \in ids THEN After(m.callback[i], cmd) ELSE m.callback[i]]
<1>1. Call(m, ids, cmd) = [m EXCEPT !.callback = new]
  BY DEF Call
<1>2. new \in [Ids -> Callback]
  BY AfterTyped, LiveTyped
<1>3. \A i \in Ids : new[i] = IF i \in ids THEN After(m.callback[i], cmd) ELSE m.callback[i]
  OBVIOUS
<1> HIDE DEF new
<1> QED
  BY <1>1, <1>2, <1>3 DEF MemoryTyped

\* The same layers, with as many owners.
SameStack(m, n) ==
    /\ LiveIn(n) = LiveIn(m)
    /\ \A i \in LiveIn(m) :
          n.source[i].lower = m.source[i].lower /\ n.source[i].refcount = m.source[i].refcount

\* Only how often they are open may differ.
SameLayers(m, n) ==
    /\ SameStack(m, n)
    /\ \A i \in LiveIn(m) :
          /\ n.source[i].write_state = m.source[i].write_state
          /\ n.source[i].supports = m.source[i].supports
          /\ n.source[i].source_archive = m.source[i].source_archive
          /\ n.source[i].source_closed = m.source[i].source_closed
    /\ n.archive = m.archive

\* What such memory has in common.
LEMMA StackKept ==
    ASSUME NEW m, NEW n, SameStack(m, n)
    PROVE  /\ \A s : AboveIn(n, s) = AboveIn(m, s)
           /\ \A h : Owned(m, h) => Owned(n, h)
           /\ LayersStand(m) => LayersStand(n)
           /\ NoLoops(m) => NoLoops(n)
<1>1. \A s : AboveIn(n, s) = AboveIn(m, s)
  BY DEF AboveIn, SameStack
<1>2. ASSUME NEW h, Owned(m, h) PROVE Owned(n, h)
  <2>1. \A s \in Ids : AboveIn(n, s) = AboveIn(m, s)
    BY <1>1
  <2> QED
    BY <2>1, <1>2 DEF Owned, SameStack
<1>3. LayersStand(m) => LayersStand(n)
  BY DEF LayersStand, SameStack
<1>4. ASSUME NoLoops(m) PROVE NoLoops(n)
  <2>1. SUFFICES ASSUME NEW T \in SUBSET LiveIn(n), T # {}
                 PROVE  \E s \in T : n.source[s].lower \notin T
    BY DEF NoLoops
  <2>2. PICK s \in T : m.source[s].lower \notin T
    BY <1>4, <2>1 DEF NoLoops, SameStack
  <2>3. n.source[s].lower = m.source[s].lower
    BY <2>1 DEF SameStack
  <2> QED
    BY <2>2, <2>3
<1> QED
  BY <1>1, <1>2, <1>3, <1>4

LEMMA LayersKept ==
    ASSUME NEW m, NEW n, SameLayers(m, n)
    PROVE  /\ \A s : AboveIn(n, s) = AboveIn(m, s)
           /\ \A h : Owned(m, h) => Owned(n, h)
           /\ LayersStand(m) => LayersStand(n)
           /\ NoLoops(m) => NoLoops(n)
           /\ WindowsKnow(m) => WindowsKnow(n)
<1>1. SameStack(m, n)
  BY DEF SameLayers
<1>2. WindowsKnow(m) => WindowsKnow(n)
  BY DEF WindowsKnow, SameLayers, SameStack
<1> QED
  BY <1>1, <1>2, StackKept

\* Sources that are open as often are counted as before.
LEMMA CountsKept ==
    ASSUME NEW m, NEW n, SameStack(m, n), NEW o, OpensCounted(m, o),
           \A i \in LiveIn(m) : n.source[i].open_count = m.source[i].open_count
    PROVE  OpensCounted(n, o)
<1>1. \A i \in LiveIn(m) : AboveIn(n, i) = AboveIn(m, i)
  BY StackKept
<1>2. \A i \in LiveIn(m) : OpenAbove(n, i) = OpenAbove(m, i)
  BY <1>1 DEF OpenAbove, AboveIn
<1> QED
  BY <1>2 DEF OpensCounted, SameStack

\* Some sources are open once more, or once less.
LEMMA CountEffect ==
    ASSUME NEW m \in MemoryTyped, NEW ids \in SUBSET LiveIn(m), NEW d \in {1, -1},
           \A i \in ids : m.source[i].open_count + d \in Nat
    PROVE  LET n == WithCount(m, ids, d)
           IN  /\ n \in MemoryTyped /\ n.callback = m.callback /\ SameLayers(m, n)
               /\ \A i \in LiveIn(m) :
                     n.source[i].open_count =
                         IF i \in ids THEN m.source[i].open_count + d
                         ELSE m.source[i].open_count
<1> DEFINE new == [i \in Ids |-> IF i \in ids THEN [m.source[i] EXCEPT !.open_count = @ + d]
                                 ELSE m.source[i]]
           n == WithCount(m, ids, d)
<1>1. n = [m EXCEPT !.source = new]
  BY DEF WithCount
<1>2. \A i \in Ids : new[i] = IF i \in ids THEN [m.source[i] EXCEPT !.open_count = @ + d]
                              ELSE m.source[i]
  OBVIOUS
<1>3. ASSUME NEW i \in ids
      PROVE  /\ new[i] \in Source /\ new[i].open_count = m.source[i].open_count + d
             /\ new[i].lower = m.source[i].lower
             /\ new[i].refcount = m.source[i].refcount
             /\ new[i].write_state = m.source[i].write_state
             /\ new[i].supports = m.source[i].supports
             /\ new[i].source_archive = m.source[i].source_archive
             /\ new[i].source_closed = m.source[i].source_closed
  <2>1. m.source[i] \in Source /\ i \in Ids
    BY LiveTyped
  <2>2. new[i] = [m.source[i] EXCEPT !.open_count = @ + d]
    BY <1>2, <2>1
  <2>3. m.source[i].open_count + d \in Nat
    OBVIOUS
  <2> HIDE DEF new
  <2> QED
    BY <2>1, <2>2, <2>3 DEF Source
<1>4. new \in [Ids -> Source \cup {NULL}]
  <2>1. \A i \in Ids : m.source[i] \in Source \cup {NULL}
    BY DEF MemoryTyped
  <2>2. \A i \in Ids : new[i] \in Source \cup {NULL}
    BY <1>2, <1>3, <2>1
  <2> QED
    BY <2>2
<1>5. DOMAIN m = {"source", "callback", "archive"} /\ n.source = new
      /\ n.callback = m.callback /\ n.archive = m.archive /\ n \in MemoryTyped
  <2> HIDE DEF new, n
  <2> QED
    BY <1>1, <1>4 DEF MemoryTyped
<1>6. NULL \notin Source
  OBVIOUS
<1>7. \A i \in Ids : new[i] # NULL <=> m.source[i] # NULL
  <2>1. \A i \in ids : m.source[i] # NULL /\ new[i] # NULL
    BY <1>3, <1>6 DEF LiveIn
  <2> QED
    BY <1>2, <2>1
<1> HIDE DEF new, n
<1>8. LiveIn(n) = LiveIn(m)
  BY <1>5, <1>7 DEF LiveIn
<1>9. \A i \in LiveIn(m) : i \in Ids /\ (i \notin ids => new[i] = m.source[i])
  BY <1>2 DEF LiveIn
<1>10. SameLayers(m, n)
  BY <1>3, <1>5, <1>8, <1>9 DEF SameLayers, SameStack
<1> QED
  BY <1>3, <1>5, <1>9, <1>10 DEF n

\* What a callback knows after a command that it was to get.
LEMMA AfterCommand ==
    ASSUME NEW c \in Callback, NEW cmd \in Commands, c.ok, Follows(c, cmd)
    PROVE  /\ After(c, cmd).ok
           /\ cmd = "OPEN" => After(c, cmd).reading
           /\ cmd \in {"CLOSE", "FREE"} => ~After(c, cmd).reading
           /\ cmd \notin {"OPEN", "CLOSE", "FREE"} => (After(c, cmd).reading <=> c.reading)
           /\ cmd \in {"OPEN", "CLOSE"} => After(c, cmd).writing = c.writing
           /\ cmd = "BEGIN_WRITE" => After(c, cmd).writing = "open"
           /\ cmd = "COMMIT_WRITE fails" => After(c, cmd).writing = "failed"
           /\ cmd \in {"COMMIT_WRITE", "ROLLBACK_WRITE", "FREE"} => After(c, cmd).writing = "no"
<1>1. After(c, cmd).ok = (c.ok /\ Follows(c, cmd))
  BY DEF After
<1>2. After(c, cmd).reading = IF cmd \in {"OPEN", "CLOSE", "FREE"} THEN cmd = "OPEN" ELSE c.reading
  BY DEF After
<1>3. After(c, cmd).writing =
          CASE cmd = "BEGIN_WRITE" -> "open"
            [] cmd = "COMMIT_WRITE fails" -> "failed"
            [] cmd \in {"COMMIT_WRITE", "ROLLBACK_WRITE", "FREE"} -> "no"
            [] OTHER -> c.writing
  BY DEF After
<1> QED
  BY <1>1, <1>2, <1>3 DEF Commands

(***************************************************************************)
(* zip_source_open.                                                        *)
(***************************************************************************)

\* The sources that it opens: s, and every one below a layer that was not open.
LEMMA OpenedFacts ==
    ASSUME NEW m \in MemoryTyped, LayersStand(m), NEW s \in LiveIn(m)
    PROVE  /\ s \in OpenedLayers(m, s) /\ OpenedLayers(m, s) \subseteq LiveIn(m)
           /\ \A i \in OpenedLayers(m, s) \ {s} :
                 \E p \in OpenedLayers(m, s) :
                     m.source[p].open_count = 0 /\ m.source[p].lower = i
<1> DEFINE P == {i \in LiveIn(m) : ~IsOpen(m, i)}
<1>1. P \in SUBSET Ids /\ LiveIn(m) \in SUBSET Ids /\ s \in Ids
  BY LiveTyped
<1>2. \A k \in P : m.source[k].lower \in Ids \cup {NULL}
  BY <1>1 DEF LayersStand
<1>3. Closed(m, LiveIn(m), P)
  BY DEF Closed, LayersStand
<1>4. OpenedLayers(m, s) = Reached(m, s, P)
  BY DEF OpenedLayers
<1>5. \A i \in P : m.source[i].open_count = 0
  BY LiveTyped DEF IsOpen, Source
<1> HIDE DEF P
<1>6. Reached(m, s, P) \subseteq LiveIn(m) /\ s \in Reached(m, s, P)
  BY <1>1, <1>2, <1>3, ReachedIsSmallest, ReachedIsClosed
<1>7. ASSUME NEW i \in Reached(m, s, P), i # s
      PROVE  \E p \in Reached(m, s, P) \cap P : m.source[p].lower = i
  BY <1>1, <1>2, <1>7, ReachedFromAbove
<1> QED
  BY <1>4, <1>5, <1>6, <1>7

\* An open of s more is accounted for.
LEMMA OpenKeeps ==
    ASSUME NEW m, NEW h, NEW o, Sound(m, h, o), NEW s \in LiveIn(m)
    PROVE  /\ Sound(Open(m, s), h, [o EXCEPT ![s] = @ + 1])
           /\ SameLayers(m, Open(m, s))
<1> DEFINE L == OpenedLayers(m, s)
           N == {i \in L : ~IsOpen(m, i)}
           c == Call(m, N, "OPEN")
           n == WithCount(c, L, 1)
           o2 == [o EXCEPT ![s] = @ + 1]
<1>0. m \in MemoryTyped /\ h \in [Ids -> Nat] /\ o \in [Ids -> Int] /\ LayersStand(m) /\ s \in Ids
  BY DEF Sound, LiveIn
<1>1. Open(m, s) = n
  BY DEF Open
<1>2. /\ s \in L /\ L \subseteq LiveIn(m)
      /\ \A i \in L \ {s} : \E p \in L : m.source[p].open_count = 0 /\ m.source[p].lower = i
  BY <1>0, OpenedFacts
<1>3. LiveIn(m) \in SUBSET Ids /\ \A i \in LiveIn(m) : m.source[i] \in Source
  BY <1>0, LiveTyped
<1>4. \A i \in LiveIn(m) : m.source[i].open_count \in Nat
  BY <1>3 DEF Source
<1>5. N = {i \in L : m.source[i].open_count = 0}
  BY <1>2, <1>4 DEF IsOpen
<1> HIDE DEF L, N
<1>6. /\ c \in MemoryTyped /\ c.source = m.source /\ c.archive = m.archive
      /\ \A i \in Ids : c.callback[i] = IF i \in N THEN After(m.callback[i], "OPEN")
                                        ELSE m.callback[i]
  <2>1. "OPEN" \in Commands
    BY DEF Commands
  <2> QED
    BY <1>0, <2>1, CallEffect
<1> HIDE DEF c
<1>7. LiveIn(c) = LiveIn(m) /\ SameLayers(m, c)
  BY <1>6 DEF LiveIn, SameLayers, SameStack
<1>8. /\ n \in MemoryTyped /\ n.callback = c.callback /\ SameLayers(c, n)
      /\ \A i \in LiveIn(m) :
            n.source[i].open_count = IF i \in L THEN m.source[i].open_count + 1
                                     ELSE m.source[i].open_count
  BY <1>2, <1>4, <1>6, <1>7, CountEffect
<1> HIDE DEF n
<1>9. SameLayers(m, n)
  BY <1>7, <1>8 DEF SameLayers, SameStack
<1>10. /\ Owned(n, h) /\ LayersStand(n) /\ NoLoops(n) /\ WindowsKnow(n)
       /\ \A i : AboveIn(n, i) = AboveIn(m, i)
  BY <1>9, LayersKept DEF Sound
<1>11. LiveIn(n) = LiveIn(m)
  BY <1>9 DEF SameLayers, SameStack
<1>12. o2 \in [Ids -> Int] /\ o2[s] = o[s] + 1 /\ \A i \in Ids : i # s => o2[i] = o[i]
  BY <1>0
<1> HIDE DEF o2
<1>13. OpensCounted(n, o2)
  <2>1. SUFFICES ASSUME NEW i \in LiveIn(m)
                 PROVE  n.source[i].open_count <= o2[i] + Cardinality(OpenAbove(n, i))
    BY <1>11 DEF OpensCounted
  <2>2. OpenAbove(m, i) \in SUBSET OpenAbove(n, i) /\ OpenAbove(n, i) \in SUBSET Ids
    <3>1. \A l \in AboveIn(m, i) : l \in LiveIn(m)
      BY DEF AboveIn
    <3>2. \A l \in AboveIn(m, i) : n.source[l].open_count >= m.source[l].open_count
      BY <3>1, <1>4, <1>8
    <3> QED
      BY <3>1, <3>2, <1>10, <1>3, <1>4, <1>8 DEF OpenAbove
  <2>3. /\ Cardinality(OpenAbove(m, i)) \in Nat /\ Cardinality(OpenAbove(n, i)) \in Nat
        /\ Cardinality(OpenAbove(m, i)) <= Cardinality(OpenAbove(n, i))
    BY <2>2, Fewer
  <2>4. m.source[i].open_count <= o[i] + Cardinality(OpenAbove(m, i)) /\ i \in Ids
        /\ m.source[i].open_count \in Nat /\ o[i] \in Int
    BY <1>0, <1>3, <1>4 DEF Sound, OpensCounted
  <2>5. CASE i \notin L
    BY <2>5, <2>3, <2>4, <1>8, <1>12, <1>2
  <2>6. CASE i = s
    BY <2>6, <2>3, <2>4, <1>8, <1>12, <1>2
  <2>7. CASE i \in L /\ i # s
    <3>1. PICK p \in L : m.source[p].open_count = 0 /\ m.source[p].lower = i
      BY <1>2, <2>7
    <3>2. p \in LiveIn(m) /\ n.source[p].open_count = 1
      BY <3>1, <1>2, <1>8
    <3>3. p \in OpenAbove(n, i) /\ p \notin OpenAbove(m, i)
      BY <3>1, <3>2, <1>10 DEF OpenAbove, AboveIn
    <3>4. Cardinality(OpenAbove(m, i)) + 1 <= Cardinality(OpenAbove(n, i))
      BY <2>2, <3>3, FewerByOne
    <3> QED
      BY <3>4, <2>3, <2>4, <2>7, <1>8, <1>12
  <2> QED
    BY <2>5, <2>6, <2>7
<1>14. CallbacksTold(n)
  <2>1. \A i \in Ids : m.callback[i] \in Callback /\ m.callback[i].ok
    BY <1>0, LiveTyped DEF Sound, CallbacksTold
  <2>2. \A i \in LiveIn(m) : ToldFor(m.callback[i], m.source[i])
    BY DEF Sound, CallbacksTold
  <2>3. \A i \in Ids : i \notin N => n.callback[i] = m.callback[i]
    BY <1>6, <1>8
  <2>4. ASSUME NEW i \in N
        PROVE  n.callback[i].ok /\ n.callback[i].reading
               /\ n.callback[i].writing = m.callback[i].writing
    <3>1. i \in LiveIn(m) /\ i \in Ids /\ m.source[i].open_count = 0
      BY <1>2, <1>3, <1>5
    <3>2. ~m.callback[i].reading
      BY <3>1, <2>2 DEF ToldFor
    <3>3. Follows(m.callback[i], "OPEN")
      BY <3>2 DEF Follows
    <3>4. n.callback[i] = After(m.callback[i], "OPEN")
      BY <3>1, <1>6, <1>8
    <3>5. "OPEN" \in Commands
      BY DEF Commands
    <3>6. /\ After(m.callback[i], "OPEN").ok /\ After(m.callback[i], "OPEN").reading
          /\ After(m.callback[i], "OPEN").writing = m.callback[i].writing
      BY <3>1, <3>3, <3>5, <2>1, AfterCommand
    <3> QED
      BY <3>4, <3>6
  <2>5. \A i \in Ids : n.callback[i].ok
    BY <2>1, <2>3, <2>4
  <2>6. ASSUME NEW i \in LiveIn(m) PROVE ToldFor(n.callback[i], n.source[i])
    <3>1. i \in Ids /\ n.source[i].write_state = m.source[i].write_state
      BY <1>3, <1>9 DEF SameLayers, SameStack
    <3>2. CASE i \in N
      <4>1. n.source[i].open_count = 1
        BY <3>2, <1>5, <1>8
      <4>2. n.callback[i].reading = (n.source[i].open_count > 0)
        BY <4>1, <3>2, <2>4, <2>6, LiveTyped, <1>8, <1>3 DEF Callback, MemoryTyped
      <4> QED
        BY <3>1, <3>2, <2>2, <2>4, <4>2 DEF ToldFor
    <3>3. CASE i \notin N
      <4>1. n.callback[i] = m.callback[i]
        BY <3>1, <3>3, <2>3
      <4>2. (n.source[i].open_count > 0) = (m.source[i].open_count > 0)
        BY <3>3, <1>4, <1>5, <1>8
      <4> QED
        BY <4>1, <4>2, <3>1, <2>2 DEF ToldFor
    <3> QED
      BY <3>2, <3>3
  <2> QED
    BY <2>5, <2>6, <1>11 DEF CallbacksTold
<1> QED
  BY <1>0, <1>1, <1>8, <1>9, <1>10, <1>12, <1>13, <1>14 DEF Sound, o2

(***************************************************************************)
(* zip_source_close.                                                       *)
(***************************************************************************)

\* The sources that it closes once, and those among them that are closed then:
\* each of these closes one of the others, none closes s, and what they close
\* is among them if it was open.
LEMMA ClosedFacts ==
    ASSUME NEW m \in MemoryTyped, LayersStand(m), NoLoops(m),
           NEW s \in LiveIn(m), IsOpen(m, s)
    PROVE  /\ s \in ClosedLayers(m, s) /\ ClosedLayers(m, s) \subseteq LiveIn(m)
           /\ ClosedLayers(m, s) \subseteq Reached(m, s, OpenOnce(m))
           /\ \A i \in ClosedLayers(m, s) : m.source[i].open_count > 0
           /\ \A p \in ClosedLayers(m, s) \cap OpenOnce(m) :
                 /\ m.source[p].lower # s
                 /\ m.source[p].lower \in LiveIn(m) /\ IsOpen(m, m.source[p].lower) =>
                        m.source[p].lower \in ClosedLayers(m, s)
           /\ \A p, q \in ClosedLayers(m, s) \cap OpenOnce(m) :
                 m.source[p].lower \in LiveIn(m) /\ m.source[p].lower = m.source[q].lower => p = q
<1> DEFINE P == OpenOnce(m)
           R == Reached(m, s, P)
<1>1. P \in SUBSET LiveIn(m) /\ P \in SUBSET Ids /\ LiveIn(m) \in SUBSET Ids /\ s \in Ids
  BY LiveTyped DEF OpenOnce, LiveIn
<1>2. \A k \in P : m.source[k].lower \in Ids \cup {NULL}
  BY <1>1 DEF LayersStand
<1>3. ClosedLayers(m, s) = {i \in R : IsOpen(m, i)}
  BY DEF ClosedLayers
<1> HIDE DEF P
<1>4. Closed(m, LiveIn(m), P)
  BY <1>1 DEF Closed, LayersStand
<1>5. R \subseteq LiveIn(m)
  BY <1>1, <1>4, ReachedIsSmallest
<1>6. s \in R /\ Closed(m, R, P)
  BY <1>1, <1>2, ReachedIsClosed
<1>7. \A p \in R \cap P : m.source[p].lower # s
  BY <1>1, ReachedHasNoLoop
<1>8. ASSUME NEW p \in R \cap P, NEW q \in R \cap P,
             m.source[p].lower \in LiveIn(m), m.source[p].lower = m.source[q].lower
      PROVE  p = q
  <2> DEFINE x == m.source[p].lower
  <2>1. x \in LiveIn(m) /\ m.source[p].lower = x /\ m.source[q].lower = x
    BY <1>8
  <2> HIDE DEF x
  <2> QED
    BY <2>1, <1>1, ReachedFromOne
<1>9. ASSUME NEW p \in R \cap P, m.source[p].lower \in LiveIn(m)
      PROVE  m.source[p].lower \in R
  <2>1. m.source[p].lower # NULL
    BY <1>1, <1>9
  <2> QED
    BY <1>6, <2>1, <1>9 DEF Closed
<1>10. \A i \in R : IsOpen(m, i) <=> m.source[i].open_count > 0
  BY DEF IsOpen
<1> HIDE DEF R
<1> QED
  BY <1>3, <1>5, <1>6, <1>7, <1>8, <1>9, <1>10 DEF P, R

\* A close takes an open away from s: one that was counted outside, or one that
\* was not.  Only what it reaches notices.
LEMMA CloseKeeps ==
    ASSUME NEW m, NEW h, NEW o, Sound(m, h, o), NEW s \in LiveIn(m),
           NEW o2 \in [Ids -> Int],
           \A i \in Ids : i # s => o2[i] = o[i] /\ 0 <= o[i],
           o2[s] \in {o[s], o[s] - 1}, 0 <= o2[s] + Cardinality(OpenAbove(m, s))
    PROVE  /\ Sound(Close(m, s), h, o2)
           /\ SameLayers(m, Close(m, s))
           /\ OpenAbove(Close(m, s), s) = OpenAbove(m, s)
           /\ m.source[s].open_count <= 1 => Close(m, s).source[s].open_count = 0
           /\ \A i \in LiveIn(m) \ Reached(m, s, OpenOnce(m)) :
                 Close(m, s).source[i].open_count = m.source[i].open_count
<1>0. m \in MemoryTyped /\ h \in [Ids -> Nat] /\ o \in [Ids -> Int] /\ LayersStand(m)
      /\ NoLoops(m) /\ s \in Ids
  BY DEF Sound, LiveIn
<1>3. LiveIn(m) \in SUBSET Ids /\ \A i \in LiveIn(m) : m.source[i] \in Source
  BY <1>0, LiveTyped
<1>4. \A i \in LiveIn(m) : m.source[i].open_count \in Nat
  BY <1>3 DEF Source
<1>5. \A i \in LiveIn(m) :
        /\ m.source[i].open_count <= o[i] + Cardinality(OpenAbove(m, i))
        /\ Cardinality(OpenAbove(m, i)) \in Nat
  <2>1. \A i \in LiveIn(m) : OpenAbove(m, i) \in SUBSET Ids
    BY <1>0, LiveTyped
  <2> QED
    BY <2>1, Counted DEF Sound, OpensCounted
<1>6. CASE ~IsOpen(m, s)
  <2>1. Close(m, s) = m
    BY <1>6 DEF Close
  <2>2. SameLayers(m, m)
    BY DEF SameLayers, SameStack
  <2>3. m.source[s].open_count = 0
    BY <1>6, <1>4 DEF IsOpen
  <2>4. OpensCounted(m, o2)
    <3>1. SUFFICES ASSUME NEW i \in LiveIn(m)
                   PROVE  m.source[i].open_count <= o2[i] + Cardinality(OpenAbove(m, i))
      BY DEF OpensCounted
    <3>2. CASE i = s
      BY <3>2, <2>3
    <3>3. CASE i # s
      BY <3>3, <1>3, <1>5
    <3> QED
      BY <3>2, <3>3
  <2>5. Sound(m, h, o2)
    BY <2>4 DEF Sound
  <2> QED
    BY <2>1, <2>2, <2>3, <2>5
<1>7. CASE IsOpen(m, s)
  <2> DEFINE L == ClosedLayers(m, s)
             C == L \cap OpenOnce(m)
             c == Call(m, C, "CLOSE")
             n == WithCount(c, L, -1)
  <2>1. Close(m, s) = n
    BY <1>7 DEF Close
  <2>2. /\ s \in L /\ L \subseteq LiveIn(m) /\ L \subseteq Reached(m, s, OpenOnce(m))
        /\ \A i \in L : m.source[i].open_count > 0
        /\ \A p \in C :
              /\ m.source[p].lower # s
              /\ m.source[p].lower \in LiveIn(m) /\ IsOpen(m, m.source[p].lower) =>
                     m.source[p].lower \in L
        /\ \A p, q \in C :
              m.source[p].lower \in LiveIn(m) /\ m.source[p].lower = m.source[q].lower => p = q
    BY <1>0, <1>7, ClosedFacts
  <2>3. C = {i \in L : m.source[i].open_count = 1}
    BY <2>2 DEF OpenOnce, LiveIn
  <2> HIDE DEF L, C
  <2>4. /\ c \in MemoryTyped /\ c.source = m.source /\ c.archive = m.archive
        /\ \A i \in Ids : c.callback[i] = IF i \in C THEN After(m.callback[i], "CLOSE")
                                          ELSE m.callback[i]
    <3>1. "CLOSE" \in Commands
      BY DEF Commands
    <3> QED
      BY <1>0, <3>1, CallEffect
  <2> HIDE DEF c
  <2>5. LiveIn(c) = LiveIn(m) /\ SameLayers(m, c)
    BY <2>4 DEF LiveIn, SameLayers, SameStack
  <2>6. /\ n \in MemoryTyped /\ n.callback = c.callback /\ SameLayers(c, n)
        /\ \A i \in LiveIn(m) :
              n.source[i].open_count = IF i \in L THEN m.source[i].open_count - 1
                                       ELSE m.source[i].open_count
    <3>1. \A i \in L : m.source[i].open_count + (-1) \in Nat
      BY <2>2, <1>4
    <3>2. /\ n \in MemoryTyped /\ n.callback = c.callback /\ SameLayers(c, n)
          /\ \A i \in LiveIn(m) :
                n.source[i].open_count = IF i \in L THEN m.source[i].open_count + (-1)
                                         ELSE m.source[i].open_count
      BY <2>2, <2>4, <2>5, <3>1, CountEffect
    <3> QED
      BY <3>2, <1>4
  <2> HIDE DEF n
  <2>7. SameLayers(m, n)
    BY <2>5, <2>6 DEF SameLayers, SameStack
  <2>8. /\ Owned(n, h) /\ LayersStand(n) /\ NoLoops(n) /\ WindowsKnow(n)
        /\ \A i : AboveIn(n, i) = AboveIn(m, i)
    BY <2>7, LayersKept DEF Sound
  <2>9. LiveIn(n) = LiveIn(m)
    BY <2>7 DEF SameLayers, SameStack
  <2>10. \A i \in LiveIn(m) : OpenAbove(n, i) = OpenAbove(m, i) \ C
    <3>1. \A l \in LiveIn(m) : n.source[l].open_count > 0 <=>
              m.source[l].open_count > 0 /\ l \notin C
      BY <1>4, <2>2, <2>3, <2>6
    <3> QED
      BY <3>1, <2>8 DEF OpenAbove, AboveIn
  <2>11. OpenAbove(n, s) = OpenAbove(m, s)
    BY <2>2, <2>10 DEF OpenAbove, AboveIn
  <2>12. OpensCounted(n, o2)
    <3>1. SUFFICES ASSUME NEW i \in LiveIn(m)
                   PROVE  n.source[i].open_count <= o2[i] + Cardinality(OpenAbove(n, i))
      BY <2>9 DEF OpensCounted
    <3>2. i \in Ids /\ OpenAbove(m, i) \in SUBSET Ids
      BY <1>0, <1>3, LiveTyped
    <3>3. Cardinality(OpenAbove(n, i)) \in Nat
      BY <3>2, <2>10, Counted
    <3>4. CASE i = s
      BY <3>4, <2>11, <2>6, <2>2, <1>4, <1>5, <1>0
    <3>5. CASE i # s /\ i \notin L
      <4>1. CASE IsOpen(m, i)
        <5>1. OpenAbove(m, i) \cap C = {}
          BY <4>1, <3>5, <2>2 DEF OpenAbove, AboveIn
        <5>2. OpenAbove(n, i) = OpenAbove(m, i)
          BY <5>1, <2>10
        <5> QED
          BY <5>2, <3>2, <3>5, <2>6, <1>5
      <4>2. CASE ~IsOpen(m, i)
        <5>1. n.source[i].open_count = 0
          BY <4>2, <3>5, <2>6, <1>4 DEF IsOpen
        <5> QED
          BY <5>1, <3>2, <3>3, <3>5
      <4> QED
        BY <4>1, <4>2
    <3>6. CASE i # s /\ i \in L
      <4>1. CASE OpenAbove(m, i) \cap C = {}
        <5>1. OpenAbove(n, i) = OpenAbove(m, i)
          BY <4>1, <2>10
        <5>2. o2[i] = o[i] /\ o[i] \in Int
          BY <3>2, <3>6, <1>0
        <5>3. n.source[i].open_count = m.source[i].open_count - 1
          BY <3>6, <2>6
        <5> QED
          BY <5>1, <5>2, <5>3, <1>4, <1>5
      <4>2. CASE OpenAbove(m, i) \cap C # {}
        <5>1. PICK p \in OpenAbove(m, i) \cap C : TRUE
          BY <4>2
        <5>2. \A q \in OpenAbove(m, i) \cap C : q = p
          BY <5>1, <2>2 DEF OpenAbove, AboveIn
        <5>3. OpenAbove(n, i) = OpenAbove(m, i) \ {p}
          BY <5>1, <5>2, <2>10
        <5>4. Cardinality(OpenAbove(n, i)) = Cardinality(OpenAbove(m, i)) - 1
          BY <5>1, <5>3, <3>2, OneLess, Counted
        <5>5. o2[i] = o[i] /\ o[i] \in Int
          BY <3>2, <3>6, <1>0
        <5>6. n.source[i].open_count = m.source[i].open_count - 1
          BY <3>6, <2>6
        <5> QED
          BY <5>4, <5>5, <5>6, <1>4, <1>5
      <4> QED
        BY <4>1, <4>2
    <3> QED
      BY <3>4, <3>5, <3>6
  <2>13. CallbacksTold(n)
    <3>1. \A i \in Ids : m.callback[i] \in Callback /\ m.callback[i].ok
      BY <1>0, LiveTyped DEF Sound, CallbacksTold
    <3>2. \A i \in LiveIn(m) : ToldFor(m.callback[i], m.source[i])
      BY DEF Sound, CallbacksTold
    <3>3. \A i \in Ids : i \notin C => n.callback[i] = m.callback[i]
      BY <2>4, <2>6
    <3>4. ASSUME NEW i \in C
          PROVE  n.callback[i].ok /\ ~n.callback[i].reading
                 /\ n.callback[i].writing = m.callback[i].writing
      <4>1. i \in LiveIn(m) /\ i \in Ids /\ m.source[i].open_count = 1
        BY <2>2, <2>3, <1>3
      <4>2. m.callback[i].reading
        BY <4>1, <3>2 DEF ToldFor
      <4>3. Follows(m.callback[i], "CLOSE")
        BY <4>2 DEF Follows
      <4>4. n.callback[i] = After(m.callback[i], "CLOSE")
        BY <4>1, <2>4, <2>6
      <4>5. "CLOSE" \in Commands
        BY DEF Commands
      <4>6. /\ After(m.callback[i], "CLOSE").ok /\ ~After(m.callback[i], "CLOSE").reading
            /\ After(m.callback[i], "CLOSE").writing = m.callback[i].writing
        BY <4>1, <4>3, <4>5, <3>1, AfterCommand
      <4> QED
        BY <4>4, <4>6
    <3>5. \A i \in Ids : n.callback[i].ok
      BY <3>1, <3>3, <3>4
    <3>6. ASSUME NEW i \in LiveIn(m) PROVE ToldFor(n.callback[i], n.source[i])
      <4>1. i \in Ids /\ n.source[i].write_state = m.source[i].write_state
        BY <1>3, <2>7 DEF SameLayers, SameStack
      <4>2. CASE i \in C
        <5>1. ~(n.source[i].open_count > 0)
          BY <4>2, <2>3, <2>6
        <5> QED
          BY <5>1, <4>1, <4>2, <3>2, <3>4 DEF ToldFor
      <4>3. CASE i \notin C
        <5>1. n.callback[i] = m.callback[i]
          BY <4>1, <4>3, <3>3
        <5>2. n.source[i].open_count > 0 <=> m.source[i].open_count > 0
          BY <4>3, <1>4, <2>2, <2>3, <2>6
        <5> QED
          BY <5>1, <5>2, <4>1, <3>2 DEF ToldFor
      <4> QED
        BY <4>2, <4>3
    <3> QED
      BY <3>5, <3>6, <2>9 DEF CallbacksTold
  <2>14. Sound(n, h, o2)
    BY <1>0, <2>6, <2>8, <2>12, <2>13 DEF Sound
  <2>15. m.source[s].open_count <= 1 => n.source[s].open_count = 0
    BY <2>2, <2>6, <1>4
  <2>16. \A i \in LiveIn(m) \ Reached(m, s, OpenOnce(m)) :
             n.source[i].open_count = m.source[i].open_count
    BY <2>2, <2>6
  <2> QED
    BY <2>1, <2>7, <2>11, <2>14, <2>15, <2>16
<1> QED
  BY <1>6, <1>7

(***************************************************************************)
(* zip_source_free.                                                        *)
(***************************************************************************)

\* The sources that go when an owner of s does, F, and the first one below that
\* stays, b: those that go have no other owner than the one above, and b has
\* one of them above it.
LEMMA FreedFacts ==
    ASSUME NEW m, NEW h, NEW o, Sound(m, h, o), NEW s \in LiveIn(m), h[s] >= 1
    PROVE  LET F == FreedLayers(m, s)
               b == StaysBelow(m, s, F)
           IN  /\ F \subseteq LiveIn(m)
               /\ b \in (LiveIn(m) \ F) \cup {NULL}
               /\ b # NULL => m.source[b].refcount # 1
               /\ s \in F \/ (F = {} /\ b = s)
               /\ b = s => F = {}
               /\ \A j \in F : m.source[j].lower \in F \cup {b, NULL}
               /\ \A j \in F : AboveIn(m, j) \subseteq F
               /\ \A j \in F : h[j] = IF j = s THEN 1 ELSE 0
               /\ b \in LiveIn(m) \ {s} => \E p \in F : AboveIn(m, b) \cap F = {p}
               /\ b # NULL => Reached(m, b, OpenOnce(m)) \cap F = {}
<1> DEFINE P == OwnedOnce(m)
           R == Reached(m, s, P)
           F == FreedLayers(m, s)
           b == StaysBelow(m, s, F)
<1>0. m \in MemoryTyped /\ h \in [Ids -> Nat] /\ LayersStand(m) /\ Owned(m, h) /\ NoLoops(m)
  BY DEF Sound
<1>1. P \in SUBSET LiveIn(m) /\ P \in SUBSET Ids /\ LiveIn(m) \in SUBSET Ids /\ s \in Ids
      /\ NULL \notin Ids
  BY <1>0, LiveTyped DEF OwnedOnce, LiveIn
<1>2. \A k \in P : m.source[k].lower \in Ids \cup {NULL}
  BY <1>1, <1>0 DEF LayersStand
<1> DEFINE S == ({s} \cup {m.source[i].lower : i \in F}) \ (F \cup {NULL})
<1>3a. F = R \cap P /\ b = IF S = {} THEN NULL ELSE CHOOSE i \in S : TRUE
  BY DEF FreedLayers, StaysBelow
<1>4. \A i \in LiveIn(m) : i \in P <=> m.source[i].refcount = 1
  BY DEF OwnedOnce, LiveIn
<1> HIDE DEF P, F, b
<1>5. Closed(m, LiveIn(m), P)
  BY <1>0, <1>1 DEF Closed, LayersStand
<1>6. R \subseteq LiveIn(m)
  BY <1>1, <1>5, ReachedIsSmallest
<1>7. s \in R /\ Closed(m, R, P)
  BY <1>1, <1>2, ReachedIsClosed
<1>8. \A x, y \in R \ P : x = y
  BY <1>1, <1>2, ReachedStopsOnce
<1>9. \A x \in R : x # s => \E p \in R \cap P : m.source[p].lower = x
  <2>1. ASSUME NEW x \in R, x # s PROVE \E p \in R \cap P : m.source[p].lower = x
    BY <2>1, <1>1, <1>2, ReachedFromAbove
  <2> QED
    BY <2>1
<1>3b. S = R \ P
  <2>1. ASSUME NEW x \in R \ P PROVE x \in S
    <3>1. x \in Ids /\ x \notin F
      BY <2>1, <1>1, <1>6, <1>3a
    <3> QED
      BY <3>1, <1>9, <1>1, <1>3a
  <2>2. ASSUME NEW x \in S PROVE x \in R \ P
    <3>1. x \in R
      BY <2>2, <1>7, <1>3a DEF Closed
    <3> QED
      BY <3>1, <2>2, <1>3a
  <2> QED
    BY <2>1, <2>2
<1>3. F = R \cap P /\ b = IF R \ P = {} THEN NULL ELSE CHOOSE i \in R \ P : TRUE
  BY <1>3a, <1>3b
<1>10. s \notin P => R = {s}
  BY <1>1, <1>2, ReachedUnfolds
<1>11. \A x \in Ids \ P : \A p, q \in R \cap P :
           m.source[p].lower = x /\ m.source[q].lower = x => p = q
  BY <1>1, <1>2, ReachedOnceFromAbove
<1> HIDE DEF R
<1>12. \A x \in R \ P : b = x
  BY <1>3, <1>8
<1>13. b \in (R \ P) \cup {NULL}
  BY <1>3
<1>14. F \subseteq LiveIn(m) /\ F \subseteq Ids
  BY <1>1, <1>3
<1>15. b \in (LiveIn(m) \ F) \cup {NULL} /\ (b # NULL => m.source[b].refcount # 1)
  BY <1>3, <1>4, <1>6, <1>13
<1>16. (s \in F \/ (F = {} /\ b = s)) /\ (b = s => F = {})
  <2>1. CASE s \in P
    BY <2>1, <1>1, <1>3, <1>7, <1>13
  <2>2. CASE s \notin P
    BY <2>2, <1>3, <1>7, <1>10, <1>12
  <2> QED
    BY <2>1, <2>2
<1>17. \A j \in F : m.source[j].lower \in F \cup {b, NULL}
  <2>1. \A j \in F : m.source[j].lower \in R \cup {NULL}
    BY <1>3, <1>7 DEF Closed
  <2> QED
    BY <2>1, <1>3, <1>12
<1>18. \A j \in F :
         /\ Cardinality(AboveIn(m, j)) <= 1
         /\ j = s => h[j] = 1 /\ AboveIn(m, j) = {}
         /\ j # s => h[j] = 0 /\ \E p \in F : p \in AboveIn(m, j)
  <2>1. SUFFICES ASSUME NEW j \in F
                 PROVE  /\ Cardinality(AboveIn(m, j)) <= 1
                        /\ j = s => h[j] = 1 /\ AboveIn(m, j) = {}
                        /\ j # s => h[j] = 0 /\ \E p \in F : p \in AboveIn(m, j)
    OBVIOUS
  <2>2. j \in LiveIn(m) /\ j \in Ids /\ j \in R /\ m.source[j].refcount = 1
    BY <1>1, <1>3, <1>4, <1>14
  <2>3. 1 = h[j] + Cardinality(AboveIn(m, j)) /\ h[j] \in Nat
    BY <2>2, <1>0 DEF Owned
  <2>4. AboveIn(m, j) \in SUBSET Ids /\ IsFiniteSet(AboveIn(m, j))
        /\ Cardinality(AboveIn(m, j)) \in Nat
    BY <1>0, LiveTyped, Counted
  <2>5. Cardinality(AboveIn(m, j)) <= 1
    BY <2>3, <2>4
  <2>6. CASE j = s
    <3>1. h[j] = 1 /\ Cardinality(AboveIn(m, j)) = 0
      BY <2>6, <2>3, <2>4
    <3> QED
      BY <3>1, <2>4, <2>5, <2>6, FS_EmptySet
  <2>7. CASE j # s
    <3>1. PICK p \in R \cap P : m.source[p].lower = j
      BY <2>2, <2>7, <1>9
    <3>2. p \in F /\ p \in AboveIn(m, j)
      BY <3>1, <1>3, <1>6 DEF AboveIn
    <3>3. Cardinality(AboveIn(m, j)) # 0
      BY <3>2, <2>4, FS_EmptySet
    <3>4. h[j] = 0
      BY <3>3, <2>3, <2>4
    <3> QED
      BY <3>2, <3>4, <2>5, <2>7
  <2> QED
    BY <2>6, <2>7
<1>19. \A j \in F : \A x, y \in AboveIn(m, j) : x = y
  <2>1. \A j \in F : AboveIn(m, j) \in SUBSET Ids
    BY <1>0, LiveTyped
  <2> QED
    BY <2>1, <1>18, OnlyOne
<1>20. \A j \in F : AboveIn(m, j) \subseteq F
  BY <1>18, <1>19
<1>21. ASSUME b \in LiveIn(m) \ {s} PROVE \E p \in F : AboveIn(m, b) \cap F = {p}
  <2>1. b \in R /\ b \in Ids \ P
    BY <1>1, <1>13, <1>21
  <2>2. PICK p \in R \cap P : m.source[p].lower = b
    BY <2>1, <1>9, <1>21
  <2>3. p \in F /\ p \in AboveIn(m, b)
    BY <2>2, <1>3, <1>6 DEF AboveIn
  <2>4. \A q \in AboveIn(m, b) \cap F : q = p
    BY <2>1, <2>2, <1>3, <1>11 DEF AboveIn
  <2> QED
    BY <2>3, <2>4
<1>22. ASSUME b # NULL PROVE Reached(m, b, OpenOnce(m)) \cap F = {}
  <2> DEFINE Q == OpenOnce(m)
             RQ == Reached(m, b, Q)
             T == {i \in R : i \in F => i \notin RQ}
  <2>1. Q \in SUBSET LiveIn(m) /\ Q \in SUBSET Ids /\ b \in Ids /\ b \in LiveIn(m) /\ b \notin F
    BY <1>1, <1>15, <1>22 DEF OpenOnce, LiveIn
  <2>2. \A k \in Q : m.source[k].lower \in Ids \cup {NULL}
    BY <2>1, <1>0, <1>1 DEF LayersStand
  <2> HIDE DEF Q
  <2>3. \A x \in RQ : x # b => \E q \in RQ \cap Q : m.source[q].lower = x
    <3>1. ASSUME NEW x \in RQ, x # b PROVE \E q \in RQ \cap Q : m.source[q].lower = x
      <4>1. x \in Reached(m, b, Q) /\ x # b /\ b \in Ids /\ Q \in SUBSET Ids
        BY <3>1, <2>1
      <4> QED
        BY <4>1, <2>2, ReachedFromAbove
    <3> QED
      BY <3>1
  <2> HIDE DEF RQ
  <2>4. ASSUME NEW x \in RQ, x \in F PROVE \E q \in RQ : q \in AboveIn(m, x)
    BY <2>1, <2>3, <2>4 DEF AboveIn
  <2>5. s \in T
    BY <1>7, <1>18, <2>4
  <2>6. ASSUME NEW k \in T \cap P, m.source[k].lower # NULL PROVE m.source[k].lower \in T
    <3> DEFINE y == m.source[k].lower
    <3>1. y \in R /\ k \in F /\ k \notin RQ /\ k \in LiveIn(m)
      BY <2>6, <1>3, <1>7, <1>14 DEF Closed
    <3>2. k \in AboveIn(m, y)
      BY <3>1 DEF AboveIn
    <3> HIDE DEF y
    <3>3. ~(y \in F /\ y \in RQ)
      BY <3>1, <3>2, <2>4, <1>19
    <3> QED
      BY <3>1, <3>3 DEF y
  <2>7. Closed(m, T, P) /\ T \in SUBSET Ids
    BY <2>6, <1>1, <1>6 DEF Closed
  <2>8. R \subseteq T
    BY <2>5, <2>7, <1>1, ReachedIsSmallest DEF R
  <2> QED
    BY <2>8, <1>3 DEF RQ, Q
<1>23. \A j \in F : h[j] = IF j = s THEN 1 ELSE 0
  BY <1>18
<1> QED
  BY <1>14, <1>15, <1>16, <1>17, <1>20, <1>21, <1>22, <1>23 DEF F, b

\* The source below is closed for the last of those that go, if that was open.
LEMMA ClosedBelowKeeps ==
    ASSUME NEW m, NEW h, NEW o, Sound(m, h, o), NEW s \in LiveIn(m), h[s] >= 1,
           \A i \in Ids : 0 <= o[i]
    PROVE  LET F == FreedLayers(m, s)
               n == ClosedBelow(m, F, StaysBelow(m, s, F))
           IN  /\ n \in MemoryTyped /\ SameLayers(m, n) /\ CallbacksTold(n)
               /\ \A i \in F : n.source[i].open_count = m.source[i].open_count
               /\ \A i \in LiveIn(m) \ F :
                     n.source[i].open_count <= o[i] + Cardinality(OpenAbove(n, i) \ F)
<1> DEFINE F == FreedLayers(m, s)
           b == StaysBelow(m, s, F)
           n == ClosedBelow(m, F, b)
           above == {i \in F : m.source[i].lower = b /\ IsOpen(m, i)}
<1>0. m \in MemoryTyped /\ h \in [Ids -> Nat] /\ o \in [Ids -> Int]
  BY DEF Sound
<1>1. LiveIn(m) \in SUBSET Ids /\ NULL \notin Ids
      /\ \A i : OpenAbove(m, i) \in SUBSET AboveIn(m, i) /\ AboveIn(m, i) \in SUBSET Ids
  BY <1>0, LiveTyped
<1>2. /\ F \subseteq LiveIn(m) /\ b \in (LiveIn(m) \ F) \cup {NULL}
      /\ b = s => F = {}
      /\ \A j \in F : m.source[j].lower \in F \cup {b, NULL}
      /\ b \in LiveIn(m) \ {s} => \E p \in F : AboveIn(m, b) \cap F = {p}
      /\ b # NULL => Reached(m, b, OpenOnce(m)) \cap F = {}
  BY FreedFacts
<1>3. n = IF b = NULL \/ above = {} THEN m ELSE Close(m, b)
  BY DEF ClosedBelow
<1>4. \A i \in LiveIn(m) : m.source[i].open_count <= o[i] + Cardinality(OpenAbove(m, i))
                           /\ m.source[i].open_count \in Nat
  BY <1>0, LiveTyped DEF Sound, OpensCounted, Source
<1> HIDE DEF n, F, b
<1>5. \A i \in LiveIn(m) \ F : i # b => AboveIn(m, i) \cap F = {}
  BY <1>1, <1>2 DEF AboveIn
<1>6. CASE b = NULL \/ above = {}
  <2>1. n = m
    BY <1>3, <1>6
  <2>2. SameLayers(m, m) /\ CallbacksTold(m)
    BY DEF SameLayers, SameStack, Sound
  <2>3. ASSUME NEW i \in LiveIn(m) \ F PROVE OpenAbove(m, i) \ F = OpenAbove(m, i)
    <3>1. CASE i = b
      BY <3>1, <1>1, <1>6 DEF OpenAbove, AboveIn, IsOpen
    <3>2. CASE i # b
      BY <3>2, <1>5 DEF OpenAbove
    <3> QED
      BY <3>1, <3>2
  <2> QED
    BY <2>1, <2>2, <2>3, <1>0, <1>4 DEF n, F, b
<1>7. CASE b # NULL /\ above # {}
  <2> DEFINE o1 == [o EXCEPT ![b] = @ - 1]
  <2>1. n = Close(m, b) /\ b \in LiveIn(m) /\ b # s /\ b \in Ids
    BY <1>1, <1>2, <1>3, <1>7
  <2>2. PICK p \in F : AboveIn(m, b) \cap F = {p}
    BY <2>1, <1>2
  <2>3. p \in OpenAbove(m, b) /\ OpenAbove(m, b) \cap F = {p}
    BY <2>2, <1>2, <1>7 DEF OpenAbove, AboveIn, IsOpen
  <2>4. OpenAbove(m, b) \in SUBSET Ids /\ IsFiniteSet(OpenAbove(m, b))
        /\ Cardinality(OpenAbove(m, b)) \in Nat
    BY <1>1, Counted
  <2>5. Cardinality(OpenAbove(m, b) \ {p}) = Cardinality(OpenAbove(m, b)) - 1
        /\ Cardinality(OpenAbove(m, b) \ {p}) \in Nat
    BY <2>3, <2>4, OneLess, Counted
  <2>6. /\ o1 \in [Ids -> Int] /\ o1[b] = o[b] - 1
        /\ \A i \in Ids : i # b => o1[i] = o[i] /\ 0 <= o[i]
    BY <1>0, <2>1
  <2>7. 0 <= o1[b] + Cardinality(OpenAbove(m, b))
    BY <2>1, <2>4, <2>5, <2>6, <1>0
  <2> HIDE DEF o1
  <2>8. /\ Sound(n, h, o1) /\ SameLayers(m, n) /\ OpenAbove(n, b) = OpenAbove(m, b)
        /\ \A i \in LiveIn(m) \ Reached(m, b, OpenOnce(m)) :
              n.source[i].open_count = m.source[i].open_count
    BY <2>1, <2>6, <2>7, CloseKeeps
  <2>9. \A i \in F : n.source[i].open_count = m.source[i].open_count
    BY <2>8, <1>2, <1>7
  <2>10. ASSUME NEW i \in LiveIn(m) \ F
         PROVE  n.source[i].open_count <= o[i] + Cardinality(OpenAbove(n, i) \ F)
    <3>1. n.source[i].open_count <= o1[i] + Cardinality(OpenAbove(n, i)) /\ i \in Ids
      BY <2>8, <1>1 DEF Sound, OpensCounted, SameLayers, SameStack
    <3>2. CASE i = b
      <4>1. OpenAbove(n, i) \ F = OpenAbove(m, b) \ {p}
        BY <3>2, <2>3, <2>8
      <4>2. n.source[b].open_count \in Nat
        BY <2>1, <2>8, LiveTyped DEF Sound, SameLayers, SameStack, Source
      <4>3. n.source[b].open_count <= (o[b] - 1) + Cardinality(OpenAbove(m, b)) /\ o[b] \in Int
        BY <3>1, <3>2, <2>6, <2>8, <1>0, <2>1
      <4>4. n.source[b].open_count <= o[b] + Cardinality(OpenAbove(m, b) \ {p})
        BY <4>2, <4>3, <2>4, <2>5
      <4> QED
        BY <4>1, <4>4, <3>2
    <3>3. CASE i # b
      <4>1. AboveIn(n, i) \cap F = {}
        BY <3>3, <1>5, <2>8, LayersKept
      <4>2. OpenAbove(n, i) \ F = OpenAbove(n, i)
        BY <4>1 DEF OpenAbove
      <4> QED
        BY <4>2, <3>1, <3>3, <2>6
    <3> QED
      BY <3>2, <3>3
  <2> QED
    BY <2>8, <2>9, <2>10 DEF Sound, n, F, b
<1> QED
  BY <1>6, <1>7

\* Windows that go are taken off the archives they read.
LEMMA DeregisteredEffect ==
    ASSUME NEW m \in MemoryTyped, NEW F
    PROVE  LET n == Deregistered(m, F)
           IN  /\ n \in MemoryTyped /\ n.source = m.source /\ n.callback = m.callback
               /\ \A a \in Archives :
                     /\ n.archive[a] = NULL <=> m.archive[a] = NULL
                     /\ m.archive[a] # NULL =>
                           /\ n.archive[a].src = m.archive[a].src
                           /\ n.archive[a].entry = m.archive[a].entry
                           /\ n.archive[a].open_source = m.archive[a].open_source \ {i \in F :
                                 m.source[i].source_archive = a /\ ~m.source[i].source_closed}
<1> DEFINE W(a) == {i \in F : m.source[i].source_archive = a /\ ~m.source[i].source_closed}
           new == [a \in Archives |->
                      IF m.archive[a] = NULL THEN NULL
                      ELSE [m.archive[a] EXCEPT !.open_source = @ \ W(a)]]
           n == Deregistered(m, F)
<1>1. n = [m EXCEPT !.archive = new]
  BY DEF Deregistered
<1>2. \A a \in Archives : new[a] = IF m.archive[a] = NULL THEN NULL
                                   ELSE [m.archive[a] EXCEPT !.open_source = @ \ W(a)]
  OBVIOUS
<1> HIDE DEF W
<1>3. ASSUME NEW a \in Archives, m.archive[a] # NULL
      PROVE  /\ new[a] \in Archive /\ new[a] # NULL
             /\ new[a].src = m.archive[a].src /\ new[a].entry = m.archive[a].entry
             /\ new[a].open_source = m.archive[a].open_source \ W(a)
  <2>1. m.archive[a] \in Archive
    BY <1>3 DEF MemoryTyped
  <2>2. new[a] = [m.archive[a] EXCEPT !.open_source = @ \ W(a)]
    BY <1>2, <1>3
  <2> HIDE DEF new
  <2>3. new[a] \in Archive /\ new[a].src = m.archive[a].src /\ new[a].entry = m.archive[a].entry
        /\ new[a].open_source = m.archive[a].open_source \ W(a)
    BY <2>1, <2>2 DEF Archive
  <2> QED
    BY <2>3
<1>4. new \in [Archives -> Archive \cup {NULL}]
  BY <1>2, <1>3
<1>5. n \in MemoryTyped /\ n.archive = new /\ n.source = m.source /\ n.callback = m.callback
  <2> HIDE DEF new, n
  <2> QED
    BY <1>1, <1>4 DEF MemoryTyped
<1>6. \A a \in Archives : m.archive[a] = NULL => new[a] = NULL
  BY <1>2
<1> HIDE DEF new, n
<1> QED
  BY <1>3, <1>5, <1>6 DEF W, n

\* Those that go are gone, and the one below has an owner less.
LEMMA WithoutEffect ==
    ASSUME NEW m \in MemoryTyped, NEW F \in SUBSET LiveIn(m),
           NEW b \in (LiveIn(m) \ F) \cup {NULL}, b # NULL => m.source[b].refcount # 1,
           NEW n, n = Without(m, F, b)
    PROVE  /\ n \in MemoryTyped /\ n.callback = m.callback /\ n.archive = m.archive
           /\ LiveIn(n) = LiveIn(m) \ F
           /\ \A i \in LiveIn(n) :
                 /\ n.source[i].lower = m.source[i].lower
                 /\ n.source[i].open_count = m.source[i].open_count
                 /\ n.source[i].write_state = m.source[i].write_state
                 /\ n.source[i].supports = m.source[i].supports
                 /\ n.source[i].source_archive = m.source[i].source_archive
                 /\ n.source[i].source_closed = m.source[i].source_closed
                 /\ n.source[i].refcount = IF i = b THEN m.source[i].refcount - 1
                                           ELSE m.source[i].refcount
<1> DEFINE new == [i \in Ids |-> IF i \in F THEN NULL
                                 ELSE IF i = b THEN [m.source[i] EXCEPT !.refcount = @ - 1]
                                 ELSE m.source[i]]
<1>0. LiveIn(m) \in SUBSET Ids /\ NULL \notin Ids /\ \A i \in LiveIn(m) : m.source[i] \in Source
  BY LiveTyped
<1>1. n = [m EXCEPT !.source = new]
  BY DEF Without
<1>2. \A i \in Ids : new[i] = IF i \in F THEN NULL
                              ELSE IF i = b THEN [m.source[i] EXCEPT !.refcount = @ - 1]
                              ELSE m.source[i]
  OBVIOUS
<1> HIDE DEF new
<1>3. ASSUME NEW i \in LiveIn(m) \ F
      PROVE  /\ new[i] \in Source
             /\ new[i].lower = m.source[i].lower
             /\ new[i].open_count = m.source[i].open_count
             /\ new[i].write_state = m.source[i].write_state
             /\ new[i].supports = m.source[i].supports
             /\ new[i].source_archive = m.source[i].source_archive
             /\ new[i].source_closed = m.source[i].source_closed
             /\ new[i].refcount = IF i = b THEN m.source[i].refcount - 1
                                  ELSE m.source[i].refcount
  <2>1. m.source[i] \in Source /\ i \in Ids
    BY <1>0
  <2>2. CASE i = b
    <3>1. new[i] = [m.source[i] EXCEPT !.refcount = @ - 1]
      BY <1>2, <2>1, <2>2
    <3>2. m.source[i].refcount - 1 \in Nat \ {0}
      BY <2>1, <2>2, <1>0 DEF Source
    <3> QED
      BY <2>1, <2>2, <3>1, <3>2 DEF Source
  <2>3. CASE i # b
    <3>1. new[i] = m.source[i]
      BY <1>2, <2>1, <2>3
    <3> QED
      BY <2>1, <2>3, <3>1
  <2> QED
    BY <2>2, <2>3
<1>4. \A i \in Ids \ LiveIn(m) : new[i] = NULL
  BY <1>0, <1>2 DEF LiveIn
<1>5. \A i \in F : new[i] = NULL
  BY <1>0, <1>2
<1>6. new \in [Ids -> Source \cup {NULL}]
  <2>1. \A i \in Ids : new[i] \in Source \cup {NULL}
    BY <1>3, <1>4, <1>5
  <2> QED
    BY <2>1 DEF new
<1>7. n \in MemoryTyped /\ n.source = new /\ n.archive = m.archive /\ n.callback = m.callback
  BY <1>1, <1>6 DEF MemoryTyped
<1>8. NULL \notin Source
  OBVIOUS
<1>9. LiveIn(n) = LiveIn(m) \ F
  <2>1. \A i \in Ids : new[i] # NULL <=> i \in LiveIn(m) \ F
    BY <1>3, <1>4, <1>5, <1>8
  <2> QED
    BY <2>1, <1>0, <1>7 DEF LiveIn
<1> QED
  BY <1>3, <1>7, <1>9

\* A callback is free to go when reading and writing have been ended.
LEMMA FreedCallback ==
    ASSUME NEW c \in Callback, NEW r \in Source, c.ok, ToldFor(c, r),
           NEW c2, c2 = IF r.open_count > 0 THEN After(c, "CLOSE") ELSE c,
           NEW c3, c3 = IF r.write_state = "OPEN" THEN After(c2, "ROLLBACK_WRITE") ELSE c2
    PROVE  After(c3, "FREE").ok
<1>0. "CLOSE" \in Commands /\ "ROLLBACK_WRITE" \in Commands /\ "FREE" \in Commands
  BY DEF Commands
<1>1. c2 \in Callback /\ c2.ok /\ ~c2.reading /\ c2.writing = c.writing
  <2>1. CASE r.open_count > 0
    <3>1. Follows(c, "CLOSE")
      BY <2>1 DEF ToldFor, Follows
    <3>2. After(c, "CLOSE").ok /\ ~After(c, "CLOSE").reading
          /\ After(c, "CLOSE").writing = c.writing
      BY <1>0, <3>1, AfterCommand
    <3>3. After(c, "CLOSE") \in Callback
      BY <1>0, AfterTyped
    <3> QED
      BY <2>1, <3>2, <3>3
  <2>2. CASE ~(r.open_count > 0)
    BY <2>2 DEF ToldFor
  <2> QED
    BY <2>1, <2>2
<1>2. c3 \in Callback /\ c3.ok /\ ~c3.reading /\ c3.writing # "open"
  <2>1. CASE r.write_state = "OPEN"
    <3>1. Follows(c2, "ROLLBACK_WRITE")
      BY <2>1, <1>1 DEF ToldFor, Follows
    <3>2. /\ After(c2, "ROLLBACK_WRITE").ok
          /\ After(c2, "ROLLBACK_WRITE").reading <=> c2.reading
          /\ After(c2, "ROLLBACK_WRITE").writing = "no"
      <4>0. "ROLLBACK_WRITE" \notin {"OPEN", "CLOSE", "FREE"}
            /\ "ROLLBACK_WRITE" \in {"COMMIT_WRITE", "ROLLBACK_WRITE", "FREE"}
        OBVIOUS
      <4>1. c2 \in Callback /\ c2.ok
        BY <1>1
      <4>2. After(c2, "ROLLBACK_WRITE").ok
        BY <1>0, <4>0, <4>1, <3>1, AfterCommand
      <4>3. After(c2, "ROLLBACK_WRITE").reading <=> c2.reading
        BY <1>0, <4>0, <4>1, <3>1, AfterCommand
      <4>4. After(c2, "ROLLBACK_WRITE").writing = "no"
        BY DEF After
      <4> QED
        BY <4>2, <4>3, <4>4
    <3>3. After(c2, "ROLLBACK_WRITE") \in Callback
      BY <1>0, <1>1, AfterTyped
    <3> QED
      BY <2>1, <3>2, <3>3, <1>1
  <2>2. CASE r.write_state # "OPEN"
    BY <2>2, <1>1 DEF ToldFor
  <2> QED
    BY <2>1, <2>2
<1>3. Follows(c3, "FREE")
  BY <1>2 DEF Follows
<1> QED
  BY <1>0, <1>2, <1>3, AfterCommand

\* The same archives, which may know of fewer windows.
SameArchives(m, n) ==
    \A a \in Archives :
        /\ n.archive[a] = NULL <=> m.archive[a] = NULL
        /\ m.archive[a] # NULL =>
              /\ n.archive[a].src = m.archive[a].src
              /\ n.archive[a].entry = m.archive[a].entry

\* When an owner of s goes, what is left is owned by the others, open for the
\* others, and knows of nothing that went.
LEMMA FreeKeeps ==
    ASSUME NEW m, NEW h, NEW o, Sound(m, h, o), NEW s \in Ids, h[s] >= 1,
           \A i \in Ids : 0 <= o[i]
    PROVE  /\ Sound(Free(m, s), [h EXCEPT ![s] = @ - 1], o)
           /\ SameArchives(m, Free(m, s))
           /\ LiveIn(Free(m, s)) \subseteq LiveIn(m)
           /\ m.source[s].refcount = 1 => s \notin LiveIn(Free(m, s))
<1> DEFINE F == FreedLayers(m, s)
           b == StaysBelow(m, s, F)
           m1 == ClosedBelow(m, F, b)
           X1 == {i \in F : IsOpen(m, i)}
           m2 == Call(m1, X1, "CLOSE")
           X2 == {i \in F : m.source[i].write_state = "OPEN"}
           m3 == Call(m2, X2, "ROLLBACK_WRITE")
           m4 == Call(m3, F, "FREE")
           m5 == Deregistered(m4, F)
           n == Without(m5, F, b)
           h2 == [h EXCEPT ![s] = @ - 1]
<1>0. /\ m \in MemoryTyped /\ h \in [Ids -> Nat] /\ o \in [Ids -> Int]
      /\ Owned(m, h) /\ LayersStand(m) /\ NoLoops(m) /\ WindowsKnow(m)
  BY DEF Sound
<1>1. s \in LiveIn(m)
  BY <1>0 DEF Owned
<1>2. LiveIn(m) \in SUBSET Ids /\ NULL \notin Ids
  BY <1>0, LiveTyped
<1>3. /\ F \subseteq LiveIn(m) /\ b \in (LiveIn(m) \ F) \cup {NULL}
      /\ b # NULL => m.source[b].refcount # 1
      /\ s \in F \/ (F = {} /\ b = s)
      /\ b = s => F = {}
      /\ \A j \in F : m.source[j].lower \in F \cup {b, NULL}
      /\ \A j \in F : AboveIn(m, j) \subseteq F
      /\ \A j \in F : h[j] = IF j = s THEN 1 ELSE 0
      /\ b \in LiveIn(m) \ {s} => \E p \in F : AboveIn(m, b) \cap F = {p}
  BY <1>1, FreedFacts
<1>4. Free(m, s) = n
  BY DEF Free
<1>5. /\ m1 \in MemoryTyped /\ SameLayers(m, m1) /\ CallbacksTold(m1)
      /\ \A i \in F : m1.source[i].open_count = m.source[i].open_count
      /\ \A i \in LiveIn(m) \ F :
            m1.source[i].open_count <= o[i] + Cardinality(OpenAbove(m1, i) \ F)
  BY <1>1, ClosedBelowKeeps
<1>6. m.source[s].refcount = 1 => s \in F
  BY <1>3, <1>1, <1>2
<1> HIDE DEF F, b, m1
<1>7. "CLOSE" \in Commands /\ "ROLLBACK_WRITE" \in Commands /\ "FREE" \in Commands
  BY DEF Commands
<1>8. /\ m2 \in MemoryTyped /\ m2.source = m1.source /\ m2.archive = m1.archive
      /\ \A i \in Ids : m2.callback[i] = IF i \in X1 THEN After(m1.callback[i], "CLOSE")
                                         ELSE m1.callback[i]
  <2> HIDE DEF X1
  <2> QED
    BY <1>5, <1>7, CallEffect
<1> HIDE DEF m2
<1>9. /\ m3 \in MemoryTyped /\ m3.source = m1.source /\ m3.archive = m1.archive
      /\ \A i \in Ids : m3.callback[i] = IF i \in X2 THEN After(m2.callback[i], "ROLLBACK_WRITE")
                                         ELSE m2.callback[i]
  <2> HIDE DEF X2
  <2> QED
    BY <1>8, <1>7, CallEffect
<1> HIDE DEF m3
<1>10. /\ m4 \in MemoryTyped /\ m4.source = m1.source /\ m4.archive = m1.archive
       /\ \A i \in Ids : m4.callback[i] = IF i \in F THEN After(m3.callback[i], "FREE")
                                          ELSE m3.callback[i]
  BY <1>9, <1>7, CallEffect
<1> HIDE DEF m4
<1>11. /\ m5 \in MemoryTyped /\ m5.source = m1.source /\ m5.callback = m4.callback
       /\ \A a \in Archives :
             /\ m5.archive[a] = NULL <=> m.archive[a] = NULL
             /\ m.archive[a] # NULL =>
                   /\ m5.archive[a].src = m.archive[a].src
                   /\ m5.archive[a].entry = m.archive[a].entry
                   /\ m5.archive[a].open_source = m.archive[a].open_source \ {i \in F :
                         m1.source[i].source_archive = a /\ ~m1.source[i].source_closed}
  <2>1. m1.archive = m.archive
    BY <1>5 DEF SameLayers, SameStack
  <2> QED
    BY <1>10, <2>1, DeregisteredEffect
<1> HIDE DEF m5
<1>12. LiveIn(m5) = LiveIn(m)
  BY <1>5, <1>11 DEF LiveIn, SameLayers, SameStack
<1>13. /\ n \in MemoryTyped /\ n.callback = m4.callback /\ n.archive = m5.archive
       /\ LiveIn(n) = LiveIn(m) \ F
       /\ \A i \in LiveIn(n) :
             /\ n.source[i].lower = m.source[i].lower
             /\ n.source[i].open_count = m1.source[i].open_count
             /\ n.source[i].write_state = m.source[i].write_state
             /\ n.source[i].source_archive = m.source[i].source_archive
             /\ n.source[i].source_closed = m.source[i].source_closed
             /\ n.source[i].refcount = IF i = b THEN m.source[i].refcount - 1
                                       ELSE m.source[i].refcount
  <2>1. b # NULL => m5.source[b].refcount # 1
    BY <1>3, <1>5, <1>11 DEF SameLayers, SameStack
  <2>2. /\ n \in MemoryTyped /\ n.callback = m5.callback /\ n.archive = m5.archive
        /\ LiveIn(n) = LiveIn(m5) \ F
        /\ \A i \in LiveIn(n) :
              /\ n.source[i].lower = m5.source[i].lower
              /\ n.source[i].open_count = m5.source[i].open_count
              /\ n.source[i].write_state = m5.source[i].write_state
              /\ n.source[i].source_archive = m5.source[i].source_archive
              /\ n.source[i].source_closed = m5.source[i].source_closed
              /\ n.source[i].refcount = IF i = b THEN m5.source[i].refcount - 1
                                        ELSE m5.source[i].refcount
    <3>1. m5 \in MemoryTyped /\ F \in SUBSET LiveIn(m5) /\ b \in (LiveIn(m5) \ F) \cup {NULL}
      BY <1>3, <1>11, <1>12
    <3>2. n = Without(m5, F, b)
      OBVIOUS
    <3> HIDE DEF n
    <3>3. n \in MemoryTyped
      BY <3>1, <3>2, <2>1, WithoutEffect
    <3>4. LiveIn(n) = LiveIn(m5) \ F
      BY <3>1, <3>2, <2>1, WithoutEffect
    <3>5. n.callback = m5.callback /\ n.archive = m5.archive
      BY <3>1, <3>2, <2>1, WithoutEffect
    <3> QED
      BY <3>1, <3>2, <3>3, <3>4, <3>5, <2>1, WithoutEffect
  <2> HIDE DEF n
  <2> QED
    BY <2>2, <1>5, <1>11, <1>12 DEF SameLayers, SameStack
<1> HIDE DEF n
<1>14. \A i \in LiveIn(n) : AboveIn(n, i) = AboveIn(m, i) \ F
  BY <1>13 DEF AboveIn
<1>15. h2 \in [Ids -> Nat] /\ h2[s] = h[s] - 1 /\ \A i \in Ids : i # s => h2[i] = h[i]
  <2>1. h[s] - 1 \in Nat
    BY <1>0
  <2> QED
    BY <1>0, <2>1
<1> HIDE DEF h2
<1>16. Owned(n, h2)
  <2>1. ASSUME NEW i \in LiveIn(n)
        PROVE  n.source[i].refcount = h2[i] + Cardinality(AboveIn(n, i))
    <3>1. i \in LiveIn(m) /\ i \notin F /\ i \in Ids
      BY <1>2, <1>13
    <3>2. m.source[i].refcount = h[i] + Cardinality(AboveIn(m, i)) /\ h[i] \in Nat
      BY <3>1, <1>0 DEF Owned
    <3>3. AboveIn(m, i) \in SUBSET Ids /\ IsFiniteSet(AboveIn(m, i))
          /\ Cardinality(AboveIn(m, i)) \in Nat
      BY <1>0, LiveTyped, Counted
    <3>4. CASE i = b /\ i = s
      <4>1. AboveIn(n, i) = AboveIn(m, i)
        BY <3>4, <1>3, <1>14
      <4> QED
        BY <4>1, <3>2, <3>3, <3>4, <1>13, <1>15
    <3>5. CASE i = b /\ i # s
      <4>1. PICK p \in F : AboveIn(m, b) \cap F = {p}
        BY <3>1, <3>5, <1>3
      <4>2. p \in AboveIn(m, i) /\ AboveIn(n, i) = AboveIn(m, i) \ {p}
        BY <4>1, <3>5, <1>14
      <4>3. Cardinality(AboveIn(n, i)) = Cardinality(AboveIn(m, i)) - 1
        BY <4>2, <3>3, OneLess
      <4>4. n.source[i].refcount = m.source[i].refcount - 1 /\ h2[i] = h[i]
        BY <3>1, <3>5, <1>13, <1>15
      <4> QED
        BY <4>3, <4>4, <3>2, <3>3
    <3>6. CASE i # b
      <4>1. i # s
        BY <3>1, <3>6, <1>3
      <4>2. AboveIn(m, i) \cap F = {}
        BY <3>1, <3>6, <1>2, <1>3 DEF AboveIn
      <4>3. AboveIn(n, i) = AboveIn(m, i)
        BY <4>2, <1>14
      <4> QED
        BY <4>1, <4>3, <3>1, <3>2, <3>6, <1>13, <1>15
    <3> QED
      BY <3>4, <3>5, <3>6
  <2>2. ASSUME NEW i \in Ids, i \notin LiveIn(n) PROVE h2[i] = 0
    <3>1. CASE i \in F
      BY <3>1, <1>3, <1>15
    <3>2. CASE i \notin F
      <4>1. i \notin LiveIn(m)
        BY <2>2, <3>2, <1>13
      <4>2. i # s
        BY <4>1, <1>1
      <4> QED
        BY <4>1, <4>2, <2>2, <1>0, <1>15 DEF Owned
    <3> QED
      BY <3>1, <3>2
  <2> QED
    BY <2>1, <2>2 DEF Owned
<1>17. LayersStand(n)
  <2>1. ASSUME NEW i \in LiveIn(n) PROVE m.source[i].lower \in LiveIn(n) \cup {NULL}
    <3>1. i \in LiveIn(m) /\ i \notin F
      BY <1>13
    <3>2. m.source[i].lower \in LiveIn(m) \cup {NULL}
      BY <3>1, <1>0 DEF LayersStand
    <3>3. m.source[i].lower \notin F
      <4>1. SUFFICES ASSUME m.source[i].lower \in F PROVE FALSE
        OBVIOUS
      <4>2. i \in AboveIn(m, m.source[i].lower)
        BY <3>1 DEF AboveIn
      <4> QED
        BY <4>1, <4>2, <3>1, <1>3
    <3> QED
      BY <3>2, <3>3, <1>13
  <2> QED
    BY <2>1, <1>13 DEF LayersStand
<1>18. NoLoops(n)
  <2>1. SUFFICES ASSUME NEW T \in SUBSET LiveIn(n), T # {}
                 PROVE  \E i \in T : n.source[i].lower \notin T
    BY DEF NoLoops
  <2>2. PICK i \in T : m.source[i].lower \notin T
    BY <2>1, <1>0, <1>13 DEF NoLoops
  <2> QED
    BY <2>1, <2>2, <1>13
<1>19. OpensCounted(n, o)
  <2>1. \A i \in LiveIn(n) : OpenAbove(n, i) = OpenAbove(m1, i) \ F
    <3>1. \A i : AboveIn(m1, i) = AboveIn(m, i)
      BY <1>5, LayersKept
    <3>2. \A l \in LiveIn(n) : n.source[l].open_count = m1.source[l].open_count
      BY <1>13
    <3>3. LiveIn(n) = LiveIn(m) \ F
      BY <1>13
    <3> QED
      BY <3>1, <3>2, <3>3, <1>14 DEF OpenAbove, AboveIn
  <2> QED
    BY <2>1, <1>5, <1>13 DEF OpensCounted
<1>20. CallbacksTold(n)
  <2>1. \A i \in Ids : m1.callback[i] \in Callback /\ m1.callback[i].ok
    BY <1>5, LiveTyped DEF CallbacksTold
  <2>2. \A i \in LiveIn(m) : ToldFor(m1.callback[i], m1.source[i]) /\ m1.source[i] \in Source
    BY <1>5, LiveTyped DEF CallbacksTold, SameLayers, SameStack
  <2>3. \A i \in Ids \ F : n.callback[i] = m1.callback[i]
    BY <1>8, <1>9, <1>10, <1>13
  <2>4. ASSUME NEW i \in F PROVE n.callback[i].ok
    <3>1. i \in Ids /\ i \in LiveIn(m) /\ m1.source[i].open_count = m.source[i].open_count
          /\ m1.source[i].write_state = m.source[i].write_state
      BY <1>2, <1>3, <1>5 DEF SameLayers, SameStack
    <3>2. m2.callback[i] = IF m1.source[i].open_count > 0 THEN After(m1.callback[i], "CLOSE")
                           ELSE m1.callback[i]
      BY <3>1, <1>8 DEF IsOpen
    <3>3. m3.callback[i] = IF m1.source[i].write_state = "OPEN"
                           THEN After(m2.callback[i], "ROLLBACK_WRITE") ELSE m2.callback[i]
      BY <3>1, <1>9
    <3>4. n.callback[i] = After(m3.callback[i], "FREE")
      BY <3>1, <1>10, <1>13
    <3>5. After(m3.callback[i], "FREE").ok
      BY <3>1, <3>2, <3>3, <2>1, <2>2, FreedCallback
    <3> QED
      BY <3>4, <3>5
  <2>5. \A i \in Ids : n.callback[i].ok
    BY <2>1, <2>3, <2>4
  <2>6. ASSUME NEW i \in LiveIn(n) PROVE ToldFor(n.callback[i], n.source[i])
    <3>1. i \in Ids \ F /\ i \in LiveIn(m)
      BY <1>2, <1>13
    <3>2. /\ n.source[i].open_count = m1.source[i].open_count
          /\ n.source[i].write_state = m1.source[i].write_state
      BY <3>1, <1>13, <1>5 DEF SameLayers, SameStack
    <3> QED
      BY <3>1, <3>2, <2>2, <2>3 DEF ToldFor
  <2> QED
    BY <2>5, <2>6 DEF CallbacksTold
<1>21. SameArchives(m, n)
  BY <1>11, <1>13 DEF SameArchives
<1>22. WindowsKnow(n)
  <2>1. SUFFICES ASSUME NEW a \in Archives, n.archive[a] # NULL,
                        NEW w \in n.archive[a].open_source
                 PROVE  w \in LiveIn(n) /\ n.source[w].source_archive = a
                        /\ ~n.source[w].source_closed
    BY DEF WindowsKnow
  <2>2. m.archive[a] # NULL /\ w \in m.archive[a].open_source
        /\ ~(w \in F /\ m1.source[w].source_archive = a /\ ~m1.source[w].source_closed)
    BY <2>1, <1>11, <1>13
  <2>3. w \in LiveIn(m) /\ m.source[w].source_archive = a /\ ~m.source[w].source_closed
    BY <2>2, <1>0 DEF WindowsKnow
  <2>4. w \notin F
    BY <2>2, <2>3, <1>5 DEF SameLayers, SameStack
  <2> QED
    BY <2>3, <2>4, <1>13
<1>23. Sound(n, h2, o)
  BY <1>0, <1>13, <1>15, <1>16, <1>17, <1>18, <1>19, <1>20, <1>22 DEF Sound
<1> QED
  BY <1>4, <1>6, <1>13, <1>21, <1>23 DEF h2

(***************************************************************************)
(* zip_source_begin_write, zip_source_commit_write and so on.              *)
(***************************************************************************)

\* n is as sound as m was, with the same archives and sources.
Kept(m, n, h, o) ==
    Sound(n, h, o) /\ n.archive = m.archive /\ LiveIn(n) = LiveIn(m)

WriteStates == {"CLOSED", "OPEN", "FAILED", "REMOVED"}
WriteCommands == {"BEGIN_WRITE", "COMMIT_WRITE", "COMMIT_WRITE fails", "ROLLBACK_WRITE"}

\* The write state that a command leads to.
StateAfter(cmd) ==
    IF cmd = "BEGIN_WRITE" THEN "OPEN" ELSE IF cmd = "COMMIT_WRITE fails" THEN "FAILED" ELSE "CLOSED"

\* The write state of s is set to w, after its callback has been told.
LEMMA WrittenKeeps ==
    ASSUME NEW m, NEW h, NEW o, Sound(m, h, o), NEW s \in LiveIn(m),
           NEW w \in WriteStates,
           NEW c \in MemoryTyped, c.source = m.source, c.archive = m.archive,
           \A i \in Ids : i # s => c.callback[i] = m.callback[i],
           c.callback[s].ok, c.callback[s].reading <=> m.callback[s].reading,
           c.callback[s].writing = "open" <=> w = "OPEN",
           w = "FAILED" => c.callback[s].writing # "no"
    PROVE  /\ Kept(m, SetWriteState(c, s, w), h, o)
           /\ SetWriteState(c, s, w).source[s].write_state = w
<1> DEFINE n == SetWriteState(c, s, w)
<1>0. /\ m \in MemoryTyped /\ LiveIn(m) \in SUBSET Ids /\ s \in Ids /\ NULL \notin Source
      /\ m.source[s] \in Source
  BY LiveTyped DEF Sound
<1>1. /\ n \in MemoryTyped /\ n.callback = c.callback /\ n.archive = m.archive
      /\ \A i \in Ids : i # s => n.source[i] = m.source[i]
      /\ n.source[s] = [m.source[s] EXCEPT !.write_state = w]
  <2>1. [m.source[s] EXCEPT !.write_state = w] \in Source
    BY <1>0 DEF Source, WriteStates
  <2>2. n = [c EXCEPT !.source = [c.source EXCEPT ![s] = [m.source[s] EXCEPT !.write_state = w]]]
    BY <1>0 DEF SetWriteState, MemoryTyped
  <2>3. [c.source EXCEPT ![s] = [m.source[s] EXCEPT !.write_state = w]] \in
            [Ids -> Source \cup {NULL}]
    BY <1>0, <2>1 DEF MemoryTyped
  <2> HIDE DEF n
  <2> QED
    BY <1>0, <2>2, <2>3 DEF MemoryTyped
<1> HIDE DEF n
<1>2. /\ n.source[s] \in Source /\ n.source[s].write_state = w
      /\ n.source[s].lower = m.source[s].lower
      /\ n.source[s].refcount = m.source[s].refcount
      /\ n.source[s].open_count = m.source[s].open_count
      /\ n.source[s].source_archive = m.source[s].source_archive
      /\ n.source[s].source_closed = m.source[s].source_closed
  BY <1>0, <1>1 DEF Source, WriteStates
<1>3. SameStack(m, n)
  <2>1. LiveIn(n) = LiveIn(m)
    BY <1>0, <1>1, <1>2 DEF LiveIn
  <2>2. \A i \in LiveIn(m) : n.source[i].lower = m.source[i].lower
                             /\ n.source[i].refcount = m.source[i].refcount
    BY <1>0, <1>1, <1>2
  <2> QED
    BY <2>1, <2>2 DEF SameStack
<1>4. \A i \in LiveIn(m) : n.source[i].open_count = m.source[i].open_count
  BY <1>0, <1>1, <1>2
<1>5. Owned(n, h) /\ LayersStand(n) /\ NoLoops(n) /\ OpensCounted(n, o)
  BY <1>3, <1>4, StackKept, CountsKept DEF Sound
<1>6. CallbacksTold(n)
  <2>1. \A i \in Ids : n.callback[i].ok
    BY <1>1 DEF Sound, CallbacksTold
  <2>2. ToldFor(m.callback[s], m.source[s])
    BY DEF Sound, CallbacksTold
  <2>3. ToldFor(n.callback[s], n.source[s])
    BY <1>1, <1>2, <2>2 DEF ToldFor
  <2>4. \A i \in LiveIn(m) : i # s => ToldFor(n.callback[i], n.source[i])
    BY <1>0, <1>1 DEF Sound, CallbacksTold
  <2> QED
    BY <1>3, <2>1, <2>3, <2>4 DEF CallbacksTold, SameStack
<1>7. WindowsKnow(n)
  <2>1. \A i \in LiveIn(m) : /\ n.source[i].source_archive = m.source[i].source_archive
                             /\ n.source[i].source_closed = m.source[i].source_closed
    BY <1>0, <1>1, <1>2
  <2> QED
    BY <1>1, <1>3, <2>1 DEF Sound, WindowsKnow, SameStack
<1> QED
  BY <1>1, <1>2, <1>3, <1>5, <1>6, <1>7 DEF Kept, Sound, SameStack, n

\* A command about writing, to the callback of s, and the state it leads to.
LEMMA CommandKeeps ==
    ASSUME NEW m, NEW h, NEW o, Sound(m, h, o), NEW s \in LiveIn(m),
           NEW cmd \in WriteCommands, Follows(m.callback[s], cmd)
    PROVE  /\ Kept(m, SetWriteState(Call(m, {s}, cmd), s, StateAfter(cmd)), h, o)
           /\ SetWriteState(Call(m, {s}, cmd), s, StateAfter(cmd)).source[s].write_state
                  = StateAfter(cmd)
<1> DEFINE ids == {s}
           w == StateAfter(cmd)
           c == Call(m, ids, cmd)
<1>0. m \in MemoryTyped /\ s \in Ids /\ m.callback[s] \in Callback /\ m.callback[s].ok
  BY LiveTyped DEF Sound, CallbacksTold
<1>1. cmd \in Commands /\ cmd \notin {"OPEN", "CLOSE", "FREE"}
  BY DEF Commands, WriteCommands
<1>2. s \in ids /\ \A i \in Ids : i # s => i \notin ids
  OBVIOUS
<1> HIDE DEF ids
<1>3. /\ c \in MemoryTyped /\ c.source = m.source /\ c.archive = m.archive
      /\ \A i \in Ids : c.callback[i] = IF i \in ids THEN After(m.callback[i], cmd)
                                        ELSE m.callback[i]
  BY <1>0, <1>1, CallEffect
<1> HIDE DEF c
<1>4. c.callback[s] = After(m.callback[s], cmd) /\ \A i \in Ids : i # s => c.callback[i] = m.callback[i]
  BY <1>0, <1>2, <1>3
<1>5. After(m.callback[s], cmd).ok /\ (After(m.callback[s], cmd).reading <=> m.callback[s].reading)
  BY <1>0, <1>1, AfterCommand
<1>6. After(m.callback[s], cmd).writing =
        CASE cmd = "BEGIN_WRITE" -> "open"
          [] cmd = "COMMIT_WRITE fails" -> "failed"
          [] cmd \in {"COMMIT_WRITE", "ROLLBACK_WRITE", "FREE"} -> "no"
          [] OTHER -> m.callback[s].writing
  BY DEF After
<1>7. /\ w \in WriteStates
      /\ After(m.callback[s], cmd).writing = "open" <=> w = "OPEN"
      /\ w = "FAILED" => After(m.callback[s], cmd).writing # "no"
  BY <1>6 DEF WriteCommands, WriteStates, StateAfter
<1> HIDE DEF w
<1>8. Kept(m, SetWriteState(c, s, w), h, o) /\ SetWriteState(c, s, w).source[s].write_state = w
  <2>1. /\ c.callback[s].ok
        /\ c.callback[s].reading <=> m.callback[s].reading
        /\ c.callback[s].writing = "open" <=> w = "OPEN"
        /\ w = "FAILED" => c.callback[s].writing # "no"
    BY <1>4, <1>5, <1>7
  <2> QED
    BY <1>3, <1>4, <1>7, <2>1, WrittenKeeps
<1> QED
  BY <1>8 DEF c, w, ids

LEMMA BeginKeeps ==
    ASSUME NEW m, NEW h, NEW o, Sound(m, h, o), NEW s \in LiveIn(m), CanBeginWrite(m, s)
    PROVE  Kept(m, Begin(m, s), h, o)
<1>1. ToldFor(m.callback[s], m.source[s])
  BY DEF Sound, CallbacksTold
<1>2. Follows(m.callback[s], "BEGIN_WRITE")
  BY <1>1 DEF Follows, ToldFor, CanBeginWrite
<1>3. Kept(m, SetWriteState(Call(m, {s}, "BEGIN_WRITE"), s, "OPEN"), h, o)
  <2>1. "BEGIN_WRITE" \in WriteCommands /\ StateAfter("BEGIN_WRITE") = "OPEN"
    BY DEF WriteCommands, StateAfter
  <2>2. Kept(m, SetWriteState(Call(m, {s}, "BEGIN_WRITE"), s, StateAfter("BEGIN_WRITE")), h, o)
    BY <1>2, <2>1, CommandKeeps
  <2> QED
    BY <2>1, <2>2
<1> QED
  BY <1>3 DEF Begin

\* Closing a source takes no open away that is needed.
LEMMA CloseOnlyKeeps ==
    ASSUME NEW m, NEW h, NEW o, Sound(m, h, o), NEW s \in LiveIn(m), \A i \in Ids : 0 <= o[i]
    PROVE  /\ Kept(m, Close(m, s), h, o) /\ SameLayers(m, Close(m, s))
           /\ m.source[s].open_count <= 1 => Close(m, s).source[s].open_count = 0
<1>1. m \in MemoryTyped /\ o \in [Ids -> Int] /\ s \in Ids
  BY LiveTyped DEF Sound
<1>2. OpenAbove(m, s) \in SUBSET Ids
  BY <1>1, LiveTyped
<1>3. Cardinality(OpenAbove(m, s)) \in Nat
  BY <1>2, Counted
<1>4. 0 <= o[s] + Cardinality(OpenAbove(m, s)) /\ o[s] \in {o[s], o[s] - 1}
      /\ \A i \in Ids : i # s => o[i] = o[i] /\ 0 <= o[i]
  BY <1>1, <1>3
<1>5. Sound(Close(m, s), h, o) /\ SameLayers(m, Close(m, s))
      /\ (m.source[s].open_count <= 1 => Close(m, s).source[s].open_count = 0)
  BY <1>1, <1>4, CloseKeeps
<1> QED
  BY <1>5 DEF Kept, SameLayers, SameStack

\* A commit, which nobody reads the source during.
LEMMA CommitKeeps ==
    ASSUME NEW m, NEW h, NEW o, Sound(m, h, o), NEW s \in LiveIn(m), \A i \in Ids : 0 <= o[i],
           CanCommit(m, s)
    PROVE  /\ Kept(m, Commit(m, s), h, o)
           /\ Kept(m, CommitFails(m, s), h, o)
<1> DEFINE c == Close(m, s)
<1>1. Sound(c, h, o) /\ SameLayers(m, c) /\ c.source[s].open_count = 0
      /\ c.archive = m.archive /\ LiveIn(c) = LiveIn(m)
  BY CloseOnlyKeeps DEF CanCommit, Kept
<1> HIDE DEF c
<1>2. s \in LiveIn(c) /\ c.source[s].write_state = "OPEN"
  BY <1>1 DEF SameLayers, SameStack, CanCommit
<1>3. ToldFor(c.callback[s], c.source[s])
  BY <1>1, <1>2 DEF Sound, CallbacksTold
<1>4. Follows(c.callback[s], "COMMIT_WRITE") /\ Follows(c.callback[s], "COMMIT_WRITE fails")
  BY <1>1, <1>2, <1>3 DEF Follows, ToldFor
<1>5. Kept(c, SetWriteState(Call(c, {s}, "COMMIT_WRITE"), s, "CLOSED"), h, o)
  <2>1. "COMMIT_WRITE" \in WriteCommands /\ StateAfter("COMMIT_WRITE") = "CLOSED"
    BY DEF WriteCommands, StateAfter
  <2>2. Kept(c, SetWriteState(Call(c, {s}, "COMMIT_WRITE"), s, StateAfter("COMMIT_WRITE")), h, o)
    BY <1>1, <1>2, <1>4, <2>1, CommandKeeps
  <2> QED
    BY <2>1, <2>2
<1>6. Kept(c, SetWriteState(Call(c, {s}, "COMMIT_WRITE fails"), s, "FAILED"), h, o)
  <2>1. "COMMIT_WRITE fails" \in WriteCommands /\ StateAfter("COMMIT_WRITE fails") = "FAILED"
    BY DEF WriteCommands, StateAfter
  <2>2. Kept(c, SetWriteState(Call(c, {s}, "COMMIT_WRITE fails"), s, StateAfter("COMMIT_WRITE fails")), h, o)
    BY <1>1, <1>2, <1>4, <2>1, CommandKeeps
  <2> QED
    BY <2>1, <2>2
<1> QED
  BY <1>1, <1>5, <1>6 DEF Kept, Commit, CommitFails, c

\* A rollback, if there is something to roll back.
LEMMA RollbackKeeps ==
    ASSUME NEW m, NEW h, NEW o, Sound(m, h, o), NEW s \in LiveIn(m)
    PROVE  /\ Kept(m, Rollback(m, s), h, o)
           /\ Rollback(m, s).source[s].write_state \notin {"OPEN", "FAILED"}
<1>1. CASE m.source[s].write_state \notin {"OPEN", "FAILED"}
  BY <1>1 DEF Rollback, Kept
<1>2. CASE m.source[s].write_state \in {"OPEN", "FAILED"}
  <2>1. ToldFor(m.callback[s], m.source[s])
    BY DEF Sound, CallbacksTold
  <2>2. Follows(m.callback[s], "ROLLBACK_WRITE")
    BY <1>2, <2>1 DEF Follows, ToldFor
  <2>3. /\ Kept(m, SetWriteState(Call(m, {s}, "ROLLBACK_WRITE"), s, "CLOSED"), h, o)
        /\ SetWriteState(Call(m, {s}, "ROLLBACK_WRITE"), s, "CLOSED").source[s].write_state
               = "CLOSED"
    <3>1. "ROLLBACK_WRITE" \in WriteCommands /\ StateAfter("ROLLBACK_WRITE") = "CLOSED"
      BY DEF WriteCommands, StateAfter
    <3>2. /\ Kept(m, SetWriteState(Call(m, {s}, "ROLLBACK_WRITE"), s,
                                   StateAfter("ROLLBACK_WRITE")), h, o)
          /\ SetWriteState(Call(m, {s}, "ROLLBACK_WRITE"), s,
                           StateAfter("ROLLBACK_WRITE")).source[s].write_state
                 = StateAfter("ROLLBACK_WRITE")
      BY <2>2, <3>1, CommandKeeps
    <3> QED
      BY <3>1, <3>2
  <2> QED
    BY <1>2, <2>3 DEF Rollback
<1> QED
  BY <1>1, <1>2

\* The removal of a file, or an attempt at it.
LEMMA RemoveKeeps ==
    ASSUME NEW m, NEW h, NEW o, Sound(m, h, o), NEW s \in LiveIn(m), \A i \in Ids : 0 <= o[i]
    PROVE  Kept(m, RemoveFile(m, s), h, o) /\ Kept(m, RemoveFails(m, s), h, o)
<1> DEFINE c == Close(m, s)
           r == Rollback(c, s)
<1>1. Kept(m, c, h, o)
  BY CloseOnlyKeeps
<1> HIDE DEF c
<1>2. Sound(c, h, o) /\ s \in LiveIn(c)
  BY <1>1 DEF Kept
<1>3. Kept(c, r, h, o) /\ r.source[s].write_state \notin {"OPEN", "FAILED"}
  BY <1>2, RollbackKeeps
<1> HIDE DEF r
<1>4. Kept(m, r, h, o) /\ Sound(r, h, o) /\ s \in LiveIn(r)
  BY <1>1, <1>3 DEF Kept
<1>5. Kept(r, SetWriteState(r, s, "REMOVED"), h, o)
  <2>1. ToldFor(r.callback[s], r.source[s]) /\ r \in MemoryTyped /\ s \in Ids
        /\ r.callback[s].ok
    BY <1>4, LiveTyped DEF Sound, CallbacksTold
  <2>2. r.callback[s].writing # "open"
    BY <2>1, <1>3 DEF ToldFor
  <2>3. "REMOVED" \in WriteStates
    BY DEF WriteStates
  <2> QED
    BY <1>4, <2>1, <2>2, <2>3, WrittenKeeps
<1>6. Kept(m, SetWriteState(r, s, "REMOVED"), h, o)
  BY <1>4, <1>5 DEF Kept
<1>7. Kept(m, RemoveFails(m, s), h, o)
  BY <1>4 DEF RemoveFails, r, c
<1>8. Kept(m, RemoveFile(m, s), h, o)
  BY <1>6 DEF RemoveFile, r, c, Kept
<1> QED
  BY <1>7, <1>8

(***************************************************************************)
(* What the program does to a single source, and new sources.              *)
(***************************************************************************)

\* The source s becomes r.
Put(m, s, r) == [m EXCEPT !.source = [m.source EXCEPT ![s] = r]]

LEMMA PutEffect ==
    ASSUME NEW m \in MemoryTyped, NEW s \in Ids, NEW r \in Source,
           NEW n, n = Put(m, s, r)
    PROVE  /\ n \in MemoryTyped /\ n.callback = m.callback /\ n.archive = m.archive
           /\ n.source[s] = r /\ LiveIn(n) = LiveIn(m) \cup {s}
           /\ \A i \in Ids : i # s => n.source[i] = m.source[i]
<1>1. [m.source EXCEPT ![s] = r] \in [Ids -> Source \cup {NULL}]
  BY DEF MemoryTyped
<1>2. /\ n \in MemoryTyped /\ n.callback = m.callback /\ n.archive = m.archive
      /\ n.source = [m.source EXCEPT ![s] = r]
  BY <1>1 DEF MemoryTyped, Put
<1>3. n.source[s] = r /\ \A i \in Ids : i # s => n.source[i] = m.source[i]
  BY <1>2 DEF MemoryTyped
<1>4. NULL \notin Source
  OBVIOUS
<1>5. LiveIn(n) = LiveIn(m) \cup {s}
  BY <1>3, <1>4 DEF LiveIn
<1> QED
  BY <1>2, <1>3, <1>5

\* A window that is invalidated is closed and forgets the archive, which has
\* forgotten it.
LEMMA InvalidateKeeps ==
    ASSUME NEW m, NEW h, NEW o, Sound(m, h, o), NEW w \in LiveIn(m), \A i \in Ids : 0 <= o[i],
           \A a \in Archives : m.archive[a] # NULL => w \notin m.archive[a].open_source
    PROVE  Kept(m, Invalidate(m, w), h, o)
<1> DEFINE c == Close(m, w)
           r == [c.source[w] EXCEPT !.source_closed = TRUE]
           n == Invalidate(m, w)
<1>1. Sound(c, h, o) /\ c.archive = m.archive /\ LiveIn(c) = LiveIn(m)
  BY CloseOnlyKeeps DEF Kept
<1> HIDE DEF c
<1>2. c \in MemoryTyped /\ LiveIn(c) \in SUBSET Ids /\ w \in Ids /\ w \in LiveIn(c)
      /\ c.source[w] \in Source
  BY <1>1, LiveTyped DEF Sound
<1>3. /\ r \in Source /\ r.open_count = c.source[w].open_count
      /\ r.lower = c.source[w].lower /\ r.refcount = c.source[w].refcount
      /\ r.write_state = c.source[w].write_state
  BY <1>2 DEF Source
<1>4. n = Put(c, w, r)
  BY <1>2 DEF Invalidate, Put, MemoryTyped, c
<1> HIDE DEF r, n
<1>5. /\ n \in MemoryTyped /\ n.callback = c.callback /\ n.archive = c.archive
      /\ n.source[w] = r /\ LiveIn(n) = LiveIn(c)
      /\ \A i \in Ids : i # w => n.source[i] = c.source[i]
  <2>1. /\ n \in MemoryTyped /\ n.callback = c.callback /\ n.archive = c.archive
        /\ n.source[w] = r /\ LiveIn(n) = LiveIn(c) \cup {w}
        /\ \A i \in Ids : i # w => n.source[i] = c.source[i]
    BY <1>2, <1>3, <1>4, PutEffect
  <2> QED
    BY <2>1, <1>2
<1>6. SameStack(c, n)
  BY <1>2, <1>3, <1>5 DEF SameStack
<1>7. Owned(n, h) /\ LayersStand(n) /\ NoLoops(n)
  BY <1>1, <1>6, StackKept DEF Sound
<1>8. \A i \in LiveIn(c) : n.source[i].open_count = c.source[i].open_count
                           /\ n.source[i].write_state = c.source[i].write_state
  BY <1>2, <1>3, <1>5
<1>9. OpensCounted(n, o)
  BY <1>1, <1>6, <1>8, CountsKept DEF Sound
<1>10. CallbacksTold(n)
  BY <1>1, <1>5, <1>8 DEF Sound, CallbacksTold, ToldFor
<1>11. WindowsKnow(n)
  <2>1. \A i \in LiveIn(c) : i # w => n.source[i] = c.source[i]
    BY <1>2, <1>5
  <2> QED
    BY <2>1, <1>1, <1>5 DEF Sound, WindowsKnow
<1>12. Sound(n, h, o)
  BY <1>1, <1>5, <1>7, <1>9, <1>10, <1>11 DEF Sound
<1> QED
  BY <1>1, <1>5, <1>12 DEF Kept, n

\* The source has one owner more; nothing else changes.
WithOwner(m, s) == Put(m, s, [m.source[s] EXCEPT !.refcount = @ + 1])

LEMMA OwnerAdded ==
    ASSUME NEW m \in MemoryTyped, NEW s \in LiveIn(m), NEW n, n = WithOwner(m, s)
    PROVE  /\ n \in MemoryTyped /\ n.callback = m.callback /\ n.archive = m.archive
           /\ LiveIn(n) = LiveIn(m)
           /\ \A i \in Ids : i # s => n.source[i] = m.source[i]
           /\ n.source[s].refcount = m.source[s].refcount + 1
           /\ \A i \in LiveIn(m) :
                 /\ n.source[i].open_count = m.source[i].open_count
                 /\ n.source[i].lower = m.source[i].lower
                 /\ n.source[i].write_state = m.source[i].write_state
                 /\ n.source[i].supports = m.source[i].supports
                 /\ n.source[i].source_archive = m.source[i].source_archive
                 /\ n.source[i].source_closed = m.source[i].source_closed
<1> DEFINE r == [m.source[s] EXCEPT !.refcount = @ + 1]
<1>1. LiveIn(m) \in SUBSET Ids /\ s \in Ids /\ m.source[s] \in Source
  BY LiveTyped
<1>2. /\ r \in Source /\ r.open_count = m.source[s].open_count
      /\ r.lower = m.source[s].lower /\ r.refcount = m.source[s].refcount + 1
      /\ r.write_state = m.source[s].write_state
      /\ r.supports = m.source[s].supports
      /\ r.source_archive = m.source[s].source_archive
      /\ r.source_closed = m.source[s].source_closed
  BY <1>1 DEF Source
<1>3. n = Put(m, s, r)
  BY DEF WithOwner
<1> HIDE DEF r
<1>4. /\ n \in MemoryTyped /\ n.callback = m.callback /\ n.archive = m.archive
      /\ n.source[s] = r /\ LiveIn(n) = LiveIn(m) \cup {s}
      /\ \A i \in Ids : i # s => n.source[i] = m.source[i]
  BY <1>1, <1>2, <1>3, PutEffect
<1> QED
  BY <1>1, <1>2, <1>4

\* One more owner.
LEMMA KeepKeeps ==
    ASSUME NEW m, NEW h, NEW o, Sound(m, h, o), NEW s \in LiveIn(m),
           NEW n, n = WithOwner(m, s)
    PROVE  /\ Sound(n, [h EXCEPT ![s] = @ + 1], o)
           /\ n.archive = m.archive /\ LiveIn(n) = LiveIn(m)
<1> DEFINE h2 == [h EXCEPT ![s] = @ + 1]
<1>1. m \in MemoryTyped /\ LiveIn(m) \in SUBSET Ids /\ s \in Ids
      /\ h \in [Ids -> Nat] /\ o \in [Ids -> Int]
  BY LiveTyped DEF Sound
<1>4. /\ n \in MemoryTyped /\ n.callback = m.callback /\ n.archive = m.archive
      /\ LiveIn(n) = LiveIn(m)
      /\ \A i \in Ids : i # s => n.source[i] = m.source[i]
      /\ n.source[s].refcount = m.source[s].refcount + 1
      /\ \A i \in LiveIn(m) :
            /\ n.source[i].open_count = m.source[i].open_count
            /\ n.source[i].lower = m.source[i].lower
            /\ n.source[i].write_state = m.source[i].write_state
            /\ n.source[i].source_archive = m.source[i].source_archive
            /\ n.source[i].source_closed = m.source[i].source_closed
  BY <1>1, OwnerAdded
<1>5. h2 \in [Ids -> Nat] /\ h2[s] = h[s] + 1 /\ \A i \in Ids : i # s => h2[i] = h[i]
  BY <1>1
<1> HIDE DEF h2
<1>7. \A i \in LiveIn(m) : AboveIn(n, i) = AboveIn(m, i) /\ OpenAbove(n, i) = OpenAbove(m, i)
  BY <1>4 DEF AboveIn, OpenAbove
<1>8. Owned(n, h2)
  <2>1. ASSUME NEW i \in LiveIn(m)
        PROVE  n.source[i].refcount = h2[i] + Cardinality(AboveIn(n, i))
    <3>1. m.source[i].refcount = h[i] + Cardinality(AboveIn(m, i)) /\ i \in Ids /\ h[i] \in Nat
      BY <1>1 DEF Sound, Owned
    <3>2. AboveIn(m, i) \in SUBSET Ids
      BY <1>1, LiveTyped
    <3>3. Cardinality(AboveIn(m, i)) \in Nat
      BY <3>2, Counted
    <3>4. CASE i = s
      BY <3>1, <3>3, <3>4, <1>4, <1>5, <1>7
    <3>5. CASE i # s
      BY <3>1, <3>3, <3>5, <1>4, <1>5, <1>7
    <3> QED
      BY <3>4, <3>5
  <2>2. \A i \in Ids \ LiveIn(m) : h2[i] = 0
    BY <1>5 DEF Sound, Owned
  <2> QED
    BY <2>1, <2>2, <1>4 DEF Owned
<1>9. LayersStand(n)
  BY <1>4 DEF Sound, LayersStand
<1>10. NoLoops(n)
  <2>1. SUFFICES ASSUME NEW T \in SUBSET LiveIn(m), T # {}
                 PROVE  \E i \in T : n.source[i].lower \notin T
    BY <1>4 DEF NoLoops
  <2>2. PICK i \in T : m.source[i].lower \notin T
    BY <2>1 DEF Sound, NoLoops
  <2> QED
    BY <2>1, <2>2, <1>4
<1>11. OpensCounted(n, o)
  BY <1>4, <1>7 DEF Sound, OpensCounted
<1>12. CallbacksTold(n)
  <2>1. \A i \in LiveIn(m) : ToldFor(m.callback[i], m.source[i])
    BY DEF Sound, CallbacksTold
  <2>2. ASSUME NEW i \in LiveIn(m) PROVE ToldFor(n.callback[i], n.source[i])
    <3>1. n.source[i].open_count = m.source[i].open_count
          /\ n.source[i].write_state = m.source[i].write_state
      BY <1>4
    <3> QED
      BY <2>1, <3>1, <1>4 DEF ToldFor
  <2> QED
    BY <2>2, <1>4 DEF Sound, CallbacksTold
<1>13. WindowsKnow(n)
  BY <1>4 DEF Sound, WindowsKnow
<1> QED
  BY <1>1, <1>4, <1>5, <1>8, <1>9, <1>10, <1>11, <1>12, <1>13 DEF Sound, h2

\* There is a new source w, which nobody is above yet and which may be above
\* another one; the owner of that one may give up a reference or not.
LEMMA AddedKeeps ==
    ASSUME NEW m, NEW h, NEW o, Sound(m, h, o), \A i \in Ids : 0 <= o[i],
           NEW w \in Ids \ LiveIn(m), NEW n \in MemoryTyped, NEW l \in LiveIn(m) \cup {NULL},
           LiveIn(n) = LiveIn(m) \cup {w},
           n.source[w].lower = l, n.source[w].open_count = 0, n.source[w].refcount = 1,
           n.source[w].write_state = "CLOSED", n.callback[w] = NewCallback,
           \A i \in LiveIn(m) :
              /\ n.source[i].lower = m.source[i].lower
              /\ n.source[i].open_count = m.source[i].open_count
              /\ n.source[i].write_state = m.source[i].write_state,
           \A i \in Ids : i # w => n.callback[i] = m.callback[i],
           NEW h2 \in [Ids -> Nat], h2[w] = 1,
           \A i \in LiveIn(m) : i # l =>
              n.source[i].refcount = m.source[i].refcount /\ h2[i] = h[i],
           l # NULL => n.source[l].refcount - m.source[l].refcount = h2[l] - h[l] + 1,
           \A i \in Ids \ LiveIn(m) : i # w => h2[i] = h[i],
           WindowsKnow(n)
    PROVE  Sound(n, h2, o)
<1>1. m \in MemoryTyped /\ LiveIn(m) \in SUBSET Ids /\ NULL \notin Ids
      /\ h \in [Ids -> Nat] /\ o \in [Ids -> Int]
  BY LiveTyped DEF Sound
<1>2. \A i \in LiveIn(m) : m.source[i].lower # w /\ m.source[i].lower \in LiveIn(m) \cup {NULL}
  BY <1>1 DEF Sound, LayersStand
<1>3. l # w
  BY <1>1
<1>4. AboveIn(n, w) = {} /\ OpenAbove(n, w) = {}
  BY <1>2, <1>3 DEF AboveIn, OpenAbove
<1>5. \A i \in LiveIn(m) : AboveIn(n, i) = IF i = l THEN AboveIn(m, i) \cup {w} ELSE AboveIn(m, i)
  BY <1>2 DEF AboveIn
<1>6. \A i \in LiveIn(m) : OpenAbove(n, i) = OpenAbove(m, i)
  <2>1. SUFFICES ASSUME NEW i \in LiveIn(m)
                 PROVE  \A k : k \in OpenAbove(n, i) <=> k \in OpenAbove(m, i)
    OBVIOUS
  <2>2. \A k \in LiveIn(m) : k \in OpenAbove(n, i) <=> k \in OpenAbove(m, i)
    BY DEF OpenAbove, AboveIn
  <2>3. w \notin OpenAbove(n, i)
    <3>1. ~(n.source[w].open_count > 0)
      OBVIOUS
    <3> QED
      BY <3>1 DEF OpenAbove
  <2>4. \A k : k \in OpenAbove(n, i) => k \in LiveIn(m) \cup {w}
    BY DEF OpenAbove, AboveIn
  <2>5. \A k : k \in OpenAbove(m, i) => k \in LiveIn(m)
    BY DEF OpenAbove, AboveIn
  <2> QED
    BY <2>2, <2>3, <2>4, <2>5
<1>7. Cardinality({}) = 0
  BY FS_EmptySet
<1>8. Owned(n, h2)
  <2>1. ASSUME NEW i \in LiveIn(m)
        PROVE  n.source[i].refcount = h2[i] + Cardinality(AboveIn(n, i))
    <3>1. m.source[i].refcount = h[i] + Cardinality(AboveIn(m, i)) /\ i \in Ids
          /\ h[i] \in Nat /\ h2[i] \in Nat
      BY <1>1 DEF Sound, Owned
    <3>2. AboveIn(m, i) \in SUBSET Ids /\ IsFiniteSet(AboveIn(m, i)) /\ w \notin AboveIn(m, i)
      BY <1>1, LiveTyped, Counted DEF AboveIn
    <3>3. Cardinality(AboveIn(m, i)) \in Nat
      BY <3>2, Counted
    <3>4. CASE i = l
      <4>1. Cardinality(AboveIn(n, i)) = Cardinality(AboveIn(m, i)) + 1
        BY <3>2, <3>4, <1>5, OneMore
      <4>2. n.source[i].refcount - m.source[i].refcount = h2[i] - h[i] + 1
        BY <3>4, <1>1
      <4>3. n.source[i].refcount \in Nat
        BY LiveTyped DEF Source
      <4> QED
        BY <4>1, <4>2, <4>3, <3>1, <3>3
    <3>5. CASE i # l
      BY <3>1, <3>5, <1>5
    <3> QED
      BY <3>4, <3>5
  <2>2. n.source[w].refcount = h2[w] + Cardinality(AboveIn(n, w))
    BY <1>4, <1>7
  <2>3. \A i \in Ids \ LiveIn(n) : h2[i] = 0
    BY DEF Sound, Owned
  <2> QED
    BY <2>1, <2>2, <2>3 DEF Owned
<1>9. LayersStand(n)
  BY <1>2 DEF LayersStand
<1>10. NoLoops(n)
  <2>1. SUFFICES ASSUME NEW T \in SUBSET (LiveIn(m) \cup {w}), T # {}
                 PROVE  \E i \in T : n.source[i].lower \notin T
    BY DEF NoLoops
  <2>2. CASE T \cap LiveIn(m) = {}
    <3>1. T = {w}
      BY <2>1, <2>2
    <3> QED
      BY <3>1, <1>3
  <2>3. CASE T \cap LiveIn(m) # {}
    <3>1. PICK i \in T \cap LiveIn(m) : m.source[i].lower \notin T \cap LiveIn(m)
      BY <2>3 DEF Sound, NoLoops
    <3>2. m.source[i].lower \notin T
      BY <3>1, <2>1, <1>1, <1>2
    <3> QED
      BY <3>1, <3>2
  <2> QED
    BY <2>2, <2>3
<1>11. OpensCounted(n, o)
  <2>1. 0 <= o[w] + 0 /\ n.source[w].open_count <= o[w] + 0
    BY <1>1
  <2>2. n.source[w].open_count <= o[w] + Cardinality(OpenAbove(n, w))
    BY <2>1, <1>4, <1>7
  <2>3. \A i \in LiveIn(m) : n.source[i].open_count <= o[i] + Cardinality(OpenAbove(n, i))
    BY <1>6 DEF Sound, OpensCounted
  <2> QED
    BY <2>2, <2>3 DEF OpensCounted
<1>12. CallbacksTold(n)
  <2>1. ToldFor(NewCallback, n.source[w]) /\ NewCallback.ok
    BY DEF ToldFor, NewCallback
  <2>2. \A i \in LiveIn(m) : ToldFor(n.callback[i], n.source[i])
    BY <1>1 DEF Sound, CallbacksTold, ToldFor
  <2>3. \A i \in Ids : n.callback[i].ok
    BY <2>1 DEF Sound, CallbacksTold
  <2> QED
    BY <2>1, <2>2, <2>3 DEF CallbacksTold
<1> QED
  BY <1>1, <1>8, <1>9, <1>10, <1>11, <1>12 DEF Sound

(***************************************************************************)
(* The owners and openers outside of memory.                               *)
(***************************************************************************)

\* Who opens a source more often than before is no less accounted for.
LEMMA MoreOpeners ==
    ASSUME NEW m, NEW h, NEW o, Sound(m, h, o), NEW o2 \in [Ids -> Int],
           \A i \in LiveIn(m) : o[i] <= o2[i]
    PROVE  Sound(m, h, o2)
<1>1. ASSUME NEW i \in LiveIn(m)
      PROVE  m.source[i].open_count <= o2[i] + Cardinality(OpenAbove(m, i))
  <2>1. m.source[i].open_count <= o[i] + Cardinality(OpenAbove(m, i)) /\ i \in Ids
        /\ o[i] \in Int /\ o2[i] \in Int /\ m.source[i].open_count \in Nat
    BY LiveTyped DEF Sound, OpensCounted, Source
  <2>2. OpenAbove(m, i) \in SUBSET Ids
    BY LiveTyped DEF Sound
  <2>3. Cardinality(OpenAbove(m, i)) \in Nat
    BY <2>2, Counted
  <2> QED
    BY <2>1, <2>3
<1> QED
  BY <1>1 DEF Sound, OpensCounted

\* What the archives own is counted.
LEMMA OwnersTyped ==
    ASSUME NEW m, NEW f \in [Ids -> Nat]
    PROVE  /\ OwnersIn(m, f) \in [Ids -> Nat] /\ OpenersIn(m, f) \in [Ids -> Nat]
           /\ OpenersIn(m, f) \in [Ids -> Int] /\ \A i \in Ids : 0 <= OpenersIn(m, f)[i]
           /\ \A i \in Ids :
                 /\ OwnersIn(m, f)[i] = f[i] + Cardinality(ArchivesFrom(m, i))
                                             + Cardinality(EntriesFrom(m, i))
                 /\ OpenersIn(m, f)[i] = f[i] + Cardinality(ArchivesFrom(m, i))
                 /\ Cardinality(ArchivesFrom(m, i)) \in Nat
                 /\ Cardinality(EntriesFrom(m, i)) \in Nat
<1>1. \A i : ArchivesFrom(m, i) \in SUBSET Archives /\ EntriesFrom(m, i) \in SUBSET Archives
  BY DEF ArchivesFrom, EntriesFrom
<1>2. \A i : Cardinality(ArchivesFrom(m, i)) \in Nat /\ Cardinality(EntriesFrom(m, i)) \in Nat
  BY <1>1, Counted
<1>3. \A i \in Ids :
        /\ OwnersIn(m, f)[i] = f[i] + Cardinality(ArchivesFrom(m, i)) + Cardinality(EntriesFrom(m, i))
        /\ OpenersIn(m, f)[i] = f[i] + Cardinality(ArchivesFrom(m, i))
  BY DEF OwnersIn, OpenersIn
<1>4. OwnersIn(m, f) \in [Ids -> Nat]
  BY <1>2 DEF OwnersIn
<1>5. OpenersIn(m, f) \in [Ids -> Nat]
  BY <1>2 DEF OpenersIn
<1> QED
  BY <1>2, <1>3, <1>4, <1>5

\* Two counts of owners are the same when they agree on every source.
LEMMA SameOwners ==
    ASSUME NEW f \in [Ids -> Int], NEW g \in [Ids -> Int], \A i \in Ids : f[i] = g[i]
    PROVE  f = g
OBVIOUS

\* The archives own the same when they are the same.
LEMMA ArchivesOwnSame ==
    ASSUME NEW m, NEW n, SameArchives(m, n)
    PROVE  \A f : OwnersIn(n, f) = OwnersIn(m, f) /\ OpenersIn(n, f) = OpenersIn(m, f)
<1>1. \A i : ArchivesFrom(n, i) = ArchivesFrom(m, i) /\ EntriesFrom(n, i) = EntriesFrom(m, i)
  BY DEF ArchivesFrom, EntriesFrom, SameArchives
<1> QED
  BY <1>1 DEF OwnersIn, OpenersIn

LEMMA KeptOwnsSame ==
    ASSUME NEW m, NEW n, n.archive = m.archive
    PROVE  SameArchives(m, n)
           /\ \A f : OwnersIn(n, f) = OwnersIn(m, f) /\ OpenersIn(n, f) = OpenersIn(m, f)
<1>1. SameArchives(m, n)
  BY DEF SameArchives
<1> QED
  BY <1>1, ArchivesOwnSame

\* Two sets that differ in a at most.
LEMMA DifferInOne ==
    ASSUME NEW S \in SUBSET Archives, NEW T \in SUBSET Archives, NEW a, S \ {a} = T \ {a}
    PROVE  /\ a \in S /\ a \notin T => Cardinality(T) = Cardinality(S) - 1
           /\ a \notin S /\ a \in T => Cardinality(T) = Cardinality(S) + 1
           /\ (a \in S <=> a \in T) => Cardinality(T) = Cardinality(S)
<1>0. IsFiniteSet(S) /\ IsFiniteSet(T)
  BY Counted
<1>1. CASE a \in S /\ a \notin T
  <2>1. T = S \ {a}
    BY <1>1
  <2> QED
    BY <1>0, <1>1, <2>1, OneLess
<1>2. CASE a \notin S /\ a \in T
  <2>1. T = S \cup {a}
    BY <1>2
  <2> QED
    BY <1>0, <1>2, <2>1, OneMore
<1>3. CASE a \in S <=> a \in T
  <2>1. T = S
    BY <1>3
  <2> QED
    BY <1>3, <2>1
<1> QED
  BY <1>1, <1>2, <1>3

\* The archive a becomes x.
PutArchive(m, a, x) == [m EXCEPT !.archive = [m.archive EXCEPT ![a] = x]]

LEMMA PutArchiveEffect ==
    ASSUME NEW m \in MemoryTyped, NEW a \in Archives, NEW x \in Archive \cup {NULL},
           NEW n, n = PutArchive(m, a, x)
    PROVE  /\ n \in MemoryTyped /\ n.source = m.source /\ n.callback = m.callback
           /\ LiveIn(n) = LiveIn(m)
           /\ n.archive[a] = x /\ \A c \in Archives : c # a => n.archive[c] = m.archive[c]
<1>1. [m.archive EXCEPT ![a] = x] \in [Archives -> Archive \cup {NULL}]
  BY DEF MemoryTyped
<1>2. /\ n \in MemoryTyped /\ n.source = m.source /\ n.callback = m.callback
      /\ n.archive = [m.archive EXCEPT ![a] = x]
  BY <1>1 DEF MemoryTyped, PutArchive
<1>3. n.archive[a] = x /\ \A c \in Archives : c # a => n.archive[c] = m.archive[c]
  BY <1>2 DEF MemoryTyped
<1> QED
  BY <1>2, <1>3 DEF LiveIn

\* Sources do not notice.
LEMMA SoundWithArchive ==
    ASSUME NEW m, NEW h, NEW o, Sound(m, h, o), NEW n \in MemoryTyped,
           n.source = m.source, n.callback = m.callback, WindowsKnow(n)
    PROVE  Sound(n, h, o)
<1>1. LiveIn(n) = LiveIn(m)
  BY DEF LiveIn
<1>2. SameStack(m, n)
  BY <1>1 DEF SameStack
<1>3. Owned(n, h) /\ LayersStand(n) /\ NoLoops(n) /\ OpensCounted(n, o)
  BY <1>2, StackKept, CountsKept DEF Sound
<1>4. CallbacksTold(n)
  BY <1>1 DEF Sound, CallbacksTold
<1> QED
  BY <1>3, <1>4 DEF Sound

\* What the archives own when one of them changes.
LEMMA ArchivesOwnOther ==
    ASSUME NEW m, NEW n, NEW a \in Archives,
           \A c \in Archives : c # a => n.archive[c] = m.archive[c]
    PROVE  \A i :
              /\ ArchivesFrom(n, i) \in SUBSET Archives /\ ArchivesFrom(m, i) \in SUBSET Archives
              /\ EntriesFrom(n, i) \in SUBSET Archives /\ EntriesFrom(m, i) \in SUBSET Archives
              /\ ArchivesFrom(m, i) \ {a} = ArchivesFrom(n, i) \ {a}
              /\ EntriesFrom(m, i) \ {a} = EntriesFrom(n, i) \ {a}
              /\ a \in ArchivesFrom(m, i) <=> m.archive[a] # NULL /\ m.archive[a].src = i
              /\ a \in ArchivesFrom(n, i) <=> n.archive[a] # NULL /\ n.archive[a].src = i
              /\ a \in EntriesFrom(m, i) <=> m.archive[a] # NULL /\ m.archive[a].entry = i
              /\ a \in EntriesFrom(n, i) <=> n.archive[a] # NULL /\ n.archive[a].entry = i
BY DEF ArchivesFrom, EntriesFrom

\* Who holds a source owns it, and so does an archive that was opened from it or
\* has an entry with its data; what is owned is there.
LEMMA OwnedIsLive ==
    ASSUME NEW m, NEW f \in [Ids -> Nat], NEW g \in [Ids -> Nat],
           Sound(m, OwnersIn(m, f), OpenersIn(m, g))
    PROVE  /\ \A i \in Ids : f[i] > 0 => OwnersIn(m, f)[i] >= 1 /\ i \in LiveIn(m)
           /\ \A i \in Ids \ LiveIn(m) : OwnersIn(m, f)[i] = 0 /\ f[i] = 0
           /\ \A a \in Archives : m.archive[a] # NULL =>
                 /\ m.archive[a] \in Archive
                 /\ m.archive[a].src \in LiveIn(m) /\ m.archive[a].src \in Ids
                 /\ OwnersIn(m, f)[m.archive[a].src] >= 1
                 /\ OpenersIn(m, g)[m.archive[a].src] >= 1
                 /\ m.archive[a].entry # NULL =>
                       /\ m.archive[a].entry \in LiveIn(m) /\ m.archive[a].entry \in Ids
                       /\ OwnersIn(m, f)[m.archive[a].entry] >= 1
                       /\ m.archive[a].entry = m.archive[a].src =>
                             OwnersIn(m, f)[m.archive[a].entry] >= 2
<1>1. \A i \in Ids : i \notin LiveIn(m) => OwnersIn(m, f)[i] = 0
  BY DEF Sound, Owned
<1>2. \A i \in Ids : /\ OwnersIn(m, f)[i] = f[i] + Cardinality(ArchivesFrom(m, i))
                                                 + Cardinality(EntriesFrom(m, i))
                     /\ OpenersIn(m, g)[i] = g[i] + Cardinality(ArchivesFrom(m, i))
                     /\ Cardinality(ArchivesFrom(m, i)) \in Nat
                     /\ Cardinality(EntriesFrom(m, i)) \in Nat
                     /\ f[i] \in Nat /\ g[i] \in Nat
  BY OwnersTyped
<1>3. \A i \in Ids : f[i] > 0 => OwnersIn(m, f)[i] >= 1 /\ i \in LiveIn(m)
  BY <1>1, <1>2
<1>4. \A i \in Ids \ LiveIn(m) : OwnersIn(m, f)[i] = 0 /\ f[i] = 0
  BY <1>1, <1>3, <1>2
<1>5. ASSUME NEW a \in Archives, m.archive[a] # NULL
      PROVE  /\ m.archive[a] \in Archive
             /\ m.archive[a].src \in LiveIn(m) /\ m.archive[a].src \in Ids
             /\ OwnersIn(m, f)[m.archive[a].src] >= 1
             /\ OpenersIn(m, g)[m.archive[a].src] >= 1
             /\ m.archive[a].entry # NULL =>
                   /\ m.archive[a].entry \in LiveIn(m) /\ m.archive[a].entry \in Ids
                   /\ OwnersIn(m, f)[m.archive[a].entry] >= 1
                   /\ m.archive[a].entry = m.archive[a].src =>
                         OwnersIn(m, f)[m.archive[a].entry] >= 2
  <2> DEFINE s == m.archive[a].src
             e == m.archive[a].entry
  <2>1. m.archive[a] \in Archive /\ s \in Ids /\ e \in Ids \cup {NULL}
    BY <1>5 DEF Sound, MemoryTyped, Archive
  <2>2. a \in ArchivesFrom(m, s) /\ a \in EntriesFrom(m, e)
    BY <1>5 DEF ArchivesFrom, EntriesFrom
  <2>3. ASSUME NEW S \in SUBSET Archives, a \in S PROVE Cardinality(S) >= 1
    <3>1. IsFiniteSet(S) /\ Cardinality(S) \in Nat /\ S # {}
      BY <2>3, Counted
    <3>2. Cardinality(S) # 0
      BY <3>1, FS_EmptySet
    <3> QED
      BY <3>1, <3>2
  <2>4. Cardinality(ArchivesFrom(m, s)) >= 1 /\ Cardinality(EntriesFrom(m, e)) >= 1
    BY <2>2, <2>3 DEF ArchivesFrom, EntriesFrom
  <2> HIDE DEF s, e
  <2>5. OwnersIn(m, f)[s] >= 1 /\ OpenersIn(m, g)[s] >= 1
    BY <1>2, <2>1, <2>4
  <2>6. e \in Ids => OwnersIn(m, f)[e] >= 1 /\ (e = s => OwnersIn(m, f)[e] >= 2)
    BY <1>2, <2>1, <2>4
  <2>7. s \in LiveIn(m) /\ (e \in Ids => e \in LiveIn(m))
    BY <1>1, <2>1, <2>5, <2>6
  <2> QED
    BY <2>1, <2>5, <2>6, <2>7 DEF s, e
<1> QED
  BY <1>3, <1>4, <1>5

(***************************************************************************)
(* zip_discard.                                                            *)
(***************************************************************************)

\* The archive a lets go of its source, which it has open, and of its entry's;
\* its windows are on their own.
LEMMA DiscardKeeps ==
    ASSUME NEW m, NEW f \in [Ids -> Nat], NEW g \in [Ids -> Nat],
           Sound(m, OwnersIn(m, f), OpenersIn(m, g)),
           NEW a \in Archives, m.archive[a] # NULL
    PROVE  LET left == Discarded(m, a)
               n == PutArchive(left, a, NULL)
           IN  /\ left \in MemoryTyped
               /\ Sound(n, OwnersIn(n, f), OpenersIn(n, g))
               /\ \A w \in left.archive[a].open_source :
                     /\ w \in LiveIn(n)
                     /\ \A c \in Archives : n.archive[c] # NULL =>
                                                w \notin n.archive[c].open_source
<1> DEFINE s == m.archive[a].src
           e == m.archive[a].entry
           h == OwnersIn(m, f)
           o == OpenersIn(m, g)
           o1 == [o EXCEPT ![s] = @ - 1]
           h1 == [h EXCEPT ![s] = @ - 1]
           m1 == Close(m, s)
           m2 == Free(m1, s)
           left == Discarded(m, a)
           n == PutArchive(left, a, NULL)
<1>1. /\ m.archive[a] \in Archive
      /\ s \in LiveIn(m) /\ s \in Ids /\ h[s] >= 1 /\ o[s] >= 1
      /\ e # NULL => /\ e \in LiveIn(m) /\ e \in Ids /\ h[e] >= 1
                     /\ e = s => h[e] >= 2
  BY OwnedIsLive
<1>2. /\ h \in [Ids -> Nat] /\ o \in [Ids -> Nat] /\ o \in [Ids -> Int]
      /\ \A i \in Ids : 0 <= o[i]
  BY OwnersTyped
<1>3. Sound(m, h, o) /\ m \in MemoryTyped
  BY DEF Sound
<1>4. left = FreeIfAny(m2, e)
  BY DEF Discarded
<1> HIDE DEF s, e, h, o, left
<1>5. /\ o1 \in [Ids -> Int] /\ o1[s] = o[s] - 1 /\ \A i \in Ids : i # s => o1[i] = o[i]
      /\ \A i \in Ids : 0 <= o1[i]
  BY <1>1, <1>2
<1>6. h1 \in [Ids -> Nat] /\ h1[s] = h[s] - 1 /\ \A i \in Ids : i # s => h1[i] = h[i]
  <2>1. h[s] - 1 \in Nat
    BY <1>1, <1>2
  <2> QED
    BY <2>1, <1>1, <1>2
<1>7. Sound(m1, h, o1) /\ m1.archive = m.archive
  <2>1. OpenAbove(m, s) \in SUBSET Ids
    BY <1>3, LiveTyped
  <2>2. Cardinality(OpenAbove(m, s)) \in Nat
    BY <2>1, Counted
  <2>3. 0 <= o1[s] + Cardinality(OpenAbove(m, s)) /\ o1[s] \in {o[s], o[s] - 1}
    BY <2>2, <1>1, <1>5
  <2> HIDE DEF o1
  <2>4. Sound(m1, h, o1) /\ SameLayers(m, m1)
    BY <2>3, <1>1, <1>2, <1>3, <1>5, CloseKeeps
  <2> QED
    BY <2>4 DEF SameLayers
<1> HIDE DEF o1, m1
<1>8. Sound(m2, h1, o1) /\ SameArchives(m1, m2)
  BY <1>1, <1>5, <1>7, FreeKeeps DEF h1
<1> HIDE DEF h1, m2
<1>9. /\ SameArchives(m, left)
      /\ \E h2 \in [Ids -> Nat] :
            /\ Sound(left, h2, o1)
            /\ \A i \in Ids : h2[i] = h1[i] - (IF i = e THEN 1 ELSE 0)
  <2>1. SameArchives(m, m2)
    BY <1>7, <1>8 DEF SameArchives
  <2>2. CASE e = NULL
    <3>1. left = m2
      BY <2>2, <1>4 DEF FreeIfAny
    <3>2. \A i \in Ids : h1[i] = h1[i] - (IF i = e THEN 1 ELSE 0)
      BY <2>2, <1>6
    <3> QED
      BY <3>1, <3>2, <2>1, <1>6, <1>8
  <2>3. CASE e # NULL
    <3> DEFINE h2 == [h1 EXCEPT ![e] = @ - 1]
    <3>1. left = Free(m2, e)
      BY <2>3, <1>4 DEF FreeIfAny
    <3>2. e \in Ids /\ h1[e] >= 1
      BY <2>3, <1>1, <1>2, <1>6
    <3>3. h2 \in [Ids -> Nat] /\ \A i \in Ids : h2[i] = h1[i] - (IF i = e THEN 1 ELSE 0)
      <4>1. h1[e] - 1 \in Nat
        BY <3>2, <1>6
      <4> QED
        BY <4>1, <3>2, <1>6
    <3>4. Sound(left, h2, o1) /\ SameArchives(m2, left)
      BY <3>1, <3>2, <1>5, <1>8, FreeKeeps
    <3>5. SameArchives(m, left)
      BY <2>1, <3>4 DEF SameArchives
    <3> HIDE DEF h2
    <3> QED
      BY <3>3, <3>4, <3>5
  <2> QED
    BY <2>2, <2>3
<1>10. PICK h2 \in [Ids -> Nat] :
          Sound(left, h2, o1) /\ \A i \in Ids : h2[i] = h1[i] - (IF i = e THEN 1 ELSE 0)
  BY <1>9
<1>11. left \in MemoryTyped /\ WindowsKnow(left)
  BY <1>10 DEF Sound
<1>12. /\ n \in MemoryTyped /\ n.source = left.source /\ n.callback = left.callback
       /\ LiveIn(n) = LiveIn(left)
       /\ n.archive[a] = NULL /\ \A c \in Archives : c # a => n.archive[c] = left.archive[c]
  BY <1>11, PutArchiveEffect
<1> HIDE DEF n
<1>13. WindowsKnow(n)
  BY <1>11, <1>12 DEF WindowsKnow
<1>14. Sound(n, h2, o1)
  BY <1>10, <1>12, <1>13, SoundWithArchive
<1>15. left.archive[a] # NULL /\ left.archive[a].src = s /\ left.archive[a].entry = e
  BY <1>9 DEF SameArchives, s, e
<1>16. \A i \in Ids : OwnersIn(left, f)[i] = h[i] /\ OpenersIn(left, g)[i] = o[i]
  BY <1>9, ArchivesOwnSame DEF h, o
<1>17. ASSUME NEW i \in Ids
       PROVE  /\ OwnersIn(n, f)[i] = h[i] - (IF i = s THEN 1 ELSE 0) - (IF i = e THEN 1 ELSE 0)
              /\ OpenersIn(n, g)[i] = o[i] - (IF i = s THEN 1 ELSE 0)
  <2> DEFINE A == ArchivesFrom(left, i)
             B == ArchivesFrom(n, i)
             C == EntriesFrom(left, i)
             D == EntriesFrom(n, i)
  <2>1. /\ A \in SUBSET Archives /\ B \in SUBSET Archives /\ C \in SUBSET Archives
        /\ D \in SUBSET Archives /\ A \ {a} = B \ {a} /\ C \ {a} = D \ {a}
        /\ a \in A <=> i = s
        /\ a \in C <=> i = e
        /\ a \notin B /\ a \notin D
    <3>1. /\ A \in SUBSET Archives /\ B \in SUBSET Archives /\ C \in SUBSET Archives
          /\ D \in SUBSET Archives /\ A \ {a} = B \ {a} /\ C \ {a} = D \ {a}
          /\ a \in A <=> left.archive[a] # NULL /\ left.archive[a].src = i
          /\ a \in C <=> left.archive[a] # NULL /\ left.archive[a].entry = i
          /\ a \in B <=> n.archive[a] # NULL /\ n.archive[a].src = i
          /\ a \in D <=> n.archive[a] # NULL /\ n.archive[a].entry = i
      <4>1. \A c \in Archives : c # a => n.archive[c] = left.archive[c]
        BY <1>12
      <4>2. A \in SUBSET Archives /\ B \in SUBSET Archives /\ C \in SUBSET Archives
            /\ D \in SUBSET Archives
        BY <4>1, ArchivesOwnOther
      <4>3. A \ {a} = B \ {a} /\ C \ {a} = D \ {a}
        BY <4>1 DEF ArchivesFrom, EntriesFrom
      <4>4. /\ a \in A <=> left.archive[a] # NULL /\ left.archive[a].src = i
            /\ a \in C <=> left.archive[a] # NULL /\ left.archive[a].entry = i
        BY <4>1, ArchivesOwnOther
      <4>5. /\ a \in B <=> n.archive[a] # NULL /\ n.archive[a].src = i
            /\ a \in D <=> n.archive[a] # NULL /\ n.archive[a].entry = i
        BY <4>1, ArchivesOwnOther
      <4> QED
        BY <4>2, <4>3, <4>4, <4>5
    <3> HIDE DEF A, B, C, D
    <3> QED
      BY <3>1, <1>12, <1>15
  <2>2. /\ OwnersIn(left, f)[i] = f[i] + Cardinality(A) + Cardinality(C)
        /\ OpenersIn(left, g)[i] = g[i] + Cardinality(A)
        /\ OwnersIn(n, f)[i] = f[i] + Cardinality(B) + Cardinality(D)
        /\ OpenersIn(n, g)[i] = g[i] + Cardinality(B)
        /\ f[i] \in Nat /\ g[i] \in Nat
        /\ Cardinality(A) \in Nat /\ Cardinality(B) \in Nat
        /\ Cardinality(C) \in Nat /\ Cardinality(D) \in Nat
    BY OwnersTyped
  <2> HIDE DEF A, B, C, D
  <2>3. Cardinality(B) = Cardinality(A) - (IF i = s THEN 1 ELSE 0)
    BY <2>1, <2>2, DifferInOne
  <2>4. Cardinality(D) = Cardinality(C) - (IF i = e THEN 1 ELSE 0)
    BY <2>1, <2>2, DifferInOne
  <2> QED
    BY <2>2, <2>3, <2>4, <1>16
<1>18. OwnersIn(n, f) = h2 /\ OpenersIn(n, g) = o1
  <2>1. OwnersIn(n, f) \in [Ids -> Int] /\ OpenersIn(n, g) \in [Ids -> Int]
    BY OwnersTyped
  <2>2. \A i \in Ids : OwnersIn(n, f)[i] = h2[i]
    BY <1>2, <1>6, <1>10, <1>17
  <2>3. \A i \in Ids : OpenersIn(n, g)[i] = o1[i]
    BY <1>1, <1>2, <1>5, <1>17
  <2>4. h2 \in [Ids -> Int]
    OBVIOUS
  <2>5. OwnersIn(n, f) = h2
    BY <2>1, <2>2, <2>4, SameOwners
  <2>6. OpenersIn(n, g) = o1
    BY <2>1, <2>3, <1>5, SameOwners
  <2> QED
    BY <2>5, <2>6
<1>19. ASSUME NEW w \in left.archive[a].open_source
       PROVE  /\ w \in LiveIn(n)
              /\ \A c \in Archives : n.archive[c] # NULL => w \notin n.archive[c].open_source
  <2>1. w \in LiveIn(left) /\ left.source[w].source_archive = a
    BY <1>11, <1>15 DEF WindowsKnow
  <2>2. ASSUME NEW c \in Archives, n.archive[c] # NULL, w \in n.archive[c].open_source
        PROVE  FALSE
    <3>1. c # a /\ n.archive[c] = left.archive[c]
      BY <2>2, <1>12
    <3>2. left.source[w].source_archive = c
      BY <2>2, <3>1, <1>11 DEF WindowsKnow
    <3> QED
      BY <3>1, <3>2, <2>1
  <2> QED
    BY <2>1, <2>2, <1>12
<1> QED
  BY <1>11, <1>14, <1>18, <1>19 DEF left, n

(***************************************************************************)
(* The steps of the program.                                               *)
(***************************************************************************)

\* Who owns the sources, and who has opened them.
Owners == OwnersIn(Memory, held)
Openers == OpenersIn(Memory, opened)

\* What a step has to establish of the memory n that it leaves behind.
LEMMA InvFollows ==
    ASSUME NEW n \in MemoryTyped, Stores(n), ProgramOK',
           Sound(n, OwnersIn(n, held'), OpenersIn(n, opened')),
           \A w \in windows' :
              /\ w \in LiveIn(n)
              /\ \A a \in Archives : n.archive[a] # NULL => w \notin n.archive[a].open_source
    PROVE  SourceInv'
<1>1. Memory' = n
  BY DEF Stores, Memory, MemoryTyped
<1>2. archive' = n.archive
  BY DEF Stores
<1> QED
  BY <1>1, <1>2 DEF SourceInv

\* The same, of a step that leaves no windows to invalidate.
LEMMA InvFollowsBecomes ==
    ASSUME windows = {}, NEW n \in MemoryTyped, Becomes(n), ProgramOK',
           Sound(n, OwnersIn(n, held'), OpenersIn(n, opened'))
    PROVE  SourceInv'
<1>1. windows' = {} /\ Stores(n)
  BY DEF Becomes
<1> QED
  BY <1>1, InvFollows

\* What the invariant says of memory.
LEMMA InvFacts ==
    ASSUME SourceInv
    PROVE  /\ Sound(Memory, Owners, Openers)
           /\ Memory \in MemoryTyped /\ LiveIn(Memory) \in SUBSET Ids
           /\ Memory.source = source /\ Memory.callback = callback /\ Memory.archive = archive
           /\ held \in [Ids -> Nat] /\ opened \in [Ids -> Nat]
           /\ \A s \in Ids : opened[s] > 0 => held[s] > 0
           /\ Owners \in [Ids -> Nat]
           /\ Openers \in [Ids -> Nat]
           /\ Openers \in [Ids -> Int]
           /\ \A i \in Ids : 0 <= Openers[i]
           /\ \A i \in Ids : held[i] > 0 => Owners[i] >= 1 /\ i \in LiveIn(Memory)
           /\ \A i \in Ids \ LiveIn(Memory) :
                 Owners[i] = 0 /\ held[i] = 0 /\ opened[i] = 0
<1>1. Sound(Memory, Owners, Openers) /\ ProgramOK
  BY DEF SourceInv, Owners, Openers
<1>2. held \in [Ids -> Nat] /\ opened \in [Ids -> Nat]
      /\ \A s \in Ids : opened[s] > 0 => held[s] > 0
  BY <1>1 DEF ProgramOK
<1>3. /\ Owners \in [Ids -> Nat] /\ Openers \in [Ids -> Nat]
      /\ Openers \in [Ids -> Int]
      /\ \A i \in Ids : 0 <= Openers[i]
  BY <1>2, OwnersTyped DEF Owners, Openers
<1>4. /\ \A i \in Ids : held[i] > 0 => Owners[i] >= 1 /\ i \in LiveIn(Memory)
      /\ \A i \in Ids \ LiveIn(Memory) : Owners[i] = 0 /\ held[i] = 0
  BY <1>1, <1>2, OwnedIsLive DEF Owners, Openers
<1>5. \A i \in Ids \ LiveIn(Memory) : opened[i] = 0
  BY <1>2, <1>4
<1>6. Memory \in MemoryTyped
  BY <1>1 DEF Sound
<1>7. LiveIn(Memory) \in SUBSET Ids
  BY DEF LiveIn
<1>8. Memory.source = source /\ Memory.callback = callback /\ Memory.archive = archive
  BY DEF Memory
<1> QED
  BY <1>1, <1>2, <1>3, <1>4, <1>5, <1>6, <1>7, <1>8

\* A step that changes what archives own by nothing but what the program holds
\* and has opened.
LEMMA ProgramStep ==
    ASSUME SourceInv, windows = {}, NEW n, Becomes(n), ProgramOK', SameArchives(Memory, n),
           NEW h, NEW o, Sound(n, h, o),
           \A i \in Ids : h[i] = Owners[i] + (held'[i] - held[i]),
           \A i \in LiveIn(n) : o[i] <= Openers[i] + (opened'[i] - opened[i])
    PROVE  SourceInv'
<1>1. held \in [Ids -> Nat] /\ opened \in [Ids -> Nat]
  BY InvFacts
<1>2. held' \in [Ids -> Nat] /\ opened' \in [Ids -> Nat]
  BY DEF ProgramOK
<1>3. /\ \A i \in Ids :
            /\ Owners[i] = held[i] + Cardinality(ArchivesFrom(Memory, i))
                                   + Cardinality(EntriesFrom(Memory, i))
            /\ Openers[i] = opened[i] + Cardinality(ArchivesFrom(Memory, i))
            /\ Cardinality(ArchivesFrom(Memory, i)) \in Nat
            /\ Cardinality(EntriesFrom(Memory, i)) \in Nat
  BY <1>1, OwnersTyped DEF Owners, Openers
<1> DEFINE h2 == OwnersIn(Memory, held')
           o2 == OpenersIn(Memory, opened')
<1>4. /\ h2 \in [Ids -> Nat] /\ o2 \in [Ids -> Nat]
      /\ \A i \in Ids :
            /\ h2[i] = held'[i] + Cardinality(ArchivesFrom(Memory, i))
                                + Cardinality(EntriesFrom(Memory, i))
            /\ o2[i] = opened'[i] + Cardinality(ArchivesFrom(Memory, i))
  BY <1>2, OwnersTyped
<1>5. OwnersIn(n, held') = h2 /\ OpenersIn(n, opened') = o2
  BY ArchivesOwnSame
<1> HIDE DEF h2, o2
<1>6. h \in [Ids -> Nat] /\ o \in [Ids -> Int] /\ n \in MemoryTyped
  BY DEF Sound
<1>7. h2 = h
  <2>1. \A i \in Ids : h2[i] = h[i]
    BY <1>1, <1>2, <1>3, <1>4, <1>6
  <2>2. h2 \in [Ids -> Int] /\ h \in [Ids -> Int]
    BY <1>4, <1>6
  <2> QED
    BY <2>1, <2>2, SameOwners
<1>8. Sound(n, h, o2)
  <2>1. \A i \in LiveIn(n) : o[i] <= o2[i]
    <3>1. LiveIn(n) \in SUBSET Ids
      BY DEF LiveIn
    <3>2. \A i \in Ids : Openers[i] + (opened'[i] - opened[i]) = o2[i]
      BY <1>1, <1>2, <1>3, <1>4
    <3> QED
      BY <3>1, <3>2
  <2>2. o2 \in [Ids -> Int]
    BY <1>4
  <2> QED
    BY <2>1, <2>2, MoreOpeners
<1> QED
  BY <1>5, <1>6, <1>7, <1>8, InvFollowsBecomes

\* A call that keeps memory sound, with the program's references as they are.
LEMMA KeptStep ==
    ASSUME SourceInv, windows = {}, NEW n, Becomes(n), UNCHANGED <<held, opened>>,
           Kept(Memory, n, Owners, Openers)
    PROVE  SourceInv'
<1>1. n.archive = Memory.archive /\ Sound(n, Owners, Openers)
  BY DEF Kept
<1>2. SameArchives(Memory, n)
  BY <1>1, KeptOwnsSame
<1>3. ProgramOK'
  BY InvFacts DEF ProgramOK
<1>4. \A i \in Ids : Owners[i] \in Int /\ Openers[i] \in Int /\ held[i] \in Int /\ opened[i] \in Int
  BY InvFacts
<1>5. /\ \A i \in Ids : Owners[i] = Owners[i] + (held'[i] - held[i])
      /\ \A i \in LiveIn(n) : Openers[i] <= Openers[i] + (opened'[i] - opened[i])
  BY <1>4 DEF LiveIn
<1> QED
  BY <1>1, <1>2, <1>3, <1>5, ProgramStep

\* Counts of owners with one more, or one less, for s.
LEMMA Counts ==
    ASSUME NEW f \in [Ids -> Nat], NEW s \in Ids
    PROVE  /\ [f EXCEPT ![s] = @ + 1] \in [Ids -> Nat]
           /\ \A i \in Ids : [f EXCEPT ![s] = @ + 1][i] = f[i] + (IF i = s THEN 1 ELSE 0)
           /\ f[s] >= 1 => [f EXCEPT ![s] = @ - 1] \in [Ids -> Nat]
           /\ \A i \in Ids : [f EXCEPT ![s] = @ - 1][i] = f[i] - (IF i = s THEN 1 ELSE 0)
<1>1. f[s] + 1 \in Nat /\ \A i \in Ids : f[i] + 0 = f[i] /\ f[i] - 0 = f[i]
  OBVIOUS
<1>2. f[s] >= 1 => f[s] - 1 \in Nat
  OBVIOUS
<1>3. f[s] >= 1 => [f EXCEPT ![s] = @ - 1] \in [Ids -> Nat]
  BY <1>2
<1> QED
  BY <1>1, <1>3

LEMMA KeepStep ==
    ASSUME SourceInv, windows = {}, NEW s \in Ids, Keep(s)
    PROVE  SourceInv'
<1> DEFINE n == [Memory EXCEPT !.source[s].refcount = @ + 1]
           h == [Owners EXCEPT ![s] = @ + 1]
<1>1. held[s] > 0 /\ held' = [held EXCEPT ![s] = @ + 1] /\ Becomes(n) /\ opened' = opened
  BY DEF Keep
<1>2. /\ s \in LiveIn(Memory) /\ Sound(Memory, Owners, Openers)
      /\ held \in [Ids -> Nat] /\ opened \in [Ids -> Nat]
      /\ Owners \in [Ids -> Nat] /\ Openers \in [Ids -> Nat]
  BY <1>1, InvFacts
<1>3. n = WithOwner(Memory, s)
  BY DEF WithOwner, Put
<1>4. \A i \in Ids : h[i] = Owners[i] + (held'[i] - held[i])
  BY <1>1, <1>2
<1> HIDE DEF n
<1>5. Sound(n, h, Openers) /\ n.archive = Memory.archive
  BY <1>2, <1>3, KeepKeeps
<1> HIDE DEF h
<1>6. SameArchives(Memory, n)
  BY <1>5, KeptOwnsSame
<1>7. ProgramOK'
  <2>1. held' \in [Ids -> Nat] /\ \A i \in Ids : held'[i] >= held[i]
    BY <1>1, <1>2, Counts
  <2> QED
    BY <2>1, <1>1, InvFacts DEF ProgramOK
<1>8. \A i \in LiveIn(n) : Openers[i] <= Openers[i] + (opened'[i] - opened[i])
  BY <1>1, <1>2 DEF LiveIn
<1> QED
  BY <1>1, <1>4, <1>5, <1>6, <1>7, <1>8, ProgramStep

\* The program gives up a reference, to s or to what is freed with it.
LEMMA FreeSourceStep ==
    ASSUME SourceInv, windows = {}, NEW s \in Ids, FreeSource(s)
    PROVE  SourceInv'
<1> DEFINE n == Free(Memory, s)
           h == [Owners EXCEPT ![s] = @ - 1]
<1>1. /\ held[s] > 0 /\ held' = [held EXCEPT ![s] = @ - 1] /\ Becomes(n)
      /\ opened' = [opened EXCEPT ![s] = IF held[s] = 1 THEN 0 ELSE @]
      /\ (held[s] = 1 => opened[s] = 0) \/ (held[s] = 1 /\ source[s].refcount = 1)
  BY InvFacts DEF FreeSource, CanGiveAway, GivesAway
<1>2. /\ s \in LiveIn(Memory) /\ Sound(Memory, Owners, Openers)
      /\ held \in [Ids -> Nat] /\ opened \in [Ids -> Nat]
      /\ Owners \in [Ids -> Nat] /\ Openers \in [Ids -> Nat] /\ \A i \in Ids : 0 <= Openers[i]
      /\ Owners[s] >= 1 /\ Memory.source = source
      /\ \A i \in Ids : opened[i] > 0 => held[i] > 0
  BY <1>1, InvFacts
<1>3. \A i \in Ids : h[i] = Owners[i] + (held'[i] - held[i])
  BY <1>1, <1>2
<1>4. /\ Sound(n, h, Openers) /\ SameArchives(Memory, n)
      /\ Memory.source[s].refcount = 1 => s \notin LiveIn(n)
  BY <1>2, FreeKeeps
<1> HIDE DEF n, h
<1>5. ASSUME NEW i \in LiveIn(n) PROVE Openers[i] <= Openers[i] + (opened'[i] - opened[i])
  <2>1. i \in Ids
    BY DEF LiveIn
  <2>2. i = s => (held[s] = 1 => opened[s] = 0)
    BY <1>1, <1>2, <1>4
  <2>3. opened'[i] = opened[i]
    BY <2>1, <2>2, <1>1, <1>2
  <2> QED
    BY <2>1, <2>3, <1>2
<1>6. ProgramOK'
  <2>1. /\ held' \in [Ids -> Nat]
        /\ \A i \in Ids : held'[i] = held[i] - (IF i = s THEN 1 ELSE 0)
    BY <1>1, <1>2, Counts
  <2>2. /\ opened' \in [Ids -> Nat]
        /\ \A i \in Ids : opened'[i] = IF i = s /\ held[s] = 1 THEN 0 ELSE opened[i]
    BY <1>1, <1>2
  <2>3. \A i \in Ids : opened'[i] > 0 => held'[i] > 0
    BY <2>1, <2>2, <1>1, <1>2
  <2> QED
    BY <2>1, <2>2, <2>3 DEF ProgramOK
<1> QED
  BY <1>1, <1>3, <1>4, <1>5, <1>6, ProgramStep

\* The program opens a source, and with it those below.
LEMMA OpenSourceStep ==
    ASSUME SourceInv, windows = {}, NEW s \in Ids, OpenSource(s)
    PROVE  SourceInv'
<1> DEFINE n == Open(Memory, s)
           o == [Openers EXCEPT ![s] = @ + 1]
<1>1. held[s] > 0 /\ Becomes(n) /\ opened' = [opened EXCEPT ![s] = @ + 1] /\ held' = held
  BY DEF OpenSource
<1>2. /\ s \in LiveIn(Memory) /\ Sound(Memory, Owners, Openers)
      /\ held \in [Ids -> Nat] /\ opened \in [Ids -> Nat]
      /\ Owners \in [Ids -> Nat] /\ Openers \in [Ids -> Nat]
      /\ \A i \in Ids : opened[i] > 0 => held[i] > 0
  BY <1>1, InvFacts
<1>3. \A i \in Ids : o[i] <= Openers[i] + (opened'[i] - opened[i])
  BY <1>1, <1>2
<1>4. Sound(n, Owners, o) /\ SameLayers(Memory, n)
  BY <1>2, OpenKeeps
<1> HIDE DEF n, o
<1>5. SameArchives(Memory, n)
  BY <1>4, KeptOwnsSame DEF SameLayers
<1>6. ProgramOK'
  <2>1. /\ opened' \in [Ids -> Nat]
        /\ \A i \in Ids : opened'[i] = opened[i] + (IF i = s THEN 1 ELSE 0)
    BY <1>1, <1>2, Counts
  <2>2. \A i \in Ids : opened'[i] > 0 => held'[i] > 0
    BY <2>1, <1>1, <1>2
  <2> QED
    BY <2>1, <2>2, <1>1, <1>2 DEF ProgramOK
<1>7. \A i \in Ids : Owners[i] = Owners[i] + (held'[i] - held[i])
  BY <1>1, <1>2
<1>8. \A i \in LiveIn(n) : o[i] <= Openers[i] + (opened'[i] - opened[i])
  BY <1>3 DEF LiveIn
<1> QED
  BY <1>1, <1>4, <1>5, <1>6, <1>7, <1>8, ProgramStep

\* Who has opened a source is one less of those that have it open.
LEMMA ClosedOnce ==
    ASSUME NEW m, NEW h, NEW o \in [Ids -> Nat], Sound(m, h, o), NEW s \in LiveIn(m), o[s] >= 1
    PROVE  Sound(Close(m, s), h, [o EXCEPT ![s] = @ - 1]) /\ SameLayers(m, Close(m, s))
<1> DEFINE o2 == [o EXCEPT ![s] = @ - 1]
<1>1. s \in Ids /\ OpenAbove(m, s) \in SUBSET Ids
  BY LiveTyped DEF Sound
<1>2. o2 \in [Ids -> Nat] /\ \A i \in Ids : o2[i] = o[i] - (IF i = s THEN 1 ELSE 0)
  BY <1>1, Counts
<1>3. Cardinality(OpenAbove(m, s)) \in Nat
  BY <1>1, Counted
<1> HIDE DEF o2
<1>4. o2 \in [Ids -> Int] /\ \A i \in Ids : i # s => o2[i] = o[i] /\ 0 <= o[i]
  BY <1>2
<1>5. o2[s] \in {o[s], o[s] - 1} /\ 0 <= o2[s] + Cardinality(OpenAbove(m, s))
  BY <1>1, <1>2, <1>3
<1>6. Sound(Close(m, s), h, o2) /\ SameLayers(m, Close(m, s))
  BY <1>4, <1>5, CloseKeeps
<1> QED
  BY <1>6 DEF o2

LEMMA CloseSourceStep ==
    ASSUME SourceInv, windows = {}, NEW s \in Ids, CloseSource(s)
    PROVE  SourceInv'
<1> DEFINE n == Close(Memory, s)
           o == [Openers EXCEPT ![s] = @ - 1]
<1>1. opened[s] > 0 /\ Becomes(n) /\ opened' = [opened EXCEPT ![s] = @ - 1] /\ held' = held
  BY DEF CloseSource
<1>2. /\ s \in LiveIn(Memory) /\ Sound(Memory, Owners, Openers)
      /\ held \in [Ids -> Nat] /\ opened \in [Ids -> Nat]
      /\ Owners \in [Ids -> Nat] /\ Openers \in [Ids -> Nat]
      /\ \A i \in Ids : opened[i] > 0 => held[i] > 0
  BY <1>1, InvFacts
<1>3. Openers[s] >= 1
  BY <1>1, <1>2, OwnersTyped DEF Openers
<1>4. \A i \in Ids : o[i] <= Openers[i] + (opened'[i] - opened[i])
  BY <1>1, <1>2
<1>5. Sound(n, Owners, o) /\ SameLayers(Memory, n)
  BY <1>2, <1>3, ClosedOnce
<1> HIDE DEF n, o
<1>6. SameArchives(Memory, n)
  BY <1>5, KeptOwnsSame DEF SameLayers
<1>7. ProgramOK'
  <2>1. /\ opened' \in [Ids -> Nat]
        /\ \A i \in Ids : opened'[i] = opened[i] - (IF i = s THEN 1 ELSE 0)
    BY <1>1, <1>2, Counts
  <2>2. \A i \in Ids : opened'[i] > 0 => held'[i] > 0
    BY <2>1, <1>1, <1>2
  <2> QED
    BY <2>1, <2>2, <1>1, <1>2 DEF ProgramOK
<1>8. \A i \in Ids : Owners[i] = Owners[i] + (held'[i] - held[i])
  BY <1>1, <1>2
<1>9. \A i \in LiveIn(n) : o[i] <= Openers[i] + (opened'[i] - opened[i])
  BY <1>4 DEF LiveIn
<1> QED
  BY <1>1, <1>5, <1>6, <1>7, <1>8, <1>9, ProgramStep

LEMMA WriteStep ==
    ASSUME SourceInv, windows = {}, NEW s \in Ids,
           BeginWrite(s) \/ CommitWrite(s) \/ RollbackWrite(s)
    PROVE  SourceInv'
<1>1. held[s] > 0 /\ UNCHANGED <<held, opened>>
  BY DEF BeginWrite, CommitWrite, RollbackWrite
<1>2. /\ s \in LiveIn(Memory) /\ Sound(Memory, Owners, Openers)
      /\ \A i \in Ids : 0 <= Openers[i]
  BY <1>1, InvFacts
<1>3. CASE BeginWrite(s)
  <2>1. Becomes(Begin(Memory, s)) /\ CanBeginWrite(Memory, s)
    BY <1>3 DEF BeginWrite
  <2>2. Kept(Memory, Begin(Memory, s), Owners, Openers)
    BY <2>1, <1>2, BeginKeeps
  <2> QED
    BY <2>1, <2>2, <1>1, KeptStep
<1>4. CASE CommitWrite(s)
  <2>1. CanCommit(Memory, s) /\ (Becomes(Commit(Memory, s)) \/ Becomes(CommitFails(Memory, s)))
    BY <1>4 DEF CommitWrite
  <2>2. /\ Kept(Memory, Commit(Memory, s), Owners, Openers)
        /\ Kept(Memory, CommitFails(Memory, s), Owners, Openers)
    BY <2>1, <1>2, CommitKeeps
  <2> QED
    BY <2>1, <2>2, <1>1, KeptStep
<1>5. CASE RollbackWrite(s)
  <2>1. Becomes(Rollback(Memory, s))
    BY <1>5 DEF RollbackWrite
  <2>2. Kept(Memory, Rollback(Memory, s), Owners, Openers)
    BY <1>2, RollbackKeeps
  <2> QED
    BY <2>1, <2>2, <1>1, KeptStep
<1> QED
  BY <1>3, <1>4, <1>5

\* What was sound after two calls.
LEMMA KeptTwice ==
    ASSUME NEW m, NEW n, NEW p, NEW h, NEW o, Kept(m, n, h, o), Kept(n, p, h, o)
    PROVE  Kept(m, p, h, o)
BY DEF Kept

\* A source that is opened and closed again is open as often as before.
LEMMA OpenCloseKeeps ==
    ASSUME NEW m, NEW h, NEW o \in [Ids -> Nat], Sound(m, h, o), NEW s \in LiveIn(m)
    PROVE  Kept(m, Close(Open(m, s), s), h, o)
<1> DEFINE o1 == [o EXCEPT ![s] = @ + 1]
           o2 == [o1 EXCEPT ![s] = @ - 1]
           n == Open(m, s)
<1>1. s \in Ids
  BY DEF LiveIn
<1>2. o1 \in [Ids -> Nat] /\ \A i \in Ids : o1[i] = o[i] + (IF i = s THEN 1 ELSE 0)
  BY <1>1, Counts
<1>3. Sound(n, h, o1) /\ SameLayers(m, n)
  BY OpenKeeps
<1> HIDE DEF o1, n
<1>4. o1[s] >= 1 /\ s \in LiveIn(n)
  BY <1>1, <1>2, <1>3 DEF SameLayers, SameStack
<1>5. o2 \in [Ids -> Nat] /\ \A i \in Ids : o2[i] = o1[i] - (IF i = s THEN 1 ELSE 0)
  BY <1>1, <1>2, <1>4, Counts
<1>6. Sound(Close(n, s), h, o2) /\ SameLayers(n, Close(n, s))
  BY <1>2, <1>3, <1>4, ClosedOnce
<1> HIDE DEF o2
<1>7. o2 = o
  <2>1. \A i \in Ids : o2[i] = o[i]
    BY <1>2, <1>5
  <2>2. o2 \in [Ids -> Int] /\ o \in [Ids -> Int]
    BY <1>5
  <2> QED
    BY <2>1, <2>2, SameOwners
<1> QED
  BY <1>3, <1>6, <1>7 DEF Kept, SameLayers, SameStack, n

LEMMA OpenArchiveFailsStep ==
    ASSUME SourceInv, windows = {}, NEW s \in Ids, OpenArchiveFails(s)
    PROVE  SourceInv'
<1> DEFINE m == Close(Open(Memory, s), s)
<1>1. held[s] > 0 /\ UNCHANGED <<held, opened>> /\ Becomes(Close(m, s))
  BY DEF OpenArchiveFails
<1>2. /\ s \in LiveIn(Memory) /\ Sound(Memory, Owners, Openers)
      /\ Openers \in [Ids -> Nat] /\ \A i \in Ids : 0 <= Openers[i]
  BY <1>1, InvFacts
<1>3. Kept(Memory, m, Owners, Openers)
  BY <1>2, OpenCloseKeeps
<1> HIDE DEF m
<1>4. Sound(m, Owners, Openers) /\ s \in LiveIn(m)
  BY <1>2, <1>3 DEF Kept
<1>5. Kept(m, Close(m, s), Owners, Openers)
  BY <1>2, <1>4, CloseOnlyKeeps
<1>6. Kept(Memory, Close(m, s), Owners, Openers)
  BY <1>3, <1>5, KeptTwice
<1> QED
  BY <1>1, <1>6, KeptStep

(***************************************************************************)
(* New sources, layers and windows.                                        *)
(***************************************************************************)

LEMMA AllocatedEffect ==
    ASSUME NEW m \in MemoryTyped, NEW w \in Ids, NEW r \in Source, NEW n, n = Allocated(m, w, r)
    PROVE  /\ n \in MemoryTyped /\ n.archive = m.archive /\ LiveIn(n) = LiveIn(m) \cup {w}
           /\ n.source[w] = r /\ \A i \in Ids : i # w => n.source[i] = m.source[i]
           /\ n.callback[w] = NewCallback
           /\ \A i \in Ids : i # w => n.callback[i] = m.callback[i]
<1>1. [m.source EXCEPT ![w] = r] \in [Ids -> Source \cup {NULL}]
  BY DEF MemoryTyped
<1>2. NewCallback \in Callback
  BY DEF NewCallback, Callback
<1>3. [m.callback EXCEPT ![w] = NewCallback] \in [Ids -> Callback]
  BY <1>2 DEF MemoryTyped
<1>4. /\ n \in MemoryTyped /\ n.archive = m.archive
      /\ n.source = [m.source EXCEPT ![w] = r]
      /\ n.callback = [m.callback EXCEPT ![w] = NewCallback]
  BY <1>1, <1>3 DEF MemoryTyped, Allocated
<1>5. n.source[w] = r /\ \A i \in Ids : i # w => n.source[i] = m.source[i]
  BY <1>4 DEF MemoryTyped
<1>6. n.callback[w] = NewCallback /\ \A i \in Ids : i # w => n.callback[i] = m.callback[i]
  BY <1>4 DEF MemoryTyped
<1>7. LiveIn(n) = LiveIn(m) \cup {w}
  BY <1>5 DEF LiveIn
<1> QED
  BY <1>4, <1>5, <1>6, <1>7

\* A new source that takes a reference to the one below, if there is one, and
\* has one owner itself.
LEMMA AllocatedKeeps ==
    ASSUME NEW m, NEW h, NEW o, Sound(m, h, o), \A i \in Ids : 0 <= o[i],
           NEW w \in Ids \ LiveIn(m), NEW l \in LiveIn(m) \cup {NULL},
           NEW supports \in SUBSET {"SEEK", "WRITE"},
           NEW n, n = Allocated(m, w, NewSource(l, supports)),
           NEW h2 \in [Ids -> Nat], h2[w] = 1,
           \A i \in Ids : i # w => h2[i] = h[i] - (IF i = l THEN 1 ELSE 0)
    PROVE  /\ Sound(n, h2, o) /\ n.archive = m.archive /\ LiveIn(n) = LiveIn(m) \cup {w}
           /\ ~n.source[w].source_closed
<1> DEFINE r == NewSource(l, supports)
<1>1. /\ m \in MemoryTyped /\ h \in [Ids -> Nat] /\ o \in [Ids -> Int] /\ WindowsKnow(m)
      /\ LiveIn(m) \in SUBSET Ids
  BY LiveTyped DEF Sound
<1>2. /\ r \in Source /\ r.lower = l /\ r.open_count = 0 /\ r.refcount = 1
      /\ r.write_state = "CLOSED" /\ ~r.source_closed
  BY <1>1 DEF NewSource, Source
<1>3. /\ n \in MemoryTyped /\ n.archive = m.archive /\ LiveIn(n) = LiveIn(m) \cup {w}
      /\ n.source[w] = r /\ \A i \in Ids : i # w => n.source[i] = m.source[i]
      /\ n.callback[w] = NewCallback
      /\ \A i \in Ids : i # w => n.callback[i] = m.callback[i]
  BY <1>1, <1>2, AllocatedEffect
<1> HIDE DEF r
<1>4. WindowsKnow(n)
  BY <1>1, <1>3 DEF WindowsKnow
<1>5. \A i \in LiveIn(m) : i # w /\ i \in Ids /\ n.source[i] = m.source[i]
  BY <1>1, <1>3
<1>6. \A i \in LiveIn(m) : m.source[i].refcount \in Int
  BY <1>1, LiveTyped DEF Source
<1>7. \A i \in LiveIn(m) : i # l => n.source[i].refcount = m.source[i].refcount /\ h2[i] = h[i]
  BY <1>1, <1>5
<1>8. l # NULL => n.source[l].refcount - m.source[l].refcount = h2[l] - h[l] + 1
  <2>1. SUFFICES ASSUME l # NULL PROVE n.source[l].refcount - m.source[l].refcount = h2[l] - h[l] + 1
    OBVIOUS
  <2>2. l \in LiveIn(m)
    BY <2>1
  <2>3. h2[l] = h[l] - 1 /\ n.source[l].refcount = m.source[l].refcount /\ h[l] \in Nat
    BY <2>2, <1>1, <1>5
  <2>4. m.source[l].refcount \in Int
    BY <2>2, <1>6
  <2> QED
    BY <2>3, <2>4
<1>9. \A i \in Ids \ LiveIn(m) : i # w => h2[i] = h[i]
  BY <1>1
<1>10. /\ n.source[w].lower = l /\ n.source[w].open_count = 0 /\ n.source[w].refcount = 1
       /\ n.source[w].write_state = "CLOSED"
  BY <1>2, <1>3
<1>11. \A i \in LiveIn(m) :
              /\ n.source[i].lower = m.source[i].lower
              /\ n.source[i].open_count = m.source[i].open_count
              /\ n.source[i].write_state = m.source[i].write_state
  BY <1>5
<1>12. Sound(n, h2, o)
  BY <1>3, <1>4, <1>7, <1>8, <1>9, <1>10, <1>11, AddedKeeps
<1> QED
  BY <1>2, <1>3, <1>12

\* A window is put over a source that keeps the owners it has.
LEMMA WindowKeeps ==
    ASSUME NEW m, NEW h, NEW o, Sound(m, h, o), \A i \in Ids : 0 <= o[i],
           NEW w \in Ids \ LiveIn(m), NEW s \in LiveIn(m), NEW n, n = Window(m, s, w),
           NEW h2 \in [Ids -> Nat], h2[w] = 1, \A i \in Ids : i # w => h2[i] = h[i]
    PROVE  /\ Sound(n, h2, o) /\ n.archive = m.archive /\ LiveIn(n) = LiveIn(m) \cup {w}
           /\ ~n.source[w].source_closed
<1> DEFINE p == WithOwner(m, s)
           h1 == [h EXCEPT ![s] = @ + 1]
           supports == m.source[s].supports \cap {"SEEK"}
           r == NewSource(s, supports)
<1>1. m \in MemoryTyped /\ h \in [Ids -> Nat] /\ s \in Ids /\ s # w /\ s # NULL
  BY LiveTyped DEF Sound
<1>2. h1 \in [Ids -> Nat] /\ \A i \in Ids : h1[i] = h[i] + (IF i = s THEN 1 ELSE 0)
  BY <1>1, Counts
<1>3. Sound(p, h1, o) /\ p.archive = m.archive /\ LiveIn(p) = LiveIn(m)
  BY KeepKeeps
<1>4. p = [m EXCEPT !.source = [m.source EXCEPT ![s] = [m.source[s] EXCEPT !.refcount = @ + 1]]]
  BY DEF WithOwner, Put
<1>5. n = Allocated(p, w, r)
  <2>1. n = [m EXCEPT !.source = [[m.source EXCEPT ![w] = r] EXCEPT ![s] =
                                    [[m.source EXCEPT ![w] = r][s] EXCEPT !.refcount = @ + 1]],
                      !.callback = [m.callback EXCEPT ![w] = NewCallback]]
    BY <1>1 DEF Window, Allocated, MemoryTyped
  <2>2. [[m.source EXCEPT ![w] = r] EXCEPT ![s] =
                                    [[m.source EXCEPT ![w] = r][s] EXCEPT !.refcount = @ + 1]]
        = [[m.source EXCEPT ![s] = [m.source[s] EXCEPT !.refcount = @ + 1]] EXCEPT ![w] = r]
    <3> HIDE DEF r
    <3> QED
      BY <1>1 DEF MemoryTyped
  <2>3. Allocated(p, w, r) =
          [m EXCEPT !.source = [[m.source EXCEPT ![s] = [m.source[s] EXCEPT !.refcount = @ + 1]]
                                   EXCEPT ![w] = r],
                    !.callback = [m.callback EXCEPT ![w] = NewCallback]]
    <3> HIDE DEF r, p
    <3> QED
      BY <1>1, <1>4 DEF MemoryTyped, Allocated
  <2> HIDE DEF r, p
  <2> QED
    BY <2>1, <2>2, <2>3
<1>6. supports \in SUBSET {"SEEK", "WRITE"}
  OBVIOUS
<1> HIDE DEF p, h1, supports
<1>7. \A i \in Ids : i # w => h2[i] = h1[i] - (IF i = s THEN 1 ELSE 0)
  BY <1>1, <1>2
<1>8. /\ Sound(n, h2, o) /\ n.archive = p.archive /\ LiveIn(n) = LiveIn(p) \cup {w}
      /\ ~n.source[w].source_closed
  BY <1>3, <1>5, <1>6, <1>7, AllocatedKeeps
<1> QED
  BY <1>3, <1>8

\* A source that the program has just created is its own.
LEMMA CreateStep ==
    ASSUME SourceInv, windows = {}, NEW s \in Ids, Create(s)
    PROVE  SourceInv'
<1>1. PICK supports \in Kinds : Becomes(Allocated(Memory, s, NewSource(NULL, supports)))
  BY DEF Create
<1> DEFINE n == Allocated(Memory, s, NewSource(NULL, supports))
           h2 == [Owners EXCEPT ![s] = 1]
<1>2. s \in Ids \ LiveIn(Memory) /\ held' = [held EXCEPT ![s] = 1] /\ opened' = opened
  BY DEF Create, FreeId, LiveIn, Memory
<1>3. /\ Sound(Memory, Owners, Openers) /\ Owners[s] = 0 /\ held[s] = 0 /\ opened[s] = 0
      /\ held \in [Ids -> Nat] /\ opened \in [Ids -> Nat] /\ Owners \in [Ids -> Nat]
      /\ Openers \in [Ids -> Nat] /\ \A i \in Ids : 0 <= Openers[i]
      /\ \A i \in Ids : opened[i] > 0 => held[i] > 0
  BY <1>2, InvFacts
<1>4. supports \in SUBSET {"SEEK", "WRITE"}
  BY KindsAssumption
<1>5. h2 \in [Ids -> Nat] /\ h2[s] = 1 /\ \A i \in Ids : i # s => h2[i] = Owners[i]
  BY <1>3
<1> HIDE DEF h2
<1>6. Sound(n, h2, Openers) /\ n.archive = Memory.archive
  <2>1. \A i \in Ids : i # s => h2[i] = Owners[i] - (IF i = NULL THEN 1 ELSE 0)
    BY <1>3, <1>5
  <2>2. PICK l \in LiveIn(Memory) \cup {NULL} : l = NULL
    OBVIOUS
  <2>3. n = Allocated(Memory, s, NewSource(l, supports))
    BY <2>2
  <2>4. \A i \in Ids : i # s => h2[i] = Owners[i] - (IF i = l THEN 1 ELSE 0)
    BY <2>1, <2>2
  <2> HIDE DEF n
  <2>5. Sound(n, h2, Openers) /\ n.archive = Memory.archive
    BY <2>3, <2>4, <1>2, <1>3, <1>4, <1>5, AllocatedKeeps
  <2> QED
    BY <2>5
<1> HIDE DEF n
<1>7. SameArchives(Memory, n)
  BY <1>6, KeptOwnsSame
<1>8. held' \in [Ids -> Nat] /\ held'[s] = 1 /\ \A i \in Ids : i # s => held'[i] = held[i]
  BY <1>2, <1>3
<1>9. ProgramOK'
  BY <1>2, <1>3, <1>8 DEF ProgramOK
<1>10. \A i \in Ids : h2[i] = Owners[i] + (held'[i] - held[i])
  BY <1>3, <1>5, <1>8
<1>11. \A i \in LiveIn(n) : Openers[i] <= Openers[i] + (opened'[i] - opened[i])
  BY <1>2, <1>3 DEF LiveIn
<1> QED
  BY <1>1, <1>6, <1>7, <1>9, <1>10, <1>11, ProgramStep DEF n

\* A layer takes the reference that the program had to the source below.
LEMMA LayeredStep ==
    ASSUME SourceInv, windows = {}, NEW s \in Ids, NEW l \in Ids, Layered(s, l)
    PROVE  SourceInv'
<1>1. PICK supports \in SUBSET (source[s].supports \cap {"SEEK"}) :
          Becomes(Allocated(Memory, l, NewSource(s, supports)))
  BY DEF Layered
<1> DEFINE n == Allocated(Memory, l, NewSource(s, supports))
           h2 == [[Owners EXCEPT ![s] = @ - 1] EXCEPT ![l] = 1]
<1>2. /\ l \in Ids \ LiveIn(Memory) /\ held[s] > 0 /\ (held[s] = 1 => opened[s] = 0)
      /\ held' = [held EXCEPT ![s] = @ - 1, ![l] = 1] /\ opened' = opened
  BY DEF Layered, CanGiveAway, FreeId, LiveIn, Memory
<1>3. /\ Sound(Memory, Owners, Openers) /\ Owners[l] = 0 /\ held[l] = 0 /\ opened[l] = 0
      /\ held \in [Ids -> Nat] /\ opened \in [Ids -> Nat] /\ Owners \in [Ids -> Nat]
      /\ Openers \in [Ids -> Nat] /\ \A i \in Ids : 0 <= Openers[i]
      /\ \A i \in Ids : opened[i] > 0 => held[i] > 0
      /\ s \in LiveIn(Memory) /\ Owners[s] >= 1
  BY <1>2, InvFacts
<1>4. supports \in SUBSET {"SEEK", "WRITE"}
  OBVIOUS
<1>5. s # l
  BY <1>2, <1>3
<1>6. /\ h2 \in [Ids -> Nat] /\ h2[l] = 1
      /\ \A i \in Ids : i # l => h2[i] = Owners[i] - (IF i = s THEN 1 ELSE 0)
  <2> DEFINE h1 == [Owners EXCEPT ![s] = @ - 1]
  <2>1. h1 \in [Ids -> Nat] /\ \A i \in Ids : h1[i] = Owners[i] - (IF i = s THEN 1 ELSE 0)
    BY <1>3, Counts
  <2> HIDE DEF h1
  <2>2. h2 = [h1 EXCEPT ![l] = 1]
    BY DEF h1
  <2> HIDE DEF h2
  <2> QED
    BY <2>1, <2>2
<1> HIDE DEF h2
<1>7. Sound(n, h2, Openers) /\ n.archive = Memory.archive
  <2> HIDE DEF n
  <2> QED
    BY <1>2, <1>3, <1>4, <1>6, AllocatedKeeps DEF n
<1> HIDE DEF n
<1>8. SameArchives(Memory, n)
  BY <1>7, KeptOwnsSame
<1>9. /\ held' \in [Ids -> Nat] /\ held'[l] = 1
      /\ \A i \in Ids : i # l => held'[i] = held[i] - (IF i = s THEN 1 ELSE 0)
  <2> DEFINE g == [held EXCEPT ![s] = @ - 1]
  <2>1. g \in [Ids -> Nat] /\ \A i \in Ids : g[i] = held[i] - (IF i = s THEN 1 ELSE 0)
    BY <1>2, <1>3, Counts
  <2> HIDE DEF g
  <2>2. held' = [g EXCEPT ![l] = 1]
    BY <1>2 DEF g
  <2> QED
    BY <2>1, <2>2
<1>10. ProgramOK'
  <2>1. \A i \in Ids : opened[i] > 0 => held'[i] > 0
    BY <1>2, <1>3, <1>9
  <2> QED
    BY <2>1, <1>2, <1>3, <1>9 DEF ProgramOK
<1>11. \A i \in Ids : h2[i] = Owners[i] + (held'[i] - held[i])
  BY <1>3, <1>6, <1>9
<1>12. \A i \in LiveIn(n) : Openers[i] <= Openers[i] + (opened'[i] - opened[i])
  BY <1>2, <1>3 DEF LiveIn
<1> QED
  BY <1>1, <1>7, <1>8, <1>10, <1>11, <1>12, ProgramStep DEF n

\* A window is the program's, and owns the source below besides its owners.
LEMMA WindowCreateStep ==
    ASSUME SourceInv, windows = {}, NEW s \in Ids, NEW w \in Ids, WindowCreate(s, w)
    PROVE  SourceInv'
<1> DEFINE n == Window(Memory, s, w)
           h2 == [Owners EXCEPT ![w] = 1]
<1>1. /\ w \in Ids \ LiveIn(Memory) /\ held[s] > 0 /\ Becomes(n)
      /\ held' = [held EXCEPT ![w] = 1] /\ opened' = opened
  BY DEF WindowCreate, FreeId, LiveIn, Memory
<1>2. /\ Sound(Memory, Owners, Openers) /\ Owners[w] = 0 /\ held[w] = 0 /\ opened[w] = 0
      /\ held \in [Ids -> Nat] /\ opened \in [Ids -> Nat] /\ Owners \in [Ids -> Nat]
      /\ Openers \in [Ids -> Nat] /\ \A i \in Ids : 0 <= Openers[i]
      /\ \A i \in Ids : opened[i] > 0 => held[i] > 0
      /\ s \in LiveIn(Memory)
  BY <1>1, InvFacts
<1>3. h2 \in [Ids -> Nat] /\ h2[w] = 1 /\ \A i \in Ids : i # w => h2[i] = Owners[i]
  BY <1>2
<1> HIDE DEF n, h2
<1>4. Sound(n, h2, Openers) /\ n.archive = Memory.archive
  BY <1>1, <1>2, <1>3, WindowKeeps DEF n
<1>5. SameArchives(Memory, n)
  BY <1>4, KeptOwnsSame
<1>6. held' \in [Ids -> Nat] /\ held'[w] = 1 /\ \A i \in Ids : i # w => held'[i] = held[i]
  BY <1>1, <1>2
<1>7. ProgramOK'
  BY <1>1, <1>2, <1>6 DEF ProgramOK
<1>8. \A i \in Ids : h2[i] = Owners[i] + (held'[i] - held[i])
  BY <1>2, <1>3, <1>6
<1>9. \A i \in LiveIn(n) : Openers[i] <= Openers[i] + (opened'[i] - opened[i])
  BY <1>1, <1>2 DEF LiveIn
<1> QED
  BY <1>1, <1>4, <1>5, <1>7, <1>8, <1>9, ProgramStep

(***************************************************************************)
(* Archives.                                                               *)
(***************************************************************************)

\* Whether the archive a is an owner of the source i, and its entry is.
SrcOwns(m, a, i) == IF m.archive[a] # NULL /\ m.archive[a].src = i THEN 1 ELSE 0
EntryOwns(m, a, i) == IF m.archive[a] # NULL /\ m.archive[a].entry = i THEN 1 ELSE 0

SameButFor(m, n, a) ==
    \A c \in Archives \ {a} :
        /\ n.archive[c] = NULL <=> m.archive[c] = NULL
        /\ m.archive[c] # NULL =>
              /\ n.archive[c].src = m.archive[c].src
              /\ n.archive[c].entry = m.archive[c].entry

\* What the archives own when one of them changes.
LEMMA OneArchiveChanges ==
    ASSUME NEW m, NEW n, NEW a \in Archives, SameButFor(m, n, a), NEW i
    PROVE  /\ Cardinality(ArchivesFrom(n, i)) =
                  Cardinality(ArchivesFrom(m, i)) + SrcOwns(n, a, i) - SrcOwns(m, a, i)
           /\ Cardinality(EntriesFrom(n, i)) =
                  Cardinality(EntriesFrom(m, i)) + EntryOwns(n, a, i) - EntryOwns(m, a, i)
<1> DEFINE A == ArchivesFrom(m, i)
           B == ArchivesFrom(n, i)
           C == EntriesFrom(m, i)
           D == EntriesFrom(n, i)
<1>1. /\ A \in SUBSET Archives /\ B \in SUBSET Archives
      /\ C \in SUBSET Archives /\ D \in SUBSET Archives
  BY DEF ArchivesFrom, EntriesFrom
<1>2. A \ {a} = B \ {a} /\ C \ {a} = D \ {a}
  BY DEF ArchivesFrom, EntriesFrom, SameButFor
<1>3. /\ SrcOwns(m, a, i) = IF a \in A THEN 1 ELSE 0
      /\ SrcOwns(n, a, i) = IF a \in B THEN 1 ELSE 0
      /\ EntryOwns(m, a, i) = IF a \in C THEN 1 ELSE 0
      /\ EntryOwns(n, a, i) = IF a \in D THEN 1 ELSE 0
  BY DEF ArchivesFrom, EntriesFrom, SrcOwns, EntryOwns
<1>4. /\ Cardinality(A) \in Nat /\ Cardinality(B) \in Nat
      /\ Cardinality(C) \in Nat /\ Cardinality(D) \in Nat
  BY <1>1, Counted
<1> HIDE DEF A, B, C, D
<1>5. /\ a \in A /\ a \notin B => Cardinality(B) = Cardinality(A) - 1
      /\ a \notin A /\ a \in B => Cardinality(B) = Cardinality(A) + 1
      /\ (a \in A <=> a \in B) => Cardinality(B) = Cardinality(A)
  BY <1>1, <1>2, DifferInOne
<1>6. /\ a \in C /\ a \notin D => Cardinality(D) = Cardinality(C) - 1
      /\ a \notin C /\ a \in D => Cardinality(D) = Cardinality(C) + 1
      /\ (a \in C <=> a \in D) => Cardinality(D) = Cardinality(C)
  BY <1>1, <1>2, DifferInOne
<1>7. Cardinality(B) = Cardinality(A) + SrcOwns(n, a, i) - SrcOwns(m, a, i)
  BY <1>3, <1>4, <1>5
<1>8. Cardinality(D) = Cardinality(C) + EntryOwns(n, a, i) - EntryOwns(m, a, i)
  BY <1>3, <1>4, <1>6
<1> QED
  BY <1>7, <1>8 DEF A, B, C, D

\* A step that changes what one archive owns, and what the program does.
LEMMA ArchiveStep ==
    ASSUME SourceInv, windows = {}, NEW n, Becomes(n), ProgramOK',
           NEW a \in Archives, SameButFor(Memory, n, a),
           NEW h, NEW o, Sound(n, h, o),
           \A i \in Ids : h[i] = Owners[i] + (held'[i] - held[i])
                                 + (SrcOwns(n, a, i) - SrcOwns(Memory, a, i))
                                 + (EntryOwns(n, a, i) - EntryOwns(Memory, a, i)),
           \A i \in LiveIn(n) : o[i] <= Openers[i] + (opened'[i] - opened[i])
                                        + (SrcOwns(n, a, i) - SrcOwns(Memory, a, i))
    PROVE  SourceInv'
<1>1. held \in [Ids -> Nat] /\ opened \in [Ids -> Nat]
  BY InvFacts
<1>2. held' \in [Ids -> Nat] /\ opened' \in [Ids -> Nat]
  BY DEF ProgramOK
<1>3. \A i \in Ids :
         /\ Owners[i] = held[i] + Cardinality(ArchivesFrom(Memory, i))
                                + Cardinality(EntriesFrom(Memory, i))
         /\ Openers[i] = opened[i] + Cardinality(ArchivesFrom(Memory, i))
         /\ Cardinality(ArchivesFrom(Memory, i)) \in Nat
         /\ Cardinality(EntriesFrom(Memory, i)) \in Nat
  BY <1>1, OwnersTyped DEF Owners, Openers
<1> DEFINE h2 == OwnersIn(n, held')
           o2 == OpenersIn(n, opened')
<1>4. /\ h2 \in [Ids -> Nat] /\ o2 \in [Ids -> Nat]
      /\ \A i \in Ids :
            /\ h2[i] = held'[i] + Cardinality(ArchivesFrom(n, i)) + Cardinality(EntriesFrom(n, i))
            /\ o2[i] = opened'[i] + Cardinality(ArchivesFrom(n, i))
            /\ Cardinality(ArchivesFrom(n, i)) \in Nat
            /\ Cardinality(EntriesFrom(n, i)) \in Nat
  BY <1>2, OwnersTyped
<1>5. \A i \in Ids :
         /\ SrcOwns(n, a, i) \in Int /\ SrcOwns(Memory, a, i) \in Int
         /\ EntryOwns(n, a, i) \in Int /\ EntryOwns(Memory, a, i) \in Int
  BY DEF SrcOwns, EntryOwns
<1>6. \A i \in Ids :
         /\ Cardinality(ArchivesFrom(n, i)) =
                Cardinality(ArchivesFrom(Memory, i)) + SrcOwns(n, a, i) - SrcOwns(Memory, a, i)
         /\ Cardinality(EntriesFrom(n, i)) =
                Cardinality(EntriesFrom(Memory, i)) + EntryOwns(n, a, i) - EntryOwns(Memory, a, i)
  BY OneArchiveChanges
<1> HIDE DEF h2, o2
<1>7. h \in [Ids -> Nat] /\ o \in [Ids -> Int] /\ n \in MemoryTyped
  BY DEF Sound
<1>8. h2 = h
  <2>1. \A i \in Ids : h2[i] = h[i]
    BY <1>1, <1>2, <1>3, <1>4, <1>5, <1>6, <1>7
  <2>2. h2 \in [Ids -> Int] /\ h \in [Ids -> Int]
    BY <1>4, <1>7
  <2> QED
    BY <2>1, <2>2, SameOwners
<1>9. Sound(n, h, o2)
  <2>1. \A i \in LiveIn(n) : o[i] <= o2[i]
    <3>1. LiveIn(n) \in SUBSET Ids
      BY DEF LiveIn
    <3>2. \A i \in Ids : Openers[i] + (opened'[i] - opened[i])
                         + (SrcOwns(n, a, i) - SrcOwns(Memory, a, i)) = o2[i]
      BY <1>1, <1>2, <1>3, <1>4, <1>5, <1>6
    <3> QED
      BY <3>1, <3>2
  <2>2. o2 \in [Ids -> Int]
    BY <1>4
  <2> QED
    BY <2>1, <2>2, MoreOpeners
<1> QED
  BY <1>7, <1>8, <1>9, InvFollowsBecomes DEF h2, o2

\* What the archives are that are there.
LEMMA ArchiveFacts ==
    ASSUME SourceInv, NEW a \in Archives, archive[a] # NULL
    PROVE  /\ Memory.archive[a] = archive[a] /\ archive[a] \in Archive
           /\ archive[a].src \in LiveIn(Memory) /\ archive[a].src \in Ids
           /\ archive[a].entry # NULL =>
                 /\ archive[a].entry \in LiveIn(Memory) /\ archive[a].entry \in Ids
                 /\ Owners[archive[a].entry] >= 1
<1>1. /\ Sound(Memory, OwnersIn(Memory, held), OpenersIn(Memory, opened))
      /\ held \in [Ids -> Nat] /\ opened \in [Ids -> Nat] /\ Memory.archive = archive
  BY InvFacts DEF Owners, Openers
<1> QED
  BY <1>1, OwnedIsLive DEF Owners

\* The program gives up a reference that it has not opened the source by.
LEMMA GivenAway ==
    ASSUME SourceInv, NEW s \in Ids, CanGiveAway(s), GivesAway(s), UNCHANGED opened
    PROVE  /\ ProgramOK' /\ \A i \in Ids : held'[i] - held[i] = 0 - (IF i = s THEN 1 ELSE 0)
           /\ s \in LiveIn(Memory)
<1>1. /\ held[s] > 0 /\ (held[s] = 1 => opened[s] = 0)
      /\ held' = [held EXCEPT ![s] = @ - 1] /\ opened' = opened
  BY DEF CanGiveAway, GivesAway
<1>2. /\ held \in [Ids -> Nat] /\ opened \in [Ids -> Nat] /\ s \in LiveIn(Memory)
      /\ \A i \in Ids : opened[i] > 0 => held[i] > 0
  BY <1>1, InvFacts
<1>3. held' \in [Ids -> Nat] /\ \A i \in Ids : held'[i] = held[i] - (IF i = s THEN 1 ELSE 0)
  BY <1>1, <1>2, Counts
<1>4. \A i \in Ids : opened[i] > 0 => held'[i] > 0
  BY <1>1, <1>2, <1>3
<1>5. ProgramOK'
  BY <1>1, <1>2, <1>3, <1>4 DEF ProgramOK
<1> QED
  BY <1>2, <1>3, <1>5

\* The archive becomes another one that knows of no window which is not its.
LEMMA PutArchiveKeeps ==
    ASSUME NEW m, NEW h, NEW o, Sound(m, h, o), NEW a \in Archives, NEW x \in Archive,
           \A w \in x.open_source : w \in LiveIn(m) /\ m.source[w].source_archive = a
                                    /\ ~m.source[w].source_closed,
           NEW n, n = PutArchive(m, a, x)
    PROVE  /\ Sound(n, h, o) /\ n.archive[a] = x /\ LiveIn(n) = LiveIn(m)
           /\ \A c \in Archives : c # a => n.archive[c] = m.archive[c]
<1>1. m \in MemoryTyped /\ WindowsKnow(m)
  BY DEF Sound
<1>2. /\ n \in MemoryTyped /\ n.source = m.source /\ n.callback = m.callback
      /\ LiveIn(n) = LiveIn(m)
      /\ n.archive[a] = x /\ \A c \in Archives : c # a => n.archive[c] = m.archive[c]
  BY <1>1, PutArchiveEffect
<1>3. WindowsKnow(n)
  BY <1>1, <1>2 DEF WindowsKnow
<1> QED
  BY <1>2, <1>3, SoundWithArchive

\* zip_open_from_source: the archive owns the source instead of the program.
LEMMA OpenArchiveStep ==
    ASSUME SourceInv, windows = {}, NEW a \in Archives, NEW s \in Ids, OpenArchive(a, s)
    PROVE  SourceInv'
<1> DEFINE x == NewArchive(s)
           n1 == PutArchive(Open(Memory, s), a, x)
           n2 == PutArchive(Memory, a, x)
           o1 == [Openers EXCEPT ![s] = @ + 1]
<1>1. archive[a] = NULL /\ CanGiveAway(s) /\ GivesAway(s) /\ UNCHANGED opened
  BY DEF OpenArchive
<1>2. Becomes(n1) \/ Becomes(n2)
  BY DEF OpenArchive, PutArchive
<1>3. /\ Sound(Memory, Owners, Openers) /\ Memory.archive = archive
      /\ Owners \in [Ids -> Nat] /\ Openers \in [Ids -> Nat]
      /\ opened \in [Ids -> Nat]
  BY InvFacts
<1>4. /\ ProgramOK' /\ \A i \in Ids : held'[i] - held[i] = 0 - (IF i = s THEN 1 ELSE 0)
      /\ s \in LiveIn(Memory)
  BY <1>1, GivenAway
<1>5. /\ x \in Archive /\ x.open_source = {} /\ x.src = s /\ x.entry = NULL /\ x # NULL
  BY DEF NewArchive, Archive
<1>6. Sound(Open(Memory, s), Owners, o1) /\ Open(Memory, s).archive = archive
  BY <1>3, <1>4, OpenKeeps DEF SameLayers
<1>7. o1 \in [Ids -> Nat] /\ \A i \in Ids : o1[i] = Openers[i] + (IF i = s THEN 1 ELSE 0)
  BY <1>3, Counts
<1> HIDE DEF x, n1, n2, o1
<1>8. ASSUME NEW n, n.archive[a] = x, \A c \in Archives : c # a => n.archive[c] = archive[c],
             Becomes(n), NEW o, Sound(n, Owners, o),
             \A i \in Ids : o[i] <= Openers[i] + (IF i = s THEN 1 ELSE 0)
      PROVE  SourceInv'
  <2>1. SameButFor(Memory, n, a)
    BY <1>8, <1>3 DEF SameButFor
  <2>2. \A i \in Ids : /\ SrcOwns(n, a, i) = (IF i = s THEN 1 ELSE 0)
                       /\ SrcOwns(Memory, a, i) = 0 /\ EntryOwns(n, a, i) = 0
                       /\ EntryOwns(Memory, a, i) = 0
    BY <1>8, <1>1, <1>3, <1>5 DEF SrcOwns, EntryOwns
  <2>3. \A i \in Ids : Owners[i] = Owners[i] + (held'[i] - held[i])
                                 + (SrcOwns(n, a, i) - SrcOwns(Memory, a, i))
                                 + (EntryOwns(n, a, i) - EntryOwns(Memory, a, i))
    BY <2>2, <1>3, <1>4
  <2>4. \A i \in Ids : opened'[i] - opened[i] = 0
    BY <1>1, <1>3
  <2>5. \A i \in LiveIn(n) : o[i] <= Openers[i] + (opened'[i] - opened[i])
                                        + (SrcOwns(n, a, i) - SrcOwns(Memory, a, i))
    BY <1>8, <2>2, <2>4, <1>3 DEF LiveIn
  <2> QED
    BY <1>8, <2>1, <2>3, <2>5, <1>4, ArchiveStep
<1>9. CASE Becomes(n1)
  <2>1. /\ Sound(n1, Owners, o1) /\ n1.archive[a] = x
        /\ \A c \in Archives : c # a => n1.archive[c] = archive[c]
    BY <1>5, <1>6, PutArchiveKeeps DEF n1
  <2>2. \A i \in Ids : o1[i] <= Openers[i] + (IF i = s THEN 1 ELSE 0)
    BY <1>3, <1>7
  <2> QED
    BY <1>9, <2>1, <2>2, <1>8
<1>10. CASE Becomes(n2)
  <2>1. /\ Sound(n2, Owners, Openers) /\ n2.archive[a] = x
        /\ \A c \in Archives : c # a => n2.archive[c] = archive[c]
    BY <1>3, <1>5, PutArchiveKeeps DEF n2
  <2>2. \A i \in Ids : Openers[i] <= Openers[i] + (IF i = s THEN 1 ELSE 0)
    BY <1>3
  <2> QED
    BY <1>10, <2>1, <2>2, <1>8
<1> QED
  BY <1>2, <1>9, <1>10

\* zip_source_zip_file and zip_fopen: a window that knows the archive, and the
\* archive knows of it.
LEMMA SourceZipFileStep ==
    ASSUME SourceInv, windows = {}, NEW a \in Archives, NEW w \in Ids, SourceZipFile(a, w)
    PROVE  SourceInv'
<1>1. PICK s \in {archive[a].src} \cup Reopenable(archive[a].entry) :
          Becomes([Window(Memory, s, w) EXCEPT
                      !.source[w].source_archive = a,
                      !.archive[a].open_source = @ \cup {w}])
  BY DEF SourceZipFile
<1> DEFINE p == Window(Memory, s, w)
           r == [p.source[w] EXCEPT !.source_archive = a]
           q == Put(p, w, r)
           x == [q.archive[a] EXCEPT !.open_source = @ \cup {w}]
           n == PutArchive(q, a, x)
           h2 == [Owners EXCEPT ![w] = 1]
<1>2. /\ archive[a] # NULL /\ w \in Ids \ LiveIn(Memory)
      /\ held' = [held EXCEPT ![w] = 1] /\ opened' = opened
  BY DEF SourceZipFile, FreeId, LiveIn, Memory
<1>3. /\ Sound(Memory, Owners, Openers) /\ Owners[w] = 0 /\ held[w] = 0 /\ opened[w] = 0
      /\ held \in [Ids -> Nat] /\ opened \in [Ids -> Nat] /\ Owners \in [Ids -> Nat]
      /\ Openers \in [Ids -> Nat] /\ \A i \in Ids : 0 <= Openers[i]
      /\ \A i \in Ids : opened[i] > 0 => held[i] > 0
      /\ Memory.archive = archive
  BY <1>2, InvFacts
<1>4. s \in LiveIn(Memory) /\ archive[a] \in Archive
  BY <1>2, ArchiveFacts DEF Reopenable
<1>5. h2 \in [Ids -> Nat] /\ h2[w] = 1 /\ \A i \in Ids : i # w => h2[i] = Owners[i]
  BY <1>3
<1>6. Becomes(n)
  BY <1>1 DEF PutArchive, Put
<1> HIDE DEF h2, n
<1>7. /\ Sound(p, h2, Openers) /\ p.archive = archive /\ LiveIn(p) = LiveIn(Memory) \cup {w}
      /\ ~p.source[w].source_closed
  <2>1. p = Window(Memory, s, w)
    OBVIOUS
  <2> HIDE DEF p
  <2>2. /\ Sound(p, h2, Openers) /\ p.archive = Memory.archive
        /\ LiveIn(p) = LiveIn(Memory) \cup {w} /\ ~p.source[w].source_closed
    BY <2>1, <1>2, <1>3, <1>4, <1>5, WindowKeeps
  <2> QED
    BY <2>2, <1>3
<1> HIDE DEF p
<1>8. /\ p \in MemoryTyped /\ LiveIn(p) \in SUBSET Ids /\ w \in LiveIn(p)
      /\ p.source[w] \in Source /\ WindowsKnow(p)
  BY <1>7, LiveTyped DEF Sound
<1>9. /\ r \in Source /\ r.open_count = p.source[w].open_count
      /\ r.lower = p.source[w].lower /\ r.refcount = p.source[w].refcount
      /\ r.write_state = p.source[w].write_state
      /\ r.source_archive = a /\ ~r.source_closed
  BY <1>7, <1>8 DEF Source
<1> HIDE DEF r
<1>10. /\ q \in MemoryTyped /\ q.callback = p.callback /\ q.archive = archive
       /\ q.source[w] = r /\ LiveIn(q) = LiveIn(p)
       /\ \A i \in Ids : i # w => q.source[i] = p.source[i]
  <2>1. q = Put(p, w, r)
    OBVIOUS
  <2> HIDE DEF q
  <2>2. /\ q \in MemoryTyped /\ q.callback = p.callback /\ q.archive = p.archive
        /\ q.source[w] = r /\ LiveIn(q) = LiveIn(p) \cup {w}
        /\ \A i \in Ids : i # w => q.source[i] = p.source[i]
    BY <2>1, <1>8, <1>9, PutEffect
  <2> QED
    BY <2>2, <1>7, <1>8
<1> HIDE DEF q
<1>11. SameStack(p, q)
  BY <1>8, <1>9, <1>10 DEF SameStack
<1>12. Owned(q, h2) /\ LayersStand(q) /\ NoLoops(q)
  BY <1>7, <1>11, StackKept DEF Sound
<1>13. \A i \in LiveIn(p) : q.source[i].open_count = p.source[i].open_count
                           /\ q.source[i].write_state = p.source[i].write_state
  BY <1>8, <1>9, <1>10
<1>14. OpensCounted(q, Openers)
  BY <1>7, <1>11, <1>13, CountsKept DEF Sound
<1>15. CallbacksTold(q)
  BY <1>7, <1>10, <1>13 DEF Sound, CallbacksTold, ToldFor
<1>16. ASSUME NEW c \in Archives, q.archive[c] # NULL, NEW v \in q.archive[c].open_source
       PROVE  v \in LiveIn(q) /\ q.source[v].source_archive = c /\ ~q.source[v].source_closed
  <2>1. v \in LiveIn(Memory) /\ v # w /\ v \in Ids
    BY <1>2, <1>3, <1>10, <1>16 DEF Sound, WindowsKnow, LiveIn
  <2>2. q.source[v] = p.source[v]
    BY <2>1, <1>10
  <2> QED
    BY <2>2, <1>7, <1>8, <1>10, <1>16 DEF WindowsKnow
<1>17. Sound(q, h2, Openers)
  <2>1. WindowsKnow(q)
    BY <1>16 DEF WindowsKnow
  <2> QED
    BY <2>1, <1>7, <1>10, <1>12, <1>14, <1>15 DEF Sound
<1>18. /\ x \in Archive /\ x # NULL /\ x.src = archive[a].src /\ x.entry = archive[a].entry
       /\ x.open_source = archive[a].open_source \cup {w}
  BY <1>2, <1>4, <1>10 DEF Archive
<1> HIDE DEF x
<1>19. \A v \in x.open_source : v \in LiveIn(q) /\ q.source[v].source_archive = a
                                /\ ~q.source[v].source_closed
  BY <1>2, <1>8, <1>9, <1>10, <1>16, <1>18
<1>20. /\ Sound(n, h2, Openers) /\ n.archive[a] = x
       /\ \A c \in Archives : c # a => n.archive[c] = q.archive[c]
  BY <1>17, <1>18, <1>19, PutArchiveKeeps DEF n
<1>21. held' \in [Ids -> Nat] /\ held'[w] = 1 /\ \A i \in Ids : i # w => held'[i] = held[i]
  BY <1>2, <1>3
<1>22. ProgramOK'
  BY <1>2, <1>3, <1>21 DEF ProgramOK
<1>23. SameArchives(Memory, n)
  BY <1>2, <1>3, <1>10, <1>18, <1>20 DEF SameArchives
<1>24. \A i \in Ids : h2[i] = Owners[i] + (held'[i] - held[i])
  BY <1>3, <1>5, <1>21
<1>25. \A i \in LiveIn(n) : Openers[i] <= Openers[i] + (opened'[i] - opened[i])
  BY <1>2, <1>3 DEF LiveIn
<1> QED
  BY <1>6, <1>20, <1>22, <1>23, <1>24, <1>25, ProgramStep

\* The entry of an archive gets other data, or none, and frees what it had.
LEMMA EntryStep ==
    ASSUME SourceInv, windows = {}, NEW a \in Archives, archive[a] # NULL,
           NEW x \in Ids \cup {NULL}, ProgramOK', UNCHANGED opened,
           \A i \in Ids : held'[i] - held[i] = 0 - (IF i = x THEN 1 ELSE 0),
           Becomes([FreeIfAny(Memory, archive[a].entry) EXCEPT !.archive[a].entry = x])
    PROVE  SourceInv'
<1> DEFINE e == archive[a].entry
           p == FreeIfAny(Memory, e)
           y == [p.archive[a] EXCEPT !.entry = x]
           n == PutArchive(p, a, y)
<1>1. Becomes(n)
  BY DEF PutArchive
<1>2. /\ Sound(Memory, Owners, Openers) /\ Memory.archive = archive
      /\ Owners \in [Ids -> Nat] /\ Openers \in [Ids -> Nat] /\ \A i \in Ids : 0 <= Openers[i]
      /\ opened \in [Ids -> Nat]
  BY InvFacts
<1>3. archive[a] \in Archive /\ e # NULL => e \in Ids /\ Owners[e] >= 1
  BY ArchiveFacts
<1> HIDE DEF n
<1>4. /\ SameArchives(Memory, p)
      /\ \E h \in [Ids -> Nat] :
            /\ Sound(p, h, Openers)
            /\ \A i \in Ids : h[i] = Owners[i] - (IF i = e THEN 1 ELSE 0)
  <2>1. CASE e = NULL
    <3>1. p = Memory
      BY <2>1 DEF FreeIfAny
    <3>2. \A i \in Ids : Owners[i] = Owners[i] - (IF i = e THEN 1 ELSE 0)
      BY <2>1, <1>2
    <3> HIDE DEF p, e
    <3>3. SameArchives(Memory, p)
      BY <3>1 DEF SameArchives
    <3> QED
      BY <3>1, <3>2, <3>3, <1>2
  <2>2. CASE e # NULL
    <3> DEFINE h == [Owners EXCEPT ![e] = @ - 1]
    <3>1. p = Free(Memory, e)
      BY <2>2 DEF FreeIfAny
    <3>2. e \in Ids /\ Owners[e] >= 1
      BY <2>2, ArchiveFacts
    <3> HIDE DEF p, e
    <3>3. h \in [Ids -> Nat] /\ \A i \in Ids : h[i] = Owners[i] - (IF i = e THEN 1 ELSE 0)
      BY <3>2, <1>2, Counts
    <3>4. Sound(p, h, Openers) /\ SameArchives(Memory, p)
      BY <3>1, <3>2, <1>2, FreeKeeps
    <3> HIDE DEF h
    <3> QED
      BY <3>3, <3>4
  <2> QED
    BY <2>1, <2>2
<1>5. PICK h \in [Ids -> Nat] :
         Sound(p, h, Openers) /\ \A i \in Ids : h[i] = Owners[i] - (IF i = e THEN 1 ELSE 0)
  BY <1>4
<1>6. archive[a].entry = e
  OBVIOUS
<1> HIDE DEF p, e
<1>7. p.archive[a] # NULL /\ p.archive[a].src = archive[a].src /\ p \in MemoryTyped
      /\ WindowsKnow(p)
  BY <1>2, <1>4, <1>5 DEF SameArchives, Sound
<1>8. /\ y \in Archive /\ y.src = archive[a].src /\ y.entry = x
      /\ y.open_source = p.archive[a].open_source /\ y # NULL
  BY <1>7 DEF MemoryTyped, Archive
<1> HIDE DEF y
<1>9. \A v \in y.open_source : v \in LiveIn(p) /\ p.source[v].source_archive = a
                               /\ ~p.source[v].source_closed
  BY <1>7, <1>8 DEF WindowsKnow
<1>10. /\ Sound(n, h, Openers) /\ n.archive[a] = y
       /\ \A c \in Archives : c # a => n.archive[c] = p.archive[c]
  BY <1>5, <1>8, <1>9, PutArchiveKeeps DEF n
<1>11. SameButFor(Memory, n, a)
  BY <1>4, <1>10 DEF SameButFor, SameArchives
<1>12. \A i \in Ids :
          /\ SrcOwns(n, a, i) - SrcOwns(Memory, a, i) = 0
          /\ EntryOwns(n, a, i) = (IF i = x THEN 1 ELSE 0)
          /\ EntryOwns(Memory, a, i) = (IF i = e THEN 1 ELSE 0)
  BY <1>2, <1>6, <1>8, <1>10 DEF SrcOwns, EntryOwns
<1>13. \A i \in Ids : h[i] = Owners[i] + (held'[i] - held[i])
                             + (SrcOwns(n, a, i) - SrcOwns(Memory, a, i))
                             + (EntryOwns(n, a, i) - EntryOwns(Memory, a, i))
  BY <1>2, <1>5, <1>12
<1>14. \A i \in LiveIn(n) : Openers[i] <= Openers[i] + (opened'[i] - opened[i])
                                          + (SrcOwns(n, a, i) - SrcOwns(Memory, a, i))
  BY <1>2, <1>12 DEF LiveIn
<1> QED
  BY <1>1, <1>10, <1>11, <1>13, <1>14, ArchiveStep

LEMMA SetDataStep ==
    ASSUME SourceInv, windows = {}, NEW a \in Archives, NEW s \in Ids, SetData(a, s)
    PROVE  SourceInv'
<1>1. /\ archive[a] # NULL /\ CanGiveAway(s) /\ GivesAway(s) /\ UNCHANGED opened
      /\ Becomes([FreeIfAny(Memory, archive[a].entry) EXCEPT !.archive[a].entry = s])
  BY DEF SetData, IsWritable
<1>2. ProgramOK' /\ \A i \in Ids : held'[i] - held[i] = 0 - (IF i = s THEN 1 ELSE 0)
  BY <1>1, GivenAway
<1> QED
  BY <1>1, <1>2, EntryStep

LEMMA DropDataStep ==
    ASSUME SourceInv, windows = {}, NEW a \in Archives, DropData(a)
    PROVE  SourceInv'
<1>1. /\ archive[a] # NULL /\ archive[a].entry # NULL /\ UNCHANGED <<held, opened>>
      /\ Becomes([Free(Memory, archive[a].entry) EXCEPT !.archive[a].entry = NULL])
  BY DEF DropData, IsWritable
<1>2. /\ ProgramOK /\ held \in [Ids -> Nat]
  BY InvFacts DEF SourceInv
<1>3. ProgramOK' /\ \A i \in Ids : held'[i] - held[i] = 0 - (IF i = NULL THEN 1 ELSE 0)
  BY <1>1, <1>2 DEF ProgramOK
<1>4. Becomes([FreeIfAny(Memory, archive[a].entry) EXCEPT !.archive[a].entry = NULL])
  BY <1>1 DEF FreeIfAny
<1> QED
  BY <1>1, <1>3, <1>4, EntryStep

\* zip_discard after calls that kept memory sound: the archive is gone, and the
\* windows that it knew of are left to be invalidated.
LEMMA DiscardsStep ==
    ASSUME SourceInv, windows = {}, NEW a \in Archives, archive[a] # NULL,
           NEW m, Kept(Memory, m, Owners, Openers), Discards(m, a), UNCHANGED <<held, opened>>
    PROVE  SourceInv'
<1> DEFINE left == Discarded(m, a)
           n == PutArchive(left, a, NULL)
<1>1. /\ held \in [Ids -> Nat] /\ opened \in [Ids -> Nat] /\ Memory.archive = archive
      /\ ProgramOK
  BY InvFacts DEF SourceInv
<1>2. Sound(m, Owners, Openers) /\ m.archive = Memory.archive
  BY DEF Kept
<1>3. OwnersIn(m, held) = Owners /\ OpenersIn(m, opened) = Openers
  BY <1>2, KeptOwnsSame DEF Owners, Openers
<1>4. m.archive[a] # NULL
  BY <1>1, <1>2
<1>5. /\ left \in MemoryTyped /\ Sound(n, OwnersIn(n, held), OpenersIn(n, opened))
      /\ \A w \in left.archive[a].open_source :
            /\ w \in LiveIn(n)
            /\ \A c \in Archives : n.archive[c] # NULL => w \notin n.archive[c].open_source
  BY <1>1, <1>2, <1>3, <1>4, DiscardKeeps
<1>6. Stores(n) /\ windows' = left.archive[a].open_source
  BY DEF Discards, PutArchive
<1> HIDE DEF left, n
<1>7. held' = held /\ opened' = opened
  OBVIOUS
<1>8. ProgramOK'
  BY <1>1, <1>7 DEF ProgramOK
<1>9. Sound(n, OwnersIn(n, held'), OpenersIn(n, opened')) /\ n \in MemoryTyped
  BY <1>5, <1>7 DEF Sound
<1>10. \A w \in windows' :
          /\ w \in LiveIn(n)
          /\ \A c \in Archives : n.archive[c] # NULL => w \notin n.archive[c].open_source
  BY <1>5, <1>6
<1> QED
  BY <1>6, <1>8, <1>9, <1>10, InvFollows

LEMMA DiscardStep ==
    ASSUME SourceInv, windows = {}, NEW a \in Archives, Discard(a)
    PROVE  SourceInv'
<1>1. archive[a] # NULL /\ Discards(Memory, a) /\ UNCHANGED <<held, opened>>
  BY DEF Discard
<1>2. Kept(Memory, Memory, Owners, Openers)
  BY InvFacts DEF Kept
<1> QED
  BY <1>1, <1>2, DiscardsStep

\* zip_close that writes leaves memory sound, however far it gets.
LEMMA CloseArchiveStep ==
    ASSUME SourceInv, windows = {}, NEW a \in Archives, CloseArchive(a)
    PROVE  SourceInv'
<1> DEFINE src == archive[a].src
           entry == archive[a].entry
           begun == Begin(Memory, src)
           written == DataRead(begun, a)
<1>1. /\ archive[a] # NULL /\ CanBeginWrite(Memory, src) /\ UNCHANGED <<held, opened>>
      /\ \/ CanCommit(written, src) /\ Discards(Commit(written, src), a)
         \/ CanCommit(written, src) /\ Becomes(Rollback(CommitFails(written, src), src))
         \/ Becomes(Rollback(begun, src))
  BY DEF CloseArchive, IsWritable
<1>2. /\ Sound(Memory, Owners, Openers) /\ Memory.archive = archive
      /\ Openers \in [Ids -> Nat] /\ \A i \in Ids : 0 <= Openers[i]
  BY InvFacts
<1>3. src \in LiveIn(Memory) /\ (entry # NULL => entry \in LiveIn(Memory))
  BY <1>1, ArchiveFacts
<1>4. Kept(Memory, begun, Owners, Openers)
  BY <1>1, <1>2, <1>3, BeginKeeps
<1>5. Kept(Memory, written, Owners, Openers)
  <2>1. begun.archive[a].entry = entry
    BY <1>2, <1>4 DEF Kept
  <2>2. CASE entry = NULL
    <3>1. written = begun
      BY <2>1, <2>2 DEF DataRead
    <3> QED
      BY <3>1, <1>4
  <2>3. CASE entry # NULL
    <3>1. written = Close(Open(begun, entry), entry)
      BY <2>1, <2>3 DEF DataRead
    <3> HIDE DEF begun, written, entry
    <3>2. Sound(begun, Owners, Openers) /\ entry \in LiveIn(begun)
      BY <1>3, <1>4, <2>3 DEF Kept
    <3>3. Kept(begun, written, Owners, Openers)
      BY <3>1, <3>2, <1>2, OpenCloseKeeps
    <3> QED
      BY <3>3, <1>4, KeptTwice
  <2> QED
    BY <2>2, <2>3
<1> HIDE DEF src, begun, written
<1>6. CASE CanCommit(written, src)
  <2> DEFINE failed == CommitFails(written, src)
  <2>1. Sound(written, Owners, Openers) /\ src \in LiveIn(written)
    BY <1>3, <1>5 DEF Kept
  <2>2. Kept(written, Commit(written, src), Owners, Openers) /\ Kept(written, failed, Owners, Openers)
    BY <2>1, <1>2, <1>6, CommitKeeps
  <2> HIDE DEF failed
  <2>3. Sound(failed, Owners, Openers) /\ src \in LiveIn(failed)
    BY <2>1, <2>2 DEF Kept
  <2>4. Kept(failed, Rollback(failed, src), Owners, Openers)
    BY <2>3, RollbackKeeps
  <2>5. Kept(Memory, Commit(written, src), Owners, Openers)
    BY <2>2, <1>5, KeptTwice
  <2>6. Kept(Memory, Rollback(failed, src), Owners, Openers)
    BY <2>2, <2>4, <1>5, KeptTwice
  <2>7. CASE Discards(Commit(written, src), a)
    BY <2>5, <2>7, <1>1, DiscardsStep
  <2>8. CASE Becomes(Rollback(failed, src))
    BY <2>6, <2>8, <1>1, KeptStep
  <2>9. CASE Becomes(Rollback(begun, src))
    <3>1. Sound(begun, Owners, Openers) /\ src \in LiveIn(begun)
      BY <1>3, <1>4 DEF Kept
    <3>2. Kept(begun, Rollback(begun, src), Owners, Openers)
      BY <3>1, RollbackKeeps
    <3>3. Kept(Memory, Rollback(begun, src), Owners, Openers)
      BY <3>2, <1>4, KeptTwice
    <3> QED
      BY <2>9, <3>3, <1>1, KeptStep
  <2> QED
    BY <2>7, <2>8, <2>9, <1>1 DEF failed
<1>7. CASE Becomes(Rollback(begun, src))
  <2>1. Sound(begun, Owners, Openers) /\ src \in LiveIn(begun)
    BY <1>3, <1>4 DEF Kept
  <2>2. Kept(begun, Rollback(begun, src), Owners, Openers)
    BY <2>1, RollbackKeeps
  <2>3. Kept(Memory, Rollback(begun, src), Owners, Openers)
    BY <2>2, <1>4, KeptTwice
  <2> QED
    BY <1>7, <2>3, <1>1, KeptStep
<1> QED
  BY <1>1, <1>6, <1>7

\* So does zip_close that removes the file.
LEMMA CloseAndRemoveStep ==
    ASSUME SourceInv, windows = {}, NEW a \in Archives, CloseAndRemove(a)
    PROVE  SourceInv'
<1> DEFINE src == archive[a].src
           removed == RemoveFile(Memory, src)
           kept == RemoveFails(Memory, src)
<1>1. /\ archive[a] # NULL /\ UNCHANGED <<held, opened>>
      /\ Discards(removed, a) \/ Becomes(kept) \/ Discards(kept, a)
  BY DEF CloseAndRemove, IsWritable
<1>2. Sound(Memory, Owners, Openers) /\ \A i \in Ids : 0 <= Openers[i]
  BY InvFacts
<1>3. src \in LiveIn(Memory)
  BY <1>1, ArchiveFacts
<1>4. Kept(Memory, removed, Owners, Openers) /\ Kept(Memory, kept, Owners, Openers)
  BY <1>2, <1>3, RemoveKeeps
<1> HIDE DEF removed, kept
<1>5. CASE Discards(removed, a)
  BY <1>5, <1>1, <1>4, DiscardsStep
<1>6. CASE Becomes(kept)
  BY <1>6, <1>1, <1>4, KeptStep
<1>7. CASE Discards(kept, a)
  BY <1>7, <1>1, <1>4, DiscardsStep
<1> QED
  BY <1>1, <1>5, <1>6, <1>7

\* A window is closed, and the others are still there.
LEMMA InvalidateWindowStep ==
    ASSUME SourceInv, NEW w \in windows, InvalidateWindow(w)
    PROVE  SourceInv'
<1> DEFINE n == Invalidate(Memory, w)
<1>1. /\ Stores(n) /\ windows' \subseteq windows /\ held' = held /\ opened' = opened
  BY DEF InvalidateWindow
<1>2. /\ Sound(Memory, Owners, Openers) /\ Memory.archive = archive
      /\ \A i \in Ids : 0 <= Openers[i]
      /\ held \in [Ids -> Nat] /\ opened \in [Ids -> Nat]
  BY InvFacts
<1>3. ProgramOK
  BY DEF SourceInv
<1>4. ASSUME NEW v \in windows
      PROVE  /\ v \in LiveIn(Memory)
             /\ \A c \in Archives : Memory.archive[c] # NULL => v \notin Memory.archive[c].open_source
  BY <1>2 DEF SourceInv
<1> HIDE DEF n
<1>5. Kept(Memory, n, Owners, Openers)
  BY <1>2, <1>4, InvalidateKeeps DEF n
<1>6. Sound(n, Owners, Openers) /\ n.archive = Memory.archive /\ LiveIn(n) = LiveIn(Memory)
      /\ n \in MemoryTyped
  BY <1>5 DEF Kept, Sound
<1>7. OwnersIn(n, held') = Owners /\ OpenersIn(n, opened') = Openers
  BY <1>1, <1>6, KeptOwnsSame DEF Owners, Openers
<1>8. ProgramOK'
  BY <1>1, <1>3 DEF ProgramOK
<1>9. \A v \in windows' :
         /\ v \in LiveIn(n)
         /\ \A c \in Archives : n.archive[c] # NULL => v \notin n.archive[c].open_source
  BY <1>1, <1>4, <1>6
<1> QED
  BY <1>1, <1>6, <1>7, <1>8, <1>9, InvFollows

(***************************************************************************)
(* The theorems.                                                           *)
(***************************************************************************)

LEMMA SourceInvInit ==
    ASSUME Init
    PROVE  SourceInv
<1>1. LiveIn(Memory) = {} /\ \A i : ArchivesFrom(Memory, i) = {} /\ EntriesFrom(Memory, i) = {}
  BY DEF Init, LiveIn, Memory, ArchivesFrom, EntriesFrom
<1>2. Memory \in MemoryTyped
  BY DEF Init, Memory, MemoryTyped, NewCallback, Callback
<1>3. held \in [Ids -> Nat] /\ opened \in [Ids -> Nat] /\ \A i \in Ids : held[i] = 0 /\ opened[i] = 0
  BY DEF Init
<1>4. OwnersIn(Memory, held) \in [Ids -> Nat] /\ OpenersIn(Memory, opened) \in [Ids -> Int]
  BY <1>3, OwnersTyped
<1>5. Owned(Memory, OwnersIn(Memory, held))
  <2>1. \A i \in Ids : OwnersIn(Memory, held)[i] = 0
    BY <1>1, <1>3, FS_EmptySet DEF OwnersIn
  <2> QED
    BY <2>1, <1>1 DEF Owned
<1>6. /\ LayersStand(Memory) /\ NoLoops(Memory)
      /\ OpensCounted(Memory, OpenersIn(Memory, opened))
  BY <1>1 DEF LayersStand, NoLoops, OpensCounted
<1>7. CallbacksTold(Memory)
  BY <1>1 DEF CallbacksTold, Init, Memory, NewCallback
<1>8. WindowsKnow(Memory)
  BY DEF WindowsKnow, Init, Memory
<1>9. ProgramOK
  BY <1>3 DEF ProgramOK
<1>10. windows = {}
  BY DEF Init
<1> QED
  BY <1>2, <1>4, <1>5, <1>6, <1>7, <1>8, <1>9, <1>10 DEF SourceInv, Sound

LEMMA SourceInvNext ==
    ASSUME SourceInv, [Next]_vars
    PROVE  SourceInv'
<1>1. CASE UNCHANGED vars
  BY <1>1 DEF vars, SourceInv, Memory, ProgramOK
<1>2. CASE windows = {} /\ CallsOnSources
  <2>1. PICK s \in Ids :
          \/ Create(s) \/ Keep(s) \/ FreeSource(s) \/ OpenSource(s) \/ CloseSource(s)
          \/ BeginWrite(s) \/ CommitWrite(s) \/ RollbackWrite(s) \/ OpenArchiveFails(s)
          \/ \E l \in Ids : Layered(s, l) \/ WindowCreate(s, l)
    BY <1>2 DEF CallsOnSources
  <2>2. CASE Create(s)
    BY <1>2, <2>2, CreateStep
  <2>3. CASE Keep(s)
    BY <1>2, <2>3, KeepStep
  <2>4. CASE FreeSource(s)
    BY <1>2, <2>4, FreeSourceStep
  <2>5. CASE OpenSource(s)
    BY <1>2, <2>5, OpenSourceStep
  <2>6. CASE CloseSource(s)
    BY <1>2, <2>6, CloseSourceStep
  <2>7. CASE BeginWrite(s) \/ CommitWrite(s) \/ RollbackWrite(s)
    BY <1>2, <2>7, WriteStep
  <2>8. CASE OpenArchiveFails(s)
    BY <1>2, <2>8, OpenArchiveFailsStep
  <2>9. ASSUME NEW l \in Ids, Layered(s, l) \/ WindowCreate(s, l)
        PROVE  SourceInv'
    BY <1>2, <2>9, LayeredStep, WindowCreateStep
  <2> QED
    BY <2>1, <2>2, <2>3, <2>4, <2>5, <2>6, <2>7, <2>8, <2>9
<1>3. CASE windows = {} /\ CallsOnArchives
  <2>1. PICK a \in Archives :
          \/ \E s \in Ids : OpenArchive(a, s) \/ SourceZipFile(a, s) \/ SetData(a, s)
          \/ DropData(a) \/ Discard(a) \/ CloseArchive(a) \/ CloseAndRemove(a)
    BY <1>3 DEF CallsOnArchives
  <2>2. ASSUME NEW s \in Ids, OpenArchive(a, s) PROVE SourceInv'
    BY <1>3, <2>2, OpenArchiveStep
  <2>3. ASSUME NEW s \in Ids, SourceZipFile(a, s) PROVE SourceInv'
    BY <1>3, <2>3, SourceZipFileStep
  <2>4. ASSUME NEW s \in Ids, SetData(a, s) PROVE SourceInv'
    BY <1>3, <2>4, SetDataStep
  <2>5. CASE DropData(a)
    BY <1>3, <2>5, DropDataStep
  <2>6. CASE Discard(a)
    BY <1>3, <2>6, DiscardStep
  <2>7. CASE CloseArchive(a)
    BY <1>3, <2>7, CloseArchiveStep
  <2>8. CASE CloseAndRemove(a)
    BY <1>3, <2>8, CloseAndRemoveStep
  <2> QED
    BY <2>1, <2>2, <2>3, <2>4, <2>5, <2>6, <2>7, <2>8
<1>4. ASSUME NEW w \in windows, InvalidateWindow(w)
      PROVE  SourceInv'
  BY <1>4, InvalidateWindowStep
<1> QED
  BY <1>1, <1>2, <1>3, <1>4 DEF Next

\* The inductive invariant holds of every behaviour: the library keeps owners,
\* layers, counts and callbacks in order from one call to the next, whatever the
\* program calls (zip_source_free.c, zip_source_open.c, zip_source_close.c and
\* their callers).
THEOREM SourceInvariant == Spec => []SourceInv
<1>1. Init => SourceInv
  BY SourceInvInit
<1>2. SourceInv /\ [Next]_vars => SourceInv'
  BY SourceInvNext
<1> QED
  BY <1>1, <1>2, PTL DEF Spec

\* A source has as many references as it has owners, so that zip_source_free
\* frees it with the last of them and not before (zip_source_free.c).
THEOREM RefcountsAreAccurate == Spec => []RefcountIsAccurate
<1>1. SourceInv => RefcountIsAccurate
  <2> SUFFICES ASSUME SourceInv, NEW s \in Live
      PROVE  source[s].refcount = held[s] + Cardinality(Above(s)) + Cardinality(OpenedBy(s))
                                          + Cardinality(EntriesOf(s))
    BY DEF RefcountIsAccurate
  <2>1. /\ s \in LiveIn(Memory) /\ s \in Ids /\ Memory.source = source
        /\ Sound(Memory, OwnersIn(Memory, held), OpenersIn(Memory, opened))
        /\ held \in [Ids -> Nat] /\ Memory \in MemoryTyped
    BY InvFacts DEF Live, LiveIn, Owners, Openers
  <2>2. source[s].refcount = OwnersIn(Memory, held)[s] + Cardinality(AboveIn(Memory, s))
    BY <2>1 DEF Sound, Owned
  <2>3. /\ OwnersIn(Memory, held)[s] = held[s] + Cardinality(ArchivesFrom(Memory, s))
                                               + Cardinality(EntriesFrom(Memory, s))
        /\ Cardinality(ArchivesFrom(Memory, s)) \in Nat
        /\ Cardinality(EntriesFrom(Memory, s)) \in Nat /\ held[s] \in Nat
    BY <2>1, OwnersTyped
  <2>4. AboveIn(Memory, s) = Above(s)
    BY DEF AboveIn, Above, Live, Memory
  <2>5. ArchivesFrom(Memory, s) = OpenedBy(s) /\ EntriesFrom(Memory, s) = EntriesOf(s)
    BY DEF ArchivesFrom, EntriesFrom, OpenedBy, EntriesOf, LiveArchives, Memory
  <2>6. AboveIn(Memory, s) \in SUBSET Ids
    BY <2>1, LiveTyped
  <2>7. Cardinality(AboveIn(Memory, s)) \in Nat
    BY <2>6, Counted
  <2> QED
    BY <2>2, <2>3, <2>4, <2>5, <2>7
<1> QED
  BY <1>1, SourceInvariant, PTL

\* Neither a layer, nor an archive, its entry or its windows, nor zip_discard
\* while it invalidates them, has a pointer to a source that was freed.
THEOREM NothingDangles == Spec => []NoDanglingSource
<1>1. SourceInv => NoDanglingSource
  <2> SUFFICES ASSUME SourceInv PROVE NoDanglingSource
    OBVIOUS
  <2>1. /\ Sound(Memory, Owners, Openers) /\ Live = LiveIn(Memory)
        /\ Memory.source = source /\ Memory.archive = archive
    BY InvFacts DEF Live
  <2>2. \A s \in Live : source[s].lower \in Live \cup {NULL}
    BY <2>1 DEF Sound, LayersStand
  <2>3. ASSUME NEW a \in LiveArchives
        PROVE  /\ archive[a].src \in Live /\ archive[a].entry \in Live \cup {NULL}
               /\ archive[a].open_source \subseteq Live
    <3>1. a \in Archives /\ archive[a] # NULL
      BY DEF LiveArchives
    <3>2. archive[a].src \in Live /\ archive[a].entry \in Live \cup {NULL}
      BY <3>1, <2>1, ArchiveFacts
    <3>3. archive[a].open_source \subseteq Live
      BY <3>1, <2>1 DEF Sound, WindowsKnow
    <3> QED
      BY <3>2, <3>3
  <2>4. windows \subseteq Live
    BY <2>1 DEF SourceInv
  <2> QED
    BY <2>2, <2>3, <2>4 DEF NoDanglingSource
<1> QED
  BY <1>1, SourceInvariant, PTL

\* A source is open at most as often as the program, the layers above it and
\* the archives opened from it have it open: whatever failed has closed what it
\* had opened, and a commit is not refused for it (zip_source_commit_write.c).
THEOREM OpensAreAccountedFor == Spec => []NoOpenIsForgotten
<1>1. SourceInv => NoOpenIsForgotten
  <2> SUFFICES ASSUME SourceInv, NEW s \in Live
      PROVE  source[s].open_count <=
                 opened[s] + Cardinality({l \in Above(s) : IsOpen(Memory, l)})
                           + Cardinality(OpenedBy(s))
    BY DEF NoOpenIsForgotten
  <2>1. /\ s \in LiveIn(Memory) /\ s \in Ids /\ Memory.source = source
        /\ Sound(Memory, OwnersIn(Memory, held), OpenersIn(Memory, opened))
        /\ opened \in [Ids -> Nat] /\ Memory \in MemoryTyped
    BY InvFacts DEF Live, LiveIn, Owners, Openers
  <2>2. source[s].open_count <= OpenersIn(Memory, opened)[s] + Cardinality(OpenAbove(Memory, s))
    BY <2>1 DEF Sound, OpensCounted
  <2>3. /\ OpenersIn(Memory, opened)[s] = opened[s] + Cardinality(ArchivesFrom(Memory, s))
        /\ Cardinality(ArchivesFrom(Memory, s)) \in Nat /\ opened[s] \in Nat
    BY <2>1, OwnersTyped
  <2>4. OpenAbove(Memory, s) = {l \in Above(s) : IsOpen(Memory, l)}
    BY DEF OpenAbove, IsOpen, AboveIn, Above, Live, Memory
  <2>5. ArchivesFrom(Memory, s) = OpenedBy(s)
    BY DEF ArchivesFrom, OpenedBy, LiveArchives, Memory
  <2>6. OpenAbove(Memory, s) \in SUBSET Ids
    BY <2>1, LiveTyped
  <2>7. Cardinality(OpenAbove(Memory, s)) \in Nat
    BY <2>6, Counted
  <2>8. source[s].open_count \in Nat
    BY <2>1, LiveTyped DEF Source
  <2> QED
    BY <2>2, <2>3, <2>4, <2>5, <2>7, <2>8
<1> QED
  BY <1>1, SourceInvariant, PTL

\* Every callback gets its commands in the order that
\* zip_source_function.mdoc promises.
THEOREM CallbacksAreCalledInOrder == Spec => []CallingConventions
<1>1. SourceInv => CallingConventions
  BY InvFacts DEF Sound, CallbacksTold, CallingConventions
<1> QED
  BY <1>1, SourceInvariant, PTL
=============================================================================
