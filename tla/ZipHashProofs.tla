---------------------------- MODULE ZipHashProofs ---------------------------
(***************************************************************************)
(* Proofs about the table of names (ZipHash): it implements NameTable.     *)
(* New chains are joined from pieces, by recursion (FlattenSeq); what that *)
(* gives is shown by taking the first piece for which it would be wrong.   *)
(* So this begins with the least element of a set of numbers, goes on with *)
(* chains and tables, and ends with one step for each operation.           *)
(***************************************************************************)
EXTENDS ZipHash, FiniteSetTheorems, WellFoundedInduction, NaturalsInduction, TLAPS

USE SizeAssumption, HashAssumption, IndicesAssumption

(***************************************************************************)
(* Numbers, and functions that are defined step by step.                   *)
(***************************************************************************)

LEMMA NatHasLeast ==
    ASSUME NEW S \in SUBSET Nat, S # {}
    PROVE  \E x \in S : \A y \in S : x <= y
<1>1. PICK x \in S : \A y \in S : ~(<<y, x>> \in OpToRel(<, Nat))
  BY NatLessThanWellFounded, WFMin, Zenon
<1>2. \A y \in S : ~(y < x)
  BY <1>1 DEF OpToRel
<1> QED
  BY <1>2

\* What holds of the first step and passes from each to the next.
LEMMA StepByStep ==
    ASSUME NEW n \in Nat, NEW Good, 0 \in Good,
           \A k \in 1..n : k - 1 \in Good => k \in Good
    PROVE  \A k \in 0..n : k \in Good
<1> DEFINE Bad == {k \in 0..n : k \notin Good}
<1>1. SUFFICES ASSUME Bad # {} PROVE FALSE
  OBVIOUS
<1>2. PICK m \in Bad : \A y \in Bad : m <= y
  <2>1. Bad \in SUBSET Nat
    OBVIOUS
  <2> HIDE DEF Bad
  <2> QED
    BY <2>1, <1>1, NatHasLeast
<1>3. m \in 1..n /\ m - 1 \in 0..n /\ m - 1 \notin Bad
  BY <1>2
<1> QED
  BY <1>3

\* A function that begins with first and goes on as step says.
FollowsSteps(f, n, first, step) == f[0] = first /\ \A k \in 1..n : f[k] = step[k][f[k - 1]]

LEMMA StepsExist ==
    ASSUME NEW n \in Nat, NEW X, NEW first \in X, NEW step \in [1..n -> [X -> X]]
    PROVE  \E f \in [0..n -> X] : FollowsSteps(f, n, first, step)
<1> DEFINE Upto(m, f) == f \in [0..m -> X] /\ FollowsSteps(f, m, first, step)
           Good == {m \in 0..n : \E f \in [0..m -> X] : Upto(m, f)}
<1>1. 0 \in Good
  <2> DEFINE g == [i \in 0..0 |-> first]
  <2>1. g \in [0..0 -> X] /\ g[0] = first /\ 0 \in 0..n
    OBVIOUS
  <2> HIDE DEF g
  <2>2. Upto(0, g)
    BY <2>1 DEF FollowsSteps
  <2> QED
    BY <2>1, <2>2
<1>2. ASSUME NEW m \in 1..n, m - 1 \in Good PROVE m \in Good
  <2>1. PICK f \in [0..(m - 1) -> X] : Upto(m - 1, f)
    BY <1>2
  <2> DEFINE v == step[m][f[m - 1]]
             g == [i \in 0..m |-> IF i = m THEN v ELSE f[i]]
  <2>2. m - 1 \in 0..(m - 1) /\ f[m - 1] \in X
    BY <2>1
  <2>3. v \in X
    <3>1. step[m] \in [X -> X]
      OBVIOUS
    <3> QED
      BY <3>1, <2>2
  <2> HIDE DEF v
  <2>4. g \in [0..m -> X] /\ g[m] = v /\ \A i \in 0..(m - 1) : g[i] = f[i]
    <3>1. \A i \in 0..m : i # m => i \in 0..(m - 1)
      OBVIOUS
    <3>2. \A i \in 0..m : g[i] \in X
      BY <3>1, <2>1, <2>3
    <3> QED
      BY <3>2
  <2> HIDE DEF g
  <2>5. ASSUME NEW k \in 1..m PROVE g[k] = step[k][g[k - 1]]
    <3>1. CASE k = m
      <4>1. g[k - 1] = f[m - 1]
        BY <3>1, <2>4
      <4> QED
        BY <4>1, <3>1, <2>4 DEF v
    <3>2. CASE k # m
      <4>1. k \in 1..(m - 1) /\ k \in 0..(m - 1) /\ k - 1 \in 0..(m - 1)
        BY <3>2
      <4> QED
        BY <4>1, <2>1, <2>4 DEF FollowsSteps
    <3> QED
      BY <3>1, <3>2
  <2>6. g[0] = first
    BY <2>1, <2>4 DEF FollowsSteps
  <2>7. Upto(m, g) /\ m \in 0..n
    BY <2>4, <2>5, <2>6 DEF FollowsSteps
  <2> HIDE DEF Upto
  <2> QED
    BY <2>4, <2>7
<1> HIDE DEF Good
<1>3. n \in Good
  <2>1. n \in 0..n
    OBVIOUS
  <2> QED
    BY <2>1, <1>1, <1>2, StepByStep
<1> QED
  BY <1>3 DEF Good

(***************************************************************************)
(* Sequences of nodes.                                                     *)
(***************************************************************************)

\* No name is there twice.
Distinct(s) == \A j, k \in DOMAIN s : s[j].name = s[k].name => j = k

LEMMA NodesJoined ==
    ASSUME NEW s \in Seq(Node), NEW t \in Seq(Node)
    PROVE  /\ s \o t \in Seq(Node)
           /\ ToSet(s \o t) = ToSet(s) \cup ToSet(t)
           /\ /\ Distinct(s) /\ Distinct(t)
              /\ \A d \in ToSet(s), e \in ToSet(t) : d.name # e.name
              => Distinct(s \o t)
<1> DEFINE m == Len(s)
           n == Len(t)
           st == s \o t
<1>1. /\ m \in Nat /\ n \in Nat /\ DOMAIN s = 1..m /\ DOMAIN t = 1..n
      /\ st \in Seq(Node) /\ DOMAIN st = 1..(m + n)
      /\ \A i \in 1..m : st[i] = s[i]
      /\ \A i \in 1..n : st[m + i] = t[i]
  OBVIOUS
<1>2. \A i \in 1..(m + n) : i \in 1..m \/ (i - m \in 1..n /\ st[i] = t[i - m])
  <2>1. ASSUME NEW i \in 1..(m + n), i \notin 1..m PROVE i - m \in 1..n /\ m + (i - m) = i
    BY <1>1, <2>1
  <2> QED
    BY <1>1, <2>1
<1>3. \A i \in 1..n : m + i \in 1..(m + n)
  BY <1>1
<1>4. \A i \in 1..m : i \in 1..(m + n)
  BY <1>1
<1> HIDE DEF m, n, st
<1>5. ToSet(st) = ToSet(s) \cup ToSet(t)
  <2>1. ToSet(st) \subseteq ToSet(s) \cup ToSet(t)
    <3>1. ASSUME NEW i \in 1..(m + n) PROVE st[i] \in ToSet(s) \cup ToSet(t)
      BY <1>1, <1>2 DEF ToSet
    <3> QED
      BY <3>1, <1>1 DEF ToSet
  <2>2. ToSet(s) \subseteq ToSet(st)
    BY <1>1, <1>4 DEF ToSet
  <2>3. ToSet(t) \subseteq ToSet(st)
    BY <1>1, <1>3 DEF ToSet
  <2> QED
    BY <2>1, <2>2, <2>3
<1>6. ASSUME Distinct(s), Distinct(t), \A d \in ToSet(s), e \in ToSet(t) : d.name # e.name
      PROVE  Distinct(st)
  <2>1. \A i \in 1..m, j \in 1..n : s[i].name # t[j].name
    BY <1>1, <1>6 DEF ToSet
  <2>2. ASSUME NEW j \in 1..(m + n), NEW k \in 1..(m + n), st[j].name = st[k].name PROVE j = k
    <3>1. CASE j \in 1..m /\ k \in 1..m
      BY <3>1, <2>2, <1>1, <1>6 DEF Distinct
    <3>2. CASE j \notin 1..m /\ k \notin 1..m
      <4>1. t[j - m].name = t[k - m].name /\ j - m \in 1..n /\ k - m \in 1..n
        BY <3>2, <2>2, <1>2
      <4>2. j - m = k - m
        BY <4>1, <1>1, <1>6 DEF Distinct
      <4> QED
        BY <4>2, <1>1
    <3>3. CASE j \in 1..m /\ k \notin 1..m
      BY <3>3, <2>1, <2>2, <1>1, <1>2
    <3>4. CASE j \notin 1..m /\ k \in 1..m
      BY <3>4, <2>1, <2>2, <1>1, <1>2
    <3> QED
      BY <3>1, <3>2, <3>3, <3>4
  <2> QED
    BY <2>2, <1>1 DEF Distinct
<1> QED
  BY <1>1, <1>5, <1>6 DEF st

LEMMA OneNode ==
    ASSUME NEW e \in Node
    PROVE  <<e>> \in Seq(Node) /\ ToSet(<<e>>) = {e} /\ Distinct(<<e>>)
<1>1. <<e>> \in Seq(Node) /\ DOMAIN <<e>> = 1..1 /\ <<e>>[1] = e
  OBVIOUS
<1> QED
  BY <1>1 DEF ToSet, Distinct

LEMMA NoNodes == <<>> \in Seq(Node) /\ ToSet(<<>>) = {} /\ Distinct(<<>>)
<1>1. <<>> \in Seq(Node) /\ DOMAIN <<>> = {}
  OBVIOUS
<1> QED
  BY <1>1 DEF ToSet, Distinct

LEMMA SetOfNodes ==
    ASSUME NEW s \in Seq(Node)
    PROVE  ToSet(s) \subseteq Node /\ \A k \in 1..Len(s) : s[k] \in ToSet(s)
BY DEF ToSet

LEMMA NodeFields ==
    ASSUME NEW e \in Node
    PROVE  /\ e.name \in Names /\ Hash[e.name] \in Nat
           /\ e.orig_index \in Indices \cup {NoIndex} /\ e.current_index \in Indices \cup {NoIndex}
BY DEF Node

(***************************************************************************)
(* What FlattenSeq makes of pieces of chains.                              *)
(***************************************************************************)

\* A name is in one piece only, and there once.
DistinctPieces(n, piece) ==
    /\ \A k \in 1..n : Distinct(piece[k])
    /\ \A j, k \in 1..n : \A d \in ToSet(piece[j]), e \in ToSet(piece[k]) : d.name = e.name => j = k

LEMMA FlattenIs ==
    ASSUME NEW n \in Nat, NEW piece \in [1..n -> Seq(Node)]
    PROVE  /\ FlattenSeq(piece) \in Seq(Node)
           /\ ToSet(FlattenSeq(piece)) = UNION {ToSet(piece[k]) : k \in 1..n}
           /\ DistinctPieces(n, piece) => Distinct(FlattenSeq(piece))
<1>1. Len(piece) = n
  OBVIOUS
<1>2. CASE n = 0
  <2>1. FlattenSeq(piece) = piece
    BY <1>1, <1>2 DEF FlattenSeq
  <2>2. piece \in Seq(Node) /\ DOMAIN piece = {}
    BY <1>2
  <2>3. 1..n = {}
    BY <1>2
  <2>4. ToSet(piece) = {} /\ Distinct(piece)
    BY <2>2 DEF ToSet, Distinct
  <2> QED
    BY <2>1, <2>2, <2>3, <2>4
<1>3. CASE n # 0
  <2> DEFINE body(f) == [i \in 1..n |-> IF i = 1 THEN piece[i] ELSE f[i - 1] \o piece[i]]
             flat == CHOOSE f : f = body(f)
             first == piece[1]
             step == [k \in 1..(n - 1) |-> [s \in Seq(Node) |-> s \o piece[k + 1]]]
  <2>1. n - 1 \in Nat /\ first \in Seq(Node) /\ \A k \in 1..n : piece[k] \in Seq(Node)
    BY <1>3
  <2>2. step \in [1..(n - 1) -> [Seq(Node) -> Seq(Node)]]
    <3>1. ASSUME NEW k \in 1..(n - 1), NEW s \in Seq(Node) PROVE s \o piece[k + 1] \in Seq(Node)
      <4>1. piece[k + 1] \in Seq(Node)
        <5>1. k + 1 \in 1..n
          OBVIOUS
        <5> QED
          BY <5>1
      <4> QED
        BY <4>1, NodesJoined
    <3> QED
      BY <3>1
  <2>3. PICK f \in [0..(n - 1) -> Seq(Node)] : FollowsSteps(f, n - 1, first, step)
    <3> DEFINE m == n - 1
    <3>1. m \in Nat /\ step \in [1..m -> [Seq(Node) -> Seq(Node)]]
      BY <2>1, <2>2
    <3> HIDE DEF m, first, step
    <3>2. \E f \in [0..m -> Seq(Node)] : FollowsSteps(f, m, first, step)
      BY <3>1, <2>1, StepsExist
    <3> QED
      BY <3>2 DEF m
  <2> DEFINE g == [i \in 1..n |-> f[i - 1]]
  <2>4. \A i \in 1..n : g[i] = IF i = 1 THEN piece[i] ELSE g[i - 1] \o piece[i]
    <3>1. ASSUME NEW i \in 1..n, i # 1 PROVE g[i] = g[i - 1] \o piece[i]
      <4> DEFINE k == i - 1
      <4>1. k \in 1..(n - 1) /\ k \in 1..n /\ k - 1 \in 0..(n - 1) /\ k + 1 = i
        BY <3>1
      <4>2. f[k] = step[k][f[k - 1]]
        BY <4>1, <2>3 DEF FollowsSteps
      <4>3. f[k - 1] \in Seq(Node)
        BY <4>1, <2>3
      <4>4. step[k][f[k - 1]] = f[k - 1] \o piece[i]
        <5> HIDE DEF k
        <5> QED
          BY <4>1, <4>3
      <4>5. g[i] = f[k] /\ g[k] = f[k - 1]
        <5>1. g[k] = f[k - 1]
          <6> HIDE DEF k
          <6> QED
            BY <4>1
        <5> QED
          BY <5>1
      <4> QED
        BY <4>2, <4>4, <4>5
    <3>2. g[1] = piece[1] /\ 1 \in 1..n
      BY <1>3, <2>3 DEF FollowsSteps
    <3> HIDE DEF g
    <3> QED
      BY <3>1, <3>2
  <2>5. g = body(g)
    <3>1. \A i \in 1..n : g[i] = body(g)[i]
      BY <2>4
    <3>2. g = [i \in 1..n |-> g[i]] /\ body(g) = [i \in 1..n |-> body(g)[i]]
      OBVIOUS
    <3> HIDE DEF g, body
    <3> QED
      BY <3>1, <3>2
  <2>6. flat = body(flat)
    BY <2>5
  <2>7. FlattenSeq(piece) = flat[n]
    BY <1>1, <1>3 DEF FlattenSeq
  <2>8. \A i \in 1..n : flat[i] = IF i = 1 THEN piece[i] ELSE flat[i - 1] \o piece[i]
    <3> HIDE DEF flat
    <3> QED
      BY <2>6
  <2> HIDE DEF body, flat, first, step, g
  <2> DEFINE Upto(k) == UNION {ToSet(piece[i]) : i \in 1..k}
             Right(k) == /\ flat[k] \in Seq(Node) /\ ToSet(flat[k]) = Upto(k)
                         /\ DistinctPieces(n, piece) => Distinct(flat[k])
             Good == {k \in 0..n : k = 0 \/ Right(k)}
  <2>9. ASSUME NEW k \in 1..n, k - 1 \in Good PROVE k \in Good
    <3>1. CASE k = 1
      <4>1. flat[k] = piece[k] /\ 1..k = {k} /\ k \in 0..n
        BY <3>1, <2>8
      <4>2. Upto(k) = ToSet(piece[k])
        BY <4>1
      <4> HIDE DEF Upto
      <4> QED
        BY <4>1, <4>2, <2>1 DEF DistinctPieces
    <3>2. CASE k # 1
      <4>1. Right(k - 1) /\ k \in 0..n /\ 1..k = 1..(k - 1) \cup {k} /\ k - 1 \in 1..n
        BY <3>2, <2>9
      <4>2. Upto(k) = Upto(k - 1) \cup ToSet(piece[k])
        BY <4>1
      <4>3. flat[k] = flat[k - 1] \o piece[k]
        BY <3>2, <2>8
      <4>4. ASSUME DistinctPieces(n, piece) PROVE \A d \in Upto(k - 1), e \in ToSet(piece[k]) : d.name # e.name
        <5>1. \A i \in 1..(k - 1) : i \in 1..n /\ i # k
          OBVIOUS
        <5> QED
          BY <4>4, <5>1 DEF DistinctPieces
      <4> DEFINE s == flat[k - 1]
                 t == piece[k]
      <4>5. s \in Seq(Node) /\ t \in Seq(Node) /\ ToSet(s) = Upto(k - 1)
        BY <4>1, <2>1
      <4>6. DistinctPieces(n, piece) => Distinct(s) /\ Distinct(t)
        BY <4>1 DEF DistinctPieces
      <4>7. Right(k)
        <5> HIDE DEF Upto, s, t
        <5>1. s \o t \in Seq(Node) /\ ToSet(s \o t) = Upto(k)
          BY <4>2, <4>5, NodesJoined DEF t
        <5>2. DistinctPieces(n, piece) => Distinct(s \o t)
          BY <4>4, <4>5, <4>6, NodesJoined DEF t
        <5> QED
          BY <5>1, <5>2, <4>3 DEF s, t
      <4> HIDE DEF Right
      <4> QED
        BY <4>1, <4>7
    <3> QED
      BY <3>1, <3>2
  <2>10. n \in Good
    <3>1. 0 \in Good /\ n \in 0..n
      OBVIOUS
    <3> HIDE DEF Good
    <3> QED
      BY <3>1, <2>9, StepByStep
  <2> QED
    BY <2>10, <2>7, <1>3
<1> QED
  BY <1>2, <1>3

(***************************************************************************)
(* Tables: each name has one node at most, in the chain of its bucket.     *)
(***************************************************************************)

InBucket(e, size, b) == Hash[e.name] % size = b

IsTable(size, t) ==
    /\ t \in [0..(size - 1) -> Seq(Node)]
    /\ \A b \in 0..(size - 1) : Distinct(t[b]) /\ \A e \in ToSet(t[b]) : InBucket(e, size, b)

NodesOf(size, t) == UNION {ToSet(t[b]) : b \in 0..(size - 1)}

\* A table of some size that holds these nodes.
Holds(size, t, nodes) == size \in Nat /\ IsTable(size, t) /\ NodesOf(size, t) = nodes

\* Each node in bucket b is moved, and no other.
LEMMA MovedIs ==
    ASSUME NEW nodes \in Seq(Node), NEW size, NEW b
    PROVE  /\ Moved(nodes, size, b) \in Seq(Node)
           /\ ToSet(Moved(nodes, size, b)) = {e \in ToSet(nodes) : InBucket(e, size, b)}
           /\ Distinct(nodes) => Distinct(Moved(nodes, size, b))
<1> DEFINE n == Len(nodes)
           from(k) == nodes[n + 1 - k]
           goes(k) == Hash[from(k).name] % size = b
           piece == [k \in DOMAIN nodes |-> IF goes(k) THEN <<from(k)>> ELSE <<>>]
<1>1. n \in Nat /\ DOMAIN nodes = 1..n /\ \A k \in 1..n : nodes[k] \in Node
  OBVIOUS
<1>2. \A k \in 1..n : n + 1 - k \in 1..n /\ n + 1 - (n + 1 - k) = k
  BY <1>1
<1>3. \A k \in 1..n : from(k) \in Node /\ from(k) \in ToSet(nodes)
  BY <1>1, <1>2 DEF ToSet
<1>4. Moved(nodes, size, b) = FlattenSeq(piece)
  BY DEF Moved
<1> HIDE DEF n, from, goes
<1>5. piece \in [1..n -> Seq(Node)]
  <2>1. \A k \in 1..n : <<from(k)>> \in Seq(Node)
    BY <1>3, OneNode
  <2> QED
    BY <2>1, <1>1, NoNodes
<1>6. \A k \in 1..n : /\ Distinct(piece[k])
                      /\ ToSet(piece[k]) = IF goes(k) THEN {from(k)} ELSE {}
  <2>1. \A k \in 1..n : ToSet(<<from(k)>>) = {from(k)} /\ Distinct(<<from(k)>>)
    BY <1>3, OneNode
  <2> QED
    BY <2>1, <1>1, NoNodes
<1> HIDE DEF piece
<1>7. UNION {ToSet(piece[k]) : k \in 1..n} = {e \in ToSet(nodes) : InBucket(e, size, b)}
  <2>1. ASSUME NEW k \in 1..n, NEW e \in ToSet(piece[k])
        PROVE  e \in ToSet(nodes) /\ InBucket(e, size, b)
    BY <1>3, <1>6, <2>1 DEF goes, InBucket
  <2>2. ASSUME NEW e \in ToSet(nodes), InBucket(e, size, b)
        PROVE  \E k \in 1..n : e \in ToSet(piece[k])
    <3>1. PICK i \in 1..n : e = nodes[i]
      BY <1>1 DEF ToSet
    <3> DEFINE k == n + 1 - i
    <3>2. k \in 1..n /\ from(k) = e
      BY <3>1, <1>2 DEF from
    <3> HIDE DEF k
    <3> QED
      BY <2>2, <3>2, <1>6 DEF goes, InBucket
  <2> QED
    BY <2>1, <2>2
<1>8. Distinct(nodes) => DistinctPieces(n, piece)
  <2>1. ASSUME Distinct(nodes), NEW j \in 1..n, NEW k \in 1..n,
               NEW d \in ToSet(piece[j]), NEW e \in ToSet(piece[k]), d.name = e.name
        PROVE  j = k
    <3>1. d = nodes[n + 1 - j] /\ e = nodes[n + 1 - k]
      BY <1>6 DEF from
    <3>2. n + 1 - j = n + 1 - k
      BY <2>1, <3>1, <1>1, <1>2 DEF Distinct
    <3> QED
      BY <3>2, <1>1
  <2> QED
    BY <2>1, <1>6 DEF DistinctPieces
<1> QED
  BY <1>1, <1>4, <1>5, <1>7, <1>8, FlattenIs

\* The nodes of a table, bucket by bucket.
LEMMA AllNodesIs ==
    ASSUME NEW size \in Nat, NEW t, IsTable(size, t)
    PROVE  /\ AllNodes(size, t) \in Seq(Node)
           /\ ToSet(AllNodes(size, t)) = NodesOf(size, t)
           /\ Distinct(AllNodes(size, t))
<1> DEFINE piece == [k \in 1..size |-> t[k - 1]]
<1>1. \A k \in 1..size : k - 1 \in 0..(size - 1)
  OBVIOUS
<1>2. piece \in [1..size -> Seq(Node)] /\ \A k \in 1..size : piece[k] = t[k - 1]
  BY <1>1 DEF IsTable
<1>3. AllNodes(size, t) = FlattenSeq(piece)
  BY DEF AllNodes
<1> HIDE DEF piece
<1>4. DistinctPieces(size, piece)
  <2>1. ASSUME NEW j \in 1..size, NEW k \in 1..size,
               NEW d \in ToSet(piece[j]), NEW e \in ToSet(piece[k]), d.name = e.name
        PROVE  j = k
    <3>1. InBucket(d, size, j - 1) /\ InBucket(e, size, k - 1)
      BY <1>1, <1>2 DEF IsTable
    <3>2. j - 1 = k - 1
      BY <2>1, <3>1 DEF InBucket
    <3> QED
      BY <3>2
  <2>2. \A k \in 1..size : Distinct(piece[k])
    BY <1>1, <1>2 DEF IsTable
  <2> QED
    BY <2>1, <2>2 DEF DistinctPieces
<1>5. UNION {ToSet(piece[k]) : k \in 1..size} = NodesOf(size, t)
  <2>1. \A b \in 0..(size - 1) : b + 1 \in 1..size /\ piece[b + 1] = t[b]
    BY <1>2
  <2> QED
    BY <2>1, <1>1, <1>2 DEF NodesOf
<1> QED
  BY <1>2, <1>3, <1>4, <1>5, FlattenIs

LEMMA BucketOf ==
    ASSUME NEW size \in Nat \ {0}, NEW n \in Names
    PROVE  Hash[n] % size \in 0..(size - 1)
<1>1. Hash[n] \in Nat
  OBVIOUS
<1> QED
  BY <1>1

LEMMA ResizedIs ==
    ASSUME NEW size \in Nat, NEW t, IsTable(size, t), NEW new_size \in Nat \ {0}
    PROVE  Holds(new_size, Resized(size, t, new_size), NodesOf(size, t))
<1> DEFINE all == AllNodes(size, t)
           r == Resized(size, t, new_size)
<1>1. all \in Seq(Node) /\ ToSet(all) = NodesOf(size, t) /\ Distinct(all)
  BY AllNodesIs
<1>2. r = [b \in 0..(new_size - 1) |-> Moved(all, new_size, b)]
  BY DEF Resized
<1> HIDE DEF all, r
<1>3. \A b \in 0..(new_size - 1) :
         /\ r[b] \in Seq(Node) /\ Distinct(r[b])
         /\ ToSet(r[b]) = {e \in NodesOf(size, t) : InBucket(e, new_size, b)}
  BY <1>1, <1>2, MovedIs
<1>4. IsTable(new_size, r)
  BY <1>2, <1>3 DEF IsTable
<1>5. NodesOf(new_size, r) = NodesOf(size, t)
  <2>1. ASSUME NEW e \in NodesOf(size, t)
        PROVE  \E b \in 0..(new_size - 1) : InBucket(e, new_size, b)
    <3>1. e \in Node
      BY <1>1, SetOfNodes
    <3> QED
      BY <3>1, NodeFields, BucketOf DEF InBucket
  <2> DEFINE old == NodesOf(size, t)
  <2> HIDE DEF old
  <2>2. UNION {ToSet(r[b]) : b \in 0..(new_size - 1)} = old
    BY <2>1, <1>3 DEF old
  <2> QED
    BY <2>2 DEF NodesOf, old
<1> QED
  BY <1>4, <1>5 DEF Holds, r

\* A table that has no buckets yet becomes an empty one.
LEMMA FirstResizedIs ==
    ASSUME NEW size \in Nat \ {0}
    PROVE  Holds(size, Resized(0, <<>>, size), {})
<1>1. <<>> \in [0..(0 - 1) -> Seq(Node)] /\ 0..(0 - 1) = {}
  OBVIOUS
<1>2. IsTable(0, <<>>) /\ NodesOf(0, <<>>) = {}
  BY <1>1 DEF IsTable, NodesOf
<1> QED
  BY <1>2, ResizedIs

(***************************************************************************)
(* Chains that change.                                                     *)
(***************************************************************************)

Swapped(nodes, d, e) == (nodes \ {d}) \cup {e}
Without(nodes, d) == nodes \ {d}

\* One node of a chain becomes another with the same name.
LEMMA ChainUpdated ==
    ASSUME NEW s \in Seq(Node), Distinct(s), NEW k \in DOMAIN s, NEW e \in Node, e.name = s[k].name,
           NEW t, t = [s EXCEPT ![k] = e]
    PROVE  t \in Seq(Node) /\ Distinct(t) /\ ToSet(t) = Swapped(ToSet(s), s[k], e)
<1> DEFINE n == Len(s)
<1>1. /\ n \in Nat /\ DOMAIN s = 1..n /\ DOMAIN t = 1..n /\ k \in 1..n
      /\ t \in Seq(Node) /\ t[k] = e /\ \A i \in 1..n : i # k => t[i] = s[i]
  OBVIOUS
<1> HIDE DEF n
<1>2. \A i, j \in 1..n : s[i].name = s[j].name => i = j
  BY <1>1 DEF Distinct
<1>3. \A i \in 1..n : t[i].name = s[i].name
  BY <1>1
<1>4. Distinct(t)
  BY <1>1, <1>2, <1>3 DEF Distinct
<1>5. ToSet(t) = (ToSet(s) \ {s[k]}) \cup {e}
  <2>1. \A i \in 1..n : i # k => t[i] \in ToSet(s) \ {s[k]}
    BY <1>1, <1>2 DEF ToSet
  <2>2. \A d \in ToSet(s) \ {s[k]} : d \in ToSet(t)
    BY <1>1 DEF ToSet
  <2>3. e \in ToSet(t) /\ \A i \in 1..n : i = k => t[i] = e
    BY <1>1 DEF ToSet
  <2> QED
    BY <2>1, <2>2, <2>3, <1>1 DEF ToSet
<1> QED
  BY <1>1, <1>4, <1>5 DEF Swapped

\* One node of a chain is taken out of it.
LEMMA ChainUnlinked ==
    ASSUME NEW s \in Seq(Node), Distinct(s), NEW k \in DOMAIN s
    PROVE  /\ Unlinked(s, k) \in Seq(Node) /\ Distinct(Unlinked(s, k))
           /\ ToSet(Unlinked(s, k)) = ToSet(s) \ {s[k]}
<1> DEFINE n == Len(s)
           before == SubSeq(s, 1, k - 1)
           after == SubSeq(s, k + 1, n)
<1>1. n \in Nat /\ DOMAIN s = 1..n /\ k \in 1..n
  OBVIOUS
<1>2. before \in Seq(Node) /\ DOMAIN before = 1..(k - 1) /\ \A i \in 1..(k - 1) : before[i] = s[i]
  OBVIOUS
<1>3. after \in Seq(Node) /\ DOMAIN after = 1..(n - k) /\ \A i \in 1..(n - k) : after[i] = s[k + i]
  OBVIOUS
<1>4. Unlinked(s, k) = before \o after
  BY DEF Unlinked, RemoveAt
<1> HIDE DEF n, before, after
<1>5. \A i \in 1..n : i < k => i \in 1..(k - 1)
  BY <1>1
<1>6. \A i \in 1..n : i > k => i - k \in 1..(n - k) /\ k + (i - k) = i
  BY <1>1
<1>7. \A i \in 1..(k - 1) : i \in 1..n /\ i # k
  BY <1>1
<1>8. \A i \in 1..(n - k) : k + i \in 1..n /\ k + i # k
  BY <1>1
<1>9. \A i, j \in 1..n : s[i].name = s[j].name => i = j
  BY <1>1 DEF Distinct
<1>10. ToSet(before) \cup ToSet(after) = ToSet(s) \ {s[k]}
  <2>1. \A i \in 1..n : i # k => s[i] \in ToSet(before) \cup ToSet(after)
    <3>1. ASSUME NEW i \in 1..n, i < k PROVE s[i] \in ToSet(before)
      BY <3>1, <1>2, <1>5 DEF ToSet
    <3>2. ASSUME NEW i \in 1..n, i > k PROVE s[i] \in ToSet(after)
      BY <3>2, <1>3, <1>6 DEF ToSet
    <3> QED
      BY <3>1, <3>2, <1>1
  <2>2. \A i \in 1..n : i # k => s[i] \in ToSet(s) \ {s[k]}
    BY <1>1, <1>9 DEF ToSet
  <2>3. ToSet(before) \subseteq ToSet(s) \ {s[k]}
    BY <2>2, <1>2, <1>7 DEF ToSet
  <2>4. ToSet(after) \subseteq ToSet(s) \ {s[k]}
    BY <2>2, <1>3, <1>8 DEF ToSet
  <2>5. ToSet(s) \ {s[k]} \subseteq ToSet(before) \cup ToSet(after)
    BY <2>1, <1>1 DEF ToSet
  <2> QED
    BY <2>3, <2>4, <2>5
<1>11. Distinct(before)
  BY <1>2, <1>7, <1>9 DEF Distinct
<1>12. Distinct(after)
  <2>1. ASSUME NEW i \in 1..(n - k), NEW j \in 1..(n - k), after[i].name = after[j].name PROVE i = j
    <3>1. k + i = k + j
      BY <2>1, <1>3, <1>8, <1>9
    <3> QED
      BY <3>1, <1>1
  <2> QED
    BY <2>1, <1>3 DEF Distinct
<1>13. \A d \in ToSet(before), e \in ToSet(after) : d.name # e.name
  <2>1. ASSUME NEW i \in 1..(k - 1), NEW j \in 1..(n - k) PROVE before[i].name # after[j].name
    <3>1. i # k + j
      BY <1>1
    <3> QED
      BY <3>1, <1>2, <1>3, <1>7, <1>8, <1>9
  <2> QED
    BY <2>1, <1>2, <1>3 DEF ToSet
<1> QED
  BY <1>2, <1>3, <1>4, <1>10, <1>11, <1>12, <1>13, NodesJoined

\* What an entry looks like when the table is taken back.
Restored(e) == [e EXCEPT !.current_index = e.orig_index]

LEMMA RestoredIs ==
    ASSUME NEW e \in Node
    PROVE  /\ Restored(e) \in Node /\ Restored(e).name = e.name
           /\ Restored(e).orig_index = e.orig_index /\ Restored(e).current_index = e.orig_index
BY DEF Restored, Node

LEMMA ChainReverted ==
    ASSUME NEW s \in Seq(Node)
    PROVE  /\ RevertedChain(s) \in Seq(Node)
           /\ ToSet(RevertedChain(s)) = {Restored(e) : e \in {e \in ToSet(s) : e.orig_index # NoIndex}}
           /\ Distinct(s) => Distinct(RevertedChain(s))
<1> DEFINE n == Len(s)
           piece == [k \in DOMAIN s |-> IF s[k].orig_index = NoIndex THEN <<>> ELSE <<Restored(s[k])>>]
<1>1. n \in Nat /\ DOMAIN s = 1..n /\ \A k \in 1..n : s[k] \in Node
  OBVIOUS
<1>2. RevertedChain(s) = FlattenSeq(piece)
  BY DEF RevertedChain, Restored
<1> HIDE DEF n
<1>3. \A k \in 1..n : /\ <<Restored(s[k])>> \in Seq(Node) /\ Distinct(<<Restored(s[k])>>)
                      /\ ToSet(<<Restored(s[k])>>) = {Restored(s[k])}
  BY <1>1, RestoredIs, OneNode
<1>4. piece \in [1..n -> Seq(Node)]
  BY <1>1, <1>3, NoNodes
<1>5. \A k \in 1..n : /\ Distinct(piece[k])
                      /\ ToSet(piece[k]) = IF s[k].orig_index = NoIndex THEN {} ELSE {Restored(s[k])}
  BY <1>1, <1>3, NoNodes
<1> HIDE DEF piece
<1>6. UNION {ToSet(piece[k]) : k \in 1..n}
         = {Restored(e) : e \in {e \in ToSet(s) : e.orig_index # NoIndex}}
  <2>1. ASSUME NEW k \in 1..n, NEW d \in ToSet(piece[k])
        PROVE  \E e \in ToSet(s) : e.orig_index # NoIndex /\ d = Restored(e)
    <3>1. s[k] \in ToSet(s) /\ s[k].orig_index # NoIndex /\ d = Restored(s[k])
      BY <1>1, <1>5 DEF ToSet
    <3> QED
      BY <3>1
  <2>2. ASSUME NEW e \in ToSet(s), e.orig_index # NoIndex
        PROVE  \E k \in 1..n : Restored(e) \in ToSet(piece[k])
    <3>1. PICK k \in 1..n : e = s[k]
      BY <1>1 DEF ToSet
    <3> QED
      BY <3>1, <2>2, <1>5
  <2> DEFINE these == {e \in ToSet(s) : e.orig_index # NoIndex}
  <2>3. \A d : (\E k \in 1..n : d \in ToSet(piece[k])) <=> \E e \in these : d = Restored(e)
    BY <2>1, <2>2
  <2> HIDE DEF these
  <2>4. UNION {ToSet(piece[k]) : k \in 1..n} = {Restored(e) : e \in these}
    BY <2>3
  <2> QED
    BY <2>4 DEF these
<1>7. Distinct(s) => DistinctPieces(n, piece)
  <2>1. ASSUME Distinct(s), NEW j \in 1..n, NEW k \in 1..n,
               NEW d \in ToSet(piece[j]), NEW e \in ToSet(piece[k]), d.name = e.name
        PROVE  j = k
    <3>1. d = Restored(s[j]) /\ e = Restored(s[k])
      BY <1>5
    <3>2. s[j].name = s[k].name
      BY <3>1, <2>1, <1>1, RestoredIs
    <3> QED
      BY <3>2, <2>1, <1>1 DEF Distinct
  <2> QED
    BY <2>1, <1>5 DEF DistinctPieces
<1> QED
  BY <1>1, <1>2, <1>4, <1>6, <1>7, FlattenIs

(***************************************************************************)
(* What the operations find in a table and do to it.                       *)
(***************************************************************************)

NamesDiffer(nodes) == \A d, e \in nodes : d.name = e.name => d = e

LEMMA TableNodes ==
    ASSUME NEW size, NEW t, NEW nodes, Holds(size, t, nodes)
    PROVE  /\ nodes \subseteq Node /\ NamesDiffer(nodes) /\ IsFiniteSet(nodes)
           /\ \A b \in 0..(size - 1) : t[b] \in Seq(Node) /\ ToSet(t[b]) \subseteq nodes
<1> DEFINE all == AllNodes(size, t)
<1>1. all \in Seq(Node) /\ ToSet(all) = nodes /\ Distinct(all)
  BY AllNodesIs DEF Holds
<1> HIDE DEF all
<1>2. nodes \subseteq Node
  BY <1>1, SetOfNodes
<1>3. NamesDiffer(nodes)
  BY <1>1 DEF NamesDiffer, Distinct, ToSet
<1>4. IsFiniteSet(nodes)
  <2>1. Len(all) \in Nat /\ DOMAIN all = 1..Len(all)
    BY <1>1
  <2>2. IsFiniteSet(1..Len(all))
    BY <2>1, FS_Interval
  <2>3. nodes = {all[i] : i \in 1..Len(all)}
    BY <1>1, <2>1 DEF ToSet
  <2>4. all \in Surjection(1..Len(all), nodes)
    <3>1. all = [i \in 1..Len(all) |-> all[i]]
      BY <1>1
    <3> QED
      BY <3>1, <2>3 DEF Surjection
  <2> QED
    BY <2>2, <2>4, FS_Surjection
<1>5. ASSUME NEW b \in 0..(size - 1) PROVE t[b] \in Seq(Node) /\ ToSet(t[b]) \subseteq nodes
  BY DEF Holds, IsTable, NodesOf
<1> QED
  BY <1>2, <1>3, <1>4, <1>5

\* The search of a name's bucket finds the node with the name, if there is one.
LEMMA SearchFinds ==
    ASSUME NEW size \in Nat \ {0}, NEW t, NEW nodes, Holds(size, t, nodes), NEW n \in Names
    PROVE  LET b == Hash[n] % size
               k == At(t[b], n)
           IN /\ b \in 0..(size - 1)
              /\ Has(t[b], n) <=> \E e \in nodes : e.name = n
              /\ Has(t[b], n) => k \in DOMAIN t[b] /\ t[b][k].name = n /\ t[b][k] \in nodes
<1> DEFINE b == Hash[n] % size
<1>1. b \in 0..(size - 1)
  BY BucketOf
<1>2. ToSet(t[b]) \subseteq nodes
  BY <1>1, TableNodes
<1>3. Has(t[b], n) => At(t[b], n) \in DOMAIN t[b] /\ t[b][At(t[b], n)].name = n
  BY DEF Has, At
<1>4. ASSUME NEW e \in nodes, e.name = n PROVE Has(t[b], n)
  <2>1. PICK c \in 0..(size - 1) : e \in ToSet(t[c])
    BY DEF Holds, NodesOf
  <2>2. c = b
    BY <2>1, <1>4 DEF Holds, IsTable, InBucket
  <2> QED
    BY <2>1, <2>2, <1>4 DEF Has, ToSet
<1> HIDE DEF b
<1>5. Has(t[b], n) => t[b][At(t[b], n)] \in nodes
  BY <1>2, <1>3 DEF ToSet
<1> QED
  BY <1>1, <1>2, <1>3, <1>4, <1>5 DEF b

\* One chain of the table becomes another.
LEMMA ChainReplaced ==
    ASSUME NEW size, NEW t, NEW nodes, Holds(size, t, nodes), NEW b \in 0..(size - 1),
           NEW chain \in Seq(Node), Distinct(chain), \A e \in ToSet(chain) : InBucket(e, size, b)
    PROVE  Holds(size, [t EXCEPT ![b] = chain], (nodes \ ToSet(t[b])) \cup ToSet(chain))
<1> DEFINE u == [t EXCEPT ![b] = chain]
<1>1. DOMAIN t = 0..(size - 1) /\ \A c \in 0..(size - 1) : t[c] \in Seq(Node)
  BY DEF Holds, IsTable
<1>2. /\ u \in [0..(size - 1) -> Seq(Node)]
      /\ u[b] = chain /\ \A c \in 0..(size - 1) : c # b => u[c] = t[c]
  BY <1>1 DEF Holds, IsTable
<1> HIDE DEF u
<1>3. IsTable(size, u)
  BY <1>2 DEF Holds, IsTable
<1>4. \A c \in 0..(size - 1) : c # b => ToSet(t[c]) \cap ToSet(t[b]) = {}
  BY DEF Holds, IsTable, InBucket
<1>5. NodesOf(size, u) = (nodes \ ToSet(t[b])) \cup ToSet(chain)
  <2>1. nodes = UNION {ToSet(t[c]) : c \in 0..(size - 1)}
    BY DEF Holds, NodesOf
  <2>2. ASSUME NEW e PROVE e \in NodesOf(size, u) <=> e \in (nodes \ ToSet(t[b])) \cup ToSet(chain)
    <3>1. e \in NodesOf(size, u) <=> \E c \in 0..(size - 1) : e \in ToSet(u[c])
      BY DEF NodesOf
    <3>2. e \in nodes <=> \E c \in 0..(size - 1) : e \in ToSet(t[c])
      BY <2>1
    <3> QED
      BY <3>1, <3>2, <1>2, <1>4
  <2> QED
    BY <2>2
<1> QED
  BY <1>3, <1>5 DEF Holds, u

(***************************************************************************)
(* The map of names that a set of nodes stands for.                        *)
(***************************************************************************)

Both(e) == [orig_index |-> e.orig_index, current_index |-> e.current_index]

\* h gives for each name the two indices of its node.
Shows(h, nodes) ==
    /\ h = [n \in Names |-> h[n]]
    /\ \A e \in nodes : h[e.name] = Both(e)
    /\ \A n \in Names : (\A e \in nodes : e.name # n) => h[n] = NoNode

\* Two maps differ at one name at most, if the nodes of all others are the same.
LEMMA OneNameChanges ==
    ASSUME NEW h, NEW nodes, Shows(h, nodes), NEW g, NEW changed, Shows(g, changed), NEW m \in Names,
           \A e : e.name # m => (e \in nodes <=> e \in changed),
           nodes \subseteq Node, changed \subseteq Node
    PROVE  g = [h EXCEPT ![m] = g[m]]
<1>1. ASSUME NEW n \in Names, n # m PROVE g[n] = h[n]
  <2>1. CASE \E e \in nodes : e.name = n
    BY <1>1, <2>1 DEF Shows
  <2>2. CASE \A e \in nodes : e.name # n
    BY <1>1, <2>2 DEF Shows
  <2> QED
    BY <2>1, <2>2
<1>2. DOMAIN h = Names /\ g = [n \in Names |-> g[n]] /\ h = [n \in Names |-> h[n]]
  BY DEF Shows
<1> QED
  BY <1>1, <1>2

LEMMA SameMap ==
    ASSUME NEW h, NEW nodes, Shows(h, nodes), NEW g, Shows(g, nodes), nodes \subseteq Node
    PROVE  g = h
<1>1. ASSUME NEW n \in Names PROVE g[n] = h[n]
  <2>1. CASE \E e \in nodes : e.name = n
    BY <2>1 DEF Shows
  <2>2. CASE \A e \in nodes : e.name # n
    BY <2>2 DEF Shows
  <2> QED
    BY <2>1, <2>2
<1> QED
  BY <1>1 DEF Shows

LEMMA MapOfAdded ==
    ASSUME NEW h, NEW nodes \in SUBSET Node, Shows(h, nodes), NEW e \in Node,
           \A d \in nodes : d.name # e.name, NEW g, Shows(g, nodes \cup {e})
    PROVE  g = [h EXCEPT ![e.name] = Both(e)] /\ h[e.name] = NoNode
<1>1. e.name \in Names
  BY NodeFields
<1>2. h[e.name] = NoNode /\ g[e.name] = Both(e)
  BY <1>1 DEF Shows
<1>3. \A d : d.name # e.name => (d \in nodes <=> d \in nodes \cup {e})
  OBVIOUS
<1>4. g = [h EXCEPT ![e.name] = g[e.name]]
  BY <1>1, <1>3, OneNameChanges
<1> QED
  BY <1>2, <1>4

LEMMA MapOfUpdated ==
    ASSUME NEW h, NEW nodes \in SUBSET Node, NamesDiffer(nodes), Shows(h, nodes), NEW d \in nodes,
           NEW e \in Node, e.name = d.name, NEW g, Shows(g, Swapped(nodes, d, e))
    PROVE  g = [h EXCEPT ![d.name] = Both(e)] /\ h[d.name] = Both(d)
<1>1. d.name \in Names
  BY NodeFields
<1>2. h[d.name] = Both(d) /\ g[d.name] = Both(e)
  BY <1>1 DEF Shows, Swapped
<1>3. \A c : c.name # d.name => (c \in nodes <=> c \in Swapped(nodes, d, e))
  BY DEF Swapped
<1>4. g = [h EXCEPT ![d.name] = g[d.name]]
  <2>1. Swapped(nodes, d, e) \subseteq Node
    BY DEF Swapped
  <2> QED
    BY <1>1, <1>3, <2>1, OneNameChanges
<1> QED
  BY <1>2, <1>4

LEMMA MapOfRemoved ==
    ASSUME NEW h, NEW nodes \in SUBSET Node, NamesDiffer(nodes), Shows(h, nodes), NEW d \in nodes,
           NEW g, Shows(g, Without(nodes, d))
    PROVE  g = [h EXCEPT ![d.name] = NoNode] /\ h[d.name] = Both(d)
<1>1. d.name \in Names
  BY NodeFields
<1>2. h[d.name] = Both(d) /\ g[d.name] = NoNode
  BY <1>1 DEF Shows, NamesDiffer, Without
<1>3. \A c : c.name # d.name => (c \in nodes <=> c \in Without(nodes, d))
  BY DEF Without, NamesDiffer
<1>4. g = [h EXCEPT ![d.name] = g[d.name]]
  <2>1. Without(nodes, d) \subseteq Node
    BY DEF Without
  <2> QED
    BY <1>1, <1>3, <2>1, OneNameChanges
<1> QED
  BY <1>2, <1>4

\* The nodes that are left when the table is taken back.
Kept(nodes) == {Restored(e) : e \in {e \in nodes : e.orig_index # NoIndex}}

LEMMA MapOfReverted ==
    ASSUME NEW h, NEW nodes \in SUBSET Node, NamesDiffer(nodes), Shows(h, nodes),
           NEW g, Shows(g, Kept(nodes))
    PROVE  g = HashRevert(h)
<1>1. ASSUME NEW n \in Names PROVE g[n] = [h[n] EXCEPT !.current_index = h[n].orig_index]
  <2>1. CASE \A e \in nodes : e.name # n
    <3>1. \A e \in Kept(nodes) : e.name # n
      BY <2>1, RestoredIs DEF Kept
    <3>2. g[n] = NoNode /\ h[n] = NoNode
      BY <2>1, <3>1 DEF Shows
    <3> QED
      BY <3>2 DEF NoNode
  <2>2. ASSUME NEW e \in nodes, e.name = n, e.orig_index # NoIndex
        PROVE  g[n] = [h[n] EXCEPT !.current_index = h[n].orig_index]
    <3>1. Restored(e) \in Kept(nodes)
      BY <2>2 DEF Kept
    <3>2. h[n] = Both(e) /\ g[n] = Both(Restored(e))
      BY <2>2, <3>1, RestoredIs DEF Shows
    <3> QED
      BY <3>2, RestoredIs DEF Both
  <2>3. ASSUME NEW e \in nodes, e.name = n, e.orig_index = NoIndex
        PROVE  g[n] = [h[n] EXCEPT !.current_index = h[n].orig_index]
    <3>1. \A d \in Kept(nodes) : d.name # n
      <4>1. ASSUME NEW d \in nodes, d.orig_index # NoIndex PROVE Restored(d).name # n
        BY <4>1, <2>3, RestoredIs DEF NamesDiffer
      <4> QED
        BY <4>1 DEF Kept
    <3>2. h[n] = Both(e) /\ g[n] = NoNode
      BY <2>3, <3>1 DEF Shows
    <3> QED
      BY <3>2, <2>3 DEF Both, NoNode
  <2> QED
    BY <2>1, <2>2, <2>3
<1>2. DOMAIN h = Names /\ g = [n \in Names |-> g[n]]
  BY DEF Shows
<1> QED
  BY <1>1, <1>2 DEF HashRevert

(***************************************************************************)
(* Tables that change.                                                     *)
(***************************************************************************)

LEMMA NodeInserted ==
    ASSUME NEW size \in Nat \ {0}, NEW t, NEW nodes, Holds(size, t, nodes),
           NEW e \in Node, \A d \in nodes : d.name # e.name
    PROVE  Holds(size, [t EXCEPT ![Hash[e.name] % size] = <<e>> \o @], nodes \cup {e})
<1> DEFINE b == Hash[e.name] % size
           chain == <<e>> \o t[b]
<1>1. b \in 0..(size - 1)
  BY NodeFields, BucketOf
<1>2. t[b] \in Seq(Node) /\ Distinct(t[b]) /\ ToSet(t[b]) \subseteq nodes
      /\ \A d \in ToSet(t[b]) : InBucket(d, size, b)
  <2> HIDE DEF b
  <2> QED
    BY <1>1, TableNodes DEF Holds, IsTable
<1>3. InBucket(e, size, b)
  BY DEF InBucket
<1> HIDE DEF b
<1>4. <<e>> \in Seq(Node) /\ ToSet(<<e>>) = {e} /\ Distinct(<<e>>)
  BY OneNode
<1>5. chain \in Seq(Node) /\ ToSet(chain) = {e} \cup ToSet(t[b]) /\ Distinct(chain)
  BY <1>2, <1>4, NodesJoined
<1> HIDE DEF chain
<1>6. Holds(size, [t EXCEPT ![b] = chain], (nodes \ ToSet(t[b])) \cup ToSet(chain))
  BY <1>1, <1>2, <1>3, <1>5, ChainReplaced
<1>7. (nodes \ ToSet(t[b])) \cup ToSet(chain) = nodes \cup {e}
  BY <1>2, <1>5
<1> QED
  BY <1>6, <1>7 DEF b, chain

LEMMA NodeUpdated ==
    ASSUME NEW size \in Nat \ {0}, NEW t, NEW nodes, Holds(size, t, nodes), NEW n \in Names,
           Has(t[Hash[n] % size], n), NEW e \in Node, e.name = n
    PROVE  LET b == Hash[n] % size
               k == At(t[b], n)
           IN Holds(size, [t EXCEPT ![b] = [t[b] EXCEPT ![k] = e]], Swapped(nodes, t[b][k], e))
<1> DEFINE b == Hash[n] % size
           s == t[b]
           k == At(s, n)
           chain == [s EXCEPT ![k] = e]
<1>1. b \in 0..(size - 1) /\ k \in DOMAIN s /\ s[k].name = n /\ s[k] \in nodes
  BY SearchFinds
<1>2. InBucket(e, size, b)
  BY DEF InBucket
<1> HIDE DEF b
<1>3. s \in Seq(Node) /\ Distinct(s) /\ ToSet(s) \subseteq nodes
      /\ \A d \in ToSet(s) : InBucket(d, size, b)
  BY <1>1, TableNodes DEF Holds, IsTable
<1> HIDE DEF s, k
<1>4. chain \in Seq(Node) /\ Distinct(chain) /\ ToSet(chain) = Swapped(ToSet(s), s[k], e)
  <2>1. e.name = s[k].name /\ chain = [s EXCEPT ![k] = e]
    BY <1>1
  <2> HIDE DEF chain
  <2> QED
    BY <2>1, <1>1, <1>3, ChainUpdated
<1> HIDE DEF chain
<1>5. Holds(size, [t EXCEPT ![b] = chain], (nodes \ ToSet(s)) \cup ToSet(chain))
  <2>1. \A d \in ToSet(chain) : InBucket(d, size, b)
    BY <1>2, <1>3, <1>4 DEF Swapped
  <2> QED
    BY <1>1, <1>4, <2>1, ChainReplaced DEF s
<1>6. s[k] \in ToSet(s)
  BY <1>1 DEF ToSet
<1>7. (nodes \ ToSet(s)) \cup ToSet(chain) = (nodes \ {s[k]}) \cup {e}
  BY <1>3, <1>4, <1>6 DEF Swapped
<1> QED
  BY <1>5, <1>7 DEF Swapped, b, s, k, chain

LEMMA NodeRemoved ==
    ASSUME NEW size \in Nat \ {0}, NEW t, NEW nodes, Holds(size, t, nodes), NEW n \in Names,
           Has(t[Hash[n] % size], n)
    PROVE  LET b == Hash[n] % size
               k == At(t[b], n)
           IN Holds(size, [t EXCEPT ![b] = Unlinked(t[b], k)], Without(nodes, t[b][k]))
<1> DEFINE b == Hash[n] % size
           s == t[b]
           k == At(s, n)
           chain == Unlinked(s, k)
<1>1. b \in 0..(size - 1) /\ k \in DOMAIN s /\ s[k].name = n /\ s[k] \in nodes
  BY SearchFinds
<1> HIDE DEF b
<1>2. s \in Seq(Node) /\ Distinct(s) /\ ToSet(s) \subseteq nodes
      /\ \A d \in ToSet(s) : InBucket(d, size, b)
  BY <1>1, TableNodes DEF Holds, IsTable
<1> HIDE DEF s, k
<1>3. chain \in Seq(Node) /\ Distinct(chain) /\ ToSet(chain) = ToSet(s) \ {s[k]}
  BY <1>1, <1>2, ChainUnlinked
<1> HIDE DEF chain
<1>4. Holds(size, [t EXCEPT ![b] = chain], (nodes \ ToSet(s)) \cup ToSet(chain))
  BY <1>1, <1>2, <1>3, ChainReplaced DEF s
<1>5. s[k] \in ToSet(s)
  BY <1>1 DEF ToSet
<1>6. (nodes \ ToSet(s)) \cup ToSet(chain) = nodes \ {s[k]}
  BY <1>2, <1>3, <1>5
<1> QED
  BY <1>4, <1>6 DEF Without, b, s, k, chain

LEMMA NodesReverted ==
    ASSUME NEW size \in Nat, NEW t, NEW nodes, Holds(size, t, nodes)
    PROVE  Holds(size, [b \in 0..(size - 1) |-> RevertedChain(t[b])], Kept(nodes))
<1> DEFINE r == [b \in 0..(size - 1) |-> RevertedChain(t[b])]
<1>1. ASSUME NEW b \in 0..(size - 1)
      PROVE  /\ r[b] \in Seq(Node) /\ Distinct(r[b])
             /\ ToSet(r[b]) = {Restored(e) : e \in {e \in ToSet(t[b]) : e.orig_index # NoIndex}}
             /\ \A e \in ToSet(t[b]) : e \in Node /\ InBucket(e, size, b)
  <2>1. t[b] \in Seq(Node) /\ Distinct(t[b]) /\ \A e \in ToSet(t[b]) : InBucket(e, size, b)
    BY DEF Holds, IsTable
  <2>2. r[b] = RevertedChain(t[b])
    OBVIOUS
  <2> HIDE DEF r
  <2> QED
    BY <2>1, <2>2, ChainReverted, SetOfNodes
<1>2. r \in [0..(size - 1) -> Seq(Node)]
  BY <1>1
<1> HIDE DEF r
<1>3. ASSUME NEW b \in 0..(size - 1), NEW e \in ToSet(r[b]) PROVE InBucket(e, size, b)
  <2>1. PICK d \in ToSet(t[b]) : e = Restored(d)
    BY <1>1
  <2>2. e.name = d.name
    BY <1>1, <2>1, RestoredIs
  <2> QED
    BY <1>1, <2>1, <2>2 DEF InBucket
<1>4. NodesOf(size, r) = Kept(nodes)
  <2>1. nodes = UNION {ToSet(t[b]) : b \in 0..(size - 1)}
    BY DEF Holds, NodesOf
  <2>2. ASSUME NEW e PROVE e \in NodesOf(size, r) <=> e \in Kept(nodes)
    <3>1. e \in NodesOf(size, r) <=> \E b \in 0..(size - 1) : e \in ToSet(r[b])
      BY DEF NodesOf
    <3>2. e \in Kept(nodes) <=> \E d \in nodes : d.orig_index # NoIndex /\ e = Restored(d)
      BY DEF Kept
    <3>3. ASSUME NEW b \in 0..(size - 1)
          PROVE  e \in ToSet(r[b]) <=> \E d \in ToSet(t[b]) : d.orig_index # NoIndex /\ e = Restored(d)
      BY <1>1
    <3> QED
      BY <2>1, <3>1, <3>2, <3>3
  <2> QED
    BY <2>2
<1> QED
  BY <1>1, <1>2, <1>3, <1>4 DEF Holds, IsTable, r

\* Taking the table back frees the nodes of added names, one for each.
LEMMA CountOfKept ==
    ASSUME NEW nodes \in SUBSET Node, IsFiniteSet(nodes), NamesDiffer(nodes)
    PROVE  Cardinality(Kept(nodes)) = Cardinality(nodes) - Cardinality({e \in nodes : e.orig_index = NoIndex})
<1> DEFINE original == {e \in nodes : e.orig_index # NoIndex}
           added == {e \in nodes : e.orig_index = NoIndex}
           f == [e \in original |-> Restored(e)]
<1>1. IsFiniteSet(original) /\ IsFiniteSet(added)
  BY FS_Subset
<1>2. Cardinality(nodes) = Cardinality(original) + Cardinality(added)
  <2>1. nodes = original \cup added /\ original \cap added = {}
    OBVIOUS
  <2> HIDE DEF original, added
  <2>2. Cardinality(original \cup added)
          = Cardinality(original) + Cardinality(added) - Cardinality(original \cap added)
    BY <1>1, FS_Union
  <2>3. Cardinality(nodes) = Cardinality(original) + Cardinality(added) - 0
    BY <2>1, <2>2, FS_EmptySet
  <2>4. Cardinality(original) \in Nat /\ Cardinality(added) \in Nat
    BY <1>1, FS_CardinalityType
  <2> QED
    BY <2>3, <2>4
<1>3. f \in Surjection(original, Kept(nodes))
  BY DEF Surjection, Kept
<1>4. f \in Injection(original, Kept(nodes))
  <2>1. ASSUME NEW d \in original, NEW e \in original, f[d] = f[e] PROVE d = e
    BY <2>1, RestoredIs DEF NamesDiffer
  <2>2. f \in [original -> Kept(nodes)]
    BY DEF Kept
  <2> HIDE DEF f, original
  <2> QED
    BY <2>1, <2>2 DEF Injection, IsInjective
<1> HIDE DEF f, original, added
<1>5. Cardinality(Kept(nodes)) = Cardinality(original)
  BY <1>1, <1>3, <1>4, FS_Surjection
<1> QED
  BY <1>1, <1>2, <1>5, FS_CardinalityType DEF added

(***************************************************************************)
(* The inductive invariant.                                                *)
(***************************************************************************)

Stored == NodesOf(table_size, table)

\* Every node that lookups do not find was freed.
Visible(nodes) == \A e \in nodes : Both(e) # NoNode

TableInv ==
    /\ Holds(table_size, table, Stored)
    /\ nentries = Cardinality(Stored)
    /\ resize_failed \in BOOLEAN
    /\ resize_failed \/ Visible(Stored)

\* What a step leaves in the table.
Leaves(nodes) ==
    /\ Holds(table_size', table', nodes)
    /\ nentries' = Cardinality(nodes)

LEMMA InvariantOfLeft ==
    ASSUME NEW nodes, Leaves(nodes), resize_failed' \in BOOLEAN, resize_failed' \/ Visible(nodes)
    PROVE  TableInv' /\ Stored' = nodes
<1>1. Stored' = nodes
  BY DEF Leaves, Holds, Stored
<1> QED
  BY <1>1 DEF Leaves, TableInv

LEMMA SizesArePositive == MinSize \in Nat \ {0} /\ MaxSize \in Nat \ {0} /\ Sizes \subseteq Nat \ {0}
BY DEF Sizes

LEMMA FirstTableHolds ==
    ASSUME TableInv
    PROVE  FirstSize \in Nat \ {0} /\ Holds(FirstSize, FirstTable, Stored)
<1>1. CASE table_size = 0
  <2>1. 0..(0 - 1) = {}
    OBVIOUS
  <2>2. Stored = {}
    BY <1>1, <2>1 DEF Stored, NodesOf
  <2> QED
    BY <1>1, <2>2, SizesArePositive, FirstResizedIs DEF FirstSize, FirstTable
<1>2. CASE table_size # 0
  BY <1>2 DEF TableInv, Holds, FirstSize, FirstTable
<1> QED
  BY <1>1, <1>2

\* A search finds the name's node, if the table has one.
LEMMA NodeOfName ==
    ASSUME TableInv, NEW n \in Names
    PROVE  LET b == Bucket(n)
               e == NodeOf(n)
           IN /\ HasNode(n) <=> \E d \in Stored : d.name = n
              /\ FindsNode(n) <=> \E d \in Stored : d.name = n
              /\ HasNode(n) => /\ table_size \in Nat \ {0} /\ Has(table[b], n)
                               /\ e \in Stored /\ e \in Node /\ e.name = n /\ IndicesOf(n) = Both(e)
              /\ ~HasNode(n) => IndicesOf(n) = NoNode
<1> DEFINE b == Bucket(n)
           e == NodeOf(n)
<1>1. Stored \subseteq Node /\ IsFiniteSet(Stored) /\ table_size \in Nat
  BY TableNodes DEF TableInv, Holds
<1>2. nentries > 0 <=> Stored # {}
  BY <1>1, FS_EmptySet, FS_CardinalityType DEF TableInv
<1>3. Stored # {} => table_size # 0
  <2>1. 0..(0 - 1) = {}
    OBVIOUS
  <2> QED
    BY <2>1 DEF Stored, NodesOf
<1>4. table_size # 0 => /\ Has(table[b], n) <=> \E d \in Stored : d.name = n
                        /\ Has(table[b], n) => e \in Stored /\ e.name = n
  BY <1>1, SearchFinds DEF TableInv, Bucket, NodeOf
<1>5. IndicesOf(n) = IF HasNode(n) THEN Both(e) ELSE NoNode
  BY DEF IndicesOf, Both
<1> HIDE DEF b, e
<1>6. HasNode(n) <=> nentries > 0 /\ Has(table[b], n)
  BY DEF HasNode, b
<1>7. FindsNode(n) <=> table_size > 0 /\ Has(table[b], n)
  BY DEF FindsNode, b
<1> QED
  BY <1>1, <1>2, <1>3, <1>4, <1>5, <1>6, <1>7 DEF b, e

\* Lookups show the map of the nodes in the table.
LookedUp == [n \in Names |-> IndicesOf(n)]

LEMMA LookupsShow == TableInv => Shows(LookedUp, Stored)
<1> SUFFICES ASSUME TableInv PROVE Shows(LookedUp, Stored)
  OBVIOUS
<1>1. Stored \subseteq Node /\ NamesDiffer(Stored)
  BY TableNodes DEF TableInv
<1>2. ASSUME NEW d \in Stored PROVE LookedUp[d.name] = Both(d)
  <2> DEFINE n == d.name
             e == NodeOf(n)
  <2>1. n \in Names
    BY <1>1, NodeFields
  <2>2. HasNode(n)
    BY <2>1, NodeOfName
  <2>3. e \in Stored /\ e.name = n /\ IndicesOf(n) = Both(e)
    BY <2>1, <2>2, NodeOfName
  <2> HIDE DEF e
  <2>4. e = d
    BY <2>3, <1>1 DEF NamesDiffer
  <2> QED
    BY <2>1, <2>3, <2>4 DEF LookedUp
<1>3. ASSUME NEW n \in Names, \A e \in Stored : e.name # n PROVE LookedUp[n] = NoNode
  BY <1>3, NodeOfName DEF LookedUp
<1> QED
  BY <1>2, <1>3 DEF Shows, LookedUp

(***************************************************************************)
(* What each operation leaves in the table.                                *)
(***************************************************************************)

LEMMA CountsChanged ==
    ASSUME NEW nodes, IsFiniteSet(nodes), NEW e
    PROVE  /\ Cardinality(nodes) \in Nat
           /\ e \notin nodes => Cardinality(nodes \cup {e}) = Cardinality(nodes) + 1
           /\ e \in nodes => Cardinality(nodes \ {e}) = Cardinality(nodes) - 1 /\ IsFiniteSet(nodes \ {e})
BY FS_CardinalityType, FS_AddElement, FS_RemoveElement

LEMMA CountOfSwapped ==
    ASSUME NEW nodes, IsFiniteSet(nodes), NEW d \in nodes, NEW e, e \notin nodes \ {d}
    PROVE  Cardinality(Swapped(nodes, d, e)) = Cardinality(nodes)
<1> DEFINE rest == nodes \ {d}
<1>1. IsFiniteSet(rest) /\ e \notin rest /\ Cardinality(rest) = Cardinality(nodes) - 1
      /\ Cardinality(nodes) \in Nat
  BY CountsChanged
<1>2. Swapped(nodes, d, e) = rest \cup {e}
  BY DEF Swapped
<1> HIDE DEF rest
<1>3. Cardinality(rest \cup {e}) = Cardinality(rest) + 1
  BY <1>1, CountsChanged
<1> QED
  BY <1>1, <1>2, <1>3

LEMMA FirstBucketsLeaves == ASSUME TableInv, FirstBuckets PROVE Leaves(Stored)
BY FirstTableHolds DEF FirstBuckets, Keep, Leaves, TableInv

LEMMA WithIndexIs ==
    ASSUME NEW e \in Node, NEW i \in Indices, NEW unchanged \in BOOLEAN
    PROVE  LET d == WithIndex(e, i, unchanged)
           IN /\ d \in Node /\ d.name = e.name /\ d.current_index = i /\ i # NoIndex
              /\ d.orig_index = IF unchanged THEN i ELSE e.orig_index
<1>1. i # NoIndex /\ i \in Indices \cup {NoIndex}
  BY DEF NoIndex
<1>2. CASE unchanged
  <2>1. WithIndex(e, i, unchanged) = [e EXCEPT !.orig_index = i, !.current_index = i]
    BY <1>2 DEF WithIndex
  <2> QED
    BY <1>1, <1>2, <2>1 DEF Node
<1>3. CASE ~unchanged
  <2>1. WithIndex(e, i, unchanged) = [e EXCEPT !.current_index = i]
    BY <1>3 DEF WithIndex, Node
  <2> QED
    BY <1>1, <1>3, <2>1 DEF Node
<1> QED
  BY <1>2, <1>3

\* A table that is full grows, and holds the same nodes.
LEMMA GrowsOrNot ==
    ASSUME NEW size \in Nat \ {0}, NEW t, NEW nodes, Holds(size, t, nodes),
           NEW new_size \in Nat \ {0}, Keep(size, t) \/ Resize(size, t, new_size)
    PROVE  Holds(table_size', table', nodes)
<1>1. CASE Keep(size, t)
  BY <1>1 DEF Keep
<1>2. CASE Resize(size, t, new_size)
  <2>1. IsTable(size, t) /\ NodesOf(size, t) = nodes
    BY DEF Holds
  <2>2. Holds(new_size, Resized(size, t, new_size), nodes)
    BY <2>1, ResizedIs
  <2> QED
    BY <1>2, <2>2 DEF Resize
<1> QED
  BY <1>1, <1>2

\* A node that the name did not have yet.
LEMMA InsertedLeaves ==
    ASSUME TableInv, NEW e \in Node, ~FindsNode(e.name), nentries' = nentries + 1,
           Keep(FirstSize, Inserted(e)) \/ Resize(FirstSize, Inserted(e), FirstSize * 2)
    PROVE  Leaves(Stored \cup {e}) /\ \A d \in Stored : d.name # e.name
<1>1. \A d \in Stored : d.name # e.name
  BY NodeFields, NodeOfName
<1>2. FirstSize \in Nat \ {0} /\ FirstSize * 2 \in Nat \ {0} /\ Holds(FirstSize, FirstTable, Stored)
  BY FirstTableHolds
<1>3. Holds(FirstSize, Inserted(e), Stored \cup {e})
  BY <1>1, <1>2, NodeInserted DEF Inserted
<1>4. Holds(table_size', table', Stored \cup {e})
  BY <1>2, <1>3, GrowsOrNot
<1>5. nentries' = Cardinality(Stored \cup {e})
  <2>1. IsFiniteSet(Stored) /\ e \notin Stored
    BY <1>1, TableNodes DEF TableInv
  <2> QED
    BY <2>1, CountsChanged DEF TableInv
<1> QED
  BY <1>1, <1>4, <1>5 DEF Leaves

\* The node of a name is replaced.
LEMMA UpdatedLeaves ==
    ASSUME TableInv, NEW n \in Names, HasNode(n), NEW e \in Node, e.name = n,
           UNCHANGED <<table_size, nentries>>, table' = WithNode(n, e)
    PROVE  Leaves(Swapped(Stored, NodeOf(n), e))
<1>1. /\ table_size \in Nat \ {0} /\ Has(table[Bucket(n)], n)
      /\ NodeOf(n) \in Stored /\ NodeOf(n).name = n
  BY NodeOfName
<1>2. Holds(table_size, table', Swapped(Stored, NodeOf(n), e))
  <2> DEFINE b == Hash[n] % table_size
             k == At(table[b], n)
  <2>1. Holds(table_size, table, Stored) /\ Has(table[b], n)
    BY <1>1 DEF TableInv, Bucket
  <2>2. Holds(table_size, [table EXCEPT ![b] = [table[b] EXCEPT ![k] = e]], Swapped(Stored, table[b][k], e))
    BY <1>1, <2>1, NodeUpdated
  <2>3. table' = [table EXCEPT ![b] = [table[b] EXCEPT ![k] = e]]
    BY DEF WithNode, Bucket
  <2> QED
    BY <2>2, <2>3 DEF Bucket, NodeOf
<1>3. Cardinality(Swapped(Stored, NodeOf(n), e)) = Cardinality(Stored)
  <2>1. IsFiniteSet(Stored) /\ NamesDiffer(Stored)
    BY TableNodes DEF TableInv
  <2>2. e \notin Stored \ {NodeOf(n)}
    BY <1>1, <2>1 DEF NamesDiffer
  <2> QED
    BY <1>1, <2>1, <2>2, CountOfSwapped
<1> QED
  BY <1>2, <1>3 DEF Leaves, TableInv

LEMMA AddToNodeLeaves ==
    ASSUME TableInv, NEW n \in Names, NEW i \in Indices, NEW unchanged \in BOOLEAN, AddToNode(n, i, unchanged)
    PROVE  /\ HasNode(n) /\ NodeOf(n) \in Stored /\ NodeOf(n) \in Node /\ NodeOf(n).name = n
           /\ IndicesOf(n) = Both(NodeOf(n))
           /\ Leaves(Swapped(Stored, NodeOf(n), WithIndex(NodeOf(n), i, unchanged)))
<1>1. HasNode(n) /\ NodeOf(n) \in Stored /\ NodeOf(n) \in Node /\ NodeOf(n).name = n
      /\ IndicesOf(n) = Both(NodeOf(n)) /\ table_size \in Nat \ {0}
  BY NodeOfName DEF AddToNode
<1>4. WithIndex(NodeOf(n), i, unchanged) \in Node /\ WithIndex(NodeOf(n), i, unchanged).name = n
  BY <1>1, WithIndexIs
<1>5. Leaves(Swapped(Stored, NodeOf(n), WithIndex(NodeOf(n), i, unchanged)))
  BY <1>1, <1>4, UpdatedLeaves DEF AddToNode
<1> QED
  BY <1>1, <1>5

LEMMA NewNodeIs ==
    ASSUME NEW n \in Names, NEW i \in Indices, NEW unchanged \in BOOLEAN
    PROVE  LET e == NewNode(n, i, unchanged)
           IN /\ e \in Node /\ e.name = n /\ e.current_index = i /\ i # NoIndex
              /\ e.orig_index = IF unchanged THEN i ELSE NoIndex
<1> DEFINE e == [name |-> n, orig_index |-> NoIndex, current_index |-> NoIndex]
<1>1. e \in Node /\ e.name = n /\ e.orig_index = NoIndex
  BY DEF Node
<1>2. NewNode(n, i, unchanged) = WithIndex(e, i, unchanged)
  BY DEF NewNode
<1> HIDE DEF e
<1> QED
  BY <1>1, <1>2, WithIndexIs

LEMMA AddNodeLeaves ==
    ASSUME TableInv, NEW n \in Names, NEW i \in Indices, NEW unchanged \in BOOLEAN, AddNode(n, i, unchanged)
    PROVE  /\ \A d \in Stored : d.name # n
           /\ Leaves(Stored \cup {NewNode(n, i, unchanged)})
<1> DEFINE e == NewNode(n, i, unchanged)
<1>1. e \in Node /\ e.name = n
  BY NewNodeIs
<1>2. ~FindsNode(n) /\ nentries' = nentries + 1
      /\ (Keep(FirstSize, Inserted(e)) \/ Resize(FirstSize, Inserted(e), FirstSize * 2))
  BY DEF AddNode
<1> HIDE DEF e
<1>3. Leaves(Stored \cup {e}) /\ \A d \in Stored : d.name # e.name
  BY <1>1, <1>2, InsertedLeaves
<1> QED
  BY <1>1, <1>3 DEF e

LEMMA AddNodeFailsLeaves ==
    ASSUME TableInv, NEW n \in Names, AddNodeFails(n)
    PROVE  \E e \in Node : Leaves(Stored \cup {e})
<1>1. PICK garbage \in Indices \cup {NoIndex} :
         Keep(FirstSize, Inserted([name |-> n, orig_index |-> NoIndex, current_index |-> garbage]))
  BY DEF AddNodeFails
<1> DEFINE e == [name |-> n, orig_index |-> NoIndex, current_index |-> garbage]
<1>2. e \in Node /\ e.name = n /\ Keep(FirstSize, Inserted(e))
  BY <1>1 DEF Node
<1>3. ~FindsNode(n) /\ nentries' = nentries + 1
  BY DEF AddNodeFails
<1> HIDE DEF e
<1>4. Leaves(Stored \cup {e})
  BY <1>2, <1>3, InsertedLeaves
<1> QED
  BY <1>2, <1>4

\* A node of a name that was opened, whose entry is gone.
Hidden(e) == [e EXCEPT !.current_index = NoIndex]

LEMMA HiddenIs ==
    ASSUME NEW e \in Node
    PROVE  /\ Hidden(e) \in Node /\ Hidden(e).name = e.name
           /\ Hidden(e).orig_index = e.orig_index /\ Hidden(e).current_index = NoIndex
BY DEF Hidden, Node

LEMMA DeleteIndexLeaves ==
    ASSUME TableInv, NEW n \in Names, DeleteIndex(n)
    PROVE  /\ NodeOf(n) \in Stored /\ NodeOf(n) \in Node /\ NodeOf(n).name = n
           /\ IndicesOf(n) = Both(NodeOf(n)) /\ NodeOf(n).orig_index # NoIndex
           /\ Leaves(Swapped(Stored, NodeOf(n), Hidden(NodeOf(n))))
<1>1. HasNode(n) /\ NodeOf(n) \in Stored /\ NodeOf(n) \in Node /\ NodeOf(n).name = n
      /\ IndicesOf(n) = Both(NodeOf(n))
  BY NodeOfName DEF DeleteIndex
<1>2. table' = WithNode(n, Hidden(NodeOf(n)))
  BY DEF DeleteIndex, Hidden
<1>3. Hidden(NodeOf(n)) \in Node /\ Hidden(NodeOf(n)).name = n
  BY <1>1, HiddenIs
<1>4. Leaves(Swapped(Stored, NodeOf(n), Hidden(NodeOf(n))))
  BY <1>1, <1>2, <1>3, UpdatedLeaves DEF DeleteIndex
<1>5. NodeOf(n).orig_index # NoIndex
  BY <1>1 DEF DeleteIndex, Both
<1> QED
  BY <1>1, <1>4, <1>5

LEMMA DeleteNodeLeaves ==
    ASSUME TableInv, NEW n \in Names, DeleteNode(n)
    PROVE  /\ NodeOf(n) \in Stored /\ NodeOf(n) \in Node /\ NodeOf(n).name = n
           /\ IndicesOf(n) = Both(NodeOf(n)) /\ NodeOf(n).orig_index = NoIndex
           /\ Leaves(Without(Stored, NodeOf(n)))
<1>1. /\ table_size \in Nat \ {0} /\ Has(table[Bucket(n)], n)
      /\ NodeOf(n) \in Stored /\ NodeOf(n) \in Node /\ NodeOf(n).name = n
      /\ IndicesOf(n) = Both(NodeOf(n))
  BY NodeOfName DEF DeleteNode
<1>2. NodeOf(n).orig_index = NoIndex
  BY <1>1 DEF DeleteNode, Both
<1>3. Removed(n) = [table EXCEPT ![Bucket(n)] = Unlinked(table[Bucket(n)], At(table[Bucket(n)], n))]
  BY DEF Removed
<1>4. Holds(table_size, Removed(n), Without(Stored, NodeOf(n)))
  <2> DEFINE b == Hash[n] % table_size
             k == At(table[b], n)
  <2>1. Holds(table_size, table, Stored) /\ Has(table[b], n)
    BY <1>1 DEF TableInv, Bucket
  <2>2. Holds(table_size, [table EXCEPT ![b] = Unlinked(table[b], k)], Without(Stored, table[b][k]))
    BY <1>1, <2>1, NodeRemoved
  <2> QED
    BY <1>3, <2>2 DEF Bucket, NodeOf
<1>5. Holds(table_size', table', Without(Stored, NodeOf(n)))
  <2>1. CASE Keep(table_size, Removed(n))
    BY <2>1, <1>1, <1>4, GrowsOrNot
  <2>2. CASE IsSparse(table_size, nentries') /\ Resize(table_size, Removed(n), table_size \div 2)
    <3>1. table_size \div 2 \in Nat \ {0}
      <4>1. table_size > MinSize /\ MinSize \in Nat \ {0} /\ table_size \in Nat
        BY <2>2, <1>1, SizesArePositive DEF IsSparse
      <4>2. table_size >= 2
        BY <4>1
      <4> QED
        BY <4>1, <4>2
    <3> QED
      BY <2>2, <3>1, <1>1, <1>4, GrowsOrNot
  <2> QED
    BY <2>1, <2>2 DEF DeleteNode
<1>6. nentries' = Cardinality(Without(Stored, NodeOf(n)))
  <2>1. IsFiniteSet(Stored)
    BY TableNodes DEF TableInv
  <2> QED
    BY <2>1, <1>1, CountsChanged DEF TableInv, DeleteNode, Without
<1> QED
  BY <1>1, <1>2, <1>5, <1>6 DEF Leaves

\* A size that half or less of the table has, and that the nodes fill.
LEMMA ShrunkSizeIs ==
    ASSUME NEW count \in Nat, table_size \in Nat, IsSparse(table_size, count)
    PROVE  ShrunkSize(count) \in Nat \ {0}
<1> DEFINE S == {s \in Sizes : s < table_size /\ ~IsSparse(s, count)}
           D == {MaxSize - s : s \in S}
<1>1. S \subseteq Sizes /\ Sizes \subseteq 1..MaxSize /\ MaxSize \in Nat
  BY DEF Sizes
<1>2. MinSize \in S
  BY SizesArePositive DEF IsSparse
<1> HIDE DEF S
<1>3. D \in SUBSET Nat /\ D # {}
  <2>1. \A s \in 1..MaxSize : MaxSize - s \in Nat
    BY <1>1
  <2>2. \A s \in S : MaxSize - s \in Nat
    BY <2>1, <1>1
  <2> QED
    BY <2>2, <1>2
<1>4. PICK d \in D : \A x \in D : d <= x
  <2> HIDE DEF D
  <2> QED
    BY <1>3, NatHasLeast
<1>5. \E m \in S : \A s \in S : m >= s
  <2>1. PICK m \in S : d = MaxSize - m
    BY DEF D
  <2>2. ASSUME NEW s \in S PROVE m >= s
    <3>1. MaxSize - m <= MaxSize - s
      BY <1>4, <2>1
    <3> QED
      BY <3>1, <1>1
  <2> QED
    BY <2>2
<1>6. Max(S) \in S
  BY <1>5 DEF Max
<1>7. ShrunkSize(count) = Max(S)
  BY DEF ShrunkSize, S
<1> QED
  BY <1>1, <1>6, <1>7, SizesArePositive

LEMMA SizeForCapacityIs ==
    ASSUME NEW capacity \in Nat
    PROVE  SizeForCapacity(capacity) \in Nat \ {0}
<1> DEFINE needed == (capacity * 100) \div MaxFill
           S == {s \in Sizes : s >= needed}
<1>1. needed \in Nat
  <2>1. capacity * 100 \in Nat /\ MaxFill \in Nat \ {0}
    OBVIOUS
  <2> QED
    BY <2>1
<1>2. S \subseteq Sizes /\ Sizes \subseteq 1..MaxSize /\ MaxSize \in Nat
  BY DEF Sizes
<1>3. CASE needed > MaxSize
  BY <1>3, SizesArePositive DEF SizeForCapacity
<1>4. CASE ~(needed > MaxSize)
  <2> HIDE DEF needed
  <2>1. S \in SUBSET Nat /\ S # {}
    <3>1. MaxSize \in S
      BY <1>1, <1>2, <1>4
    <3>2. S \subseteq Nat
      BY SizesArePositive
    <3> QED
      BY <3>1, <3>2
  <2>2. SizeForCapacity(capacity) = Min(S)
    BY <1>4 DEF SizeForCapacity, needed
  <2> HIDE DEF S
  <2>3. \E m \in S : \A s \in S : m <= s
    BY <2>1, NatHasLeast
  <2>4. Min(S) \in S
    BY <2>3 DEF Min
  <2> QED
    BY <2>2, <2>4, <1>2, SizesArePositive
<1> QED
  BY <1>3, <1>4

LEMMA RevertLeaves ==
    ASSUME TableInv, Revert
    PROVE  Leaves(Kept(Stored))
<1>1. /\ table_size \in Nat /\ IsTable(table_size, table) /\ Holds(table_size, table, Stored)
      /\ IsFiniteSet(Stored) /\ Stored \subseteq Node /\ NamesDiffer(Stored)
  BY TableNodes DEF TableInv, Holds
<1>2. Nodes = Stored
  BY <1>1, AllNodesIs DEF Nodes, Stored
<1>3. nentries' = Cardinality(Kept(Stored))
  BY <1>1, <1>2, CountOfKept DEF Revert, TableInv
<1>4. Holds(table_size, Reverted, Kept(Stored))
  BY <1>1, NodesReverted DEF Reverted, Buckets
<1>5. Holds(table_size', table', Kept(Stored))
  <2>1. CASE Keep(table_size, Reverted)
    BY <2>1, <1>4 DEF Keep
  <2>2. CASE IsSparse(table_size, nentries') /\ Resize(table_size, Reverted, ShrunkSize(nentries'))
    <3>1. IsFiniteSet(Kept(Stored))
      BY <1>4, TableNodes
    <3>2. nentries' \in Nat
      BY <1>3, <3>1, FS_CardinalityType
    <3>3. ShrunkSize(nentries') \in Nat \ {0}
      BY <2>2, <3>2, <1>1, ShrunkSizeIs
    <3>4. table_size \in Nat \ {0}
      BY <2>2, <1>1, SizesArePositive DEF IsSparse
    <3> QED
      BY <2>2, <3>3, <3>4, <1>4, GrowsOrNot
  <2> QED
    BY <2>1, <2>2 DEF Revert
<1> QED
  BY <1>3, <1>5 DEF Leaves

LEMMA ReserveCapacityLeaves ==
    ASSUME TableInv, NEW capacity \in Nat, ReserveCapacity(capacity)
    PROVE  Leaves(Stored)
<1>1. table_size \in Nat /\ IsTable(table_size, table)
  BY DEF TableInv, Holds
<1>2. Holds(SizeForCapacity(capacity), Resized(table_size, table, SizeForCapacity(capacity)), Stored)
  BY <1>1, SizeForCapacityIs, ResizedIs DEF Stored
<1> QED
  BY <1>2 DEF ReserveCapacity, Resize, Leaves, TableInv

(***************************************************************************)
(* The table implements NameTable.                                         *)
(***************************************************************************)

LEMMA InitTableInv == Init => TableInv
<1> SUFFICES ASSUME Init PROVE TableInv
  OBVIOUS
<1>1. <<>> \in [0..(0 - 1) -> Seq(Node)] /\ 0..(0 - 1) = {}
  OBVIOUS
<1>2. Stored = {}
  BY <1>1 DEF Init, Stored, NodesOf
<1>3. Holds(table_size, table, Stored)
  BY <1>1 DEF Init, Stored, Holds, IsTable
<1> QED
  BY <1>2, <1>3, FS_EmptySet DEF Init, TableInv, Visible

LEMMA LookupsShowNext == TableInv' => Shows(LookedUp', Stored')
<1>1. (TableInv => Shows(LookedUp, Stored))'
  BY LookupsShow, PTL
<1> QED
  BY <1>1

\* The steps of NameTable, seen from here.
LEMMA AbstractAdd ==
    ASSUME NEW n \in Names, NEW i \in Indices
    PROVE  /\ LookedUp[n].current_index = NoIndex /\ LookedUp' = HashAdd(LookedUp, n, i) => T!Next
           /\ LookedUp' = HashAddOriginal(LookedUp, n, i) => T!Next
<1>1. LookedUp[n].current_index = NoIndex /\ LookedUp' = HashAdd(LookedUp, n, i) => T!Add(n, i)
  BY DEF T!Add, T!HashCanAdd, T!HashAdd, T!NoIndex, HashAdd, NoIndex, LookedUp
<1>2. LookedUp' = HashAddOriginal(LookedUp, n, i) => T!AddOriginal(n, i)
  BY DEF T!AddOriginal, T!HashAddOriginal, HashAddOriginal, T!NoNode, T!NoIndex, NoNode, NoIndex, LookedUp
<1> QED
  BY <1>1, <1>2 DEF T!Next

LEMMA AbstractDelete ==
    ASSUME NEW n \in Names, LookedUp[n] # NoNode, LookedUp' = HashDelete(LookedUp, n)
    PROVE  T!Next
<1>1. T!Delete(n)
  BY DEF T!Delete, T!HashCanDelete, T!HashDelete, HashDelete, T!NoNode, T!NoIndex, NoNode, NoIndex, LookedUp
<1> QED
  BY <1>1 DEF T!Next

LEMMA AbstractRevert ==
    ASSUME LookedUp' = HashRevert(LookedUp)
    PROVE  T!Next
<1>1. T!Revert
  BY DEF T!Revert, T!HashRevert, HashRevert, LookedUp
<1> QED
  BY <1>1 DEF T!Next

\* What lookups show before and after an operation.
LEMMA BeforeAndAfter ==
    ASSUME TableInv, NEW nodes, Leaves(nodes), resize_failed' \in BOOLEAN, resize_failed' \/ Visible(nodes)
    PROVE  /\ TableInv' /\ Shows(LookedUp', nodes)
           /\ Shows(LookedUp, Stored) /\ Stored \in SUBSET Node /\ NamesDiffer(Stored)
<1>1. TableInv' /\ Stored' = nodes
  BY InvariantOfLeft
<1>2. Shows(LookedUp', nodes)
  BY <1>1, LookupsShowNext
<1>3. Stored \in SUBSET Node /\ NamesDiffer(Stored)
  BY TableNodes DEF TableInv
<1> QED
  BY <1>1, <1>2, <1>3, LookupsShow

LEMMA BothIs ==
    ASSUME NEW e
    PROVE  /\ Both(e).orig_index = e.orig_index /\ Both(e).current_index = e.current_index
           /\ Both(e) = NoNode <=> e.orig_index = NoIndex /\ e.current_index = NoIndex
<1>1. Both(e).orig_index = e.orig_index /\ Both(e).current_index = e.current_index
  BY DEF Both
<1>2. NoNode.orig_index = NoIndex /\ NoNode.current_index = NoIndex
  BY DEF NoNode
<1>3. e.orig_index = NoIndex /\ e.current_index = NoIndex => Both(e) = NoNode
  BY DEF Both, NoNode
<1> QED
  BY <1>1, <1>2, <1>3

Does(step) == TableInv' /\ (resize_failed' \/ step)

LEMMA AddToNodeStep ==
    ASSUME TableInv, NEW n \in Names, NEW i \in Indices, NEW unchanged \in BOOLEAN, AddToNode(n, i, unchanged)
    PROVE  Does(T!Next)
<1> DEFINE e == NodeOf(n)
           d == WithIndex(e, i, unchanged)
<1>1. /\ HasNode(n) /\ e \in Stored /\ e \in Node /\ e.name = n /\ IndicesOf(n) = Both(e)
      /\ Leaves(Swapped(Stored, e, d))
  BY AddToNodeLeaves
<1>2. /\ d \in Node /\ d.name = n /\ d.current_index = i /\ i # NoIndex
      /\ d.orig_index = IF unchanged THEN i ELSE e.orig_index
  BY <1>1, WithIndexIs
<1>3. resize_failed' = resize_failed /\ resize_failed \in BOOLEAN
  BY DEF AddToNode, TableInv
<1>4. e.current_index = NoIndex /\ (unchanged => e.orig_index = NoIndex)
  BY <1>1, BothIs DEF AddToNode, Exists
<1> HIDE DEF e, d
<1>5. CASE resize_failed
  BY <1>1, <1>3, <1>5, BeforeAndAfter DEF Does
<1>6. CASE ~resize_failed
  <2>1. Visible(Stored)
    BY <1>6 DEF TableInv
  <2>2. Both(e) # NoNode
    BY <2>1, <1>1 DEF Visible
  <2>3. ~unchanged
    BY <2>2, <1>4, BothIs
  <2>4. Visible(Swapped(Stored, e, d))
    BY <2>1, <1>2, BothIs DEF Visible, Swapped
  <2>5. /\ TableInv' /\ Shows(LookedUp', Swapped(Stored, e, d))
        /\ Shows(LookedUp, Stored) /\ Stored \in SUBSET Node /\ NamesDiffer(Stored)
    BY <2>4, <1>1, <1>3, BeforeAndAfter
  <2>6. LookedUp' = [LookedUp EXCEPT ![n] = Both(d)] /\ LookedUp[n] = Both(e)
    BY <2>5, <1>1, <1>2, MapOfUpdated
  <2>7. Both(d) = [Both(e) EXCEPT !.current_index = i]
    BY <2>3, <1>2 DEF Both
  <2>8. LookedUp' = HashAdd(LookedUp, n, i)
    BY <2>6, <2>7 DEF HashAdd
  <2>9. LookedUp[n].current_index = NoIndex
    BY <2>6, <1>4, BothIs
  <2> QED
    BY <2>5, <2>8, <2>9, AbstractAdd DEF Does
<1> QED
  BY <1>5, <1>6

LEMMA AddNodeStep ==
    ASSUME TableInv, NEW n \in Names, NEW i \in Indices, NEW unchanged \in BOOLEAN, AddNode(n, i, unchanged)
    PROVE  Does(T!Next)
<1> DEFINE e == NewNode(n, i, unchanged)
<1>1. Leaves(Stored \cup {e}) /\ \A d \in Stored : d.name # n
  BY AddNodeLeaves
<1>2. /\ e \in Node /\ e.name = n /\ e.current_index = i /\ i # NoIndex
      /\ e.orig_index = IF unchanged THEN i ELSE NoIndex
  BY NewNodeIs
<1>3. resize_failed' = resize_failed /\ resize_failed \in BOOLEAN
  BY DEF AddNode, TableInv
<1> HIDE DEF e
<1>4. CASE resize_failed
  BY <1>1, <1>3, <1>4, BeforeAndAfter DEF Does
<1>5. CASE ~resize_failed
  <2>1. Visible(Stored \cup {e})
    BY <1>2, <1>5, BothIs DEF Visible, TableInv
  <2>2. /\ TableInv' /\ Shows(LookedUp', Stored \cup {e})
        /\ Shows(LookedUp, Stored) /\ Stored \in SUBSET Node
    BY <2>1, <1>1, <1>3, BeforeAndAfter
  <2>3. LookedUp' = [LookedUp EXCEPT ![n] = Both(e)] /\ LookedUp[n] = NoNode
    <3>1. \A d \in Stored : d.name # e.name
      BY <1>1, <1>2
    <3>2. LookedUp' = [LookedUp EXCEPT ![e.name] = Both(e)] /\ LookedUp[e.name] = NoNode
      BY <2>2, <3>1, <1>2, MapOfAdded
    <3> QED
      BY <3>2, <1>2
  <2>4. CASE unchanged
    <3>1. Both(e) = [orig_index |-> i, current_index |-> i]
      BY <1>2, <2>4 DEF Both
    <3>2. LookedUp' = HashAddOriginal(LookedUp, n, i)
      BY <2>3, <3>1 DEF HashAddOriginal
    <3> QED
      BY <2>2, <3>2, AbstractAdd DEF Does
  <2>5. CASE ~unchanged
    <3>1. Both(e) = [NoNode EXCEPT !.current_index = i] /\ NoNode.current_index = NoIndex
      BY <1>2, <2>5 DEF Both, NoNode
    <3>2. LookedUp' = HashAdd(LookedUp, n, i)
      BY <2>3, <3>1 DEF HashAdd
    <3>3. LookedUp[n].current_index = NoIndex
      BY <2>3, <3>1
    <3> QED
      BY <2>2, <3>2, <3>3, AbstractAdd DEF Does
  <2> QED
    BY <2>4, <2>5
<1> QED
  BY <1>4, <1>5

LEMMA AddNodeFailsStep ==
    ASSUME TableInv, NEW n \in Names, AddNodeFails(n)
    PROVE  Does(T!Next)
<1>1. PICK e \in Node : Leaves(Stored \cup {e})
  BY AddNodeFailsLeaves
<1>2. resize_failed' = TRUE
  BY DEF AddNodeFails
<1> QED
  BY <1>1, <1>2, BeforeAndAfter DEF Does

LEMMA DeleteIndexStep ==
    ASSUME TableInv, NEW n \in Names, DeleteIndex(n)
    PROVE  Does(T!Next)
<1> DEFINE e == NodeOf(n)
           d == Hidden(e)
<1>1. /\ e \in Stored /\ e \in Node /\ e.name = n /\ e.orig_index # NoIndex
      /\ Leaves(Swapped(Stored, e, d))
  BY DeleteIndexLeaves
<1>2. /\ d \in Node /\ d.name = n /\ d.current_index = NoIndex /\ d.orig_index = e.orig_index
  BY <1>1, HiddenIs
<1>3. resize_failed' = resize_failed /\ resize_failed \in BOOLEAN
  BY DEF DeleteIndex, TableInv
<1> HIDE DEF e, d
<1>4. CASE resize_failed
  BY <1>1, <1>3, <1>4, BeforeAndAfter DEF Does
<1>5. CASE ~resize_failed
  <2>1. Visible(Swapped(Stored, e, d))
    BY <1>1, <1>2, <1>5, BothIs DEF Visible, Swapped, TableInv
  <2>2. /\ TableInv' /\ Shows(LookedUp', Swapped(Stored, e, d))
        /\ Shows(LookedUp, Stored) /\ Stored \in SUBSET Node /\ NamesDiffer(Stored)
    BY <2>1, <1>1, <1>3, BeforeAndAfter
  <2>3. LookedUp' = [LookedUp EXCEPT ![n] = Both(d)] /\ LookedUp[n] = Both(e)
    BY <2>2, <1>1, <1>2, MapOfUpdated
  <2>4. Both(d) = [Both(e) EXCEPT !.current_index = NoIndex]
    BY <1>2 DEF Both
  <2>5. LookedUp' = HashDelete(LookedUp, n)
    BY <2>3, <2>4 DEF HashDelete
  <2>6. LookedUp[n] # NoNode
    BY <2>3, <1>1, BothIs
  <2> QED
    BY <2>2, <2>5, <2>6, AbstractDelete DEF Does
<1> QED
  BY <1>4, <1>5

LEMMA DeleteNodeStep ==
    ASSUME TableInv, NEW n \in Names, DeleteNode(n)
    PROVE  Does(T!Next)
<1> DEFINE e == NodeOf(n)
<1>1. /\ e \in Stored /\ e \in Node /\ e.name = n /\ e.orig_index = NoIndex
      /\ Leaves(Without(Stored, e))
  BY DeleteNodeLeaves
<1>2. resize_failed' = resize_failed \/ resize_failed' = TRUE
  BY DEF DeleteNode
<1>3. resize_failed' \in BOOLEAN
  BY <1>2 DEF TableInv
<1> HIDE DEF e
<1>4. CASE resize_failed'
  BY <1>1, <1>3, <1>4, BeforeAndAfter DEF Does
<1>5. CASE ~resize_failed'
  <2>1. Visible(Stored) /\ Visible(Without(Stored, e))
    BY <1>2, <1>5 DEF Visible, Without, TableInv
  <2>2. /\ TableInv' /\ Shows(LookedUp', Without(Stored, e))
        /\ Shows(LookedUp, Stored) /\ Stored \in SUBSET Node /\ NamesDiffer(Stored)
    BY <2>1, <1>1, <1>3, BeforeAndAfter
  <2>3. LookedUp' = [LookedUp EXCEPT ![n] = NoNode] /\ LookedUp[n] = Both(e)
    <3>1. LookedUp' = [LookedUp EXCEPT ![e.name] = NoNode] /\ LookedUp[e.name] = Both(e)
      BY <2>2, <1>1, MapOfRemoved
    <3> QED
      BY <3>1, <1>1
  <2>4. NoNode = [Both(e) EXCEPT !.current_index = NoIndex]
    BY <1>1 DEF Both, NoNode
  <2>5. LookedUp' = HashDelete(LookedUp, n)
    BY <2>3, <2>4 DEF HashDelete
  <2>6. LookedUp[n] # NoNode
    BY <2>1, <2>3, <1>1 DEF Visible
  <2> QED
    BY <2>2, <2>5, <2>6, AbstractDelete DEF Does
<1> QED
  BY <1>4, <1>5

LEMMA RevertStep ==
    ASSUME TableInv, Revert
    PROVE  Does(T!Next)
<1>1. Leaves(Kept(Stored))
  BY RevertLeaves
<1>2. resize_failed' \in BOOLEAN
  BY DEF Revert, TableInv
<1>3. Visible(Kept(Stored))
  <2>1. Stored \subseteq Node
    BY TableNodes DEF TableInv
  <2> QED
    BY <2>1, RestoredIs, BothIs DEF Visible, Kept
<1>4. /\ TableInv' /\ Shows(LookedUp', Kept(Stored))
      /\ Shows(LookedUp, Stored) /\ Stored \in SUBSET Node /\ NamesDiffer(Stored)
  BY <1>1, <1>2, <1>3, BeforeAndAfter
<1>5. LookedUp' = HashRevert(LookedUp)
  BY <1>4, MapOfReverted
<1> QED
  BY <1>4, <1>5, AbstractRevert DEF Does

\* The nodes are the same, in a table of whatever size.
LEMMA SameNodesStep ==
    ASSUME TableInv, Leaves(Stored), resize_failed' = resize_failed
    PROVE  Does(UNCHANGED LookedUp)
<1>1. resize_failed' \in BOOLEAN /\ (resize_failed' \/ Visible(Stored))
  BY DEF TableInv
<1>2. /\ TableInv' /\ Shows(LookedUp', Stored)
      /\ Shows(LookedUp, Stored) /\ Stored \in SUBSET Node
  BY <1>1, BeforeAndAfter
<1> QED
  BY <1>2, SameMap DEF Does

LEMMA NextImplements ==
    TableInv /\ [Next]_vars => Does(T!Next \/ UNCHANGED LookedUp)
<1> SUFFICES ASSUME TableInv, [Next]_vars PROVE Does(T!Next \/ UNCHANGED LookedUp)
  OBVIOUS
<1>1. CASE FirstBuckets
  BY <1>1, FirstBucketsLeaves, SameNodesStep DEF FirstBuckets, Does
<1>2. ASSUME NEW n \in Names, NEW i \in Indices, NEW unchanged \in BOOLEAN,
             AddToNode(n, i, unchanged) \/ AddNode(n, i, unchanged)
      PROVE  Does(T!Next \/ UNCHANGED LookedUp)
  BY <1>2, AddToNodeStep, AddNodeStep DEF Does
<1>3. ASSUME NEW n \in Names, AddNodeFails(n) \/ DeleteIndex(n) \/ DeleteNode(n)
      PROVE  Does(T!Next \/ UNCHANGED LookedUp)
  BY <1>3, AddNodeFailsStep, DeleteIndexStep, DeleteNodeStep DEF Does
<1>4. CASE Revert
  BY <1>4, RevertStep DEF Does
<1>5. ASSUME NEW capacity \in 0..Cardinality(Names), ReserveCapacity(capacity)
      PROVE  Does(T!Next \/ UNCHANGED LookedUp)
  <2>1. capacity \in Int /\ capacity > 0
    BY <1>5 DEF ReserveCapacity
  <2>2. capacity \in Nat
    BY <2>1
  <2> QED
    BY <2>2, <1>5, ReserveCapacityLeaves, SameNodesStep DEF ReserveCapacity, Does
<1>6. CASE UNCHANGED vars
  <2>1. Leaves(Stored) /\ resize_failed' = resize_failed
    BY <1>6 DEF vars, Leaves, TableInv
  <2> QED
    BY <2>1, SameNodesStep DEF Does
<1> QED
  BY <1>1, <1>2, <1>3, <1>4, <1>5, <1>6 DEF Next

\* In every table that the operations make, each name has one node at most and
\* it is in its bucket, nentries counts the nodes, and lookups find them all.
THEOREM TableInvariant == Spec => []TableInv
<1>1. TableInv /\ [Next]_vars => TableInv'
  BY NextImplements DEF Does
<1> QED
  BY <1>1, InitTableInv, PTL DEF Spec

\* The chained table changes as the map of names does, for every hash function,
\* number of names and sizes.
THEOREM TableImplementsNames == Spec => ImplementsNameTable
<1>1. Init => T!Init
  <2>1. ASSUME Init, NEW n \in Names PROVE IndicesOf(n) = NoNode
    BY <2>1 DEF Init, IndicesOf, HasNode
  <2> QED
    BY <2>1 DEF T!Init, T!NoNode, T!NoIndex, NoNode, NoIndex
<1>2. TableInv /\ [Next]_vars => [resize_failed' \/ T!Next]_<<[n \in Names |-> IndicesOf(n)]>>
  BY NextImplements DEF Does, LookedUp
<1> QED
  BY <1>1, <1>2, TableInvariant, PTL DEF Spec, ImplementsNameTable

=============================================================================
