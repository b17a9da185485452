------------------------- MODULE BufferSourceProofs -------------------------
(***************************************************************************)
(* Proofs about BufferSource: whatever fragments the readers and the       *)
(* writer share and whichever allocation fails, the source is a sequence   *)
(* of bytes that readers see unchanged until the writer commits, what the  *)
(* user gave is not written to, and no memory is lost or freed twice.      *)
(***************************************************************************)
EXTENDS BufferSource, SequenceTheorems, NaturalsInduction, WellFoundedInduction, TLAPS

(***************************************************************************)
(* The inductive invariant.                                                *)
(***************************************************************************)

Count(b) == Len(b.fragments)

\* The offsets are those of the fragments, none of which is empty.
Laid(b) ==
    /\ b \in Buffer
    /\ Len(b.offsets) = Count(b) + 1 /\ b.offsets[1] = 0
    /\ \A i \in 1 .. Count(b) :
        /\ b.fragments[i].length > 0
        /\ b.offsets[i + 1] = b.offsets[i] + b.fragments[i].length

\* The current fragment is the one that the offset is in or at the end of.
IsAt(b, offset, i) ==
    /\ i \in 1 .. Count(b) + 1
    /\ b.offsets[i] <= offset
    /\ i <= Count(b) => offset <= b.offsets[i + 1]

Placed(b) ==
    /\ b.offset <= b.size /\ b.size <= b.offsets[Count(b) + 1]
    /\ IsAt(b, b.offset, b.current)

\* Each fragment has memory of its own that is as long, and whether the
\* buffer frees it is a matter of whose it is.
Backed(mem, freep, b) ==
    /\ \A i \in 1 .. Count(b) :
        LET f == b.fragments[i]
        IN /\ mem[f.data] \in Block
           /\ f.length <= Len(mem[f.data].bytes)
           /\ f.free_data = (freep \/ ~mem[f.data].user)
    /\ \A i, j \in 1 .. Count(b) : b.fragments[i].data = b.fragments[j].data => i = j

IsBuffer(mem, freep, b) == Laid(b) /\ Placed(b) /\ Backed(mem, freep, b)

\* Two buffers share memory only knowingly, and in fragments with one number.
Sharing(b, other) ==
    /\ b.shared_buffer = other.shared_buffer
    /\ \A i \in 1 .. Count(b), j \in 1 .. Count(other) :
        b.fragments[i].data = other.fragments[j].data => i = j /\ b.shared_buffer

HeldBy(b) == IF b = NULL THEN {} ELSE Held(b)

\* The memory of up to two buffers is theirs, and all else is the user's.
Owned(mem, freep, b, other) ==
    /\ mem \in [Addresses -> Block \cup {NULL}]
    /\ b # NULL => IsBuffer(mem, freep, b)
    /\ other # NULL => IsBuffer(mem, freep, other)
    /\ b # NULL /\ other = NULL => ~b.shared_buffer
    /\ other # NULL /\ b = NULL => ~other.shared_buffer
    /\ b # NULL /\ other # NULL => Sharing(b, other)
    /\ \A a \in Addresses :
        mem[a] # NULL => a \in HeldBy(b) \cup HeldBy(other) \/ (mem[a].user /\ ~freep)

\* The writer has memory of the user only while the readers have it, too.
Borrowed(mem, b, writer) ==
    writer # NULL =>
        \A i \in 1 .. Count(writer) :
            mem[writer.fragments[i].data].user =>
                i <= Count(b) /\ b.fragments[i].data = writer.fragments[i].data

States ==
    /\ write_state \in {"NEW", "CLOSED", "OPEN", "REMOVED", "FREED"}
    /\ free_data \in BOOLEAN /\ open_count \in Nat
    /\ in # NULL <=> Exists
    /\ out # NULL <=> Writing
    /\ write_state = "NEW" => open_count = 0 /\ \A a \in Addresses : memory[a] = NULL
    /\ write_state = "FREED" => open_count = 0

IInv ==
    /\ States
    /\ Owned(memory, free_data, in, out)
    /\ Borrowed(memory, in, out)

(***************************************************************************)
(* Numbers.                                                                *)
(***************************************************************************)

LEMMA NatHasLeast ==
    ASSUME NEW S \in SUBSET Nat, S # {}
    PROVE  \E x \in S : \A y \in S : x <= y
<1>1. PICK x \in S : \A y \in S : ~(<<y, x>> \in OpToRel(<, Nat))
  BY NatLessThanWellFounded, WFMin, Zenon
<1>2. \A y \in S : ~(y < x)
  BY <1>1 DEF OpToRel
<1> QED
  BY <1>2

LEMMA MinIs ==
    ASSUME NEW S \in SUBSET Nat, S # {}
    PROVE  Min(S) \in S /\ \A y \in S : Min(S) <= y
BY NatHasLeast DEF Min

LEMMA MaxIs ==
    ASSUME NEW i \in Int, NEW j \in Int
    PROVE  Max({i, j}) = IF i >= j THEN i ELSE j
<1> DEFINE IsMax(x) == x \in {i, j} /\ \A y \in {i, j} : x >= y
           m == IF i >= j THEN i ELSE j
<1>1. IsMax(m) /\ \A x : IsMax(x) => x = m
  OBVIOUS
<1>2. Max({i, j}) = CHOOSE x : IsMax(x)
  BY DEF Max
<1> HIDE DEF IsMax, m
<1>3. Max({i, j}) = m
  BY <1>1, <1>2
<1> QED
  BY <1>3 DEF m

LEMMA MinOfTwo ==
    ASSUME NEW i \in Int, NEW j \in Int
    PROVE  Min({i, j}) = IF i <= j THEN i ELSE j
<1> DEFINE IsMin(x) == x \in {i, j} /\ \A y \in {i, j} : x <= y
           m == IF i <= j THEN i ELSE j
<1>1. IsMin(m) /\ \A x : IsMin(x) => x = m
  OBVIOUS
<1>2. Min({i, j}) = CHOOSE x : IsMin(x)
  BY DEF Min
<1> HIDE DEF IsMin, m
<1>3. Min({i, j}) = m
  BY <1>1, <1>2
<1> QED
  BY <1>3 DEF m

\* What holds of the first step and passes from each to the next.
LEMMA StepByStep ==
    ASSUME NEW n \in Nat, NEW Good, 0 \in Good,
           \A k \in 1 .. n : k - 1 \in Good => k \in Good
    PROVE  \A k \in 0 .. n : k \in Good
<1> DEFINE Bad == {k \in 0 .. n : k \notin Good}
<1>1. SUFFICES ASSUME Bad # {} PROVE FALSE
  OBVIOUS
<1>2. PICK m \in Bad : \A y \in Bad : m <= y
  <2>1. Bad \in SUBSET Nat
    OBVIOUS
  <2> HIDE DEF Bad
  <2> QED
    BY <2>1, <1>1, NatHasLeast
<1>3. m \in 1 .. n /\ m - 1 \in 0 .. n /\ m - 1 \notin Bad
  BY <1>2
<1> QED
  BY <1>3

(***************************************************************************)
(* The fragments of a buffer.                                              *)
(***************************************************************************)

LEMMA LaidTypes ==
    ASSUME NEW b, Laid(b)
    PROVE  /\ Count(b) \in Nat /\ b.size \in Nat /\ b.offset \in Nat /\ b.current \in Nat
           /\ b.capacity \in Nat /\ b.shared_buffer \in BOOLEAN
           /\ b.fragments \in Seq(Fragment) /\ b.offsets \in Seq(Nat)
           /\ DOMAIN b.fragments = 1 .. Count(b) /\ DOMAIN b.offsets = 1 .. Count(b) + 1
           /\ \A i \in 1 .. Count(b) :
                /\ b.fragments[i] \in Fragment /\ b.fragments[i].data \in Addresses
                /\ b.fragments[i].length \in Nat \ {0}
                /\ b.fragments[i].free_data \in BOOLEAN
                /\ b.offsets[i + 1] = b.offsets[i] + b.fragments[i].length
           /\ \A i \in 1 .. Count(b) + 1 : b.offsets[i] \in Nat
           /\ b.offsets[1] = 0
           /\ BufferCapacity(b) = b.offsets[Count(b) + 1]
<1>1. /\ b.fragments \in Seq(Fragment) /\ b.offsets \in Seq(Nat)
      /\ b.size \in Nat /\ b.offset \in Nat /\ b.current \in Nat
      /\ b.capacity \in Nat /\ b.shared_buffer \in BOOLEAN
  BY DEF Laid, Buffer
<1>2. /\ Count(b) \in Nat
      /\ DOMAIN b.fragments = 1 .. Count(b) /\ DOMAIN b.offsets = 1 .. Count(b) + 1
  BY <1>1 DEF Laid, Count
<1>3. \A i \in 1 .. Count(b) : b.fragments[i] \in Fragment
  BY <1>1, <1>2
<1>4. \A i \in 1 .. Count(b) + 1 : b.offsets[i] \in Nat
  <2>1. \A k \in DOMAIN b.offsets : b.offsets[k] \in Nat
    BY <1>1
  <2> QED
    BY <2>1, <1>2
<1>5. BufferCapacity(b) = b.offsets[Count(b) + 1]
  BY DEF BufferCapacity, Last, Laid
<1>6. \A f \in Fragment : f.data \in Addresses /\ f.length \in Nat /\ f.free_data \in BOOLEAN
  BY DEF Fragment
<1>7. ASSUME NEW i \in 1 .. Count(b)
      PROVE  /\ b.fragments[i].length \in Nat \ {0}
             /\ b.offsets[i + 1] = b.offsets[i] + b.fragments[i].length
  <2>1. b.fragments[i].length > 0 /\ b.offsets[i + 1] = b.offsets[i] + b.fragments[i].length
    BY DEF Laid
  <2> QED
    BY <2>1, <1>3, <1>6
<1>8. b.offsets[1] = 0
  BY DEF Laid
<1> QED
  BY <1>1, <1>2, <1>3, <1>4, <1>5, <1>6, <1>7, <1>8

LEMMA OffsetsGrow ==
    ASSUME NEW b, Laid(b), NEW i \in 1 .. Count(b) + 1, NEW j \in 1 .. Count(b) + 1, i < j
    PROVE  b.offsets[i] < b.offsets[j] /\ b.offsets[i + 1] <= b.offsets[j]
<1> DEFINE n == Count(b)
           Good == {k \in Nat : i + 1 + k \in 1 .. n + 1 => b.offsets[i + 1] <= b.offsets[i + 1 + k]}
<1>1. n \in Nat /\ \A k \in 1 .. n + 1 : b.offsets[k] \in Nat
  BY LaidTypes
<1>2. \A k \in 1 .. n : b.offsets[k] < b.offsets[k + 1]
  <2>1. \A k \in 1 .. n : /\ b.fragments[k].length \in Nat \ {0}
                         /\ b.offsets[k + 1] = b.offsets[k] + b.fragments[k].length
    BY LaidTypes
  <2>2. \A k \in 1 .. n : k \in 1 .. n + 1
    BY <1>1
  <2> QED
    BY <1>1, <2>1, <2>2
<1> HIDE DEF n
<1>3. 0 \in Good
  BY <1>1
<1>4. ASSUME NEW k \in 1 .. n, k - 1 \in Good PROVE k \in Good
  <2>1. SUFFICES ASSUME i + 1 + k \in 1 .. n + 1 PROVE b.offsets[i + 1] <= b.offsets[i + 1 + k]
    BY <1>1
  <2>2. i + k \in 1 .. n /\ i + 1 + (k - 1) = i + k /\ (i + k) + 1 = i + 1 + k /\ i + 1 \in 1 .. n + 1
    BY <2>1, <1>1 DEF n
  <2>3. b.offsets[i + 1] <= b.offsets[i + k]
    BY <2>2, <1>4, <1>1
  <2>4. b.offsets[i + k] < b.offsets[i + 1 + k]
    BY <2>2, <1>2
  <2> QED
    BY <2>2, <2>3, <2>4, <1>1, <2>1
<1> HIDE DEF Good
<1>5. \A k \in 0 .. n : k \in Good
  BY <1>1, <1>3, <1>4, StepByStep
<1>6. j - i - 1 \in 0 .. n /\ i + 1 + (j - i - 1) = j /\ i \in 1 .. n /\ i + 1 \in 1 .. n + 1 /\ j \in 1 .. n + 1
  BY <1>1 DEF n
<1>7. b.offsets[i + 1] <= b.offsets[j]
  BY <1>5, <1>6, <1>1 DEF Good
<1> QED
  BY <1>7, <1>2, <1>6, <1>1

\* A place is in one fragment.
LEMMA FragmentIs ==
    ASSUME NEW b, Laid(b), NEW place \in Nat, NEW i \in 1 .. Count(b),
           b.offsets[i] < place, place <= b.offsets[i + 1]
    PROVE  FragmentAt(b, place) = i
<1>1. /\ Count(b) \in Nat /\ DOMAIN b.fragments = 1 .. Count(b)
      /\ \A j \in 1 .. Count(b) + 1 : b.offsets[j] \in Nat
  BY LaidTypes
<1>2. ASSUME NEW j \in 1 .. Count(b), b.offsets[j] < place, place <= b.offsets[j + 1] PROVE j = i
  <2>1. i + 1 \in 1 .. Count(b) + 1 /\ j + 1 \in 1 .. Count(b) + 1 /\ i \in 1 .. Count(b) + 1 /\ j \in 1 .. Count(b) + 1
    BY <1>1
  <2>2. CASE i < j
    <3>1. b.offsets[i + 1] <= b.offsets[j]
      BY <2>1, <2>2, OffsetsGrow
    <3> QED
      BY <3>1, <2>1, <1>1, <1>2
  <2>3. CASE j < i
    <3>1. b.offsets[j + 1] <= b.offsets[i]
      BY <2>1, <2>3, OffsetsGrow
    <3> QED
      BY <3>1, <2>1, <1>1, <1>2
  <2> QED
    BY <2>2, <2>3, <1>1
<1> QED
  BY <1>1, <1>2 DEF FragmentAt

LEMMA FragmentExists ==
    ASSUME NEW b, Laid(b), NEW place \in 1 .. b.offsets[Count(b) + 1]
    PROVE  /\ FragmentAt(b, place) \in 1 .. Count(b)
           /\ b.offsets[FragmentAt(b, place)] < place
           /\ place <= b.offsets[FragmentAt(b, place) + 1]
<1> DEFINE n == Count(b)
           S == {i \in 1 .. n : place <= b.offsets[i + 1]}
<1>1. /\ n \in Nat /\ b.offsets[1] = 0
      /\ \A j \in 1 .. n + 1 : b.offsets[j] \in Nat
  BY LaidTypes
<1> HIDE DEF n
<1>2. place \in Nat /\ place > 0 /\ place <= b.offsets[n + 1]
  BY <1>1 DEF n
<1>3. n \in S
  BY <1>1, <1>2
<1>4. PICK i \in S : \A j \in S : i <= j
  <2>1. S \in SUBSET Nat
    BY <1>1
  <2> HIDE DEF S
  <2> QED
    BY <2>1, <1>3, NatHasLeast
<1>5. b.offsets[i] < place
  <2>1. CASE i = 1
    BY <2>1, <1>1, <1>2
  <2>2. CASE i # 1
    <3>1. i - 1 \in 1 .. n /\ (i - 1) + 1 = i /\ i \in 1 .. n + 1
      BY <2>2, <1>1
    <3>2. i - 1 \notin S
      BY <3>1, <1>4
    <3> QED
      BY <3>1, <3>2, <1>1, <1>2
  <2> QED
    BY <2>1, <2>2
<1>6. FragmentAt(b, place) = i
  BY <1>2, <1>4, <1>5, FragmentIs DEF n
<1> QED
  BY <1>4, <1>5, <1>6 DEF n

(***************************************************************************)
(* Where an offset is: buffer_find_fragment, and reading on.               *)
(***************************************************************************)

NarrowingSteps(b, offset, n, f) ==
    f[0] = <<1, n>> /\ \A k \in 1 .. n : f[k] = Narrowed(b, offset, f[k - 1])

\* The loop of FindFragment.
LEMMA NarrowingLoop ==
    ASSUME NEW b, NEW offset, NEW n \in Nat
    PROVE  \E f : NarrowingSteps(b, offset, n, f) /\ (Count(b) = n /\ n # 0 => FindFragment(b, offset) = f[n][1])
<1> DEFINE first == <<1, n>>
           Next_(k, range) == Narrowed(b, offset, range)
           body(f, m) == [k \in 0 .. m |-> IF k = 0 THEN first ELSE Next_(k, f[k - 1])]
           IsLoop(f, m) == f = body(f, m)
           Good == {m \in Nat : \E f : IsLoop(f, m)}
<1>1. 0 \in Good
  <2> DEFINE g == [k \in 0 .. 0 |-> first]
  <2> HIDE DEF first, Next_
  <2>1. IsLoop(g, 0)
    OBVIOUS
  <2> HIDE DEF g, IsLoop
  <2> QED
    BY <2>1
<1>2. ASSUME NEW m \in 1 .. n, m - 1 \in Good PROVE m \in Good
  <2>1. PICK f : f = body(f, m - 1)
    BY <1>2
  <2> DEFINE g == [k \in 0 .. m |-> IF k = m THEN Next_(m, f[m - 1]) ELSE f[k]]
  <2> HIDE DEF first, Next_
  <2>2. \A k \in 0 .. m - 1 : f[k] = IF k = 0 THEN first ELSE Next_(k, f[k - 1])
    BY <2>1
  <2>3. ASSUME NEW k \in 0 .. m PROVE g[k] = IF k = 0 THEN first ELSE Next_(k, g[k - 1])
    <3>1. CASE k = m
      <4>1. k # 0 /\ k - 1 \in 0 .. m /\ k - 1 # m
        BY <3>1
      <4>2. g[k] = Next_(m, f[m - 1]) /\ g[k - 1] = f[m - 1]
        BY <3>1, <4>1
      <4> QED
        BY <4>1, <4>2, <3>1
    <3>2. CASE k # m
      <4>1. k \in 0 .. m - 1 /\ g[k] = f[k]
        BY <3>2
      <4>2. k # 0 => g[k - 1] = f[k - 1]
        BY <3>2
      <4> QED
        BY <4>1, <4>2, <2>2
    <3> QED
      BY <3>1, <3>2
  <2>4. IsLoop(g, m)
    BY <2>3
  <2> HIDE DEF g, IsLoop
  <2> QED
    BY <2>4
<1>3. \E f : IsLoop(f, n)
  <2>1. n \in Good
    <3> HIDE DEF Good
    <3>1. \A k \in 0 .. n : k \in Good
      BY <1>1, <1>2, StepByStep
    <3> QED
      BY <3>1
  <2> HIDE DEF IsLoop
  <2> QED
    BY <2>1
<1> DEFINE g == CHOOSE f : IsLoop(f, n)
<1>4. g = body(g, n)
  <2>1. IsLoop(g, n)
    <3> HIDE DEF IsLoop
    <3> QED
      BY <1>3
  <2> QED
    BY <2>1
<1>5. g[0] = first /\ \A k \in 1 .. n : g[k] = Next_(k, g[k - 1])
  <2> HIDE DEF first, Next_, g
  <2> QED
    BY <1>4
<1>6. NarrowingSteps(b, offset, n, g)
  BY <1>5 DEF NarrowingSteps
<1>7. Count(b) = n /\ n # 0 => FindFragment(b, offset) = g[n][1]
  BY DEF FindFragment, Count
<1> HIDE DEF g
<1> QED
  BY <1>6, <1>7

LEMMA FindFragmentIs ==
    ASSUME NEW b, Laid(b), NEW offset \in Nat, offset <= b.offsets[Count(b) + 1]
    PROVE  IsAt(b, offset, FindFragment(b, offset))
<1> DEFINE n == Count(b)
           Within(k, r) ==
               /\ r = <<r[1], r[2]>>
               /\ r[1] \in 1 .. n /\ r[2] \in 1 .. n /\ r[1] <= r[2]
               /\ b.offsets[r[1]] <= offset /\ offset <= b.offsets[r[2] + 1]
               /\ r[1] = r[2] \/ r[2] - r[1] + k <= n - 1
<1>1. /\ n \in Nat /\ b.offsets[1] = 0
      /\ \A i \in 1 .. n + 1 : b.offsets[i] \in Nat
  BY LaidTypes
<1>2. CASE n = 0
  BY <1>1, <1>2 DEF IsAt, FindFragment, Count
<1>3. CASE n # 0
  <2>1. PICK f : /\ f[0] = <<1, n>>
                 /\ \A k \in 1 .. n : f[k] = Narrowed(b, offset, f[k - 1])
                 /\ n # 0 => FindFragment(b, offset) = f[n][1]
    <3>1. Count(b) = n /\ n \in Nat
      BY <1>1
    <3> HIDE DEF n
    <3>2. PICK f : NarrowingSteps(b, offset, n, f) /\ (Count(b) = n /\ n # 0 => FindFragment(b, offset) = f[n][1])
      BY <3>1, NarrowingLoop
    <3> QED
      BY <3>1, <3>2 DEF NarrowingSteps
  <2> HIDE DEF n
  <2>2. ASSUME NEW k \in 1 .. n, NEW r, Within(k - 1, r) PROVE Within(k, Narrowed(b, offset, r))
    <3> DEFINE low == r[1]
               high == r[2]
               mid == (high - low) \div 2 + low
    <3>1. low \in 1 .. n /\ high \in 1 .. n /\ low <= high
      BY <2>2
    <3>2. CASE low = high
      <4>1. Narrowed(b, offset, r) = r
        BY <3>1, <3>2 DEF Narrowed
      <4> QED
        BY <4>1, <2>2, <3>2
    <3>3. CASE low # high
      <4>1. low <= mid /\ mid < high /\ mid \in 1 .. n /\ mid + 1 \in 1 .. n
        BY <3>1, <3>3, <1>1
      <4> HIDE DEF mid
      <4>2. b.offsets[mid] \in Nat /\ b.offsets[mid + 1] \in Nat
        <5>1. mid \in 1 .. n + 1 /\ mid + 1 \in 1 .. n + 1
          BY <4>1, <1>1
        <5> QED
          BY <5>1, <1>1
      <4>3. CASE b.offsets[mid] > offset
        <5>1. Narrowed(b, offset, r) = <<low, mid - 1>>
          BY <3>1, <3>3, <4>3 DEF Narrowed, mid
        <5>2. mid # low
          BY <4>2, <4>3, <2>2
        <5>3. mid - 1 \in 1 .. n /\ (mid - 1) + 1 = mid /\ low <= mid - 1
          BY <5>2, <4>1, <3>1, <1>1
        <5>4. offset <= b.offsets[(mid - 1) + 1]
          BY <5>3, <4>2, <4>3
        <5>5. high - low + (k - 1) <= n - 1
          BY <2>2, <3>3
        <5>6. mid - 1 - low + k <= n - 1
          BY <5>5, <4>1, <3>1, <1>1
        <5> HIDE DEF low, high
        <5>7. <<low, mid - 1>>[1] = low /\ <<low, mid - 1>>[2] = mid - 1
          OBVIOUS
        <5>8. b.offsets[low] <= offset
          BY <2>2 DEF low
        <5> QED
          BY <5>1, <5>3, <5>4, <5>6, <5>7, <5>8, <3>1
      <4>4. CASE ~(b.offsets[mid] > offset) /\ b.offsets[mid + 1] > offset
        <5>1. Narrowed(b, offset, r) = <<mid, mid>>
          BY <3>1, <3>3, <4>4 DEF Narrowed, mid
        <5>2. <<mid, mid>>[1] = mid /\ <<mid, mid>>[2] = mid
          OBVIOUS
        <5>3. b.offsets[mid] <= offset /\ offset <= b.offsets[mid + 1]
          BY <4>2, <4>4
        <5> QED
          BY <5>1, <5>2, <5>3, <4>1
      <4>5. CASE ~(b.offsets[mid] > offset) /\ ~(b.offsets[mid + 1] > offset)
        <5>1. Narrowed(b, offset, r) = <<mid + 1, high>>
          BY <3>1, <3>3, <4>5 DEF Narrowed, mid
        <5>2. b.offsets[mid + 1] <= offset /\ mid + 1 <= high
          BY <4>1, <4>2, <4>5, <3>1
        <5>3. high - low + (k - 1) <= n - 1
          BY <2>2, <3>3
        <5>4. high - (mid + 1) + k <= n - 1
          BY <5>3, <4>1, <3>1, <1>1
        <5>5. offset <= b.offsets[high + 1]
          BY <2>2
        <5> HIDE DEF low, high
        <5>6. <<mid + 1, high>>[1] = mid + 1 /\ <<mid + 1, high>>[2] = high
          OBVIOUS
        <5> QED
          BY <5>1, <5>2, <5>4, <5>5, <5>6, <4>1, <3>1
      <4> QED
        BY <4>3, <4>4, <4>5
    <3> QED
      BY <3>2, <3>3
  <2>3. Within(0, f[0])
    <3>1. 1 \in 1 .. n /\ n \in 1 .. n /\ <<1, n>>[1] = 1 /\ <<1, n>>[2] = n
      BY <1>1, <1>3
    <3>2. offset <= b.offsets[n + 1]
      BY DEF n
    <3> QED
      BY <2>1, <3>1, <3>2, <1>1
  <2> HIDE DEF Within
  <2>4. Within(n, f[n])
    <3> DEFINE Good == {k \in 0 .. n : Within(k, f[k])}
    <3>1. 0 \in Good
      BY <2>3, <1>1
    <3>2. ASSUME NEW k \in 1 .. n, k - 1 \in Good PROVE k \in Good
      <4>1. Within(k - 1, f[k - 1]) /\ f[k] = Narrowed(b, offset, f[k - 1])
        BY <3>2, <2>1
      <4> QED
        BY <4>1, <2>2
    <3> HIDE DEF Good
    <3>3. n \in Good
      BY <3>1, <3>2, <1>1, StepByStep
    <3> QED
      BY <3>3 DEF Good
  <2> DEFINE i == f[n][1]
  <2>5. i \in 1 .. n /\ b.offsets[i] <= offset /\ offset <= b.offsets[i + 1]
    BY <2>4, <1>1 DEF Within
  <2> HIDE DEF i
  <2>6. FindFragment(b, offset) = i
    BY <2>1, <1>3 DEF i
  <2> QED
    BY <2>5, <2>6, <1>1 DEF IsAt, n
<1> QED
  BY <1>2, <1>3

Moved(b, offset, i) == [b EXCEPT !.offset = offset, !.current = i]

LEMMA AdvancedIs ==
    ASSUME NEW b, Laid(b), NEW n \in Nat, IsAt(b, b.offset, b.current),
           b.offset + n <= b.offsets[Count(b) + 1]
    PROVE  \E i : Advanced(b, n) = Moved(b, b.offset + n, i)
                  /\ IsAt(b, b.offset + n, i)
<1>1. /\ Count(b) \in Nat /\ b.offset \in Nat /\ b \in Buffer
      /\ \A i \in 1 .. Count(b) + 1 : b.offsets[i] \in Nat
  BY LaidTypes DEF Laid
<1>2. CASE n = 0
  <2>1. b = [b EXCEPT !.offset = b.offset + n, !.current = b.current]
    <3>1. b.offset + n = b.offset
      BY <1>1, <1>2
    <3>2. b = [b EXCEPT !.offset = b.offset, !.current = b.current]
      BY <1>1 DEF Buffer
    <3> QED
      BY <3>1, <3>2
  <2>2. Advanced(b, n) = b
    BY <1>2 DEF Advanced
  <2>3. IsAt(b, b.offset + n, b.current)
    BY <1>1, <1>2
  <2> QED
    BY <2>1, <2>2, <2>3 DEF Moved
<1>3. CASE n # 0
  <2> DEFINE S == {i \in b.current .. Count(b) + 1 :
                     i <= Count(b) => b.offsets[i + 1] > b.offset + n}
             i == Min(S)
  <2>1. b.current \in 1 .. Count(b) + 1 /\ b.offsets[b.current] <= b.offset
    BY DEF IsAt
  <2>2. S \in SUBSET Nat /\ Count(b) + 1 \in S
    BY <2>1, <1>1
  <2>3. i \in S /\ \A j \in S : i <= j
    <3> HIDE DEF S
    <3> QED
      BY <2>2, MinIs
  <2>4. i \in 1 .. Count(b) + 1 /\ (i <= Count(b) => b.offset + n <= b.offsets[i + 1])
    <3>1. i \in b.current .. Count(b) + 1 /\ (i <= Count(b) => b.offsets[i + 1] > b.offset + n)
      BY <2>3
    <3> HIDE DEF i, S
    <3>2. i \in 1 .. Count(b) + 1 /\ (i <= Count(b) => i + 1 \in 1 .. Count(b) + 1)
      BY <3>1, <2>1, <1>1
    <3>3. i <= Count(b) => b.offsets[i + 1] \in Nat
      BY <3>2, <1>1
    <3> QED
      BY <3>1, <3>2, <3>3, <1>1
  <2>5. b.offsets[i] <= b.offset + n
    <3>1. CASE i = b.current
      BY <3>1, <2>1, <1>1
    <3>2. CASE i # b.current
      <4>1. i - 1 \in b.current .. Count(b) + 1 /\ i - 1 <= Count(b) /\ (i - 1) + 1 = i
        BY <3>2, <2>1, <2>3, <1>1
      <4>2. i - 1 \notin S
        BY <4>1, <2>3
      <4>3. ~(b.offsets[(i - 1) + 1] > b.offset + n)
        BY <4>1, <4>2
      <4> HIDE DEF i, S
      <4>4. ~(b.offsets[i] > b.offset + n) /\ b.offsets[i] \in Nat
        BY <4>1, <4>3, <2>4, <1>1
      <4> QED
        BY <4>4, <1>1
    <3> QED
      BY <3>1, <3>2
  <2>6. Advanced(b, n) = [b EXCEPT !.offset = b.offset + n, !.current = i]
    BY <1>3 DEF Advanced, Count
  <2> HIDE DEF i
  <2> QED
    BY <2>4, <2>5, <2>6 DEF IsAt, Moved
<1> QED
  BY <1>2, <1>3

(***************************************************************************)
(* The bytes of a buffer.                                                  *)
(***************************************************************************)

LEMMA FirstPart ==
    ASSUME NEW S, NEW s \in Seq(S), NEW n \in 0 .. Len(s)
    PROVE  /\ SubSeq(s, 1, n) \in Seq(S) /\ Len(SubSeq(s, 1, n)) = n
           /\ \A k \in 1 .. n : SubSeq(s, 1, n)[k] = s[k]
<1>1. n \in Int /\ 1 \in Int /\ \A i \in 1 .. n : s[i] \in S
  BY ElementOfSeq
<1>2. /\ SubSeq(s, 1, n) \in Seq(S)
      /\ Len(SubSeq(s, 1, n)) = IF 1 <= n THEN n - 1 + 1 ELSE 0
      /\ \A i \in 1 .. n - 1 + 1 : SubSeq(s, 1, n)[i] = s[1 + i - 1]
  BY <1>1, SubSeqProperties
<1>3. n - 1 + 1 = n /\ \A i \in 1 .. n : 1 + i - 1 = i
  OBVIOUS
<1>4. Len(SubSeq(s, 1, n)) = n
  BY <1>2, <1>3
<1> QED
  BY <1>2, <1>3, <1>4

LEMMA PartOf ==
    ASSUME NEW S, NEW s \in Seq(S), NEW from \in Nat, NEW upto \in Nat, from <= upto, upto <= Len(s)
    PROVE  /\ SubSeq(s, from + 1, upto) \in Seq(S)
           /\ Len(SubSeq(s, from + 1, upto)) = upto - from
           /\ \A k \in 1 .. upto - from : SubSeq(s, from + 1, upto)[k] = s[from + k]
<1> DEFINE m == from + 1
<1>1. m \in Int /\ upto \in Int /\ \A i \in m .. upto : s[i] \in S
  BY ElementOfSeq
<1>2. /\ SubSeq(s, m, upto) \in Seq(S)
      /\ Len(SubSeq(s, m, upto)) = IF m <= upto THEN upto - m + 1 ELSE 0
      /\ \A i \in 1 .. upto - m + 1 : SubSeq(s, m, upto)[i] = s[m + i - 1]
  <2> HIDE DEF m
  <2> QED
    BY <1>1, SubSeqProperties
<1>3. upto - m + 1 = upto - from /\ \A k \in 1 .. upto - from : m + k - 1 = from + k
  OBVIOUS
<1>4. Len(SubSeq(s, m, upto)) = upto - from
  <2>1. m <= upto <=> from # upto
    OBVIOUS
  <2> QED
    BY <1>2, <1>3, <2>1
<1> QED
  BY <1>2, <1>3, <1>4

\* A buffer's bytes are told fragment by fragment.
LEMMA ContentsAre ==
    ASSUME NEW mem, NEW b, Laid(b), b.size <= b.offsets[Count(b) + 1],
           NEW S, NEW s \in Seq(S), Len(s) = b.size,
           \A i \in 1 .. Count(b), place \in 1 .. b.size :
               b.offsets[i] < place /\ place <= b.offsets[i + 1] => ByteIn(mem, b, i, place) = s[place]
    PROVE  Contents(mem, b) = s
<1> DEFINE byte == [place \in 1 .. b.size |-> ByteIn(mem, b, FragmentAt(b, place), place)]
<1>1. /\ b.size \in Nat /\ b # NULL
      /\ b.offsets[Count(b) + 1] \in Nat
  <2>1. Count(b) + 1 \in 1 .. Count(b) + 1
    BY LaidTypes
  <2> QED
    BY <2>1, LaidTypes, NullAssumption DEF Laid
<1>2. ASSUME NEW place \in 1 .. b.size PROVE ByteIn(mem, b, FragmentAt(b, place), place) = s[place]
  <2>1. place \in 1 .. b.offsets[Count(b) + 1]
    BY <1>1
  <2> QED
    BY <2>1, FragmentExists
<1>3. byte = s
  BY <1>1, <1>2
<1> HIDE DEF byte
<1>4. Contents(mem, b) = byte
  BY <1>1 DEF Contents, byte
<1> QED
  BY <1>3, <1>4

LEMMA ContentsIs ==
    ASSUME NEW mem, NEW freep, NEW b, IsBuffer(mem, freep, b)
    PROVE  /\ Contents(mem, b) \in Bytes /\ Contents(mem, b) # NULL /\ b # NULL
           /\ Len(Contents(mem, b)) = b.size
           /\ \A i \in 1 .. Count(b), place \in 1 .. b.size :
                b.offsets[i] < place /\ place <= b.offsets[i + 1] =>
                    Contents(mem, b)[place] = ByteIn(mem, b, i, place)
<1> DEFINE byte == [place \in 1 .. b.size |-> ByteIn(mem, b, FragmentAt(b, place), place)]
<1> USE DEF IsBuffer
<1>1. /\ b.size \in Nat /\ b # NULL
      /\ b.offsets[Count(b) + 1] \in Nat /\ b.size <= b.offsets[Count(b) + 1]
  <2>1. Count(b) + 1 \in 1 .. Count(b) + 1
    BY LaidTypes
  <2> QED
    BY <2>1, LaidTypes, NullAssumption DEF Laid, Placed
<1>2. ASSUME NEW place \in 1 .. b.size, NEW i \in 1 .. Count(b),
             b.offsets[i] < place, place <= b.offsets[i + 1]
      PROVE  FragmentAt(b, place) = i /\ ByteIn(mem, b, i, place) \in Byte \cup {UNDEFINED}
  <2>1. FragmentAt(b, place) = i
    <3>1. place \in Nat
      BY <1>1
    <3> QED
      BY <1>2, <3>1, FragmentIs
  <2>2. /\ b.offsets[i] \in Nat /\ b.fragments[i].length \in Nat
        /\ b.offsets[i + 1] = b.offsets[i] + b.fragments[i].length
    <3>1. i \in 1 .. Count(b) + 1
      BY LaidTypes
    <3> QED
      BY <3>1, LaidTypes
  <2> DEFINE block == mem[b.fragments[i].data]
  <2>3. block \in Block /\ b.fragments[i].length <= Len(block.bytes)
    BY DEF Backed
  <2> HIDE DEF block
  <2>4. block.bytes \in Seq(Byte \cup {UNDEFINED})
    BY <2>3 DEF Block, Bytes
  <2>5. place - b.offsets[i] \in 1 .. Len(block.bytes)
    BY <1>2, <1>1, <2>2, <2>3, <2>4
  <2>6. block.bytes[place - b.offsets[i]] \in Byte \cup {UNDEFINED}
    BY <2>4, <2>5
  <2> QED
    BY <2>1, <2>6 DEF ByteIn, block
<1>3. ASSUME NEW place \in 1 .. b.size PROVE byte[place] \in Byte \cup {UNDEFINED}
  <2>1. place \in 1 .. b.offsets[Count(b) + 1]
    BY <1>1
  <2>2. byte[place] = ByteIn(mem, b, FragmentAt(b, place), place)
    OBVIOUS
  <2> QED
    BY <2>1, <2>2, <1>2, FragmentExists
<1>4. byte \in Seq(Byte \cup {UNDEFINED}) /\ Len(byte) = b.size
  <2>1. byte \in [1 .. b.size -> Byte \cup {UNDEFINED}]
    BY <1>3
  <2> HIDE DEF byte
  <2> QED
    BY <2>1, <1>1
<1>5. ASSUME NEW i \in 1 .. Count(b), NEW place \in 1 .. b.size,
             b.offsets[i] < place, place <= b.offsets[i + 1]
      PROVE  byte[place] = ByteIn(mem, b, i, place)
  BY <1>5, <1>2
<1> HIDE DEF byte
<1>6. Contents(mem, b) = byte
  BY <1>1 DEF Contents, byte
<1> QED
  BY <1>1, <1>4, <1>5, <1>6, NullAssumption DEF Bytes

\* Memory that a buffer has not, and where it is, do not tell in its bytes.
LEMMA ContentsStay ==
    ASSUME NEW mem, NEW later, NEW freep, NEW b, NEW c, IsBuffer(mem, freep, b),
           \A a \in Held(b) : later[a] = mem[a],
           Laid(c), c.fragments = b.fragments, c.offsets = b.offsets, c.size = b.size
    PROVE  Contents(later, c) = Contents(mem, b)
<1>1. /\ Contents(mem, b) \in Seq(Byte \cup {UNDEFINED}) /\ Len(Contents(mem, b)) = c.size
      /\ Count(c) = Count(b)
      /\ c.size <= c.offsets[Count(c) + 1]
  BY ContentsIs DEF Bytes, IsBuffer, Placed, Count
<1>2. ASSUME NEW i \in 1 .. Count(c), NEW place \in 1 .. c.size,
             c.offsets[i] < place, place <= c.offsets[i + 1]
      PROVE  ByteIn(later, c, i, place) = Contents(mem, b)[place]
  <2>1. i \in 1 .. Count(b) /\ place \in 1 .. b.size /\ b.offsets[i] < place /\ place <= b.offsets[i + 1]
    BY <1>1, <1>2
  <2>2. Contents(mem, b)[place] = ByteIn(mem, b, i, place)
    BY <2>1, ContentsIs
  <2>3. b.fragments[i].data \in Held(b)
    BY <2>1, LaidTypes DEF Held, IsBuffer
  <2> QED
    BY <2>2, <2>3 DEF ByteIn
<1> QED
  BY <1>1, <1>2, ContentsAre

LEMMA ReadIs ==
    ASSUME NEW freep, NEW b, IsBuffer(memory, freep, b), NEW length \in Nat
    PROVE  /\ Len(ReadBytes(b, length)) \in 0 .. b.size - b.offset
           /\ ReadBytes(b, length) =
                SubSeq(Contents(memory, b), b.offset + 1, b.offset + Len(ReadBytes(b, length)))
<1> DEFINE n == Min({length, b.size - b.offset})
           fragment(place) == Min({i \in b.current .. Count(b) : place <= b.offsets[i + 1]})
           bytes == [k \in 1 .. n |-> ByteIn(memory, b, fragment(b.offset + k), b.offset + k)]
           all == Contents(memory, b)
<1> USE DEF IsBuffer
<1>1. /\ Count(b) \in Nat /\ b.size \in Nat /\ b.offset \in Nat /\ b.offset <= b.size
      /\ b.current \in 1 .. Count(b) + 1
      /\ b.offsets[b.current] <= b.offset
      /\ b.current <= Count(b) => b.offset <= b.offsets[b.current + 1]
      /\ b.size <= b.offsets[Count(b) + 1]
      /\ \A i \in 1 .. Count(b) + 1 : b.offsets[i] \in Nat
  BY LaidTypes DEF Placed, IsAt
<1>2. n \in 0 .. b.size - b.offset
  BY <1>1, MinOfTwo
<1> HIDE DEF n
<1>3. ASSUME NEW place \in b.offset + 1 .. b.size
      PROVE  /\ fragment(place) \in 1 .. Count(b)
             /\ b.offsets[fragment(place)] < place /\ place <= b.offsets[fragment(place) + 1]
  <2> DEFINE S == {i \in b.current .. Count(b) : place <= b.offsets[i + 1]}
             i == Min(S)
  <2>1. place \in 1 .. b.offsets[Count(b) + 1] /\ place \in Nat /\ Count(b) + 1 \in 1 .. Count(b) + 1
    BY <1>1
  <2>2. PICK j \in 1 .. Count(b) : b.offsets[j] < place /\ place <= b.offsets[j + 1]
    BY <2>1, FragmentExists
  <2>3. j >= b.current
    <3>1. SUFFICES ASSUME j < b.current PROVE FALSE
      BY <1>1
    <3>2. j \in 1 .. Count(b) + 1 /\ b.offsets[j + 1] <= b.offsets[b.current]
      BY <3>1, <1>1, OffsetsGrow
    <3> QED
      BY <3>2, <2>2, <1>1
  <2>4. j \in S /\ S \in SUBSET Nat
    BY <2>2, <2>3, <1>1
  <2>5. i \in S /\ \A k \in S : i <= k
    <3> HIDE DEF S
    <3> QED
      BY <2>4, MinIs
  <2>6. i \in 1 .. Count(b) /\ place <= b.offsets[i + 1] /\ i <= j /\ i \in b.current .. Count(b)
    BY <2>4, <2>5, <1>1
  <2> HIDE DEF i, S
  <2>7. b.offsets[i] < place
    <3>1. CASE i = j
      BY <3>1, <2>2
    <3>2. CASE i # j
      <4>1. i \in 1 .. Count(b) + 1 /\ j \in 1 .. Count(b) + 1 /\ i < j
        BY <3>2, <2>6, <1>1
      <4>2. b.offsets[i] < b.offsets[j]
        BY <4>1, OffsetsGrow
      <4> QED
        BY <4>1, <4>2, <2>2, <1>1
    <3> QED
      BY <3>1, <3>2
  <2> QED
    BY <2>6, <2>7 DEF i, S
<1> HIDE DEF fragment
<1>4. ASSUME NEW k \in 1 .. n PROVE bytes[k] = all[b.offset + k]
  <2>1. b.offset + k \in b.offset + 1 .. b.size /\ b.offset + k \in 1 .. b.size
    BY <1>1, <1>2
  <2>2. all[b.offset + k] = ByteIn(memory, b, fragment(b.offset + k), b.offset + k)
    BY <2>1, <1>3, ContentsIs
  <2> QED
    BY <2>2
<1>5. bytes = SubSeq(all, b.offset + 1, b.offset + n) /\ Len(bytes) = n
  <2> DEFINE B == Byte \cup {UNDEFINED}
             upto == b.offset + n
  <2>1. all \in Seq(B) /\ Len(all) = b.size
    BY ContentsIs DEF Bytes
  <2> HIDE DEF all, B
  <2>2. upto \in Nat /\ b.offset <= upto /\ upto <= Len(all) /\ upto - b.offset = n
    BY <2>1, <1>1, <1>2
  <2> HIDE DEF upto
  <2>3. /\ SubSeq(all, b.offset + 1, upto) \in Seq(B)
        /\ Len(SubSeq(all, b.offset + 1, upto)) = n
        /\ \A k \in 1 .. n : SubSeq(all, b.offset + 1, upto)[k] = all[b.offset + k]
    <3> DEFINE d == upto - b.offset
    <3>1. /\ SubSeq(all, b.offset + 1, upto) \in Seq(B)
          /\ Len(SubSeq(all, b.offset + 1, upto)) = d
          /\ \A k \in 1 .. d : SubSeq(all, b.offset + 1, upto)[k] = all[b.offset + k]
      <4> DEFINE from == b.offset
      <4>1. from \in Nat /\ upto \in Nat /\ from <= upto /\ upto <= Len(all) /\ all \in Seq(B)
        BY <2>1, <2>2, <1>1
      <4> HIDE DEF from
      <4>2. /\ SubSeq(all, from + 1, upto) \in Seq(B)
            /\ Len(SubSeq(all, from + 1, upto)) = upto - from
            /\ \A k \in 1 .. upto - from : SubSeq(all, from + 1, upto)[k] = all[from + k]
        BY <4>1, PartOf
      <4> QED
        BY <4>2 DEF from
    <3>2. d = n
      BY <2>2
    <3> HIDE DEF d, n
    <3> QED
      BY <3>1, <3>2
  <2> DEFINE part == SubSeq(all, b.offset + 1, upto)
  <2>4. DOMAIN part = 1 .. n /\ part = [k \in DOMAIN part |-> part[k]]
    <3>1. part \in Seq(B) /\ Len(part) = n
      BY <2>3
    <3> HIDE DEF part, n
    <3> QED
      BY <3>1
  <2>5. bytes = part
    <3> HIDE DEF part, bytes
    <3>1. \A k \in 1 .. n : bytes[k] = part[k]
      BY <1>4, <2>3 DEF part
    <3>2. DOMAIN bytes = 1 .. n /\ bytes = [k \in DOMAIN bytes |-> bytes[k]]
      BY DEF bytes
    <3> QED
      BY <2>4, <3>1, <3>2
  <2> HIDE DEF bytes
  <2> QED
    BY <2>3, <2>5 DEF upto
<1> HIDE DEF bytes
<1>6. ReadBytes(b, length) = bytes
  BY DEF ReadBytes, bytes, n, fragment, Count
<1> QED
  BY <1>2, <1>5, <1>6

(***************************************************************************)
(* The ownership of memory.                                                *)
(***************************************************************************)

LEMMA HeldIs ==
    ASSUME NEW b, Laid(b)
    PROVE  /\ b # NULL /\ HeldBy(b) = Held(b)
           /\ Held(b) \subseteq Addresses
           /\ \A a : a \in Held(b) <=> \E i \in 1 .. Count(b) : b.fragments[i].data = a
<1>1. b # NULL
  BY NullAssumption DEF Laid
<1>2. DOMAIN b.fragments = 1 .. Count(b) /\ \A i \in 1 .. Count(b) : b.fragments[i].data \in Addresses
  BY LaidTypes
<1> QED
  BY <1>1, <1>2 DEF HeldBy, Held

\* Where a buffer is read or written and whether it shares do not matter for
\* its fragments.
LEMMA SameFragments ==
    ASSUME NEW mem, NEW later, NEW freep, NEW b, NEW c,
           Laid(b), Backed(mem, freep, b), \A a \in Held(b) : later[a] = mem[a],
           c \in Buffer, c.fragments = b.fragments, c.offsets = b.offsets
    PROVE  /\ Laid(c) /\ Backed(later, freep, c) /\ Held(c) = Held(b) /\ Count(c) = Count(b)
           /\ \A offset, i : IsAt(b, offset, i) => IsAt(c, offset, i)
<1>1. Count(c) = Count(b) /\ Held(c) = Held(b)
  BY DEF Count, Held
<1>2. Laid(c)
  BY <1>1 DEF Laid
<1>3. \A i \in 1 .. Count(b) : later[b.fragments[i].data] = mem[b.fragments[i].data]
  BY HeldIs
<1>4. Backed(later, freep, c)
  BY <1>1, <1>3 DEF Backed
<1>5. \A offset, i : IsAt(b, offset, i) => IsAt(c, offset, i)
  BY <1>1 DEF IsAt
<1> QED
  BY <1>1, <1>2, <1>4, <1>5

LEMMA UnsharedIs ==
    ASSUME NEW mem, NEW later, NEW freep, NEW b,
           IsBuffer(mem, freep, b), \A a \in Held(b) : later[a] = mem[a]
    PROVE  /\ Unshared(b) = [b EXCEPT !.shared_buffer = FALSE]
           /\ IsBuffer(later, freep, Unshared(b)) /\ Held(Unshared(b)) = Held(b)
           /\ ~Unshared(b).shared_buffer
           /\ Unshared(b).fragments = b.fragments /\ Unshared(b).offsets = b.offsets
           /\ Unshared(b).size = b.size /\ Unshared(b).offset = b.offset
<1> DEFINE c == [b EXCEPT !.shared_buffer = FALSE]
<1>1. Laid(b) /\ Placed(b) /\ Backed(mem, freep, b) /\ b \in Buffer /\ b # NULL
  BY HeldIs DEF IsBuffer, Laid
<1>2. /\ c \in Buffer /\ ~c.shared_buffer /\ c.fragments = b.fragments /\ c.offsets = b.offsets
      /\ c.size = b.size /\ c.offset = b.offset /\ c.current = b.current
  BY <1>1 DEF Buffer
<1> HIDE DEF c
<1>3. /\ Laid(c) /\ Backed(later, freep, c) /\ Held(c) = Held(b) /\ Count(c) = Count(b)
      /\ \A offset, i : IsAt(b, offset, i) => IsAt(c, offset, i)
  BY <1>1, <1>2, SameFragments
<1>4. Placed(c)
  BY <1>1, <1>2, <1>3 DEF Placed
<1>5. Unshared(b) = c
  BY <1>1 DEF Unshared, c
<1> QED
  BY <1>2, <1>3, <1>4, <1>5 DEF IsBuffer, c

LEMMA OwnedBoth ==
    ASSUME NEW mem, NEW freep, NEW b, NEW other, Owned(mem, freep, b, other)
    PROVE  Owned(mem, freep, other, b)
<1>1. b # NULL /\ other # NULL => Sharing(other, b)
  <2>1. SUFFICES ASSUME b # NULL, other # NULL PROVE Sharing(other, b)
    OBVIOUS
  <2>2. Sharing(b, other)
    BY <2>1 DEF Owned
  <2> QED
    BY <2>2 DEF Sharing
<1> QED
  BY <1>1 DEF Owned

\* buffer_free: the other buffer keeps its memory, and nothing is lost.
LEMMA Release ==
    ASSUME NEW mem, NEW freep \in BOOLEAN, NEW b, NEW other, Owned(mem, freep, b, other), b # NULL
    PROVE  /\ Owned(Freed(mem, FreedFragments(b, other)), freep, NULL, Unshared(other))
           /\ \A a \in HeldBy(other) : Freed(mem, FreedFragments(b, other))[a] = mem[a]
           /\ \A a \in Addresses :
                \/ Freed(mem, FreedFragments(b, other))[a] = mem[a]
                \/ Freed(mem, FreedFragments(b, other))[a] = NULL /\ (mem[a].user => freep)
<1> DEFINE F == FreedFragments(b, other)
           later == Freed(mem, F)
<1>1. /\ mem \in [Addresses -> Block \cup {NULL}]
      /\ Laid(b) /\ Backed(mem, freep, b)
      /\ other # NULL => IsBuffer(mem, freep, other) /\ Laid(other) /\ Sharing(b, other)
      /\ other = NULL => ~b.shared_buffer
      /\ \A a \in Addresses :
           mem[a] # NULL => a \in HeldBy(b) \cup HeldBy(other) \/ (mem[a].user /\ ~freep)
  BY DEF Owned, IsBuffer
<1>2. /\ HeldBy(b) = Held(b)
      /\ \A a : a \in HeldBy(b) <=> \E i \in 1 .. Count(b) : b.fragments[i].data = a
      /\ DOMAIN b.fragments = 1 .. Count(b)
  BY <1>1, HeldIs, LaidTypes
<1>3. ASSUME other # NULL
      PROVE  /\ HeldBy(other) = Held(other) /\ Held(other) \subseteq Addresses
             /\ \A a : a \in HeldBy(other) <=> \E i \in 1 .. Count(other) : other.fragments[i].data = a
             /\ DOMAIN other.fragments = 1 .. Count(other)
  BY <1>1, <1>3, HeldIs, LaidTypes
<1>4. \A a : a \in F <=> \E i \in 1 .. Count(b) : /\ b.fragments[i].data = a
                                                 /\ b.fragments[i].free_data /\ ~IsShared(b, other, i)
  BY <1>2 DEF FreedFragments
<1>5. ASSUME NEW a \in F
      PROVE  a \in Addresses /\ mem[a] \in Block /\ a \notin HeldBy(other) /\ (mem[a].user => freep)
  <2>1. PICK i \in 1 .. Count(b) : /\ b.fragments[i].data = a
                                   /\ b.fragments[i].free_data /\ ~IsShared(b, other, i)
    BY <1>4, <1>5
  <2>2. mem[a] \in Block /\ b.fragments[i].free_data = (freep \/ ~mem[a].user)
    BY <2>1, <1>1 DEF Backed
  <2>3. a \in Addresses
    BY <2>1, <1>1, LaidTypes
  <2>4. ASSUME a \in HeldBy(other) PROVE FALSE
    <3>1. other # NULL
      BY <2>4 DEF HeldBy
    <3>2. PICK j \in 1 .. Count(other) : other.fragments[j].data = a
      BY <2>4, <3>1, <1>3
    <3>3. i = j /\ b.shared_buffer
      BY <3>1, <3>2, <2>1, <1>1 DEF Sharing
    <3>4. Count(other) \in Nat /\ i <= Len(other.fragments)
      BY <3>1, <3>2, <3>3, <1>1, LaidTypes DEF Count
    <3> QED
      BY <3>2, <3>3, <3>4, <2>1 DEF IsShared
  <2> QED
    BY <2>1, <2>2, <2>3, <2>4
<1> HIDE DEF F
<1>6. ASSUME NEW a \in Addresses
      PROVE  later[a] = IF a \in F THEN NULL ELSE mem[a]
  <2>1. a \in F => mem[a] # NULL
    BY <1>5, NullAssumption
  <2> QED
    BY <2>1 DEF Freed
<1>7. later \in [Addresses -> Block \cup {NULL}]
  <2>1. later = [a \in Addresses |-> later[a]]
    BY DEF Freed
  <2> HIDE DEF later
  <2> QED
    BY <2>1, <1>1, <1>6
<1> HIDE DEF later
<1>8. \A a \in HeldBy(other) : later[a] = mem[a]
  <2>1. \A a \in HeldBy(other) : a \in Addresses
    BY <1>3 DEF HeldBy
  <2> QED
    BY <2>1, <1>5, <1>6
<1>9. other # NULL =>
        /\ IsBuffer(later, freep, Unshared(other)) /\ Unshared(other) # NULL
        /\ ~Unshared(other).shared_buffer /\ HeldBy(Unshared(other)) = HeldBy(other)
  <2>1. SUFFICES ASSUME other # NULL
                 PROVE  /\ IsBuffer(later, freep, Unshared(other)) /\ Unshared(other) # NULL
                        /\ ~Unshared(other).shared_buffer /\ HeldBy(Unshared(other)) = HeldBy(other)
    OBVIOUS
  <2>2. /\ IsBuffer(later, freep, Unshared(other)) /\ Held(Unshared(other)) = Held(other)
        /\ ~Unshared(other).shared_buffer
    BY <2>1, <1>1, <1>3, <1>8, UnsharedIs
  <2>3. Unshared(other) # NULL /\ HeldBy(Unshared(other)) = Held(Unshared(other))
    BY <2>2, HeldIs DEF IsBuffer
  <2> QED
    BY <2>1, <2>2, <2>3, <1>3
<1>10. other = NULL => Unshared(other) = NULL
  BY DEF Unshared
<1>11. ASSUME NEW a \in Addresses, later[a] # NULL, a \notin HeldBy(Unshared(other))
       PROVE  later[a].user /\ ~freep
  <2>1. a \notin F /\ later[a] = mem[a] /\ mem[a] # NULL
    BY <1>11, <1>6
  <2>2. a \notin HeldBy(other)
    BY <1>9, <1>10, <1>11
  <2>3. CASE a \in HeldBy(b)
    <3>1. PICK i \in 1 .. Count(b) : b.fragments[i].data = a
      BY <2>3, <1>2
    <3>2. ~IsShared(b, other, i)
      <4>1. SUFFICES ASSUME IsShared(b, other, i) PROVE FALSE
        OBVIOUS
      <4>2. b.shared_buffer /\ i <= Len(other.fragments) /\ other.fragments[i].data = a
        BY <4>1, <3>1 DEF IsShared
      <4>3. other # NULL
        BY <4>2, <1>1
      <4>4. i \in 1 .. Count(other)
        BY <4>2, <4>3, <1>1, LaidTypes DEF Count
      <4> QED
        BY <4>2, <4>3, <4>4, <1>3, <2>2
    <3>3. ~b.fragments[i].free_data
      BY <3>1, <3>2, <2>1, <1>4
    <3>4. b.fragments[i].free_data = (freep \/ ~mem[a].user)
      BY <3>1, <1>1 DEF Backed
    <3> QED
      BY <3>3, <3>4, <2>1
  <2>4. CASE a \notin HeldBy(b)
    BY <2>1, <2>2, <2>4, <1>1
  <2> QED
    BY <2>3, <2>4
<1>12. Owned(later, freep, NULL, Unshared(other))
  BY <1>7, <1>9, <1>10, <1>11 DEF Owned, HeldBy
<1>13. \A a \in Addresses : later[a] = mem[a] \/ (later[a] = NULL /\ (mem[a].user => freep))
  BY <1>5, <1>6
<1> QED
  BY <1>8, <1>12, <1>13 DEF later, F

(***************************************************************************)
(* What the calls make of a buffer.                                        *)
(***************************************************************************)

\* Reading and seeking only move.
LEMMA MovedIs ==
    ASSUME NEW mem, NEW freep, NEW b, NEW other, Owned(mem, freep, b, other), b # NULL,
           NEW offset \in Nat, NEW i, offset <= b.size, IsAt(b, offset, i)
    PROVE  LET c == Moved(b, offset, i)
           IN /\ Owned(mem, freep, c, other) /\ c # NULL
              /\ Contents(mem, c) = Contents(mem, b)
              /\ c.offset = offset /\ c.fragments = b.fragments /\ Count(c) = Count(b)
<1> DEFINE c == Moved(b, offset, i)
<1>1. Laid(b) /\ Placed(b) /\ Backed(mem, freep, b) /\ b \in Buffer /\ IsBuffer(mem, freep, b)
  BY DEF Owned, IsBuffer, Laid
<1>2. i \in Nat
  BY <1>1, LaidTypes DEF IsAt
<1>3. /\ c \in Buffer /\ c.shared_buffer = b.shared_buffer
      /\ c.fragments = b.fragments /\ c.offsets = b.offsets
      /\ c.size = b.size /\ c.offset = offset /\ c.current = i
  BY <1>1, <1>2 DEF Buffer, Moved
<1> HIDE DEF c
<1>4. /\ Laid(c) /\ Backed(mem, freep, c) /\ Held(c) = Held(b) /\ Count(c) = Count(b)
      /\ \A o, j : IsAt(b, o, j) => IsAt(c, o, j)
  <2> DEFINE later == mem
  <2>1. \A a \in Held(b) : later[a] = mem[a]
    OBVIOUS
  <2> HIDE DEF later
  <2>2. /\ Laid(c) /\ Backed(later, freep, c) /\ Held(c) = Held(b) /\ Count(c) = Count(b)
        /\ \A o, j : IsAt(b, o, j) => IsAt(c, o, j)
    BY <1>1, <1>3, <2>1, SameFragments
  <2> QED
    BY <2>2 DEF later
<1>5. Placed(c)
  BY <1>1, <1>3, <1>4 DEF Placed
<1>6. c # NULL /\ HeldBy(c) = HeldBy(b)
  BY <1>1, <1>4, HeldIs
<1>7. other # NULL => Sharing(c, other)
  <2>1. SUFFICES ASSUME other # NULL PROVE Sharing(c, other)
    OBVIOUS
  <2>2. Sharing(b, other)
    BY <2>1 DEF Owned
  <2> QED
    BY <2>2, <1>3, <1>4 DEF Sharing
<1>8. Owned(mem, freep, c, other)
  BY <1>3, <1>4, <1>5, <1>6, <1>7 DEF Owned, IsBuffer
<1>9. Contents(mem, c) = Contents(mem, b)
  <2> DEFINE later == mem
  <2>1. \A a \in Held(b) : later[a] = mem[a]
    OBVIOUS
  <2> HIDE DEF later
  <2>2. Contents(later, c) = Contents(mem, b)
    BY <1>1, <1>3, <1>4, <2>1, ContentsStay
  <2> QED
    BY <2>2 DEF later
<1> QED
  BY <1>3, <1>4, <1>6, <1>8, <1>9 DEF c

LEMMA SoughtIs ==
    ASSUME NEW b, Laid(b), Placed(b), NEW offset, NEW whence,
           ~(ComputeOffset(b, offset, whence) < 0)
    PROVE  LET at == ComputeOffset(b, offset, whence)
           IN /\ at \in 0 .. b.size
              /\ Sought(b, at) = Moved(b, at, FindFragment(b, at))
              /\ IsAt(b, at, FindFragment(b, at))
<1> DEFINE at == ComputeOffset(b, offset, whence)
<1>1. b.size \in Nat /\ b.size <= b.offsets[Count(b) + 1] /\ b.offsets[Count(b) + 1] \in Nat
  <2>1. Count(b) + 1 \in 1 .. Count(b) + 1
    BY LaidTypes
  <2> QED
    BY <2>1, LaidTypes DEF Placed
<1>2. at \in 0 .. b.size
  <2> DEFINE sought == CASE whence = "SET" -> offset
                          [] whence = "CUR" -> b.offset + offset
                          [] whence = "END" -> b.size + offset
  <2>1. at = IF sought \in 0 .. b.size THEN sought ELSE -1
    BY DEF ComputeOffset
  <2> HIDE DEF sought, at
  <2>2. ~(at < 0)
    BY DEF at
  <2> QED
    BY <2>1, <2>2
<1> HIDE DEF at
<1>3. at \in Nat /\ at <= b.offsets[Count(b) + 1]
  BY <1>1, <1>2
<1>4. IsAt(b, at, FindFragment(b, at))
  BY <1>3, FindFragmentIs
<1> QED
  BY <1>2, <1>4 DEF Sought, Moved, at

LEMMA NewBufferIs ==
    ASSUME NEW mem, NEW freep
    PROVE  /\ IsBuffer(mem, freep, NewBuffer) /\ NewBuffer # NULL /\ HeldBy(NewBuffer) = {}
           /\ Count(NewBuffer) = 0 /\ NewBuffer.offset = 0 /\ ~NewBuffer.shared_buffer
           /\ Contents(mem, NewBuffer) = <<>>
<1> DEFINE b == NewBuffer
<1>1. /\ b.fragments = <<>> /\ b.offsets = <<0>> /\ b.capacity = 0 /\ b.shared_buffer = FALSE
      /\ b.size = 0 /\ b.offset = 0 /\ b.current = 1
  BY DEF NewBuffer
<1>2. b \in Buffer
  <2>1. <<>> \in Seq(Fragment) /\ <<0>> \in Seq(Nat)
    OBVIOUS
  <2> QED
    BY <2>1 DEF NewBuffer, Buffer
<1> HIDE DEF b
<1>3. Count(b) = 0 /\ Len(b.offsets) = 1 /\ b.offsets[1] = 0 /\ 1 .. Count(b) = {}
  BY <1>1 DEF Count
<1>4. Laid(b) /\ Placed(b) /\ Backed(mem, freep, b)
  BY <1>1, <1>2, <1>3 DEF Laid, Placed, Backed, IsAt
<1>5. HeldBy(b) = {} /\ b # NULL
  BY <1>3, <1>4, HeldIs
<1>6. Contents(mem, b) = <<>>
  <2>1. <<>> \in Seq(Byte) /\ Len(<<>>) = b.size
    BY <1>1
  <2>2. b.size <= b.offsets[Count(b) + 1] /\ \A i \in 1 .. Count(b), place \in 1 .. b.size :
            b.offsets[i] < place /\ place <= b.offsets[i + 1] => ByteIn(mem, b, i, place) = <<>>[place]
    BY <1>1, <1>3
  <2> QED
    BY <2>1, <2>2, <1>4, ContentsAre
<1> QED
  BY <1>1, <1>3, <1>4, <1>5, <1>6 DEF IsBuffer, b

\* The fragment that a clone ends in.
LEMMA LastFragmentIs ==
    ASSUME NEW b, Laid(b), Placed(b), NEW offset \in Nat \ {0}, offset <= b.size
    PROVE  /\ LastFragment(b, offset) \in 1 .. Count(b)
           /\ b.offsets[LastFragment(b, offset)] < offset
           /\ offset <= b.offsets[LastFragment(b, offset) + 1]
<1> DEFINE i == FindFragment(b, offset)
<1>1. /\ Count(b) \in Nat /\ b.offsets[1] = 0 /\ b.size \in Nat
      /\ \A j \in 1 .. Count(b) + 1 : b.offsets[j] \in Nat
      /\ b.size <= b.offsets[Count(b) + 1]
  BY LaidTypes DEF Placed
<1>2. b.offsets[Count(b) + 1] \in Nat /\ offset <= b.offsets[Count(b) + 1]
  BY <1>1
<1>3. i \in 1 .. Count(b) + 1 /\ b.offsets[i] <= offset /\ (i <= Count(b) => offset <= b.offsets[i + 1])
  BY <1>2, FindFragmentIs DEF IsAt
<1>4. LastFragment(b, offset) = IF b.offsets[i] = offset THEN i - 1 ELSE i
  BY DEF LastFragment
<1> HIDE DEF i
<1>5. CASE b.offsets[i] = offset
  <2>1. i # 1
    BY <1>5, <1>1
  <2>2. i - 1 \in 1 .. Count(b) /\ i - 1 \in 1 .. Count(b) + 1 /\ (i - 1) + 1 = i /\ i - 1 < i
    BY <2>1, <1>1, <1>3
  <2>3. b.offsets[i - 1] < b.offsets[i]
    BY <2>2, <1>3, OffsetsGrow
  <2> QED
    BY <2>2, <2>3, <1>4, <1>5
<1>6. CASE b.offsets[i] # offset
  <2>1. i # Count(b) + 1
    BY <1>1, <1>2, <1>3, <1>6
  <2> QED
    BY <2>1, <1>1, <1>3, <1>4, <1>6
<1> QED
  BY <1>5, <1>6

\* The buffer of a writer that begins with a clone.
CloneAt(b, offset) ==
    [Cloned(b, offset) EXCEPT !.offset = offset, !.current = Len(Cloned(b, offset).fragments) + 1]

\* It has the fragments of the other up to one, of which it has a part.
LEMMA CloneFields ==
    ASSUME NEW b, Laid(b), Placed(b), NEW offset \in Nat \ {0}, offset <= b.size,
           NEW last, last = LastFragment(b, offset), NEW c, c = CloneAt(b, offset)
    PROVE  /\ c \in Buffer /\ Count(c) = last /\ c.shared_buffer
           /\ c.size = offset /\ c.offset = offset /\ c.current = last + 1
           /\ Len(c.offsets) = last + 1
           /\ \A i \in 1 .. last :
                /\ c.offsets[i] = b.offsets[i]
                /\ c.fragments[i].data = b.fragments[i].data
                /\ c.fragments[i].free_data = b.fragments[i].free_data
                /\ i < last => c.fragments[i].length = b.fragments[i].length
           /\ c.offsets[last + 1] = offset
           /\ c.fragments[last].length = offset - b.offsets[last]
<1> DEFINE old == b.fragments[last]
           length == offset - b.offsets[last]
           cut == [old EXCEPT !.length = length]
           part == SubSeq(b.fragments, 1, last)
           fs == [part EXCEPT ![last] = cut]
           os == Append(SubSeq(b.offsets, 1, last), offset)
<1>1. last \in 1 .. Count(b) /\ b.offsets[last] < offset
  BY LastFragmentIs
<1>2. /\ Count(b) \in Nat /\ b.fragments \in Seq(Fragment) /\ Len(b.fragments) = Count(b)
      /\ b.offsets \in Seq(Nat) /\ Len(b.offsets) = Count(b) + 1
  BY LaidTypes DEF Laid, Count
<1>3. b.offsets[last] \in Nat
  <2>1. last \in 1 .. Count(b) + 1
    BY <1>1, <1>2
  <2> QED
    BY <2>1, LaidTypes
<1>4. length \in Nat
  BY <1>1, <1>3
<1>5. old \in Fragment
  BY <1>1, LaidTypes
<1>6. /\ part \in Seq(Fragment) /\ Len(part) = last
      /\ \A i \in 1 .. last : part[i] = b.fragments[i]
  <2>1. last \in 0 .. Len(b.fragments)
    BY <1>1, <1>2
  <2> QED
    BY <2>1, <1>2, FirstPart
<1>7. /\ SubSeq(b.offsets, 1, last) \in Seq(Nat) /\ Len(SubSeq(b.offsets, 1, last)) = last
      /\ \A i \in 1 .. last : SubSeq(b.offsets, 1, last)[i] = b.offsets[i]
  <2>1. last \in 0 .. Len(b.offsets)
    BY <1>1, <1>2
  <2> QED
    BY <2>1, <1>2, FirstPart
<1>8. cut \in Fragment /\ cut.length = length /\ cut.data = old.data /\ cut.free_data = old.free_data
  BY <1>4, <1>5 DEF Fragment
<1>9. c = [NewBuffer EXCEPT !.fragments = [part EXCEPT ![last].length = length],
               !.offsets = os, !.capacity = last, !.size = offset, !.shared_buffer = TRUE,
               !.offset = offset, !.current = Len([part EXCEPT ![last].length = length]) + 1]
  BY DEF CloneAt, Cloned, NewBuffer
<1>10. [part EXCEPT ![last].length = length] = fs
  <2>1. part[last] = old
    <3>1. last \in 1 .. last
      BY <1>1, <1>2
    <3> HIDE DEF part
    <3> QED
      BY <3>1, <1>6
  <2> HIDE DEF part, old, length
  <2>2. [part EXCEPT ![last].length = length] = [part EXCEPT ![last] = [part[last] EXCEPT !.length = length]]
    OBVIOUS
  <2> QED
    BY <2>1, <2>2
<1> HIDE DEF cut, part
<1>11. /\ fs \in Seq(Fragment) /\ Len(fs) = last
       /\ \A i \in 1 .. last : fs[i] = IF i = last THEN cut ELSE b.fragments[i]
  BY <1>1, <1>2, <1>6, <1>8
<1>12. /\ os \in Seq(Nat) /\ Len(os) = last + 1 /\ os[last + 1] = offset
       /\ \A i \in 1 .. last : os[i] = b.offsets[i]
  <2> DEFINE o == SubSeq(b.offsets, 1, last)
  <2> HIDE DEF o
  <2>1. /\ Append(o, offset) \in Seq(Nat) /\ Len(Append(o, offset)) = last + 1
        /\ Append(o, offset)[last + 1] = offset
        /\ \A i \in 1 .. last : Append(o, offset)[i] = o[i]
    BY <1>7, AppendProperties DEF o
  <2> QED
    BY <2>1, <1>7 DEF o
<1> HIDE DEF fs, os, length
<1>13. c = [fragments |-> fs, offsets |-> os, capacity |-> last, shared_buffer |-> TRUE,
            size |-> offset, offset |-> offset, current |-> last + 1]
  BY <1>9, <1>10, <1>11 DEF NewBuffer
<1>14. c \in Buffer /\ Count(c) = last
  BY <1>1, <1>2, <1>11, <1>12, <1>13 DEF Buffer, Count
<1>15. /\ c.fragments = fs /\ c.offsets = os /\ c.shared_buffer
       /\ c.size = offset /\ c.offset = offset /\ c.current = last + 1
  BY <1>13
<1>16. ASSUME NEW i \in 1 .. last
       PROVE  /\ fs[i].data = b.fragments[i].data
              /\ fs[i].free_data = b.fragments[i].free_data
              /\ i < last => fs[i].length = b.fragments[i].length
  <2>1. CASE i = last
    BY <2>1, <1>8, <1>11
  <2>2. CASE i # last
    BY <2>2, <1>11
  <2> QED
    BY <2>1, <2>2
<1>17. fs[last].length = length
  BY <1>1, <1>2, <1>8, <1>11
<1> QED
  BY <1>12, <1>14, <1>15, <1>16, <1>17 DEF length

\* The buffer that a clone was made of.
Cloning(b) == [b EXCEPT !.shared_buffer = TRUE]

\* A clone shares its memory, and has the first bytes.
LEMMA CloneIs ==
    ASSUME NEW mem, NEW freep, NEW b, Owned(mem, freep, b, NULL), b # NULL,
           NEW offset \in Nat \ {0}, CanClone(b, offset)
    PROVE  LET c == CloneAt(b, offset)
               shared == Cloning(b)
           IN /\ Owned(mem, freep, shared, c) /\ Borrowed(mem, shared, c)
              /\ c # NULL /\ c.offset = offset
              /\ shared # NULL /\ shared.offset = b.offset
              /\ offset <= b.size
              /\ Contents(mem, shared) = Contents(mem, b)
              /\ Contents(mem, c) = SubSeq(Contents(mem, b), 1, offset)
<1> DEFINE c == CloneAt(b, offset)
           shared == Cloning(b)
           last == LastFragment(b, offset)
<1>1. /\ Laid(b) /\ Placed(b) /\ Backed(mem, freep, b) /\ IsBuffer(mem, freep, b) /\ b \in Buffer
      /\ offset <= b.size
      /\ mem \in [Addresses -> Block \cup {NULL}]
      /\ \A a \in Addresses : mem[a] # NULL => a \in HeldBy(b) \/ (mem[a].user /\ ~freep)
  BY DEF Owned, IsBuffer, Laid, CanClone, HeldBy
<1>2. /\ last \in 1 .. Count(b) /\ b.offsets[last] < offset /\ offset <= b.offsets[last + 1]
  BY <1>1, LastFragmentIs
<1> HIDE DEF last
<1>3. /\ c \in Buffer /\ Count(c) = last /\ c.shared_buffer
      /\ c.size = offset /\ c.offset = offset /\ c.current = last + 1
      /\ Len(c.offsets) = last + 1
      /\ \A i \in 1 .. last :
           /\ c.offsets[i] = b.offsets[i]
           /\ c.fragments[i].data = b.fragments[i].data
           /\ c.fragments[i].free_data = b.fragments[i].free_data
           /\ i < last => c.fragments[i].length = b.fragments[i].length
      /\ c.offsets[last + 1] = offset
      /\ c.fragments[last].length = offset - b.offsets[last]
  BY <1>1, CloneFields DEF last
<1>4. /\ Count(b) \in Nat /\ b.offsets[1] = 0
      /\ \A i \in 1 .. Count(b) + 1 : b.offsets[i] \in Nat
      /\ \A i \in 1 .. Count(b) : /\ b.fragments[i].length \in Nat \ {0}
                                  /\ b.offsets[i + 1] = b.offsets[i] + b.fragments[i].length
  BY <1>1, LaidTypes
<1>5. /\ shared \in Buffer /\ shared.shared_buffer
      /\ shared.fragments = b.fragments /\ shared.offsets = b.offsets
      /\ shared.size = b.size /\ shared.offset = b.offset /\ shared.current = b.current
  BY <1>1 DEF Buffer, Cloning
<1> HIDE DEF c, shared
<1>6. \A i \in 1 .. last : i \in 1 .. Count(b) /\ i \in 1 .. Count(b) + 1 /\ i + 1 \in 1 .. Count(b) + 1
  BY <1>2, <1>4
<1>7. ASSUME NEW i \in 1 .. last
      PROVE  /\ c.fragments[i].length > 0 /\ c.offsets[i + 1] = c.offsets[i] + c.fragments[i].length
             /\ c.fragments[i].length <= b.fragments[i].length
             /\ c.offsets[i + 1] <= b.offsets[i + 1]
  <2>1. b.offsets[i] \in Nat /\ b.fragments[i].length \in Nat \ {0}
        /\ b.offsets[i + 1] = b.offsets[i] + b.fragments[i].length /\ c.offsets[i] = b.offsets[i]
    BY <1>3, <1>4, <1>6
  <2>2. CASE i = last
    BY <2>1, <2>2, <1>2, <1>3
  <2>3. CASE i # last
    <3>1. i < last /\ i + 1 \in 1 .. last
      BY <2>3, <1>2, <1>4
    <3>2. c.offsets[i + 1] = b.offsets[i + 1] /\ c.fragments[i].length = b.fragments[i].length
      BY <3>1, <1>3
    <3> QED
      BY <2>1, <3>2
  <2> QED
    BY <2>2, <2>3
<1>8. Laid(c)
  <2>1. 1 \in 1 .. last
    BY <1>2, <1>4
  <2>2. c.offsets[1] = 0
    BY <2>1, <1>3, <1>4
  <2> QED
    BY <2>2, <1>3, <1>7 DEF Laid
<1>9. Placed(c)
  <2>1. last + 1 \in 1 .. last + 1 /\ ~(last + 1 <= last)
    BY <1>2, <1>4
  <2> QED
    BY <2>1, <1>3 DEF Placed, IsAt
<1>10. Backed(mem, freep, c)
  <2>1. ASSUME NEW i \in 1 .. last
        PROVE  /\ mem[c.fragments[i].data] \in Block
               /\ c.fragments[i].length <= Len(mem[c.fragments[i].data].bytes)
               /\ c.fragments[i].free_data = (freep \/ ~mem[c.fragments[i].data].user)
    <3> DEFINE block == mem[b.fragments[i].data]
    <3>1. /\ block \in Block /\ b.fragments[i].length <= Len(block.bytes)
          /\ b.fragments[i].free_data = (freep \/ ~block.user)
      BY <1>1, <1>6 DEF Backed
    <3>2. Len(block.bytes) \in Nat
      BY <3>1 DEF Block, Bytes
    <3>3. b.fragments[i].length \in Nat /\ c.fragments[i].length \in Nat
      <4>1. c.offsets[i] \in Nat /\ c.fragments[i].length \in Nat
        BY <1>3, <1>8, LaidTypes
      <4> QED
        BY <4>1, <1>4, <1>6
    <3>4. c.fragments[i].length <= Len(block.bytes)
      <4> HIDE DEF block
      <4> QED
        BY <3>1, <3>2, <3>3, <1>7
    <3> QED
      BY <3>1, <3>4, <1>3
  <2>2. \A i, j \in 1 .. last : c.fragments[i].data = c.fragments[j].data => i = j
    BY <1>1, <1>3, <1>6 DEF Backed
  <2> QED
    BY <2>1, <2>2, <1>3 DEF Backed
<1>11. /\ IsBuffer(mem, freep, shared) /\ Held(shared) = Held(b) /\ Count(shared) = Count(b)
       /\ Contents(mem, shared) = Contents(mem, b)
  <2> DEFINE later == mem
  <2>1. \A a \in Held(b) : later[a] = mem[a]
    OBVIOUS
  <2> HIDE DEF later
  <2>2. /\ Laid(shared) /\ Backed(later, freep, shared) /\ Held(shared) = Held(b) /\ Count(shared) = Count(b)
        /\ \A o, j : IsAt(b, o, j) => IsAt(shared, o, j)
    <3>1. /\ Laid(b) /\ Backed(mem, freep, b)
          /\ shared \in Buffer /\ shared.fragments = b.fragments /\ shared.offsets = b.offsets
      BY <1>1, <1>5
    <3> QED
      BY ONLY <3>1, <2>1, SameFragments
  <2>3. Placed(shared)
    BY <2>2, <1>1, <1>5 DEF Placed
  <2>4. Contents(later, shared) = Contents(mem, b)
    BY <1>1, <1>5, <2>1, <2>2, ContentsStay
  <2> QED
    BY <2>2, <2>3, <2>4 DEF IsBuffer, later
<1>12. Sharing(shared, c)
  <2>1. ASSUME NEW i \in 1 .. Count(b), NEW j \in 1 .. last,
               b.fragments[i].data = c.fragments[j].data
        PROVE  i = j
    BY <2>1, <1>1, <1>3, <1>6 DEF Backed
  <2> QED
    BY <2>1, <1>3, <1>5, <1>11 DEF Sharing
<1>13. c # NULL /\ shared # NULL /\ HeldBy(shared) = HeldBy(b)
  BY <1>1, <1>8, <1>11, HeldIs DEF IsBuffer
<1>14. Owned(mem, freep, shared, c)
  BY <1>1, <1>8, <1>9, <1>10, <1>11, <1>12, <1>13 DEF Owned, IsBuffer
<1>15. Borrowed(mem, shared, c)
  BY <1>3, <1>5, <1>6, <1>11 DEF Borrowed
<1>16. Contents(mem, c) = SubSeq(Contents(mem, b), 1, offset)
  <2> DEFINE all == Contents(mem, b)
             part == SubSeq(all, 1, offset)
             B == Byte \cup {UNDEFINED}
  <2>1. /\ all \in Seq(B) /\ Len(all) = b.size
        /\ \A i \in 1 .. Count(b), place \in 1 .. b.size :
             b.offsets[i] < place /\ place <= b.offsets[i + 1] => all[place] = ByteIn(mem, b, i, place)
    BY <1>1, ContentsIs DEF Bytes
  <2>2. part \in Seq(B) /\ Len(part) = offset /\ \A k \in 1 .. offset : part[k] = all[k]
    <3>1. offset \in 0 .. Len(all)
      BY <2>1, <1>1, LaidTypes
    <3> HIDE DEF all, B
    <3> QED
      BY <3>1, <2>1, FirstPart
  <2>3. ASSUME NEW i \in 1 .. last, NEW place \in 1 .. offset,
               c.offsets[i] < place, place <= c.offsets[i + 1]
        PROVE  ByteIn(mem, c, i, place) = part[place]
    <3>1. b.size \in Nat
      BY <1>1, LaidTypes
    <3>2. b.offsets[i + 1] \in Nat /\ c.offsets[i + 1] \in Nat
      <4>1. i + 1 \in 1 .. Count(c) + 1
        BY <1>2, <1>3
      <4> QED
        BY <4>1, <1>4, <1>6, <1>8, LaidTypes
    <3>3. place \in 1 .. b.size /\ b.offsets[i] < place /\ place <= b.offsets[i + 1]
      <4>1. c.offsets[i] = b.offsets[i] /\ c.offsets[i + 1] <= b.offsets[i + 1] /\ offset <= b.size
        BY <1>1, <1>3, <1>7
      <4> QED
        BY <2>3, <3>1, <3>2, <4>1
    <3>4. all[place] = ByteIn(mem, b, i, place)
      BY <3>3, <2>1, <1>6
    <3>5. part[place] = all[place]
      BY <2>2
    <3> HIDE DEF all, part
    <3> QED
      BY <3>4, <3>5, <1>3 DEF ByteIn
  <2> HIDE DEF part, B
  <2>4. c.size <= c.offsets[Count(c) + 1] /\ Len(part) = c.size
    BY <1>2, <1>3, <1>4, <2>2
  <2>5. \A i \in 1 .. Count(c), place \in 1 .. c.size :
            c.offsets[i] < place /\ place <= c.offsets[i + 1] => ByteIn(mem, c, i, place) = part[place]
    BY <2>3, <1>3
  <2>6. Contents(mem, c) = part
    BY <2>2, <2>4, <2>5, <1>8, ContentsAre
  <2> QED
    BY <2>6 DEF part
<1> QED
  BY <1>1, <1>3, <1>5, <1>11, <1>13, <1>14, <1>15, <1>16 DEF c, shared

(***************************************************************************)
(* The calls, but for Create and Write.  Each keeps the invariant, leaves  *)
(* the user's memory alone, and is a step of ByteSource or none.           *)
(***************************************************************************)

UserStays ==
    \A a \in Addresses :
        (memory[a] # NULL /\ memory[a].user) =>
            (memory'[a] = memory[a] \/ (free_data /\ memory'[a] = NULL))

StepIsRight == IInv' /\ UserStays /\ [Abstract!Next]_(Abstract!vars)

LEMMA FailsIsRight ==
    ASSUME IInv, Fails
    PROVE  StepIsRight
<1>1. /\ memory' = memory /\ in' = in /\ out' = out /\ free_data' = free_data
      /\ open_count' = open_count /\ data' = data /\ write_state' = write_state /\ writes' = writes
  BY DEF Fails, vars
<1>2. IInv'
  <2>1. States'
    BY <1>1 DEF IInv, States, Exists, Writing
  <2>2. Owned(memory, free_data, in, out)'
    BY <1>1 DEF IInv
  <2>3. Borrowed(memory, in, out)'
    BY <1>1 DEF IInv
  <2> QED
    BY <2>1, <2>2, <2>3 DEF IInv
<1>3. UserStays
  BY <1>1 DEF UserStays
<1>4. UNCHANGED Abstract!vars
  BY <1>1 DEF Abstract!vars, Contents, ByteIn, FragmentAt
<1> QED
  BY <1>2, <1>3, <1>4 DEF StepIsRight

\* How the states of the source appear in ByteSource.
LEMMA Mapping ==
    ASSUME IInv
    PROVE  /\ free_data \in BOOLEAN /\ open_count \in Nat
           /\ Exists => /\ in # NULL /\ IsBuffer(memory, free_data, in)
                        /\ Contents(memory, in) # NULL /\ Len(Contents(memory, in)) = in.size
                        /\ in.size \in Nat /\ in.offset \in Nat /\ in.offset <= in.size
           /\ Writing => /\ Exists /\ out # NULL /\ IsBuffer(memory, free_data, out)
                         /\ Contents(memory, out) # NULL /\ Len(Contents(memory, out)) = out.size
                         /\ out.size \in Nat /\ out.offset \in Nat /\ out.offset <= out.size
           /\ ~Exists => in = NULL /\ Contents(memory, in) = NULL /\ open_count = 0
           /\ ~Writing => out = NULL /\ Contents(memory, out) = NULL
<1>1. States /\ Owned(memory, free_data, in, out)
  BY DEF IInv
<1>2. Exists => in # NULL /\ IsBuffer(memory, free_data, in)
  BY <1>1 DEF States, Owned
<1>3. Writing => out # NULL /\ IsBuffer(memory, free_data, out) /\ Exists
  BY <1>1 DEF States, Owned, Writing, Exists
<1>4. ~Exists => in = NULL /\ open_count = 0
  BY <1>1 DEF States, Exists
<1>5. ~Writing => out = NULL
  BY <1>1 DEF States
<1>6. \A b : IsBuffer(memory, free_data, b) =>
                /\ Contents(memory, b) # NULL /\ Len(Contents(memory, b)) = b.size
                /\ b.size \in Nat /\ b.offset \in Nat /\ b.offset <= b.size
  <2>1. ASSUME NEW b, IsBuffer(memory, free_data, b)
        PROVE  /\ Contents(memory, b) # NULL /\ Len(Contents(memory, b)) = b.size
               /\ b.size \in Nat /\ b.offset \in Nat /\ b.offset <= b.size
    BY <2>1, ContentsIs, LaidTypes DEF IsBuffer, Placed
  <2> QED
    BY <2>1
<1>7. Contents(memory, NULL) = NULL
  BY DEF Contents
<1> QED
  BY <1>1, <1>2, <1>3, <1>4, <1>5, <1>6, <1>7 DEF States

\* The readers' buffer has moved, and nothing else has happened.
LEMMA ReaderMoves ==
    ASSUME IInv, Exists, NEW offset \in Nat, NEW i, offset <= in.size, IsAt(in, offset, i),
           in' = Moved(in, offset, i),
           UNCHANGED <<memory, out, free_data, write_state>>, open_count' \in Nat
    PROVE  /\ IInv' /\ UserStays /\ in' # NULL /\ in'.offset = offset
           /\ Contents(memory, in)' = Contents(memory, in)
           /\ Contents(memory, out)' = Contents(memory, out)
<1>1. States /\ Owned(memory, free_data, in, out) /\ Borrowed(memory, in, out) /\ in # NULL
  BY Mapping DEF IInv
<1>2. /\ Owned(memory, free_data, in', out) /\ in' # NULL /\ in'.offset = offset
      /\ Contents(memory, in') = Contents(memory, in)
      /\ in'.fragments = in.fragments /\ Count(in') = Count(in)
  BY <1>1, MovedIs
<1>3. Borrowed(memory, in', out)
  BY <1>1, <1>2 DEF Borrowed
<1>4. States'
  BY <1>1, <1>2 DEF States, Exists, Writing
<1>5. Owned(memory, free_data, in, out)' /\ Borrowed(memory, in, out)'
  BY <1>2, <1>3
<1>6. Contents(memory, in)' = Contents(memory, in) /\ Contents(memory, out)' = Contents(memory, out)
  BY <1>2
<1> QED
  BY <1>2, <1>4, <1>5, <1>6 DEF IInv, UserStays

LEMMA OpenIsRight ==
    ASSUME IInv, Open
    PROVE  StepIsRight
<1>1. CASE write_state = "REMOVED"
  BY <1>1, FailsIsRight DEF Open
<1>2. CASE write_state # "REMOVED"
  <2>1. /\ Exists /\ open_count' = open_count + 1 /\ data' = <<>>
        /\ in' = IF Reading THEN in ELSE [in EXCEPT !.offset = 0, !.current = 1]
        /\ UNCHANGED <<memory, out, free_data, write_state>>
    BY <1>2 DEF Open
  <2> DEFINE at == IF Reading THEN in.offset ELSE 0
             i == IF Reading THEN in.current ELSE 1
  <2>2. in \in Buffer /\ Laid(in) /\ Placed(in) /\ open_count \in Nat /\ in # NULL
    BY <2>1, Mapping DEF IsBuffer, Laid
  <2>3. in' = Moved(in, at, i)
    BY <2>1, <2>2 DEF Moved, Buffer
  <2>4. at \in Nat /\ at <= in.size /\ IsAt(in, at, i)
    <3>1. CASE Reading
      BY <3>1, <2>2, LaidTypes DEF Placed
    <3>2. CASE ~Reading
      <4>1. /\ Count(in) \in Nat /\ in.offsets[1] = 0 /\ in.size \in Nat
            /\ \A j \in 1 .. Count(in) + 1 : in.offsets[j] \in Nat
        BY <2>2, LaidTypes
      <4>2. 1 \in 1 .. Count(in) + 1 /\ (1 <= Count(in) => in.offsets[1 + 1] \in Nat)
        BY <4>1
      <4> QED
        BY <3>2, <4>1, <4>2 DEF IsAt
    <3> QED
      BY <3>1, <3>2
  <2> HIDE DEF i
  <2>5. /\ IInv' /\ UserStays /\ in' # NULL /\ in'.offset = at
        /\ Contents(memory, in)' = Contents(memory, in)
        /\ Contents(memory, out)' = Contents(memory, out)
    <3> HIDE DEF at
    <3> QED
      BY <2>1, <2>2, <2>3, <2>4, ReaderMoves
  <2>6. Abstract!Next
    <3>1. Contents(memory, in) # NULL
      BY <2>1, Mapping
    <3>2. in'.offset = IF open_count = 0 THEN 0 ELSE in.offset
      BY <2>2, <2>5 DEF Reading
    <3>3. Abstract!Open
      BY <2>1, <2>2, <2>5, <3>1, <3>2 DEF Abstract!Open, Abstract!Exists, Abstract!Writer
    <3> QED
      BY <3>3, <2>1 DEF Abstract!Next
  <2> QED
    BY <2>5, <2>6 DEF StepIsRight
<1> QED
  BY <1>1, <1>2

LEMMA ReadIsRight ==
    ASSUME IInv, NEW length \in Nat, Read(length)
    PROVE  StepIsRight
<1>1. CASE ~Reading
  BY <1>1, FailsIsRight DEF Read
<1>2. CASE Reading
  <2>1. /\ Exists /\ data' = ReadBytes(in, length) /\ in' = Advanced(in, Len(data'))
        /\ UNCHANGED <<memory, out, free_data, open_count, write_state>>
    BY <1>2 DEF Read
  <2>2. /\ Laid(in) /\ Placed(in) /\ IsBuffer(memory, free_data, in)
        /\ open_count \in Nat /\ in # NULL
        /\ Contents(memory, in) # NULL /\ Len(Contents(memory, in)) = in.size
        /\ in.size \in Nat /\ in.offset \in Nat /\ in.offset <= in.size
    BY <2>1, Mapping DEF IsBuffer
  <2> DEFINE n == Len(data')
             at == in.offset + n
  <2>3. n \in 0 .. in.size - in.offset /\ data' = SubSeq(Contents(memory, in), in.offset + 1, at)
    <3> DEFINE bytes == ReadBytes(in, length)
    <3>1. /\ Len(bytes) \in 0 .. in.size - in.offset
          /\ bytes = SubSeq(Contents(memory, in), in.offset + 1, in.offset + Len(bytes))
      BY <2>2, ReadIs
    <3> HIDE DEF bytes
    <3> QED
      BY <2>1, <3>1 DEF bytes
  <2> HIDE DEF n
  <2>4. at \in Nat /\ at <= in.size /\ n \in Nat
    BY <2>2, <2>3
  <2>5. PICK i : Advanced(in, n) = Moved(in, at, i) /\ IsAt(in, at, i)
    <3>1. at <= in.offsets[Count(in) + 1] /\ IsAt(in, in.offset, in.current)
      <4>1. Count(in) + 1 \in 1 .. Count(in) + 1
        BY <2>2, LaidTypes
      <4>2. in.offsets[Count(in) + 1] \in Nat /\ in.size <= in.offsets[Count(in) + 1]
        BY <2>2, <4>1, LaidTypes DEF Placed
      <4> QED
        BY <4>2, <2>2, <2>4 DEF Placed
    <3> QED
      BY <3>1, <2>2, <2>4, AdvancedIs
  <2>6. in' = Moved(in, at, i)
    BY <2>1, <2>5 DEF n
  <2> HIDE DEF at
  <2>7. /\ IInv' /\ UserStays /\ in' # NULL /\ in'.offset = at
        /\ Contents(memory, in)' = Contents(memory, in)
        /\ Contents(memory, out)' = Contents(memory, out)
    BY <2>1, <2>2, <2>4, <2>5, <2>6, ReaderMoves
  <2>8. Abstract!Read
    <3>1. open_count > 0
      BY <1>2 DEF Reading
    <3>2. in'.offset = in.offset + n /\ data' = SubSeq(Contents(memory, in), in.offset + 1, in'.offset)
      BY <2>3, <2>7 DEF at
    <3> QED
      BY <2>1, <2>2, <2>3, <2>7, <3>1, <3>2 DEF Abstract!Read, Abstract!Writer
  <2> QED
    BY <2>7, <2>8 DEF StepIsRight, Abstract!Next
<1> QED
  BY <1>1, <1>2

LEMMA SeekIsRight ==
    ASSUME IInv, NEW offset, NEW whence, Seek(offset, whence)
    PROVE  StepIsRight
<1>1. CASE ~Reading \/ ComputeOffset(in, offset, whence) < 0
  BY <1>1, FailsIsRight DEF Seek
<1>2. CASE Reading /\ ~(ComputeOffset(in, offset, whence) < 0)
  <2> DEFINE at == ComputeOffset(in, offset, whence)
             i == FindFragment(in, at)
  <2>1. /\ Exists /\ in' = Sought(in, at) /\ data' = <<>>
        /\ UNCHANGED <<memory, out, free_data, open_count, write_state>>
    BY <1>2 DEF Seek
  <2>2. /\ Laid(in) /\ Placed(in) /\ open_count \in Nat /\ in # NULL /\ in.size \in Nat
        /\ Contents(memory, in) # NULL /\ Len(Contents(memory, in)) = in.size
    BY <2>1, Mapping DEF IsBuffer
  <2>3. at \in 0 .. in.size /\ in' = Moved(in, at, i) /\ IsAt(in, at, i)
    BY <2>1, <2>2, <1>2, SoughtIs
  <2> HIDE DEF at, i
  <2>4. at \in Nat /\ at <= in.size
    BY <2>2, <2>3
  <2>5. /\ IInv' /\ UserStays /\ in' # NULL /\ in'.offset = at
        /\ Contents(memory, in)' = Contents(memory, in)
        /\ Contents(memory, out)' = Contents(memory, out)
    BY <2>1, <2>2, <2>3, <2>4, ReaderMoves
  <2>6. Abstract!Seek
    BY <1>2, <2>1, <2>2, <2>3, <2>5 DEF Reading, Abstract!Seek, Abstract!Writer
  <2> QED
    BY <2>1, <2>5, <2>6 DEF StepIsRight, Abstract!Next
<1> QED
  BY <1>1, <1>2

LEMMA CloseIsRight ==
    ASSUME IInv, Close
    PROVE  StepIsRight
<1>1. CASE ~Reading
  BY <1>1, FailsIsRight DEF Close
<1>2. CASE Reading
  <2>1. /\ Exists /\ open_count' = open_count - 1 /\ data' = <<>>
        /\ UNCHANGED <<memory, in, out, free_data, write_state>>
    BY <1>2 DEF Close
  <2>2. open_count \in Nat /\ open_count > 0 /\ in # NULL
    BY <1>2, <2>1, Mapping DEF Reading
  <2>3. States'
    BY <2>1, <2>2 DEF IInv, States, Exists, Writing
  <2>4. Owned(memory, free_data, in, out)' /\ Borrowed(memory, in, out)'
    BY <2>1 DEF IInv
  <2>5. Contents(memory, in)' = Contents(memory, in) /\ Contents(memory, out)' = Contents(memory, out)
    BY <2>1
  <2>6. Abstract!Close
    BY <2>1, <2>2, <2>5 DEF Abstract!Close, Abstract!Writer
  <2> QED
    BY <2>1, <2>3, <2>4, <2>6 DEF StepIsRight, IInv, UserStays, Abstract!Next
<1> QED
  BY <1>1, <1>2

LEMMA SeekWriteIsRight ==
    ASSUME IInv, NEW offset, NEW whence, SeekWrite(offset, whence)
    PROVE  StepIsRight
<1>1. CASE ~Writing \/ ComputeOffset(out, offset, whence) < 0
  BY <1>1, FailsIsRight DEF SeekWrite
<1>2. CASE Writing /\ ~(ComputeOffset(out, offset, whence) < 0)
  <2> DEFINE at == ComputeOffset(out, offset, whence)
             i == FindFragment(out, at)
  <2>1. /\ Exists /\ out' = Sought(out, at) /\ data' = <<>>
        /\ UNCHANGED <<memory, in, free_data, open_count, write_state>>
    BY <1>2 DEF SeekWrite
  <2>2. /\ Laid(out) /\ Placed(out) /\ out # NULL /\ out.size \in Nat /\ in # NULL
        /\ Contents(memory, out) # NULL /\ Len(Contents(memory, out)) = out.size
    BY <1>2, <2>1, Mapping DEF IsBuffer
  <2>3. at \in 0 .. out.size /\ out' = Moved(out, at, i) /\ IsAt(out, at, i)
    BY <2>1, <2>2, <1>2, SoughtIs
  <2> HIDE DEF at, i
  <2>4. at \in Nat /\ at <= out.size
    BY <2>2, <2>3
  <2>5. Owned(memory, free_data, out, in)
    BY OwnedBoth DEF IInv
  <2>6. /\ Owned(memory, free_data, out', in) /\ out' # NULL /\ out'.offset = at
        /\ Contents(memory, out') = Contents(memory, out)
        /\ out'.fragments = out.fragments /\ Count(out') = Count(out)
    BY <2>2, <2>3, <2>4, <2>5, MovedIs
  <2>7. Owned(memory, free_data, in, out')
    BY <2>6, OwnedBoth
  <2>8. Borrowed(memory, in, out')
    BY <2>2, <2>6 DEF IInv, Borrowed
  <2>9. States'
    BY <1>2, <2>1, <2>2, <2>6 DEF IInv, States, Exists, Writing
  <2>10. Owned(memory, free_data, in, out)' /\ Borrowed(memory, in, out)'
    BY <2>1, <2>7, <2>8
  <2>11. Contents(memory, in)' = Contents(memory, in) /\ Contents(memory, out)' = Contents(memory, out)
    BY <2>1, <2>6
  <2>12. Abstract!SeekWrite
    BY <2>1, <2>2, <2>3, <2>6, <2>11 DEF Abstract!SeekWrite, Abstract!Writing, Abstract!Readers
  <2> QED
    BY <2>1, <2>9, <2>10, <2>12 DEF StepIsRight, IInv, UserStays, Abstract!Next
<1> QED
  BY <1>1, <1>2

LEMMA BeginWriteIsRight ==
    ASSUME IInv, NEW left, BeginWrite(left)
    PROVE  StepIsRight
<1>1. CASE Writing \/ left < 2
  BY <1>1, FailsIsRight DEF BeginWrite
<1>2. CASE ~(Writing \/ left < 2)
  <2>1. /\ Exists /\ ~Writing /\ out' = NewBuffer /\ write_state' = "OPEN" /\ data' = <<>>
        /\ UNCHANGED <<memory, in, free_data, open_count>>
    BY <1>2 DEF BeginWrite
  <2>2. /\ in # NULL /\ IsBuffer(memory, free_data, in) /\ out = NULL /\ Contents(memory, out) = NULL
        /\ Contents(memory, in) # NULL /\ Len(Contents(memory, in)) = in.size /\ in.size \in Nat
    BY <2>1, Mapping
  <2>3. /\ IsBuffer(memory, free_data, NewBuffer) /\ NewBuffer # NULL /\ HeldBy(NewBuffer) = {}
        /\ Count(NewBuffer) = 0 /\ NewBuffer.offset = 0 /\ ~NewBuffer.shared_buffer
        /\ Contents(memory, NewBuffer) = <<>>
    BY NewBufferIs
  <2>4. Owned(memory, free_data, in, NewBuffer)
    <3>1. Sharing(in, NewBuffer)
      <4>1. ~in.shared_buffer /\ in.shared_buffer \in BOOLEAN /\ NewBuffer.shared_buffer \in BOOLEAN
        BY <2>2, <2>3, LaidTypes DEF IInv, Owned, IsBuffer
      <4>2. 1 .. Count(NewBuffer) = {}
        BY <2>3
      <4> QED
        BY <4>1, <4>2, <2>3 DEF Sharing
    <3> QED
      BY <2>2, <2>3, <3>1 DEF IInv, Owned, HeldBy
  <2>5. Borrowed(memory, in, NewBuffer)
    <3>1. 1 .. Count(NewBuffer) = {}
      BY <2>3
    <3> QED
      BY <3>1 DEF Borrowed
  <2>6. States'
    BY <2>1, <2>2, <2>3 DEF IInv, States, Exists, Writing
  <2>7. Owned(memory, free_data, in, out)' /\ Borrowed(memory, in, out)'
    BY <2>1, <2>4, <2>5
  <2>8. Contents(memory, in)' = Contents(memory, in) /\ Contents(memory, out)' = <<>>
    BY <2>1, <2>3
  <2>9. Abstract!BeginWrite
    <3>1. 0 \in 0 .. Len(Contents(memory, in))
      BY <2>2
    <3>2. SubSeq(Contents(memory, in), 1, 0) = <<>>
      BY SubSeqEmpty
    <3>3. out'.offset = 0 /\ out' # NULL
      BY <2>1, <2>3
    <3> QED
      BY <2>1, <2>2, <2>8, <3>1, <3>2, <3>3
         DEF Abstract!BeginWrite, Abstract!Exists, Abstract!Writing, Abstract!Readers
  <2> QED
    BY <2>1, <2>6, <2>7, <2>9 DEF StepIsRight, IInv, UserStays, Abstract!Next
<1> QED
  BY <1>1, <1>2

LEMMA BeginWriteCloningIsRight ==
    ASSUME IInv, NEW offset \in Nat, NEW left, BeginWriteCloning(offset, left)
    PROVE  StepIsRight
<1> DEFINE failed == \/ Writing
                     \/ left < IF offset = 0 THEN 2 ELSE 4
                     \/ offset > 0 /\ ~CanClone(in, offset)
<1>1. CASE failed
  BY <1>1, FailsIsRight DEF BeginWriteCloning
<1>2. CASE ~failed
  <2> DEFINE m == IF offset = 0 THEN [Memory(left) EXCEPT !.out = NewBuffer] ELSE Clone(Memory(left), offset)
  <2>1. /\ Exists /\ ~Writing /\ (offset > 0 => CanClone(in, offset))
        /\ Becomes([m EXCEPT !.out.offset = offset, !.out.current = Len(m.out.fragments) + 1])
        /\ write_state' = "OPEN" /\ data' = <<>> /\ UNCHANGED <<free_data, open_count>>
    BY <1>2 DEF BeginWriteCloning
  <2>2. /\ in # NULL /\ IsBuffer(memory, free_data, in) /\ out = NULL /\ Contents(memory, out) = NULL
        /\ Contents(memory, in) # NULL /\ Len(Contents(memory, in)) = in.size /\ in.size \in Nat
    BY <2>1, Mapping
  <2>3. CASE offset = 0
    <3>1. memory' = memory /\ in' = in /\ out' = NewBuffer
      <4> DEFINE r == [m EXCEPT !.out.offset = offset, !.out.current = Len(m.out.fragments) + 1]
      <4>1. m = [memory |-> memory, in |-> in, out |-> NewBuffer, left |-> left, ok |-> TRUE]
        BY <2>3 DEF Memory
      <4>2. r.memory = m.memory /\ r.in = m.in /\ memory' = r.memory /\ in' = r.in /\ out' = r.out
        BY <2>1, <4>1 DEF Becomes
      <4> HIDE DEF m
      <4>3. m.out = NewBuffer /\ m.memory = memory /\ m.in = in
        BY <4>1
      <4>4. r.out = [m.out EXCEPT !.offset = offset, !.current = Len(m.out.fragments) + 1]
        BY <4>1
      <4> HIDE DEF r
      <4>5. r.out = [NewBuffer EXCEPT !.offset = offset, !.current = Len(NewBuffer.fragments) + 1]
        BY <4>3, <4>4
      <4>6. r.out = NewBuffer
        <5>1. Len(NewBuffer.fragments) + 1 = 1
          BY DEF NewBuffer
        <5>2. r.out = [NewBuffer EXCEPT !.offset = 0, !.current = 1]
          BY <4>5, <5>1, <2>3
        <5> QED
          BY <5>2 DEF NewBuffer
      <4> QED
        BY <4>2, <4>3, <4>6
    <3>2. /\ IsBuffer(memory, free_data, NewBuffer) /\ NewBuffer # NULL /\ HeldBy(NewBuffer) = {}
          /\ Count(NewBuffer) = 0 /\ NewBuffer.offset = 0 /\ ~NewBuffer.shared_buffer
          /\ Contents(memory, NewBuffer) = <<>>
      BY NewBufferIs
    <3>3. Owned(memory, free_data, in, NewBuffer)
      <4>1. Sharing(in, NewBuffer)
        <5>1. ~in.shared_buffer /\ in.shared_buffer \in BOOLEAN /\ NewBuffer.shared_buffer \in BOOLEAN
          BY <2>2, <3>2, LaidTypes DEF IInv, Owned, IsBuffer
        <5>2. 1 .. Count(NewBuffer) = {}
          BY <3>2
        <5> QED
          BY <5>1, <5>2, <3>2 DEF Sharing
      <4> QED
        BY <2>2, <3>2, <4>1 DEF IInv, Owned, HeldBy
    <3>4. Borrowed(memory, in, NewBuffer)
      <4>1. 1 .. Count(NewBuffer) = {}
        BY <3>2
      <4> QED
        BY <4>1 DEF Borrowed
    <3>5. States'
      BY <2>1, <2>2, <3>1, <3>2 DEF IInv, States, Exists, Writing
    <3>6. Owned(memory, free_data, in, out)' /\ Borrowed(memory, in, out)'
      BY <2>1, <3>1, <3>3, <3>4
    <3>7. Contents(memory, in)' = Contents(memory, in) /\ Contents(memory, out)' = <<>>
      BY <3>1, <3>2
    <3>8. Abstract!BeginWrite
      <4>1. 0 \in 0 .. Len(Contents(memory, in))
        BY <2>2
      <4>2. SubSeq(Contents(memory, in), 1, 0) = <<>>
        BY SubSeqEmpty
      <4>3. out'.offset = 0 /\ out' # NULL
        BY <3>1, <3>2
      <4> QED
        BY <2>1, <2>2, <3>1, <3>7, <4>1, <4>2, <4>3
           DEF Abstract!BeginWrite, Abstract!Exists, Abstract!Writing, Abstract!Readers
    <3> QED
      BY <2>1, <3>1, <3>5, <3>6, <3>8 DEF StepIsRight, IInv, UserStays, Abstract!Next
  <2>4. CASE offset # 0
    <3> DEFINE c == CloneAt(in, offset)
               shared == Cloning(in)
    <3>1. memory' = memory /\ in' = shared /\ out' = c
      <4> DEFINE r == [m EXCEPT !.out.offset = offset, !.out.current = Len(m.out.fragments) + 1]
      <4>1. m = [memory |-> memory, in |-> shared, out |-> Cloned(in, offset), left |-> left, ok |-> TRUE]
        BY <2>4 DEF Clone, Memory, Cloning
      <4> HIDE DEF shared
      <4>2. r.memory = m.memory /\ r.in = m.in /\ memory' = r.memory /\ in' = r.in /\ out' = r.out
        BY <2>1, <4>1 DEF Becomes
      <4> HIDE DEF m
      <4>3. m.out = Cloned(in, offset) /\ m.memory = memory /\ m.in = shared
        BY <4>1
      <4>4. r.out = [m.out EXCEPT !.offset = offset, !.current = Len(m.out.fragments) + 1]
        BY <4>1
      <4> HIDE DEF r
      <4>5. r.out = [Cloned(in, offset) EXCEPT !.offset = offset, !.current = Len(Cloned(in, offset).fragments) + 1]
        BY <4>3, <4>4
      <4>6. r.out = c
        BY <4>5 DEF CloneAt
      <4> HIDE DEF c
      <4> QED
        BY <4>2, <4>3, <4>6
    <3>2. /\ Owned(memory, free_data, shared, c) /\ Borrowed(memory, shared, c)
          /\ c # NULL /\ c.offset = offset /\ shared # NULL /\ shared.offset = in.offset /\ offset <= in.size
          /\ Contents(memory, shared) = Contents(memory, in)
          /\ Contents(memory, c) = SubSeq(Contents(memory, in), 1, offset)
      <4>1. Owned(memory, free_data, in, NULL) /\ offset \in Nat \ {0} /\ CanClone(in, offset)
        BY <2>1, <2>2, <2>4 DEF IInv
      <4> QED
        BY <4>1, <2>2, CloneIs
    <3> HIDE DEF c, shared
    <3>3. States'
      BY <2>1, <2>2, <3>1, <3>2 DEF IInv, States, Exists, Writing
    <3>4. Owned(memory, free_data, in, out)' /\ Borrowed(memory, in, out)'
      BY <2>1, <3>1, <3>2
    <3>5. /\ Contents(memory, in)' = Contents(memory, in)
          /\ Contents(memory, out)' = SubSeq(Contents(memory, in), 1, offset)
      BY <3>1, <3>2
    <3>6. Abstract!BeginWrite
      <4>1. offset \in 0 .. Len(Contents(memory, in))
        BY <2>2, <3>2
      <4>2. out'.offset = offset /\ out' # NULL /\ in' # NULL /\ in'.offset = in.offset
        BY <3>1, <3>2
      <4>3. \E n \in 0 .. Len(Contents(memory, in)) :
              /\ Contents(memory, out)' = SubSeq(Contents(memory, in), 1, n)
              /\ (IF out' = NULL THEN 0 ELSE out'.offset) = n
        BY <3>5, <4>1, <4>2
      <4> QED
        BY <2>1, <2>2, <3>5, <4>2, <4>3
           DEF Abstract!BeginWrite, Abstract!Exists, Abstract!Writing, Abstract!Readers
    <3> QED
      BY <2>1, <3>1, <3>3, <3>4, <3>6 DEF StepIsRight, IInv, UserStays, Abstract!Next
  <2> QED
    BY <2>3, <2>4
<1> QED
  BY <1>1, <1>2

(***************************************************************************)
(* The calls that let go of a buffer.                                      *)
(***************************************************************************)

\* Nothing is written, and of the user's memory only what was given is freed.
Spared(mem, later, freep) ==
    \A a \in Addresses : later[a] = mem[a] \/ (later[a] = NULL /\ (mem[a].user => freep))

LEMMA FreeOutIs ==
    ASSUME IInv, Exists, NEW left
    PROVE  LET m == FreeOut(Memory(left))
           IN /\ m = [memory |-> m.memory, in |-> m.in, out |-> NULL, left |-> left, ok |-> TRUE]
              /\ Owned(m.memory, free_data, m.in, NULL) /\ m.in # NULL
              /\ Contents(m.memory, m.in) = Contents(memory, in) /\ m.in.offset = in.offset
              /\ Spared(memory, m.memory, free_data)
              /\ ~Writing => m.memory = memory /\ m.in = in
<1> DEFINE m == FreeOut(Memory(left))
<1>1. in # NULL /\ free_data \in BOOLEAN /\ IsBuffer(memory, free_data, in) /\ Owned(memory, free_data, in, out)
  BY Mapping DEF IInv
<1>2. CASE out = NULL
  <2>1. m = [memory |-> memory, in |-> in, out |-> NULL, left |-> left, ok |-> TRUE]
    BY <1>2 DEF FreeOut, Memory
  <2> HIDE DEF m
  <2>2. m.memory = memory /\ m.in = in /\ m.out = NULL /\ m.left = left /\ m.ok = TRUE
    BY <2>1
  <2> QED
    BY <2>1, <2>2, <1>1, <1>2 DEF m, Spared
<1>3. CASE out # NULL
  <2> DEFINE later == Freed(memory, FreedFragments(out, in))
  <2>1. m = [memory |-> later, in |-> Unshared(in), out |-> NULL, left |-> left, ok |-> TRUE]
    BY <1>3 DEF FreeOut, Memory
  <2>2. /\ Owned(later, free_data, NULL, Unshared(in))
        /\ \A a \in HeldBy(in) : later[a] = memory[a]
        /\ Spared(memory, later, free_data)
    <3>1. Owned(memory, free_data, out, in)
      BY <1>1, OwnedBoth
    <3> QED
      BY <3>1, <1>1, <1>3, Release DEF Spared
  <2> HIDE DEF later, m
  <2>3. m.memory = later /\ m.in = Unshared(in)
    BY <2>1
  <2>4. Owned(m.memory, free_data, m.in, NULL)
    BY <2>2, <2>3, OwnedBoth
  <2>5. \A a \in Held(in) : later[a] = memory[a]
    BY <1>1, <2>2 DEF HeldBy
  <2>6. /\ IsBuffer(later, free_data, Unshared(in))
        /\ Unshared(in).fragments = in.fragments /\ Unshared(in).offsets = in.offsets
        /\ Unshared(in).size = in.size /\ Unshared(in).offset = in.offset
    BY <1>1, <2>5, UnsharedIs
  <2>7. Unshared(in) # NULL /\ Laid(Unshared(in))
    BY <2>6, HeldIs DEF IsBuffer
  <2>8. Contents(later, Unshared(in)) = Contents(memory, in)
    BY <1>1, <2>5, <2>6, <2>7, ContentsStay
  <2>9. Writing
    BY <1>3 DEF IInv, States
  <2> QED
    BY <2>1, <2>2, <2>3, <2>4, <2>6, <2>7, <2>8, <2>9 DEF m
<1> QED
  BY <1>2, <1>3

\* Without a writer, nothing is left but what is the user's.
LEMMA FreeInIs ==
    ASSUME NEW m, NEW left, NEW freep \in BOOLEAN,
           m = [memory |-> m.memory, in |-> m.in, out |-> NULL, left |-> left, ok |-> TRUE],
           Owned(m.memory, freep, m.in, NULL), m.in # NULL
    PROVE  LET n == FreeIn(m)
           IN /\ n = [memory |-> n.memory, in |-> NULL, out |-> NULL, left |-> left, ok |-> TRUE]
              /\ Owned(n.memory, freep, NULL, NULL)
              /\ Spared(m.memory, n.memory, freep)
<1> DEFINE n == FreeIn(m)
           later == Freed(m.memory, FreedFragments(m.in, m.out))
<1>1. m.out = NULL /\ m.left = left /\ m.ok = TRUE
  OBVIOUS
<1>2. n = [memory |-> later, in |-> NULL, out |-> NULL, left |-> left, ok |-> TRUE]
  <2>1. Unshared(m.out) = NULL
    BY <1>1 DEF Unshared
  <2> HIDE DEF later
  <2>2. n = [m EXCEPT !.memory = later, !.in = NULL, !.out = NULL]
    BY <2>1 DEF FreeIn, later
  <2> DEFINE mem == m.memory
             b == m.in
  <2>3. m = [memory |-> mem, in |-> b, out |-> NULL, left |-> left, ok |-> TRUE]
    OBVIOUS
  <2> HIDE DEF n, mem, b
  <2> QED
    BY <2>2, <2>3
<1>3. Owned(later, freep, NULL, NULL) /\ Spared(m.memory, later, freep)
  <2>1. Unshared(NULL) = NULL
    BY DEF Unshared
  <2> QED
    BY <1>1, <2>1, Release DEF Spared
<1> HIDE DEF n, later
<1>4. n.memory = later
  BY <1>2
<1> QED
  BY <1>2, <1>3, <1>4 DEF n

LEMMA SparedTwice ==
    ASSUME NEW mem, NEW later, NEW last, NEW freep, Spared(mem, later, freep), Spared(later, last, freep)
    PROVE  Spared(mem, last, freep)
BY DEF Spared

LEMMA SparedStays ==
    ASSUME Spared(memory, memory', free_data)
    PROVE  UserStays
BY DEF Spared, UserStays

LEMMA CommitWriteIsRight ==
    ASSUME IInv, CommitWrite
    PROVE  StepIsRight
<1>1. CASE ~Writing \/ open_count > 1
  BY <1>1, FailsIsRight DEF CommitWrite
<1>2. CASE ~(~Writing \/ open_count > 1)
  <2> DEFINE m == FreeIn(Memory(0))
             later == Freed(memory, FreedFragments(in, out))
  <2>1. /\ Exists /\ Writing /\ ~(open_count > 1) /\ Becomes([m EXCEPT !.in = m.out, !.out = NULL])
        /\ open_count' = 0 /\ write_state' = "CLOSED" /\ data' = <<>> /\ free_data' = free_data
    BY <1>2 DEF CommitWrite
  <2>2. /\ in # NULL /\ out # NULL /\ IsBuffer(memory, free_data, out) /\ free_data \in BOOLEAN
        /\ open_count \in Nat /\ Contents(memory, in) # NULL
        /\ Contents(memory, out) # NULL /\ Len(Contents(memory, out)) = out.size
        /\ out.size \in Nat /\ out.offset \in Nat /\ out.offset <= out.size
    BY <2>1, Mapping
  <2>3. memory' = later /\ in' = Unshared(out) /\ out' = NULL
    <3>1. m = [memory |-> later, in |-> NULL, out |-> Unshared(out), left |-> 0, ok |-> TRUE]
      <4> DEFINE r == Memory(0)
      <4>1. r = [memory |-> memory, in |-> in, out |-> out, left |-> 0, ok |-> TRUE]
        BY DEF Memory
      <4> HIDE DEF r
      <4>2. r.memory = memory /\ r.in = in /\ r.out = out
        BY <4>1
      <4>3. FreeIn(r) = [r EXCEPT !.memory = later, !.in = NULL, !.out = Unshared(out)]
        BY <4>2 DEF FreeIn
      <4> HIDE DEF later
      <4>4. FreeIn(r) = [memory |-> later, in |-> NULL, out |-> Unshared(out), left |-> 0, ok |-> TRUE]
        BY <4>1, <4>3
      <4> QED
        BY <4>4 DEF r
    <3> HIDE DEF m, later
    <3> QED
      BY <2>1, <3>1 DEF Becomes
  <2>4. /\ Owned(later, free_data, NULL, Unshared(out))
        /\ \A a \in HeldBy(out) : later[a] = memory[a]
        /\ Spared(memory, later, free_data)
    BY <2>2, Release DEF IInv, Spared
  <2> HIDE DEF later
  <2>5. \A a \in Held(out) : later[a] = memory[a]
    BY <2>2, <2>4 DEF HeldBy
  <2>6. /\ IsBuffer(later, free_data, Unshared(out))
        /\ Unshared(out).fragments = out.fragments /\ Unshared(out).offsets = out.offsets
        /\ Unshared(out).size = out.size /\ Unshared(out).offset = out.offset
    BY <2>2, <2>5, UnsharedIs
  <2>7. Unshared(out) # NULL /\ Laid(Unshared(out))
    BY <2>6, HeldIs DEF IsBuffer
  <2>8. Contents(later, Unshared(out)) = Contents(memory, out)
    BY <2>2, <2>5, <2>6, <2>7, ContentsStay
  <2>9. Owned(later, free_data, Unshared(out), NULL)
    BY <2>4, OwnedBoth
  <2>10. Owned(memory, free_data, in, out)' /\ Borrowed(memory, in, out)'
    BY <2>1, <2>3, <2>9 DEF Borrowed
  <2>11. States'
    BY <2>1, <2>2, <2>3, <2>7 DEF States, Exists, Writing
  <2>12. UserStays
    BY <2>3, <2>4, SparedStays
  <2>13. Contents(memory, in)' = Contents(memory, out) /\ Contents(memory, out)' = NULL
    BY <2>3, <2>8 DEF Contents
  <2>14. Abstract!CommitWrite
    <3>1. in' # NULL /\ in'.offset = out.offset /\ out.offset \in 0 .. Len(Contents(memory, out))
      BY <2>2, <2>3, <2>6, <2>7
    <3>2. open_count <= 1
      BY <2>1, <2>2
    <3> QED
      BY <2>1, <2>2, <2>3, <2>13, <3>1, <3>2 DEF Abstract!CommitWrite, Abstract!Writing, Abstract!NoWriter
  <2> QED
    BY <2>1, <2>10, <2>11, <2>12, <2>14 DEF StepIsRight, IInv, Abstract!Next
<1> QED
  BY <1>1, <1>2

LEMMA RollbackWriteIsRight ==
    ASSUME IInv, RollbackWrite
    PROVE  StepIsRight
<1> DEFINE m == FreeOut(Memory(0))
<1>1. /\ Exists /\ data' = <<>> /\ UNCHANGED <<free_data, open_count>>
      /\ Writing => memory' = m.memory /\ in' = m.in /\ out' = m.out /\ write_state' = "CLOSED"
      /\ ~Writing => UNCHANGED <<memory, in, out, write_state>>
  BY DEF RollbackWrite, Becomes
<1>2. /\ m = [memory |-> m.memory, in |-> m.in, out |-> NULL, left |-> 0, ok |-> TRUE]
      /\ Owned(m.memory, free_data, m.in, NULL) /\ m.in # NULL
      /\ Contents(m.memory, m.in) = Contents(memory, in) /\ m.in.offset = in.offset
      /\ Spared(memory, m.memory, free_data)
      /\ ~Writing => m.memory = memory /\ m.in = in
  BY <1>1, FreeOutIs
<1> HIDE DEF m
<1>3. in # NULL /\ Contents(memory, in) # NULL /\ open_count \in Nat /\ (~Writing => out = NULL)
  BY <1>1, Mapping
<1>4. memory' = m.memory /\ in' = m.in /\ out' = NULL
  BY <1>1, <1>2, <1>3
<1>5. States'
  BY <1>1, <1>2, <1>3, <1>4 DEF IInv, States, Exists, Writing
<1>6. Owned(memory, free_data, in, out)' /\ Borrowed(memory, in, out)'
  BY <1>1, <1>2, <1>4 DEF Borrowed
<1>7. UserStays
  BY <1>2, <1>4, SparedStays
<1>8. Contents(memory, in)' = Contents(memory, in) /\ Contents(memory, out)' = NULL
  BY <1>2, <1>4 DEF Contents
<1>9. Abstract!RollbackWrite
  BY <1>1, <1>2, <1>3, <1>4, <1>8
     DEF Abstract!RollbackWrite, Abstract!Exists, Abstract!NoWriter, Abstract!Readers
<1> QED
  BY <1>1, <1>5, <1>6, <1>7, <1>9 DEF StepIsRight, IInv, Abstract!Next

LEMMA FreeIsRight ==
    ASSUME IInv, Free
    PROVE  StepIsRight
<1> DEFINE m == FreeOut(Memory(0))
           n == FreeIn(m)
<1>1. /\ Exists /\ data' = <<>> /\ free_data' = free_data /\ open_count' = 0 /\ write_state' = "FREED"
      /\ memory' = n.memory /\ in' = n.in /\ out' = n.out
  BY DEF Free, Becomes
<1>2. /\ m = [memory |-> m.memory, in |-> m.in, out |-> NULL, left |-> 0, ok |-> TRUE]
      /\ Owned(m.memory, free_data, m.in, NULL) /\ m.in # NULL
      /\ Spared(memory, m.memory, free_data)
  BY <1>1, FreeOutIs
<1>3. in # NULL /\ Contents(memory, in) # NULL /\ free_data \in BOOLEAN
  BY <1>1, Mapping
<1> HIDE DEF m
<1>4. /\ n = [memory |-> n.memory, in |-> NULL, out |-> NULL, left |-> 0, ok |-> TRUE]
      /\ Owned(n.memory, free_data, NULL, NULL)
      /\ Spared(m.memory, n.memory, free_data)
  BY <1>2, <1>3, FreeInIs
<1> HIDE DEF n
<1>5. memory' = n.memory /\ in' = NULL /\ out' = NULL
  BY <1>1, <1>4
<1>6. States'
  BY <1>1, <1>3, <1>5 DEF States, Exists, Writing
<1>7. Owned(memory, free_data, in, out)' /\ Borrowed(memory, in, out)'
  BY <1>1, <1>4, <1>5 DEF Borrowed
<1>8. UserStays
  BY <1>2, <1>4, <1>5, SparedTwice, SparedStays
<1>9. Contents(memory, in)' = NULL /\ Contents(memory, out)' = NULL
  BY <1>5 DEF Contents
<1>10. Abstract!Free
  BY <1>1, <1>3, <1>5, <1>9 DEF Abstract!Free, Abstract!Exists, Abstract!NoWriter
<1> QED
  BY <1>1, <1>6, <1>7, <1>8, <1>10 DEF StepIsRight, IInv, Abstract!Next

LEMMA RemoveSourceIsRight ==
    ASSUME IInv, NEW left, RemoveSource(left)
    PROVE  StepIsRight
<1>1. in # NULL /\ Contents(memory, in) # NULL /\ free_data \in BOOLEAN /\ open_count \in Nat /\ Exists
  BY Mapping DEF RemoveSource
<1>2. CASE write_state = "REMOVED"
  <2>1. UNCHANGED <<memory, in, out, open_count, write_state, free_data>> /\ data' = <<>>
    BY <1>2 DEF RemoveSource
  <2>2. States'
    BY <2>1 DEF IInv, States, Exists, Writing
  <2>3. Owned(memory, free_data, in, out)' /\ Borrowed(memory, in, out)'
    BY <2>1 DEF IInv
  <2>4. Contents(memory, in)' = Contents(memory, in) /\ Contents(memory, out)' = Contents(memory, out)
    BY <2>1
  <2>5. Abstract!Fail
    BY <2>1, <2>4 DEF Abstract!Fail, Abstract!Writer
  <2> QED
    BY <2>1, <2>2, <2>3, <2>5 DEF StepIsRight, IInv, UserStays, Abstract!Next
<1>3. CASE write_state # "REMOVED"
  <2> DEFINE m == FreeOut(Memory(left))
             n == FreeIn(m)
  <2>1. /\ data' = <<>> /\ free_data' = free_data /\ open_count' = Max({open_count - 1, 0})
        /\ left < 2 => Becomes(m) /\ write_state' = "CLOSED"
        /\ ~(left < 2) => Becomes([n EXCEPT !.in = NewBuffer]) /\ write_state' = "REMOVED"
    BY <1>3 DEF RemoveSource
  <2>2. /\ m = [memory |-> m.memory, in |-> m.in, out |-> NULL, left |-> left, ok |-> TRUE]
        /\ Owned(m.memory, free_data, m.in, NULL) /\ m.in # NULL
        /\ Contents(m.memory, m.in) = Contents(memory, in) /\ m.in.offset = in.offset
        /\ Spared(memory, m.memory, free_data)
    BY <1>1, FreeOutIs
  <2>3. open_count' = IF open_count > 0 THEN open_count - 1 ELSE 0
    <3> DEFINE k == open_count - 1
    <3>1. k \in Int /\ 0 \in Int /\ open_count' = Max({k, 0})
      BY <1>1, <2>1
    <3> HIDE DEF k
    <3>2. open_count' = IF k >= 0 THEN k ELSE 0
      BY <3>1, MaxIs
    <3> QED
      BY <3>2, <1>1 DEF k
  <2>4. open_count' \in Nat
    BY <1>1, <2>3
  <2> HIDE DEF m
  <2>5. CASE left < 2
    <3>1. memory' = m.memory /\ in' = m.in /\ out' = NULL
      BY <2>1, <2>2, <2>5 DEF Becomes
    <3>2. States'
      BY <1>1, <2>1, <2>2, <2>4, <2>5, <3>1 DEF States, Exists, Writing
    <3>3. Owned(memory, free_data, in, out)' /\ Borrowed(memory, in, out)'
      BY <2>1, <2>2, <3>1 DEF Borrowed
    <3>4. UserStays
      BY <2>2, <3>1, SparedStays
    <3>5. Contents(memory, in)' = Contents(memory, in) /\ Contents(memory, out)' = NULL
      BY <2>2, <3>1 DEF Contents
    <3>6. Abstract!Fail
      BY <1>1, <2>1, <2>2, <2>3, <3>1, <3>5 DEF Abstract!Fail, Abstract!NoWriter
    <3> QED
      BY <3>2, <3>3, <3>4, <3>6 DEF StepIsRight, IInv, Abstract!Next
  <2>6. CASE ~(left < 2)
    <3>1. /\ n = [memory |-> n.memory, in |-> NULL, out |-> NULL, left |-> left, ok |-> TRUE]
          /\ Owned(n.memory, free_data, NULL, NULL)
          /\ Spared(m.memory, n.memory, free_data)
      BY <1>1, <2>2, FreeInIs
    <3> HIDE DEF n
    <3>2. memory' = n.memory /\ in' = NewBuffer /\ out' = NULL
      BY <2>1, <2>6, <3>1 DEF Becomes
    <3>3. /\ IsBuffer(n.memory, free_data, NewBuffer) /\ NewBuffer # NULL /\ HeldBy(NewBuffer) = {}
          /\ NewBuffer.offset = 0 /\ ~NewBuffer.shared_buffer
          /\ Contents(n.memory, NewBuffer) = <<>>
      BY NewBufferIs
    <3>4. Owned(n.memory, free_data, NewBuffer, NULL)
      BY <3>1, <3>3 DEF Owned, HeldBy
    <3>5. States'
      BY <1>1, <2>1, <2>4, <2>6, <3>2, <3>3 DEF States, Exists, Writing
    <3>6. Owned(memory, free_data, in, out)' /\ Borrowed(memory, in, out)'
      BY <2>1, <3>2, <3>4 DEF Borrowed
    <3>7. UserStays
      BY <2>2, <3>1, <3>2, SparedTwice, SparedStays
    <3>8. Contents(memory, in)' = <<>> /\ Contents(memory, out)' = NULL
      BY <3>2, <3>3 DEF Contents
    <3>9. Abstract!Remove
      BY <1>1, <2>3, <2>4, <3>2, <3>3, <3>8 DEF Abstract!Remove, Abstract!Exists, Abstract!NoWriter
    <3> QED
      BY <2>1, <3>5, <3>6, <3>7, <3>9 DEF StepIsRight, IInv, Abstract!Next
  <2> QED
    BY <2>5, <2>6
<1> QED
  BY <1>2, <1>3

(***************************************************************************)
(* The source that is made of the user's fragments.                        *)
(***************************************************************************)

LEMMA LongerIs ==
    ASSUME NEW b, Laid(b), NEW f \in Fragment, f.length > 0, NEW c \in Buffer,
           c.fragments = Append(b.fragments, f),
           c.offsets = Append(b.offsets, BufferCapacity(b) + f.length)
    PROVE  /\ Laid(c) /\ Count(c) = Count(b) + 1
           /\ \A i \in 1 .. Count(b) : c.fragments[i] = b.fragments[i]
           /\ c.fragments[Count(b) + 1] = f
           /\ \A i \in 1 .. Count(b) + 1 : c.offsets[i] = b.offsets[i]
           /\ c.offsets[Count(b) + 2] = b.offsets[Count(b) + 1] + f.length
<1> DEFINE n == Count(b)
           cap == b.offsets[n + 1] + f.length
<1>1. /\ n \in Nat /\ b.fragments \in Seq(Fragment) /\ Len(b.fragments) = n
      /\ b.offsets \in Seq(Nat) /\ Len(b.offsets) = n + 1 /\ b.offsets[1] = 0
      /\ BufferCapacity(b) = b.offsets[n + 1]
      /\ \A i \in 1 .. n + 1 : b.offsets[i] \in Nat
      /\ f.length \in Nat
  BY LaidTypes DEF Count, Laid, Fragment
<1>2. \A i \in 1 .. n : b.fragments[i].length > 0 /\ b.offsets[i + 1] = b.offsets[i] + b.fragments[i].length
  BY DEF Laid
<1> HIDE DEF n
<1>3. cap \in Nat /\ c.offsets = Append(b.offsets, cap)
  <2>1. n + 1 \in 1 .. n + 1
    BY <1>1
  <2> QED
    BY <2>1, <1>1
<1> HIDE DEF cap
<1>4. /\ Len(c.fragments) = n + 1 /\ c.fragments[n + 1] = f
      /\ \A i \in 1 .. n : c.fragments[i] = b.fragments[i]
  BY <1>1, AppendProperties
<1>5. /\ Len(c.offsets) = n + 2 /\ c.offsets[n + 2] = cap
      /\ \A i \in 1 .. n + 1 : c.offsets[i] = b.offsets[i]
  <2>1. /\ Len(c.offsets) = Len(b.offsets) + 1 /\ c.offsets[Len(b.offsets) + 1] = cap
        /\ \A i \in 1 .. Len(b.offsets) : c.offsets[i] = b.offsets[i]
    <3>1. b.offsets \in Seq(Nat) /\ cap \in Nat /\ c.offsets = Append(b.offsets, cap)
      BY <1>1, <1>3
    <3> QED
      BY ONLY <3>1, AppendProperties
  <2>2. Len(b.offsets) + 1 = n + 2
    BY <1>1
  <2> QED
    BY <2>1, <2>2, <1>1
<1>6. Count(c) = n + 1
  BY <1>4 DEF Count
<1>7. ASSUME NEW i \in 1 .. n + 1
      PROVE  c.fragments[i].length > 0 /\ c.offsets[i + 1] = c.offsets[i] + c.fragments[i].length
  <2>1. CASE i = n + 1
    <3>1. i + 1 = n + 2
      BY <2>1, <1>1
    <3> QED
      BY <2>1, <3>1, <1>4, <1>5 DEF cap
  <2>2. CASE i # n + 1
    <3>1. i \in 1 .. n /\ i + 1 \in 1 .. n + 1
      BY <2>2, <1>1
    <3> QED
      BY <3>1, <1>2, <1>4, <1>5
  <2> QED
    BY <2>1, <2>2
<1>8. c.offsets[1] = 0 /\ Len(c.offsets) = (n + 1) + 1
  BY <1>1, <1>5
<1>9. Laid(c)
  BY <1>6, <1>7, <1>8 DEF Laid
<1> QED
  BY <1>4, <1>5, <1>6, <1>9 DEF n, cap

MakingSteps(list, freep, n, f) ==
    f[0] = [NewBuffer EXCEPT !.capacity = Len(list)] /\ \A k \in 1 .. n : f[k] = With(f[k - 1], list, k, freep)

\* The loop of BufferOf.
LEMMA MakingLoop ==
    ASSUME NEW list, NEW freep, NEW n \in Nat
    PROVE  \E f : MakingSteps(list, freep, n, f) /\ (Len(list) = n => BufferOf(list, freep) = f[n])
<1> DEFINE first == [NewBuffer EXCEPT !.capacity = Len(list)]
           Next_(k, b) == With(b, list, k, freep)
           body(f, m) == [k \in 0 .. m |-> IF k = 0 THEN first ELSE Next_(k, f[k - 1])]
           IsLoop(f, m) == f = body(f, m)
           Good == {m \in Nat : \E f : IsLoop(f, m)}
<1>1. 0 \in Good
  <2> DEFINE g == [k \in 0 .. 0 |-> first]
  <2> HIDE DEF first, Next_
  <2>1. IsLoop(g, 0)
    OBVIOUS
  <2> HIDE DEF g, IsLoop
  <2> QED
    BY <2>1
<1>2. ASSUME NEW m \in 1 .. n, m - 1 \in Good PROVE m \in Good
  <2>1. PICK f : f = body(f, m - 1)
    BY <1>2
  <2> DEFINE g == [k \in 0 .. m |-> IF k = m THEN Next_(m, f[m - 1]) ELSE f[k]]
  <2> HIDE DEF first, Next_
  <2>2. \A k \in 0 .. m - 1 : f[k] = IF k = 0 THEN first ELSE Next_(k, f[k - 1])
    BY <2>1
  <2>3. ASSUME NEW k \in 0 .. m PROVE g[k] = IF k = 0 THEN first ELSE Next_(k, g[k - 1])
    <3>1. CASE k = m
      <4>1. k # 0 /\ k - 1 \in 0 .. m /\ k - 1 # m
        BY <3>1
      <4>2. g[k] = Next_(m, f[m - 1]) /\ g[k - 1] = f[m - 1]
        BY <3>1, <4>1
      <4> QED
        BY <4>1, <4>2, <3>1
    <3>2. CASE k # m
      <4>1. k \in 0 .. m - 1 /\ g[k] = f[k]
        BY <3>2
      <4>2. k # 0 => g[k - 1] = f[k - 1]
        BY <3>2
      <4> QED
        BY <4>1, <4>2, <2>2
    <3> QED
      BY <3>1, <3>2
  <2>4. IsLoop(g, m)
    BY <2>3
  <2> HIDE DEF g, IsLoop
  <2> QED
    BY <2>4
<1>3. \E f : IsLoop(f, n)
  <2>1. n \in Good
    <3> HIDE DEF Good
    <3>1. \A k \in 0 .. n : k \in Good
      BY <1>1, <1>2, StepByStep
    <3> QED
      BY <3>1
  <2> HIDE DEF IsLoop
  <2> QED
    BY <2>1
<1> DEFINE g == CHOOSE f : IsLoop(f, n)
<1>4. g = body(g, n)
  <2>1. IsLoop(g, n)
    <3> HIDE DEF IsLoop
    <3> QED
      BY <1>3
  <2> QED
    BY <2>1
<1>5. g[0] = first /\ \A k \in 1 .. n : g[k] = Next_(k, g[k - 1])
  <2> HIDE DEF first, Next_, g
  <2> QED
    BY <1>4
<1>6. MakingSteps(list, freep, n, g)
  BY <1>5 DEF MakingSteps
<1>7. Len(list) = n => BufferOf(list, freep) = g[n]
  BY DEF BufferOf
<1> HIDE DEF g
<1> QED
  BY <1>6, <1>7

JoiningSteps(list, n, f) ==
    f[0] = <<>> /\ \A k \in 1 .. n : f[k] = f[k - 1] \o list[k]

\* FlattenSeq, from nothing on.
LEMMA JoiningLoop ==
    ASSUME NEW list \in Seq(Seq(Byte)), NEW n \in Nat
    PROVE  \E f : JoiningSteps(list, n, f) /\ (Len(list) = n => FlattenSeq(list) = f[n])
<1> DEFINE first == <<>>
           Next_(k, s) == s \o list[k]
           body(f, m) == [k \in 0 .. m |-> IF k = 0 THEN first ELSE Next_(k, f[k - 1])]
           IsLoop(f, m) == f = body(f, m)
           Good == {m \in Nat : \E f : IsLoop(f, m)}
<1>1. 0 \in Good
  <2> DEFINE g == [k \in 0 .. 0 |-> first]
  <2> HIDE DEF first, Next_
  <2>1. IsLoop(g, 0)
    OBVIOUS
  <2> HIDE DEF g, IsLoop
  <2> QED
    BY <2>1
<1>2. ASSUME NEW m \in 1 .. n, m - 1 \in Good PROVE m \in Good
  <2>1. PICK f : f = body(f, m - 1)
    BY <1>2
  <2> DEFINE g == [k \in 0 .. m |-> IF k = m THEN Next_(m, f[m - 1]) ELSE f[k]]
  <2> HIDE DEF first, Next_
  <2>2. \A k \in 0 .. m - 1 : f[k] = IF k = 0 THEN first ELSE Next_(k, f[k - 1])
    BY <2>1
  <2>3. ASSUME NEW k \in 0 .. m PROVE g[k] = IF k = 0 THEN first ELSE Next_(k, g[k - 1])
    <3>1. CASE k = m
      <4>1. k # 0 /\ k - 1 \in 0 .. m /\ k - 1 # m
        BY <3>1
      <4>2. g[k] = Next_(m, f[m - 1]) /\ g[k - 1] = f[m - 1]
        BY <3>1, <4>1
      <4> QED
        BY <4>1, <4>2, <3>1
    <3>2. CASE k # m
      <4>1. k \in 0 .. m - 1 /\ g[k] = f[k]
        BY <3>2
      <4>2. k # 0 => g[k - 1] = f[k - 1]
        BY <3>2
      <4> QED
        BY <4>1, <4>2, <2>2
    <3> QED
      BY <3>1, <3>2
  <2>4. IsLoop(g, m)
    BY <2>3
  <2> HIDE DEF g, IsLoop
  <2> QED
    BY <2>4
<1>3. \E f : IsLoop(f, n)
  <2>1. n \in Good
    <3> HIDE DEF Good
    <3>1. \A k \in 0 .. n : k \in Good
      BY <1>1, <1>2, StepByStep
    <3> QED
      BY <3>1
  <2> HIDE DEF IsLoop
  <2> QED
    BY <2>1
<1> DEFINE g == CHOOSE f : IsLoop(f, n)
<1>4. g = body(g, n)
  <2>1. IsLoop(g, n)
    <3> HIDE DEF IsLoop
    <3> QED
      BY <1>3
  <2> QED
    BY <2>1
<1>5. g[0] = first /\ \A k \in 1 .. n : g[k] = Next_(k, g[k - 1])
  <2> HIDE DEF first, Next_, g
  <2> QED
    BY <1>4
<1>6. JoiningSteps(list, n, g)
  BY <1>5 DEF JoiningSteps
<1> HIDE DEF g, first, Next_
<1>7. SUFFICES ASSUME Len(list) = n
               PROVE  \E f : JoiningSteps(list, n, f) /\ FlattenSeq(list) = f[n]
  BY <1>6
<1>8. CASE n = 0
  <2>1. FlattenSeq(list) = <<>>
    BY <1>7, <1>8 DEF FlattenSeq
  <2>2. g[0] = <<>>
    BY <1>6 DEF JoiningSteps
  <2> QED
    BY <1>6, <1>8, <2>1, <2>2
<1>9. CASE n # 0
  <2> DEFINE Flat(f) == [i \in 1 .. n |-> IF i = 1 THEN list[i] ELSE f[i - 1] \o list[i]]
             IsFlat(f) == f = Flat(f)
             flat == CHOOSE f : IsFlat(f)
             h == [i \in 1 .. n |-> g[i]]
  <2>1. \A i \in 1 .. n : list[i] \in Seq(Byte) /\ <<>> \o list[i] = list[i]
    <3>1. \A i \in 1 .. n : list[i] \in Seq(Byte)
      BY <1>7
    <3> QED
      BY <3>1, ConcatEmptySeq
  <2>2. \A i \in 1 .. n : h[i] = IF i = 1 THEN list[i] ELSE h[i - 1] \o list[i]
    <3>1. ASSUME NEW i \in 1 .. n PROVE h[i] = IF i = 1 THEN list[i] ELSE h[i - 1] \o list[i]
      <4>1. g[i] = g[i - 1] \o list[i] /\ g[0] = <<>>
        BY <1>6 DEF JoiningSteps
      <4>2. CASE i = 1
        <5>1. i - 1 = 0 /\ g[i - 1] = <<>>
          BY <4>1, <4>2
        <5> QED
          BY <5>1, <4>1, <4>2, <2>1
      <4>3. CASE i # 1
        <5>1. i - 1 \in 1 .. n
          BY <4>3
        <5> QED
          BY <4>1, <4>3, <5>1
      <4> QED
        BY <4>2, <4>3
    <3> QED
      BY <3>1
  <2>3. IsFlat(h)
    <3> HIDE DEF h
    <3>1. \A i \in 1 .. n : h[i] = Flat(h)[i]
      BY <2>2
    <3>2. h = [i \in 1 .. n |-> h[i]] /\ Flat(h) = [i \in 1 .. n |-> Flat(h)[i]]
      BY DEF h
    <3> HIDE DEF Flat
    <3> QED
      BY <3>1, <3>2
  <2>4. IsFlat(flat)
    <3> HIDE DEF IsFlat, h
    <3> QED
      BY <2>3
  <2>5. FlattenSeq(list) = flat[n]
    BY <1>7, <1>9 DEF FlattenSeq
  <2> HIDE DEF flat, h
  <2> DEFINE joined == [k \in 0 .. n |-> IF k = 0 THEN <<>> ELSE flat[k]]
  <2>6. JoiningSteps(list, n, joined)
    <3>1. ASSUME NEW k \in 1 .. n PROVE joined[k] = joined[k - 1] \o list[k]
      <4>1. flat[k] = IF k = 1 THEN list[k] ELSE flat[k - 1] \o list[k]
        BY <2>4
      <4>2. joined[k] = flat[k]
        OBVIOUS
      <4>3. joined[k - 1] = IF k = 1 THEN <<>> ELSE flat[k - 1]
        OBVIOUS
      <4> HIDE DEF joined
      <4> QED
        BY <4>1, <4>2, <4>3, <2>1
    <3>2. joined[0] = <<>>
      OBVIOUS
    <3> HIDE DEF joined
    <3> QED
      BY <3>1, <3>2 DEF JoiningSteps
  <2>7. joined[n] = flat[n]
    BY <1>9
  <2> HIDE DEF joined
  <2> QED
    BY <2>5, <2>6, <2>7
<1> QED
  BY <1>8, <1>9

\* What the loops of BufferOf and FlattenSeq have made of the first k fragments.
PartOfList(list, freep, k, b, s) ==
    /\ Laid(b) /\ b.offset = 0 /\ b.current = 1 /\ ~b.shared_buffer
    /\ b.size = b.offsets[Count(b) + 1]
    /\ \A i \in 1 .. Count(b) :
        /\ b.fragments[i].data \in 1 .. k
        /\ b.fragments[i].length = Len(list[b.fragments[i].data])
        /\ b.fragments[i].free_data = freep
    /\ \A i, j \in 1 .. Count(b) : b.fragments[i].data = b.fragments[j].data => i = j
    /\ \A a \in 1 .. k : list[a] # <<>> => \E i \in 1 .. Count(b) : b.fragments[i].data = a
    /\ s \in Seq(Byte) /\ Len(s) = b.size
    /\ \A i \in 1 .. Count(b), p \in Nat :
        1 <= p /\ p <= b.fragments[i].length =>
            list[b.fragments[i].data][p] = s[b.offsets[i] + p]

LEMMA WithIs ==
    ASSUME NEW list \in Seq(Seq(Byte)), Len(list) <= MaxAddress, NEW freep \in BOOLEAN,
           NEW k \in 1 .. Len(list), NEW b, NEW s, PartOfList(list, freep, k - 1, b, s)
    PROVE  PartOfList(list, freep, k, With(b, list, k, freep), s \o list[k])
<1> DEFINE n == Count(b)
           e == list[k]
           f == [data |-> k, length |-> Len(e), free_data |-> freep]
           c == With(b, list, k, freep)
           t == s \o e
<1>1. /\ e \in Seq(Byte) /\ Len(e) \in Nat /\ k \in Addresses /\ Len(list) \in Nat
      /\ s \in Seq(Byte) /\ Len(s) \in Nat
  BY SizeAssumption DEF Addresses, PartOfList
<1>2. /\ t \in Seq(Byte) /\ Len(t) = Len(s) + Len(e)
      /\ \A p \in 1 .. Len(s) : t[p] = s[p]
      /\ \A p \in 1 .. Len(e) : t[Len(s) + p] = e[p]
  <2> HIDE DEF e
  <2>1. /\ t \in Seq(Byte) /\ Len(t) = Len(s) + Len(e)
        /\ \A i \in 1 .. Len(s) + Len(e) : t[i] = IF i <= Len(s) THEN s[i] ELSE e[i - Len(s)]
    BY <1>1, ConcatProperties
  <2>2. ASSUME NEW p \in 1 .. Len(s) PROVE t[p] = s[p]
    <3>1. p \in 1 .. Len(s) + Len(e) /\ p <= Len(s)
      BY <1>1
    <3> QED
      BY <3>1, <2>1
  <2>3. ASSUME NEW p \in 1 .. Len(e) PROVE t[Len(s) + p] = e[p]
    <3>1. Len(s) + p \in 1 .. Len(s) + Len(e) /\ ~(Len(s) + p <= Len(s)) /\ Len(s) + p - Len(s) = p
      BY <1>1
    <3> QED
      BY <3>1, <2>1
  <2> QED
    BY <2>1, <2>2, <2>3
<1>3. CASE e = <<>>
  <2>1. c = b /\ t = s /\ Len(e) = 0
    BY <1>1, <1>3, ConcatEmptySeq DEF With
  <2>2. \A a \in 1 .. k : list[a] # <<>> => a \in 1 .. k - 1
    BY <1>3
  <2>3. \A a \in 1 .. k - 1 : a \in 1 .. k
    BY <1>1
  <2> HIDE DEF c, t
  <2>4. PartOfList(list, freep, k, b, s)
    <3>1. \A i \in 1 .. Count(b) : b.fragments[i].data \in 1 .. k
      BY <2>3 DEF PartOfList
    <3>2. \A a \in 1 .. k : list[a] # <<>> => \E i \in 1 .. Count(b) : b.fragments[i].data = a
      BY <2>2 DEF PartOfList
    <3> QED
      BY <3>1, <3>2 DEF PartOfList
  <2> QED
    BY <2>1, <2>4 DEF c, t
<1>4. CASE e # <<>>
  <2>1. Len(e) > 0 /\ f \in Fragment /\ f.length > 0
    <3>1. Len(e) # 0
      BY <1>1, <1>4, EmptySeq
    <3> QED
      BY <3>1, <1>1 DEF Fragment
  <2>2. /\ Laid(b) /\ n \in Nat /\ b.offset = 0 /\ b.current = 1 /\ ~b.shared_buffer
        /\ b.size = b.offsets[n + 1] /\ b.size \in Nat /\ BufferCapacity(b) = b.size
        /\ \A i \in 1 .. n : /\ b.fragments[i] \in Fragment /\ b.fragments[i].length \in Nat
                             /\ b.offsets[i] \in Nat /\ b.offsets[i + 1] \in Nat
                             /\ b.offsets[i + 1] = b.offsets[i] + b.fragments[i].length
    <3>1. Laid(b) /\ b.size = b.offsets[n + 1] /\ b.offset = 0 /\ b.current = 1 /\ ~b.shared_buffer
      BY DEF PartOfList
    <3>2. /\ n \in Nat /\ BufferCapacity(b) = b.offsets[n + 1]
          /\ \A i \in 1 .. n : b.fragments[i] \in Fragment /\ b.fragments[i].length \in Nat
                               /\ b.offsets[i + 1] = b.offsets[i] + b.fragments[i].length
          /\ \A i \in 1 .. n + 1 : b.offsets[i] \in Nat
      BY <3>1, LaidTypes
    <3> HIDE DEF n
    <3>3. n + 1 \in 1 .. n + 1 /\ \A i \in 1 .. n : i \in 1 .. n + 1 /\ i + 1 \in 1 .. n + 1
      BY <3>2
    <3> QED
      BY <3>1, <3>2, <3>3
  <2>3. /\ b \in Buffer
        /\ c = [b EXCEPT !.fragments = Append(b.fragments, f),
                         !.offsets = Append(b.offsets, BufferCapacity(b) + Len(e)),
                         !.size = BufferCapacity(b) + Len(e)]
    BY <1>4, <2>2 DEF With, Laid, Buffer
  <2>4. /\ c \in Buffer /\ c.fragments = Append(b.fragments, f)
        /\ c.offsets = Append(b.offsets, BufferCapacity(b) + f.length)
        /\ c.size = b.size + Len(e) /\ c.offset = 0 /\ c.current = 1 /\ ~c.shared_buffer
    <3>1. b.fragments \in Seq(Fragment) /\ b.offsets \in Seq(Nat)
      BY <2>2, LaidTypes
    <3> DEFINE cap == BufferCapacity(b) + Len(e)
               fs == Append(b.fragments, f)
               os == Append(b.offsets, cap)
    <3>2. f.length = Len(e) /\ cap = b.size + Len(e) /\ cap \in Nat
      BY <2>2, <1>1
    <3>3. /\ b \in Buffer /\ c = [b EXCEPT !.fragments = fs, !.offsets = os, !.size = cap]
      BY <2>3
    <3> HIDE DEF f, e, c, cap
    <3>4. fs \in Seq(Fragment) /\ os \in Seq(Nat)
      BY <3>1, <3>2, <2>1, AppendProperties
    <3> HIDE DEF fs, os
    <3>5. c \in Buffer /\ c.fragments = fs /\ c.offsets = os /\ c.size = cap /\ c.offset = b.offset
          /\ c.current = b.current /\ c.shared_buffer = b.shared_buffer
      BY <3>2, <3>3, <3>4 DEF Buffer
    <3>6. /\ fs = Append(b.fragments, f) /\ os = Append(b.offsets, BufferCapacity(b) + f.length)
          /\ cap = b.size + Len(e)
      BY <3>2 DEF fs, os, cap
    <3>7. b.offset = 0 /\ b.current = 1 /\ ~b.shared_buffer
      BY <2>2
    <3> QED
      BY <3>5, <3>6, <3>7
  <2>5. /\ Laid(c) /\ Count(c) = n + 1
        /\ \A i \in 1 .. n : c.fragments[i] = b.fragments[i]
        /\ c.fragments[n + 1] = f
        /\ \A i \in 1 .. n + 1 : c.offsets[i] = b.offsets[i]
        /\ c.offsets[n + 2] = b.offsets[n + 1] + f.length
    <3> HIDE DEF f, c
    <3>1. /\ Laid(b) /\ f \in Fragment /\ f.length > 0 /\ c \in Buffer
          /\ c.fragments = Append(b.fragments, f)
          /\ c.offsets = Append(b.offsets, BufferCapacity(b) + f.length)
      BY <2>1, <2>2, <2>4
    <3> QED
      BY ONLY <3>1, LongerIs
  <2>6. f.data = k /\ f.length = Len(e) /\ f.free_data = freep
    OBVIOUS
  <2> HIDE DEF c, f, n, t
  <2>7. c.size = c.offsets[Count(c) + 1]
    <3>1. Count(c) + 1 = n + 2
      BY <2>2, <2>5
    <3> QED
      BY <2>2, <2>4, <2>5, <2>6, <3>1
  <2>8. \A i \in 1 .. n + 1 : i \in 1 .. n \/ i = n + 1
    BY <2>2
  <2>9. /\ \A i \in 1 .. n : b.fragments[i].data \in 1 .. k - 1
                             /\ b.fragments[i].length = Len(list[b.fragments[i].data])
                             /\ b.fragments[i].free_data = freep
        /\ \A i, j \in 1 .. n : b.fragments[i].data = b.fragments[j].data => i = j
        /\ \A a \in 1 .. k - 1 : list[a] # <<>> => \E i \in 1 .. n : b.fragments[i].data = a
        /\ Len(s) = b.size
        /\ \A i \in 1 .. n, p \in Nat :
            1 <= p /\ p <= b.fragments[i].length =>
                list[b.fragments[i].data][p] = s[b.offsets[i] + p]
    BY DEF PartOfList, n
  <2>10. \A i \in 1 .. n + 1 :
            /\ c.fragments[i].data \in 1 .. k
            /\ c.fragments[i].length = Len(list[c.fragments[i].data])
            /\ c.fragments[i].free_data = freep
    <3>1. \A a \in 1 .. k - 1 : a \in 1 .. k
      BY <1>1
    <3>2. ASSUME NEW i \in 1 .. n
          PROVE  /\ c.fragments[i].data \in 1 .. k
                 /\ c.fragments[i].length = Len(list[c.fragments[i].data])
                 /\ c.fragments[i].free_data = freep
      <4>1. c.fragments[i] = b.fragments[i]
        BY <2>5
      <4> QED
        BY <4>1, <2>9, <3>1
    <3>3. /\ c.fragments[n + 1].data \in 1 .. k
          /\ c.fragments[n + 1].length = Len(list[c.fragments[n + 1].data])
          /\ c.fragments[n + 1].free_data = freep
      <4>1. k \in 1 .. k
        BY <1>1
      <4> QED
        BY <4>1, <2>5, <2>6 DEF e
    <3> QED
      BY <2>8, <3>2, <3>3
  <2>11. \A i, j \in 1 .. n + 1 : c.fragments[i].data = c.fragments[j].data => i = j
    <3>1. \A i \in 1 .. n : c.fragments[i].data = b.fragments[i].data /\ c.fragments[i].data # k
      <4>1. \A a \in 1 .. k - 1 : a # k
        BY <1>1
      <4> QED
        BY <2>5, <2>9, <4>1
    <3>2. c.fragments[n + 1].data = k
      BY <2>5, <2>6
    <3>3. \A i, j \in 1 .. n : c.fragments[i].data = c.fragments[j].data => i = j
      BY <2>9, <3>1
    <3> QED
      BY <2>8, <3>1, <3>2, <3>3
  <2>12. \A a \in 1 .. k : list[a] # <<>> => \E i \in 1 .. n + 1 : c.fragments[i].data = a
    <3>1. ASSUME NEW a \in 1 .. k, list[a] # <<>> PROVE \E i \in 1 .. n + 1 : c.fragments[i].data = a
      <4>1. CASE a = k
        <5>1. n + 1 \in 1 .. n + 1 /\ c.fragments[n + 1].data = a
          BY <2>2, <2>5, <2>6, <4>1
        <5> QED
          BY <5>1
      <4>2. CASE a # k
        <5>1. a \in 1 .. k - 1
          BY <4>2
        <5>2. PICK i \in 1 .. n : b.fragments[i].data = a
          BY <2>9, <3>1, <5>1
        <5>3. i \in 1 .. n + 1 /\ c.fragments[i].data = a
          BY <2>2, <2>5, <5>2
        <5> QED
          BY <5>3
      <4> QED
        BY <4>1, <4>2
    <3> QED
      BY <3>1
  <2>13. ASSUME NEW i \in 1 .. n + 1, NEW p \in Nat, 1 <= p, p <= c.fragments[i].length
         PROVE  list[c.fragments[i].data][p] = t[c.offsets[i] + p]
    <3>1. CASE i = n + 1
      <4>1. /\ c.fragments[i].data = k /\ c.fragments[i].length = Len(e)
            /\ c.offsets[i] = Len(s)
        <5>1. n + 1 \in 1 .. n + 1
          BY <2>2
        <5> QED
          BY <3>1, <5>1, <2>2, <2>5, <2>6, <2>9
      <4>2. p \in 1 .. Len(e)
        BY <4>1, <2>13, <1>1
      <4> QED
        BY <4>1, <4>2, <1>2 DEF t, e
    <3>2. CASE i # n + 1
      <4>1. i \in 1 .. n
        BY <3>2, <2>8
      <4>2. c.fragments[i] = b.fragments[i] /\ c.offsets[i] = b.offsets[i]
        BY <4>1, <2>5
      <4>3. list[b.fragments[i].data][p] = s[b.offsets[i] + p]
        <5>1. 1 <= p /\ p <= b.fragments[i].length
          BY <4>2, <2>13
        <5> QED
          BY <4>1, <5>1, <2>9
      <4>4. b.offsets[i + 1] <= b.offsets[n + 1]
        <5>1. CASE i = n
          BY <5>1, <4>1, <2>2
        <5>2. CASE i # n
          <6>1. i + 1 \in 1 .. n + 1 /\ n + 1 \in 1 .. n + 1 /\ i \in 1 .. n + 1 /\ i < n + 1
            BY <4>1, <2>2
          <6> QED
            BY <6>1, <2>2, OffsetsGrow DEF n
        <5> QED
          BY <5>1, <5>2
      <4>5. b.offsets[i] + p \in 1 .. Len(s)
        <5>1. /\ b.offsets[i] \in Nat /\ b.offsets[i + 1] \in Nat /\ b.fragments[i].length \in Nat
              /\ b.offsets[i + 1] = b.offsets[i] + b.fragments[i].length /\ p <= b.fragments[i].length
              /\ Len(s) = b.offsets[n + 1] /\ Len(s) \in Nat
          BY <4>1, <4>2, <2>2, <2>9, <2>13, <1>1
        <5>2. \A o, l, q, last \in Nat : 1 <= q /\ q <= l /\ o + l <= last => o + q \in 1 .. last
          OBVIOUS
        <5> QED
          BY <5>1, <5>2, <4>4, <2>13
      <4> QED
        BY <4>2, <4>3, <4>5, <1>2 DEF t
    <3> QED
      BY <3>1, <3>2
  <2>14. t \in Seq(Byte) /\ Len(t) = c.size
    BY <1>2, <2>4, <2>9 DEF t
  <2>15. Count(c) = n + 1 /\ Laid(c) /\ c.offset = 0 /\ c.current = 1 /\ ~c.shared_buffer
    BY <2>4, <2>5
  <2>16. \A i \in 1 .. n + 1, p \in Nat :
            1 <= p /\ p <= c.fragments[i].length => list[c.fragments[i].data][p] = t[c.offsets[i] + p]
    BY <2>13
  <2>17. PartOfList(list, freep, k, c, t)
    BY <2>7, <2>10, <2>11, <2>12, <2>14, <2>15, <2>16 DEF PartOfList
  <2> QED
    BY <2>17 DEF c, t, e
<1> QED
  BY <1>3, <1>4

LEMMA FirstFields ==
    ASSUME NEW n
    PROVE  LET b == [NewBuffer EXCEPT !.capacity = n]
           IN /\ b.fragments = <<>> /\ b.offsets = <<0>> /\ b.size = 0 /\ b.offset = 0 /\ b.current = 1
              /\ ~b.shared_buffer /\ NewBuffer \in Buffer
<1>1. NewBuffer \in Buffer
  BY NewBufferIs DEF IsBuffer, Laid
<1> QED
  BY <1>1 DEF NewBuffer

\* The buffer that is made holds the user's bytes, each fragment with some.
LEMMA BufferOfIs ==
    ASSUME NEW list \in Seq(Seq(Byte)), Len(list) <= MaxAddress, NEW freep \in BOOLEAN
    PROVE  PartOfList(list, freep, Len(list), BufferOf(list, freep), FlattenSeq(list))
<1> DEFINE n == Len(list)
<1>1. n \in Nat
  OBVIOUS
<1>2. PICK f : MakingSteps(list, freep, n, f) /\ BufferOf(list, freep) = f[n]
  BY <1>1, MakingLoop
<1>3. PICK g : JoiningSteps(list, n, g) /\ FlattenSeq(list) = g[n]
  BY <1>1, JoiningLoop
<1> DEFINE Good == {k \in 0 .. n : PartOfList(list, freep, k, f[k], g[k])}
<1>4. \A k \in 0 .. n : PartOfList(list, freep, k, f[k], g[k]) => k \in Good
  OBVIOUS
<1>5. 0 \in Good
  <2> DEFINE b == [NewBuffer EXCEPT !.capacity = n]
  <2>1. f[0] = b /\ g[0] = <<>>
    BY <1>2, <1>3 DEF MakingSteps, JoiningSteps
  <2> HIDE DEF n
  <2>2. /\ b.fragments = <<>> /\ b.offsets = <<0>> /\ b.size = 0 /\ b.offset = 0 /\ b.current = 1
        /\ ~b.shared_buffer /\ b = [NewBuffer EXCEPT !.capacity = n] /\ NewBuffer \in Buffer
    BY FirstFields
  <2>3. <<0>> \in Seq(Nat) /\ Len(<<0>>) = 1 /\ <<0>>[1] = 0 /\ <<>> \in Seq(Byte)
        /\ Len(<<>>) = 0
    OBVIOUS
  <2> HIDE DEF b
  <2>4. b \in Buffer /\ Count(b) = 0
    BY <2>2, <2>3, <1>1 DEF Buffer, Count
  <2>6. 1 .. 0 = {} /\ 0 + 1 = 1
    OBVIOUS
  <2>5. Laid(b)
    <3>1. Len(b.offsets) = Count(b) + 1 /\ b.offsets[1] = 0
      BY <2>2, <2>3, <2>4
    <3>2. 1 .. Count(b) = {}
      BY <2>4, <2>6
    <3> QED
      BY <2>4, <3>1, <3>2 DEF Laid
  <2>7. PartOfList(list, freep, 0, b, <<>>)
    BY <2>2, <2>3, <2>4, <2>5, <2>6 DEF PartOfList
  <2>8. 0 \in 0 .. n /\ PartOfList(list, freep, 0, f[0], g[0])
    BY <1>1, <2>1, <2>7
  <2> HIDE DEF Good
  <2> QED
    BY <1>4, <2>8
<1>6. ASSUME NEW k \in 1 .. n, k - 1 \in Good PROVE k \in Good
  <2>1. f[k] = With(f[k - 1], list, k, freep) /\ g[k] = g[k - 1] \o list[k]
    BY <1>2, <1>3 DEF MakingSteps, JoiningSteps
  <2>2. PartOfList(list, freep, k - 1, f[k - 1], g[k - 1])
    BY <1>6
  <2>3. PartOfList(list, freep, k, With(f[k - 1], list, k, freep), g[k - 1] \o list[k])
    BY <2>2, WithIs
  <2>4. k \in 0 .. n /\ PartOfList(list, freep, k, f[k], g[k])
    BY <2>1, <2>3, <1>1
  <2> HIDE DEF Good
  <2> QED
    BY <2>4, <1>4
<1>7. n \in Good
  <2> HIDE DEF Good, n
  <2>1. \A k \in 0 .. n : k \in Good
    BY <1>1, <1>5, <1>6, StepByStep
  <2> QED
    BY <1>1, <2>1
<1> QED
  BY <1>2, <1>3, <1>7

\* Its memory is the user's.
LEMMA MadeIs ==
    ASSUME NEW list \in Seq(Seq(Byte)), Len(list) <= MaxAddress, NEW freep \in BOOLEAN,
           NEW mem, mem = [a \in Addresses |->
                IF a \in DOMAIN list /\ (list[a] # <<>> \/ ~freep)
                THEN [bytes |-> list[a], user |-> TRUE] ELSE NULL]
    PROVE  LET b == BufferOf(list, freep)
           IN /\ Owned(mem, freep, b, NULL) /\ b # NULL /\ b.offset = 0
              /\ Contents(mem, b) = FlattenSeq(list)
<1> DEFINE b == BufferOf(list, freep)
           s == FlattenSeq(list)
           block(a) == [bytes |-> list[a], user |-> TRUE]
<1>1. PartOfList(list, freep, Len(list), b, s)
  BY BufferOfIs
<1>2. Len(list) \in Nat /\ DOMAIN list = 1 .. Len(list) /\ Len(list) <= MaxAddress /\ MaxAddress \in Nat
      /\ \A a \in DOMAIN list : a \in Addresses /\ list[a] \in Seq(Byte)
  BY SizeAssumption DEF Addresses
<1>3. \A a \in DOMAIN list : /\ block(a) \in Block /\ block(a).bytes = list[a] /\ block(a).user
                             /\ block(a) # NULL
  <2>1. \A a \in DOMAIN list : list[a] \in Bytes
    <3>1. \A t \in Seq(Byte) : t \in Seq(Byte \cup {UNDEFINED})
      OBVIOUS
    <3> QED
      BY <1>2, <3>1 DEF Bytes
  <2>2. \A t \in Bytes : LET x == [bytes |-> t, user |-> TRUE]
                        IN x \in Block /\ x.bytes = t /\ x.user /\ x # NULL
    <3>1. ASSUME NEW t \in Bytes, NEW x, x = [bytes |-> t, user |-> TRUE]
          PROVE  x \in Block /\ x.bytes = t /\ x.user
      <4>1. x \in Block
        BY <3>1 DEF Block
      <4>2. x.bytes = t
        BY <3>1
      <4>3. x.user
        BY <3>1
      <4> QED
        BY <4>1, <4>2, <4>3
    <3> QED
      BY <3>1, NullAssumption
  <2> QED
    BY <2>1, <2>2
<1>4. \A a \in Addresses : mem[a] = IF a \in DOMAIN list /\ (list[a] # <<>> \/ ~freep) THEN block(a) ELSE NULL
  OBVIOUS
<1> HIDE DEF b, s, block
<1>5. mem \in [Addresses -> Block \cup {NULL}]
  <2>1. \A a \in Addresses : mem[a] \in Block \cup {NULL}
    BY <1>3, <1>4
  <2>2. mem = [a \in Addresses |-> mem[a]]
    OBVIOUS
  <2> HIDE DEF block
  <2>3. \A f : f = [a \in Addresses |-> f[a]] /\ (\A a \in Addresses : f[a] \in Block \cup {NULL})
                => f \in [Addresses -> Block \cup {NULL}]
    OBVIOUS
  <2> QED
    BY ONLY <2>1, <2>2, <2>3
<1>6. /\ Laid(b) /\ b.offset = 0 /\ b.current = 1 /\ ~b.shared_buffer
      /\ Count(b) \in Nat /\ b.size \in Nat /\ b.size = b.offsets[Count(b) + 1]
      /\ b.offsets[1] = 0
      /\ \A i \in 1 .. Count(b) + 1 : b.offsets[i] \in Nat
      /\ \A i \in 1 .. Count(b) :
            /\ b.fragments[i].length \in Nat \ {0}
            /\ b.offsets[i + 1] = b.offsets[i] + b.fragments[i].length
  <2>1. /\ Laid(b) /\ b.offset = 0 /\ b.current = 1 /\ ~b.shared_buffer
        /\ b.size = b.offsets[Count(b) + 1]
    BY <1>1 DEF PartOfList
  <2> QED
    BY <2>1, LaidTypes
<1>7. \A i \in 1 .. Count(b) :
        /\ b.fragments[i].data \in DOMAIN list
        /\ b.fragments[i].length = Len(list[b.fragments[i].data])
        /\ b.fragments[i].free_data = freep
        /\ list[b.fragments[i].data] # <<>>
        /\ mem[b.fragments[i].data] = block(b.fragments[i].data)
  <2>1. ASSUME NEW i \in 1 .. Count(b)
        PROVE  /\ b.fragments[i].data \in DOMAIN list
               /\ b.fragments[i].length = Len(list[b.fragments[i].data])
               /\ b.fragments[i].free_data = freep
    BY <1>1, <1>2 DEF PartOfList
  <2>2. ASSUME NEW i \in 1 .. Count(b) PROVE list[b.fragments[i].data] # <<>>
    <3>1. Len(list[b.fragments[i].data]) # 0
      BY <2>1, <1>6
    <3> QED
      BY <3>1
  <2> QED
    BY <2>1, <2>2, <1>2, <1>4
<1>8. Placed(b)
  <2>1. 1 \in 1 .. Count(b) + 1 /\ Count(b) + 1 \in 1 .. Count(b) + 1
        /\ (1 <= Count(b) => b.offsets[1 + 1] \in Nat)
    BY <1>6
  <2> QED
    BY <2>1, <1>6 DEF Placed, IsAt
<1>9. Backed(mem, freep, b)
  <2>1. ASSUME NEW i \in 1 .. Count(b)
        PROVE  /\ mem[b.fragments[i].data] \in Block
               /\ b.fragments[i].length <= Len(mem[b.fragments[i].data].bytes)
               /\ b.fragments[i].free_data = (freep \/ ~mem[b.fragments[i].data].user)
    <3>1. /\ b.fragments[i].data \in DOMAIN list
          /\ b.fragments[i].length = Len(list[b.fragments[i].data]) /\ b.fragments[i].free_data = freep
          /\ mem[b.fragments[i].data] = block(b.fragments[i].data)
      BY <1>7
    <3>2. mem[b.fragments[i].data].user = TRUE
      BY <3>1, <1>3 DEF block
    <3> QED
      BY <3>1, <3>2, <1>3, <1>6
  <2>2. \A i, j \in 1 .. Count(b) : b.fragments[i].data = b.fragments[j].data => i = j
    BY <1>1 DEF PartOfList
  <2> QED
    BY <2>1, <2>2 DEF Backed
<1>10. IsBuffer(mem, freep, b)
  BY <1>6, <1>8, <1>9 DEF IsBuffer
<1>11. b # NULL /\ HeldBy(b) = Held(b) /\ \A a : a \in Held(b) <=> \E i \in 1 .. Count(b) : b.fragments[i].data = a
  BY <1>6, HeldIs
<1>12. ASSUME NEW a \in Addresses, mem[a] # NULL PROVE a \in HeldBy(b) \cup HeldBy(NULL) \/ (mem[a].user /\ ~freep)
  <2>1. a \in DOMAIN list /\ (list[a] # <<>> \/ ~freep) /\ mem[a] = block(a)
    BY <1>4, <1>12
  <2>2. mem[a].user
    BY <2>1, <1>3
  <2>3. list[a] # <<>> => \E i \in 1 .. Count(b) : b.fragments[i].data = a
    BY <1>1, <1>2, <2>1 DEF PartOfList
  <2> QED
    BY <2>1, <2>2, <2>3, <1>11
<1>13. Owned(mem, freep, b, NULL)
  BY <1>5, <1>6, <1>10, <1>11, <1>12 DEF Owned
<1>14. Contents(mem, b) = s
  <2>1. s \in Seq(Byte) /\ Len(s) = b.size
    BY <1>1 DEF PartOfList
  <2>2. ASSUME NEW i \in 1 .. Count(b), NEW place \in 1 .. b.size, b.offsets[i] < place, place <= b.offsets[i + 1]
        PROVE  ByteIn(mem, b, i, place) = s[place]
    <3> DEFINE p == place - b.offsets[i]
    <3>1. /\ p \in Nat /\ 1 <= p /\ p <= b.fragments[i].length /\ b.offsets[i] + p = place
      <4>1. i \in 1 .. Count(b) + 1
        BY <1>6
      <4>2. /\ b.offsets[i] \in Nat /\ b.fragments[i].length \in Nat
            /\ b.offsets[i + 1] = b.offsets[i] + b.fragments[i].length
        BY <4>1, <1>6
      <4> DEFINE o == b.offsets[i]
                 l == b.fragments[i].length
      <4>3. o \in Nat /\ l \in Nat /\ o < place /\ place <= o + l /\ place \in Nat /\ p = place - o
        BY <4>2, <2>2
      <4> HIDE DEF o, l, p
      <4>4. p \in Nat /\ 1 <= p /\ p <= l /\ o + p = place
        BY <4>3
      <4> QED
        BY <4>4 DEF o, l
    <3>2. ByteIn(mem, b, i, place) = list[b.fragments[i].data][p]
      <4>1. mem[b.fragments[i].data].bytes = list[b.fragments[i].data]
        BY <1>3, <1>7
      <4> QED
        BY <4>1 DEF ByteIn
    <3> HIDE DEF p
    <3>3. list[b.fragments[i].data][p] = s[b.offsets[i] + p]
      BY <1>1, <3>1 DEF PartOfList
    <3> QED
      BY <3>1, <3>2, <3>3
  <2>3. b.size <= b.offsets[Count(b) + 1]
    BY <1>6
  <2>4. \A i \in 1 .. Count(b), place \in 1 .. b.size :
            b.offsets[i] < place /\ place <= b.offsets[i + 1] => ByteIn(mem, b, i, place) = s[place]
    BY <2>2
  <2>5. Laid(b)
    BY <1>6
  <2> QED
    BY <2>1, <2>3, <2>4, <2>5, ContentsAre
<1> QED
  BY <1>6, <1>11, <1>13, <1>14 DEF b, s

LEMMA CreateIsRight ==
    ASSUME IInv, NEW list \in UserFragments, NEW freep \in BOOLEAN, Create(list, freep)
    PROVE  StepIsRight
<1>1. CASE Fails
  BY <1>1, FailsIsRight
<1>2. CASE ~Fails
  <2>1. /\ write_state = "NEW" /\ \A i \in DOMAIN list : list[i] # NULL
        /\ in' = BufferOf(list, freep)
        /\ memory' = [a \in Addresses |->
                IF a \in DOMAIN list /\ (list[a] # <<>> \/ ~freep)
                THEN [bytes |-> list[a], user |-> TRUE] ELSE NULL]
        /\ free_data' = freep /\ data' = <<>> /\ write_state' = "CLOSED"
        /\ out' = out /\ open_count' = open_count
    BY <1>2 DEF Create
  <2>2. list \in Seq(Seq(Byte)) /\ Len(list) <= MaxAddress
    <3>1. list \in Seq(Seq(Byte) \cup {NULL}) /\ Len(list) <= MaxAddress
      BY UserAssumption
    <3>2. list \in [1 .. Len(list) -> Seq(Byte) \cup {NULL}] /\ Len(list) \in Nat /\ DOMAIN list = 1 .. Len(list)
      BY <3>1
    <3>3. \A i \in 1 .. Len(list) : list[i] \in Seq(Byte)
      BY <3>2, <2>1
    <3>4. list \in [1 .. Len(list) -> Seq(Byte)]
      BY <3>2, <3>3
    <3> QED
      BY <3>1, <3>2, <3>4, SeqDef
  <2>3. /\ Owned(memory', freep, in', NULL) /\ in' # NULL /\ in'.offset = 0
        /\ Contents(memory', in') = FlattenSeq(list)
    BY <2>1, <2>2, MadeIs
  <2>4. ~Exists /\ ~Writing
    BY <2>1 DEF Exists, Writing
  <2>5. /\ open_count = 0 /\ out = NULL /\ in = NULL /\ Contents(memory, in) = NULL
        /\ Contents(memory, out) = NULL
    BY <2>4, Mapping
  <2>6. Contents(memory', out') = NULL
    BY <2>1, <2>5 DEF Contents
  <2>7. IInv'
    <3>1. States'
      BY <2>1, <2>3, <2>5 DEF States, Exists, Writing
    <3>2. Owned(memory, free_data, in, out)' /\ Borrowed(memory, in, out)'
      BY <2>1, <2>3, <2>5 DEF Borrowed
    <3> QED
      BY <3>1, <3>2 DEF IInv
  <2>8. UserStays
    <3>1. \A a \in Addresses : memory[a] = NULL
      BY <2>1 DEF IInv, States
    <3> QED
      BY <3>1 DEF UserStays
  <2>9. Abstract!Create
    BY <2>1, <2>2, <2>3, <2>5, <2>6 DEF Abstract!Create, Abstract!Exists, Abstract!Writer
  <2> QED
    BY <2>1, <2>7, <2>8, <2>9 DEF StepIsRight, Abstract!Next
<1> QED
  BY <1>1, <1>2

(***************************************************************************)
(* buffer_write: the fragments that are missing.                           *)
(***************************************************************************)

\* What a call that has begun to write works on.
IsWork(m, freep) ==
    /\ m = [memory |-> m.memory, in |-> m.in, out |-> m.out, left |-> m.left, ok |-> m.ok]
    /\ m.left \in Nat /\ m.ok \in BOOLEAN /\ m.in # NULL /\ m.out # NULL
    /\ Owned(m.memory, freep, m.in, m.out)
    /\ Borrowed(m.memory, m.in, m.out)

Kept(mem, later) == \A a \in Addresses : mem[a] # NULL => later[a] = mem[a]

\* The writer has got memory, and nothing else has changed.
GrownTo(freep, m, n) ==
    /\ IsWork(n, freep) /\ n.in = m.in
    /\ n.out.size = m.out.size /\ n.out.offset = m.out.offset
    /\ Kept(m.memory, n.memory)
    /\ Contents(n.memory, n.out) = Contents(m.memory, m.out)
    /\ n.ok => m.ok

LEMMA GrownTwice ==
    ASSUME NEW freep, NEW m, NEW n, NEW o, GrownTo(freep, m, n), GrownTo(freep, n, o)
    PROVE  GrownTo(freep, m, o)
<1>1. Kept(m.memory, o.memory)
  <2>1. ASSUME NEW a \in Addresses, m.memory[a] # NULL PROVE o.memory[a] = m.memory[a]
    BY <2>1 DEF GrownTo, Kept
  <2> QED
    BY <2>1 DEF Kept
<1> QED
  BY <1>1 DEF GrownTo

\* The writer's buffer may move, and its arrays may grow.
LEMMA AlikeIs ==
    ASSUME NEW mem, NEW freep, NEW b, NEW w, NEW c, b # NULL, w # NULL,
           Owned(mem, freep, b, w), Borrowed(mem, b, w),
           c \in Buffer, c.fragments = w.fragments, c.offsets = w.offsets,
           c.shared_buffer = w.shared_buffer, Placed(c)
    PROVE  /\ Owned(mem, freep, b, c) /\ Borrowed(mem, b, c) /\ c # NULL
           /\ Laid(c) /\ Count(c) = Count(w)
<1>1. Laid(w) /\ Backed(mem, freep, w)
  BY DEF Owned, IsBuffer
<1>2. Laid(c) /\ Backed(mem, freep, c) /\ Held(c) = Held(w) /\ Count(c) = Count(w)
  <2> DEFINE later == mem
  <2>1. \A a \in Held(w) : later[a] = mem[a]
    OBVIOUS
  <2> HIDE DEF later
  <2>2. /\ Laid(c) /\ Backed(later, freep, c) /\ Held(c) = Held(w) /\ Count(c) = Count(w)
    BY <1>1, <2>1, SameFragments
  <2> QED
    BY <2>2 DEF later
<1>3. IsBuffer(mem, freep, c)
  BY <1>2 DEF IsBuffer
<1>4. c # NULL /\ HeldBy(c) = HeldBy(w)
  BY <1>1, <1>2, HeldIs
<1>5. Sharing(b, c)
  <2>1. Sharing(b, w)
    BY DEF Owned
  <2> QED
    BY <2>1, <1>2 DEF Sharing
<1>6. Owned(mem, freep, b, c)
  BY <1>3, <1>4, <1>5 DEF Owned
<1>7. Borrowed(mem, b, c)
  BY <1>2 DEF Borrowed
<1> QED
  BY <1>2, <1>4, <1>6, <1>7

DoublingSteps(needed, capacity, n, f) ==
    f[0] = (IF capacity = 0 THEN FirstCapacity ELSE capacity) /\ \A k \in 1 .. n : f[k] = (IF f[k - 1] >= needed THEN f[k - 1] ELSE 2 * f[k - 1])

\* The loop of DoubledTo.
LEMMA DoublingLoop ==
    ASSUME NEW needed, NEW capacity, NEW n \in Nat
    PROVE  \E f : DoublingSteps(needed, capacity, n, f) /\ (needed = n => DoubledTo(needed, capacity) = f[n])
<1> DEFINE first == (IF capacity = 0 THEN FirstCapacity ELSE capacity)
           Next_(k, c) == (IF c >= needed THEN c ELSE 2 * c)
           body(f, m) == [k \in 0 .. m |-> IF k = 0 THEN first ELSE Next_(k, f[k - 1])]
           IsLoop(f, m) == f = body(f, m)
           Good == {m \in Nat : \E f : IsLoop(f, m)}
<1>1. 0 \in Good
  <2> DEFINE g == [k \in 0 .. 0 |-> first]
  <2> HIDE DEF first, Next_
  <2>1. IsLoop(g, 0)
    OBVIOUS
  <2> HIDE DEF g, IsLoop
  <2> QED
    BY <2>1
<1>2. ASSUME NEW m \in 1 .. n, m - 1 \in Good PROVE m \in Good
  <2>1. PICK f : f = body(f, m - 1)
    BY <1>2
  <2> DEFINE g == [k \in 0 .. m |-> IF k = m THEN Next_(m, f[m - 1]) ELSE f[k]]
  <2> HIDE DEF first, Next_
  <2>2. \A k \in 0 .. m - 1 : f[k] = IF k = 0 THEN first ELSE Next_(k, f[k - 1])
    BY <2>1
  <2>3. ASSUME NEW k \in 0 .. m PROVE g[k] = IF k = 0 THEN first ELSE Next_(k, g[k - 1])
    <3>1. CASE k = m
      <4>1. k # 0 /\ k - 1 \in 0 .. m /\ k - 1 # m
        BY <3>1
      <4>2. g[k] = Next_(m, f[m - 1]) /\ g[k - 1] = f[m - 1]
        BY <3>1, <4>1
      <4> QED
        BY <4>1, <4>2, <3>1
    <3>2. CASE k # m
      <4>1. k \in 0 .. m - 1 /\ g[k] = f[k]
        BY <3>2
      <4>2. k # 0 => g[k - 1] = f[k - 1]
        BY <3>2
      <4> QED
        BY <4>1, <4>2, <2>2
    <3> QED
      BY <3>1, <3>2
  <2>4. IsLoop(g, m)
    BY <2>3
  <2> HIDE DEF g, IsLoop
  <2> QED
    BY <2>4
<1>3. \E f : IsLoop(f, n)
  <2>1. n \in Good
    <3> HIDE DEF Good
    <3>1. \A k \in 0 .. n : k \in Good
      BY <1>1, <1>2, StepByStep
    <3> QED
      BY <3>1
  <2> HIDE DEF IsLoop
  <2> QED
    BY <2>1
<1> DEFINE g == CHOOSE f : IsLoop(f, n)
<1>4. g = body(g, n)
  <2>1. IsLoop(g, n)
    <3> HIDE DEF IsLoop
    <3> QED
      BY <1>3
  <2> QED
    BY <2>1
<1>5. g[0] = first /\ \A k \in 1 .. n : g[k] = Next_(k, g[k - 1])
  <2> HIDE DEF first, Next_, g
  <2> QED
    BY <1>4
<1>6. DoublingSteps(needed, capacity, n, g)
  BY <1>5 DEF DoublingSteps
<1>7. needed = n => DoubledTo(needed, capacity) = g[n]
  BY DEF DoubledTo
<1> HIDE DEF g
<1> QED
  BY <1>6, <1>7

LEMMA DoubledToIs ==
    ASSUME NEW needed \in Nat, NEW capacity \in Nat
    PROVE  DoubledTo(needed, capacity) \in Nat
<1>1. PICK f : DoublingSteps(needed, capacity, needed, f) /\ DoubledTo(needed, capacity) = f[needed]
  BY DoublingLoop
<1> DEFINE Good == {k \in 0 .. needed : f[k] \in Nat}
<1>2. 0 \in Good
  BY <1>1, SizeAssumption DEF DoublingSteps
<1>3. ASSUME NEW k \in 1 .. needed, k - 1 \in Good PROVE k \in Good
  BY <1>1, <1>3 DEF DoublingSteps
<1>4. needed \in Good
  <2> HIDE DEF Good
  <2>1. \A k \in 0 .. needed : k \in Good
    BY <1>2, <1>3, StepByStep
  <2> QED
    BY <2>1
<1> QED
  BY <1>1, <1>4

LEMMA FailedIs ==
    ASSUME NEW mem, NEW b, NEW w, NEW l, NEW k, NEW m, m = [memory |-> mem, in |-> b, out |-> w, left |-> l, ok |-> k]
    PROVE  Failed(m) = [memory |-> mem, in |-> b, out |-> w, left |-> l, ok |-> FALSE]
<1> DEFINE no == FALSE
<1>1. Failed(m) = [m EXCEPT !.ok = no]
  BY DEF Failed
<1> HIDE DEF no
<1>2. [m EXCEPT !.ok = no] = [memory |-> mem, in |-> b, out |-> w, left |-> l, ok |-> no]
  OBVIOUS
<1>3. Failed(m) = [memory |-> mem, in |-> b, out |-> w, left |-> l, ok |-> no]
  BY <1>1, <1>2
<1> QED
  BY <1>3 DEF no

LEMMA GrowFragmentsIs ==
    ASSUME NEW freep, NEW m, IsWork(m, freep), NEW needed \in Nat
    PROVE  LET n == GrowFragments(m, needed)
           IN /\ GrownTo(freep, m, n)
              /\ n.ok => BufferCapacity(n.out) = BufferCapacity(m.out)
<1> DEFINE n == GrowFragments(m, needed)
<1>1. /\ m = [memory |-> m.memory, in |-> m.in, out |-> m.out, left |-> m.left, ok |-> m.ok]
      /\ m.left \in Nat /\ m.ok \in BOOLEAN /\ m.in # NULL /\ m.out # NULL
      /\ Owned(m.memory, freep, m.in, m.out) /\ Borrowed(m.memory, m.in, m.out)
  BY DEF IsWork
<1>2. CASE needed <= m.out.capacity
  <2>1. n = m
    BY <1>2 DEF GrowFragments
  <2> QED
    BY <2>1 DEF GrownTo, Kept
<1>3. CASE ~(needed <= m.out.capacity) /\ m.left < 2
  <2>1. n = [memory |-> m.memory, in |-> m.in, out |-> m.out, left |-> 0, ok |-> FALSE]
    <3> DEFINE u == Uses(m, m.left)
               none == 0
               mem == m.memory
               b == m.in
               w == m.out
               k == m.ok
    <3>1. n = Failed(u)
      BY <1>3 DEF GrowFragments
    <3>2. u = [memory |-> mem, in |-> b, out |-> w, left |-> none, ok |-> k]
      BY <1>1 DEF Uses
    <3> HIDE DEF u, none, mem, b, w, k
    <3>3. Failed(u) = [memory |-> mem, in |-> b, out |-> w, left |-> none, ok |-> FALSE]
      <4> DEFINE no == FALSE
      <4>1. Failed(u) = [u EXCEPT !.ok = no]
        BY DEF Failed
      <4> HIDE DEF no
      <4>2. Failed(u) = [memory |-> mem, in |-> b, out |-> w, left |-> none, ok |-> no]
        BY <4>1, <3>2
      <4> QED
        BY <4>2 DEF no
    <3> HIDE DEF n
    <3> QED
      BY <3>1, <3>3 DEF none, mem, b, w
  <2> HIDE DEF n
  <2>2. /\ n.memory = m.memory /\ n.in = m.in /\ n.out = m.out /\ n.left = 0 /\ n.ok = FALSE
    BY <2>1
  <2>3. IsWork(n, freep)
    BY <1>1, <2>1, <2>2 DEF IsWork
  <2> QED
    BY <2>2, <2>3 DEF GrownTo, Kept, n
<1>4. CASE ~(needed <= m.out.capacity) /\ ~(m.left < 2)
  <2> DEFINE d == DoubledTo(needed, m.out.capacity)
             c == [m.out EXCEPT !.capacity = d]
  <2>1. Laid(m.out) /\ Placed(m.out) /\ m.out \in Buffer /\ IsBuffer(m.memory, freep, m.out)
    BY <1>1 DEF Owned, IsBuffer, Laid
  <2>2. d \in Nat
    <3> DEFINE x == m.out.capacity
    <3>1. x \in Nat
      BY <2>1, LaidTypes
    <3> HIDE DEF x
    <3>2. DoubledTo(needed, x) \in Nat
      BY <3>1, DoubledToIs
    <3> QED
      BY <3>2 DEF x
  <2> HIDE DEF d
  <2>3. /\ c \in Buffer /\ c.fragments = m.out.fragments /\ c.offsets = m.out.offsets
        /\ c.shared_buffer = m.out.shared_buffer
        /\ c.size = m.out.size /\ c.offset = m.out.offset /\ c.current = m.out.current
    BY <2>1, <2>2 DEF Buffer
  <2>4. n = [memory |-> m.memory, in |-> m.in, out |-> c, left |-> m.left - 2, ok |-> m.ok]
    <3>1. n = [Uses(m, 2) EXCEPT !.out = c]
      BY <1>4 DEF GrowFragments, d
    <3> DEFINE u == Uses(m, 2)
    <3>2. u = [memory |-> m.memory, in |-> m.in, out |-> m.out, left |-> m.left - 2, ok |-> m.ok]
      BY <1>1 DEF Uses
    <3>3. n = [u EXCEPT !.out = c]
      BY <3>1
    <3> HIDE DEF c, n, u
    <3> QED
      BY ONLY <3>2, <3>3
  <2> HIDE DEF c, n
  <2>5. /\ n.memory = m.memory /\ n.in = m.in /\ n.out = c /\ n.left = m.left - 2 /\ n.ok = m.ok
    BY <2>4
  <2>6. Placed(c)
    <3>1. Count(c) = Count(m.out)
      BY <2>3 DEF Count
    <3> QED
      BY <2>1, <2>3, <3>1 DEF Placed, IsAt
  <2>7. /\ Owned(m.memory, freep, m.in, c) /\ Borrowed(m.memory, m.in, c) /\ c # NULL /\ Laid(c)
    BY <1>1, <2>3, <2>6, AlikeIs
  <2>8. Contents(m.memory, c) = Contents(m.memory, m.out)
    <3> DEFINE mem == m.memory
               later == mem
               w == m.out
    <3>1. \A a \in Held(w) : later[a] = mem[a]
      OBVIOUS
    <3>2. IsBuffer(mem, freep, w) /\ Laid(c) /\ c.fragments = w.fragments /\ c.offsets = w.offsets /\ c.size = w.size
      BY <2>1, <2>3, <2>7
    <3> HIDE DEF later, w
    <3>3. Contents(later, c) = Contents(mem, w)
      BY <3>1, <3>2, ContentsStay
    <3> QED
      BY <3>3 DEF later, w
  <2>9. IsWork(n, freep)
    <3>1. n = [memory |-> n.memory, in |-> n.in, out |-> n.out, left |-> n.left, ok |-> n.ok]
      BY <2>4, <2>5
    <3>2. n.left \in Nat
      BY <1>1, <1>4, <2>5
    <3> QED
      BY <1>1, <2>5, <2>7, <3>1, <3>2 DEF IsWork
  <2>10. BufferCapacity(n.out) = BufferCapacity(m.out)
    BY <2>3, <2>5 DEF BufferCapacity
  <2> QED
    BY <2>3, <2>5, <2>8, <2>9, <2>10 DEF GrownTo, Kept, n
<1> QED
  BY <1>2, <1>3, <1>4

\* A new block at a free address is in the writer's buffer now, in place of
\* memory that the readers have.
LEMMA FreshIs ==
    ASSUME NEW mem, NEW freep, NEW b, NEW w, NEW c, b # NULL, w # NULL,
           Owned(mem, freep, b, w), Borrowed(mem, b, w),
           NEW a \in Addresses, mem[a] = NULL, NEW block \in Block, ~block.user,
           NEW later, later = [mem EXCEPT ![a] = block],
           IsBuffer(later, freep, c), c.shared_buffer = w.shared_buffer,
           \A i \in 1 .. Count(c) :
               \/ c.fragments[i].data = a
               \/ i <= Count(w) /\ c.fragments[i].data = w.fragments[i].data,
           a \in Held(c), Held(w) \subseteq Held(c) \cup Held(b)
    PROVE  Owned(later, freep, b, c) /\ Borrowed(later, b, c) /\ Kept(mem, later)
<1>1. /\ Laid(b) /\ Laid(w) /\ Laid(c) /\ IsBuffer(mem, freep, b) /\ Sharing(b, w)
      /\ mem \in [Addresses -> Block \cup {NULL}] /\ Backed(mem, freep, b)
  BY DEF Owned, IsBuffer
<1>2. /\ HeldBy(b) = Held(b) /\ HeldBy(w) = Held(w) /\ HeldBy(c) = Held(c) /\ c # NULL
      /\ Count(b) \in Nat /\ Count(w) \in Nat /\ Count(c) \in Nat
      /\ \A i \in 1 .. Count(b) : b.fragments[i].data \in Held(b)
  BY <1>1, HeldIs, LaidTypes
<1>3. later \in [Addresses -> Block \cup {NULL}] /\ later[a] = block
      /\ \A x \in Addresses : x # a => later[x] = mem[x]
  BY <1>1
<1>4. \A x \in Held(b) : x \in Addresses /\ x # a /\ later[x] = mem[x]
  <2>1. ASSUME NEW x \in Held(b) PROVE x \in Addresses /\ x # a
    <3>1. PICK i \in 1 .. Count(b) : b.fragments[i].data = x
      BY <1>1, HeldIs
    <3>2. mem[x] \in Block
      BY <1>1, <3>1 DEF Backed
    <3> QED
      BY <1>1, <3>2, HeldIs, NullAssumption
  <2> QED
    BY <2>1, <1>3
<1>5. IsBuffer(later, freep, b)
  <2>1. b \in Buffer
    BY <1>1 DEF Laid
  <2>2. Laid(b) /\ Backed(later, freep, b)
    <3> DEFINE x == b
    <3>1. \A y \in Held(x) : later[y] = mem[y]
      BY <1>4
    <3>2. Laid(x) /\ Backed(mem, freep, x) /\ b \in Buffer /\ b.fragments = x.fragments /\ b.offsets = x.offsets
      BY <1>1, <2>1
    <3> HIDE DEF x
    <3> QED
      BY <3>1, <3>2, SameFragments
  <2> QED
    BY <1>1, <2>2 DEF IsBuffer
<1>6. Sharing(b, c)
  <2>1. ASSUME NEW i \in 1 .. Count(b), NEW j \in 1 .. Count(c), b.fragments[i].data = c.fragments[j].data
        PROVE  i = j /\ b.shared_buffer
    <3>1. c.fragments[j].data # a
      BY <2>1, <1>2, <1>4
    <3>2. j \in 1 .. Count(w) /\ b.fragments[i].data = w.fragments[j].data
      BY <2>1, <3>1, <1>2
    <3> QED
      BY <3>2, <1>1 DEF Sharing
  <2>2. b.shared_buffer = c.shared_buffer
    BY <1>1 DEF Sharing
  <2> QED
    BY <2>1, <2>2 DEF Sharing
<1>7. ASSUME NEW x \in Addresses, later[x] # NULL
      PROVE  x \in HeldBy(b) \cup HeldBy(c) \/ (later[x].user /\ ~freep)
  <2>1. CASE x = a
    BY <2>1, <1>2
  <2>2. CASE x # a
    <3>1. mem[x] # NULL /\ later[x] = mem[x]
      BY <2>2, <1>3, <1>7
    <3>2. x \in HeldBy(b) \cup HeldBy(w) \/ (mem[x].user /\ ~freep)
      BY <3>1 DEF Owned
    <3> QED
      BY <3>1, <3>2, <1>2
  <2> QED
    BY <2>1, <2>2
<1>8. Owned(later, freep, b, c)
  BY <1>2, <1>3, <1>5, <1>6, <1>7 DEF Owned
<1>9. Borrowed(later, b, c)
  <2>1. ASSUME NEW i \in 1 .. Count(c), later[c.fragments[i].data].user
        PROVE  i <= Count(b) /\ b.fragments[i].data = c.fragments[i].data
    <3>1. c.fragments[i].data # a /\ c.fragments[i].data \in Addresses
      BY <2>1, <1>1, <1>3, LaidTypes
    <3>2. i \in 1 .. Count(w) /\ c.fragments[i].data = w.fragments[i].data
      BY <3>1, <1>2
    <3>3. mem[w.fragments[i].data].user
      BY <2>1, <3>1, <3>2, <1>3
    <3> QED
      BY <3>2, <3>3 DEF Borrowed
  <2> QED
    BY <2>1 DEF Borrowed
<1>10. Kept(mem, later)
  BY <1>3 DEF Kept
<1> QED
  BY <1>8, <1>9, <1>10

\* malloc
LEMMA PutIs ==
    ASSUME NEW m, NEW freep, IsWork(m, freep), ~IsFull(m), NEW bytes \in Bytes
    PROVE  LET a == FreeAddress(m)
               block == [bytes |-> bytes, user |-> FALSE]
           IN /\ a \in Addresses /\ m.memory[a] = NULL
              /\ block \in Block /\ block.bytes = bytes /\ ~block.user
              /\ Put(m, bytes) = [memory |-> [m.memory EXCEPT ![a] = block], in |-> m.in, out |-> m.out,
                                  left |-> m.left, ok |-> m.ok]
<1> DEFINE a == FreeAddress(m)
           block == [bytes |-> bytes, user |-> FALSE]
<1>1. a \in Addresses /\ m.memory[a] = NULL
  BY DEF IsFull, FreeAddress
<1>2. block \in Block /\ block.bytes = bytes /\ ~block.user
  BY DEF Block
<1>3. m = [memory |-> m.memory, in |-> m.in, out |-> m.out, left |-> m.left, ok |-> m.ok]
  BY DEF IsWork
<1>4. Put(m, bytes) = [m EXCEPT !.memory = [m.memory EXCEPT ![a] = block]]
  <2>1. Put(m, bytes) = [m EXCEPT !.memory[a] = block]
    BY DEF Put
  <2> HIDE DEF a, block
  <2> QED
    BY <2>1, <1>3
<1> HIDE DEF a, block
<1>5. Put(m, bytes) = [memory |-> [m.memory EXCEPT ![a] = block], in |-> m.in, out |-> m.out,
                       left |-> m.left, ok |-> m.ok]
  BY <1>3, <1>4
<1> QED
  BY <1>1, <1>2, <1>5 DEF a, block

LEMMA AddFragmentIs ==
    ASSUME NEW freep, NEW m, IsWork(m, freep)
    PROVE  LET n == AddFragment(m)
           IN /\ GrownTo(freep, m, n)
              /\ n.ok => BufferCapacity(n.out) = BufferCapacity(m.out) + FragmentSize
<1> DEFINE n == AddFragment(m)
           w == m.out
           mem == m.memory
<1>1. /\ m = [memory |-> mem, in |-> m.in, out |-> w, left |-> m.left, ok |-> m.ok]
      /\ m.left \in Nat /\ m.ok \in BOOLEAN /\ m.in # NULL /\ w # NULL
      /\ Owned(mem, freep, m.in, w) /\ Borrowed(mem, m.in, w)
  BY DEF IsWork
<1>2. CASE ~m.ok \/ m.left = 0 \/ IsFull(m)
  <2>1. n = [memory |-> mem, in |-> m.in, out |-> w, left |-> m.left, ok |-> FALSE]
    <3>1. n = Failed(m)
      BY <1>2 DEF AddFragment
    <3>2. m = [memory |-> mem, in |-> m.in, out |-> w, left |-> m.left, ok |-> m.ok]
      BY <1>1
    <3> HIDE DEF n, mem, w
    <3> QED
      BY <3>1, <3>2, FailedIs
  <2> HIDE DEF n
  <2>2. n.memory = m.memory /\ n.in = m.in /\ n.out = m.out /\ n.left = m.left /\ n.ok = FALSE
    BY <2>1
  <2>3. IsWork(n, freep)
    BY <1>1, <2>1, <2>2 DEF IsWork
  <2> QED
    BY <2>2, <2>3 DEF GrownTo, Kept, n
<1>3. CASE ~(~m.ok \/ m.left = 0 \/ IsFull(m))
  <2> DEFINE a == FreeAddress(m)
             bytes == [i \in 1 .. FragmentSize |-> UNDEFINED]
             block == [bytes |-> bytes, user |-> FALSE]
             later == [mem EXCEPT ![a] = block]
             f == [data |-> a, length |-> FragmentSize, free_data |-> TRUE]
             c == Longer(w, a)
  <2>1. /\ Laid(w) /\ Placed(w) /\ w \in Buffer /\ IsBuffer(mem, freep, w) /\ Backed(mem, freep, w)
        /\ Laid(m.in) /\ IsBuffer(mem, freep, m.in)
        /\ mem \in [Addresses -> Block \cup {NULL}]
    BY <1>1 DEF Owned, IsBuffer, Laid
  <2>2. bytes \in Bytes /\ Len(bytes) = FragmentSize /\ FragmentSize \in Nat \ {0}
    BY SizeAssumption DEF Bytes
  <2>3. /\ a \in Addresses /\ mem[a] = NULL /\ block \in Block /\ block.bytes = bytes /\ ~block.user
        /\ Put(m, bytes) = [memory |-> later, in |-> m.in, out |-> w, left |-> m.left, ok |-> m.ok]
    <3> HIDE DEF a, bytes
    <3>1. ~IsFull(m)
      BY <1>3
    <3> QED
      BY <2>2, <3>1, PutIs DEF a
  <2>4. n = [memory |-> later, in |-> m.in, out |-> c, left |-> m.left - 1, ok |-> m.ok]
    <3>1. n = [Uses(Put(m, bytes), 1) EXCEPT !.out = c]
      BY <1>3 DEF AddFragment
    <3> HIDE DEF later, w, n, c, bytes
    <3>2. Uses(Put(m, bytes), 1) = [memory |-> later, in |-> m.in, out |-> w, left |-> m.left - 1, ok |-> m.ok]
      BY <2>3 DEF Uses
    <3> QED
      BY <3>1, <3>2
  <2>5. f \in Fragment /\ f.data = a /\ f.length = FragmentSize /\ f.length > 0 /\ f.free_data = TRUE
    <3> HIDE DEF a
    <3> QED
      BY <2>2, <2>3 DEF Fragment
  <2> DEFINE fs == Append(w.fragments, f)
             os == Append(w.offsets, BufferCapacity(w) + f.length)
  <2>6. c = [w EXCEPT !.fragments = fs, !.offsets = os]
    <3> HIDE DEF a, w
    <3>1. f.length = FragmentSize
      OBVIOUS
    <3> QED
      BY <2>1, <3>1 DEF Longer, Buffer
  <2> HIDE DEF f, c, a, block, later, n
  <2>7. /\ c \in Buffer /\ c.fragments = fs /\ c.offsets = os /\ c.shared_buffer = w.shared_buffer
        /\ c.size = w.size /\ c.offset = w.offset /\ c.current = w.current
    <3>1. w.fragments \in Seq(Fragment) /\ w.offsets \in Seq(Nat)
      BY <2>1, LaidTypes
    <3>2. BufferCapacity(w) \in Nat /\ BufferCapacity(w) + f.length \in Nat
      <4>1. Count(w) \in Nat /\ BufferCapacity(w) = w.offsets[Count(w) + 1]
            /\ \A i \in 1 .. Count(w) + 1 : w.offsets[i] \in Nat
        BY <2>1, LaidTypes
      <4>2. Count(w) + 1 \in 1 .. Count(w) + 1
        BY <4>1
      <4> QED
        BY <4>1, <4>2, <2>2, <2>5
    <3> DEFINE cap == BufferCapacity(w) + f.length
    <3> HIDE DEF cap
    <3>3. fs \in Seq(Fragment)
      BY <3>1, <2>5, AppendProperties
    <3>4. os \in Seq(Nat)
      BY <3>1, <3>2, AppendProperties DEF cap
    <3> HIDE DEF fs, os, w
    <3> QED
      BY <2>1, <2>6, <3>3, <3>4 DEF Buffer
  <2> DEFINE k == Count(w)
  <2>8. /\ Laid(c) /\ Count(c) = k + 1
        /\ \A i \in 1 .. k : c.fragments[i] = w.fragments[i]
        /\ c.fragments[k + 1] = f
        /\ \A i \in 1 .. k + 1 : c.offsets[i] = w.offsets[i]
        /\ c.offsets[k + 2] = w.offsets[k + 1] + f.length
    <3> HIDE DEF w
    <3>1. /\ Laid(w) /\ f \in Fragment /\ f.length > 0 /\ c \in Buffer
          /\ c.fragments = Append(w.fragments, f)
          /\ c.offsets = Append(w.offsets, BufferCapacity(w) + f.length)
      BY <2>1, <2>5, <2>7
    <3> QED
      BY ONLY <3>1, LongerIs
  <2>9. /\ k \in Nat /\ BufferCapacity(w) = w.offsets[k + 1] /\ BufferCapacity(c) = c.offsets[k + 2]
        /\ \A i \in 1 .. k : w.fragments[i].data \in Addresses
        /\ \A i \in 1 .. k + 1 : w.offsets[i] \in Nat
        /\ w.size \in Nat /\ w.offset \in Nat /\ w.current \in Nat
    <3>1. BufferCapacity(c) = c.offsets[Count(c) + 1]
      BY <2>8, LaidTypes
    <3>2. k \in Nat
      BY <2>1, LaidTypes
    <3>3. (k + 1) + 1 = k + 2
      BY <3>2
    <3> QED
      BY <3>1, <3>3, <2>1, <2>8, LaidTypes
  <2> HIDE DEF fs, os, w, k, mem
  <2>10. k + 1 \in 1 .. k + 1 /\ \A i \in 1 .. k + 1 : i \in 1 .. k \/ i = k + 1
    BY <2>9
  <2>11. Placed(c)
    <3>1. /\ w.offset <= w.size /\ w.size <= w.offsets[k + 1]
          /\ w.current \in 1 .. k + 1 /\ w.offsets[w.current] <= w.offset
          /\ w.current <= k => w.offset <= w.offsets[w.current + 1]
      BY <2>1 DEF Placed, IsAt, k
    <3>2. c.size <= c.offsets[k + 2]
      <4>1. c.offsets[k + 2] \in Nat /\ w.offsets[k + 1] \in Nat /\ w.offsets[k + 1] <= c.offsets[k + 2]
        BY <2>2, <2>5, <2>8, <2>9, <2>10
      <4> QED
        BY <3>1, <4>1, <2>7, <2>9
    <3>3. c.current \in 1 .. k + 2 /\ c.offsets[c.current] <= c.offset
      BY <3>1, <2>7, <2>8, <2>9
    <3>4. c.current <= k + 1 => c.offset <= c.offsets[c.current + 1]
      <4>1. CASE w.current <= k
        <5>1. w.current + 1 \in 1 .. k + 1
          BY <4>1, <2>9
        <5> QED
          BY <4>1, <5>1, <3>1, <2>7, <2>8
      <4>2. CASE ~(w.current <= k)
        <5>1. w.current = k + 1
          BY <4>2, <3>1, <2>9
        <5>2. c.current + 1 = k + 2
          BY <5>1, <2>7, <2>9
        <5>3. c.offset <= c.size /\ c.offset \in Nat /\ c.size \in Nat /\ c.offsets[k + 2] \in Nat
          <6>1. w.offsets[k + 1] \in Nat
            BY <2>9, <2>10
          <6> QED
            BY <6>1, <3>1, <2>2, <2>5, <2>7, <2>8, <2>9
        <5> QED
          BY <5>2, <5>3, <3>2
      <4> QED
        BY <4>1, <4>2
    <3>5. (k + 1) + 1 = k + 2
      BY <2>9
    <3> QED
      BY <3>1, <3>2, <3>3, <3>4, <3>5, <2>7, <2>8 DEF Placed, IsAt
  <2>12. later[a] = block /\ \A x \in Addresses : x # a => later[x] = mem[x]
    BY <2>1, <2>3 DEF later
  <2>13. \A i \in 1 .. k : w.fragments[i].data # a /\ later[w.fragments[i].data] = mem[w.fragments[i].data]
                           /\ mem[w.fragments[i].data] \in Block
    <3>1. \A i \in 1 .. k : mem[w.fragments[i].data] \in Block
      BY <2>1 DEF Backed, k
    <3> QED
      BY <3>1, <2>3, <2>9, <2>12, NullAssumption
  <2>14. Backed(later, freep, c)
    <3>1. ASSUME NEW i \in 1 .. k + 1
          PROVE  /\ later[c.fragments[i].data] \in Block
                 /\ c.fragments[i].length <= Len(later[c.fragments[i].data].bytes)
                 /\ c.fragments[i].free_data = (freep \/ ~later[c.fragments[i].data].user)
      <4>1. CASE i \in 1 .. k
        BY <4>1, <2>1, <2>8, <2>13 DEF Backed, k
      <4>2. CASE i = k + 1
        <5>1. /\ c.fragments[i].data = a /\ c.fragments[i].length = FragmentSize
              /\ c.fragments[i].free_data = TRUE
          BY <4>2, <2>5, <2>8
        <5>2. later[a] \in Block /\ later[a].bytes = bytes /\ ~later[a].user
          BY <2>3, <2>12
        <5>3. FragmentSize <= Len(bytes)
          BY <2>2
        <5> HIDE DEF bytes
        <5> QED
          BY <5>1, <5>2, <5>3
      <4> QED
        BY <4>1, <4>2, <2>10
    <3>2. ASSUME NEW i \in 1 .. k + 1, NEW j \in 1 .. k + 1, c.fragments[i].data = c.fragments[j].data
          PROVE  i = j
      <4>1. CASE i \in 1 .. k /\ j \in 1 .. k
        BY <4>1, <3>2, <2>1, <2>8 DEF Backed, k
      <4>2. CASE i = k + 1 /\ j = k + 1
        BY <4>2
      <4>3. CASE ~(i \in 1 .. k /\ j \in 1 .. k) /\ ~(i = k + 1 /\ j = k + 1)
        BY <4>3, <3>2, <2>5, <2>8, <2>10, <2>13
      <4> QED
        BY <4>1, <4>2, <4>3
    <3> QED
      BY <3>1, <3>2, <2>8 DEF Backed
  <2>15. IsBuffer(later, freep, c)
    BY <2>8, <2>11, <2>14 DEF IsBuffer
  <2>16. /\ \A i \in 1 .. Count(c) :
               \/ c.fragments[i].data = a
               \/ i <= Count(w) /\ c.fragments[i].data = w.fragments[i].data
         /\ a \in Held(c) /\ Held(w) \subseteq Held(c) \cup Held(m.in)
    <3>1. \A i \in 1 .. k : i \in 1 .. k + 1 /\ i <= k
      BY <2>9
    <3>2. \A x : x \in Held(c) <=> \E i \in 1 .. k + 1 : c.fragments[i].data = x
      BY <2>8, HeldIs
    <3>3. \A x : x \in Held(w) <=> \E i \in 1 .. k : w.fragments[i].data = x
      BY <2>1, HeldIs DEF k
    <3> QED
      BY <3>1, <3>2, <3>3, <2>5, <2>8, <2>10 DEF k
  <2>17. Owned(later, freep, m.in, c) /\ Borrowed(later, m.in, c) /\ Kept(mem, later)
    <3> DEFINE b == m.in
    <3>1. b # NULL /\ w # NULL /\ Owned(mem, freep, b, w) /\ Borrowed(mem, b, w)
      BY <1>1
    <3>2. Held(w) \subseteq Held(c) \cup Held(b)
      BY <2>16
    <3>3. later = [mem EXCEPT ![a] = block]
      BY DEF later
    <3> HIDE DEF b
    <3>4. /\ IsBuffer(later, freep, c) /\ c.shared_buffer = w.shared_buffer /\ a \in Held(c)
          /\ \A i \in 1 .. Count(c) :
               \/ c.fragments[i].data = a
               \/ i <= Count(w) /\ c.fragments[i].data = w.fragments[i].data
      BY <2>7, <2>15, <2>16
    <3>5. a \in Addresses /\ mem[a] = NULL /\ block \in Block /\ ~block.user
      BY <2>3
    <3>6. Owned(later, freep, b, c) /\ Borrowed(later, b, c) /\ Kept(mem, later)
      BY <3>1, <3>2, <3>3, <3>4, <3>5, FreshIs
    <3> QED
      BY <3>6 DEF b
  <2>18. c # NULL
    BY <2>8, HeldIs
  <2>19. Contents(later, c) = Contents(mem, w)
    <3> DEFINE s == Contents(mem, w)
    <3>1. /\ s \in Seq(Byte \cup {UNDEFINED}) /\ Len(s) = w.size
          /\ \A i \in 1 .. Count(w), place \in 1 .. w.size :
                w.offsets[i] < place /\ place <= w.offsets[i + 1] => s[place] = ByteIn(mem, w, i, place)
      <4>1. IsBuffer(mem, freep, w)
        BY <2>1
      <4> QED
        BY ONLY <4>1, ContentsIs DEF Bytes
    <3> HIDE DEF s
    <3>2. ASSUME NEW i \in 1 .. Count(c), NEW place \in 1 .. c.size,
                 c.offsets[i] < place, place <= c.offsets[i + 1]
          PROVE  ByteIn(later, c, i, place) = s[place]
      <4>1. i \in 1 .. k
        <5>1. CASE i = k + 1
          <6>1. w.offsets[k + 1] \in Nat /\ place <= w.size /\ w.size <= w.offsets[k + 1]
                /\ w.offsets[k + 1] < place
            BY <5>1, <3>2, <2>1, <2>7, <2>8, <2>9, <2>10 DEF Placed, k
          <6> QED
            BY <6>1, <2>9
        <5> QED
          BY <5>1, <2>8, <2>10
      <4>2. i \in 1 .. k + 1 /\ i + 1 \in 1 .. k + 1
        BY <4>1, <2>9
      <4>3. c.fragments[i] = w.fragments[i] /\ c.offsets[i] = w.offsets[i] /\ c.offsets[i + 1] = w.offsets[i + 1]
        BY <4>1, <4>2, <2>8
      <4>4. ByteIn(later, c, i, place) = ByteIn(mem, w, i, place)
        BY <4>1, <4>3, <2>13 DEF ByteIn
      <4>5. s[place] = ByteIn(mem, w, i, place)
        BY <4>1, <4>3, <3>1, <3>2, <2>7 DEF k
      <4> QED
        BY <4>4, <4>5
    <3>3. c.size <= c.offsets[Count(c) + 1]
      BY <2>11 DEF Placed
    <3>4. Len(s) = c.size
      BY <3>1, <2>7
    <3>5. \A i \in 1 .. Count(c), place \in 1 .. c.size :
             c.offsets[i] < place /\ place <= c.offsets[i + 1] => ByteIn(later, c, i, place) = s[place]
      BY <3>2
    <3>6. Contents(later, c) = s
      BY <3>1, <3>3, <3>4, <3>5, <2>8, ContentsAre
    <3> QED
      BY <3>6 DEF s
  <2>20. /\ n.memory = later /\ n.in = m.in /\ n.out = c /\ n.left = m.left - 1 /\ n.ok = m.ok
    BY <2>4
  <2>21. IsWork(n, freep)
    <3>1. n = [memory |-> n.memory, in |-> n.in, out |-> n.out, left |-> n.left, ok |-> n.ok]
      BY <2>4, <2>20
    <3>2. n.left \in Nat
      BY <1>1, <1>3, <2>20
    <3> QED
      BY <1>1, <2>17, <2>18, <2>20, <3>1, <3>2 DEF IsWork
  <2>22. BufferCapacity(n.out) = BufferCapacity(m.out) + FragmentSize
    BY <2>5, <2>8, <2>9, <2>20 DEF w
  <2> QED
    BY <2>7, <2>17, <2>19, <2>20, <2>21, <2>22 DEF GrownTo, n, w, mem
<1> QED
  BY <1>2, <1>3

AddingSteps(w, length, n, f) ==
    f[0] = GrowFragments(w, Len(w.out.fragments) + n) /\ \A k \in 1 .. n : f[k] = AddFragment(f[k - 1])

\* The loop of Grow.
LEMMA AddingLoop ==
    ASSUME NEW w, NEW length, NEW n \in Nat
    PROVE  \E f : AddingSteps(w, length, n, f) /\ (MissingFragments(w.out, length) = n => Grow(w, length) = f[n])
<1> DEFINE first == GrowFragments(w, Len(w.out.fragments) + n)
           Next_(k, s) == AddFragment(s)
           body(f, m) == [k \in 0 .. m |-> IF k = 0 THEN first ELSE Next_(k, f[k - 1])]
           IsLoop(f, m) == f = body(f, m)
           Good == {m \in Nat : \E f : IsLoop(f, m)}
<1>1. 0 \in Good
  <2> DEFINE g == [k \in 0 .. 0 |-> first]
  <2> HIDE DEF first, Next_
  <2>1. IsLoop(g, 0)
    OBVIOUS
  <2> HIDE DEF g, IsLoop
  <2> QED
    BY <2>1
<1>2. ASSUME NEW m \in 1 .. n, m - 1 \in Good PROVE m \in Good
  <2>1. PICK f : f = body(f, m - 1)
    BY <1>2
  <2> DEFINE g == [k \in 0 .. m |-> IF k = m THEN Next_(m, f[m - 1]) ELSE f[k]]
  <2> HIDE DEF first, Next_
  <2>2. \A k \in 0 .. m - 1 : f[k] = IF k = 0 THEN first ELSE Next_(k, f[k - 1])
    BY <2>1
  <2>3. ASSUME NEW k \in 0 .. m PROVE g[k] = IF k = 0 THEN first ELSE Next_(k, g[k - 1])
    <3>1. CASE k = m
      <4>1. k # 0 /\ k - 1 \in 0 .. m /\ k - 1 # m
        BY <3>1
      <4>2. g[k] = Next_(m, f[m - 1]) /\ g[k - 1] = f[m - 1]
        BY <3>1, <4>1
      <4> QED
        BY <4>1, <4>2, <3>1
    <3>2. CASE k # m
      <4>1. k \in 0 .. m - 1 /\ g[k] = f[k]
        BY <3>2
      <4>2. k # 0 => g[k - 1] = f[k - 1]
        BY <3>2
      <4> QED
        BY <4>1, <4>2, <2>2
    <3> QED
      BY <3>1, <3>2
  <2>4. IsLoop(g, m)
    BY <2>3
  <2> HIDE DEF g, IsLoop
  <2> QED
    BY <2>4
<1>3. \E f : IsLoop(f, n)
  <2>1. n \in Good
    <3> HIDE DEF Good
    <3>1. \A k \in 0 .. n : k \in Good
      BY <1>1, <1>2, StepByStep
    <3> QED
      BY <3>1
  <2> HIDE DEF IsLoop
  <2> QED
    BY <2>1
<1> DEFINE g == CHOOSE f : IsLoop(f, n)
<1>4. g = body(g, n)
  <2>1. IsLoop(g, n)
    <3> HIDE DEF IsLoop
    <3> QED
      BY <1>3
  <2> QED
    BY <2>1
<1>5. g[0] = first /\ \A k \in 1 .. n : g[k] = Next_(k, g[k - 1])
  <2> HIDE DEF first, Next_, g
  <2> QED
    BY <1>4
<1>6. AddingSteps(w, length, n, g)
  BY <1>5 DEF AddingSteps
<1>7. MissingFragments(w.out, length) = n => Grow(w, length) = g[n]
  BY DEF Grow
<1> HIDE DEF g
<1> QED
  BY <1>6, <1>7

\* The fragments that are missing are enough.
LEMMA MissingFragmentsIs ==
    ASSUME NEW b, Laid(b), NEW length \in Nat
    PROVE  /\ MissingFragments(b, length) \in Nat
           /\ b.offset + length <= BufferCapacity(b) + MissingFragments(b, length) * FragmentSize
<1> DEFINE cap == BufferCapacity(b)
           beyond == b.offset + length - cap
<1>1. cap \in Nat /\ b.offset \in Nat /\ FragmentSize \in Nat \ {0}
  <2>1. Count(b) + 1 \in 1 .. Count(b) + 1
    BY LaidTypes
  <2> QED
    BY <2>1, LaidTypes, SizeAssumption
<1> HIDE DEF cap
<1>2. beyond \in Int
  BY <1>1
<1>3. CASE beyond <= 0
  <2>1. MissingFragments(b, length) = 0
    BY <1>3 DEF MissingFragments, cap
  <2> QED
    BY <2>1, <1>1, <1>3 DEF cap
<1>4. CASE beyond > 0
  <2> DEFINE x == beyond + FragmentSize - 1
             q == x \div FragmentSize
             r == x % FragmentSize
  <2>1. MissingFragments(b, length) = q
    BY <1>2, <1>4 DEF MissingFragments, cap
  <2>2. x \in Nat
    BY <1>1, <1>2, <1>4
  <2>3. q \in Nat /\ r \in 0 .. FragmentSize - 1 /\ x = FragmentSize * q + r
    <3> HIDE DEF x
    <3> QED
      BY <2>2, <1>1
  <2> HIDE DEF q, r
  <2>4. q * FragmentSize = FragmentSize * q /\ FragmentSize * q \in Nat
    BY <2>3, <1>1
  <2>5. q * FragmentSize >= beyond
    BY <2>3, <2>4, <1>1, <1>2
  <2> QED
    BY <2>1, <2>3, <2>4, <2>5, <1>1 DEF cap
<1> QED
  BY <1>2, <1>3, <1>4

LEMMA GrowIs ==
    ASSUME NEW freep, NEW m, IsWork(m, freep), NEW length \in Nat
    PROVE  LET n == Grow(m, length)
           IN /\ GrownTo(freep, m, n)
              /\ n.ok => m.out.offset + length <= BufferCapacity(n.out)
<1> DEFINE missing == MissingFragments(m.out, length)
           cap == BufferCapacity(m.out)
<1>1. Laid(m.out)
  BY DEF IsWork, Owned, IsBuffer
<1>2. missing \in Nat /\ m.out.offset + length <= cap + missing * FragmentSize
  <2> DEFINE w == m.out
  <2> HIDE DEF w
  <2>1. MissingFragments(w, length) \in Nat
        /\ w.offset + length <= BufferCapacity(w) + MissingFragments(w, length) * FragmentSize
    BY <1>1, MissingFragmentsIs DEF w
  <2> QED
    BY <2>1 DEF w
<1>3. cap \in Nat /\ FragmentSize \in Nat \ {0} /\ Len(m.out.fragments) \in Nat
  <2>1. Count(m.out) + 1 \in 1 .. Count(m.out) + 1
    BY <1>1, LaidTypes
  <2> QED
    BY <1>1, <2>1, LaidTypes, SizeAssumption DEF Count
<1>4. PICK f : AddingSteps(m, length, missing, f) /\ Grow(m, length) = f[missing]
  <2> DEFINE n == missing
  <2>1. n \in Nat /\ MissingFragments(m.out, length) = n
    BY <1>2
  <2> HIDE DEF missing, n
  <2>2. \E f : AddingSteps(m, length, n, f) /\ Grow(m, length) = f[n]
    BY <2>1, AddingLoop
  <2> QED
    BY <2>2 DEF n
<1> HIDE DEF missing
<1> DEFINE IsGood(k) == /\ GrownTo(freep, m, f[k])
                        /\ f[k].ok => BufferCapacity(f[k].out) = cap + k * FragmentSize
           Good == {k \in 0 .. missing : IsGood(k)}
<1>5. \A k \in 0 .. missing : IsGood(k) => k \in Good
  OBVIOUS
<1>6. 0 \in Good
  <2> DEFINE needed == Len(m.out.fragments) + missing
  <2>1. needed \in Nat /\ f[0] = GrowFragments(m, needed)
    BY <1>2, <1>3, <1>4 DEF AddingSteps
  <2> HIDE DEF needed
  <2>2. GrownTo(freep, m, f[0]) /\ (f[0].ok => BufferCapacity(f[0].out) = BufferCapacity(m.out))
    BY <2>1, GrowFragmentsIs
  <2>3. 0 \in 0 .. missing /\ cap + 0 * FragmentSize = cap
    BY <1>2, <1>3
  <2>4. IsGood(0)
    BY <2>2, <2>3
  <2> HIDE DEF Good, IsGood
  <2> QED
    BY <2>3, <2>4, <1>5
<1>7. ASSUME NEW k \in 1 .. missing, k - 1 \in Good PROVE k \in Good
  <2> DEFINE n == f[k - 1]
             i == k - 1
  <2>1. /\ GrownTo(freep, m, n) /\ (n.ok => BufferCapacity(n.out) = cap + i * FragmentSize)
        /\ f[k] = AddFragment(n)
    BY <1>4, <1>7 DEF AddingSteps
  <2> HIDE DEF n
  <2>2. /\ GrownTo(freep, n, f[k])
        /\ f[k].ok => BufferCapacity(f[k].out) = BufferCapacity(n.out) + FragmentSize
    BY <2>1, AddFragmentIs DEF GrownTo
  <2>3. GrownTo(freep, m, f[k])
    BY <2>1, <2>2, GrownTwice
  <2>4. k \in 0 .. missing /\ k \in Nat /\ i \in Nat /\ k = i + 1
    BY <1>2
  <2>5. (cap + i * FragmentSize) + FragmentSize = cap + k * FragmentSize
    <3> HIDE DEF i
    <3>1. k * FragmentSize = i * FragmentSize + FragmentSize /\ i * FragmentSize \in Nat
      BY <2>4, <1>3
    <3> QED
      BY <3>1, <1>3
  <2>6. f[k].ok => BufferCapacity(f[k].out) = cap + k * FragmentSize
    <3>1. f[k].ok => n.ok
      BY <2>2 DEF GrownTo
    <3> HIDE DEF cap, i
    <3> QED
      BY <3>1, <2>1, <2>2, <2>5
  <2>7. IsGood(k)
    BY <2>3, <2>6
  <2> HIDE DEF Good, IsGood
  <2> QED
    BY <2>4, <2>7, <1>5
<1>8. IsGood(missing)
  <2>1. \A k \in Good : IsGood(k)
    OBVIOUS
  <2> HIDE DEF Good, IsGood
  <2>2. \A k \in 0 .. missing : k \in Good
    BY <1>2, <1>6, <1>7, StepByStep
  <2>3. missing \in 0 .. missing
    BY <1>2
  <2> QED
    BY <2>1, <2>2, <2>3
<1> QED
  BY <1>2, <1>4, <1>8

(***************************************************************************)
(* buffer_write: the bytes.                                                *)
(***************************************************************************)

Alike(b, c) ==
    /\ Count(c) = Count(b) /\ c.offsets = b.offsets /\ c.size = b.size
    /\ c.offset = b.offset /\ c.current = b.current

IsIn(b, i, place) == b.offsets[i] < place /\ place <= b.offsets[i + 1]

LEMMA CopiedIs ==
    ASSUME NEW w, Laid(w), NEW i \in 1 .. Count(w), NEW a \in Addresses, NEW c, c = Copied(w, i, a)
    PROVE  /\ Laid(c) /\ Alike(w, c) /\ c.shared_buffer = w.shared_buffer
           /\ c.fragments[i].data = a /\ c.fragments[i].free_data
           /\ \A j \in 1 .. Count(w) :
                 /\ c.fragments[j].length = w.fragments[j].length
                 /\ j # i => c.fragments[j] = w.fragments[j]
<1> DEFINE f == [w.fragments[i] EXCEPT !.data = a, !.free_data = TRUE]
           fs == [w.fragments EXCEPT ![i] = f]
<1>1. /\ w \in Buffer /\ w.fragments \in Seq(Fragment) /\ w.fragments[i] \in Fragment
      /\ DOMAIN w.fragments = 1 .. Count(w) /\ Count(w) \in Nat
  BY LaidTypes DEF Laid
<1>2. f \in Fragment /\ f.data = a /\ f.free_data /\ f.length = w.fragments[i].length
  BY <1>1 DEF Fragment
<1>3. c = [w EXCEPT !.fragments = fs]
  <2>1. c = [w EXCEPT !.fragments[i] = f]
    BY DEF Copied
  <2> HIDE DEF f
  <2> QED
    BY <2>1, <1>1 DEF Buffer
<1> HIDE DEF f
<1>4. /\ fs \in Seq(Fragment) /\ DOMAIN fs = 1 .. Count(w) /\ Len(fs) = Count(w) /\ fs[i] = f
      /\ \A j \in 1 .. Count(w) : j # i => fs[j] = w.fragments[j]
  BY <1>1, <1>2 DEF Count
<1> HIDE DEF fs
<1>5. /\ c \in Buffer /\ c.fragments = fs /\ c.offsets = w.offsets /\ c.size = w.size
      /\ c.offset = w.offset /\ c.current = w.current /\ c.shared_buffer = w.shared_buffer
  BY <1>1, <1>3, <1>4 DEF Buffer
<1>6. Count(c) = Count(w)
  BY <1>4, <1>5 DEF Count
<1>7. \A j \in 1 .. Count(w) : c.fragments[j].length = w.fragments[j].length
  BY <1>2, <1>4, <1>5
<1>8. Laid(c)
  BY <1>5, <1>6, <1>7 DEF Laid
<1> QED
  BY <1>2, <1>4, <1>5, <1>6, <1>7, <1>8 DEF Alike

\* Bytes at the same places, if not in the same memory.
SameBytes(m, n) ==
    \A j \in 1 .. Count(m.out), place \in Nat :
        IsIn(m.out, j, place) => ByteIn(n.memory, n.out, j, place) = ByteIn(m.memory, m.out, j, place)

LEMMA MakeWritableIs ==
    ASSUME NEW freep, NEW m, IsWork(m, freep), NEW i \in 1 .. Count(m.out)
    PROVE  LET n == MakeWritable(m, i)
           IN /\ IsWork(n, freep) /\ n.in = m.in /\ Alike(m.out, n.out)
              /\ Kept(m.memory, n.memory) /\ SameBytes(m, n)
              /\ n.ok => /\ m.ok
                         /\ n.out.fragments[i].data \notin Held(n.in)
                         /\ ~n.memory[n.out.fragments[i].data].user
<1> DEFINE n == MakeWritable(m, i)
           w == m.out
           b == m.in
           mem == m.memory
<1>1. /\ m = [memory |-> mem, in |-> b, out |-> w, left |-> m.left, ok |-> m.ok]
      /\ m.left \in Nat /\ m.ok \in BOOLEAN /\ b # NULL /\ w # NULL
      /\ Owned(mem, freep, b, w) /\ Borrowed(mem, b, w)
  BY DEF IsWork
<1>2. /\ Laid(w) /\ Placed(w) /\ w \in Buffer /\ IsBuffer(mem, freep, w) /\ Backed(mem, freep, w)
      /\ Laid(b) /\ IsBuffer(mem, freep, b) /\ Sharing(b, w)
      /\ mem \in [Addresses -> Block \cup {NULL}]
  BY <1>1 DEF Owned, IsBuffer, Laid
<1>3. CASE ~IsShared(w, b, i)
  <2>1. n = m
    BY <1>3 DEF MakeWritable
  <2>2. w.fragments[i].data \notin Held(b)
    <3>1. SUFFICES ASSUME NEW j \in 1 .. Count(b), b.fragments[j].data = w.fragments[i].data PROVE FALSE
      BY <1>2, HeldIs
    <3>2. j = i /\ b.shared_buffer /\ w.shared_buffer
      BY <3>1, <1>2 DEF Sharing
    <3>3. i <= Count(b)
      BY <3>2
    <3> QED
      BY <3>1, <3>2, <3>3, <1>3 DEF IsShared, Count
  <2>3. ~mem[w.fragments[i].data].user
    <3>1. SUFFICES ASSUME mem[w.fragments[i].data].user PROVE FALSE
      OBVIOUS
    <3>2. i <= Count(b) /\ b.fragments[i].data = w.fragments[i].data
      BY <3>1, <1>1 DEF Borrowed
    <3>3. i \in 1 .. Count(b)
      BY <3>2, <1>2, LaidTypes
    <3> QED
      BY <3>2, <3>3, <2>2, <1>2, HeldIs
  <2> QED
    BY <2>1, <2>2, <2>3 DEF Kept, SameBytes, Alike
<1>4. CASE IsShared(w, b, i) /\ (m.left = 0 \/ IsFull(m))
  <2>1. n = [memory |-> mem, in |-> b, out |-> w, left |-> m.left, ok |-> FALSE]
    <3>1. n = Failed(m)
      BY <1>4 DEF MakeWritable
    <3>2. m = [memory |-> mem, in |-> b, out |-> w, left |-> m.left, ok |-> m.ok]
      BY <1>1
    <3> HIDE DEF n, mem, w, b
    <3> QED
      BY <3>1, <3>2, FailedIs
  <2> HIDE DEF n
  <2>2. n.memory = m.memory /\ n.in = m.in /\ n.out = m.out /\ n.left = m.left /\ n.ok = FALSE
    BY <2>1
  <2>3. IsWork(n, freep)
    BY <1>1, <2>1, <2>2 DEF IsWork
  <2> QED
    BY <2>2, <2>3 DEF Kept, SameBytes, Alike, n
<1>5. CASE IsShared(w, b, i) /\ ~(m.left = 0 \/ IsFull(m))
  <2> DEFINE a == FreeAddress(m)
             old == mem[w.fragments[i].data].bytes
             length == w.fragments[i].length
             bytes == SubSeq(old, 1, length)
             block == [bytes |-> bytes, user |-> FALSE]
             later == [mem EXCEPT ![a] = block]
             c == Copied(w, i, a)
  <2>1. /\ Count(w) \in Nat /\ \A j \in 1 .. Count(w) : /\ mem[w.fragments[j].data] \in Block
                                                        /\ w.fragments[j].data \in Addresses
    BY <1>2, LaidTypes DEF Backed
  <2>2. bytes \in Bytes /\ Len(bytes) = length /\ length \in Nat /\ \A k \in 1 .. length : bytes[k] = old[k]
    <3>1. old \in Seq(Byte \cup {UNDEFINED}) /\ length \in Nat /\ length <= Len(old)
      BY <1>2, <2>1, LaidTypes DEF Backed, Block, Bytes
    <3>2. length \in 0 .. Len(old)
      BY <3>1
    <3> HIDE DEF old, length
    <3> QED
      BY <3>1, <3>2, FirstPart DEF Bytes
  <2> HIDE DEF bytes
  <2>3. /\ a \in Addresses /\ mem[a] = NULL /\ block \in Block /\ block.bytes = bytes /\ ~block.user
        /\ Put(m, bytes) = [memory |-> later, in |-> b, out |-> w, left |-> m.left, ok |-> m.ok]
    <3> HIDE DEF a
    <3>1. ~IsFull(m)
      BY <1>5
    <3> QED
      BY <2>2, <3>1, PutIs DEF a
  <2>4. n = [memory |-> later, in |-> b, out |-> c, left |-> m.left - 1, ok |-> m.ok]
    <3> DEFINE u == Uses(Put(m, bytes), 1)
    <3>1. n = [u EXCEPT !.out = c]
      BY <1>5 DEF MakeWritable, bytes
    <3> HIDE DEF later, n, c, w, b
    <3>2. u = [memory |-> later, in |-> b, out |-> w, left |-> m.left - 1, ok |-> m.ok]
      BY <2>3 DEF Uses
    <3> DEFINE left == m.left - 1
               ok == m.ok
    <3>3. u = [memory |-> later, in |-> b, out |-> w, left |-> left, ok |-> ok]
      BY <3>2
    <3> HIDE DEF u, left, ok
    <3>4. n = [memory |-> later, in |-> b, out |-> c, left |-> left, ok |-> ok]
      BY ONLY <3>1, <3>3
    <3> QED
      BY <3>4 DEF left, ok
  <2> HIDE DEF a, block, later, n
  <2>5. /\ Laid(c) /\ Alike(w, c) /\ c.shared_buffer = w.shared_buffer
        /\ c.fragments[i].data = a /\ c.fragments[i].free_data
        /\ \A j \in 1 .. Count(w) :
              /\ c.fragments[j].length = w.fragments[j].length
              /\ j # i => c.fragments[j] = w.fragments[j]
    <3>1. i \in 1 .. Count(w) /\ Laid(w) /\ a \in Addresses
      BY <1>2, <2>3
    <3>2. c = Copied(w, i, a)
      OBVIOUS
    <3> HIDE DEF w, c
    <3> QED
      BY ONLY <3>1, <3>2, CopiedIs
  <2> HIDE DEF c, w, b, mem
  <2>6. later[a] = block /\ \A x \in Addresses : x # a => later[x] = mem[x]
    BY <1>2, <2>3 DEF later
  <2>7. \A j \in 1 .. Count(w) : w.fragments[j].data # a /\ later[w.fragments[j].data] = mem[w.fragments[j].data]
    BY <2>1, <2>3, <2>6, NullAssumption
  <2>8. Placed(c)
    BY <1>2, <2>5 DEF Placed, IsAt, Alike
  <2>9. Backed(later, freep, c)
    <3>1. ASSUME NEW j \in 1 .. Count(w)
          PROVE  /\ later[c.fragments[j].data] \in Block
                 /\ c.fragments[j].length <= Len(later[c.fragments[j].data].bytes)
                 /\ c.fragments[j].free_data = (freep \/ ~later[c.fragments[j].data].user)
      <4>1. CASE j # i
        BY <4>1, <1>2, <2>5, <2>7 DEF Backed
      <4>2. CASE j = i
        <5>1. c.fragments[j].data = a /\ c.fragments[j].length = length /\ c.fragments[j].free_data
          BY <4>2, <2>5
        <5>2. later[a] \in Block /\ later[a].bytes = bytes /\ ~later[a].user
          BY <2>3, <2>6
        <5>3. length <= Len(bytes)
          BY <2>2
        <5> HIDE DEF length
        <5> QED
          BY <5>1, <5>2, <5>3
      <4> QED
        BY <4>1, <4>2
    <3>2. ASSUME NEW j \in 1 .. Count(w), NEW k \in 1 .. Count(w), c.fragments[j].data = c.fragments[k].data
          PROVE  j = k
      <4>1. CASE j # i /\ k # i
        BY <4>1, <3>2, <1>2, <2>5 DEF Backed
      <4>2. CASE j = i \/ k = i
        BY <4>2, <3>2, <2>5, <2>7
      <4> QED
        BY <4>1, <4>2
    <3> QED
      BY <3>1, <3>2, <2>5 DEF Backed, Alike
  <2>10. IsBuffer(later, freep, c)
    BY <2>5, <2>8, <2>9 DEF IsBuffer
  <2>11. /\ \A j \in 1 .. Count(c) :
               \/ c.fragments[j].data = a
               \/ j <= Count(w) /\ c.fragments[j].data = w.fragments[j].data
         /\ a \in Held(c) /\ Held(w) \subseteq Held(c) \cup Held(b)
    <3>1. Count(c) = Count(w) /\ \A j \in 1 .. Count(w) : j <= Count(w)
      BY <2>1, <2>5 DEF Alike
    <3>2. \A x : x \in Held(c) <=> \E j \in 1 .. Count(w) : c.fragments[j].data = x
      BY <2>5, <3>1, HeldIs
    <3>3. \A x : x \in Held(w) <=> \E j \in 1 .. Count(w) : w.fragments[j].data = x
      BY <1>2, HeldIs
    <3>4. w.fragments[i].data \in Held(b)
      <4>1. i \in 1 .. Count(b) /\ b.fragments[i].data = w.fragments[i].data
        <5>1. i <= Count(b) /\ b.fragments[i].data = w.fragments[i].data
          BY <1>5 DEF IsShared, Count
        <5>2. i \in 1 .. Count(w) /\ Count(b) \in Nat
          BY <1>2, LaidTypes DEF w
        <5> QED
          BY <5>1, <5>2
      <4> QED
        BY <4>1, <1>2, HeldIs
    <3>5. i \in 1 .. Count(w)
      BY DEF w
    <3> QED
      BY <3>1, <3>2, <3>3, <3>4, <3>5, <2>5
  <2>12. Owned(later, freep, b, c) /\ Borrowed(later, b, c) /\ Kept(mem, later)
    <3>1. b # NULL /\ w # NULL /\ Owned(mem, freep, b, w) /\ Borrowed(mem, b, w)
      BY <1>1
    <3>2. later = [mem EXCEPT ![a] = block]
      BY DEF later
    <3>3. /\ IsBuffer(later, freep, c) /\ c.shared_buffer = w.shared_buffer /\ a \in Held(c)
          /\ Held(w) \subseteq Held(c) \cup Held(b)
          /\ \A j \in 1 .. Count(c) :
               \/ c.fragments[j].data = a
               \/ j <= Count(w) /\ c.fragments[j].data = w.fragments[j].data
      BY <2>5, <2>10, <2>11
    <3>4. a \in Addresses /\ mem[a] = NULL /\ block \in Block /\ ~block.user
      BY <2>3
    <3> QED
      BY <3>1, <3>2, <3>3, <3>4, FreshIs
  <2>13. c # NULL
    BY <2>5, HeldIs
  <2>14. /\ n.memory = later /\ n.in = b /\ n.out = c /\ n.left = m.left - 1 /\ n.ok = m.ok
    BY <2>4
  <2>15. IsWork(n, freep)
    <3>1. n = [memory |-> n.memory, in |-> n.in, out |-> n.out, left |-> n.left, ok |-> n.ok]
      BY <2>4, <2>14
    <3>2. n.left \in Nat
      BY <1>1, <1>5, <2>14
    <3> QED
      BY <1>1, <2>12, <2>13, <2>14, <3>1, <3>2 DEF IsWork
  <2>16. SameBytes(m, n)
    <3>1. ASSUME NEW j \in 1 .. Count(w), NEW place \in Nat, IsIn(w, j, place)
          PROVE  ByteIn(later, c, j, place) = ByteIn(mem, w, j, place)
      <4>1. CASE j # i
        BY <4>1, <2>5, <2>7 DEF ByteIn, Alike
      <4>2. CASE j = i
        <5>1. /\ w.offsets[i] \in Nat /\ w.offsets[i + 1] = w.offsets[i] + length
          <6>1. i \in 1 .. Count(w) /\ i \in 1 .. Count(w) + 1
            BY <2>1 DEF w
          <6> QED
            BY <6>1, <1>2, LaidTypes
        <5>2. place - w.offsets[i] \in 1 .. length
          <6> HIDE DEF length
          <6> QED
            BY <5>1, <2>2, <3>1, <4>2 DEF IsIn
        <5>3. c.offsets[j] = w.offsets[i] /\ later[c.fragments[j].data].bytes = bytes
          BY <2>3, <2>5, <2>6, <4>2 DEF Alike
        <5>4. bytes[place - w.offsets[i]] = old[place - w.offsets[i]]
          BY <5>2, <2>2
        <5> QED
          BY <5>3, <5>4, <4>2 DEF ByteIn
      <4> QED
        BY <4>1, <4>2
    <3> QED
      BY <3>1, <2>14 DEF SameBytes, w, mem
  <2>17. a \notin Held(b)
    <3>1. SUFFICES ASSUME NEW j \in 1 .. Count(b), b.fragments[j].data = a PROVE FALSE
      BY <1>2, HeldIs
    <3>2. mem[a] \in Block
      BY <3>1, <1>2 DEF IsBuffer, Backed
    <3> QED
      BY <3>2, <2>3, NullAssumption
  <2>18. n.out.fragments[i].data = a /\ ~n.memory[a].user
    BY <2>3, <2>5, <2>6, <2>14
  <2> QED
    BY <2>5, <2>12, <2>14, <2>15, <2>16, <2>17, <2>18 DEF n, w, b, mem
<1> QED
  BY <1>3, <1>4, <1>5

LEMMA StoredIs ==
    ASSUME NEW freep, NEW m, IsWork(m, freep), NEW i \in 1 .. Count(m.out), NEW bytes \in Seq(Byte),
           m.out.fragments[i].data \notin Held(m.in),
           ~m.memory[m.out.fragments[i].data].user
    PROVE  LET n == Stored(m, i, bytes)
           IN /\ IsWork(n, freep) /\ n.in = m.in /\ n.out = m.out /\ n.ok = m.ok
              /\ \A x \in Addresses : x # m.out.fragments[i].data => n.memory[x] = m.memory[x]
              /\ \A place \in Nat : IsIn(m.out, i, place) =>
                    ByteIn(n.memory, m.out, i, place) =
                        IF m.out.offset < place /\ place <= m.out.offset + Len(bytes)
                        THEN bytes[place - m.out.offset] ELSE ByteIn(m.memory, m.out, i, place)
<1> DEFINE n == Stored(m, i, bytes)
           w == m.out
           b == m.in
           mem == m.memory
           a == w.fragments[i].data
           old == mem[a].bytes
           new == Overlaid(old, w, i, bytes)
           block == [mem[a] EXCEPT !.bytes = new]
           later == [mem EXCEPT ![a] = block]
<1>1. /\ m = [memory |-> mem, in |-> b, out |-> w, left |-> m.left, ok |-> m.ok]
      /\ m.left \in Nat /\ m.ok \in BOOLEAN /\ b # NULL /\ w # NULL
      /\ Owned(mem, freep, b, w) /\ Borrowed(mem, b, w)
  BY DEF IsWork
<1>2. /\ Laid(w) /\ Placed(w) /\ w \in Buffer /\ IsBuffer(mem, freep, w) /\ Backed(mem, freep, w)
      /\ Laid(b) /\ b \in Buffer /\ IsBuffer(mem, freep, b) /\ Backed(mem, freep, b) /\ Placed(b)
      /\ mem \in [Addresses -> Block \cup {NULL}]
  BY <1>1 DEF Owned, IsBuffer, Laid
<1>3. /\ i \in 1 .. Count(w) /\ a \in Addresses /\ mem[a] \in Block /\ Count(w) \in Nat
      /\ w.fragments[i].length \in Nat /\ w.fragments[i].length <= Len(old)
      /\ w.offset \in Nat /\ w.offsets[i] \in Nat /\ w.offsets[i + 1] = w.offsets[i] + w.fragments[i].length
      /\ a \notin Held(b) /\ ~mem[a].user
  <2>1. i \in 1 .. Count(w) + 1
    BY <1>2, LaidTypes
  <2> QED
    BY <1>2, <2>1, LaidTypes DEF Backed
<1>4. old \in Seq(Byte \cup {UNDEFINED}) /\ Len(old) \in Nat /\ Len(bytes) \in Nat
      /\ DOMAIN bytes = 1 .. Len(bytes)
  <2>1. old \in Seq(Byte \cup {UNDEFINED})
    <3> DEFINE x == mem[a]
    <3>1. x \in Block
      BY <1>3
    <3> HIDE DEF x
    <3>2. x.bytes \in Seq(Byte \cup {UNDEFINED})
      BY <3>1 DEF Block, Bytes
    <3> QED
      BY <3>2 DEF x
  <2> HIDE DEF old
  <2> QED
    BY <2>1
<1>5. n = [memory |-> later, in |-> b, out |-> w, left |-> m.left, ok |-> m.ok]
  <2>1. n = [m EXCEPT !.memory[a] = block]
    BY DEF Stored
  <2> HIDE DEF n, block, a, w, b, mem
  <2>2. m = [memory |-> mem, in |-> b, out |-> w, left |-> m.left, ok |-> m.ok]
    BY <1>1
  <2>3. n = [m EXCEPT !.memory = [mem EXCEPT ![a] = block]]
    BY <2>1, <2>2
  <2> HIDE DEF later
  <2>4. n = [m EXCEPT !.memory = later]
    BY <2>3 DEF later
  <2> QED
    BY <2>2, <2>4
<1>6. /\ new \in Seq(Byte \cup {UNDEFINED}) /\ Len(new) = Len(old)
      /\ \A p \in 1 .. Len(old) :
            new[p] = IF p - (w.offset - w.offsets[i]) \in DOMAIN bytes /\ p <= w.fragments[i].length
                     THEN bytes[p - (w.offset - w.offsets[i])] ELSE old[p]
  <2> DEFINE first == w.offset - w.offsets[i]
             l == w.fragments[i].length
             byte(p) == IF p - first \in DOMAIN bytes /\ p <= l THEN bytes[p - first] ELSE old[p]
  <2>1. new = [p \in DOMAIN old |-> byte(p)]
    BY DEF Overlaid
  <2> HIDE DEF first, l, new, old
  <2>2. DOMAIN old = 1 .. Len(old)
    BY <1>4
  <2>3. \A p \in 1 .. Len(old) : byte(p) \in Byte \cup {UNDEFINED}
    <3>1. \A p \in 1 .. Len(old) : old[p] \in Byte \cup {UNDEFINED}
      BY <1>4
    <3>2. \A q \in DOMAIN bytes : bytes[q] \in Byte \cup {UNDEFINED}
      BY <1>4
    <3> QED
      BY <3>1, <3>2
  <2>4. \A p \in 1 .. Len(old) : new[p] = byte(p)
    BY <2>1, <2>2
  <2>5. new \in [1 .. Len(old) -> Byte \cup {UNDEFINED}]
    <3> HIDE DEF byte
    <3> QED
      BY <2>1, <2>2, <2>3
  <2>6. new \in Seq(Byte \cup {UNDEFINED}) /\ Len(new) = Len(old)
    BY <2>5, <1>4
  <2> QED
    BY <2>4, <2>6 DEF first, l
<1> HIDE DEF new
<1>7. block \in Block /\ block.bytes = new /\ block.user = mem[a].user
  BY <1>3, <1>6 DEF Block, Bytes
<1> HIDE DEF block, n
<1>8. /\ later \in [Addresses -> Block \cup {NULL}] /\ later[a] = block
      /\ \A x \in Addresses : x # a => later[x] = mem[x]
  BY <1>2, <1>3, <1>7
<1> HIDE DEF later
<1>9. IsBuffer(later, freep, w)
  <2>1. ASSUME NEW j \in 1 .. Count(w)
        PROVE  /\ later[w.fragments[j].data] \in Block
               /\ w.fragments[j].length <= Len(later[w.fragments[j].data].bytes)
               /\ w.fragments[j].free_data = (freep \/ ~later[w.fragments[j].data].user)
    <3> DEFINE x == w.fragments[j].data
    <3>1. /\ x \in Addresses /\ mem[x] \in Block /\ w.fragments[j].length <= Len(mem[x].bytes)
          /\ w.fragments[j].free_data = (freep \/ ~mem[x].user)
      BY <1>2, LaidTypes DEF Backed
    <3>2. later[x] \in Block /\ Len(later[x].bytes) = Len(mem[x].bytes) /\ later[x].user = mem[x].user
      <4>1. CASE x = a
        <5> HIDE DEF x, a
        <5> QED
          BY <4>1, <1>6, <1>7, <1>8
      <4>2. CASE x # a
        <5> HIDE DEF x, a
        <5> QED
          BY <4>2, <3>1, <1>8
      <4> QED
        BY <4>1, <4>2
    <3> HIDE DEF x, w
    <3>3. w.fragments[j].length <= Len(later[x].bytes)
      BY <3>1, <3>2
    <3>4. w.fragments[j].free_data = (freep \/ ~later[x].user)
      BY <3>1, <3>2
    <3> QED
      BY <3>2, <3>3, <3>4 DEF x
  <2>2. \A j, k \in 1 .. Count(w) : w.fragments[j].data = w.fragments[k].data => j = k
    BY <1>2 DEF Backed
  <2>3. Backed(later, freep, w)
    BY <2>1, <2>2 DEF Backed
  <2> QED
    BY <2>3, <1>2 DEF IsBuffer
<1>10. IsBuffer(later, freep, b)
  <2> DEFINE c == b
  <2>1. \A x \in Held(c) : later[x] = mem[x]
    <3>1. \A x \in Held(b) : x \in Addresses /\ x # a
      BY <1>2, <1>3, HeldIs
    <3> QED
      BY <3>1, <1>8
  <2>2. Laid(c) /\ Backed(mem, freep, c) /\ b \in Buffer /\ b.fragments = c.fragments /\ b.offsets = c.offsets
    BY <1>2
  <2> HIDE DEF c, b, mem
  <2>3. Laid(b) /\ Backed(later, freep, b)
    BY <2>1, <2>2, SameFragments
  <2> QED
    BY <2>3, <1>2 DEF IsBuffer
<1>11. Owned(later, freep, b, w)
  <2>1. ASSUME NEW x \in Addresses, later[x] # NULL
        PROVE  x \in HeldBy(b) \cup HeldBy(w) \/ (later[x].user /\ ~freep)
    <3>1. mem[x] # NULL /\ later[x].user = mem[x].user
      <4>1. CASE x = a
        <5> HIDE DEF a
        <5> QED
          BY <4>1, <1>3, <1>7, <1>8, NullAssumption
      <4>2. CASE x # a
        <5> HIDE DEF a
        <5> QED
          BY <4>2, <2>1, <1>8
      <4> QED
        BY <4>1, <4>2
    <3>2. x \in HeldBy(b) \cup HeldBy(w) \/ (mem[x].user /\ ~freep)
      BY <3>1, <1>1 DEF Owned
    <3> QED
      BY <3>1, <3>2
  <2> QED
    BY <2>1, <1>1, <1>8, <1>9, <1>10 DEF Owned
<1>12. Borrowed(later, b, w)
  <2>1. ASSUME NEW j \in 1 .. Count(w), later[w.fragments[j].data].user
        PROVE  mem[w.fragments[j].data].user
    <3>1. w.fragments[j].data \in Addresses
      BY <1>2, LaidTypes
    <3> DEFINE x == w.fragments[j].data
    <3> HIDE DEF x, a
    <3>2. mem[x].user
      BY <2>1, <3>1, <1>7, <1>8 DEF x
    <3> QED
      BY <3>2 DEF x
  <2> QED
    BY <2>1, <1>1 DEF Borrowed
<1>13. /\ n.memory = later /\ n.in = b /\ n.out = w /\ n.left = m.left /\ n.ok = m.ok
       /\ n = [memory |-> n.memory, in |-> n.in, out |-> n.out, left |-> n.left, ok |-> n.ok]
  <2> HIDE DEF b, w
  <2> QED
    BY <1>5
<1>14. IsWork(n, freep)
  BY <1>1, <1>11, <1>12, <1>13 DEF IsWork
<1>15. ASSUME NEW place \in Nat, IsIn(w, i, place)
       PROVE  ByteIn(later, w, i, place) =
                IF w.offset < place /\ place <= w.offset + Len(bytes)
                THEN bytes[place - w.offset] ELSE ByteIn(mem, w, i, place)
  <2> DEFINE p == place - w.offsets[i]
             l == w.fragments[i].length
             first == w.offset - w.offsets[i]
  <2> HIDE DEF w, old
  <2>1. p \in 1 .. Len(old) /\ p <= l /\ p - first = place - w.offset
    <3>1. /\ w.offsets[i] < place /\ place <= w.offsets[i + 1] /\ w.offsets[i] \in Nat /\ w.offset \in Nat
          /\ w.offsets[i + 1] = w.offsets[i] + l /\ l \in Nat /\ l <= Len(old) /\ Len(old) \in Nat
      BY <1>3, <1>4, <1>15 DEF IsIn
    <3> HIDE DEF l
    <3>2. p \in Nat /\ 1 <= p /\ p <= l
      <4> DEFINE o == w.offsets[i]
      <4>1. o \in Nat /\ l \in Nat /\ o < place /\ place <= o + l /\ p = place - o
        BY <3>1
      <4> HIDE DEF o, p, first
      <4> QED
        BY <4>1
    <3>3. p - first = place - w.offset
      BY <3>1
    <3> HIDE DEF p, first
    <3> QED
      BY <3>1, <3>2, <3>3
  <2>2. ByteIn(later, w, i, place) = new[p] /\ ByteIn(mem, w, i, place) = old[p]
    BY <1>7, <1>8 DEF ByteIn, old
  <2>3. new[p] = IF p - first \in DOMAIN bytes /\ p <= l THEN bytes[p - first] ELSE old[p]
    BY <1>6, <2>1
  <2>4. p - first \in DOMAIN bytes <=> w.offset < place /\ place <= w.offset + Len(bytes)
    <3> DEFINE d == p - first
    <3>1. DOMAIN bytes = 1 .. Len(bytes) /\ Len(bytes) \in Nat /\ w.offset \in Nat
      BY <1>3, <1>4
    <3>2. d = place - w.offset
      BY <2>1
    <3> HIDE DEF d
    <3>3. d \in DOMAIN bytes <=> w.offset < place /\ place <= w.offset + Len(bytes)
      BY <3>1, <3>2
    <3> QED
      BY <3>3 DEF d
  <2> HIDE DEF p, l, first
  <2> QED
    BY <2>1, <2>2, <2>3, <2>4
<1> QED
  BY <1>8, <1>13, <1>14, <1>15 DEF n

\* What has become of m when the bytes that belong up to a place have been
\* written into it.
Rewritten(freep, m, n, bytes, upto) ==
    /\ IsWork(n, freep) /\ n.in = m.in /\ Alike(m.out, n.out)
    /\ \A a \in Addresses :
        m.memory[a] # NULL /\ (m.memory[a].user \/ a \in Held(m.in)) => n.memory[a] = m.memory[a]
    /\ \A j \in 1 .. Count(m.out), place \in Nat :
        IsIn(m.out, j, place) =>
            ByteIn(n.memory, n.out, j, place) =
                IF m.out.offset < place /\ place <= m.out.offset + Len(bytes) /\ place <= upto
                THEN bytes[place - m.out.offset] ELSE ByteIn(m.memory, m.out, j, place)
    /\ n.ok => m.ok

LEMMA StoreIntoIs ==
    ASSUME NEW freep, NEW g, IsWork(g, freep), NEW m, NEW bytes \in Seq(Byte), NEW upto \in Nat,
           Rewritten(freep, g, m, bytes, upto), NEW i \in 1 .. Count(g.out),
           m.ok => upto = g.out.offsets[i]
    PROVE  \E e \in Nat : /\ Rewritten(freep, g, StoreInto(m, i, bytes), bytes, e)
                          /\ StoreInto(m, i, bytes).ok => e = g.out.offsets[i + 1]
<1> DEFINE n == StoreInto(m, i, bytes)
           w == g.out
           end == w.offset + Len(bytes)
           next == w.offsets[i + 1]
<1>1. /\ IsWork(m, freep) /\ m.in = g.in /\ Alike(w, m.out)
      /\ Laid(w) /\ Placed(w) /\ Laid(m.out) /\ Backed(m.memory, freep, m.out)
  BY DEF IsWork, Owned, IsBuffer, Rewritten
<1>2. /\ Count(w) \in Nat /\ w.offset \in Nat /\ Len(bytes) \in Nat /\ Count(m.out) = Count(w)
      /\ i \in 1 .. Count(w) /\ i \in 1 .. Count(w) + 1 /\ i + 1 \in 1 .. Count(w) + 1
      /\ \A j \in 1 .. Count(w) : j \in 1 .. Count(w) + 1 /\ j + 1 \in 1 .. Count(w) + 1
      /\ \A j \in 1 .. Count(w) + 1 : w.offsets[j] \in Nat
      /\ next \in Nat /\ m.out.offsets = w.offsets /\ m.out.offset = w.offset
      /\ m.out.current = w.current /\ w.current \in Nat /\ i \in Nat
  <2>1. /\ Count(w) \in Nat /\ w.offset \in Nat /\ Len(bytes) \in Nat /\ w.current \in Nat
        /\ \A j \in 1 .. Count(w) + 1 : w.offsets[j] \in Nat
    <3>1. Len(bytes) \in Nat /\ Laid(w)
      BY <1>1
    <3> HIDE DEF w
    <3> QED
      BY <3>1, LaidTypes
  <2>2. /\ \A j \in 1 .. Count(w) : j \in 1 .. Count(w) + 1 /\ j + 1 \in 1 .. Count(w) + 1
        /\ i \in 1 .. Count(w) /\ i \in Nat
    BY <2>1
  <2> HIDE DEF w
  <2> QED
    BY <1>1, <2>1, <2>2 DEF Alike
<1>3. CASE ~m.ok
  <2>1. n = m
    BY <1>3 DEF StoreInto
  <2> QED
    BY <1>3, <2>1
<1>4. CASE m.ok /\ ~IsTouched(m.out, i, Len(bytes))
  <2>1. n = m
    BY <1>4 DEF StoreInto
  <2>2. ASSUME NEW j \in 1 .. Count(w), NEW place \in Nat, IsIn(w, j, place), w.offset < place, place <= end
        PROVE  place <= upto <=> place <= next
    <3> HIDE DEF w
    <3>1. /\ upto = w.offsets[i] /\ w.offsets[i] \in Nat /\ w.offsets[j] \in Nat /\ w.offsets[j + 1] \in Nat
          /\ next \in Nat
      BY <1>2, <1>4 DEF w
    <3>2. w.offsets[j] < place /\ place <= w.offsets[j + 1]
      BY <2>2 DEF IsIn
    <3>3. CASE j < i
      <4>1. w.offsets[j + 1] <= w.offsets[i] /\ w.offsets[i] < next
        <5>1. i < i + 1
          BY <1>2
        <5>2. w.offsets[j + 1] <= w.offsets[i]
          BY <3>3, <1>1, <1>2, OffsetsGrow
        <5>3. w.offsets[i] < next
          BY <5>1, <1>1, <1>2, OffsetsGrow
        <5> QED
          BY <5>2, <5>3
      <4> DEFINE x == w.offsets[j + 1]
                 y == w.offsets[i]
                 z == next
      <4>2. x \in Nat /\ y \in Nat /\ z \in Nat /\ place <= x /\ x <= y /\ y < z /\ upto = y
        BY <4>1, <3>1, <3>2
      <4> HIDE DEF x, y, z
      <4>3. place <= upto <=> place <= z
        BY <4>2
      <4> QED
        BY <4>3 DEF z
    <3>4. CASE j > i
      <4>1. w.offsets[i + 1] <= w.offsets[j]
        BY <3>4, <1>1, <1>2, OffsetsGrow
      <4>2. w.offsets[i] < w.offsets[j]
        BY <3>4, <1>1, <1>2, OffsetsGrow
      <4> DEFINE x == w.offsets[j]
                 y == w.offsets[i]
                 z == next
      <4>3. x \in Nat /\ y \in Nat /\ z \in Nat /\ x < place /\ z <= x /\ y < x /\ upto = y
        BY <4>1, <4>2, <3>1, <3>2
      <4> HIDE DEF x, y, z
      <4>4. place <= upto <=> place <= z
        BY <4>3
      <4> QED
        BY <4>4 DEF z
    <3>5. CASE j = i
      <4>1. ~(Len(bytes) > 0 /\ i >= w.current /\ w.offsets[i] < w.offset + Len(bytes))
        BY <1>2, <1>4 DEF IsTouched
      <4>2. Len(bytes) > 0
        BY <2>2, <1>2
      <4>3. w.offsets[i] < w.offset + Len(bytes)
        BY <2>2, <3>1, <3>2, <3>5, <1>2
      <4>4. i < w.current
        BY <4>1, <4>2, <4>3, <1>2
      <4>5. w.offsets[i + 1] <= w.offsets[w.current] /\ w.current \in 1 .. Count(w) + 1
            /\ w.offsets[w.current] <= w.offset
        <5>1. w.current \in 1 .. Count(w) + 1 /\ w.offsets[w.current] <= w.offset
          BY <1>1 DEF Placed, IsAt
        <5>2. w.offsets[i + 1] <= w.offsets[w.current]
          <6> DEFINE c == w.current
          <6>1. c \in 1 .. Count(w) + 1 /\ i < c
            BY <4>4, <5>1
          <6> HIDE DEF c
          <6>2. w.offsets[i + 1] <= w.offsets[c]
            BY <6>1, <1>1, <1>2, OffsetsGrow
          <6> QED
            BY <6>2 DEF c
        <5> QED
          BY <5>1, <5>2
      <4>6. FALSE
        <5>1. w.offsets[w.current] \in Nat
          BY <4>5, <1>2
        <5>2. w.offset < place /\ place <= w.offsets[i + 1] /\ w.offsets[i + 1] \in Nat /\ w.offset \in Nat
          BY <2>2, <3>1, <3>2, <3>5, <1>2
        <5> QED
          BY <5>1, <5>2, <4>5
      <4> QED
        BY <4>6
    <3> QED
      BY <3>3, <3>4, <3>5, <1>2
  <2>3. Rewritten(freep, g, m, bytes, next)
    <3>1. ASSUME NEW j \in 1 .. Count(w), NEW place \in Nat, IsIn(w, j, place)
          PROVE  ByteIn(m.memory, m.out, j, place) =
                    IF w.offset < place /\ place <= end /\ place <= next
                    THEN bytes[place - w.offset] ELSE ByteIn(g.memory, w, j, place)
      <4>1. ByteIn(m.memory, m.out, j, place) =
                    IF w.offset < place /\ place <= end /\ place <= upto
                    THEN bytes[place - w.offset] ELSE ByteIn(g.memory, w, j, place)
        BY <3>1 DEF Rewritten
      <4>2. w.offset < place /\ place <= end => (place <= upto <=> place <= next)
        BY <2>2, <3>1
      <4> HIDE DEF w, end, next
      <4> QED
        BY <4>1, <4>2
    <3> HIDE DEF next
    <3> QED
      BY <3>1 DEF Rewritten
  <2> QED
    BY <2>1, <2>3, <1>2
<1>5. CASE m.ok /\ IsTouched(m.out, i, Len(bytes))
  <2> DEFINE v == MakeWritable(m, i)
  <2>1. n = IF v.ok THEN Stored(v, i, bytes) ELSE v
    BY <1>5 DEF StoreInto
  <2>2. /\ IsWork(v, freep) /\ v.in = m.in /\ Alike(m.out, v.out)
        /\ Kept(m.memory, v.memory) /\ SameBytes(m, v)
        /\ v.ok => /\ m.ok
                   /\ v.out.fragments[i].data \notin Held(v.in)
                   /\ ~v.memory[v.out.fragments[i].data].user
    <3>1. i \in 1 .. Count(m.out)
      BY <1>2
    <3> QED
      BY <3>1, <1>1, MakeWritableIs
  <2> HIDE DEF v
  <2>3. v.in = g.in /\ Alike(w, v.out) /\ Laid(v.out) /\ Backed(v.memory, freep, v.out)
    BY <1>1, <2>2 DEF Alike, IsWork, Owned, IsBuffer
  <2>4. \A a \in Addresses :
            g.memory[a] # NULL /\ (g.memory[a].user \/ a \in Held(g.in)) => v.memory[a] = g.memory[a]
    <3>1. \A a \in Addresses :
            g.memory[a] # NULL /\ (g.memory[a].user \/ a \in Held(g.in)) => m.memory[a] = g.memory[a]
      BY DEF Rewritten
    <3> QED
      BY <3>1, <2>2 DEF Kept
  <2>5. ASSUME NEW j \in 1 .. Count(w), NEW place \in Nat, IsIn(w, j, place)
        PROVE  ByteIn(v.memory, v.out, j, place) =
                    IF w.offset < place /\ place <= end /\ place <= upto
                    THEN bytes[place - w.offset] ELSE ByteIn(g.memory, w, j, place)
    <3>1. ByteIn(m.memory, m.out, j, place) =
                    IF w.offset < place /\ place <= end /\ place <= upto
                    THEN bytes[place - w.offset] ELSE ByteIn(g.memory, w, j, place)
      BY <2>5 DEF Rewritten
    <3>2. j \in 1 .. Count(m.out) /\ IsIn(m.out, j, place)
      BY <2>5, <1>2 DEF IsIn
    <3>3. ByteIn(v.memory, v.out, j, place) = ByteIn(m.memory, m.out, j, place)
      BY <3>2, <2>2 DEF SameBytes
    <3> QED
      BY <3>1, <3>3
  <2>6. m.ok => g.ok
    BY DEF Rewritten
  <2>7. CASE ~v.ok
    <3>1. n = v
      BY <2>1, <2>7
    <3>2. Rewritten(freep, g, v, bytes, upto)
      BY <2>2, <2>3, <2>4, <2>5, <2>7 DEF Rewritten
    <3> QED
      BY <3>1, <3>2, <2>7
  <2>8. CASE v.ok
    <3> DEFINE a == v.out.fragments[i].data
    <3>1. n = Stored(v, i, bytes) /\ i \in 1 .. Count(v.out)
      BY <2>1, <2>3, <2>8, <1>2 DEF Alike
    <3>2. /\ IsWork(n, freep) /\ n.in = v.in /\ n.out = v.out /\ n.ok = v.ok
          /\ \A x \in Addresses : x # a => n.memory[x] = v.memory[x]
          /\ \A place \in Nat : IsIn(v.out, i, place) =>
                ByteIn(n.memory, v.out, i, place) =
                    IF v.out.offset < place /\ place <= v.out.offset + Len(bytes)
                    THEN bytes[place - v.out.offset] ELSE ByteIn(v.memory, v.out, i, place)
      <4> HIDE DEF n
      <4>1. /\ IsWork(v, freep) /\ v.out.fragments[i].data \notin Held(v.in)
            /\ ~v.memory[v.out.fragments[i].data].user /\ i \in 1 .. Count(v.out) /\ bytes \in Seq(Byte)
        BY <3>1, <2>2, <2>8
      <4>2. LET o == Stored(v, i, bytes)
            IN /\ IsWork(o, freep) /\ o.in = v.in /\ o.out = v.out /\ o.ok = v.ok
               /\ \A x \in Addresses : x # v.out.fragments[i].data => o.memory[x] = v.memory[x]
               /\ \A place \in Nat : IsIn(v.out, i, place) =>
                    ByteIn(o.memory, v.out, i, place) =
                        IF v.out.offset < place /\ place <= v.out.offset + Len(bytes)
                        THEN bytes[place - v.out.offset] ELSE ByteIn(v.memory, v.out, i, place)
        BY <4>1, StoredIs
      <4> QED
        BY <3>1, <4>2
    <3> HIDE DEF n
    <3>3. \A x \in Addresses :
            g.memory[x] # NULL /\ (g.memory[x].user \/ x \in Held(g.in)) => n.memory[x] = g.memory[x]
      <4>1. ASSUME NEW x \in Addresses, g.memory[x] # NULL, g.memory[x].user \/ x \in Held(g.in)
            PROVE  n.memory[x] = g.memory[x]
        <5>1. v.memory[x] = g.memory[x]
          BY <4>1, <2>4
        <5>2. x # a
          <6> HIDE DEF a
          <6>1. a \notin Held(g.in) /\ ~v.memory[a].user
            BY <2>2, <2>3, <2>8 DEF a
          <6> QED
            BY <6>1, <5>1, <4>1
        <5> QED
          BY <5>1, <5>2, <3>2
      <4> QED
        BY <4>1
    <3>4. ASSUME NEW j \in 1 .. Count(w), NEW place \in Nat, IsIn(w, j, place)
          PROVE  ByteIn(n.memory, n.out, j, place) =
                    IF w.offset < place /\ place <= end /\ place <= next
                    THEN bytes[place - w.offset] ELSE ByteIn(g.memory, w, j, place)
      <4>1. v.out.offset = w.offset /\ v.out.offsets = w.offsets /\ Count(v.out) = Count(w)
        BY <2>3 DEF Alike
      <4>2. IsIn(v.out, j, place)
        BY <3>4, <4>1 DEF IsIn
      <4>3. ByteIn(v.memory, v.out, j, place) =
                    IF w.offset < place /\ place <= end /\ place <= upto
                    THEN bytes[place - w.offset] ELSE ByteIn(g.memory, w, j, place)
        BY <2>5, <3>4
      <4>4. upto = w.offsets[i] /\ w.offsets[j] < place /\ place <= w.offsets[j + 1]
            /\ w.offsets[i] \in Nat /\ w.offsets[j] \in Nat /\ w.offsets[j + 1] \in Nat /\ next \in Nat
        BY <1>2, <1>5, <3>4 DEF IsIn
      <4>5. CASE j = i
        <5>1. ~(place <= upto) /\ place <= next
          <6> HIDE DEF w
          <6> QED
            BY <4>4, <4>5
        <5>2. ByteIn(n.memory, v.out, i, place) =
                    IF w.offset < place /\ place <= end
                    THEN bytes[place - w.offset] ELSE ByteIn(v.memory, v.out, i, place)
          BY <3>2, <4>1, <4>2, <4>5
        <5> HIDE DEF w, end, next
        <5> QED
          BY <5>1, <5>2, <4>3, <4>5, <3>2
      <4>6. CASE j # i
        <5>1. place <= upto <=> place <= next
          <6> HIDE DEF w
          <6>1. CASE j < i
            <7>1. w.offsets[j + 1] <= w.offsets[i]
              BY <6>1, <1>1, <1>2, OffsetsGrow
            <7>2. w.offsets[i] < next
              <8>1. i < i + 1
                BY <1>2
              <8> QED
                BY <8>1, <1>1, <1>2, OffsetsGrow
            <7> DEFINE x == w.offsets[j + 1]
                       y == w.offsets[i]
                       z == next
            <7>3. x \in Nat /\ y \in Nat /\ z \in Nat /\ place <= x /\ x <= y /\ y < z /\ upto = y
              BY <7>1, <7>2, <4>4
            <7> HIDE DEF x, y, z
            <7>4. place <= upto <=> place <= z
              BY <7>3
            <7> QED
              BY <7>4 DEF z
          <6>2. CASE j > i
            <7>1. w.offsets[i + 1] <= w.offsets[j] /\ w.offsets[i] < w.offsets[j]
              BY <6>2, <1>1, <1>2, OffsetsGrow
            <7> DEFINE x == w.offsets[j]
                       y == w.offsets[i]
                       z == next
            <7>2. x \in Nat /\ y \in Nat /\ z \in Nat /\ x < place /\ z <= x /\ y < x /\ upto = y
              BY <7>1, <4>4
            <7> HIDE DEF x, y, z
            <7>3. place <= upto <=> place <= z
              BY <7>2
            <7> QED
              BY <7>3 DEF z
          <6> QED
            BY <6>1, <6>2, <4>6, <1>2
        <5>2. ByteIn(n.memory, v.out, j, place) = ByteIn(v.memory, v.out, j, place)
          <6>1. v.out.fragments[j].data \in Addresses /\ v.out.fragments[j].data # a
            <7>1. i \in 1 .. Count(v.out) /\ j \in 1 .. Count(v.out)
              BY <4>1, <1>2
            <7> QED
              BY <7>1, <4>6, <2>3, LaidTypes DEF Backed
          <6>2. n.memory[v.out.fragments[j].data] = v.memory[v.out.fragments[j].data]
            BY <6>1, <3>2
          <6> QED
            BY <6>2 DEF ByteIn
        <5> HIDE DEF w, end, next
        <5> QED
          BY <5>1, <5>2, <4>3, <3>2
      <4> QED
        BY <4>5, <4>6
    <3>5. Alike(w, n.out)
      BY <2>3, <3>2
    <3>6. n.ok => g.ok
      BY <2>2, <2>6, <3>2
    <3>7. Rewritten(freep, g, n, bytes, next)
      <4> HIDE DEF next
      <4> QED
        BY <2>3, <3>2, <3>3, <3>4, <3>5, <3>6 DEF Rewritten
    <3> QED
      BY <3>7, <1>2 DEF n
  <2> QED
    BY <2>7, <2>8
<1>6. m.ok \in BOOLEAN
  BY <1>1 DEF IsWork
<1> QED
  BY <1>3, <1>4, <1>5, <1>6

\* The end of buffer_write.
Finished(done, bytes) ==
    IF done.ok THEN [done EXCEPT !.out = Sized(Advanced(done.out, Len(bytes)))] ELSE done

StoringSteps(w, bytes, n, f) ==
    f[0] = Grow(w, Len(bytes)) /\ \A k \in 1 .. n : f[k] = StoreInto(f[k - 1], k, bytes)

\* The loop of BufferWrite.
LEMMA StoringLoop ==
    ASSUME NEW w, NEW bytes, NEW n \in Nat
    PROVE  \E f : StoringSteps(w, bytes, n, f) /\ (Len(Grow(w, Len(bytes)).out.fragments) = n => BufferWrite(w, bytes) = Finished(f[n], bytes))
<1> DEFINE first == Grow(w, Len(bytes))
           Next_(k, s) == StoreInto(s, k, bytes)
           body(f, m) == [k \in 0 .. m |-> IF k = 0 THEN first ELSE Next_(k, f[k - 1])]
           IsLoop(f, m) == f = body(f, m)
           Good == {m \in Nat : \E f : IsLoop(f, m)}
<1>1. 0 \in Good
  <2> DEFINE g == [k \in 0 .. 0 |-> first]
  <2> HIDE DEF first, Next_
  <2>1. IsLoop(g, 0)
    OBVIOUS
  <2> HIDE DEF g, IsLoop
  <2> QED
    BY <2>1
<1>2. ASSUME NEW m \in 1 .. n, m - 1 \in Good PROVE m \in Good
  <2>1. PICK f : f = body(f, m - 1)
    BY <1>2
  <2> DEFINE g == [k \in 0 .. m |-> IF k = m THEN Next_(m, f[m - 1]) ELSE f[k]]
  <2> HIDE DEF first, Next_
  <2>2. \A k \in 0 .. m - 1 : f[k] = IF k = 0 THEN first ELSE Next_(k, f[k - 1])
    BY <2>1
  <2>3. ASSUME NEW k \in 0 .. m PROVE g[k] = IF k = 0 THEN first ELSE Next_(k, g[k - 1])
    <3>1. CASE k = m
      <4>1. k # 0 /\ k - 1 \in 0 .. m /\ k - 1 # m
        BY <3>1
      <4>2. g[k] = Next_(m, f[m - 1]) /\ g[k - 1] = f[m - 1]
        BY <3>1, <4>1
      <4> QED
        BY <4>1, <4>2, <3>1
    <3>2. CASE k # m
      <4>1. k \in 0 .. m - 1 /\ g[k] = f[k]
        BY <3>2
      <4>2. k # 0 => g[k - 1] = f[k - 1]
        BY <3>2
      <4> QED
        BY <4>1, <4>2, <2>2
    <3> QED
      BY <3>1, <3>2
  <2>4. IsLoop(g, m)
    BY <2>3
  <2> HIDE DEF g, IsLoop
  <2> QED
    BY <2>4
<1>3. \E f : IsLoop(f, n)
  <2>1. n \in Good
    <3> HIDE DEF Good
    <3>1. \A k \in 0 .. n : k \in Good
      BY <1>1, <1>2, StepByStep
    <3> QED
      BY <3>1
  <2> HIDE DEF IsLoop
  <2> QED
    BY <2>1
<1> DEFINE g == CHOOSE f : IsLoop(f, n)
<1>4. g = body(g, n)
  <2>1. IsLoop(g, n)
    <3> HIDE DEF IsLoop
    <3> QED
      BY <1>3
  <2> QED
    BY <2>1
<1>5. g[0] = first /\ \A k \in 1 .. n : g[k] = Next_(k, g[k - 1])
  <2> HIDE DEF first, Next_, g
  <2> QED
    BY <1>4
<1>6. StoringSteps(w, bytes, n, g)
  BY <1>5 DEF StoringSteps
<1>7. Len(Grow(w, Len(bytes)).out.fragments) = n => BufferWrite(w, bytes) = Finished(g[n], bytes)
  BY DEF BufferWrite, Finished
<1> HIDE DEF g
<1> QED
  BY <1>6, <1>7

LEMMA StoringIs ==
    ASSUME NEW freep, NEW m, IsWork(m, freep), NEW bytes \in Seq(Byte)
    PROVE  LET g == Grow(m, Len(bytes))
           IN \E done, e : /\ e \in Nat /\ BufferWrite(m, bytes) = Finished(done, bytes)
                           /\ Rewritten(freep, g, done, bytes, e)
                           /\ done.ok => e = g.out.offsets[Count(g.out) + 1]
<1> DEFINE g == Grow(m, Len(bytes))
           n == Count(g.out)
<1>1. IsWork(g, freep) /\ Laid(g.out) /\ n \in Nat /\ g.out.offsets[1] = 0
  <2>1. IsWork(g, freep)
    <3> DEFINE length == Len(bytes)
    <3>1. length \in Nat
      OBVIOUS
    <3> HIDE DEF length
    <3>2. IsWork(Grow(m, length), freep)
      BY <3>1, GrowIs DEF GrownTo
    <3> QED
      BY <3>2 DEF length
  <2> HIDE DEF g
  <2>2. Laid(g.out)
    BY <2>1 DEF IsWork, Owned, IsBuffer
  <2> QED
    BY <2>1, <2>2, LaidTypes
<1>2. PICK f : StoringSteps(m, bytes, n, f) /\ BufferWrite(m, bytes) = Finished(f[n], bytes)
  <2> DEFINE k == n
  <2>1. k \in Nat /\ Len(Grow(m, Len(bytes)).out.fragments) = k
    BY <1>1 DEF Count
  <2> HIDE DEF k, n
  <2>2. \E f : StoringSteps(m, bytes, k, f) /\ BufferWrite(m, bytes) = Finished(f[k], bytes)
    BY <2>1, StoringLoop
  <2> QED
    BY <2>2 DEF k
<1>3. f[0] = g /\ \A k \in 1 .. n : f[k] = StoreInto(f[k - 1], k, bytes)
  BY <1>2 DEF StoringSteps
<1> HIDE DEF g, n
<1> DEFINE IsGood(k) == \E e \in Nat : /\ Rewritten(freep, g, f[k], bytes, e)
                                       /\ f[k].ok => e = g.out.offsets[k + 1]
           Good == {k \in 0 .. n : IsGood(k)}
<1>4. \A k \in 0 .. n : IsGood(k) => k \in Good
  OBVIOUS
<1>5. 0 \in Good
  <2> DEFINE e == 0
  <2>1. e \in Nat /\ \A place \in Nat, x \in Nat : x < place => ~(place <= e)
    OBVIOUS
  <2>2. Laid(g.out) /\ g.out.offset \in Nat
    BY <1>1, LaidTypes
  <2> HIDE DEF e
  <2>3. Rewritten(freep, g, g, bytes, e)
    <3>1. \A place \in Nat : g.out.offset < place => ~(place <= e)
      BY <2>1, <2>2
    <3> QED
      BY <1>1, <3>1 DEF Rewritten, Alike
  <2>4. e = g.out.offsets[0 + 1] /\ 0 \in 0 .. n
    BY <1>1 DEF e
  <2>5. IsGood(0)
    BY <1>3, <2>1, <2>3, <2>4
  <2> HIDE DEF Good, IsGood
  <2> QED
    BY <2>4, <2>5, <1>4
<1>6. ASSUME NEW k \in 1 .. n, k - 1 \in Good PROVE k \in Good
  <2> DEFINE v == f[k - 1]
  <2>1. PICK e \in Nat : /\ Rewritten(freep, g, v, bytes, e)
                         /\ v.ok => e = g.out.offsets[(k - 1) + 1]
    BY <1>6
  <2>2. f[k] = StoreInto(v, k, bytes) /\ (k - 1) + 1 = k /\ k \in 0 .. n /\ k \in 1 .. Count(g.out)
    BY <1>1, <1>3 DEF n
  <2> HIDE DEF v
  <2>3. v.ok => e = g.out.offsets[k]
    BY <2>1, <2>2
  <2>4. \E x \in Nat : /\ Rewritten(freep, g, StoreInto(v, k, bytes), bytes, x)
                       /\ StoreInto(v, k, bytes).ok => x = g.out.offsets[k + 1]
    BY <1>1, <2>1, <2>2, <2>3, StoreIntoIs
  <2>5. IsGood(k)
    BY <2>2, <2>4
  <2> HIDE DEF Good, IsGood
  <2> QED
    BY <2>2, <2>5, <1>4
<1>7. IsGood(n)
  <2>1. \A k \in Good : IsGood(k)
    OBVIOUS
  <2> HIDE DEF Good, IsGood
  <2>2. \A k \in 0 .. n : k \in Good
    BY <1>1, <1>5, <1>6, StepByStep
  <2>3. n \in 0 .. n
    BY <1>1
  <2> QED
    BY <2>1, <2>2, <2>3
<1>8. PICK e \in Nat : /\ Rewritten(freep, g, f[n], bytes, e)
                       /\ f[n].ok => e = g.out.offsets[n + 1]
  BY <1>7
<1>9. /\ e \in Nat /\ BufferWrite(m, bytes) = Finished(f[n], bytes)
      /\ Rewritten(freep, g, f[n], bytes, e)
      /\ f[n].ok => e = g.out.offsets[Count(g.out) + 1]
  BY <1>2, <1>8 DEF n
<1> QED
  BY <1>9 DEF g

\* Bytes in place of others, or after them.
LEMMA OverwrittenIs ==
    ASSUME NEW S, NEW old \in Seq(S), NEW bytes \in Seq(S), NEW at \in 0 .. Len(old)
    PROVE  LET new == Abstract!Overwritten(old, at, bytes)
               end == at + Len(bytes)
           IN /\ new \in Seq(S) /\ Len(new) = IF end >= Len(old) THEN end ELSE Len(old)
              /\ \A p \in 1 .. Len(new) : new[p] = IF at < p /\ p <= end THEN bytes[p - at] ELSE old[p]
<1> DEFINE end == at + Len(bytes)
           one == SubSeq(old, 1, at)
           two == one \o bytes
           three == SubSeq(old, end + 1, Len(old))
           new == two \o three
           rest == IF end >= Len(old) THEN 0 ELSE Len(old) - end
<1>1. Len(old) \in Nat /\ Len(bytes) \in Nat /\ at \in Nat /\ at <= Len(old)
  OBVIOUS
<1>2. one \in Seq(S) /\ Len(one) = at /\ \A p \in 1 .. at : one[p] = old[p]
  BY FirstPart
<1> HIDE DEF one
<1>3. /\ two \in Seq(S) /\ Len(two) = end
      /\ \A p \in 1 .. end : two[p] = IF p <= at THEN one[p] ELSE bytes[p - at]
  BY <1>2, ConcatProperties
<1> HIDE DEF two
<1>4. end \in Nat /\ rest \in Nat
  BY <1>1
<1> HIDE DEF end
<1>5. three \in Seq(S) /\ Len(three) = rest /\ \A p \in 1 .. rest : three[p] = old[end + p]
  <2>1. CASE end >= Len(old)
    <3>1. rest = 0 /\ 1 .. rest = {}
      BY <2>1
    <3>2. three = <<>>
      <4> DEFINE m == end + 1
      <4>1. m \in Int /\ Len(old) \in Int /\ \A i \in m .. Len(old) : old[i] \in S
        BY <1>1, <1>4, <2>1
      <4>2. ~(m <= Len(old))
        BY <1>1, <1>4, <2>1
      <4> HIDE DEF m
      <4>3. SubSeq(old, m, Len(old)) \in Seq(S) /\ Len(SubSeq(old, m, Len(old))) = 0
        BY <4>1, <4>2, SubSeqProperties
      <4>4. SubSeq(old, m, Len(old)) = <<>>
        BY <4>3
      <4> QED
        BY <4>4 DEF m
    <3> HIDE DEF three, rest
    <3> QED
      BY <3>1, <3>2
  <2>2. CASE ~(end >= Len(old))
    <3>1. rest = Len(old) - end /\ end <= Len(old)
      BY <2>2, <1>1, <1>4
    <3> DEFINE upto == Len(old)
    <3>2. upto \in Nat /\ upto <= Len(old) /\ end <= upto
      BY <1>1, <3>1
    <3> HIDE DEF rest, upto
    <3>3. /\ SubSeq(old, end + 1, upto) \in Seq(S)
          /\ Len(SubSeq(old, end + 1, upto)) = upto - end
          /\ \A k \in 1 .. upto - end : SubSeq(old, end + 1, upto)[k] = old[end + k]
      BY <3>2, <1>4, PartOf
    <3> QED
      BY <3>1, <3>3 DEF upto
  <2> QED
    BY <2>1, <2>2
<1>6. (end >= Len(old) => rest = 0) /\ (~(end >= Len(old)) => rest = Len(old) - end)
  OBVIOUS
<1> HIDE DEF three, rest
<1>7. /\ new \in Seq(S) /\ Len(new) = end + rest
      /\ \A p \in 1 .. end + rest : new[p] = IF p <= end THEN two[p] ELSE three[p - end]
  BY <1>3, <1>5, ConcatProperties
<1>8. new = Abstract!Overwritten(old, at, bytes)
  BY DEF Abstract!Overwritten, two, one, three, end
<1> HIDE DEF new
<1>9. Len(new) = IF end >= Len(old) THEN end ELSE Len(old)
  BY <1>1, <1>4, <1>6, <1>7
<1>10. ASSUME NEW p \in 1 .. Len(new)
       PROVE  new[p] = IF at < p /\ p <= end THEN bytes[p - at] ELSE old[p]
  <2>1. p \in 1 .. end + rest /\ p \in Nat
    BY <1>4, <1>7
  <2>2. CASE p <= at
    <3>1. p \in 1 .. end /\ p \in 1 .. at /\ p <= end /\ ~(at < p)
      BY <2>1, <2>2, <1>1, <1>4 DEF end
    <3> QED
      BY <3>1, <2>1, <2>2, <1>2, <1>3, <1>7
  <2>3. CASE ~(p <= at) /\ p <= end
    <3>1. p \in 1 .. end /\ at < p
      BY <2>1, <2>3, <1>1, <1>4
    <3> QED
      BY <3>1, <2>1, <2>3, <1>3, <1>7
  <2>4. CASE ~(p <= end)
    <3>1. p - end \in 1 .. rest /\ end + (p - end) = p
      BY <2>1, <2>4, <1>4
    <3>2. new[p] = three[p - end] /\ three[p - end] = old[end + (p - end)]
      BY <2>1, <2>4, <3>1, <1>5, <1>7
    <3> QED
      BY <3>1, <3>2, <2>4
  <2> QED
    BY <2>2, <2>3, <2>4
<1> QED
  BY <1>7, <1>8, <1>9, <1>10 DEF end

\* The part of the bytes that has been written, and a buffer that ends behind it.
WrittenPart(freep, g, m, bytes, e, part, c) ==
    /\ IsWork(g, freep) /\ e \in Nat /\ Rewritten(freep, g, m, bytes, e)
    /\ bytes \in Seq(Byte) /\ part \in Seq(Byte) /\ Len(part) <= Len(bytes)
    /\ \A p \in 1 .. Len(part) : part[p] = bytes[p]
    /\ Laid(c) /\ c.fragments = m.out.fragments /\ c.offsets = m.out.offsets
    /\ c.size <= c.offsets[Count(c) + 1]
    /\ c.size = IF g.out.offset + Len(part) >= g.out.size THEN g.out.offset + Len(part) ELSE g.out.size
    /\ \A place \in 1 .. c.size : g.out.offset < place =>
           (place <= g.out.offset + Len(bytes) /\ place <= e <=> place <= g.out.offset + Len(part))

LEMMA ContentsWritten ==
    ASSUME NEW freep, NEW g, NEW m, NEW bytes, NEW e, NEW part, NEW c,
           WrittenPart(freep, g, m, bytes, e, part, c)
    PROVE  Contents(m.memory, c) = Abstract!Overwritten(Contents(g.memory, g.out), g.out.offset, part)
<1> USE DEF WrittenPart
<1> DEFINE w == g.out
           S == Byte \cup {UNDEFINED}
           old == Contents(g.memory, w)
           at == w.offset
           end == at + Len(part)
           new == Abstract!Overwritten(old, at, part)
<1>1. IsBuffer(g.memory, freep, w) /\ Laid(w) /\ Placed(w) /\ Alike(w, m.out)
  BY DEF IsWork, Owned, IsBuffer, Rewritten
<1>2. /\ old \in Seq(S) /\ Len(old) = w.size
      /\ \A i \in 1 .. Count(w), place \in 1 .. w.size :
            w.offsets[i] < place /\ place <= w.offsets[i + 1] => old[place] = ByteIn(g.memory, w, i, place)
  <2> HIDE DEF w
  <2> QED
    BY <1>1, ContentsIs DEF Bytes
<1>3. at \in Nat /\ w.size \in Nat /\ at <= w.size /\ Count(w) \in Nat /\ Len(part) \in Nat /\ Len(bytes) \in Nat
      /\ c.size \in Nat
  <2>1. Len(part) \in Nat /\ Len(bytes) \in Nat
    OBVIOUS
  <2> HIDE DEF w
  <2> QED
    BY <1>1, <2>1, LaidTypes DEF Placed
<1>4. Count(c) = Count(w) /\ c.offsets = w.offsets
  BY <1>1 DEF Alike, Count
<1> HIDE DEF old
<1>5. /\ new \in Seq(S) /\ Len(new) = c.size
      /\ \A p \in 1 .. c.size : new[p] = IF at < p /\ p <= end THEN part[p - at] ELSE old[p]
  <2>1. part \in Seq(S) /\ at \in 0 .. Len(old)
    BY <1>2, <1>3
  <2>2. c.size = IF end >= Len(old) THEN end ELSE Len(old)
    BY <1>2
  <2> HIDE DEF w, at, S
  <2>3. LET n == Abstract!Overwritten(old, at, part)
            z == at + Len(part)
        IN /\ n \in Seq(S) /\ Len(n) = IF z >= Len(old) THEN z ELSE Len(old)
           /\ \A p \in 1 .. Len(n) : n[p] = IF at < p /\ p <= z THEN part[p - at] ELSE old[p]
    BY <2>1, <1>2, OverwrittenIs
  <2> QED
    BY <2>2, <2>3
<1> HIDE DEF new
<1>6. ASSUME NEW i \in 1 .. Count(c), NEW place \in 1 .. c.size, c.offsets[i] < place, place <= c.offsets[i + 1]
      PROVE  ByteIn(m.memory, c, i, place) = new[place]
  <2>1. i \in 1 .. Count(w) /\ place \in Nat /\ IsIn(w, i, place)
    BY <1>4, <1>6 DEF IsIn
  <2>2. ByteIn(m.memory, c, i, place) = ByteIn(m.memory, m.out, i, place)
    BY DEF ByteIn
  <2>3. ByteIn(m.memory, m.out, i, place) =
            IF at < place /\ place <= at + Len(bytes) /\ place <= e
            THEN bytes[place - at] ELSE ByteIn(g.memory, w, i, place)
    BY <2>1 DEF Rewritten
  <2>4. new[place] = IF at < place /\ place <= end THEN part[place - at] ELSE old[place]
    BY <1>5
  <2>5. at < place => (place <= at + Len(bytes) /\ place <= e <=> place <= end)
    OBVIOUS
  <2>6. CASE at < place /\ place <= end
    <3>1. place - at \in 1 .. Len(part)
      <4> HIDE DEF at
      <4> QED
        BY <2>1, <2>6, <1>3
    <3>2. part[place - at] = bytes[place - at]
      BY <3>1
    <3> HIDE DEF at, end, w
    <3> QED
      BY <2>2, <2>3, <2>4, <2>5, <2>6, <3>2
  <2>7. CASE ~(at < place /\ place <= end)
    <3>1. place \in 1 .. w.size
      <4>1. c.size = IF end >= w.size THEN end ELSE w.size
        OBVIOUS
      <4>2. place <= c.size /\ 1 <= place /\ end = at + Len(part)
        OBVIOUS
      <4> HIDE DEF w, at, end
      <4> QED
        BY <2>1, <2>7, <4>1, <4>2, <1>3
    <3>2. old[place] = ByteIn(g.memory, w, i, place)
      BY <3>1, <2>1, <1>2 DEF IsIn
    <3> HIDE DEF at, end, w
    <3> QED
      BY <2>2, <2>3, <2>4, <2>5, <2>7, <3>2
  <2> QED
    BY <2>6, <2>7
<1>7. \A i \in 1 .. Count(c), place \in 1 .. c.size :
        c.offsets[i] < place /\ place <= c.offsets[i + 1] => ByteIn(m.memory, c, i, place) = new[place]
  BY <1>6
<1>8. Contents(m.memory, c) = new
  <2> DEFINE mem == m.memory
  <2>1. \A i \in 1 .. Count(c), place \in 1 .. c.size :
            c.offsets[i] < place /\ place <= c.offsets[i + 1] => ByteIn(mem, c, i, place) = new[place]
    BY <1>7
  <2>3. Laid(c) /\ c.size <= c.offsets[Count(c) + 1] /\ new \in Seq(S) /\ Len(new) = c.size
    BY <1>5
  <2> HIDE DEF mem, S
  <2>2. Contents(mem, c) = new
    BY ONLY <2>1, <2>3, ContentsAre
  <2> QED
    BY <2>2 DEF mem
<1> QED
  BY <1>8 DEF new, old

\* What there is before the writer's buffer is moved: g when it has grown, and
\* m when the bytes up to a place have been written into it.
HasWritten(bytes, g, m, e) ==
    /\ IsWork(g, free_data) /\ e \in Nat /\ Rewritten(free_data, g, m, bytes, e)
    /\ m.ok => e >= g.out.offset + Len(bytes) /\ e = g.out.offsets[Count(g.out) + 1]
    /\ g.out.size = out.size /\ g.out.offset = out.offset
    /\ Contents(g.memory, g.out) = Contents(memory, out)
    /\ m.in = in /\ in # NULL /\ Contents(m.memory, in) = Contents(memory, in)
    /\ \A a \in Addresses : memory[a] # NULL /\ memory[a].user => m.memory[a] = memory[a]

\* What a write leaves to the readers.
LEMMA WriteLeaves ==
    ASSUME IInv, Writing, NEW left \in Nat, NEW bytes \in Seq(Byte)
    PROVE  \E g, m, e : /\ BufferWrite(Memory(left), bytes) = Finished(m, bytes)
                      /\ HasWritten(bytes, g, m, e)
<1> DEFINE s == Memory(left)
           length == Len(bytes)
           g == Grow(s, length)
<1>1. /\ Exists /\ in # NULL /\ out # NULL /\ IsBuffer(memory, free_data, in)
      /\ Owned(memory, free_data, in, out) /\ Borrowed(memory, in, out)
  BY Mapping DEF IInv
<1>2. s = [memory |-> memory, in |-> in, out |-> out, left |-> left, ok |-> TRUE]
  BY DEF Memory
<1> HIDE DEF s
<1>3. s.memory = memory /\ s.in = in /\ s.out = out /\ s.left = left /\ s.ok = TRUE
  BY <1>2
<1>4. IsWork(s, free_data)
  BY <1>1, <1>2, <1>3 DEF IsWork
<1>5. length \in Nat
  OBVIOUS
<1>6. GrownTo(free_data, s, g) /\ (g.ok => s.out.offset + length <= BufferCapacity(g.out))
  <2> HIDE DEF length
  <2> QED
    BY <1>4, <1>5, GrowIs
<1>7. PICK m, e : /\ e \in Nat /\ BufferWrite(s, bytes) = Finished(m, bytes)
                  /\ Rewritten(free_data, g, m, bytes, e)
                  /\ m.ok => e = g.out.offsets[Count(g.out) + 1]
  BY <1>4, StoringIs
<1> HIDE DEF g, length
<1>8. /\ IsWork(g, free_data) /\ g.in = in /\ g.out.size = out.size /\ g.out.offset = out.offset
      /\ Kept(memory, g.memory) /\ Contents(g.memory, g.out) = Contents(memory, out)
  BY <1>3, <1>6 DEF GrownTo
<1>9. m.ok => e >= g.out.offset + length
  <2>1. Laid(g.out)
    BY <1>8 DEF IsWork, Owned, IsBuffer
  <2>2. BufferCapacity(g.out) = g.out.offsets[Count(g.out) + 1]
    BY <2>1, LaidTypes
  <2>3. m.ok => g.ok
    BY <1>7 DEF Rewritten
  <2>4. g.out.offset \in Nat
    BY <2>1, LaidTypes
  <2> QED
    BY <2>2, <2>3, <2>4, <1>3, <1>5, <1>6, <1>7, <1>8
<1>10. ASSUME NEW a \in Addresses, memory[a] # NULL, memory[a].user \/ a \in Held(in)
       PROVE  m.memory[a] = memory[a]
  <2>1. g.memory[a] = memory[a]
    BY <1>8, <1>10 DEF Kept
  <2>2. m.memory[a] = g.memory[a]
    BY <2>1, <1>7, <1>8, <1>10 DEF Rewritten
  <2> QED
    BY <2>1, <2>2
<1>11. Contents(m.memory, in) = Contents(memory, in)
  <2> DEFINE later == m.memory
             c == in
  <2>1. ASSUME NEW a \in Held(in) PROVE later[a] = memory[a]
    <3>1. PICK i \in 1 .. Count(in) : in.fragments[i].data = a
      BY <1>1, HeldIs DEF IsBuffer
    <3>2. a \in Addresses /\ memory[a] # NULL
      BY <3>1, <1>1, HeldIs, NullAssumption DEF IsBuffer, Backed
    <3> QED
      BY <3>2, <1>10
  <2>2. Laid(c) /\ c.fragments = in.fragments /\ c.offsets = in.offsets /\ c.size = in.size
    BY <1>1 DEF IsBuffer
  <2> HIDE DEF later, c
  <2>3. Contents(later, c) = Contents(memory, in)
    BY <1>1, <2>1, <2>2, ContentsStay
  <2> QED
    BY <2>3 DEF later, c
<1>12. m.in = in
  BY <1>7, <1>8 DEF Rewritten
<1>13. HasWritten(bytes, g, m, e)
  BY <1>1, <1>7, <1>8, <1>9, <1>10, <1>11, <1>12 DEF HasWritten, length
<1>14. BufferWrite(Memory(left), bytes) = Finished(m, bytes)
  BY <1>7 DEF s
<1> QED
  BY <1>13, <1>14

\* The part of the bytes that a write which failed has replaced.
LEMMA ReplacedPart ==
    ASSUME NEW bytes \in Seq(Byte), NEW e \in Nat, NEW offset \in Nat, NEW size \in Nat, offset <= size
    PROVE  \E n \in 0 .. Len(bytes) :
              /\ offset + n <= size
              /\ \A place \in 1 .. size : offset < place =>
                    (place <= offset + Len(bytes) /\ place <= e <=> place <= offset + n)
<1> DEFINE length == Len(bytes)
           end == offset + length
           t == IF end <= size THEN (IF end <= e THEN end ELSE e) ELSE (IF size <= e THEN size ELSE e)
           n == IF t <= offset THEN 0 ELSE t - offset
<1>1. length \in Nat
  OBVIOUS
<1> HIDE DEF length
<1>2. end \in Nat /\ end = offset + length
  BY <1>1
<1> HIDE DEF end
<1>3. t \in Nat /\ t <= end /\ t <= size /\ t <= e /\ (t = end \/ t = size \/ t = e)
  BY <1>2
<1> HIDE DEF t
<1>4. n \in Nat /\ n <= length /\ offset + n <= size
  BY <1>1, <1>2, <1>3
<1>5. ASSUME NEW place \in 1 .. size, offset < place PROVE place <= end /\ place <= e <=> place <= offset + n
  BY <1>1, <1>2, <1>3, <1>5
<1> HIDE DEF n
<1>6. n \in 0 .. length
  BY <1>1, <1>4
<1> QED
  BY <1>4, <1>5, <1>6 DEF end, length

\* The buffer of a write that has succeeded.
LEMMA SizedIs ==
    ASSUME NEW w, Laid(w), Placed(w), NEW n \in Nat, w.offset + n <= w.offsets[Count(w) + 1],
           NEW c, c = Sized(Advanced(w, n))
    PROVE  /\ c \in Buffer /\ c.fragments = w.fragments /\ c.offsets = w.offsets
           /\ c.shared_buffer = w.shared_buffer /\ Placed(c) /\ c.offset = w.offset + n
           /\ c.size = IF w.offset + n >= w.size THEN w.offset + n ELSE w.size
<1> DEFINE b == Advanced(w, n)
           end == w.offset + n
<1>1. PICK i : b = Moved(w, end, i) /\ IsAt(w, end, i)
  BY AdvancedIs DEF Placed
<1>2. /\ w \in Buffer /\ w.offset \in Nat /\ w.size \in Nat /\ Count(w) \in Nat
      /\ w.size <= w.offsets[Count(w) + 1] /\ w.offset <= w.size
  BY LaidTypes DEF Laid, Placed
<1>3. end \in Nat /\ i \in Nat /\ end <= w.offsets[Count(w) + 1]
  BY <1>1, <1>2 DEF IsAt
<1>4. c = Sized(b)
  OBVIOUS
<1> HIDE DEF b, end
<1>5. /\ b \in Buffer /\ b.fragments = w.fragments /\ b.offsets = w.offsets
      /\ b.shared_buffer = w.shared_buffer /\ b.size = w.size /\ b.offset = end /\ b.current = i
  BY <1>1, <1>2, <1>3 DEF Buffer, Moved
<1> DEFINE size == IF end >= w.size THEN end ELSE w.size
<1>6. Max({b.size, b.offset}) = size /\ size \in Nat
  <2>1. Max({w.size, end}) = IF w.size >= end THEN w.size ELSE end
    BY <1>2, <1>3, MaxIs
  <2> QED
    BY <2>1, <1>2, <1>3, <1>5
<1>7. c = [b EXCEPT !.size = size]
  BY <1>4, <1>6 DEF Sized
<1>8. size >= end /\ size <= w.offsets[Count(w) + 1]
  BY <1>2, <1>3
<1>9. size = IF end >= w.size THEN end ELSE w.size
  OBVIOUS
<1> HIDE DEF size
<1>10. /\ c \in Buffer /\ c.fragments = w.fragments /\ c.offsets = w.offsets
       /\ c.shared_buffer = w.shared_buffer /\ c.size = size /\ c.offset = end /\ c.current = i
  BY <1>5, <1>6, <1>7 DEF Buffer
<1>11. Placed(c)
  BY <1>1, <1>8, <1>10 DEF Placed, IsAt, Count
<1> QED
  BY <1>9, <1>10, <1>11 DEF end

\* The same as ContentsWritten, of what the writer had.
LEMMA ContentsOfWriter ==
    ASSUME NEW bytes \in Seq(Byte), NEW g, NEW m, NEW e, HasWritten(bytes, g, m, e),
           NEW n \in Nat, NEW part \in Seq(Byte), Len(part) = n, n <= Len(bytes),
           \A p \in 1 .. n : part[p] = bytes[p],
           NEW c, Laid(c), Placed(c), c.fragments = m.out.fragments, c.offsets = m.out.offsets,
           c.size = IF out.offset + n >= out.size THEN out.offset + n ELSE out.size,
           \A place \in 1 .. c.size : out.offset < place =>
               (place <= out.offset + Len(bytes) /\ place <= e <=> place <= out.offset + n)
    PROVE  Contents(m.memory, c) = Abstract!Overwritten(Contents(memory, out), out.offset, part)
<1>1. /\ IsWork(g, free_data) /\ e \in Nat /\ Rewritten(free_data, g, m, bytes, e)
      /\ Contents(g.memory, g.out) = Contents(memory, out)
      /\ g.out.size = out.size /\ g.out.offset = out.offset
  BY DEF HasWritten
<1>2. WrittenPart(free_data, g, m, bytes, e, part, c)
  <2>1. Len(part) <= Len(bytes) /\ \A p \in 1 .. Len(part) : part[p] = bytes[p]
    OBVIOUS
  <2>2. c.size <= c.offsets[Count(c) + 1]
    BY DEF Placed
  <2>3. c.size = IF g.out.offset + Len(part) >= g.out.size THEN g.out.offset + Len(part) ELSE g.out.size
    BY <1>1
  <2>4. \A place \in 1 .. c.size : g.out.offset < place =>
           (place <= g.out.offset + Len(bytes) /\ place <= e <=> place <= g.out.offset + Len(part))
    BY <1>1
  <2> QED
    BY <1>1, <2>1, <2>2, <2>3, <2>4 DEF WrittenPart
<1>3. Contents(m.memory, c) = Abstract!Overwritten(Contents(g.memory, g.out), g.out.offset, part)
  BY ONLY <1>2, ContentsWritten
<1> QED
  BY <1>1, <1>3

\* What both ends of a write have in common.
LEMMA Rest ==
    ASSUME IInv, Writing, NEW bytes \in Seq(Byte), NEW g, NEW m, NEW e, HasWritten(bytes, g, m, e)
    PROVE  /\ IsWork(m, free_data) /\ m.in = in /\ in # NULL
           /\ Owned(m.memory, free_data, in, m.out) /\ Borrowed(m.memory, in, m.out)
           /\ m.out # NULL /\ Laid(m.out) /\ Placed(m.out)
           /\ m.out.size = out.size /\ m.out.offset = out.offset
           /\ m.out.offsets = g.out.offsets /\ Count(m.out) = Count(g.out)
           /\ out.offset \in Nat /\ out.size \in Nat /\ out.offset <= out.size
           /\ Len(bytes) \in Nat /\ e \in Nat /\ out # NULL
           /\ Contents(memory, out) # NULL /\ Len(Contents(memory, out)) = out.size
           /\ m.out.offsets[Count(m.out) + 1] \in Nat
<1>1. IsWork(m, free_data) /\ Alike(g.out, m.out) /\ m.in = in /\ in # NULL /\ e \in Nat
  BY DEF HasWritten, Rewritten
<1>2. m.out # NULL /\ Owned(m.memory, free_data, in, m.out) /\ Borrowed(m.memory, in, m.out)
  BY <1>1 DEF IsWork
<1>3. Laid(m.out) /\ Placed(m.out)
  BY <1>2 DEF Owned, IsBuffer
<1>4. Count(m.out) + 1 \in 1 .. Count(m.out) + 1
  BY <1>3, LaidTypes
<1>5. m.out.offsets[Count(m.out) + 1] \in Nat
  BY <1>3, <1>4, LaidTypes
<1>6. /\ m.out.size = out.size /\ m.out.offset = out.offset
      /\ m.out.offsets = g.out.offsets /\ Count(m.out) = Count(g.out)
  BY <1>1 DEF HasWritten, Alike
<1>7. Len(bytes) \in Nat
  OBVIOUS
<1> QED
  BY <1>1, <1>2, <1>3, <1>5, <1>6, <1>7, Mapping

\* What a write leaves alone, and the invariant.
LEMMA WriterHas ==
    ASSUME IInv, Writing, NEW bytes \in Seq(Byte), NEW g, NEW m, NEW e, HasWritten(bytes, g, m, e),
           NEW c, c # NULL, Owned(m.memory, free_data, in, c), Borrowed(m.memory, in, c),
           memory' = m.memory, in' = in, out' = c, UNCHANGED <<free_data, open_count, write_state>>
    PROVE  /\ IInv' /\ UserStays
           /\ Contents(memory, in)' = Contents(memory, in)
           /\ Contents(memory, out)' = Contents(m.memory, c)
<1>1. States'
  BY DEF IInv, States, Exists, Writing, HasWritten
<1>2. Owned(memory, free_data, in, out)' /\ Borrowed(memory, in, out)'
  OBVIOUS
<1>3. UserStays
  BY DEF UserStays, HasWritten
<1>4. Contents(memory, in)' = Contents(memory, in) /\ Contents(memory, out)' = Contents(m.memory, c)
  BY DEF HasWritten
<1> QED
  BY <1>1, <1>2, <1>3, <1>4 DEF IInv

LEMMA WriteFailsIsRight ==
    ASSUME IInv, Writing, NEW bytes \in Written, NEW g, NEW m, NEW e, HasWritten(bytes, g, m, e),
           bytes \in Seq(Byte), memory' = m.memory, in' = in, out' = m.out, data' = <<>>,
           UNCHANGED <<free_data, open_count, write_state>>
    PROVE  StepIsRight
<1> DEFINE offset == out.offset
           size == out.size
           length == Len(bytes)
<1>1. /\ offset \in Nat /\ size \in Nat /\ offset <= size /\ e \in Nat /\ length \in Nat
      /\ m.out.size = size /\ m.out.offset = offset
  BY Rest
<1>2. PICK n \in 0 .. length :
              /\ offset + n <= size
              /\ \A place \in 1 .. size : offset < place =>
                    (place <= offset + length /\ place <= e <=> place <= offset + n)
  <2> HIDE DEF offset, size
  <2> QED
    BY <1>1, ReplacedPart
<1>3. n \in Nat /\ n <= length
  BY <1>1
<1> DEFINE part == SubSeq(bytes, 1, n)
           c == m.out
<1>4. part \in Seq(Byte) /\ Len(part) = n /\ \A p \in 1 .. n : part[p] = bytes[p]
  BY <1>3, FirstPart
<1>5. size = IF offset + n >= size THEN offset + n ELSE size
  <2> HIDE DEF offset, size
  <2> QED
    BY <1>1, <1>2, <1>3
<1>6. /\ Laid(c) /\ Placed(c) /\ c.fragments = m.out.fragments /\ c.offsets = m.out.offsets
      /\ c # NULL /\ Owned(m.memory, free_data, in, c) /\ Borrowed(m.memory, in, c)
      /\ c.size = IF out.offset + n >= out.size THEN out.offset + n ELSE out.size
      /\ out' = c
  BY <1>1, <1>5, Rest
<1>7. \A place \in 1 .. c.size : out.offset < place =>
               (place <= out.offset + Len(bytes) /\ place <= e <=> place <= out.offset + n)
  BY <1>1, <1>2
<1> HIDE DEF part, c
<1>8. Contents(m.memory, c) = Abstract!Overwritten(Contents(memory, out), out.offset, part)
  <2>1. bytes \in Seq(Byte) /\ HasWritten(bytes, g, m, e) /\ n \in Nat /\ n <= Len(bytes)
    BY <1>3
  <2> HIDE DEF offset, size, length
  <2> QED
    BY ONLY <2>1, <1>4, <1>6, <1>7, ContentsOfWriter
<1>9. /\ IInv' /\ UserStays
      /\ Contents(memory, in)' = Contents(memory, in)
      /\ Contents(memory, out)' = Contents(m.memory, c)
  BY <1>6, WriterHas
<1>10. Abstract!WriteFails
  <2>1. /\ in' = in /\ open_count' = open_count /\ out' # NULL /\ out # NULL
        /\ out'.offset = out.offset /\ Contents(memory, out) # NULL
        /\ out.offset + n <= Len(Contents(memory, out)) /\ n \in 0 .. Len(bytes)
    BY <1>1, <1>2, <1>6, Rest
  <2> QED
    BY <2>1, <1>8, <1>9 DEF Abstract!WriteFails, Abstract!Writing, Abstract!Readers, part
<1> QED
  BY <1>9, <1>10 DEF StepIsRight, Abstract!Next

LEMMA WriteSucceedsIsRight ==
    ASSUME IInv, Writing, NEW bytes \in Written, NEW g, NEW m, NEW e, HasWritten(bytes, g, m, e),
           bytes \in Seq(Byte), m.ok, memory' = m.memory, in' = in,
           out' = Sized(Advanced(m.out, Len(bytes))), data' = <<>>,
           UNCHANGED <<free_data, open_count, write_state>>
    PROVE  StepIsRight
<1> DEFINE offset == out.offset
           size == out.size
           n == Len(bytes)
           c == Sized(Advanced(m.out, n))
           w == m.out
<1>1. /\ offset \in Nat /\ size \in Nat /\ offset <= size /\ e \in Nat /\ n \in Nat
      /\ w.size = size /\ w.offset = offset /\ Laid(w) /\ Placed(w) /\ w # NULL
      /\ Owned(m.memory, free_data, in, w) /\ Borrowed(m.memory, in, w) /\ in # NULL
      /\ w.offsets[Count(w) + 1] \in Nat /\ bytes \in Seq(Byte)
  BY Rest
<1>2. e >= offset + n /\ e = w.offsets[Count(w) + 1]
  BY Rest DEF HasWritten
<1>3. c = Sized(Advanced(w, n)) /\ out' = c
  OBVIOUS
<1>4. w.offset + n <= w.offsets[Count(w) + 1]
  <2> HIDE DEF n, offset, w
  <2> QED
    BY <1>1, <1>2
<1> HIDE DEF n, c, w
<1>5. /\ c \in Buffer /\ c.fragments = w.fragments /\ c.offsets = w.offsets
      /\ c.shared_buffer = w.shared_buffer /\ Placed(c) /\ c.offset = w.offset + n
      /\ c.size = IF w.offset + n >= w.size THEN w.offset + n ELSE w.size
  <2>1. Laid(w) /\ Placed(w) /\ n \in Nat
    BY <1>1
  <2> QED
    BY ONLY <2>1, <1>3, <1>4, SizedIs
<1>6. Owned(m.memory, free_data, in, c) /\ Borrowed(m.memory, in, c) /\ c # NULL /\ Laid(c)
  <2> DEFINE mem == m.memory
             b == in
             freep == free_data
  <2>1. /\ b # NULL /\ w # NULL /\ Owned(mem, freep, b, w) /\ Borrowed(mem, b, w)
    BY <1>1
  <2> HIDE DEF mem, b, freep
  <2>2. /\ Owned(mem, freep, b, c) /\ Borrowed(mem, b, c) /\ c # NULL /\ Laid(c)
    BY ONLY <2>1, <1>5, AlikeIs
  <2> QED
    BY <2>2 DEF mem, b, freep
<1>7. /\ c.size = IF out.offset + n >= out.size THEN out.offset + n ELSE out.size
      /\ c.fragments = m.out.fragments /\ c.offsets = m.out.offsets
  BY <1>1, <1>5 DEF w
<1>8. \A place \in 1 .. c.size : out.offset < place =>
               (place <= out.offset + Len(bytes) /\ place <= e <=> place <= out.offset + n)
  <2>1. c.size \in Nat /\ Len(bytes) = n
    BY <1>5 DEF Buffer, n
  <2>2. \A place \in 1 .. c.size : place <= offset + n => place <= e
    <3> HIDE DEF offset
    <3> QED
      BY <2>1, <1>1, <1>2
  <2> QED
    BY <2>1, <2>2
<1>9. Contents(m.memory, c) = Abstract!Overwritten(Contents(memory, out), out.offset, bytes)
  <2> DEFINE part == bytes
  <2>1. /\ part \in Seq(Byte) /\ Len(part) = n /\ n <= Len(bytes) /\ n \in Nat
        /\ \A p \in 1 .. n : part[p] = bytes[p]
        /\ bytes \in Seq(Byte) /\ HasWritten(bytes, g, m, e) /\ Laid(c) /\ Placed(c)
    BY <1>1, <1>5, <1>6 DEF n
  <2> HIDE DEF part
  <2>2. Contents(m.memory, c) = Abstract!Overwritten(Contents(memory, out), out.offset, part)
    BY ONLY <2>1, <1>7, <1>8, ContentsOfWriter
  <2> QED
    BY <2>2 DEF part
<1>10. /\ IInv' /\ UserStays
       /\ Contents(memory, in)' = Contents(memory, in)
       /\ Contents(memory, out)' = Contents(m.memory, c)
  BY <1>1, <1>3, <1>6, WriterHas
<1>11. Abstract!Write
  <2>1. /\ in' = in /\ open_count' = open_count /\ out' # NULL /\ out # NULL
        /\ out'.offset = out.offset + Len(bytes) /\ Contents(memory, out) # NULL
    BY <1>1, <1>3, <1>5, <1>6, Rest DEF n
  <2> QED
    BY <2>1, <1>9, <1>10 DEF Abstract!Write, Abstract!Writing, Abstract!Readers
<1> QED
  BY <1>10, <1>11 DEF StepIsRight, Abstract!Next

LEMMA WriteIsRight ==
    ASSUME IInv, NEW bytes \in Written, NEW left \in Nat, Write(bytes, left)
    PROVE  StepIsRight
<1>1. CASE ~Writing
  BY <1>1, FailsIsRight DEF Write
<1>2. CASE Writing
  <2>1. /\ Becomes(BufferWrite(Memory(left), bytes)) /\ data' = <<>>
        /\ UNCHANGED <<free_data, open_count, write_state>>
    BY <1>2 DEF Write
  <2>2. bytes \in Seq(Byte)
    BY UserAssumption
  <2>3. PICK g, m, e : /\ BufferWrite(Memory(left), bytes) = Finished(m, bytes)
                       /\ HasWritten(bytes, g, m, e)
    BY <1>2, <2>2, WriteLeaves
  <2>4. IsWork(m, free_data) /\ m.in = in
    BY <1>2, <2>2, <2>3, Rest
  <2>5. CASE ~m.ok
    <3>1. memory' = m.memory /\ in' = in /\ out' = m.out
      BY <2>1, <2>3, <2>4, <2>5 DEF Finished, Becomes
    <3> QED
      BY <1>2, <2>1, <2>2, <2>3, <3>1, WriteFailsIsRight
  <2>6. CASE m.ok
    <3> DEFINE c == Sized(Advanced(m.out, Len(bytes)))
    <3>1. Finished(m, bytes) = [m EXCEPT !.out = c]
      BY <2>6 DEF Finished
    <3>2. m = [memory |-> m.memory, in |-> m.in, out |-> m.out, left |-> m.left, ok |-> m.ok]
      BY <2>4 DEF IsWork
    <3> HIDE DEF c
    <3>3. memory' = m.memory /\ in' = in /\ out' = c
      BY <2>1, <2>3, <2>4, <3>1, <3>2 DEF Becomes
    <3>4. out' = Sized(Advanced(m.out, Len(bytes)))
      BY <3>3 DEF c
    <3> QED
      BY <1>2, <2>1, <2>2, <2>3, <2>6, <3>3, <3>4, WriteSucceedsIsRight
  <2> QED
    BY <2>5, <2>6
<1> QED
  BY <1>1, <1>2

(***************************************************************************)
(* The theorems.                                                           *)
(***************************************************************************)

LEMMA InitIsRight ==
    ASSUME Init
    PROVE  IInv /\ Abstract!Init
<1>1. States
  BY DEF Init, States, Exists, Writing
<1>2. Owned(memory, free_data, in, out) /\ Borrowed(memory, in, out)
  BY DEF Init, Owned, Borrowed, HeldBy
<1>3. Contents(memory, in) = NULL /\ Contents(memory, out) = NULL
  BY DEF Init, Contents
<1>4. Abstract!Init
  BY <1>3 DEF Init, Abstract!Init
<1> QED
  BY <1>1, <1>2, <1>4 DEF IInv

LEMMA NextIsRight ==
    ASSUME IInv, Next
    PROVE  StepIsRight
<1>1. ASSUME NEW list \in UserFragments, NEW freep \in BOOLEAN, Create(list, freep)
      PROVE  StepIsRight
  BY <1>1, CreateIsRight
<1>2. ASSUME NEW length \in 0 .. MaxSize + 1, Read(length) PROVE StepIsRight
  BY <1>2, ReadIsRight, SizeAssumption
<1>3. ASSUME NEW s \in Seeks, Seek(s[1], s[2]) \/ SeekWrite(s[1], s[2]) PROVE StepIsRight
  <2> DEFINE offset == s[1]
             whence == s[2]
  <2>1. Seek(offset, whence) \/ SeekWrite(offset, whence)
    BY <1>3
  <2> HIDE DEF offset, whence
  <2> QED
    BY <2>1, SeekIsRight, SeekWriteIsRight
<1>4. ASSUME NEW left \in {0, MaxLeft}, BeginWrite(left) \/ RemoveSource(left) PROVE StepIsRight
  BY <1>4, BeginWriteIsRight, RemoveSourceIsRight
<1>5. ASSUME NEW left \in {0, MaxLeft}, NEW offset \in 0 .. MaxSize + 1, BeginWriteCloning(offset, left)
      PROVE  StepIsRight
  BY <1>5, BeginWriteCloningIsRight, SizeAssumption
<1>6. ASSUME NEW bytes \in Written, NEW left \in 0 .. MaxLeft, Write(bytes, left) PROVE StepIsRight
  BY <1>6, WriteIsRight, SizeAssumption
<1> QED
  BY <1>1, <1>2, <1>3, <1>4, <1>5, <1>6, OpenIsRight, CloseIsRight, CommitWriteIsRight,
     RollbackWriteIsRight, FreeIsRight
     DEF Next

LEMMA StepsAreRight ==
    ASSUME IInv, [Next]_vars
    PROVE  StepIsRight
<1>1. CASE Next
  BY <1>1, NextIsRight
<1>2. CASE UNCHANGED vars
  BY <1>2, FailsIsRight DEF Fails
<1> QED
  BY <1>1, <1>2

\* What the invariant says of the memory.
LEMMA InvariantOwns ==
    ASSUME IInv
    PROVE  MemoryIsOwned
<1>1. Owned(memory, free_data, in, out)
  BY DEF IInv
<1>2. ASSUME NEW b \in Buffers PROVE IsBuffer(memory, free_data, b)
  BY <1>1 DEF Owned, Buffers
<1>3. ASSUME NEW a \in Addresses PROVE memory[a] # CORRUPT
  BY <1>1, NullAssumption DEF Owned
<1>4. ASSUME NEW b \in Buffers, NEW a \in Held(b) PROVE memory[a] # NULL
  <2>1. IsBuffer(memory, free_data, b)
    BY <1>2
  <2>2. PICK i \in 1 .. Count(b) : b.fragments[i].data = a
    BY <2>1, HeldIs DEF IsBuffer
  <2> QED
    BY <2>1, <2>2, NullAssumption DEF IsBuffer, Backed
<1>5. ASSUME NEW a \in Addresses, memory[a] # NULL
      PROVE  (\E b \in Buffers : a \in Held(b)) \/ (memory[a].user /\ ~free_data)
  <2>1. a \in HeldBy(in) \cup HeldBy(out) \/ (memory[a].user /\ ~free_data)
    BY <1>1, <1>5 DEF Owned
  <2>2. \A b \in {in, out} : a \in HeldBy(b) => b \in Buffers /\ a \in Held(b)
    BY DEF HeldBy, Buffers
  <2> QED
    BY <2>1, <2>2
<1>6. ASSUME NEW b \in Buffers, NEW i \in DOMAIN b.fragments, NEW j \in 1 .. i - 1
      PROVE  b.fragments[i].data # b.fragments[j].data
  <2>1. Laid(b) /\ Backed(memory, free_data, b)
    BY <1>2 DEF IsBuffer
  <2>2. DOMAIN b.fragments = 1 .. Count(b) /\ Count(b) \in Nat
    BY <2>1, LaidTypes DEF Laid, Buffer, Count
  <2>3. i \in 1 .. Count(b) /\ j \in 1 .. Count(b) /\ i # j
    BY <2>2
  <2> QED
    BY <2>1, <2>3 DEF Backed
<1> QED
  BY <1>3, <1>4, <1>5, <1>6 DEF MemoryIsOwned

\* The offsets of the fragments, the places of the readers and the writer, and
\* who holds and frees which memory fit together after every call: the
\* inductive invariant of the source that is kept in memory.
THEOREM BuffersFitTogether == Spec => []IInv
<1>1. Init => IInv
  BY InitIsRight
<1>2. IInv /\ [Next]_vars => IInv'
  BY StepsAreRight DEF StepIsRight
<1> QED
  BY <1>1, <1>2, PTL DEF Spec

\* No memory of a fragment is freed while the readers or the writer have it
\* (buffer_free, buffer_is_fragment_shared), none is freed twice and none lost,
\* however often a writer clones, commits or is rolled back, and whichever
\* allocation fails.
THEOREM MemoryAlwaysOwned == Spec => []MemoryIsOwned
<1>1. IInv => MemoryIsOwned
  BY InvariantOwns
<1> QED
  BY <1>1, BuffersFitTogether, PTL

\* buffer_write never changes the bytes that the user made the source of: it
\* writes into a copy (buffer_make_fragment_writable), and only a source that
\* was given the memory frees it.
THEOREM UserMemoryStays == Spec => UserMemoryUntouched
<1>1. IInv /\ [Next]_vars => [UserStays]_vars
  BY StepsAreRight DEF StepIsRight
<1>2. UserStays => \A a \in Addresses :
          (memory[a] # NULL /\ memory[a].user) =>
              (memory'[a] = memory[a] \/ (free_data /\ memory'[a] = NULL))
  BY DEF UserStays
<1>3. IInv /\ [Next]_vars =>
        [\A a \in Addresses :
          (memory[a] # NULL /\ memory[a].user) =>
              (memory'[a] = memory[a] \/ (free_data /\ memory'[a] = NULL))]_vars
  BY <1>1, <1>2
<1> QED
  BY <1>3, BuffersFitTogether, PTL DEF Spec, UserMemoryUntouched

\* A source that is kept in memory is the sequence of bytes of ByteSource: what
\* is read is what is there, the readers see nothing of a writer before its
\* commit, a writer that clones starts with what the readers have, and one that
\* runs out of memory has put no byte where it does not belong.
THEOREM BufferIsByteSource == Spec => ImplementsByteSource
<1>1. Init => Abstract!Init
  BY InitIsRight
<1>2. IInv /\ [Next]_vars => [Abstract!Next]_(Abstract!vars)
  BY StepsAreRight DEF StepIsRight
<1> QED
  BY <1>1, <1>2, BuffersFitTogether, PTL DEF Spec, ImplementsByteSource, Abstract!Spec

=============================================================================
