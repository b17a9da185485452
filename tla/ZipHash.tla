------------------------------ MODULE ZipHash ------------------------------
(***************************************************************************)
(* The archive's name table as lib/zip_hash.c keeps it: a table of chains  *)
(* that doubles and halves with the number of its nodes.  The operations   *)
(* change the table as NameTable says, as long as no change of its size    *)
(* has failed in the middle of one, which is bounded to happen once.  An   *)
(* allocation that fails earlier changes nothing.                          *)
(*                                                                         *)
(* A name stands for the string and for the pointer to it that a node      *)
(* keeps: its owner frees the string only after the name was deleted.      *)
(***************************************************************************)
EXTENDS NameHash, SequencesExt

CONSTANTS
    Names,
    Hash,      \* siphash of each name, with the table's key
    Indices,   \* of entries
    MinSize,   \* HASH_MIN_SIZE
    MaxSize,   \* HASH_MAX_SIZE
    MaxFill,   \* HASH_MAX_FILL and HASH_MIN_FILL, in percent
    MinFill

ASSUME HashAssumption == Hash \in [Names -> Nat]

ASSUME IndicesAssumption == Indices \subseteq Nat

\* The sizes a table can have are the powers of two.
Sizes == {s \in 1..MaxSize : \E k \in 0..s : s = 2^k}

ASSUME SizeAssumption ==
    /\ MaxSize \in Nat /\ MaxSize \in Sizes /\ MinSize \in Sizes
    /\ MaxFill \in 1..100 /\ MinFill \in 0..MaxFill

VARIABLES
    table_size,
    table,          \* the chain of each bucket
    nentries,
    resize_failed   \* an operation was left half done

vars == <<table_size, table, nentries, resize_failed>>

Node == [name : Names, orig_index : Indices \cup {NoIndex},
         current_index : Indices \cup {NoIndex}]

Buckets == 0..(table_size - 1)

\* The nodes of a table of some size, bucket by bucket.
AllNodes(size, t) == FlattenSeq([k \in 1..size |-> t[k - 1]])

Nodes == ToSet(AllNodes(table_size, table))

Init ==
    /\ table_size = 0 /\ table = <<>> /\ nentries = 0
    /\ resize_failed = FALSE

\* hash_resize: every node goes to the front of its new bucket, b.
Moved(nodes, new_size, b) ==
    LET FromLast(k) == nodes[Len(nodes) + 1 - k]
    IN FlattenSeq([k \in DOMAIN nodes |->
           IF Hash[FromLast(k).name] % new_size = b THEN <<FromLast(k)>> ELSE <<>>])

Resized(size, t, new_size) ==
    [b \in 0..(new_size - 1) |-> Moved(AllNodes(size, t), new_size, b)]

Resize(size, t, new_size) ==
    /\ table_size' = new_size
    /\ table' = Resized(size, t, new_size)

\* The first name that is added gives the table its first buckets.
FirstSize == IF table_size = 0 THEN MinSize ELSE table_size
FirstTable == IF table_size = 0 THEN Resized(0, <<>>, MinSize) ELSE table

Keep(size, t) == table_size' = size /\ table' = t

\* The bucket that a name belongs to.
Bucket(n) == Hash[n] % table_size

Has(chain, n) == \E k \in DOMAIN chain : chain[k].name = n
At(chain, n) == CHOOSE k \in DOMAIN chain : chain[k].name = n

NodeOf(n) == table[Bucket(n)][At(table[Bucket(n)], n)]

\* The search of _zip_hash_lookup and _zip_hash_delete.
HasNode(n) == nentries > 0 /\ Has(table[Bucket(n)], n)

\* What the two indices of a name are.
IndicesOf(n) ==
    IF ~HasNode(n) THEN NoNode
    ELSE [orig_index |-> NodeOf(n).orig_index, current_index |-> NodeOf(n).current_index]

\* The table, once the node of n holds what e says.
WithNode(n, e) == [table EXCEPT ![Bucket(n)][At(table[Bucket(n)], n)] = e]

(***************************************************************************)
(* _zip_hash_add.                                                          *)
(***************************************************************************)

\* There is memory for the first buckets, but not for a node.
FirstBuckets ==
    /\ table_size = 0
    /\ Keep(FirstSize, FirstTable)
    /\ UNCHANGED <<nentries, resize_failed>>

\* The search of _zip_hash_add, in a table with buckets.
FindsNode(n) == table_size > 0 /\ Has(table[Bucket(n)], n)

\* The name is in use.
Exists(n, unchanged) ==
    \/ unchanged /\ IndicesOf(n).orig_index # NoIndex
    \/ IndicesOf(n).current_index # NoIndex

WithIndex(e, i, unchanged) ==
    [e EXCEPT !.orig_index = IF unchanged THEN i ELSE e.orig_index, !.current_index = i]

\* The name has a node already, whose entry was deleted or renamed.
AddToNode(n, i, unchanged) ==
    /\ FindsNode(n)
    /\ ~Exists(n, unchanged)
    /\ table' = WithNode(n, WithIndex(NodeOf(n), i, unchanged))
    /\ UNCHANGED <<table_size, nentries, resize_failed>>

IsFull(count) == count * 100 > FirstSize * MaxFill /\ FirstSize < MaxSize

\* A new node, at the front of its chain.
Inserted(e) == [FirstTable EXCEPT ![Hash[e.name] % FirstSize] = <<e>> \o @]

NewNode(n, i, unchanged) ==
    WithIndex([name |-> n, orig_index |-> NoIndex, current_index |-> NoIndex], i, unchanged)

AddNode(n, i, unchanged) ==
    /\ ~FindsNode(n)
    /\ nentries' = nentries + 1
    /\ IF IsFull(nentries + 1)
         THEN Resize(FirstSize, Inserted(NewNode(n, i, unchanged)), FirstSize * 2)
         ELSE Keep(FirstSize, Inserted(NewNode(n, i, unchanged)))
    /\ UNCHANGED resize_failed

\* The table cannot grow: the call fails, but the node is in the table, and its
\* current_index was never written.
AddNodeFails(n) ==
    /\ ~FindsNode(n) /\ ~resize_failed
    /\ IsFull(nentries + 1)
    /\ nentries' = nentries + 1
    /\ \E garbage \in Indices \cup {NoIndex} :
          Keep(FirstSize, Inserted([name |-> n, orig_index |-> NoIndex,
                                    current_index |-> garbage]))
    /\ resize_failed' = TRUE

(***************************************************************************)
(* _zip_hash_delete.                                                       *)
(***************************************************************************)

\* The name is in the table as it was opened.
DeleteIndex(n) ==
    /\ HasNode(n)
    /\ IndicesOf(n).orig_index # NoIndex
    /\ table' = WithNode(n, [NodeOf(n) EXCEPT !.current_index = NoIndex])
    /\ UNCHANGED <<table_size, nentries, resize_failed>>

\* Faulty variant: without a previous node the chain is cut off.
UnlinkedCutsOff(chain, k) == SubSeq(chain, 1, k - 1)

Unlinked(chain, k) == RemoveAt(chain, k)

Removed(n) == [table EXCEPT ![Bucket(n)] = Unlinked(@, At(@, n))]

IsSparse(size, count) == count * 100 < size * MinFill /\ size > MinSize

\* The node is freed; when the table cannot shrink the call fails all the same.
DeleteNode(n) ==
    /\ HasNode(n)
    /\ IndicesOf(n).orig_index = NoIndex
    /\ nentries' = nentries - 1
    /\ \/ ~IsSparse(table_size, nentries') /\ Keep(table_size, Removed(n))
          /\ UNCHANGED resize_failed
       \/ IsSparse(table_size, nentries')
          /\ \/ Resize(table_size, Removed(n), table_size \div 2) /\ UNCHANGED resize_failed
             \/ ~resize_failed /\ Keep(table_size, Removed(n)) /\ resize_failed' = TRUE

(***************************************************************************)
(* _zip_hash_revert and _zip_hash_reserve_capacity.                        *)
(***************************************************************************)

\* Nodes of names that were added are freed.
RevertedChain(chain) ==
    FlattenSeq([k \in DOMAIN chain |->
        IF chain[k].orig_index = NoIndex THEN <<>>
        ELSE <<[chain[k] EXCEPT !.current_index = chain[k].orig_index]>>])

Reverted == [b \in Buckets |-> RevertedChain(table[b])]

\* Half the size, or less, until the nodes fill it.
ShrunkSize(count) == Max({s \in Sizes : s < table_size /\ ~IsSparse(s, count)})

Revert ==
    /\ nentries' = nentries - Cardinality({e \in Nodes : e.orig_index = NoIndex})
    /\ \/ ~IsSparse(table_size, nentries') /\ Keep(table_size, Reverted)
          /\ UNCHANGED resize_failed
       \/ IsSparse(table_size, nentries')
          /\ \/ Resize(table_size, Reverted, ShrunkSize(nentries')) /\ UNCHANGED resize_failed
             \/ ~resize_failed /\ Keep(table_size, Reverted) /\ resize_failed' = TRUE

\* size_for_capacity, which may give less than MinSize.
SizeForCapacity(capacity) ==
    LET needed == (capacity * 100) \div MaxFill
    IN IF needed > MaxSize THEN MaxSize ELSE Min({s \in Sizes : s >= needed})

\* zip_open reserves room in a new table for its entries.
ReserveCapacity(capacity) ==
    /\ capacity > 0 /\ nentries = 0
    /\ SizeForCapacity(capacity) > table_size
    /\ Resize(table_size, table, SizeForCapacity(capacity))
    /\ UNCHANGED <<nentries, resize_failed>>

Next ==
    \/ FirstBuckets
    \/ \E n \in Names, i \in Indices :
          \E unchanged \in BOOLEAN : AddToNode(n, i, unchanged) \/ AddNode(n, i, unchanged)
    \/ \E n \in Names : AddNodeFails(n) \/ DeleteIndex(n) \/ DeleteNode(n)
    \/ Revert
    \/ \E capacity \in 0..Cardinality(Names) : ReserveCapacity(capacity)

Spec == Init /\ [][Next]_vars

(***************************************************************************)
(* Properties.                                                             *)
(***************************************************************************)

TypeOK ==
    /\ table_size \in Sizes \cup {0}
    /\ DOMAIN table = Buckets
    /\ \A b \in Buckets : table[b] \in Seq(Node)
    /\ nentries \in 0..Cardinality(Names)
    /\ resize_failed \in BOOLEAN

\* Lookups see the map of NameTable: no operation loses a name, finds one in
\* the wrong node or keeps a freed one, whatever collides and however often
\* the table grows and shrinks.  Operations that fail because there is no
\* memory to change the size are the exception.
T == INSTANCE NameTable WITH h <- [n \in Names |-> IndicesOf(n)]

ImplementsNameTable ==
    T!Init /\ [][resize_failed' \/ T!Next]_<<[n \in Names |-> IndicesOf(n)]>>

=============================================================================
