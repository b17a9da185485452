------------------------------ MODULE NameHash ------------------------------
(***************************************************************************)
(* What the archive's name table (lib/zip_hash.c) does, without buckets,   *)
(* chains or sizes: each name carries two indices, the index the name had  *)
(* when the archive was opened and the index it has now.  A node of the    *)
(* table whose two indices are both NoIndex has been freed, so a total     *)
(* function over the names stands for the set of nodes.  ZipHash refines   *)
(* these operators down to the chained table.                              *)
(***************************************************************************)
EXTENDS Integers

\* The -1 that zip_hash.c stores for "no such index".
NoIndex == -1

\* A name without a node in the table.
NoNode == [orig_index |-> NoIndex, current_index |-> NoIndex]

\* _zip_hash_lookup with flags 0.
HashLookup(h, n) == h[n].current_index

\* _zip_hash_add with flags 0 refuses a name that is in use.
HashCanAdd(h, n) == h[n].current_index = NoIndex

HashAdd(h, n, i) == [h EXCEPT ![n].current_index = i]

\* _zip_hash_add with ZIP_FL_UNCHANGED, as _zip_open calls it for each entry:
\* the name gets both indices, and a second entry of that name is refused.
HashAddOriginal(h, n, i) ==
    IF h[n] = NoNode
      THEN [h EXCEPT ![n] = [orig_index |-> i, current_index |-> i]]
      ELSE h

\* _zip_hash_delete fails for a name without a node.
HashCanDelete(h, n) == h[n] # NoNode

\* Faulty variant: the node is freed whether or not it has an original index.
HashDeleteForgetsOriginal(h, n) == [h EXCEPT ![n] = NoNode]

\* A node that has an original index stays in the table for _zip_hash_revert.
HashDelete(h, n) == [h EXCEPT ![n].current_index = NoIndex]

\* Faulty variant: nodes of added names are freed, the others are not reset.
HashRevertOnlyFrees(h) ==
    [n \in DOMAIN h |-> IF h[n].orig_index = NoIndex THEN NoNode ELSE h[n]]

\* _zip_hash_revert
HashRevert(h) == [n \in DOMAIN h |-> [h[n] EXCEPT !.current_index = h[n].orig_index]]
=============================================================================
