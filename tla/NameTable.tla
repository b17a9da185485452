----------------------------- MODULE NameTable -----------------------------
(***************************************************************************)
(* The name table as the archive object uses it: a map from names to two   *)
(* indices that is changed by one operation of NameHash at a time.         *)
(***************************************************************************)
EXTENDS NameHash

CONSTANTS Names, Indices

VARIABLE h

Init == h = [n \in Names |-> NoNode]

Add(n, i) == HashCanAdd(h, n) /\ h' = HashAdd(h, n, i)

AddOriginal(n, i) == h' = HashAddOriginal(h, n, i)

Delete(n) == HashCanDelete(h, n) /\ h' = HashDelete(h, n)

Revert == h' = HashRevert(h)

Next ==
    \/ \E n \in Names, i \in Indices : Add(n, i) \/ AddOriginal(n, i)
    \/ \E n \in Names : Delete(n)
    \/ Revert

Spec == Init /\ [][Next]_h

=============================================================================
