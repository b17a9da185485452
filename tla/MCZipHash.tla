----------------------------- MODULE MCZipHash -----------------------------
(***************************************************************************)
(* Instances of ZipHash for TLC.                                           *)
(***************************************************************************)
EXTENDS ZipHash

CONSTANTS a, b, c, d

\* a and b collide in every table, c and a until the table has four buckets, d
\* and a until it has eight.
MCHash == [n \in Names |-> CASE n = a -> 1 [] n = b -> 17 [] n = c -> 3 [] n = d -> 5]
=============================================================================
