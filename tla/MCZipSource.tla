---------------------------- MODULE MCZipSource ----------------------------
(***************************************************************************)
(* Instances of ZipSource for TLC.                                         *)
(***************************************************************************)
EXTENDS ZipSource, TLC

\* Sources that cannot be written or cannot seek are the layers and windows
\* over those that can.
Files == {{"SEEK", "WRITE"}}

Symmetry == Permutations(Ids) \cup Permutations(Archives)
=============================================================================
