--------------------------- MODULE MCFolderStore ---------------------------
(* Instances of FolderStore for TLC.                                       *)
EXTENDS FolderStore, TLC

CONSTANTS d1, d2, w1, w2

\* Threads are alike, and so are the domains of one folder.
FolderSymmetry == Permutations({d1, d2}) \cup Permutations({w1, w2})
=============================================================================
