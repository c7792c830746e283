--------------------------- MODULE MCInstallation ---------------------------
(* Two process ids, used by up to three processes, and three releases.    *)
EXTENDS Installation, TLC

CONSTANTS p1, p2

McPids == {p1, p2}
Interchangeable == Permutations(McPids)
=============================================================================
