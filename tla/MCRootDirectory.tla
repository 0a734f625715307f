-------------------------- MODULE MCRootDirectory --------------------------
(* Four names and four inodes, all alike, and a name that is too long.      *)
EXTENDS RootDirectory, TLC

CONSTANTS a, b, c, d, long, i1, i2, i3, i4

Symmetry == Permutations({a, b, c, d}) \cup Permutations({i1, i2, i3, i4})
=============================================================================
