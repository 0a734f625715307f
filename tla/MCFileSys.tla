----------------------------- MODULE MCFileSys -----------------------------
(* Small disks for FileSys.  The names are interchangeable. *)
EXTENDS FileSys, TLC
CONSTANTS a, b
NameSymmetry == Permutations(Name)

\* The sectors an inode leads to, whatever its length: a failed extension collects
\* some in memory, from which a later write goes on.
Targets(S) ==
  UNION {{disk[s].ptr[k] : k \in 0 .. P - 1} : s \in {i \in S : disk[i].kind = "index"}}
Collected(inode) ==
  LET top == {inode.indirect, inode.doubly}
  IN  {inode.direct[k] : k \in 0 .. D - 1} \cup top \cup Targets(top)
        \cup Targets(Targets({inode.doubly}))
Reached ==
  LET inodes == {s \in {dir[n] : n \in Files} : disk[s].kind = "inode"}
  IN  SystemSectors \cup {dir[n] : n \in Files}
        \cup UNION {Collected(disk[s]) : s \in inodes}
        \cup UNION {Collected(open_inodes[s]) : s \in DOMAIN open_inodes}

\* Bound: behaviours are followed until more than MaxLeaked sectors are lost for good.
MaxLeaked == 1
LeakBound == Cardinality(free_map \ Reached) <= MaxLeaked
=============================================================================
