------------------------------ MODULE NameMap ------------------------------
(***************************************************************************)
(* What the root directory of the a3 file system promises: a map from      *)
(* names to the sectors of inodes.  A name stands for at most one inode,   *)
(* opening a name finds the inode it was created with, and a listing shows *)
(* every name once.                                                        *)
(***************************************************************************)
EXTENDS Naturals, Sequences

CONSTANTS Name, Sector, None

VARIABLES
  file,      \* the inode sector of each name, None if there is no such file
  result,    \* the sector that the last name opened led to
  listing,   \* a listing is under way
  shown      \* the names it has shown

vars == <<file, result, listing, shown>>

Files == {n \in Name : file[n] # None}
Shown == {shown[i] : i \in 1 .. Len(shown)}

Init ==
  /\ file = [n \in Name |-> None] /\ result = None
  /\ listing = FALSE /\ shown = <<>>

Add(n, s) ==
  /\ ~listing /\ n \notin Files
  /\ file' = [file EXCEPT ![n] = s]
  /\ UNCHANGED <<result, listing, shown>>

Remove(n) ==
  /\ ~listing
  /\ file' = [file EXCEPT ![n] = None]
  /\ UNCHANGED <<result, listing, shown>>

Open(n) == result' = file[n] /\ UNCHANGED <<file, listing, shown>>

StartListing == ~listing /\ listing' = TRUE /\ UNCHANGED <<file, result, shown>>

Show(n) ==
  /\ listing /\ n \in Files \ Shown
  /\ shown' = Append(shown, n)
  /\ UNCHANGED <<file, result, listing>>

EndListing ==
  /\ listing /\ Shown = Files
  /\ listing' = FALSE /\ shown' = <<>>
  /\ UNCHANGED <<file, result>>

Next ==
  \/ \E n \in Name : \/ \E s \in Sector : Add(n, s)
                     \/ Remove(n) \/ Open(n) \/ Show(n)
  \/ StartListing \/ EndListing

Spec == Init /\ [][Next]_vars
=============================================================================
