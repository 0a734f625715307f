------------------------ MODULE RootDirectoryProofs ------------------------
(***************************************************************************)
(* Proofs about the root directory, for any names, any sectors, any size   *)
(* of a new directory and any bound on its growth: the type invariant, the *)
(* balance of openers and closers, and the refinement of NameMap.          *)
(*                                                                         *)
(* None of the three is inductive alone.  A name leads to one inode only   *)
(* because no two used slots have the same name; a listing shows a name    *)
(* once only because what it has shown are the names before its position;  *)
(* and the position is kept while the body of the loop opens files only    *)
(* because cwd is the loop's struct dir, opened once.                      *)
(***************************************************************************)
EXTENDS RootDirectory, NatLemmas, FiniteSetTheorems

\* Every step uses the constants' assumptions.
USE SlotAssumption, NoneAssumption

-----------------------------------------------------------------------------
(* The inductive invariant.                                                 *)

Entry == [name : Name, sector : Sector, in_use : BOOLEAN]
AnyEntry == [name : Name \cup {None}, sector : Sector \cup {None, ROOT_DIR_SECTOR},
             in_use : BOOLEAN]

\* An array of slots that begins with the parent's (dir_create, dir_add).
GoodSlots(sl) ==
  \E k \in Nat \ {0} :
    /\ sl \in [0 .. k - 1 -> AnyEntry]
    /\ sl[0] = Parent
    /\ \A i \in 1 .. k - 1 : sl[i] = Unused \/ sl[i] \in Entry

\* No name is in two used slots: dir_add looks first (dir_add, lookup).
UniqueNames(sl) ==
  \A i, j \in DOMAIN sl \ {0} :
    sl[i].in_use /\ sl[j].in_use /\ sl[i].name = sl[j].name => i = j

SlotsOK == GoodSlots(slot) /\ UniqueNames(slot)

\* No struct dir is allocated and the inode is not in memory.
AtRest == [cwd |-> 0, inode |-> FALSE, dirs |-> [h \in 1 .. 2 |-> Freed]]

\* Struct d is cwd, opened once, at position p.
Held(d, p) ==
  [cwd |-> d, inode |-> TRUE,
   dirs |-> [h \in 1 .. 2 |->
               IF h = d THEN [pos |-> p, open_cnt |-> 1, valid |-> TRUE] ELSE Freed]]

\* Struct d is still allocated, but cwd was cleared and the inode freed.
Orphan(d, p) ==
  [cwd |-> 0, inode |-> FALSE,
   dirs |-> [h \in 1 .. 2 |->
               IF h = d THEN [pos |-> p, open_cnt |-> 1, valid |-> FALSE] ELSE Freed]]

\* A loop holds its struct dir, which only the body of a removing loop can take
\* away from it (dir_open_root, dir_reopen, dir_close).
LoopHolds ==
  /\ loop.kind = "none" => loop = NoLoop /\ handles = AtRest
  /\ loop.kind # "none" =>
       /\ loop.dir \in 1 .. 2
       /\ \E p \in Nat \ {0} :
            \/ handles = Held(loop.dir, p)
            \/ loop.kind = "remove" /\ loop.name = None /\ handles = Orphan(loop.dir, p)

ShownNames == {shown[i] : i \in 1 .. Len(shown)}
NamesBefore(p) ==
  {slot[i].name : i \in {j \in DOMAIN slot : j >= 1 /\ j < p /\ slot[j].in_use}}

\* A listing has shown the names of the used slots before its position.
ShownSoFar ==
  /\ shown \in Seq(Name)
  /\ IF loop.kind \in {"list", "open"}
     THEN ShownNames = NamesBefore(handles.dirs[loop.dir].pos)
     ELSE shown = <<>>

LoopType ==
  /\ loop \in [kind : {"none", "list", "open", "remove"}, dir : 0 .. 2,
               name : Name \cup {None}]
  /\ opened \in Sector \cup {None}

IInv == SlotsOK /\ LoopType /\ LoopHolds /\ ShownSoFar

-----------------------------------------------------------------------------
(* Handles: what opening and closing the directory amounts to in the states *)
(* that occur.                                                              *)


DirStruct == [pos : Nat, open_cnt : Nat, valid : BOOLEAN]
Handles == [cwd : 0 .. 2, dirs : [1 .. 2 -> DirStruct], inode : BOOLEAN]

\* A struct dir as dir_open makes it.
Fresh == [pos |-> 1, open_cnt |-> 1, valid |-> TRUE]

\* A struct dir after a change of one field.
LEMMA DirStructFields ==
  ASSUME NEW s \in DirStruct, NEW c \in Nat
  PROVE  /\ [s EXCEPT !.valid = FALSE] =
              [pos |-> s.pos, open_cnt |-> s.open_cnt, valid |-> FALSE]
         /\ [s EXCEPT !.open_cnt = c] = [pos |-> s.pos, open_cnt |-> c, valid |-> s.valid]
<1> DEFINE a == [s EXCEPT !.valid = FALSE]
           b == [s EXCEPT !.open_cnt = c]
<1>1. a \in DirStruct /\ a.pos = s.pos /\ a.open_cnt = s.open_cnt /\ a.valid = FALSE
  BY DEF DirStruct
<1>2. b \in DirStruct /\ b.pos = s.pos /\ b.open_cnt = c /\ b.valid = s.valid
  BY DEF DirStruct
<1> HIDE DEF a, b
<1>3. a = [pos |-> a.pos, open_cnt |-> a.open_cnt, valid |-> a.valid]
  BY <1>1, Zenon DEF DirStruct
<1>4. b = [pos |-> b.pos, open_cnt |-> b.open_cnt, valid |-> b.valid]
  BY <1>2, Zenon DEF DirStruct
<1> QED
  BY <1>1, <1>2, <1>3, <1>4, Zenon DEF a, b

\* The fields of the three states that handles can be in.
LEMMA AtRestFields ==
  /\ AtRest \in Handles
  /\ AtRest.cwd = 0 /\ AtRest.inode = FALSE
  /\ AtRest.dirs = [h \in 1 .. 2 |-> Freed]
  BY DEF AtRest, Handles, DirStruct, Freed

\* One structure d is open, at position p, and is the current directory.
LEMMA HeldFields ==
  ASSUME NEW d \in 1 .. 2, NEW p \in Nat
  PROVE  /\ Held(d, p) \in Handles
         /\ Held(d, p).cwd = d /\ Held(d, p).inode = TRUE
         /\ Held(d, p).dirs =
              [h \in 1 .. 2 |->
                 IF h = d THEN [pos |-> p, open_cnt |-> 1, valid |-> TRUE] ELSE Freed]
  BY DEF Held, Handles, DirStruct, Freed

\* One structure is open that nothing refers to any more.
LEMMA OrphanFields ==
  ASSUME NEW d \in 1 .. 2, NEW p \in Nat
  PROVE  /\ Orphan(d, p) \in Handles
         /\ Orphan(d, p).cwd = 0 /\ Orphan(d, p).inode = FALSE
         /\ Orphan(d, p).dirs =
              [h \in 1 .. 2 |->
                 IF h = d THEN [pos |-> p, open_cnt |-> 1, valid |-> FALSE] ELSE Freed]
  BY DEF Orphan, Handles, DirStruct, Freed

\* dir_open fills one struct dir and reads the inode.
LEMMA OpenFields ==
  ASSUME NEW hs \in Handles, NEW h \in 1 .. 2
  PROVE  /\ dir_open(hs, h) \in Handles
         /\ dir_open(hs, h).cwd = hs.cwd /\ dir_open(hs, h).inode = TRUE
         /\ dir_open(hs, h).dirs = [hs.dirs EXCEPT ![h] = Fresh]
  BY DEF dir_open, Handles, DirStruct, Fresh

\* The close of a struct dir that was opened once frees it and the inode.
LEMMA LastClose ==
  ASSUME NEW hs \in Handles, NEW h \in 1 .. 2, hs.dirs[h].open_cnt = 1
  PROVE  dir_close(hs, h) =
           [cwd |-> 0, inode |-> FALSE,
            dirs |-> [g \in 1 .. 2 |->
                        IF g = h THEN Freed ELSE [hs.dirs[g] EXCEPT !.valid = FALSE]]]
<1>1. DOMAIN hs.dirs = 1 .. 2
  BY DEF Handles
<1>2. ~(hs.dirs[h].open_cnt > 1)
  OBVIOUS
<1> QED
  BY <1>1, <1>2, Zenon DEF dir_close

\* The first opener of the directory gets a struct dir at the first entry.
LEMMA OpenAtRest ==
  \E d \in 1 .. 2 : dir_open_root(AtRest) = Held(d, 1)
<1> DEFINE d == NewHandle(AtRest)
           o == dir_open(AtRest, d)
<1>1. d \in 1 .. 2
  BY DEF NewHandle, AtRest
<1> HIDE DEF d
<1>2. /\ o \in Handles /\ o.inode = TRUE
      /\ o.dirs = [h \in 1 .. 2 |-> IF h = d THEN Fresh ELSE Freed]
  <2>1. o \in Handles /\ o.inode = TRUE /\ o.dirs = [AtRest.dirs EXCEPT ![d] = Fresh]
    BY <1>1, OpenFields, AtRestFields
  <2> HIDE DEF o
  <2> QED
    BY <2>1, <1>1, AtRestFields
<1> HIDE DEF o
<1>3. [o EXCEPT !.cwd = d] = [cwd |-> d, dirs |-> o.dirs, inode |-> o.inode]
  BY <1>1, <1>2 DEF Handles
<1>4. [o EXCEPT !.cwd = d] = Held(d, 1)
  BY <1>2, <1>3 DEF Held, Fresh
<1>5. dir_open_root(AtRest) = [o EXCEPT !.cwd = d]
  BY AtRestFields, Zenon DEF dir_open_root, o, d
<1> QED
  BY <1>1, <1>4, <1>5

\* The last closer leaves nothing of the directory in memory.
LEMMA CloseHeld ==
  ASSUME NEW d \in 1 .. 2, NEW p \in Nat
  PROVE  dir_close(Held(d, p), d) = AtRest
<1>1. PICK hs \in Handles : hs = Held(d, p)
  BY HeldFields
<1>2. hs.dirs = [h \in 1 .. 2 |->
                   IF h = d THEN [pos |-> p, open_cnt |-> 1, valid |-> TRUE] ELSE Freed]
  BY <1>1, HeldFields
<1>3. hs.dirs[d].open_cnt = 1
  BY <1>2
<1>4. ASSUME NEW g \in 1 .. 2 \ {d}
      PROVE  [hs.dirs[g] EXCEPT !.valid = FALSE] = Freed
  <2>1. hs.dirs[g] = Freed /\ Freed \in DirStruct
    BY <1>2 DEF Freed, DirStruct
  <2> QED
    BY <2>1, DirStructFields DEF Freed
<1>5. [g \in 1 .. 2 |-> IF g = d THEN Freed ELSE [hs.dirs[g] EXCEPT !.valid = FALSE]]
        = [g \in 1 .. 2 |-> Freed]
  BY <1>4, Zenon
<1>6. dir_close(hs, d) =
        [cwd |-> 0, inode |-> FALSE,
         dirs |-> [g \in 1 .. 2 |->
                     IF g = d THEN Freed ELSE [hs.dirs[g] EXCEPT !.valid = FALSE]]]
  BY <1>3, LastClose
<1>7. dir_close(hs, d) = AtRest
  BY <1>5, <1>6, Zenon DEF AtRest
<1> QED
  BY <1>1, <1>7

\* A command that opens the directory by itself leaves nothing behind.
LEMMA ByRootAtRest == ByRoot(AtRest) = AtRest
<1>1. PICK d \in 1 .. 2 : dir_open_root(AtRest) = Held(d, 1)
  BY OpenAtRest
<1>2. Held(d, 1).cwd = d /\ dir_close(Held(d, 1), d) = AtRest
  BY HeldFields, CloseHeld
<1> QED
  BY <1>1, <1>2, Zenon DEF ByRoot

\* Nor does a command that opens it by a path.
LEMMA ByPathAtRest == ByPath(AtRest) = AtRest
  BY ByRootAtRest, AtRestFields, Zenon DEF ByPath

\* A command inside a loop opens and closes the loop's struct dir once more,
\* and keeps its position.
LEMMA ByRootHeld ==
  ASSUME NEW d \in 1 .. 2, NEW p \in Nat
  PROVE  ByRoot(Held(d, p)) = Held(d, p)
<1>1. PICK hs \in Handles : hs = Held(d, p)
  BY HeldFields
<1>2. /\ hs.cwd = d /\ hs.inode = TRUE
      /\ hs.dirs = [h \in 1 .. 2 |->
                      IF h = d THEN [pos |-> p, open_cnt |-> 1, valid |-> TRUE] ELSE Freed]
  BY <1>1, HeldFields
<1>3. hs.dirs[d] \in DirStruct /\ d # 0 /\ 1 + 1 = 2 /\ 2 - 1 = 1 /\ 2 > 1
  BY DEF Handles
<1> DEFINE two == [hs EXCEPT !.dirs[d].open_cnt = 2]
           one == [two EXCEPT !.dirs[d].open_cnt = 1]
<1>4. dir_open_root(hs) = two
  <2>1. hs.dirs[d].open_cnt + 1 = 2
    BY <1>2
  <2> QED
    BY <1>2, <1>3, <2>1, Zenon DEF dir_open_root
<1>5. /\ two \in Handles /\ two.cwd = d /\ two.inode = TRUE
      /\ two.dirs = [hs.dirs EXCEPT ![d] = [hs.dirs[d] EXCEPT !.open_cnt = 2]]
  BY <1>2, <1>3 DEF Handles, DirStruct
<1> HIDE DEF two
<1>6. two.dirs = [hs.dirs EXCEPT ![d] = [pos |-> p, open_cnt |-> 2, valid |-> TRUE]]
  <2>1. hs.dirs[d].pos = p /\ hs.dirs[d].valid = TRUE
    BY <1>2
  <2>2. [hs.dirs[d] EXCEPT !.open_cnt = 2] =
          [pos |-> hs.dirs[d].pos, open_cnt |-> 2, valid |-> hs.dirs[d].valid]
    BY <1>3, DirStructFields
  <2> QED
    BY <1>5, <2>1, <2>2, Zenon
<1>7. two.dirs[d] = [pos |-> p, open_cnt |-> 2, valid |-> TRUE] /\ two.dirs[d] \in DirStruct
  BY <1>2, <1>6 DEF DirStruct
<1>8. dir_close(two, d) = one
  <2>1. two.dirs[d].open_cnt > 1 /\ two.dirs[d].open_cnt - 1 = 1
    BY <1>7
  <2> QED
    BY <2>1, Zenon DEF dir_close
<1>9. /\ one \in Handles /\ one.cwd = d /\ one.inode = TRUE
      /\ one.dirs = [two.dirs EXCEPT ![d] = [two.dirs[d] EXCEPT !.open_cnt = 1]]
  BY <1>5, <1>7 DEF Handles, DirStruct
<1> HIDE DEF one
<1>10. one.dirs = [two.dirs EXCEPT ![d] = hs.dirs[d]]
  <2>1. /\ hs.dirs[d] = [pos |-> p, open_cnt |-> 1, valid |-> TRUE]
        /\ two.dirs[d].pos = p /\ two.dirs[d].valid = TRUE
    BY <1>2, <1>7
  <2>2. [two.dirs[d] EXCEPT !.open_cnt = 1] =
          [pos |-> two.dirs[d].pos, open_cnt |-> 1, valid |-> two.dirs[d].valid]
    BY <1>7, DirStructFields
  <2> QED
    BY <1>9, <2>1, <2>2, Zenon
<1>11. one.dirs = hs.dirs
  BY <1>6, <1>10 DEF Handles
<1>12. one = hs
  <2>1. one = [cwd |-> one.cwd, dirs |-> one.dirs, inode |-> one.inode]
    BY <1>9, Zenon DEF Handles
  <2>2. hs = [cwd |-> hs.cwd, dirs |-> hs.dirs, inode |-> hs.inode]
    BY Zenon DEF Handles
  <2> QED
    BY <1>2, <1>9, <1>11, <2>1, <2>2, Zenon
<1> QED
  BY <1>1, <1>4, <1>5, <1>8, <1>12, Zenon DEF ByRoot

\* A removal inside a loop frees the inode under the loop's struct dir.
LEMMA ByPathHeld ==
  ASSUME NEW d \in 1 .. 2, NEW p \in Nat
  PROVE  ByPath(Held(d, p)) = Orphan(d, p)
<1>1. PICK hs \in Handles : hs = Held(d, p)
  BY HeldFields
<1>2. /\ hs.cwd = d
      /\ hs.dirs = [h \in 1 .. 2 |->
                      IF h = d THEN [pos |-> p, open_cnt |-> 1, valid |-> TRUE] ELSE Freed]
  BY <1>1, HeldFields
<1> DEFINE h == NewHandle(hs)
           o == dir_open(hs, h)
<1>3. h \in 1 .. 2 /\ h # d
  <2>1. DOMAIN hs.dirs = 1 .. 2 /\ hs.dirs[d] # Freed /\ hs.dirs[3 - d] = Freed
    BY <1>2 DEF Freed
  <2> QED
    BY <2>1 DEF NewHandle
<1> HIDE DEF h
<1>4. o \in Handles /\ o.dirs = [hs.dirs EXCEPT ![h] = Fresh]
  BY <1>3, OpenFields
<1> HIDE DEF o
<1>5. o.dirs[h].open_cnt = 1
  BY <1>2, <1>3, <1>4 DEF Fresh
<1>6. ASSUME NEW g \in 1 .. 2 \ {h}
      PROVE  [o.dirs[g] EXCEPT !.valid = FALSE] =
               [pos |-> p, open_cnt |-> 1, valid |-> FALSE]
  <2>1. g = d
    BY <1>3
  <2>2. o.dirs[g] = [pos |-> p, open_cnt |-> 1, valid |-> TRUE] /\ o.dirs[g] \in DirStruct
    <3>1. o.dirs[g] = hs.dirs[d]
      BY <1>2, <1>3, <1>4, <2>1
    <3>2. hs.dirs[d] = [pos |-> p, open_cnt |-> 1, valid |-> TRUE]
      BY <1>2
    <3> QED
      BY <3>1, <3>2 DEF DirStruct
  <2>3. [o.dirs[g] EXCEPT !.valid = FALSE] =
          [pos |-> o.dirs[g].pos, open_cnt |-> o.dirs[g].open_cnt, valid |-> FALSE]
    BY <2>2, DirStructFields
  <2> QED
    BY <2>2, <2>3
<1>7. [g \in 1 .. 2 |-> IF g = h THEN Freed ELSE [o.dirs[g] EXCEPT !.valid = FALSE]] =
        [g \in 1 .. 2 |->
           IF g = d THEN [pos |-> p, open_cnt |-> 1, valid |-> FALSE] ELSE Freed]
  <2>1. \A g \in 1 .. 2 : g = d <=> g # h
    BY <1>3
  <2> QED
    BY <1>6, <2>1, Zenon
<1>8. dir_close(o, h) = Orphan(d, p)
  <2>1. dir_close(o, h) =
          [cwd |-> 0, inode |-> FALSE,
           dirs |-> [g \in 1 .. 2 |->
                       IF g = h THEN Freed ELSE [o.dirs[g] EXCEPT !.valid = FALSE]]]
    BY <1>3, <1>4, <1>5, LastClose
  <2> QED
    BY <1>7, <2>1, Zenon DEF Orphan
<1>9. ByPath(hs) = dir_close(o, h)
  <2>1. hs.cwd # 0
    BY <1>2
  <2> QED
    BY <2>1, Zenon DEF ByPath, o, h
<1> QED
  BY <1>1, <1>8, <1>9

-----------------------------------------------------------------------------
(* Slots: the operators of the directory on any array of slots.             *)

\* The search from the start of an array finds the first entry.
LEMMA FirstOfIsFirst ==
  ASSUME NEW S, S \subseteq Nat, S # {}
  PROVE  FirstOf(S) \in S /\ \A j \in S : FirstOf(S) <= j
  BY LeastExists DEF FirstOf

MatchesIn(sl, n) == {i \in DOMAIN sl : i >= 1 /\ sl[i].in_use /\ sl[i].name = n}
LookupIn(sl, n) ==
  IF MatchesIn(sl, n) = {} THEN None ELSE sl[FirstOf(MatchesIn(sl, n))].sector

\* The file offsets of the slots are the numbers below their number.
LEMMA SlotCount ==
  ASSUME NEW sl, GoodSlots(sl)
  PROVE  \E k \in Nat \ {0} : DOMAIN sl = 0 .. k - 1 /\ Cardinality(DOMAIN sl) = k
<1>1. PICK k \in Nat \ {0} : sl \in [0 .. k - 1 -> AnyEntry]
  BY DEF GoodSlots
<1>2. DOMAIN sl = 0 .. k - 1
  BY <1>1
<1>3. Cardinality(0 .. k - 1) = k
  BY FS_Interval
<1> QED
  BY <1>2, <1>3

\* A used slot after the parent's holds a name and the sector of an inode.
LEMMA UsedSlot ==
  ASSUME NEW sl, GoodSlots(sl), NEW i \in DOMAIN sl, i >= 1, sl[i].in_use
  PROVE  i \in Nat /\ sl[i] \in Entry /\ sl[i].name \in Name /\ sl[i].sector \in Sector
<1>1. PICK k \in Nat \ {0} :
        /\ sl \in [0 .. k - 1 -> AnyEntry]
        /\ \A j \in 1 .. k - 1 : sl[j] = Unused \/ sl[j] \in Entry
  BY DEF GoodSlots
<1>2. i \in 1 .. k - 1 /\ sl[i] # Unused
  BY <1>1 DEF Unused
<1> QED
  BY <1>1, <1>2 DEF Entry

\* A name that is used leads to the one slot it is in.
LEMMA LookupFinds ==
  ASSUME NEW sl, GoodSlots(sl), UniqueNames(sl), NEW n, NEW i \in MatchesIn(sl, n)
  PROVE  /\ FirstOf(MatchesIn(sl, n)) = i
         /\ LookupIn(sl, n) = sl[i].sector
         /\ LookupIn(sl, n) \in Sector
<1>1. MatchesIn(sl, n) \subseteq Nat /\ MatchesIn(sl, n) # {}
  BY UsedSlot DEF MatchesIn
<1>2. FirstOf(MatchesIn(sl, n)) \in MatchesIn(sl, n)
  BY <1>1, FirstOfIsFirst
<1>3. FirstOf(MatchesIn(sl, n)) = i
  BY <1>2 DEF MatchesIn, UniqueNames
<1>4. sl[i].sector \in Sector
  BY UsedSlot DEF MatchesIn
<1> QED
  BY <1>1, <1>3, <1>4 DEF LookupIn

\* A name is found exactly if some used slot has it.
LEMMA LookupType ==
  ASSUME NEW sl, GoodSlots(sl), UniqueNames(sl), NEW n
  PROVE  /\ LookupIn(sl, n) \in Sector \cup {None}
         /\ LookupIn(sl, n) = None <=> MatchesIn(sl, n) = {}
  BY LookupFinds DEF LookupIn

\* Two arrays whose used slots for a name agree lead it to the same inode.
LEMMA LookupSame ==
  ASSUME NEW sl, GoodSlots(sl), UniqueNames(sl),
         NEW t, GoodSlots(t), UniqueNames(t), NEW n,
         MatchesIn(sl, n) = MatchesIn(t, n),
         \A i \in MatchesIn(sl, n) : sl[i].sector = t[i].sector
  PROVE  LookupIn(sl, n) = LookupIn(t, n)
<1>1. CASE MatchesIn(sl, n) = {}
  BY <1>1 DEF LookupIn
<1>2. ASSUME NEW i \in MatchesIn(sl, n)
      PROVE  LookupIn(sl, n) = LookupIn(t, n)
  BY LookupFinds
<1> QED
  BY <1>1, <1>2

FreeSlotIn(sl) == FirstOf({i \in DOMAIN sl : ~sl[i].in_use} \cup {Cardinality(DOMAIN sl)})

\* dir_add's slot is unused, or the one after the last; never the parent's.
LEMMA FreeSlotIsFree ==
  ASSUME NEW sl, GoodSlots(sl)
  PROVE  /\ FreeSlotIn(sl) \in Nat \ {0}
         /\ FreeSlotIn(sl) \in DOMAIN sl => ~sl[FreeSlotIn(sl)].in_use
         /\ FreeSlotIn(sl) \notin DOMAIN sl => FreeSlotIn(sl) = Cardinality(DOMAIN sl)
<1>1. PICK k \in Nat \ {0} : DOMAIN sl = 0 .. k - 1 /\ Cardinality(DOMAIN sl) = k
  BY SlotCount
<1> DEFINE S == {i \in DOMAIN sl : ~sl[i].in_use} \cup {k}
<1>2. S \subseteq Nat /\ S # {}
  BY <1>1
<1> HIDE DEF S
<1>3. FirstOf(S) \in S
  BY <1>2, FirstOfIsFirst
<1>4. FreeSlotIn(sl) = FirstOf(S)
  BY <1>1 DEF FreeSlotIn, S
<1>5. sl[0].in_use
  BY DEF GoodSlots, Parent
<1> QED
  BY <1>1, <1>2, <1>3, <1>4, <1>5 DEF S

\* The slots after dir_add put name n for sector s into its free slot.
Added(sl, n, s) ==
  [i \in DOMAIN sl \cup {FreeSlotIn(sl)} |->
     IF i = FreeSlotIn(sl) THEN [name |-> n, sector |-> s, in_use |-> TRUE] ELSE sl[i]]

\* A new name in a free slot changes what that name leads to and nothing else.
LEMMA AddedSlots ==
  ASSUME NEW sl, GoodSlots(sl), UniqueNames(sl),
         NEW n \in Name, NEW s \in Sector, LookupIn(sl, n) = None
  PROVE  /\ GoodSlots(Added(sl, n, s)) /\ UniqueNames(Added(sl, n, s))
         /\ \A m \in Name :
              LookupIn(Added(sl, n, s), m) = IF m = n THEN s ELSE LookupIn(sl, m)
<1>1. PICK k \in Nat \ {0} :
        /\ sl \in [0 .. k - 1 -> AnyEntry]
        /\ sl[0] = Parent
        /\ \A i \in 1 .. k - 1 : sl[i] = Unused \/ sl[i] \in Entry
  BY DEF GoodSlots
<1> DEFINE f == FreeSlotIn(sl)
           new == [name |-> n, sector |-> s, in_use |-> TRUE]
           t == Added(sl, n, s)
<1>2. /\ f \in 1 .. k
      /\ f \in DOMAIN sl => ~sl[f].in_use
      /\ f \notin DOMAIN sl => f = k
  <2>1. DOMAIN sl = 0 .. k - 1 /\ Cardinality(0 .. k - 1) = k
    BY <1>1, FS_Interval
  <2> QED
    BY <2>1, FreeSlotIsFree
<1>3. DOMAIN t = DOMAIN sl \cup {f} /\ t[f] = new
  BY DEF Added
<1>4. \A i \in DOMAIN sl \ {f} : t[i] = sl[i]
  BY DEF Added
<1>5. new \in Entry /\ new.name = n /\ new.sector = s /\ new.in_use
  BY DEF Entry
<1>6. new \in AnyEntry
  BY DEF AnyEntry
<1> HIDE DEF f, new
<1>7. GoodSlots(t)
  <2> DEFINE l == IF f = k THEN k + 1 ELSE k
  <2>1. l \in Nat \ {0} /\ DOMAIN t = 0 .. l - 1
    BY <1>1, <1>2, <1>3
  <2>2. t \in [0 .. l - 1 -> AnyEntry]
    <3>1. t = [i \in DOMAIN t |-> t[i]]
      BY DEF Added
    <3>2. \A i \in DOMAIN t : t[i] \in AnyEntry
      BY <1>1, <1>3, <1>4, <1>6
    <3> HIDE DEF t, l
    <3> QED
      BY <2>1, <3>1, <3>2
  <2>3. t[0] = Parent
    BY <1>1, <1>2, <1>4
  <2>4. \A i \in 1 .. l - 1 : t[i] = Unused \/ t[i] \in Entry
    <3> SUFFICES ASSUME NEW i \in 1 .. l - 1
                 PROVE  t[i] = Unused \/ t[i] \in Entry
      OBVIOUS
    <3>1. CASE i = f
      BY <3>1, <1>3, <1>5
    <3>2. CASE i # f
      BY <3>2, <1>1, <1>2, <1>4
    <3> QED
      BY <3>1, <3>2
  <2> HIDE DEF l, t
  <2> QED
    BY <2>1, <2>2, <2>3, <2>4 DEF GoodSlots
<1>8. MatchesIn(sl, n) = {}
  BY LookupType
<1> HIDE DEF t
<1>9. UniqueNames(t)
  <2> SUFFICES ASSUME NEW i \in DOMAIN t \ {0}, NEW j \in DOMAIN t \ {0},
                      t[i].in_use, t[j].in_use, t[i].name = t[j].name
               PROVE  i = j
    BY DEF UniqueNames
  <2>1. ASSUME NEW m \in DOMAIN sl \ {0, f}, t[m].in_use
        PROVE  t[m].name # n
    <3>1. m >= 1 /\ sl[m].in_use
      BY <1>1, <1>4, <2>1
    <3> QED
      BY <3>1, <1>4, <1>8 DEF MatchesIn
  <2>2. CASE i = f \/ j = f
    BY <2>1, <2>2, <1>3, <1>5
  <2>3. CASE i # f /\ j # f
    BY <2>3, <1>3, <1>4 DEF UniqueNames
  <2> QED
    BY <2>2, <2>3
<1>10. ASSUME NEW m \in Name
       PROVE  LookupIn(t, m) = IF m = n THEN s ELSE LookupIn(sl, m)
  <2>1. CASE m = n
    <3>1. f \in MatchesIn(t, n)
      BY <1>2, <1>3, <1>5 DEF MatchesIn
    <3> QED
      BY <2>1, <3>1, <1>3, <1>5, <1>7, <1>9, LookupFinds
  <2>2. CASE m # n
    <3>1. MatchesIn(t, m) = MatchesIn(sl, m)
      BY <2>2, <1>2, <1>3, <1>4, <1>5 DEF MatchesIn
    <3>2. \A i \in MatchesIn(sl, m) : sl[i].sector = t[i].sector
      BY <1>2, <1>4 DEF MatchesIn
    <3> QED
      BY <2>2, <3>1, <3>2, <1>7, <1>9, LookupSame
  <2> QED
    BY <2>1, <2>2
<1> QED
  BY <1>7, <1>9, <1>10 DEF t

\* The slots after dir_remove cleared in_use of the slot found for name n.
Removed(sl, n) == [sl EXCEPT ![FirstOf(MatchesIn(sl, n))].in_use = FALSE]

\* Clearing the slot of a name takes that name away and no other: no second slot
\* has it.
LEMMA RemovedSlots ==
  ASSUME NEW sl, GoodSlots(sl), UniqueNames(sl), NEW n \in Name,
         MatchesIn(sl, n) # {}
  PROVE  /\ GoodSlots(Removed(sl, n)) /\ UniqueNames(Removed(sl, n))
         /\ \A m \in Name :
              LookupIn(Removed(sl, n), m) = IF m = n THEN None ELSE LookupIn(sl, m)
<1>1. PICK k \in Nat \ {0} :
        /\ sl \in [0 .. k - 1 -> AnyEntry]
        /\ sl[0] = Parent
        /\ \A i \in 1 .. k - 1 : sl[i] = Unused \/ sl[i] \in Entry
  BY DEF GoodSlots
<1>2. PICK f \in MatchesIn(sl, n) : FirstOf(MatchesIn(sl, n)) = f
  BY LookupFinds
<1>3. f \in 1 .. k - 1 /\ sl[f].in_use /\ sl[f].name = n /\ sl[f] \in Entry
  BY <1>1, <1>2, UsedSlot DEF MatchesIn
<1> DEFINE t == Removed(sl, n)
<1> DEFINE e == [sl[f] EXCEPT !.in_use = FALSE]
<1>4. t = [sl EXCEPT ![f] = e]
  BY <1>2 DEF Removed
<1>5. e \in Entry /\ e.in_use = FALSE
  BY <1>3 DEF Entry
<1> HIDE DEF t, e
<1>6. /\ DOMAIN t = DOMAIN sl /\ t[f] \in Entry /\ ~t[f].in_use
      /\ \A i \in DOMAIN sl \ {f} : t[i] = sl[i]
  BY <1>1, <1>3, <1>4, <1>5
<1>7. GoodSlots(t)
  <2>1. \A i \in 0 .. k - 1 : t[i] \in AnyEntry
    BY <1>1, <1>6 DEF Entry, AnyEntry
  <2>2. t \in [0 .. k - 1 -> AnyEntry]
    BY <1>1, <1>4, <2>1
  <2>3. t[0] = Parent
    BY <1>1, <1>3, <1>6
  <2>4. \A i \in 1 .. k - 1 : t[i] = Unused \/ t[i] \in Entry
    BY <1>1, <1>6
  <2> QED
    BY <2>2, <2>3, <2>4 DEF GoodSlots
<1>8. UniqueNames(t)
  BY <1>6 DEF UniqueNames
<1>9. ASSUME NEW m \in Name
      PROVE  LookupIn(t, m) = IF m = n THEN None ELSE LookupIn(sl, m)
  <2>1. CASE m = n
    <3>1. MatchesIn(t, n) = {}
      <4> SUFFICES ASSUME NEW i \in MatchesIn(t, n)
                   PROVE  FALSE
        OBVIOUS
      <4>1. i # f /\ i \in MatchesIn(sl, n)
        BY <1>6 DEF MatchesIn
      <4> QED
        BY <4>1, <1>2, LookupFinds
    <3> QED
      BY <2>1, <3>1 DEF LookupIn
  <2>2. CASE m # n
    <3>1. MatchesIn(t, m) = MatchesIn(sl, m)
      BY <2>2, <1>3, <1>6 DEF MatchesIn
    <3>2. \A i \in MatchesIn(sl, m) : sl[i].sector = t[i].sector
      BY <2>2, <1>3, <1>6 DEF MatchesIn
    <3> QED
      BY <2>2, <3>1, <3>2, <1>7, <1>8, LookupSame
  <2> QED
    BY <2>1, <2>2
<1> QED
  BY <1>7, <1>8, <1>9 DEF t

\* The operators of the module are the ones above, on the directory's slots.
LEMMA OfSlot ==
  /\ \A n : Matches(n) = MatchesIn(slot, n) /\ lookup(n) = LookupIn(slot, n)
  /\ FreeSlot = FreeSlotIn(slot)
  BY DEF Matches, MatchesIn, lookup, LookupIn, FreeSlot, FreeSlotIn

\* And on the slots after a step.
LEMMA OfSlotPrime == \A n : lookup(n)' = LookupIn(slot', n)
  BY DEF Matches, MatchesIn, lookup, LookupIn

\* dir_add refuses, or gives a new name its inode and leaves the others theirs.
LEMMA AddEffect ==
  ASSUME SlotsOK, NEW n \in Name, NEW s \in Sector, dir_add(n, s)
  PROVE  /\ SlotsOK'
         /\ \/ slot' = slot
            \/ /\ lookup(n) = None
               /\ \A m \in Name : lookup(m)' = IF m = n THEN s ELSE lookup(m)
<1>1. CASE slot' = slot
  BY <1>1 DEF SlotsOK
<1>2. CASE slot' = Added(slot, n, s) /\ lookup(n) = None
  <2>1. LookupIn(slot, n) = None
    BY <1>2, OfSlot
  <2>2. /\ GoodSlots(slot') /\ UniqueNames(slot')
        /\ \A m \in Name : LookupIn(slot', m) = IF m = n THEN s ELSE LookupIn(slot, m)
    BY <1>2, <2>1, AddedSlots DEF SlotsOK
  <2> QED
    BY <1>2, <2>2, OfSlot, OfSlotPrime DEF SlotsOK
<1> QED
  BY <1>1, <1>2, OfSlot, Zenon DEF dir_add, Added

\* dir_remove takes one name away and leaves the others their inodes.
LEMMA RemoveEffect ==
  ASSUME SlotsOK, NEW n \in Name, dir_remove(n)
  PROVE  /\ SlotsOK'
         /\ \A m \in Name : lookup(m)' = IF m = n THEN None ELSE lookup(m)
<1>1. CASE MatchesIn(slot, n) = {}
  <2>1. slot' = slot
    BY <1>1, OfSlot DEF dir_remove
  <2>2. lookup(n) = None
    BY <1>1, OfSlot DEF lookup
  <2> QED
    BY <2>1, <2>2, OfSlot, OfSlotPrime DEF SlotsOK
<1>2. CASE MatchesIn(slot, n) # {}
  <2>1. slot' = Removed(slot, n)
    BY <1>2, OfSlot, Zenon DEF dir_remove, Removed
  <2>2. /\ GoodSlots(slot') /\ UniqueNames(slot')
        /\ \A m \in Name : LookupIn(slot', m) = IF m = n THEN None ELSE LookupIn(slot, m)
    BY <1>2, <2>1, RemovedSlots DEF SlotsOK
  <2> QED
    BY <2>2, OfSlot, OfSlotPrime DEF SlotsOK
<1> QED
  BY <1>1, <1>2

-----------------------------------------------------------------------------
(* The invariant is inductive.                                              *)

\* A new directory, with nothing in memory, satisfies the invariant.
LEMMA InitInv == Init => IInv
<1> SUFFICES ASSUME Init
             PROVE  IInv
  OBVIOUS
<1>1. GoodSlots(slot)
  <2>1. Parent \in AnyEntry /\ Unused \in AnyEntry
    BY DEF AnyEntry, Parent, Unused
  <2>2. EntryCnt \in Nat \ {0} /\ slot = [i \in 0 .. EntryCnt - 1 |->
                                            IF i = 0 THEN Parent ELSE Unused]
    BY DEF Init, dir_create
  <2>3. slot \in [0 .. EntryCnt - 1 -> AnyEntry]
    BY <2>1, <2>2
  <2> QED
    BY <2>2, <2>3 DEF GoodSlots
<1>2. UniqueNames(slot)
  BY DEF Init, dir_create, UniqueNames, Unused
<1>3. LoopType
  BY DEF Init, LoopType, NoLoop
<1>4. LoopHolds
  BY DEF Init, LoopHolds, NoLoop, AtRest
<1>5. ShownSoFar
  BY DEF Init, ShownSoFar, NoLoop
<1> QED
  BY <1>1, <1>2, <1>3, <1>4, <1>5 DEF IInv, SlotsOK

\* At the prompt no handle is open.
LEMMA PromptAtRest ==
  ASSUME IInv, Prompt
  PROVE  handles = AtRest /\ shown = <<>> /\ loop.kind = "none"
  BY DEF IInv, LoopHolds, ShownSoFar, Prompt, NoLoop

\* A command at the prompt that keeps the slots in order keeps the invariant.
LEMMA PromptCommand ==
  ASSUME IInv, Prompt, SlotsOK', handles' = AtRest, loop' = loop, shown' = shown,
         opened' \in Sector \cup {None}
  PROVE  IInv'
<1>1. handles = AtRest /\ shown = <<>> /\ loop.kind = "none" /\ loop = NoLoop
  BY PromptAtRest DEF Prompt
<1>2. LoopType'
  BY DEF IInv, LoopType
<1>3. LoopHolds'
  BY <1>1 DEF LoopHolds
<1>4. ShownSoFar'
  BY <1>1 DEF ShownSoFar
<1> QED
  BY <1>2, <1>3, <1>4 DEF IInv

\* What opening a name finds is a sector or nothing.
LEMMA LookupSector ==
  ASSUME SlotsOK, NEW n
  PROVE  lookup(n) \in Sector \cup {None}
  BY OfSlot, LookupType DEF SlotsOK

\* Inside a loop whose handle is valid, the handle is cwd and opened once.
LEMMA InLoop ==
  ASSUME IInv, ~Prompt
  PROVE  /\ loop.kind \in {"list", "open", "remove"} /\ loop.dir \in 1 .. 2
         /\ This.pos \in Nat \ {0}
         /\ This.valid \/ loop.kind # "remove" \/ loop.name # None =>
              handles = Held(loop.dir, This.pos)
<1>1. loop.kind # "none" /\ loop.kind \in {"none", "list", "open", "remove"}
  BY DEF IInv, LoopHolds, LoopType, Prompt
<1>2. PICK p \in Nat \ {0} :
        \/ handles = Held(loop.dir, p)
        \/ loop.kind = "remove" /\ loop.name = None /\ handles = Orphan(loop.dir, p)
  BY <1>1 DEF IInv, LoopHolds
<1>3. loop.dir \in 1 .. 2
  BY <1>1 DEF IInv, LoopHolds
<1>4. CASE handles = Held(loop.dir, p)
  <2>1. This = [pos |-> p, open_cnt |-> 1, valid |-> TRUE]
    <3>1. handles.dirs = [h \in 1 .. 2 |-> IF h = loop.dir
                            THEN [pos |-> p, open_cnt |-> 1, valid |-> TRUE] ELSE Freed]
      BY <1>3, <1>4, HeldFields
    <3> QED
      BY <1>3, <3>1 DEF This
  <2> QED
    BY <1>1, <1>3, <1>4, <2>1
<1>5. CASE loop.kind = "remove" /\ loop.name = None /\ handles = Orphan(loop.dir, p)
  <2>1. This = [pos |-> p, open_cnt |-> 1, valid |-> FALSE]
    BY <1>3, <1>5, OrphanFields DEF This
  <2> QED
    BY <1>1, <1>3, <1>5, <2>1
<1> QED
  BY <1>2, <1>4, <1>5

\* dir_readdir moves the position of the loop's struct dir and nothing else.
LEMMA MoveHeld ==
  ASSUME NEW d \in 1 .. 2, NEW p \in Nat, NEW q \in Nat
  PROVE  [Held(d, p) EXCEPT !.dirs[d].pos = q] = Held(d, q)
<1>1. PICK hs \in Handles : hs = Held(d, p)
  BY HeldFields
<1>2. /\ hs.cwd = d /\ hs.inode = TRUE
      /\ hs.dirs = [h \in 1 .. 2 |->
                      IF h = d THEN [pos |-> p, open_cnt |-> 1, valid |-> TRUE] ELSE Freed]
  BY <1>1, HeldFields
<1> DEFINE moved == [hs EXCEPT !.dirs[d].pos = q]
           s == [hs.dirs[d] EXCEPT !.pos = q]
<1>3. hs.dirs[d] \in DirStruct /\ hs.dirs[d].open_cnt = 1 /\ hs.dirs[d].valid = TRUE
  <2>1. hs.dirs[d] = [pos |-> p, open_cnt |-> 1, valid |-> TRUE]
    BY <1>2
  <2> QED
    BY <2>1 DEF DirStruct
<1>4. s \in DirStruct /\ s.pos = q /\ s.open_cnt = 1 /\ s.valid = TRUE
  BY <1>3 DEF DirStruct
<1>5. /\ moved \in Handles /\ moved.cwd = d /\ moved.inode = TRUE
      /\ moved.dirs = [hs.dirs EXCEPT ![d] = s]
  BY <1>2, <1>3 DEF Handles, DirStruct
<1> HIDE DEF moved, s
<1>6. s = [pos |-> q, open_cnt |-> 1, valid |-> TRUE]
  <2>1. s = [pos |-> s.pos, open_cnt |-> s.open_cnt, valid |-> s.valid]
    BY <1>4, Zenon DEF DirStruct
  <2> QED
    BY <1>4, <2>1, Zenon
<1>7. moved.dirs = [h \in 1 .. 2 |->
                      IF h = d THEN [pos |-> q, open_cnt |-> 1, valid |-> TRUE] ELSE Freed]
  <2>1. moved.dirs = [h \in 1 .. 2 |-> IF h = d THEN s ELSE Freed]
    BY <1>2, <1>5
  <2> QED
    BY <1>6, <2>1, Zenon
<1>8. moved = [cwd |-> moved.cwd, inode |-> moved.inode, dirs |-> moved.dirs]
  BY <1>5 DEF Handles
<1>9. moved = Held(d, q)
  BY <1>5, <1>7, <1>8, Zenon DEF Held
<1> QED
  BY <1>1, <1>9, Zenon DEF moved

\* dir_readdir reads the next used slot after what a listing has shown.
LEMMA ReadEffect ==
  ASSUME IInv, dir_readdir
  PROVE  \E i \in DOMAIN slot :
           /\ i \in Nat \ {0} /\ slot[i].in_use /\ slot[i].name \in Name
           /\ slot[i].name \notin NamesBefore(This.pos)
           /\ NamesBefore(i + 1) = NamesBefore(This.pos) \cup {slot[i].name}
           /\ handles' = Held(loop.dir, i + 1)
           /\ loop' = [loop EXCEPT !.name = slot[i].name]
           /\ shown' = IF loop.kind = "remove" THEN shown ELSE Append(shown, slot[i].name)
<1>1. ~Prompt /\ This.valid /\ Rest(This.pos) # {}
  BY DEF dir_readdir
<1>2. /\ loop.dir \in 1 .. 2 /\ This.pos \in Nat \ {0}
      /\ handles = Held(loop.dir, This.pos)
  BY <1>1, InLoop
<1>3. GoodSlots(slot) /\ UniqueNames(slot)
  BY DEF IInv, SlotsOK
<1> DEFINE i == FirstOf(Rest(This.pos))
           p == This.pos
<1>4. DOMAIN slot \subseteq Nat
  BY <1>3, SlotCount
<1>5. i \in Rest(p) /\ \A j \in Rest(p) : i <= j
  <2>1. Rest(p) \subseteq Nat
    BY <1>4 DEF Rest
  <2> QED
    BY <1>1, <2>1, FirstOfIsFirst
<1>6. /\ handles' = [handles EXCEPT !.dirs[loop.dir].pos = i + 1]
      /\ loop' = [loop EXCEPT !.name = slot[i].name]
      /\ shown' = IF loop.kind = "remove" THEN shown ELSE Append(shown, slot[i].name)
  BY DEF dir_readdir
<1> HIDE DEF i, p
<1>7. i \in DOMAIN slot /\ i \in Nat \ {0} /\ i >= p /\ slot[i].in_use
  BY <1>2, <1>4, <1>5 DEF Rest, p
<1>8. slot[i].name \in Name
  BY <1>3, <1>7, UsedSlot
<1>9. slot[i].name \notin NamesBefore(p)
  <2> SUFFICES ASSUME NEW j \in DOMAIN slot, j >= 1, j < p, slot[j].in_use,
                      slot[j].name = slot[i].name
               PROVE  FALSE
    BY DEF NamesBefore
  <2>1. i # 0 /\ j # 0 /\ i # j
    BY <1>2, <1>4, <1>7 DEF p
  <2> QED
    BY <1>3, <1>7, <2>1 DEF UniqueNames
<1>10. NamesBefore(i + 1) = NamesBefore(p) \cup {slot[i].name}
  <2>1. {j \in DOMAIN slot : j >= 1 /\ j < i + 1 /\ slot[j].in_use} =
          {j \in DOMAIN slot : j >= 1 /\ j < p /\ slot[j].in_use} \cup {i}
    BY <1>2, <1>4, <1>5, <1>7 DEF Rest, p
  <2> QED
    BY <2>1 DEF NamesBefore
<1>11. handles' = Held(loop.dir, i + 1)
  <2>1. [Held(loop.dir, p) EXCEPT !.dirs[loop.dir].pos = i + 1] = Held(loop.dir, i + 1)
    <3>1. loop.dir \in 1 .. 2 /\ p \in Nat /\ i + 1 \in Nat
      BY <1>2, <1>7 DEF p
    <3> QED
      BY <3>1, MoveHeld
  <2> QED
    BY <1>2, <1>6, <2>1, Zenon DEF p
<1> QED
  BY <1>6, <1>7, <1>8, <1>9, <1>10, <1>11 DEF p

\* Where the struct dir of a loop stands.
LEMMA HeldPos ==
  ASSUME NEW d \in 1 .. 2, NEW p \in Nat
  PROVE  Held(d, p).dirs[d].pos = p
<1>1. Held(d, p).dirs =
        [h \in 1 .. 2 |->
           IF h = d THEN [pos |-> p, open_cnt |-> 1, valid |-> TRUE] ELSE Freed]
  BY HeldFields
<1> QED
  BY <1>1

\* The body of a loop that leaves slots and handles as they were.
LEMMA BodyDone ==
  ASSUME IInv, loop.kind \in {"list", "open"}, loop' = [loop EXCEPT !.name = None],
         slot' = slot, handles' = handles, shown' = shown,
         opened' \in Sector \cup {None}
  PROVE  IInv'
<1>1. /\ loop' \in [kind : {"none", "list", "open", "remove"}, dir : 0 .. 2,
                    name : Name \cup {None}]
      /\ loop'.kind = loop.kind /\ loop'.dir = loop.dir
  BY DEF IInv, LoopType
<1>2. SlotsOK' /\ LoopType'
  BY <1>1 DEF IInv, SlotsOK, LoopType
<1>3. LoopHolds'
  BY <1>1 DEF IInv, LoopHolds
<1>4. ShownSoFar'
  <2>1. /\ ShownNames' = ShownNames
        /\ NamesBefore(handles.dirs[loop.dir].pos)' = NamesBefore(handles.dirs[loop.dir].pos)
    BY <1>1 DEF ShownNames, NamesBefore
  <2> QED
    BY <1>1, <2>1 DEF IInv, ShownSoFar
<1> QED
  BY <1>2, <1>3, <1>4 DEF IInv

\* Every step keeps the invariant.
LEMMA StepInv == IInv /\ [Next]_vars => IInv'
<1> SUFFICES ASSUME IInv, [Next]_vars
             PROVE  IInv'
  OBVIOUS
<1>1. ASSUME NEW n \in Name, filesys_create(n)
      PROVE  IInv'
  <2>1. PICK s \in Sector : dir_add(n, s)
    BY <1>1 DEF filesys_create
  <2>2. SlotsOK'
    BY <2>1, AddEffect DEF IInv
  <2>3. handles = AtRest /\ handles' = ByRoot(handles)
    BY <1>1, PromptAtRest DEF filesys_create
  <2>4. handles' = AtRest
    BY <2>3, ByRootAtRest
  <2> QED
    BY <1>1, <2>2, <2>4, PromptCommand DEF filesys_create, IInv, LoopType
<1>2. ASSUME NEW n \in Name, Open(n)
      PROVE  IInv'
  <2>1. handles = AtRest /\ handles' = ByRoot(handles)
    BY <1>2, PromptAtRest DEF Open, filesys_open
  <2>2. SlotsOK' /\ lookup(n) \in Sector \cup {None}
    BY <1>2, LookupSector DEF Open, IInv, SlotsOK
  <2>3. handles' = AtRest
    BY <2>1, ByRootAtRest
  <2> QED
    BY <1>2, <2>2, <2>3, PromptCommand DEF Open, filesys_open
<1>3. ASSUME NEW n \in Name, Remove(n)
      PROVE  IInv'
  <2>1. handles = AtRest /\ handles' = ByPath(handles)
    BY <1>3, PromptAtRest DEF Remove, filesys_remove
  <2>2. SlotsOK'
    BY <1>3, RemoveEffect DEF Remove, filesys_remove, IInv
  <2>3. handles' = AtRest
    BY <2>1, ByPathAtRest
  <2> QED
    BY <1>3, <2>2, <2>3, PromptCommand DEF Remove, IInv, LoopType
<1>4. ASSUME NEW kind \in {"list", "open", "remove"}, StartLoop(kind)
      PROVE  IInv'
  <2>1. handles = AtRest /\ shown = <<>>
    BY <1>4, PromptAtRest DEF StartLoop
  <2>2. PICK d \in 1 .. 2 : dir_open_root(handles) = Held(d, 1)
    BY <2>1, OpenAtRest
  <2>3. /\ handles' = Held(d, 1) /\ Held(d, 1).cwd = d
        /\ loop' = [kind |-> kind, dir |-> d, name |-> None]
    <3>1. Held(d, 1).cwd = d
      BY HeldFields
    <3> QED
      BY <1>4, <2>2, <3>1, Zenon DEF StartLoop
  <2>4. SlotsOK'
    BY <1>4 DEF StartLoop, IInv, SlotsOK
  <2>5. LoopType'
    BY <1>4, <2>3 DEF StartLoop, IInv, LoopType
  <2>6. LoopHolds'
    BY <2>3 DEF LoopHolds
  <2>7. ShownSoFar'
    <3>1. shown' = <<>> /\ ShownNames' = {}
      BY <1>4, <2>1 DEF StartLoop, ShownNames
    <3>2. handles'.dirs[loop'.dir].pos = 1
      BY <2>3, HeldPos
    <3>3. NamesBefore(1)' = {}
      <4>1. DOMAIN slot' \subseteq Nat
        BY <2>4, SlotCount DEF SlotsOK
      <4> QED
        BY <4>1 DEF NamesBefore
    <3> QED
      BY <3>1, <3>2, <3>3 DEF ShownSoFar
  <2> QED
    BY <2>4, <2>5, <2>6, <2>7 DEF IInv
<1>5. CASE filesys_create_fails
  <2>1. handles = AtRest /\ handles' = ByRoot(handles)
    BY <1>5, PromptAtRest DEF filesys_create_fails
  <2>2. handles' = AtRest /\ SlotsOK'
    BY <1>5, <2>1, ByRootAtRest DEF filesys_create_fails, IInv, SlotsOK
  <2> QED
    BY <1>5, <2>2, PromptCommand DEF filesys_create_fails, IInv, LoopType
<1>6. CASE dir_readdir
  <2>1. PICK i \in DOMAIN slot :
           /\ i \in Nat \ {0} /\ slot[i].in_use /\ slot[i].name \in Name
           /\ NamesBefore(i + 1) = NamesBefore(This.pos) \cup {slot[i].name}
           /\ handles' = Held(loop.dir, i + 1)
           /\ loop' = [loop EXCEPT !.name = slot[i].name]
           /\ shown' = IF loop.kind = "remove" THEN shown ELSE Append(shown, slot[i].name)
    BY <1>6, ReadEffect
  <2>2. loop.kind \in {"list", "open", "remove"} /\ loop.dir \in 1 .. 2
    BY <1>6, InLoop DEF dir_readdir
  <2>3. /\ loop' \in [kind : {"none", "list", "open", "remove"}, dir : 0 .. 2,
                      name : Name \cup {None}]
        /\ loop'.kind = loop.kind /\ loop'.dir = loop.dir
    BY <2>1 DEF IInv, LoopType
  <2>4. LoopType' /\ SlotsOK'
    BY <1>6, <2>3 DEF dir_readdir, IInv, LoopType, SlotsOK
  <2>5. LoopHolds'
    BY <2>1, <2>2, <2>3 DEF LoopHolds
  <2>6. ShownSoFar'
    <3>1. handles'.dirs[loop'.dir].pos = i + 1
      BY <2>1, <2>2, <2>3, HeldPos
    <3>2. slot' = slot /\ NamesBefore(i + 1)' = NamesBefore(i + 1)
      BY <1>6 DEF dir_readdir, NamesBefore
    <3>3. CASE loop.kind = "remove"
      BY <2>1, <2>3, <3>3 DEF IInv, ShownSoFar
    <3>4. CASE loop.kind # "remove"
      <4>1. shown \in Seq(Name) /\ ShownNames = NamesBefore(This.pos)
        BY <2>2, <3>4 DEF IInv, ShownSoFar, This
      <4>2. shown' = Append(shown, slot[i].name)
        BY <2>1, <3>4
      <4>3. shown' \in Seq(Name) /\ ShownNames' = ShownNames \cup {slot[i].name}
        BY <2>1, <4>1, <4>2 DEF ShownNames
      <4>4. ShownNames' = NamesBefore(i + 1)'
        BY <2>1, <3>2, <4>1, <4>3
      <4> QED
        BY <2>2, <2>3, <3>1, <3>4, <4>3, <4>4 DEF ShownSoFar
    <3> QED
      BY <3>3, <3>4
  <2> QED
    BY <2>4, <2>5, <2>6 DEF IInv
<1>7. CASE ListBody
  <2>1. ~Prompt /\ loop.kind = "list"
    BY <1>7 DEF ListBody, Prompt, NoLoop
  <2> QED
    BY <1>7, <2>1, BodyDone DEF ListBody, IInv, LoopType
<1>8. CASE OpenBody
  <2>1. ~Prompt /\ loop.kind = "open"
    BY <1>8 DEF OpenBody, Prompt, NoLoop
  <2>2. /\ loop.dir \in 1 .. 2 /\ This.pos \in Nat \ {0}
        /\ handles = Held(loop.dir, This.pos)
    BY <2>1, InLoop
  <2>3. handles' = handles
    BY <1>8, <2>2, ByRootHeld DEF OpenBody, filesys_open
  <2>4. opened' \in Sector \cup {None}
    BY <1>8, LookupSector DEF OpenBody, filesys_open, IInv
  <2> QED
    BY <1>8, <2>1, <2>3, <2>4, BodyDone DEF OpenBody
<1>9. CASE RemoveBody
  <2>1. ~Prompt /\ loop.kind = "remove" /\ loop.name # None
    BY <1>9 DEF RemoveBody, Prompt, NoLoop
  <2>2. /\ loop.dir \in 1 .. 2 /\ This.pos \in Nat \ {0}
        /\ handles = Held(loop.dir, This.pos)
    BY <2>1, InLoop
  <2>3. handles' = Orphan(loop.dir, This.pos)
    BY <1>9, <2>2, ByPathHeld DEF RemoveBody, filesys_remove
  <2>4. loop.name \in Name
    BY <2>1 DEF IInv, LoopType
  <2>5. SlotsOK'
    BY <1>9, <2>4, RemoveEffect DEF RemoveBody, filesys_remove, IInv
  <2>6. /\ loop' \in [kind : {"none", "list", "open", "remove"}, dir : 0 .. 2,
                      name : Name \cup {None}]
        /\ loop'.kind = "remove" /\ loop'.dir = loop.dir /\ loop'.name = None
    BY <1>9, <2>1 DEF RemoveBody, IInv, LoopType
  <2>7. LoopType'
    BY <1>9, <2>6 DEF RemoveBody, IInv, LoopType
  <2>8. LoopHolds'
    BY <2>2, <2>3, <2>6 DEF LoopHolds
  <2>9. ShownSoFar'
    BY <1>9, <2>1, <2>6 DEF RemoveBody, IInv, ShownSoFar
  <2> QED
    BY <2>5, <2>7, <2>8, <2>9 DEF IInv
<1>10. CASE EndLoop
  <2>1. /\ loop.dir \in 1 .. 2 /\ This.pos \in Nat \ {0}
        /\ handles = Held(loop.dir, This.pos)
    BY <1>10, InLoop DEF EndLoop
  <2>2. handles' = AtRest
    BY <1>10, <2>1, CloseHeld DEF EndLoop
  <2>3. loop' = NoLoop /\ shown' = <<>> /\ UNCHANGED slot /\ opened' \in Sector \cup {None}
    BY <1>10 DEF EndLoop, IInv, LoopType
  <2>4. SlotsOK'
    BY <2>3 DEF IInv, SlotsOK
  <2>5. LoopType' /\ LoopHolds'
    BY <2>2, <2>3 DEF LoopType, LoopHolds, NoLoop
  <2>6. ShownSoFar'
    BY <2>3 DEF ShownSoFar, NoLoop
  <2> QED
    BY <2>4, <2>5, <2>6 DEF IInv
<1>11. CASE UNCHANGED vars
  <2>1. SlotsOK' /\ LoopType'
    BY <1>11 DEF vars, IInv, SlotsOK, LoopType
  <2>2. LoopHolds'
    BY <1>11 DEF vars, IInv, LoopHolds
  <2>3. ShownSoFar'
    <3>1. UNCHANGED <<slot, handles, loop, shown>> /\ ShownSoFar
      BY <1>11 DEF vars, IInv
    <3>2. ShownNames' = ShownNames
      BY <3>1 DEF ShownNames
    <3>3. NamesBefore(handles.dirs[loop.dir].pos)' = NamesBefore(handles.dirs[loop.dir].pos)
      BY <3>1 DEF NamesBefore
    <3> QED
      BY <3>1, <3>2, <3>3 DEF ShownSoFar
  <2> QED
    BY <2>1, <2>2, <2>3 DEF IInv
<1> QED
  BY <1>1, <1>2, <1>3, <1>4, <1>5, <1>6, <1>7, <1>8, <1>9, <1>10, <1>11 DEF Next

\* The invariant holds of every state of the root directory.
THEOREM Invariant == Spec => []IInv
  BY InitInv, StepInv, PTL DEF Spec

-----------------------------------------------------------------------------
(* What follows.                                                            *)

\* Slots, handles and the loop hold what the code can put there, and the first
\* slot stays the parent's (dir_create, dir_add, dir_close).
THEOREM TypeCorrect == Spec => []TypeOK
<1>1. IInv => TypeOK
  <2> SUFFICES ASSUME IInv
               PROVE  TypeOK
    OBVIOUS
  <2>1. PICK k \in Nat \ {0} :
          /\ slot \in [0 .. k - 1 -> AnyEntry]
          /\ slot[0] = Parent
          /\ \A i \in 1 .. k - 1 : slot[i] = Unused \/ slot[i] \in Entry
    BY DEF IInv, SlotsOK, GoodSlots
  <2>2. DOMAIN slot = 0 .. k - 1 /\ Cardinality(0 .. k - 1) = k
    BY <2>1, FS_Interval
  <2>3. slot[0].name = None /\ slot[0].sector = ROOT_DIR_SECTOR
    BY <2>1 DEF Parent
  <2>4. \A i \in DOMAIN slot \ {0} :
          slot[i] = Unused \/ slot[i] \in [name : Name, sector : Sector, in_use : BOOLEAN]
    BY <2>1, <2>2 DEF Entry
  <2>5. handles \in Handles
    <3>1. CASE loop.kind = "none"
      BY <3>1, AtRestFields DEF IInv, LoopHolds
    <3>2. CASE loop.kind # "none"
      <4>1. PICK p \in Nat \ {0} :
              handles = Held(loop.dir, p) \/ handles = Orphan(loop.dir, p)
        BY <3>2 DEF IInv, LoopHolds
      <4>2. loop.dir \in 1 .. 2 /\ p \in Nat
        BY <3>2 DEF IInv, LoopHolds
      <4>3. Held(loop.dir, p) \in Handles /\ Orphan(loop.dir, p) \in Handles
        BY <4>2, HeldFields, OrphanFields
      <4> QED
        BY <4>1, <4>3
    <3> QED
      BY <3>1, <3>2
  <2>6. /\ handles.cwd \in {0} \cup DOMAIN handles.dirs /\ handles.inode \in BOOLEAN
        /\ handles.dirs \in [1 .. 2 -> [pos : Nat, open_cnt : Nat, valid : BOOLEAN]]
    BY <2>5 DEF Handles, DirStruct
  <2> QED
    BY <2>2, <2>3, <2>4, <2>6 DEF TypeOK, IInv, LoopType
<1> QED
  BY <1>1, Invariant, PTL

\* At the prompt nothing of the directory is left in memory, and a loop that does
\* not remove files keeps a live inode under its struct dir, opened once, whatever
\* its body opens and closes (dir_open_root, dir_close, inode_close).
THEOREM HandlesBalance == Spec => []HandlesBalanced
<1>1. IInv => HandlesBalanced
  <2> SUFFICES ASSUME IInv
               PROVE  HandlesBalanced
    OBVIOUS
  <2>1. ASSUME Prompt
        PROVE  handles = [cwd |-> 0, dirs |-> [h \in 1 .. 2 |-> Freed], inode |-> FALSE]
    BY <2>1, PromptAtRest DEF AtRest
  <2>2. ASSUME loop.kind \in {"list", "open"}
        PROVE  /\ handles.cwd = loop.dir /\ handles.inode
               /\ This.valid /\ This.open_cnt = 1
    <3>1. ~Prompt
      BY <2>2 DEF Prompt, NoLoop
    <3>2. /\ loop.dir \in 1 .. 2 /\ This.pos \in Nat
          /\ handles = Held(loop.dir, This.pos)
      BY <2>2, <3>1, InLoop
    <3>3. /\ handles.cwd = loop.dir /\ handles.inode = TRUE
          /\ handles.dirs = [h \in 1 .. 2 |->
               IF h = loop.dir THEN [pos |-> This.pos, open_cnt |-> 1, valid |-> TRUE]
               ELSE Freed]
      BY <3>2, HeldFields
    <3>4. This = [pos |-> This.pos, open_cnt |-> 1, valid |-> TRUE]
      BY <3>2, <3>3 DEF This
    <3> QED
      BY <3>3, <3>4
  <2> QED
    BY <2>1, <2>2 DEF HandlesBalanced
<1> QED
  BY <1>1, Invariant, PTL

-----------------------------------------------------------------------------
(* The directory implements a map from names to inodes.                     *)

\* An empty directory is the empty map.
LEMMA InitRefines == Init => Abstract!Init
<1> SUFFICES ASSUME Init
             PROVE  Abstract!Init
  OBVIOUS
<1>1. \A n \in Name : lookup(n) = None
  BY DEF Init, lookup, Matches, dir_create, Unused
<1>2. ~(loop.kind \in {"list", "open"})
  BY DEF Init, NoLoop
<1> QED
  BY <1>1, <1>2 DEF Init, Abstract!Init

\* The map's files are the names of the used slots.
LEMMA FilesAreNames ==
  ASSUME SlotsOK
  PROVE  /\ \A i \in DOMAIN slot \ {0} : slot[i].in_use => slot[i].name \in Abstract!Files
         /\ \A n \in Abstract!Files :
              \E i \in DOMAIN slot \ {0} : slot[i].in_use /\ slot[i].name = n
<1>1. GoodSlots(slot) /\ UniqueNames(slot) /\ DOMAIN slot \subseteq Nat
  BY SlotCount DEF SlotsOK
<1>2. ASSUME NEW i \in DOMAIN slot \ {0}, slot[i].in_use
      PROVE  slot[i].name \in Abstract!Files
  <2>1. i \in MatchesIn(slot, slot[i].name) /\ slot[i].name \in Name
    BY <1>1, <1>2, UsedSlot DEF MatchesIn
  <2>2. lookup(slot[i].name) # None
    BY <1>1, <2>1, OfSlot, LookupType
  <2> QED
    BY <2>1, <2>2 DEF Abstract!Files
<1>3. ASSUME NEW n \in Abstract!Files
      PROVE  \E i \in DOMAIN slot \ {0} : slot[i].in_use /\ slot[i].name = n
  <2>1. lookup(n) # None
    BY <1>3 DEF Abstract!Files
  <2>2. PICK i \in MatchesIn(slot, n) : TRUE
    BY <1>1, <2>1, OfSlot, LookupType
  <2> QED
    BY <2>2 DEF MatchesIn
<1> QED
  BY <1>2, <1>3

\* A step that leaves the slots alone leaves the map alone.
LEMMA SameMap ==
  ASSUME slot' = slot
  PROVE  [n \in Name |-> lookup(n)]' = [n \in Name |-> lookup(n)]
  BY DEF lookup, Matches

\* Every step of the directory is a step of the map, or leaves it as it is.
LEMMA StepRefines ==
  ASSUME IInv, [Next]_vars
  PROVE  [Abstract!Next]_(Abstract!vars)
<1> DEFINE file == [n \in Name |-> lookup(n)]
           listing == loop.kind \in {"list", "open"}
<1>0. SlotsOK
  BY DEF IInv
<1>1. ASSUME NEW n \in Name, filesys_create(n)
      PROVE  [Abstract!Next]_(Abstract!vars)
  <2>1. PICK s \in Sector : dir_add(n, s)
    BY <1>1 DEF filesys_create
  <2>2. opened' = opened /\ loop' = loop /\ shown' = shown /\ ~listing
    BY <1>1, PromptAtRest DEF filesys_create
  <2>3. CASE slot' = slot
    BY <2>2, <2>3, SameMap DEF Abstract!vars
  <2>4. CASE lookup(n) = None /\ \A m \in Name : lookup(m)' = IF m = n THEN s ELSE lookup(m)
    <3>1. file' = [file EXCEPT ![n] = s]
      BY <2>4
    <3>2. Abstract!Add(n, s)
      BY <2>2, <2>4, <3>1 DEF Abstract!Add, Abstract!Files
    <3> QED
      BY <3>2 DEF Abstract!Next
  <2> QED
    BY <1>0, <2>1, <2>3, <2>4, AddEffect
<1>2. ASSUME NEW n \in Name, slot' = slot, opened' = lookup(n), shown' = shown,
             loop'.kind = loop.kind
      PROVE  [Abstract!Next]_(Abstract!vars)
  <2>1. Abstract!Open(n)
    BY <1>2, SameMap DEF Abstract!Open
  <2> QED
    BY <2>1 DEF Abstract!Next
<1>3. ASSUME NEW n \in Name, dir_remove(n), opened' = opened, shown' = shown,
             loop'.kind = loop.kind, ~listing
      PROVE  [Abstract!Next]_(Abstract!vars)
  <2>1. \A m \in Name : lookup(m)' = IF m = n THEN None ELSE lookup(m)
    BY <1>0, <1>3, RemoveEffect
  <2>2. file' = [file EXCEPT ![n] = None]
    BY <2>1
  <2>3. Abstract!Remove(n)
    BY <1>3, <2>2 DEF Abstract!Remove
  <2> QED
    BY <2>3 DEF Abstract!Next
<1>4. ASSUME NEW kind \in {"list", "open", "remove"}, StartLoop(kind)
      PROVE  [Abstract!Next]_(Abstract!vars)
  <2>1. slot' = slot /\ opened' = opened /\ shown' = shown /\ loop'.kind = kind
    BY <1>4 DEF StartLoop
  <2>2. ~listing
    BY <1>4, PromptAtRest DEF StartLoop
  <2>3. CASE kind = "remove"
    BY <2>1, <2>2, <2>3, SameMap DEF Abstract!vars
  <2>4. CASE kind \in {"list", "open"}
    <3>1. Abstract!StartListing
      BY <2>1, <2>2, <2>4, SameMap DEF Abstract!StartListing
    <3> QED
      BY <3>1 DEF Abstract!Next
  <2> QED
    BY <2>3, <2>4
<1>5. CASE filesys_create_fails
  BY <1>5, SameMap DEF filesys_create_fails, Abstract!vars
<1>6. CASE dir_readdir
  <2>1. PICK i \in DOMAIN slot :
           /\ i \in Nat \ {0} /\ slot[i].in_use /\ slot[i].name \in Name
           /\ slot[i].name \notin NamesBefore(This.pos)
           /\ loop' = [loop EXCEPT !.name = slot[i].name]
           /\ shown' = IF loop.kind = "remove" THEN shown ELSE Append(shown, slot[i].name)
    BY <1>6, ReadEffect
  <2>2. loop.kind \in {"list", "open", "remove"} /\ loop'.kind = loop.kind
    BY <1>6, <2>1, InLoop DEF dir_readdir, IInv, LoopType
  <2>3. slot' = slot /\ opened' = opened
    BY <1>6 DEF dir_readdir
  <2>4. CASE loop.kind = "remove"
    BY <2>1, <2>2, <2>3, <2>4, SameMap DEF Abstract!vars
  <2>5. CASE loop.kind # "remove"
    <3>1. ShownNames = NamesBefore(This.pos)
      BY <2>2, <2>5 DEF IInv, ShownSoFar, This
    <3>2. slot[i].name \in Abstract!Files \ Abstract!Shown
      BY <1>0, <2>1, <3>1, FilesAreNames DEF ShownNames, Abstract!Shown
    <3>3. Abstract!Show(slot[i].name)
      BY <2>1, <2>2, <2>3, <2>5, <3>2, SameMap DEF Abstract!Show
    <3> QED
      BY <2>1, <3>3 DEF Abstract!Next
  <2> QED
    BY <2>4, <2>5
<1>7. CASE ListBody
  <2>1. loop'.kind = loop.kind
    BY <1>7 DEF ListBody, IInv, LoopType
  <2> QED
    BY <1>7, <2>1, SameMap DEF ListBody, Abstract!vars
<1>8. CASE OpenBody
  <2>1. loop'.kind = loop.kind /\ loop.name \in Name
    BY <1>8 DEF OpenBody, IInv, LoopType
  <2> QED
    BY <1>2, <1>8, <2>1 DEF OpenBody, filesys_open
<1>9. CASE RemoveBody
  <2>1. loop'.kind = loop.kind /\ loop.name \in Name /\ ~listing
    BY <1>9 DEF RemoveBody, IInv, LoopType
  <2> QED
    BY <1>3, <1>9, <2>1 DEF RemoveBody, filesys_remove
<1>10. CASE EndLoop
  <2>1. /\ slot' = slot /\ opened' = opened /\ shown' = <<>> /\ loop'.kind = "none"
        /\ ~Prompt /\ Rest(This.pos) = {}
    BY <1>10 DEF EndLoop, NoLoop
  <2>2. loop.kind \in {"list", "open", "remove"} /\ This.pos \in Nat \ {0}
    BY <2>1, InLoop
  <2>3. CASE loop.kind = "remove"
    <3>1. shown = <<>>
      BY <2>3 DEF IInv, ShownSoFar
    <3> QED
      BY <2>1, <2>3, <3>1, SameMap DEF Abstract!vars
  <2>4. CASE loop.kind # "remove"
    <3>1. Abstract!Shown = NamesBefore(This.pos)
      BY <2>2, <2>4 DEF IInv, ShownSoFar, This, ShownNames, Abstract!Shown
    <3>2. DOMAIN slot \subseteq Nat
      BY <1>0, SlotCount DEF SlotsOK
    <3>3. Abstract!Shown \subseteq Abstract!Files
      BY <1>0, <3>1, <3>2, FilesAreNames DEF NamesBefore
    <3>4. ASSUME NEW n \in Abstract!Files
          PROVE  n \in Abstract!Shown
      <4>1. PICK i \in DOMAIN slot \ {0} : slot[i].in_use /\ slot[i].name = n
        BY <1>0, FilesAreNames
      <4>2. i < This.pos /\ i >= 1
        BY <2>1, <2>2, <3>2, <4>1 DEF Rest
      <4> QED
        BY <3>1, <4>1, <4>2 DEF NamesBefore
    <3>5. Abstract!EndListing
      BY <2>1, <2>2, <2>4, <3>3, <3>4, SameMap DEF Abstract!EndListing
    <3> QED
      BY <3>5 DEF Abstract!Next
  <2> QED
    BY <2>3, <2>4
<1>11. CASE UNCHANGED vars
  BY <1>11, SameMap DEF vars, Abstract!vars
<1>12. ASSUME NEW n \in Name, Open(n)
       PROVE  [Abstract!Next]_(Abstract!vars)
  BY <1>2, <1>12 DEF Open, filesys_open
<1>13. ASSUME NEW n \in Name, Remove(n)
       PROVE  [Abstract!Next]_(Abstract!vars)
  BY <1>3, <1>13, PromptAtRest DEF Remove, filesys_remove
<1> QED
  BY <1>1, <1>4, <1>5, <1>6, <1>7, <1>8, <1>9, <1>10, <1>11, <1>12, <1>13 DEF Next

\* Slots that are reused, skipped and appended implement a map from names to
\* inodes, and a loop over the directory reads every name once
\* (dir_add, dir_remove, lookup, dir_readdir).
THEOREM Refinement == Spec => ImplementsNameMap
<1>1. Init => Abstract!Init
  BY InitRefines
<1>2. IInv /\ [Next]_vars => [Abstract!Next]_(Abstract!vars)
  BY StepRefines
<1> QED
  BY <1>1, <1>2, Invariant, PTL DEF Spec, ImplementsNameMap, Abstract!Spec
=============================================================================
