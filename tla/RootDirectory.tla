--------------------------- MODULE RootDirectory ---------------------------
(***************************************************************************)
(* The root directory of the a3 file system (a3/fs/directory.c,            *)
(* a3/fs/filesys.c): its file is an array of slots, the first of which     *)
(* names the parent; commands reach it through a struct dir with a         *)
(* position and a count of openers.  There is one such struct, cwd, while  *)
(* anybody has the directory open, except that filesys_remove makes        *)
(* another one for the same inode.  The inode does not count its openers.  *)
(*                                                                         *)
(* Commands on one file are one action.  The commands that go through the  *)
(* directory (a3/fs/fsutil.c, a3/fs/fsutil2.c) are loops of dir_readdir    *)
(* whose body may open or remove the file just read.  Use of freed memory  *)
(* is not followed.  Names hold no slash: no command makes a directory.    *)
(* Each Faulty... operator is a plausible fault of the definition after it.*)
(***************************************************************************)
EXTENDS Integers, Sequences, FiniteSets

CONSTANTS
  Name,       \* names given to the commands
  TooLong,    \* those longer than NAME_MAX
  Sector,     \* sectors an inode may be in
  None,       \* no file, no sector
  EntryCnt,   \* slots of a new directory, MAX_FILES_IN_DIRECTORY
  MaxSlots    \* bound: slots the directory grows to

ASSUME SlotAssumption ==
  EntryCnt \in Nat \ {0} /\ MaxSlots \in Nat /\ TooLong \subseteq Name
ASSUME NoneAssumption == None \notin Name \cup Sector

VARIABLES
  slot,       \* the entries of the directory, by offset
  handles,    \* cwd, the struct dirs, and whether the root's inode is in memory
  loop,       \* the dir_readdir loop under way: its kind, dir and last name
  opened,     \* history: what filesys_open found last
  shown       \* history: the names the listing loop under way has read

vars == <<slot, handles, loop, opened, shown>>

ROOT_DIR_SECTOR == 1
Parent == [name |-> None, sector |-> ROOT_DIR_SECTOR, in_use |-> TRUE]
Unused == [name |-> None, sector |-> None, in_use |-> FALSE]

\* Fault: the entry of the parent is not marked as used.
FaultyDirCreate ==
  [i \in 0 .. EntryCnt - 1 |->
     IF i = 0 THEN [Parent EXCEPT !.in_use = FALSE] ELSE Unused]
dir_create == [i \in 0 .. EntryCnt - 1 |-> IF i = 0 THEN Parent ELSE Unused]

\* A struct dir that is not allocated.
Freed == [pos |-> 0, open_cnt |-> 0, valid |-> FALSE]
NoLoop == [kind |-> "none", dir |-> 0, name |-> None]
Prompt == loop = NoLoop

Init ==
  /\ slot = dir_create
  /\ handles = [cwd |-> 0, dirs |-> [h \in 1 .. 2 |-> Freed], inode |-> FALSE]
  /\ loop = NoLoop /\ opened = None /\ shown = <<>>

-----------------------------------------------------------------------------
(* Handles.  valid: the inode the struct points to has not been freed.      *)

NewHandle(hs) == CHOOSE h \in DOMAIN hs.dirs : hs.dirs[h] = Freed

dir_open(hs, h) ==
  [hs EXCEPT !.dirs[h] = [pos |-> 1, open_cnt |-> 1, valid |-> TRUE], !.inode = TRUE]

\* Returns the new cwd.
dir_open_root(hs) ==
  IF hs.cwd = 0 THEN [dir_open(hs, NewHandle(hs)) EXCEPT !.cwd = NewHandle(hs)]
  ELSE [hs EXCEPT !.dirs[hs.cwd].open_cnt = @ + 1]

\* Fault: the struct is never found unused.
FaultyDirClose(hs, h) == [hs EXCEPT !.dirs[h].open_cnt = @ - 1]

\* The last close frees the inode, whatever other struct points to it, and
\* clears cwd, whether it was this struct or not.
dir_close(hs, h) ==
  IF hs.dirs[h].open_cnt > 1 THEN [hs EXCEPT !.dirs[h].open_cnt = @ - 1]
  ELSE [cwd |-> 0, inode |-> FALSE,
        dirs |-> [g \in DOMAIN hs.dirs |->
                    IF g = h THEN Freed ELSE [hs.dirs[g] EXCEPT !.valid = FALSE]]]

\* dir_open_root, some use of the directory, and dir_close.
ByRoot(hs) == dir_close(dir_open_root(hs), dir_open_root(hs).cwd)

\* dir_open_path of an empty path is dir_open_root, or dir_reopen of cwd.
ByPath(hs) ==
  IF hs.cwd = 0 THEN ByRoot(hs)
  ELSE dir_close(dir_open(hs, NewHandle(hs)), NewHandle(hs))

-----------------------------------------------------------------------------
(* Slots.                                                                   *)

\* Where the name stands; the search skips the parent.
Matches(n) == {i \in DOMAIN slot : i >= 1 /\ slot[i].in_use /\ slot[i].name = n}
FirstOf(S) == CHOOSE i \in S : \A j \in S : i <= j
lookup(n) == IF Matches(n) = {} THEN None ELSE slot[FirstOf(Matches(n))].sector

\* Fault: the first slot is taken for free without a look.
FaultyFreeSlot == 1
\* The first slot that is not in use, else the end of the file.
FreeSlot == FirstOf({i \in DOMAIN slot : ~slot[i].in_use} \cup {Cardinality(DOMAIN slot)})

\* A name too long or in use is refused; a write after the end of the file may
\* find the disk full.
dir_add(n, s) ==
  \/ /\ n \in TooLong \/ lookup(n) # None
     /\ UNCHANGED slot
  \/ /\ n \notin TooLong /\ lookup(n) = None /\ FreeSlot < MaxSlots
     /\ slot' = [i \in DOMAIN slot \cup {FreeSlot} |->
                   IF i = FreeSlot THEN [name |-> n, sector |-> s, in_use |-> TRUE]
                   ELSE slot[i]]
  \/ /\ n \notin TooLong /\ lookup(n) = None /\ FreeSlot \notin DOMAIN slot
     /\ UNCHANGED slot

\* The entry keeps its name and sector.
dir_remove(n) ==
  IF Matches(n) = {} THEN UNCHANGED slot
  ELSE slot' = [slot EXCEPT ![FirstOf(Matches(n))].in_use = FALSE]

-----------------------------------------------------------------------------
(* Commands on one file.                                                    *)

\* filesys_create, or recover 0 of an inode in a free sector.
filesys_create(n) ==
  /\ Prompt
  /\ \E s \in Sector \ {slot[i].sector : i \in {j \in DOMAIN slot : slot[j].in_use}} :
       dir_add(n, s)
  /\ handles' = ByRoot(handles)
  /\ UNCHANGED <<loop, opened, shown>>

\* No sector for the inode or its blocks: the directory is not touched.
filesys_create_fails ==
  /\ Prompt
  /\ handles' = ByRoot(handles)
  /\ UNCHANGED <<slot, loop, opened, shown>>

\* Opened by read, write, size, seek, cat, copy_in or copy_out.
filesys_open(n) ==
  /\ opened' = lookup(n)
  /\ handles' = ByRoot(handles)

Open(n) == Prompt /\ filesys_open(n) /\ UNCHANGED <<slot, loop, shown>>

filesys_remove(n) ==
  /\ dir_remove(n)
  /\ handles' = ByPath(handles)

Remove(n) == Prompt /\ filesys_remove(n) /\ UNCHANGED <<loop, opened, shown>>

-----------------------------------------------------------------------------
(* Loops of dir_readdir: "list" of ls and file_count, "open" of find_file,  *)
(* fragmentation_degree, recover 2 and the first loop of defragment,        *)
(* "remove" of its second loop.                                             *)

This == handles.dirs[loop.dir]

StartLoop(kind) ==
  /\ Prompt
  /\ handles' = dir_open_root(handles)
  /\ loop' = [kind |-> kind, dir |-> dir_open_root(handles).cwd, name |-> None]
  /\ UNCHANGED <<slot, opened, shown>>

\* Fault: the position moves before the entry is read.
FaultyRest(pos) == {i \in DOMAIN slot : i > pos /\ slot[i].in_use}
\* The entries dir_readdir can still find.
Rest(pos) == {i \in DOMAIN slot : i >= pos /\ slot[i].in_use}

dir_readdir ==
  /\ ~Prompt /\ loop.name = None /\ This.valid /\ Rest(This.pos) # {}
  /\ \E i \in {FirstOf(Rest(This.pos))} :
       /\ handles' = [handles EXCEPT !.dirs[loop.dir].pos = i + 1]
       /\ loop' = [loop EXCEPT !.name = slot[i].name]
       /\ shown' = IF loop.kind = "remove" THEN shown ELSE Append(shown, slot[i].name)
  /\ UNCHANGED <<slot, opened>>

ListBody ==
  /\ loop.kind = "list" /\ loop.name # None
  /\ loop' = [loop EXCEPT !.name = None]
  /\ UNCHANGED <<slot, handles, opened, shown>>

OpenBody ==
  /\ loop.kind = "open" /\ loop.name # None
  /\ filesys_open(loop.name)
  /\ loop' = [loop EXCEPT !.name = None]
  /\ UNCHANGED <<slot, shown>>

\* The inode of the root is freed here, and the next dir_readdir of the loop
\* would use it.
RemoveBody ==
  /\ loop.kind = "remove" /\ loop.name # None
  /\ filesys_remove(loop.name)
  /\ loop' = [loop EXCEPT !.name = None]
  /\ UNCHANGED <<opened, shown>>

EndLoop ==
  /\ ~Prompt /\ loop.name = None /\ This.valid /\ Rest(This.pos) = {}
  /\ handles' = dir_close(handles, loop.dir)
  /\ loop' = NoLoop /\ shown' = <<>>
  /\ UNCHANGED <<slot, opened>>

Next ==
  \/ \E n \in Name : filesys_create(n) \/ Open(n) \/ Remove(n)
  \/ \E kind \in {"list", "open", "remove"} : StartLoop(kind)
  \/ filesys_create_fails \/ dir_readdir \/ ListBody \/ OpenBody \/ RemoveBody \/ EndLoop

Spec == Init /\ [][Next]_vars

-----------------------------------------------------------------------------
(* Properties.                                                              *)

\* Slots, handles and the loop hold what the code can put there; the first slot
\* stays the parent's (dir_create, dir_add).
TypeOK ==
  /\ DOMAIN slot = 0 .. Cardinality(DOMAIN slot) - 1
  /\ slot[0].name = None /\ slot[0].sector = ROOT_DIR_SECTOR
  /\ \A i \in DOMAIN slot \ {0} :
       slot[i] = Unused \/ slot[i] \in [name : Name, sector : Sector, in_use : BOOLEAN]
  /\ handles.cwd \in {0} \cup DOMAIN handles.dirs /\ handles.inode \in BOOLEAN
  /\ handles.dirs \in [1 .. 2 -> [pos : Nat, open_cnt : Nat, valid : BOOLEAN]]
  /\ loop \in [kind : {"none", "list", "open", "remove"}, dir : 0 .. 2, name : Name \cup {None}]
  /\ opened \in Sector \cup {None}

Abstract == INSTANCE NameMap WITH
  file <- [n \in Name |-> lookup(n)], result <- opened,
  listing <- loop.kind \in {"list", "open"}

\* Slots that are reused, skipped and appended implement a map from names to
\* inodes: no name appears twice, a name leads to the inode it was created with,
\* and a loop over the directory reads every name once even when its body opens
\* files through the same struct dir (dir_add, dir_remove, lookup, dir_readdir).
ImplementsNameMap == Abstract!Spec

\* Openers and closers balance: at the prompt nothing of the directory is left in
\* memory, so that the next listing starts at the first entry; and a loop that
\* does not remove files keeps a live inode under its struct dir, whatever its
\* body opens and closes (dir_open_root, dir_close, inode_close).
HandlesBalanced ==
  /\ Prompt => handles = [cwd |-> 0, dirs |-> [h \in 1 .. 2 |-> Freed], inode |-> FALSE]
  /\ loop.kind \in {"list", "open"} =>
       /\ handles.cwd = loop.dir /\ handles.inode
       /\ This.valid /\ This.open_cnt = 1
=============================================================================
