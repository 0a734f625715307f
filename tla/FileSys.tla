------------------------------ MODULE FileSys ------------------------------
(***************************************************************************)
(* Space management of the a3 file system (a3/fs): the free map and the    *)
(* file that stores it, inodes with direct, indirect and doubly indirect   *)
(* blocks, the root directory, the inodes kept in memory while a file is   *)
(* in the file table, and the shell commands that change them.             *)
(*                                                                         *)
(* Sectors are read and written through the buffer cache, which module     *)
(* BufferCache shows to be transparent: here a sector holds what was last  *)
(* written to it.  A command runs to completion before the next one is     *)
(* read, so an action is one command.  A sector's content is abstracted to *)
(* what the commands tell apart: an inode, a block of pointers, zeros, or  *)
(* bytes of a file.  The position of an open file is left out (it is the   *)
(* subject of module FileIO): a write may start and end at any byte of     *)
(* Sizes.                                                                  *)
(***************************************************************************)
EXTENDS Integers, Sequences, FiniteSets, FiniteSetsExt

CONSTANTS
  NumSectors,                  \* block_size(fs_device)
  BLOCK_SECTOR_SIZE,           \* bytes of a sector
  DIRECT_BLOCKS_COUNT,         \* direct pointers of an inode
  INDIRECT_BLOCKS_PER_SECTOR,  \* pointers of an index block
  RootBlocks,                  \* blocks of the root directory
  Name,                        \* names given to the commands
  Sizes                        \* bound: lengths and positions, in bytes

ASSUME GeometryAssumption ==
  /\ NumSectors \in Nat /\ RootBlocks \in 1 .. DIRECT_BLOCKS_COUNT
  /\ BLOCK_SECTOR_SIZE \in Nat \ {0} /\ DIRECT_BLOCKS_COUNT \in Nat \ {0}
  /\ INDIRECT_BLOCKS_PER_SECTOR \in Nat \ {0}
  /\ NumSectors > RootBlocks + 4
\* copy_in computes free_sectors - 3 - 1 - 128 with unsigned integers once
\* free_sectors exceeds 123 + 128; with three direct blocks it is never negative.
ASSUME CopyInAssumption == DIRECT_BLOCKS_COUNT >= 3
ASSUME SizesAssumption == Sizes \subseteq Nat

VARIABLES
  disk,          \* what each sector holds
  free_map,      \* sectors marked in the bitmap in memory
  saved_map,     \* sectors marked in the free map file
  map_file,      \* the inode of the free map file could be read at startup
  dir,           \* the root directory: the inode sector of a name, 0 if none
  open_inodes,   \* inodes in memory, by sector; each has open_cnt = 1
  file_table,    \* names of the file table
  stale,         \* names of the file table whose inode has been freed
  panicked,      \* the functions whose ASSERT or PANIC printed and went on
  status         \* what the last command returned

vars == <<disk, free_map, saved_map, map_file, dir, open_inodes, file_table,
          stale, panicked, status>>

FREE_MAP_SECTOR == 0
ROOT_DIR_SECTOR == 1
Sector == 0 .. NumSectors - 1
\* free_map_init creates a bitmap of block_size - 1 bits.
Bits == 0 .. NumSectors - 2
\* After a format: both inodes, one block of free map, the root's blocks.
SystemSectors == 0 .. RootBlocks + 2

D == DIRECT_BLOCKS_COUNT
P == INDIRECT_BLOCKS_PER_SECTOR
MinOf(a, b) == IF a < b THEN a ELSE b
DivRoundUp(a, b) == (a + b - 1) \div b
bytes_to_sectors(size) == DivRoundUp(size, BLOCK_SECTOR_SIZE)

\* recover names a file after the sector of its inode.
RecoveredName(s) == <<"recovered0", s>>
Entry == Name \cup {RecoveredName(s) : s \in Bits}

\* What a sector can hold.
Pointer == [0 .. P - 1 -> Sector]
Zeros == [kind |-> "zeros"]
Data(n) == [kind |-> "data", of |-> n]
IndexBlock(ptr) == [kind |-> "index", ptr |-> ptr]
Inode == [kind : {"inode"}, direct : [0 .. D - 1 -> Sector],
          indirect : Sector, doubly : Sector, length : Nat]
Block == {Zeros} \cup {Data(n) : n \in Entry}
           \cup [kind : {"index"}, ptr : Pointer] \cup Inode

\* calloc'd inode of inode_create.
NewInode(length) == [kind |-> "inode", direct |-> [i \in 0 .. D - 1 |-> 0],
                     indirect |-> 0, doubly |-> 0, length |-> length]

\* An inode whose n blocks were allocated one after the other.
FormattedInode(first, n) ==
  [NewInode(n * BLOCK_SECTOR_SIZE) EXCEPT
     !.direct = [i \in 0 .. D - 1 |-> IF i < n THEN first + i ELSE 0]]

\* The free map file takes sector 2, the root directory the sectors after it.
free_map_create == FormattedInode(2, 1)
dir_create == FormattedInode(3, RootBlocks)

\* do_format and free_map_open.
Init ==
  /\ disk = [s \in Sector |->
               CASE s = FREE_MAP_SECTOR -> free_map_create
                 [] s = ROOT_DIR_SECTOR -> dir_create
                 [] OTHER -> Zeros]
  /\ free_map = SystemSectors /\ saved_map = SystemSectors
  /\ map_file = TRUE
  /\ dir = [n \in Entry |-> 0]
  /\ open_inodes = [s \in {} |-> Zeros]
  /\ file_table = {} /\ stale = {}
  /\ panicked = {} /\ status = "ok"

-----------------------------------------------------------------------------
(* The free map.  Commands are composed as functions of a record of the    *)
(* variables they change.                                                   *)

Now == [disk |-> disk, map |-> free_map, saved |-> saved_map, dir |-> dir,
        open |-> open_inodes, table |-> file_table, stale |-> stale,
        panicked |-> panicked, status |-> status]

Becomes(st) ==
  /\ disk' = st.disk /\ free_map' = st.map /\ saved_map' = st.saved
  /\ dir' = st.dir /\ open_inodes' = st.open /\ file_table' = st.table
  /\ stale' = st.stale /\ panicked' = st.panicked /\ status' = st.status

\* The ASSERTs and PANICs that the model can reach, by function.  Each prints a
\* message and goes on.
Message == {"free_map_release", "inode_reserve", "inode_create", "free_map_open"}
Printed(failed, message) == IF failed THEN {message} ELSE {}

num_free_sectors(st) == Cardinality(Bits \ st.map)

\* Bitmaps, as the set of their bits that are true.
bitmap_set_multiple(map, S, value) == IF value THEN map \cup S ELSE map \ S
bitmap_all(map, S) == S \subseteq map

\* Fault: the scan goes one bit past the end of the map.
FaultyAvailable(st) == IF map_file THEN Sector \ st.map ELSE {}

\* What free_map_allocate(1, _) can find.  When the free map's inode was lost
\* its file is empty, and saving the map extends it, which allocates, which
\* saves the map again: the nested calls end when no sector is left, fail, and
\* undo themselves one by one.
Available(st) == IF map_file THEN Bits \ st.map ELSE {}

\* Fault: the map is not written to its file.
FaultySave(st) == st

\* bitmap_write of the map, into a file that exists and is long enough.
Save(st) == IF map_file THEN [st EXCEPT !.saved = st.map] ELSE st

\* free_map_allocate of every sector in S, one by one.
Take(st, S) ==
  IF S = {} THEN st
  ELSE Save([st EXCEPT !.map = bitmap_set_multiple(@, S, TRUE)])

\* Fault: cnt + 1 bits are reset.
FaultyRelease(st, S, cnt) ==
  Save([st EXCEPT !.map = @ \ (S \cup {s + 1 : s \in S}),
                  !.panicked = @ \cup Printed(~ S \subseteq st.map \/ Cardinality(S) # cnt,
                                              "free_map_release")])

\* free_map_release of every sector in S, cnt calls in all.
free_map_release(st, S, cnt) ==
  Save([st EXCEPT !.map = bitmap_set_multiple(@, S, FALSE),
                  !.panicked = @ \cup Printed(~ bitmap_all(st.map, S) \/ Cardinality(S) # cnt,
                                              "free_map_release")])

\* buffer_cache_write of one block to every sector in S.
Write(st, S, block) ==
  [st EXCEPT !.disk = [s \in Sector |-> IF s \in S THEN block ELSE @[s]]]

\* Fault: an allocated sector keeps what it held.
FaultyZeroed(st, S) == st

\* A block of zeros to every sector in S just given to a file.
Zeroed(st, S) == Write(st, S, Zeros)

-----------------------------------------------------------------------------
(* Inodes.                                                                  *)

\* A sector read as an array of pointers.
Pointers(block) == CASE block.kind = "index" -> block.ptr
                     [] block.kind = "zeros" -> [i \in 0 .. P - 1 |-> 0]

\* Where block k of a file is found: <<0, i>> is direct pointer i, <<1>> and <<2>>
\* the two index blocks of the inode, <<1, i>> and <<2, j>> their pointers, and
\* <<2, j, i>> pointer i of the second-level block j.
BlockSlot(k) == LET k2 == k - D - P
                IN  IF k < D THEN <<0, k>>
                    ELSE IF k < D + P THEN <<1, k - D>>
                    ELSE <<2, k2 \div P, k2 % P>>

\* Every slot in use by a file of n blocks, index blocks included.
Slots(n) ==
  LET blocks == {BlockSlot(k) : k \in 0 .. n - 1}
  IN  blocks \cup UNION {{SubSeq(p, 1, m) : m \in 1 .. Len(p) - 1} :
                           p \in {q \in blocks : q[1] # 0}}

\* The sector that slot p of an inode names.
SectorAt(dsk, inode, p) ==
  LET root == IF p[1] = 1 THEN inode.indirect ELSE inode.doubly
  IN  CASE p[1] = 0 -> inode.direct[p[2]]
        [] p[1] # 0 /\ Len(p) = 1 -> root
        [] p[1] # 0 /\ Len(p) = 2 -> Pointers(dsk[root])[p[2]]
        [] p[1] # 0 /\ Len(p) = 3 ->
             Pointers(dsk[Pointers(dsk[root])[p[2]]])[p[3]]

index_to_sector(dsk, inode, k) == SectorAt(dsk, inode, BlockSlot(k))

\* The sectors inode_deallocate releases, by the inode's length.
InodeBlocks(dsk, inode) ==
  {SectorAt(dsk, inode, p) : p \in Slots(bytes_to_sectors(inode.length))}

\* The blocks of a file, in order.
get_inode_data_sectors(dsk, inode) ==
  [k \in 0 .. bytes_to_sectors(inode.length) - 1 |-> index_to_sector(dsk, inode, k)]

\* The loops over an array of pointers: each of the first n that is 0 gets the
\* first free sector, zeroed.  They stop when there is none.
Fill(st, ptr, n) ==
  LET free == Available(st)
      want == {i \in 0 .. n - 1 : ptr[i] = 0}
      Rank(x, S) == Cardinality({y \in S : y < x})
      Nth(i) == CHOOSE s \in free : Rank(s, free) = Rank(i, want)
      given == {i \in want : Rank(i, want) < Cardinality(free)}
      took == {Nth(i) : i \in given}
  IN  [st |-> Zeroed(Take(st, took), took),
       ptr |-> [i \in DOMAIN ptr |-> IF i \in given THEN Nth(i) ELSE ptr[i]],
       ok |-> given = want]

\* Fault: the sector of a new index block is not marked.
FaultyIndexSector(st, entry) ==
  LET s == IF Available(st) = {} THEN 0 ELSE Min(Available(st))
  IN  IF entry # 0 THEN [st |-> st, entry |-> entry]
      ELSE [st |-> Write(st, {s}, Zeros), entry |-> s]

\* An index block that is not there yet.  The result of free_map_allocate is not
\* looked at: when it fails the zeros go to sector 0.
IndexSector(st, entry) ==
  LET free == Available(st)
      s == IF free = {} THEN 0 ELSE Min(free)
  IN  IF entry # 0 THEN [st |-> st, entry |-> entry]
      ELSE [st |-> Write(Take(st, IF free = {} THEN {} ELSE {s}), {s}, Zeros),
            entry |-> s]

\* The index block is written only when every pointer was found a block.
Indexed(r, entry) ==
  [st |-> IF r.ok THEN Write(r.st, {entry}, IndexBlock(r.ptr)) ELSE r.st,
   entry |-> entry, ok |-> r.ok]

\* inode_reserve_indirect at level 1, with level 0 in Fill.
ReserveLevel1(st, entry, n) ==
  LET FillIndex(index) ==
        Indexed(Fill(index.st, Pointers(index.st.disk[index.entry]), n), index.entry)
  IN  FillIndex(IndexSector(st, entry))

\* inode_reserve_indirect at level 2: the second-level blocks in turn, until one
\* of them fails.
ReserveLevel2(st, entry, n) ==
  LET Sub(prev, j, r) == [st |-> r.st, ok |-> r.ok,
                          ptr |-> [prev.ptr EXCEPT ![j] = r.entry]]
      Step(prev, j) ==
        IF prev.ok
        THEN Sub(prev, j, ReserveLevel1(prev.st, prev.ptr[j], MinOf(n - j * P, P)))
        ELSE prev
      FillIndex(index) ==
        LET after[j \in 0 .. DivRoundUp(n, P)] ==
              IF j = 0 THEN [st |-> index.st, ok |-> TRUE,
                             ptr |-> Pointers(index.st.disk[index.entry])]
              ELSE Step(after[j - 1], j - 1)
        IN  Indexed(after[DivRoundUp(n, P)], index.entry)
  IN  FillIndex(IndexSector(st, entry))

\* inode_reserve: the inode with blocks for length bytes, or with those found
\* before the disk was full; r is what each of the three levels found.  A file
\* longer than the three levels hold fails an ASSERT.
inode_reserve(st, inode, length) ==
  LET n == bytes_to_sectors(length)
      tooLong == n > D + P + P * P
      Doubly(d, r) ==
        [st |-> [r.st EXCEPT !.panicked = @ \cup Printed(r.ok /\ tooLong, "inode_reserve")],
         inode |-> [d EXCEPT !.doubly = r.entry], ok |-> r.ok /\ ~ tooLong]
      Indirect(d, r) ==
        IF ~ r.ok \/ n <= D + P
        THEN [st |-> r.st, inode |-> [d EXCEPT !.indirect = r.entry], ok |-> r.ok]
        ELSE Doubly([d EXCEPT !.indirect = r.entry],
                    ReserveLevel2(r.st, d.doubly, MinOf(n - D - P, P * P)))
      Direct(r) ==
        IF ~ r.ok \/ n <= D
        THEN [st |-> r.st, inode |-> [inode EXCEPT !.direct = r.ptr], ok |-> r.ok]
        ELSE Indirect([inode EXCEPT !.direct = r.ptr],
                      ReserveLevel1(r.st, inode.indirect, MinOf(n - D, P)))
  IN  Direct(Fill(st, inode.direct, MinOf(n, D)))

\* inode_open: the inode in memory if there is one, else the one on disk.
inode_open(st, s) == IF s \in DOMAIN st.open THEN st.open[s] ELSE st.disk[s]

\* inode_close.  inode_reopen does not count openers, so the first close frees
\* the inode, whoever else has it open.
inode_close(st, s) ==
  [st EXCEPT !.open = [x \in DOMAIN @ \ {s} |-> @[x]],
             !.stale = @ \cup {n \in st.table : st.dir[n] = s /\ s \in DOMAIN st.open}]

-----------------------------------------------------------------------------
(* The commands.                                                            *)

Result(st, r) == [st EXCEPT !.status = r]

\* The inode sector of a name in the root directory, 0 when there is none.
lookup(st, n) == st.dir[n]

\* dir_add: the root directory always has a slot left, so only a name in use
\* fails.
dir_add(st, n, s) ==
  IF lookup(st, n) # 0 THEN Result(st, "error")
  ELSE Result([st EXCEPT !.dir[n] = s], "ok")

\* inode_create: the inode is written when all its blocks were found.  The ASSERT
\* lets a negative size pass, which inode_reserve then refuses.
inode_create(st, s, size) ==
  LET Written(r) == IF r.ok THEN Result(Write(r.st, {s}, r.inode), "ok")
                    ELSE Result(r.st, "error")
  IN  IF size < 0
      THEN Result([st EXCEPT !.panicked = @ \cup Printed(TRUE, "inode_create")], "error")
      ELSE Written(inode_reserve(st, NewInode(size), size))

\* filesys_create.  Whether the name is taken is found out last, and only the
\* sector of the inode is given back.
filesys_create(st, n, size) ==
  LET Add(t, s) == IF t.status = "ok" THEN dir_add(t, n, s) ELSE t
      GiveBack(t, s) == IF t.status = "ok" THEN t ELSE free_map_release(t, {s}, 1)
      CreateAt(s) == GiveBack(Add(inode_create(Take(st, {s}), s, size), s), s)
  IN  IF Available(st) = {} THEN Result(st, "error") ELSE CreateAt(Min(Available(st)))

\* The entry of the file table for a name, if there is one.
get_file_by_fname(st, n) == n \in st.table

\* filesys_open of a name in the root directory: dir_lookup opens its inode.
filesys_open(st, n) ==
  [st EXCEPT !.open = [x \in DOMAIN @ \cup {lookup(st, n)} |-> inode_open(st, x)]]

add_to_file_table(st, n) ==
  IF get_file_by_fname(st, n) THEN st ELSE [st EXCEPT !.table = @ \cup {n}]

\* How read, write, size and seek come by the file.
OpenByName(st, n) ==
  IF get_file_by_fname(st, n) THEN st ELSE add_to_file_table(filesys_open(st, n), n)

\* Fault: the extended inode is not written back.
FaultyExtend(st, s, inode) == [st EXCEPT !.open[s] = inode]

\* The inode in memory, extended and written back.
Extend(st, s, inode) == Write([st EXCEPT !.open[s] = inode], {s}, inode)

\* inode_write_at the bytes start .. end - 1.  The extended inode is written back
\* only when every block was found; otherwise 0 bytes are written, and short is
\* what the command returns then.
inode_write_at(st, n, start, end, short) ==
  LET s == lookup(st, n)
      Put(t) == Result(Write(t, {index_to_sector(t.disk, t.open[s], k) :
                                   k \in start \div BLOCK_SECTOR_SIZE
                                           .. (end - 1) \div BLOCK_SECTOR_SIZE},
                             Data(n)), "ok")
      Extended(r) ==
        IF r.ok THEN Put(Extend(r.st, s, [r.inode EXCEPT !.length = end]))
        ELSE Result([r.st EXCEPT !.open[s] = r.inode], short)
  IN  IF end <= st.open[s].length THEN Put(st)
      ELSE Extended(inode_reserve(st, st.open[s], end))

\* fsutil_write.
fsutil_write(st, n, start, end, short) ==
  IF lookup(st, n) = 0 THEN Result(st, "error")
  ELSE inode_write_at(OpenByName(st, n), n, start, end, short)

\* file_close of the file a name stands for.
file_close(st, n) == inode_close(st, lookup(st, n))

\* remove_from_file_table.
remove_from_file_table(st, n) ==
  IF n \notin st.table THEN st
  ELSE file_close([st EXCEPT !.table = @ \ {n}], n)

\* Fault: the index blocks are not released.
FaultyDeallocate(st, s, inode) ==
  LET blocks == {BlockSlot(k) : k \in 0 .. bytes_to_sectors(inode.length) - 1}
  IN  free_map_release(st, {s} \cup {SectorAt(st.disk, inode, p) : p \in blocks},
                       Cardinality(blocks) + 1)

\* inode_close of a removed inode: its own sector, then inode_deallocate.
inode_deallocate(st, s, inode) ==
  free_map_release(st, {s} \cup InodeBlocks(st.disk, inode),
                   Cardinality(Slots(bytes_to_sectors(inode.length))) + 1)

\* dir_remove, with the close that frees a removed inode.
dir_remove(st, n) ==
  LET s == lookup(st, n)
      erased == inode_close([st EXCEPT !.dir[n] = 0], s)
  IN  IF s = 0 THEN Result(st, "error")
      ELSE Result(inode_deallocate(erased, s, inode_open(st, s)), "ok")

\* filesys_remove in the root directory.
filesys_remove(st, n) == dir_remove(st, n)

\* fsutil_cat opens a file that is not in the table only while it prints it.  For
\* a file that does not exist it returns -1, and the command, which tests for 1,
\* returns 0.
fsutil_cat(st, n) ==
  IF get_file_by_fname(st, n) \/ lookup(st, n) = 0 THEN Result(st, "ok")
  ELSE Result(remove_from_file_table(OpenByName(st, n), n), "ok")

\* How much of a host file that does not fit copy_in decides to write.
CopyInSize(free) ==
  BLOCK_SECTOR_SIZE *
    (IF free <= D THEN free
     ELSE IF free <= D + P THEN free - 2
     ELSE free - ((free - 3 - 1 - P) \div P + 3))

\* copy_in of a host file of size bytes.  The read loop ends in an error when the
\* last fread returns no whole item (readable is FALSE), with the file created; a
\* write of 0 bytes is an error here.
CopyIn(st, n, size, readable) ==
  LET free == num_free_sectors(st)
      large == bytes_to_sectors(size) > free
      Made(t) ==
        CASE t.status # "ok" -> t
          [] t.status = "ok" /\ ~ readable -> Result(t, "error")
          [] t.status = "ok" /\ readable ->
               fsutil_write(t, n, 0, IF large THEN CopyInSize(free) ELSE size + 1, "error")
  IN  Made(filesys_create(st, n, IF large THEN 1 ELSE size))

-----------------------------------------------------------------------------
(* One action per command.  A command given a name whose inode was freed    *)
(* would use freed memory: what it does is undefined, and not modelled.     *)

\* create NAME SIZE; the size may be negative.
create(n) == /\ \E size \in Sizes \cup {-1} : Becomes(filesys_create(Now, n, size))
             /\ UNCHANGED map_file

\* write NAME ...; of a write that the full disk cuts short it only warns.
write(n) == /\ n \notin stale
            /\ \E end \in Sizes \ {0}, start \in Sizes \cup {0} :
                 start < end /\ Becomes(fsutil_write(Now, n, start, end, "ok"))
            /\ UNCHANGED map_file

\* read, size and seek leave the file in the file table.
open(n) == /\ n \notin stale
           /\ Becomes(IF dir[n] = 0 THEN Result(Now, "error")
                      ELSE Result(OpenByName(Now, n), "ok"))
           /\ UNCHANGED map_file

\* cat NAME
cat(n) == n \notin stale /\ Becomes(fsutil_cat(Now, n)) /\ UNCHANGED map_file

\* copy_out NAME, of a file that exists; an empty file cannot be read.
copy_out(n) ==
  /\ n \notin stale /\ dir[n] # 0
  /\ Becomes(Result(OpenByName(Now, n),
                    IF inode_open(Now, dir[n]).length = 0 THEN "error" ELSE "ok"))
  /\ UNCHANGED map_file

\* rm NAME
rm(n) == /\ n \notin stale
         /\ Becomes(filesys_remove(remove_from_file_table(Now, n), n))
         /\ UNCHANGED map_file

\* copy_in NAME
copy_in(n) == /\ n \notin stale
              /\ \E size \in Sizes, readable \in BOOLEAN :
                   Becomes(CopyIn(Now, n, size, readable))
              /\ UNCHANGED map_file

\* The two sectors marked before anything is read.
free_map_init == {FREE_MAP_SECTOR, ROOT_DIR_SECTOR}

\* Without an inode in sector 0 the free map is as free_map_init left it.
free_map_open(readable) ==
  IF readable THEN saved_map ELSE free_map_init

\* quit, then the shell is started again on the same disk: filesys_done and
\* filesys_init(false).
restart ==
  /\ map_file' = (disk[FREE_MAP_SECTOR].kind = "inode")
  /\ free_map' = free_map_open(map_file')
  /\ panicked' = panicked \cup Printed(~ map_file', "free_map_open")
  /\ open_inodes' = [s \in {} |-> Zeros] /\ file_table' = {} /\ stale' = {}
  /\ status' = "ok"
  /\ UNCHANGED <<disk, saved_map, dir>>

Next == \/ \E n \in Name : \/ create(n) \/ write(n) \/ open(n) \/ cat(n)
                           \/ rm(n) \/ copy_in(n) \/ copy_out(n)
        \/ restart

Spec == Init /\ [][Next]_vars

-----------------------------------------------------------------------------
(* The commands that go over the whole disk.                                *)

\* What dir_readdir lists.
Files == {n \in Entry : dir[n] # 0}

\* What a loop that opens and closes every file leaves behind.
OpenAndCloseAll ==
  /\ open_inodes' = [s \in DOMAIN open_inodes \ {dir[n] : n \in Files} |->
                       open_inodes[s]]
  /\ stale' = file_table
  /\ status' = "ok"
  /\ UNCHANGED <<disk, free_map, saved_map, map_file, dir, file_table, panicked>>

\* What it reports leaves the file system as it is.
fragmentation_degree == OpenAndCloseAll

\* recover 2 looks for data past the end of each file; it copies what it finds to
\* the host.  For an empty file it reads before an array, which is undefined.
recover_2 ==
  /\ \A n \in Files : inode_open(Now, dir[n]).length > 0
  /\ OpenAndCloseAll

\* find_file reads every file that is not empty, by name, which puts it into the
\* file table with the inode that find_file has open and closes next.
find_file ==
  /\ stale = {}
  /\ file_table' = file_table \cup {n \in Files : inode_open(Now, dir[n]).length > 0}
  /\ stale' = file_table'
  /\ open_inodes' = [s \in DOMAIN open_inodes \ {dir[n] : n \in Files} |->
                       open_inodes[s]]
  /\ status' = "ok"
  /\ UNCHANGED <<disk, free_map, saved_map, map_file, dir, panicked>>

\* recover 0: every free sector that still holds an inode is marked, in memory
\* only, and named.  Its blocks are not marked.  Adding an entry allocates
\* nothing, so the order of the sectors does not matter.
recover ==
  LET found == {s \in Bits \ free_map : disk[s].kind = "inode"}
  IN  /\ free_map' = bitmap_set_multiple(free_map, found, TRUE)
      /\ dir' = [n \in Entry |->
                   IF dir[n] = 0 /\ \E s \in found : n = RecoveredName(s)
                   THEN CHOOSE s \in found : n = RecoveredName(s) ELSE dir[n]]
      /\ status' = "ok"
      /\ UNCHANGED <<disk, saved_map, map_file, open_inodes, file_table, stale, panicked>>

\* With the commands above; recovered files can be given to the others too.
MaintenanceNext ==
  \/ Next
  \/ \E n \in Entry \ Name : write(n) \/ open(n) \/ rm(n)
  \/ fragmentation_degree \/ find_file \/ recover \/ recover_2

MaintenanceSpec == Init /\ [][MaintenanceNext]_vars

-----------------------------------------------------------------------------
(* Properties.                                                              *)

\* Every variable has its type.
TypeOK ==
  /\ disk \in [Sector -> Block]
  /\ free_map \subseteq Bits /\ saved_map \subseteq Bits /\ map_file \in BOOLEAN
  /\ dir \in [Entry -> Bits]
  /\ DOMAIN open_inodes \subseteq Bits
  /\ \A s \in DOMAIN open_inodes : open_inodes[s] \in Inode
  /\ file_table \subseteq Entry /\ stale \subseteq file_table
  /\ panicked \subseteq Message /\ status \in {"ok", "error"}

\* The sectors of a file: its inode, its index blocks and its blocks.
SectorsOf(n) == {dir[n]} \cup InodeBlocks(disk, disk[dir[n]])

\* What the directory reaches is marked in the free map that free_map_allocate
\* searches, as long as the map could be read: no sequence of creations that fail
\* half way, extensions, removals and restarts frees a sector in use.
UsedIsMarked ==
  map_file => SystemSectors \cup UNION {SectorsOf(n) : n \in Files} \subseteq free_map

\* No sector belongs to two files, to one file twice, or to a file and the
\* system: the pointers set up by inode_reserve over several failed and retried
\* extensions never meet.
NoSharing ==
  \A n \in Files :
    /\ SectorsOf(n) \cap SystemSectors = {}
    /\ Cardinality(SectorsOf(n)) =
         Cardinality(Slots(bytes_to_sectors(disk[dir[n]].length))) + 1
    /\ \A m \in Files \ {n} : SectorsOf(n) \cap SectorsOf(m) = {}

\* A block of a file holds zeros or bytes written to that file, and its index
\* blocks hold pointers: nothing a command writes for one file, zeros included,
\* lands in a sector of another.
ContentsKept ==
  \A n \in Files :
    LET inode == disk[dir[n]]
        blocks == get_inode_data_sectors(disk, inode)
        data == {blocks[k] : k \in DOMAIN blocks}
    IN  /\ \A s \in data : disk[s] \in {Zeros, Data(n)}
        /\ \A s \in InodeBlocks(disk, inode) \ data : disk[s].kind = "index"

\* The free map file agrees with the map in memory between commands, so that a
\* restart finds the same sectors free.
MapSaved == map_file => saved_map = free_map

\* As long as the map could be read at startup, free_map_release is only given
\* sectors that are marked, each once, and inode_reserve has no block left over
\* after its three levels: their ASSERTs hold through creations and extensions
\* that fail half way, removals and restarts.  (inode_create's ASSERT does not: create
\* passes on what atoi made of its argument; file_seek's is left to module FileIO.)
SpaceAssertsHold ==
  map_file => panicked \cap {"free_map_release", "inode_reserve"} = {}

\* Every entry of the file table has its inode in memory, and that inode agrees
\* with the one on disk about the length and about every block up to it, also
\* after an extension that failed half way and was not written back.
OpenInodesAgree ==
  /\ stale = {}
  /\ DOMAIN open_inodes = {dir[n] : n \in file_table}
  /\ \A s \in DOMAIN open_inodes :
       LET mem == open_inodes[s]
       IN  /\ mem.length = disk[s].length
           /\ \A p \in Slots(bytes_to_sectors(mem.length)) :
                SectorAt(disk, mem, p) = SectorAt(disk, disk[s], p)

\* Marked sectors that no file reaches.
Lost == free_map \ (SystemSectors \cup UNION {SectorsOf(n) : n \in Files})

\* Marked sectors come out of reach only in a command that returns an error, or in
\* a write that took the last free sector of the disk and was cut short: of that
\* one the shell only prints a warning (interpreter.c:242).
LostOnlyOnErrorOrFull ==
  [][(map_file' /\ ~ (Lost' \subseteq Lost)) =>
       (status' = "error" \/ Bits \subseteq free_map')]_vars

\* Removing a file frees exactly its sectors, whatever its inode in memory had
\* collected on the side.
RemoveFreesAll ==
  [][\A n \in Entry : (dir[n] # 0 /\ dir'[n] = 0 /\ map_file) =>
        free_map' = free_map \ SectorsOf(n)]_vars

\* The PANIC "can't read free map" of free_map_open is never reached: what quit
\* leaves on the disk can be opened again.
MapReadable == map_file

\* No entry of the file table refers to an inode that inode_close has freed:
\* only the last close of an inode frees its memory.
HandlesValid == stale = {}
=============================================================================
