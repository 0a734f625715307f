--------------------------- MODULE FileSysProofs ---------------------------
(***************************************************************************)
(* Proofs about the space management of the a3 file system, for disks,     *)
(* sectors and index blocks of any size.                                   *)
(***************************************************************************)
EXTENDS FileSys, NatLemmas, FiniteSetTheorems, SequenceTheorems

\* The records that commands are composed of.
IsState(st) ==
  st = [disk |-> st.disk, map |-> st.map, saved |-> st.saved, dir |-> st.dir,
        open |-> st.open, table |-> st.table, stale |-> st.stale,
        panicked |-> st.panicked, status |-> st.status]

-----------------------------------------------------------------------------
(* The loop over the second-level blocks.                                   *)

\* What one second-level block leaves, and the states after each of them.
Sub2(prev, j, r) == [st |-> r.st, ok |-> r.ok, ptr |-> [prev.ptr EXCEPT ![j] = r.entry]]
Step2(n, prev, j) ==
  IF prev.ok THEN Sub2(prev, j, ReserveLevel1(prev.st, prev.ptr[j], MinOf(n - j * P, P)))
  ELSE prev
Start2(index) ==
  [st |-> index.st, ok |-> TRUE, ptr |-> Pointers(index.st.disk[index.entry])]
IsAfter(f, n, index, K) ==
  f = [j \in 0 .. K |-> IF j = 0 THEN Start2(index) ELSE Step2(n, f[j - 1], j - 1)]

\* The recursive function of ReserveLevel2 exists.
LEMMA AfterExists ==
  ASSUME NEW n, NEW index, NEW K \in Nat
  PROVE  \E f : IsAfter(f, n, index, K)
<1> DEFINE S == {k \in Nat : \E f : IsAfter(f, n, index, k)}
<1>1. 0 \in S
  <2>1. PICK f : f = [j \in 0 .. 0 |-> Start2(index)]
    OBVIOUS
  <2>2. f = [j \in 0 .. 0 |-> IF j = 0 THEN Start2(index) ELSE Step2(n, f[j - 1], j - 1)]
    BY <2>1
  <2> QED
    BY <2>2 DEF IsAfter
<1>2. ASSUME NEW k \in Nat, k \in S
      PROVE  k + 1 \in S
  <2>1. PICK f : IsAfter(f, n, index, k)
    BY <1>2
  <2>2. PICK g : g = [j \in 0 .. k + 1 |-> IF j <= k THEN f[j] ELSE Step2(n, f[k], k)]
    OBVIOUS
  <2>3. \A j \in 0 .. k : g[j] = f[j]
    BY <2>2
  <2>4. ASSUME NEW j \in 0 .. k + 1
        PROVE  g[j] = IF j = 0 THEN Start2(index) ELSE Step2(n, g[j - 1], j - 1)
    <3>1. CASE j = 0
      BY <2>1, <2>3, <3>1 DEF IsAfter
    <3>2. CASE j # 0 /\ j <= k
      <4>1. j \in 0 .. k /\ j - 1 \in 0 .. k
        BY <3>2
      <4>2. f[j] = Step2(n, f[j - 1], j - 1)
        BY <2>1, <3>2, <4>1 DEF IsAfter
      <4> QED
        BY <2>3, <3>2, <4>1, <4>2
    <3>3. CASE j = k + 1
      <4>1. g[j] = Step2(n, f[k], k) /\ j - 1 = k /\ k \in 0 .. k
        BY <2>2, <3>3
      <4>2. j # 0
        BY <3>3
      <4> QED
        BY <2>3, <4>1, <4>2
    <3> QED
      BY <3>1, <3>2, <3>3
  <2>5. IsAfter(g, n, index, k + 1)
    BY <2>2, <2>4 DEF IsAfter
  <2> QED
    BY <2>5
<1> HIDE DEF S
<1>3. Nat \subseteq S
  BY <1>1, <1>2, SetInduction
<1> QED
  BY <1>3 DEF S

\* inode_reserve_indirect at level 2 is that many steps.
LEMMA Level2 ==
  ASSUME NEW st, NEW entry, NEW n, NEW index, index = IndexSector(st, entry),
         DivRoundUp(n, P) \in Nat
  PROVE  \E f : /\ IsAfter(f, n, index, DivRoundUp(n, P))
                /\ ReserveLevel2(st, entry, n) = Indexed(f[DivRoundUp(n, P)], index.entry)
<1>1. PICK K \in Nat : K = DivRoundUp(n, P)
  OBVIOUS
<1>2. PICK f : f = CHOOSE g : IsAfter(g, n, index, K)
  OBVIOUS
<1>3. IsAfter(f, n, index, K)
  BY <1>1, <1>2, AfterExists
<1>4. ReserveLevel2(st, entry, n) = Indexed(f[K], index.entry)
  <2>1. ReserveLevel2(st, entry, n) =
          Indexed((CHOOSE g : IsAfter(g, n, IndexSector(st, entry), DivRoundUp(n, P)))
                    [DivRoundUp(n, P)], IndexSector(st, entry).entry)
    BY Zenon DEF ReserveLevel2, IsAfter, Step2, Sub2, Start2
  <2> QED
    BY <1>1, <1>2, <2>1
<1> QED
  BY <1>1, <1>3, <1>4
-----------------------------------------------------------------------------
(* The free map file.                                                       *)

\* A state in which the map was saved.
Synced(st) == IsState(st) /\ (map_file => st.saved = st.map)

\* Writing the map to its file (bitmap_write) keeps it saved.
LEMMA SyncedSave ==
  ASSUME NEW st, IsState(st)
  PROVE  Synced(Save(st))
<1>1. CASE map_file
  <2>1. PICK u : u = [st EXCEPT !.saved = st.map]
    OBVIOUS
  <2>2. IsState(u) /\ u.saved = st.map /\ u.map = st.map
    BY <2>1 DEF IsState
  <2> QED
    BY <1>1, <2>1, <2>2 DEF Synced, Save
<1>2. CASE ~map_file
  BY <1>2 DEF Synced, Save
<1> QED
  BY <1>1, <1>2

\* free_map_allocate writes the map it has changed.
LEMMA SyncedTake ==
  ASSUME NEW st, Synced(st), NEW S
  PROVE  Synced(Take(st, S))
<1>1. PICK u : u = [st EXCEPT !.map = bitmap_set_multiple(@, S, TRUE)]
  OBVIOUS
<1>2. IsState(u)
  BY <1>1 DEF IsState, Synced
<1> QED
  BY <1>1, <1>2, SyncedSave DEF Take

\* free_map_release writes the map it has changed.
LEMMA SyncedRelease ==
  ASSUME NEW st, IsState(st), NEW S, NEW cnt
  PROVE  Synced(free_map_release(st, S, cnt))
<1>1. PICK u : u = [st EXCEPT !.map = bitmap_set_multiple(@, S, FALSE),
                              !.panicked = @ \cup Printed(~ bitmap_all(st.map, S) \/ Cardinality(S) # cnt,
                                                          "free_map_release")]
  OBVIOUS
<1>2. IsState(u)
  BY <1>1 DEF IsState
<1> QED
  BY <1>1, <1>2, SyncedSave DEF free_map_release

\* Writing sectors of files does not touch the map.
LEMMA SyncedWrite ==
  ASSUME NEW st, Synced(st), NEW S, NEW block
  PROVE  Synced(Write(st, S, block))
<1>1. PICK d, u : /\ d = [s \in Sector |-> IF s \in S THEN block ELSE st.disk[s]]
                  /\ u = [st EXCEPT !.disk = d]
  OBVIOUS
<1>2. Synced(u)
  BY <1>1 DEF IsState, Synced
<1>3. Write(st, S, block) = u
  BY <1>1, Zenon DEF Write
<1> QED
  BY <1>2, <1>3

\* Nor does the status a command returns.
LEMMA SyncedResult ==
  ASSUME NEW st, Synced(st), NEW r
  PROVE  Synced(Result(st, r))
  BY DEF Result, Synced, IsState

\* Blocks and index blocks.
LEMMA SyncedFill ==
  ASSUME NEW st, Synced(st), NEW ptr, NEW n
  PROVE  Synced(Fill(st, ptr, n).st)
<1>1. PICK took : Fill(st, ptr, n).st = Zeroed(Take(st, took), took)
  BY DEF Fill
<1> QED
  BY <1>1, SyncedTake, SyncedWrite DEF Zeroed

\* inode_reserve allocates an index block with the map saved.
LEMMA SyncedIndex ==
  ASSUME NEW st, Synced(st), NEW entry
  PROVE  Synced(IndexSector(st, entry).st)
<1>1. CASE entry # 0
  BY <1>1 DEF IndexSector
<1>2. CASE entry = 0
  <2>1. PICK S, s : IndexSector(st, entry).st = Write(Take(st, S), {s}, Zeros)
    BY <1>2 DEF IndexSector
  <2> QED
    BY <2>1, SyncedTake, SyncedWrite
<1> QED
  BY <1>1, <1>2

\* Writing the pointers back to the index block does not touch the map.
LEMMA SyncedIndexed ==
  ASSUME NEW r, Synced(r.st), NEW entry
  PROVE  Synced(Indexed(r, entry).st)
  BY SyncedWrite DEF Indexed

\* inode_reserve_indirect keeps the map saved at the first level.
LEMMA SyncedLevel1 ==
  ASSUME NEW st, Synced(st), NEW entry, NEW n
  PROVE  Synced(ReserveLevel1(st, entry, n).st)
<1>1. PICK index : index = IndexSector(st, entry)
  OBVIOUS
<1>2. PICK r : r = Fill(index.st, Pointers(index.st.disk[index.entry]), n)
  OBVIOUS
<1>3. Synced(r.st)
  BY <1>1, <1>2, SyncedIndex, SyncedFill
<1>4. ReserveLevel1(st, entry, n) = Indexed(r, index.entry)
  BY <1>1, <1>2 DEF ReserveLevel1
<1> QED
  BY <1>3, <1>4, SyncedIndexed

\* And at the second, through the loop over its blocks.
LEMMA SyncedLevel2 ==
  ASSUME NEW st, Synced(st), NEW entry, NEW n, DivRoundUp(n, P) \in Nat
  PROVE  Synced(ReserveLevel2(st, entry, n).st)
<1>1. PICK index : index = IndexSector(st, entry)
  OBVIOUS
<1>2. PICK K \in Nat : K = DivRoundUp(n, P)
  OBVIOUS
<1>3. PICK f : IsAfter(f, n, index, K) /\ ReserveLevel2(st, entry, n) = Indexed(f[K], index.entry)
  BY <1>1, <1>2, Level2
<1> DEFINE S == {j \in Nat : j <= K => Synced(f[j].st)}
<1>4. 0 \in S
  <2>1. f[0] = Start2(index)
    BY <1>3 DEF IsAfter
  <2>2. f[0].st = index.st
    BY <2>1 DEF Start2
  <2> QED
    BY <1>1, <2>2, SyncedIndex
<1>5. ASSUME NEW j \in Nat, j \in S
      PROVE  j + 1 \in S
  <2> SUFFICES ASSUME j + 1 <= K
               PROVE  Synced(f[j + 1].st)
    OBVIOUS
  <2>1. f[j + 1] = Step2(n, f[j], j)
    <3>1. j + 1 \in 0 .. K /\ j + 1 # 0 /\ (j + 1) - 1 = j
      OBVIOUS
    <3> QED
      BY <1>3, <3>1 DEF IsAfter
  <2>2. Synced(f[j].st)
    BY <1>5
  <2>3. CASE f[j].ok
    <3>1. PICK r : r = ReserveLevel1(f[j].st, f[j].ptr[j], MinOf(n - j * P, P))
      OBVIOUS
    <3>2. Synced(r.st)
      BY <2>2, <3>1, SyncedLevel1
    <3>3. f[j + 1] = Sub2(f[j], j, r)
      BY <2>1, <2>3, <3>1 DEF Step2
    <3> QED
      BY <3>2, <3>3 DEF Sub2
  <2>4. CASE ~f[j].ok
    BY <2>1, <2>2, <2>4 DEF Step2
  <2> QED
    BY <2>3, <2>4
<1> HIDE DEF S
<1>6. K \in S
  BY <1>4, <1>5, SetInduction
<1>7. Synced(f[K].st)
  BY <1>6 DEF S
<1> QED
  BY <1>3, <1>7, SyncedIndexed

\* inode_reserve leaves the map saved, whichever level it stops at.
LEMMA SyncedReserve ==
  ASSUME NEW st, Synced(st), NEW inode, NEW length \in Nat
  PROVE  Synced(inode_reserve(st, inode, length).st)
<1> DEFINE n == bytes_to_sectors(length)
<1>1. n \in Nat /\ D \in Nat \ {0} /\ P \in Nat \ {0}
  BY GeometryAssumption DEF bytes_to_sectors, DivRoundUp, D, P
<1>2. PICK r0, d0 : r0 = Fill(st, inode.direct, MinOf(n, D)) /\ d0 = [inode EXCEPT !.direct = r0.ptr]
  OBVIOUS
<1>3. PICK r1, d1 : /\ r1 = ReserveLevel1(r0.st, inode.indirect, MinOf(n - D, P))
                    /\ d1 = [d0 EXCEPT !.indirect = r1.entry]
  OBVIOUS
<1>4. PICK r2, d2 : /\ r2 = ReserveLevel2(r1.st, d0.doubly, MinOf(n - D - P, P * P))
                    /\ d2 = [d1 EXCEPT !.doubly = r2.entry]
  OBVIOUS
<1>5. PICK u : u = [r2.st EXCEPT !.panicked =
                                  @ \cup Printed(r2.ok /\ n > D + P + P * P, "inode_reserve")]
  OBVIOUS
<1>6. inode_reserve(st, inode, length) =
        IF ~ r0.ok \/ n <= D THEN [st |-> r0.st, inode |-> d0, ok |-> r0.ok]
        ELSE IF ~ r1.ok \/ n <= D + P THEN [st |-> r1.st, inode |-> d1, ok |-> r1.ok]
        ELSE [st |-> u, inode |-> d2, ok |-> r2.ok /\ ~ (n > D + P + P * P)]
  BY <1>2, <1>3, <1>4, <1>5, Zenon DEF inode_reserve
<1>7. Synced(r0.st) /\ Synced(r1.st)
  BY <1>2, <1>3, SyncedFill, SyncedLevel1
<1>8. ASSUME n > D + P
      PROVE  Synced(u)
  <2>1. PICK k \in Nat : k = MinOf(n - D - P, P * P)
    BY <1>1, <1>8 DEF MinOf
  <2>2. DivRoundUp(k, P) \in Nat
    BY <1>1 DEF DivRoundUp
  <2>3. Synced(r2.st)
    BY <1>4, <1>7, <2>1, <2>2, SyncedLevel2
  <2> QED
    BY <1>5, <2>3 DEF Synced, IsState
<1> QED
  BY <1>1, <1>6, <1>7, <1>8

-----------------------------------------------------------------------------
(* The commands leave the map saved.                                        *)

\* inode_close changes what is in memory only.
LEMMA SyncedClose ==
  ASSUME NEW st, Synced(st), NEW s
  PROVE  Synced(inode_close(st, s))
<1>1. PICK o, l : inode_close(st, s) = [st EXCEPT !.open = o, !.stale = l]
  BY Zenon DEF inode_close
<1> QED
  BY <1>1 DEF Synced, IsState

\* Entering a file in the directory leaves the map saved.
LEMMA SyncedDirAdd ==
  ASSUME NEW st, Synced(st), NEW n, NEW s
  PROVE  Synced(dir_add(st, n, s))
<1>1. PICK u, d : u = [st EXCEPT !.dir = d] /\ d = [st.dir EXCEPT ![n] = s]
  OBVIOUS
<1>2. u = [st EXCEPT !.dir[n] = s]
  BY <1>1
<1>3. Synced(u)
  BY <1>1 DEF Synced, IsState
<1> QED
  BY <1>2, <1>3, SyncedResult DEF dir_add

\* inode_create leaves the map saved, whether it finds the blocks or not.
LEMMA SyncedInodeCreate ==
  ASSUME NEW st, Synced(st), NEW s, NEW size \in Int
  PROVE  Synced(inode_create(st, s, size))
<1>1. PICK r : r = inode_reserve(st, NewInode(size), size)
  OBVIOUS
<1>2. PICK u : u = [st EXCEPT !.panicked = @ \cup Printed(TRUE, "inode_create")]
  OBVIOUS
<1>3. inode_create(st, s, size) =
        IF size < 0 THEN Result(u, "error")
        ELSE IF r.ok THEN Result(Write(r.st, {s}, r.inode), "ok") ELSE Result(r.st, "error")
  BY <1>1, <1>2, Zenon DEF inode_create
<1>4. CASE size < 0
  <2>1. Synced(u)
    BY <1>2 DEF Synced, IsState
  <2> QED
    BY <1>3, <1>4, <2>1, SyncedResult
<1>5. CASE size \in Nat
  <2>1. Synced(r.st) /\ ~ size < 0
    BY <1>1, <1>5, SyncedReserve
  <2> QED
    BY <1>3, <2>1, SyncedWrite, SyncedResult
<1> QED
  BY <1>4, <1>5

\* filesys_create leaves the map saved at each of its early returns.
LEMMA SyncedCreate ==
  ASSUME NEW st, Synced(st), NEW n, NEW size \in Int
  PROVE  Synced(filesys_create(st, n, size))
<1>1. CASE Available(st) = {}
  BY <1>1, SyncedResult DEF filesys_create
<1>2. CASE Available(st) # {}
  <2>1. PICK s : s = Min(Available(st))
    OBVIOUS
  <2>2. PICK t : t = inode_create(Take(st, {s}), s, size)
    OBVIOUS
  <2>3. PICK u : u = IF t.status = "ok" THEN dir_add(t, n, s) ELSE t
    OBVIOUS
  <2>4. Synced(t)
    BY <2>2, SyncedTake, SyncedInodeCreate
  <2>5. Synced(u)
    BY <2>3, <2>4, SyncedDirAdd
  <2>6. Synced(free_map_release(u, {s}, 1))
    BY <2>5, SyncedRelease DEF Synced
  <2>7. filesys_create(st, n, size) =
          IF u.status = "ok" THEN u ELSE free_map_release(u, {s}, 1)
    BY <1>2, <2>1, <2>2, <2>3, Zenon DEF filesys_create
  <2> QED
    BY <2>5, <2>6, <2>7
<1> QED
  BY <1>1, <1>2

\* Opening a file leaves the map saved.
LEMMA SyncedOpen ==
  ASSUME NEW st, Synced(st), NEW n
  PROVE  Synced(OpenByName(st, n))
<1>1. PICK o, u : filesys_open(st, n) = u /\ u = [st EXCEPT !.open = o]
  BY Zenon DEF filesys_open
<1>2. Synced(u)
  BY <1>1 DEF Synced, IsState
<1>3. Synced(add_to_file_table(u, n))
  BY <1>2 DEF add_to_file_table, Synced, IsState
<1> QED
  BY <1>1, <1>3 DEF OpenByName

\* inode_write_at leaves the map saved, with or without extension.
LEMMA SyncedWriteAt ==
  ASSUME NEW st, Synced(st), NEW n, NEW start, NEW end \in Nat, NEW short
  PROVE  Synced(inode_write_at(st, n, start, end, short))
<1> DEFINE s == lookup(st, n)
           Put(t) == Result(Write(t, {index_to_sector(t.disk, t.open[s], k) :
                                        k \in start \div BLOCK_SECTOR_SIZE
                                                .. (end - 1) \div BLOCK_SECTOR_SIZE},
                                  Data(n)), "ok")
<1>1. PICK r : r = inode_reserve(st, st.open[s], end)
  OBVIOUS
<1>2. PICK e, o : e = [r.inode EXCEPT !.length = end] /\ o = [r.st.open EXCEPT ![s] = e]
  OBVIOUS
<1>3. PICK f : f = [r.st.open EXCEPT ![s] = r.inode]
  OBVIOUS
<1>4. Synced(r.st)
  BY <1>1, SyncedReserve
<1>5. \A t : Synced(t) => Synced(Put(t))
  BY SyncedWrite, SyncedResult
<1>6. Synced([r.st EXCEPT !.open = o]) /\ Synced([r.st EXCEPT !.open = f])
  BY <1>4 DEF Synced, IsState
<1>7. [r.st EXCEPT !.open[s] = e] = [r.st EXCEPT !.open = o]
  BY <1>2
<1>8. [r.st EXCEPT !.open[s] = r.inode] = [r.st EXCEPT !.open = f]
  BY <1>3
<1>9. Synced(Put(Extend(r.st, s, e)))
  <2>1. PICK u : u = Extend(r.st, s, e)
    OBVIOUS
  <2>2. u = Write([r.st EXCEPT !.open = o], {s}, e)
    BY <1>7, <2>1, Zenon DEF Extend
  <2>3. Synced(u)
    BY <1>6, <2>2, SyncedWrite
  <2> HIDE DEF Put
  <2> QED
    BY <1>5, <2>1, <2>3
<1>10. Synced(Result([r.st EXCEPT !.open[s] = r.inode], short))
  BY <1>6, <1>8, SyncedResult
<1>11. inode_write_at(st, n, start, end, short) =
         IF end <= st.open[s].length THEN Put(st)
         ELSE IF r.ok THEN Put(Extend(r.st, s, e))
         ELSE Result([r.st EXCEPT !.open[s] = r.inode], short)
  BY <1>1, <1>2, Zenon DEF inode_write_at
<1> HIDE DEF Put
<1> QED
  BY <1>5, <1>9, <1>10, <1>11

\* fsutil_write leaves the map saved.
LEMMA SyncedFsWrite ==
  ASSUME NEW st, Synced(st), NEW n, NEW start, NEW end \in Nat, NEW short
  PROVE  Synced(fsutil_write(st, n, start, end, short))
  BY SyncedResult, SyncedOpen, SyncedWriteAt DEF fsutil_write

\* remove_from_file_table does not touch the map.
LEMMA SyncedForget ==
  ASSUME NEW st, Synced(st), NEW n
  PROVE  Synced(remove_from_file_table(st, n))
<1>1. PICK u : u = [st EXCEPT !.table = @ \ {n}]
  OBVIOUS
<1>2. Synced(u)
  BY <1>1 DEF Synced, IsState
<1> QED
  BY <1>1, <1>2, SyncedClose DEF remove_from_file_table, file_close

\* filesys_remove leaves the map saved.
LEMMA SyncedRemove ==
  ASSUME NEW st, Synced(st), NEW n
  PROVE  Synced(filesys_remove(st, n))
<1>1. PICK s : s = lookup(st, n)
  OBVIOUS
<1>2. PICK u, d : d = [st.dir EXCEPT ![n] = 0] /\ u = [st EXCEPT !.dir = d]
  OBVIOUS
<1>3. PICK e : e = inode_close(u, s)
  OBVIOUS
<1>4. Synced(u)
  BY <1>2 DEF Synced, IsState
<1>5. Synced(e)
  BY <1>3, <1>4, SyncedClose
<1>6. Synced(inode_deallocate(e, s, inode_open(st, s)))
  BY <1>5, SyncedRelease DEF inode_deallocate, Synced
<1>7. u = [st EXCEPT !.dir[n] = 0]
  BY <1>2
<1>8. filesys_remove(st, n) =
        IF s = 0 THEN Result(st, "error")
        ELSE Result(inode_deallocate(e, s, inode_open(st, s)), "ok")
  BY <1>1, <1>3, <1>7, Zenon DEF filesys_remove, dir_remove
<1> QED
  BY <1>6, <1>8, SyncedResult

\* fsutil_cat leaves the map saved.
LEMMA SyncedCat ==
  ASSUME NEW st, Synced(st), NEW n
  PROVE  Synced(fsutil_cat(st, n))
<1>1. Synced(remove_from_file_table(OpenByName(st, n), n))
  BY SyncedOpen, SyncedForget
<1> QED
  BY <1>1, SyncedResult DEF fsutil_cat

\* What copy_in decides to write is a length: the subtraction never goes below 0.
LEMMA CopyInSizeNat ==
  ASSUME NEW free \in Nat
  PROVE  /\ CopyInSize(free) \in Nat
         /\ \E k \in 0 .. free : CopyInSize(free) = BLOCK_SECTOR_SIZE * k
<1>1. PICK b \in Nat, d \in Nat, p \in Nat \ {0} :
        b = BLOCK_SECTOR_SIZE /\ d = D /\ p = P /\ d >= 3
  BY GeometryAssumption, CopyInAssumption DEF D, P
<1>2. ASSUME free > d + p
      PROVE  free - ((free - 3 - 1 - p) \div p + 3) \in 0 .. free
  <2>1. PICK a \in Nat : a = free - 3 - 1 - p
    BY <1>1, <1>2
  <2>2. a \div p \in Nat /\ a \div p <= a
    <3>1. PICK q \in Nat, r \in 0 .. p - 1 : q = a \div p /\ a = p * q + r
      BY <1>1, <2>1, DivMod
    <3>2. q <= p * q
      BY <1>1, <3>1
    <3> QED
      BY <3>1, <3>2
  <2> QED
    BY <1>1, <2>1, <2>2
<1>3. PICK k \in 0 .. free : k = IF free <= d THEN free
                               ELSE IF free <= d + p THEN free - 2
                               ELSE free - ((free - 3 - 1 - p) \div p + 3)
  <2>1. CASE free <= d
    BY <2>1
  <2>2. CASE ~ free <= d /\ free <= d + p
    <3>1. free - 2 \in 0 .. free
      BY <1>1, <2>2
    <3> QED
      BY <2>2, <3>1
  <2>3. CASE ~ free <= d /\ ~ free <= d + p
    <3>1. free > d + p
      BY <1>1, <2>3
    <3> QED
      BY <1>2, <2>3, <3>1
  <2> QED
    BY <2>1, <2>2, <2>3
<1>4. CopyInSize(free) = b * k
  BY <1>1, <1>3 DEF CopyInSize
<1> QED
  BY <1>1, <1>3, <1>4

\* copy_in leaves the map saved, also when it cuts the file to the free space.
LEMMA SyncedCopyIn ==
  ASSUME NEW st, Synced(st), NEW n, NEW size \in Nat, NEW readable \in BOOLEAN
  PROVE  Synced(CopyIn(st, n, size, readable))
<1>1. PICK free : free = num_free_sectors(st)
  OBVIOUS
<1>2. free \in Nat
  <2>1. IsFiniteSet(Bits)
    BY FS_Interval, GeometryAssumption DEF Bits
  <2>2. IsFiniteSet(Bits \ st.map)
    BY <2>1, FS_Subset
  <2> QED
    BY <1>1, <2>2, FS_CardinalityType DEF num_free_sectors
<1>3. PICK large : large = (bytes_to_sectors(size) > free)
  OBVIOUS
<1>4. PICK first \in Nat, last \in Nat :
        /\ first = IF large THEN 1 ELSE size
        /\ last = IF large THEN CopyInSize(free) ELSE size + 1
  <2>1. CopyInSize(free) \in Nat
    BY <1>2, CopyInSizeNat
  <2> QED
    BY <2>1
<1>5. PICK t : t = filesys_create(st, n, first)
  OBVIOUS
<1>6. Synced(t)
  BY <1>5, SyncedCreate
<1>7. Synced(Result(t, "error")) /\ Synced(fsutil_write(t, n, 0, last, "error"))
  BY <1>6, SyncedResult, SyncedFsWrite
<1>8. CopyIn(st, n, size, readable) =
        CASE t.status # "ok" -> t
          [] t.status = "ok" /\ ~ readable -> Result(t, "error")
          [] t.status = "ok" /\ readable -> fsutil_write(t, n, 0, last, "error")
  BY <1>1, <1>3, <1>4, <1>5, Zenon DEF CopyIn
<1> QED
  BY <1>6, <1>7, <1>8

\* A command that leaves the map saved leaves the variables so.
LEMMA SyncedBecomes ==
  ASSUME NEW st, Synced(st), Becomes(st), UNCHANGED map_file
  PROVE  MapSaved'
  BY DEF Synced, Becomes, MapSaved

\* The free map file and the map in memory agree after every command, whether it
\* succeeds or stops half way, and after a restart (every path of free_map.c that
\* flips a bit writes the map before it returns).
THEOREM MapIsSaved == Spec => []MapSaved
<1>1. Init => MapSaved
  BY DEF Init, MapSaved
<1>2. MapSaved /\ [Next]_vars => MapSaved'
  <2> SUFFICES ASSUME MapSaved, [Next]_vars
               PROVE  MapSaved'
    OBVIOUS
  <2>1. Synced(Now)
    BY DEF Synced, IsState, Now, MapSaved
  <2>2. ASSUME NEW n \in Name, create(n)
        PROVE  MapSaved'
    <3>1. PICK size \in Int : Becomes(filesys_create(Now, n, size))
      BY <2>2, SizesAssumption DEF create
    <3> QED
      BY <2>1, <2>2, <3>1, SyncedCreate, SyncedBecomes DEF create
  <2>3. ASSUME NEW n \in Name, write(n)
        PROVE  MapSaved'
    <3>1. PICK end \in Sizes, start \in Sizes \cup {0} : Becomes(fsutil_write(Now, n, start, end, "ok"))
      BY <2>3 DEF write
    <3> QED
      BY <2>1, <2>3, <3>1, SizesAssumption, SyncedFsWrite, SyncedBecomes DEF write
  <2>4. ASSUME NEW n \in Name, open(n)
        PROVE  MapSaved'
    <3>1. Synced(Result(Now, "error")) /\ Synced(Result(OpenByName(Now, n), "ok"))
      BY <2>1, SyncedOpen, SyncedResult
    <3> QED
      BY <2>4, <3>1, SyncedBecomes DEF open
  <2>5. ASSUME NEW n \in Name, cat(n)
        PROVE  MapSaved'
    BY <2>1, <2>5, SyncedCat, SyncedBecomes DEF cat
  <2>6. ASSUME NEW n \in Name, rm(n)
        PROVE  MapSaved'
    <3>1. Synced(filesys_remove(remove_from_file_table(Now, n), n))
      BY <2>1, SyncedForget, SyncedRemove
    <3> QED
      BY <2>6, <3>1, SyncedBecomes DEF rm
  <2>7. ASSUME NEW n \in Name, copy_in(n)
        PROVE  MapSaved'
    <3>1. PICK size \in Sizes, readable \in BOOLEAN : Becomes(CopyIn(Now, n, size, readable))
      BY <2>7 DEF copy_in
    <3>2. Synced(CopyIn(Now, n, size, readable))
      BY <2>1, SizesAssumption, SyncedCopyIn
    <3> QED
      BY <2>7, <3>1, <3>2, SyncedBecomes DEF copy_in
  <2>8. ASSUME NEW n \in Name, copy_out(n)
        PROVE  MapSaved'
    <3>1. PICK r : Becomes(Result(OpenByName(Now, n), r))
      BY <2>8 DEF copy_out
    <3>2. Synced(Result(OpenByName(Now, n), r))
      BY <2>1, SyncedOpen, SyncedResult
    <3> QED
      BY <2>8, <3>1, <3>2, SyncedBecomes DEF copy_out
  <2>9. CASE restart
    BY <2>9 DEF restart, free_map_open, MapSaved
  <2>10. CASE UNCHANGED vars
    BY <2>10 DEF vars, MapSaved
  <2> QED
    BY <2>2, <2>3, <2>4, <2>5, <2>6, <2>7, <2>8, <2>9, <2>10 DEF Next
<1> QED
  BY <1>1, <1>2, PTL DEF Spec

-----------------------------------------------------------------------------
(* Finding free sectors.                                                    *)

\* The place of x among the elements of S.
RankOf(x, S) == Cardinality({y \in S : y < x})

\* The place grows with the element.
LEMMA RankLess ==
  ASSUME NEW S, S \subseteq Nat, IsFiniteSet(S), NEW x \in S, NEW y \in S, x < y
  PROVE  RankOf(x, S) < RankOf(y, S)
<1> DEFINE A == {z \in S : z < x}
           B == {z \in S : z < y}
<1>1. IsFiniteSet(A) /\ IsFiniteSet(B)
  BY FS_Subset, A \in SUBSET S, B \in SUBSET S
<1>2. A \cup {x} \subseteq B /\ x \notin A
  <2>1. \A z \in A : z \in B
    BY S \subseteq Nat
  <2>2. x \in B /\ x \notin A
    OBVIOUS
  <2> QED
    BY <2>1, <2>2
<1>3. IsFiniteSet(A \cup {x}) /\ Cardinality(A \cup {x}) = Cardinality(A) + 1
  BY <1>1, <1>2, FS_AddElement
<1>4. Cardinality(A \cup {x}) <= Cardinality(B)
  BY <1>1, <1>2, FS_Subset
<1>5. Cardinality(A) \in Nat /\ Cardinality(B) \in Nat
  BY <1>1, FS_CardinalityType
<1> HIDE DEF A, B
<1>6. Cardinality(A) < Cardinality(B)
  BY <1>3, <1>4, <1>5
<1> QED
  BY <1>6 DEF RankOf, A, B

\* There are as many places as elements.
LEMMA RankRange ==
  ASSUME NEW S, S \subseteq Nat, IsFiniteSet(S), NEW x \in S
  PROVE  RankOf(x, S) \in 0 .. Cardinality(S) - 1
<1> DEFINE A == {z \in S : z < x}
<1>1. IsFiniteSet(A)
  BY FS_Subset, A \in SUBSET S
<1>2. A \subseteq S \ {x} /\ A \subseteq S /\ x \notin A
  OBVIOUS
<1>3. Cardinality(A) <= Cardinality(S) /\ (Cardinality(A) = Cardinality(S) => A = S)
  BY <1>2, FS_Subset
<1>4. Cardinality(A) \in Nat /\ Cardinality(S) \in Nat
  BY <1>1, FS_CardinalityType
<1>5. Cardinality(A) # Cardinality(S)
  BY <1>2, <1>3
<1> HIDE DEF A
<1>6. Cardinality(A) \in 0 .. Cardinality(S) - 1
  BY <1>3, <1>4, <1>5
<1> QED
  BY <1>6 DEF RankOf, A

\* Every place below the number of elements is taken.
LEMMA RankTaken ==
  ASSUME NEW S, S \subseteq Nat, IsFiniteSet(S), NEW r \in 0 .. Cardinality(S) - 1
  PROVE  \E x \in S : RankOf(x, S) = r
<1>1. PICK c \in Nat : c = Cardinality(S)
  BY FS_CardinalityType
<1>2. PICK f : f = [x \in S |-> RankOf(x, S)]
  OBVIOUS
<1>3. f \in [S -> 0 .. c - 1]
  BY <1>1, <1>2, RankRange
<1>4. \A x, y \in S : f[x] = f[y] => x = y
  <2> SUFFICES ASSUME NEW x \in S, NEW y \in S, f[x] = f[y], x # y
               PROVE  FALSE
    OBVIOUS
  <2>1. RankOf(x, S) \in 0 .. c - 1 /\ RankOf(x, S) = RankOf(y, S)
    BY RankRange, <1>1, <1>2
  <2>2. CASE x < y
    <3>1. RankOf(x, S) < RankOf(y, S)
      BY <2>2, RankLess
    <3> QED
      BY <2>1, <3>1
  <2>3. CASE y < x
    <3>1. RankOf(y, S) < RankOf(x, S)
      BY <2>3, RankLess
    <3> QED
      BY <2>1, <3>1
  <2> QED
    BY <2>2, <2>3
<1>5. f \in Injection(S, 0 .. c - 1)
  BY <1>3, <1>4 DEF Injection, IsInjective
<1>6. IsFiniteSet(0 .. c - 1) /\ Cardinality(0 .. c - 1) = c
  BY FS_Interval
<1>7. f \in Surjection(S, 0 .. c - 1)
  BY <1>1, <1>5, <1>6, FS_Injection
<1> QED
  BY <1>1, <1>2, <1>7 DEF Surjection

\* The sectors of the bitmap are finitely many numbers.
LEMMA BitsFinite == Bits \subseteq Sector /\ Bits \subseteq Nat /\ IsFiniteSet(Bits) /\ Sector \subseteq Nat
  BY FS_Interval, GeometryAssumption DEF Bits, Sector

\* bitmap_scan_and_flip finds a member of the set it searches.
LEMMA MinIsLeast ==
  ASSUME NEW S, S \subseteq Nat, S # {}
  PROVE  Min(S) \in S
  BY LeastExists DEF Min

-----------------------------------------------------------------------------
(* An allocation fails on a full disk only.                                 *)

\* The loop over an array of pointers leaves one of them 0 only when it has taken
\* the last free sector.
LEMMA FillFull ==
  ASSUME NEW st, Synced(st), NEW ptr, NEW n \in Int, ~ Fill(st, ptr, n).ok
  PROVE  Available(Fill(st, ptr, n).st) = {}
<1> DEFINE free == Available(st)
           want == {i \in 0 .. n - 1 : ptr[i] = 0}
           Nth(i) == CHOOSE s \in free : RankOf(s, free) = RankOf(i, want)
           given == {i \in want : RankOf(i, want) < Cardinality(free)}
           took == {Nth(i) : i \in given}
<1>1. free \subseteq Nat /\ free \subseteq Bits /\ IsFiniteSet(free)
  BY BitsFinite, FS_Subset DEF Available
<1>2. want \subseteq Nat /\ IsFiniteSet(want)
  <2>1. IsFiniteSet(0 .. n - 1) /\ want \in SUBSET (0 .. n - 1)
    BY FS_Interval
  <2> QED
    BY <2>1, FS_Subset
<1>3. Fill(st, ptr, n).st = Zeroed(Take(st, took), took) /\ Fill(st, ptr, n).ok = (given = want)
  BY DEF Fill, RankOf
<1>4. PICK c \in Nat : c = Cardinality(free)
  BY <1>1, FS_CardinalityType
<1> HIDE DEF free, want
<1>5. PICK i \in want : ~ RankOf(i, want) < c
  BY <1>3, <1>4
<1>6. ASSUME NEW s \in free
      PROVE  s \in took
  <2>1. PICK k \in Nat : k = RankOf(s, free) /\ k < c
    <3>1. RankOf(s, free) \in 0 .. Cardinality(free) - 1
      BY <1>1, RankRange
    <3>2. RankOf(s, free) \in 0 .. c - 1
      BY <1>4, <3>1
    <3> QED
      BY <3>2
  <2>2. RankOf(i, want) \in 0 .. Cardinality(want) - 1 /\ Cardinality(want) \in Nat
    BY <1>2, RankRange, FS_CardinalityType
  <2>3. k \in 0 .. Cardinality(want) - 1
    BY <1>4, <1>5, <2>1, <2>2
  <2>4. PICK j \in want : RankOf(j, want) = k
    BY <1>2, <2>3, RankTaken
  <2>5. j \in given
    BY <1>4, <2>1, <2>4
  <2>6. Nth(j) \in free /\ RankOf(Nth(j), free) = k
    BY <2>1, <2>4
  <2>7. Nth(j) = s
    <3>1. SUFFICES ASSUME Nth(j) # s PROVE FALSE
      OBVIOUS
    <3>2. PICK z \in free : z = Nth(j) /\ RankOf(z, free) = k /\ z # s
      BY <2>6, <3>1
    <3>3. z \in Nat /\ s \in Nat
      BY <1>1
    <3>4. CASE z < s
      BY <1>1, <2>1, <3>2, <3>4, RankLess
    <3>5. CASE s < z
      BY <1>1, <2>1, <3>2, <3>5, RankLess
    <3> QED
      BY <3>2, <3>3, <3>4, <3>5
  <2> QED
    BY <2>5, <2>7
<1>7. PICK S : S = took /\ free \subseteq S
  BY <1>6
<1>8. PICK t : t = Take(st, S)
  OBVIOUS
<1>9. IsState(t) /\ st.map \cup S \subseteq t.map
  <2>1. IsState(t)
    BY <1>8, SyncedTake DEF Synced
  <2>2. CASE S = {}
    BY <1>8, <2>1, <2>2 DEF Take
  <2>3. CASE S # {}
    <3>1. PICK v : v = [st EXCEPT !.map = st.map \cup S]
      OBVIOUS
    <3>2. IsState(v) /\ v.map = st.map \cup S
      BY <3>1 DEF Synced, IsState
    <3>3. t = Save(v)
      BY <1>8, <2>3, <3>1 DEF Take, bitmap_set_multiple
    <3>4. t.map = v.map
      BY <3>2, <3>3 DEF Save, IsState
    <3> QED
      BY <2>1, <3>2, <3>4
  <2> QED
    BY <2>2, <2>3
<1> HIDE <1>8
<1>10. PICK d : d = [s \in Sector |-> IF s \in S THEN Zeros ELSE t.disk[s]]
  OBVIOUS
<1>11. PICK u : u = [t EXCEPT !.disk = d]
  OBVIOUS
<1>12. u.map = t.map
  BY <1>9, <1>11 DEF IsState
<1>13. Fill(st, ptr, n).st = u
  BY <1>3, <1>7, <1>8, <1>10, <1>11 DEF Zeroed, Write
<1> HIDE <1>10, <1>11
<1>14. Available(u) = {}
  BY <1>7, <1>9, <1>12 DEF Available, free
<1> QED
  BY <1>13, <1>14

\* inode_reserve_indirect at the first level.
LEMMA Level1Full ==
  ASSUME NEW st, Synced(st), NEW entry, NEW n \in Int, ~ ReserveLevel1(st, entry, n).ok
  PROVE  Available(ReserveLevel1(st, entry, n).st) = {}
<1>1. PICK index : index = IndexSector(st, entry)
  OBVIOUS
<1>2. PICK r : r = Fill(index.st, Pointers(index.st.disk[index.entry]), n)
  OBVIOUS
<1>3. ReserveLevel1(st, entry, n) = Indexed(r, index.entry)
  BY <1>1, <1>2 DEF ReserveLevel1
<1>4. ~ r.ok /\ Indexed(r, index.entry).st = r.st
  BY <1>3 DEF Indexed
<1>5. Synced(index.st)
  BY <1>1, SyncedIndex
<1> QED
  BY <1>2, <1>3, <1>4, <1>5, FillFull

\* And at the second: the block that failed is the last one the loop looks at.
LEMMA Level2Full ==
  ASSUME NEW st, Synced(st), NEW entry, NEW n \in Nat, ~ ReserveLevel2(st, entry, n).ok
  PROVE  Available(ReserveLevel2(st, entry, n).st) = {}
<1>1. PICK index : index = IndexSector(st, entry)
  OBVIOUS
<1>2. PICK K \in Nat : K = DivRoundUp(n, P)
  BY GeometryAssumption DEF DivRoundUp, P
<1>3. PICK f : IsAfter(f, n, index, K) /\ ReserveLevel2(st, entry, n) = Indexed(f[K], index.entry)
  BY <1>1, <1>2, Level2
<1> DEFINE S == {j \in Nat : j <= K => /\ Synced(f[j].st)
                                       /\ ~ f[j].ok => Available(f[j].st) = {}}
<1>4. 0 \in S
  <2>1. f[0] = Start2(index)
    BY <1>3 DEF IsAfter
  <2>2. f[0].st = index.st /\ f[0].ok
    BY <2>1 DEF Start2
  <2> QED
    BY <1>1, <2>2, SyncedIndex
<1>5. ASSUME NEW j \in Nat, j \in S
      PROVE  j + 1 \in S
  <2> SUFFICES ASSUME j + 1 <= K
               PROVE  /\ Synced(f[j + 1].st)
                      /\ ~ f[j + 1].ok => Available(f[j + 1].st) = {}
    OBVIOUS
  <2>1. f[j + 1] = Step2(n, f[j], j)
    <3>1. j + 1 \in 0 .. K /\ j + 1 # 0 /\ (j + 1) - 1 = j
      OBVIOUS
    <3> QED
      BY <1>3, <3>1 DEF IsAfter
  <2>2. Synced(f[j].st) /\ (~ f[j].ok => Available(f[j].st) = {})
    BY <1>5
  <2>3. CASE f[j].ok
    <3>1. PICK m \in Int : m = MinOf(n - j * P, P)
      <4>1. P \in Nat
        BY GeometryAssumption DEF P
      <4>2. PICK q \in Int : q = j * P
        BY <4>1
      <4>3. MinOf(n - q, P) \in Int
        BY <4>1 DEF MinOf
      <4> QED
        BY <4>2, <4>3
    <3>2. PICK r : r = ReserveLevel1(f[j].st, f[j].ptr[j], m)
      OBVIOUS
    <3>3. Synced(r.st) /\ (~ r.ok => Available(r.st) = {})
      BY <2>2, <3>1, <3>2, SyncedLevel1, Level1Full
    <3>4. f[j + 1] = Sub2(f[j], j, r)
      BY <2>1, <2>3, <3>1, <3>2 DEF Step2
    <3> QED
      BY <3>3, <3>4 DEF Sub2
  <2>4. CASE ~ f[j].ok
    BY <2>1, <2>2, <2>4 DEF Step2
  <2> QED
    BY <2>3, <2>4
<1> HIDE DEF S
<1>6. K \in S
  BY <1>4, <1>5, SetInduction
<1>7. ~ f[K].ok => Available(f[K].st) = {}
  BY <1>6 DEF S
<1> QED
  BY <1>3, <1>7 DEF Indexed

\* inode_reserve, for a length that its three levels hold.
LEMMA ReserveFull ==
  ASSUME NEW st, Synced(st), NEW inode, NEW length \in Nat,
         bytes_to_sectors(length) <= D + P + P * P, ~ inode_reserve(st, inode, length).ok
  PROVE  Available(inode_reserve(st, inode, length).st) = {}
<1> DEFINE n == bytes_to_sectors(length)
<1>1. n \in Nat /\ D \in Nat \ {0} /\ P \in Nat \ {0}
  BY GeometryAssumption DEF bytes_to_sectors, DivRoundUp, D, P
<1>2. PICK r0, d0 : r0 = Fill(st, inode.direct, MinOf(n, D)) /\ d0 = [inode EXCEPT !.direct = r0.ptr]
  OBVIOUS
<1>3. PICK r1, d1 : /\ r1 = ReserveLevel1(r0.st, inode.indirect, MinOf(n - D, P))
                    /\ d1 = [d0 EXCEPT !.indirect = r1.entry]
  OBVIOUS
<1>4. PICK r2, d2 : /\ r2 = ReserveLevel2(r1.st, d0.doubly, MinOf(n - D - P, P * P))
                    /\ d2 = [d1 EXCEPT !.doubly = r2.entry]
  OBVIOUS
<1>5. PICK tooLong : tooLong = (n > D + P + P * P)
  OBVIOUS
<1>6. PICK u : u = [r2.st EXCEPT !.panicked = @ \cup Printed(r2.ok /\ tooLong, "inode_reserve")]
  OBVIOUS
<1>7. inode_reserve(st, inode, length) =
        IF ~ r0.ok \/ n <= D THEN [st |-> r0.st, inode |-> d0, ok |-> r0.ok]
        ELSE IF ~ r1.ok \/ n <= D + P THEN [st |-> r1.st, inode |-> d1, ok |-> r1.ok]
        ELSE [st |-> u, inode |-> d2, ok |-> r2.ok /\ ~ tooLong]
  BY <1>2, <1>3, <1>4, <1>5, <1>6, Zenon DEF inode_reserve
<1>8. ~ tooLong
  <2>1. PICK q \in Int : q = P * P
    BY <1>1
  <2>2. n <= D + P + q /\ (tooLong <=> n > D + P + q)
    BY <1>5, <2>1
  <2> QED
    BY <1>1, <2>1, <2>2
<1>9. MinOf(n, D) \in Int /\ MinOf(n - D, P) \in Int
  BY <1>1 DEF MinOf
<1>10. Synced(r0.st) /\ Synced(r1.st)
  BY <1>2, <1>3, SyncedFill, SyncedLevel1
<1>11. ~ r0.ok => Available(r0.st) = {}
  BY <1>2, <1>9, FillFull
<1>12. ~ r1.ok => Available(r1.st) = {}
  BY <1>3, <1>9, <1>10, Level1Full
<1>13. ASSUME n > D + P, ~ r2.ok
       PROVE  Available(u) = {}
  <2>1. PICK k \in Nat : k = MinOf(n - D - P, P * P)
    BY <1>1, <1>13 DEF MinOf
  <2>2. Available(r2.st) = {}
    BY <1>4, <1>10, <1>13, <2>1, Level2Full
  <2>3. DivRoundUp(k, P) \in Nat
    BY <1>1 DEF DivRoundUp
  <2>4. IsState(r2.st)
    BY <1>4, <1>10, <2>1, <2>3, SyncedLevel2 DEF Synced
  <2>5. u.map = r2.st.map
    BY <1>6, <2>4 DEF IsState
  <2> QED
    BY <2>2, <2>5 DEF Available
<1>14. ~ n <= D + P => n > D + P
  BY <1>1
<1> HIDE DEF n
<1>15. CASE ~ r0.ok \/ n <= D
  BY <1>7, <1>11, <1>15
<1>16. CASE ~ (~ r0.ok \/ n <= D) /\ (~ r1.ok \/ n <= D + P)
  BY <1>7, <1>12, <1>16
<1>17. CASE ~ (~ r0.ok \/ n <= D) /\ ~ (~ r1.ok \/ n <= D + P)
  <2>0. PICK fits : fits = (r2.ok /\ ~ tooLong)
    OBVIOUS
  <2>1. inode_reserve(st, inode, length) = [st |-> u, inode |-> d2, ok |-> fits]
    BY <1>7, <1>17, <2>0
  <2>2. inode_reserve(st, inode, length).st = u /\ inode_reserve(st, inode, length).ok = fits
    BY <2>1
  <2>3. ~ r2.ok
    BY <1>8, <2>0, <2>2
  <2>4. n > D + P
    BY <1>14, <1>17
  <2> QED
    BY <1>13, <2>2, <2>3, <2>4
<1> QED
  BY <1>15, <1>16, <1>17

-----------------------------------------------------------------------------
(* The pointers of a file as a tree.                                        *)

\* The pointers of the index block in sector x; no block has none.
Ptrs(dsk, x) == IF x = 0 THEN [i \in 0 .. P - 1 |-> 0] ELSE Pointers(dsk[x])

\* What an index block may hold, and what block n's sectors may.
IndexNode == {Zeros} \cup [kind : {"index"}, ptr : Pointer]

\* The slots of the largest file.
IndexSlot == {<<1>>, <<2>>} \cup {<<2, j>> : j \in 0 .. P - 1}
DataSlot == {<<0, i>> : i \in 0 .. D - 1} \cup {<<1, i>> : i \in 0 .. P - 1}
              \cup {<<2, j, i>> : j \in 0 .. P - 1, i \in 0 .. P - 1}
Slot == IndexSlot \cup DataSlot

\* The sector at a slot, 0 if there is none.
Node(dsk, e, p) ==
  IF p[1] = 0 THEN e.direct[p[2]]
  ELSE IF p[1] = 1 THEN IF Len(p) = 1 THEN e.indirect ELSE Ptrs(dsk, e.indirect)[p[2]]
  ELSE IF Len(p) = 1 THEN e.doubly
  ELSE IF Len(p) = 2 THEN Ptrs(dsk, e.doubly)[p[2]]
  ELSE Ptrs(dsk, Ptrs(dsk, e.doubly)[p[2]])[p[3]]

Tree(dsk, e) == [p \in Slot |-> Node(dsk, e, p)]

\* Inode e has the pointers of inode d, and perhaps more.
InodeLeq(d, e) ==
  /\ \A i \in 0 .. D - 1 : d.direct[i] # 0 => e.direct[i] = d.direct[i]
  /\ d.indirect # 0 => e.indirect = d.indirect
  /\ d.doubly # 0 => e.doubly = d.doubly

-----------------------------------------------------------------------------
(* What an allocation may change.                                           *)

\* States in which sectors can be allocated.
Ready(st) ==
  /\ IsState(st)
  /\ st.disk \in [Sector -> Block] /\ st.map \subseteq Bits /\ st.saved \subseteq Bits
  /\ map_file => 0 \in st.map /\ st.saved = st.map

\* u is st after free sectors were taken and written to, and the sectors of X
\* rewritten.  Sector 0 may have been cleared.
Alloc(st, u, X) ==
  /\ Ready(u)
  /\ u.dir = st.dir /\ u.open = st.open /\ u.table = st.table
  /\ u.stale = st.stale /\ u.status = st.status /\ u.panicked = st.panicked
  /\ st.map \subseteq u.map /\ u.map \ st.map \subseteq Available(st)
  /\ \A x \in Sector : x # 0 /\ x \notin u.map \ st.map /\ x \notin X => u.disk[x] = st.disk[x]
  /\ u.disk[0] \in {st.disk[0], Zeros}

\* Pointers F become pointers G: none is changed, new ones are to different
\* sectors that were taken between maps m and m2.
Grow(K, m, F, m2, G) ==
  /\ m \subseteq m2
  /\ \A k \in K : F[k] # 0 => G[k] = F[k]
  /\ \A k \in K : F[k] = 0 /\ G[k] # 0 => G[k] \in m2 \ m
  /\ \A k, l \in K : F[k] = 0 /\ F[l] = 0 /\ G[k] # 0 /\ G[k] = G[l] => k = l

\* Pointers that stay grow.
LEMMA GrowSame ==
  ASSUME NEW K, NEW m, NEW F
  PROVE  Grow(K, m, F, m, F)
  BY DEF Grow

\* Growing twice, as the levels of inode_reserve do, is growing.
LEMMA GrowTrans ==
  ASSUME NEW K, NEW m, NEW F, NEW m2, NEW G, NEW m3, NEW H,
         Grow(K, m, F, m2, G), Grow(K, m2, G, m3, H)
  PROVE  Grow(K, m, F, m3, H)
<1>1. m \subseteq m3
  BY DEF Grow
<1>2. \A k \in K : F[k] # 0 => H[k] = F[k]
  BY DEF Grow
<1>3. \A k \in K : F[k] = 0 /\ H[k] # 0 =>
        \/ G[k] # 0 /\ H[k] = G[k] /\ H[k] \in m2 \ m
        \/ G[k] = 0 /\ H[k] \in m3 \ m2
  BY DEF Grow
<1>4. \A k, l \in K : F[k] = 0 /\ F[l] = 0 /\ H[k] # 0 /\ H[k] = H[l] => k = l
  <2> SUFFICES ASSUME NEW k \in K, NEW l \in K,
                      F[k] = 0, F[l] = 0, H[k] # 0, H[k] = H[l]
               PROVE  k = l
    OBVIOUS
  <2>1. CASE G[k] # 0 /\ G[l] # 0
    <3>1. G[k] = G[l]
      BY <2>1 DEF Grow
    <3> QED
      BY <2>1, <3>1 DEF Grow
  <2>2. CASE G[k] = 0 /\ G[l] = 0
    BY <2>2 DEF Grow
  <2> QED
    BY <1>3, <2>1, <2>2
<1>5. \A k \in K : F[k] = 0 /\ H[k] # 0 => H[k] \in m3 \ m
  BY <1>3 DEF Grow
<1> QED
  BY <1>1, <1>2, <1>4, <1>5 DEF Grow

\* Pointers may be forgotten again, as long as the first ones are kept.
LEMMA GrowLess ==
  ASSUME NEW K, NEW m, NEW F, NEW m2, NEW G, NEW H, Grow(K, m, F, m2, G),
         \A k \in K : F[k] # 0 => H[k] # 0,
         \A k \in K : H[k] # 0 => H[k] = G[k]
  PROVE  Grow(K, m, F, m2, H)
<1>1. \A k \in K : F[k] # 0 => H[k] = F[k]
  BY DEF Grow
<1>2. \A k \in K : F[k] = 0 /\ H[k] # 0 => H[k] \in m2 \ m
  BY DEF Grow
<1>3. \A k, l \in K : F[k] = 0 /\ F[l] = 0 /\ H[k] # 0 /\ H[k] = H[l] => k = l
  BY DEF Grow
<1> QED
  BY <1>1, <1>2, <1>3 DEF Grow

\* A part of the pointers grows: h gives the place of a slot in that part.
LEMMA GrowPart ==
  ASSUME NEW K, NEW m, NEW F, NEW m2, NEW G, Grow(K, m, F, m2, G),
         NEW S, NEW R, R \subseteq S, NEW h \in [R -> K],
         \A p, q \in R : h[p] = h[q] => p = q,
         NEW T, NEW U,
         \A p \in R : T[p] = F[h[p]] /\ U[p] = G[h[p]],
         \A p \in S \ R : U[p] = T[p]
  PROVE  Grow(S, m, T, m2, U)
<1>1. \A p \in S : T[p] # 0 => U[p] = T[p]
  BY DEF Grow
<1>2. \A p \in S : T[p] = 0 /\ U[p] # 0 => p \in R /\ U[p] \in m2 \ m
  BY DEF Grow
<1>3. \A p, q \in S : T[p] = 0 /\ T[q] = 0 /\ U[p] # 0 /\ U[p] = U[q] => p = q
  <2> SUFFICES ASSUME NEW p \in S, NEW q \in S, T[p] = 0, T[q] = 0, U[p] # 0, U[p] = U[q]
               PROVE  p = q
    OBVIOUS
  <2>1. p \in R /\ q \in R
    BY <1>2
  <2>2. h[p] = h[q]
    BY <2>1 DEF Grow
  <2> QED
    BY <2>1, <2>2
<1> QED
  BY <1>1, <1>2, <1>3 DEF Grow

\* Allocating nothing is an allocation.
LEMMA AllocSame ==
  ASSUME NEW st, Ready(st), NEW X
  PROVE  Alloc(st, st, X)
  BY DEF Alloc, Ready

\* Two allocations in a row are one, if the second rewrites only blocks that
\* the first might have rewritten, or took.
LEMMA AllocTrans ==
  ASSUME NEW a, NEW b, NEW c, NEW X, NEW Y, Alloc(a, b, X), Alloc(b, c, Y),
         Y \subseteq X \cup {0} \cup (b.map \ a.map)
  PROVE  Alloc(a, c, X)
<1>1. c.map \ a.map \subseteq Available(a) /\ a.map \subseteq c.map
  BY DEF Alloc, Available
<1>2. \A x \in Sector : x # 0 /\ x \notin c.map \ a.map /\ x \notin X => c.disk[x] = a.disk[x]
  <2> SUFFICES ASSUME NEW x \in Sector, x # 0, x \notin c.map \ a.map, x \notin X
               PROVE  c.disk[x] = a.disk[x]
    OBVIOUS
  <2>1. x \notin b.map \ a.map /\ x \notin c.map \ b.map /\ x \notin Y
    BY <1>1 DEF Alloc
  <2> QED
    BY <2>1 DEF Alloc
<1>3. c.disk[0] \in {a.disk[0], Zeros}
  BY DEF Alloc
<1>4. Ready(c)
  BY DEF Alloc
<1>5. /\ c.dir = a.dir /\ c.open = a.open /\ c.table = a.table
      /\ c.stale = a.stale /\ c.status = a.status /\ c.panicked = a.panicked
  BY DEF Alloc
<1> QED
  BY <1>1, <1>2, <1>3, <1>4, <1>5 DEF Alloc

\* What free_map_allocate can return is in the bitmap, unmarked, and not sector 0.
LEMMA AvailableBits ==
  ASSUME NEW st, Ready(st)
  PROVE  Available(st) \subseteq Bits /\ 0 \notin Available(st) /\ Available(st) \cap st.map = {}
  BY DEF Ready, Available

\* Marking free sectors and saving the map changes no block.
LEMMA TakeEffect ==
  ASSUME NEW st, Ready(st), NEW S, S \subseteq Available(st)
  PROVE  /\ Alloc(st, Take(st, S), {})
         /\ Take(st, S).map = st.map \cup S /\ Take(st, S).disk = st.disk
<1>1. CASE S = {}
  BY <1>1, AllocSame DEF Take
<1>2. CASE S # {}
  <2>1. map_file /\ S \subseteq Bits
    BY <1>2, AvailableBits DEF Available
  <2>2. PICK u : u = [st EXCEPT !.map = st.map \cup S, !.saved = st.map \cup S]
    OBVIOUS
  <2>3. Take(st, S) = u
    <3>1. PICK v : v = [st EXCEPT !.map = bitmap_set_multiple(@, S, TRUE)]
      OBVIOUS
    <3>2. v = [st EXCEPT !.map = st.map \cup S] /\ IsState(v) /\ v.map = st.map \cup S
      BY <3>1 DEF bitmap_set_multiple, IsState, Ready
    <3>3. u = [v EXCEPT !.saved = v.map]
      BY <2>2, <3>2 DEF IsState, Ready
    <3>4. Take(st, S) = Save(v)
      BY <1>2, <3>1 DEF Take
    <3> QED
      BY <2>1, <3>3, <3>4 DEF Save
  <2>4. IsState(u) /\ u.map = st.map \cup S /\ u.saved = st.map \cup S /\ u.disk = st.disk
        /\ u.dir = st.dir /\ u.open = st.open /\ u.table = st.table
        /\ u.stale = st.stale /\ u.status = st.status /\ u.panicked = st.panicked
    BY <2>2 DEF IsState, Ready
  <2>5. Ready(u)
    BY <2>1, <2>4 DEF Ready
  <2>6. Alloc(st, u, {})
    BY <2>4, <2>5 DEF Alloc
  <2> QED
    BY <2>3, <2>4, <2>6
<1> QED
  BY <1>1, <1>2

\* A sector of zeros can be read as an index block without pointers.
LEMMA ZerosIsBlock == Zeros \in Block /\ Zeros \in IndexNode
  BY DEF Block, IndexNode

\* A write changes its sectors and nothing else.
LEMMA WriteEffect ==
  ASSUME NEW st, Ready(st), NEW S, NEW block \in Block
  PROVE  /\ Write(st, S, block).disk = [s \in Sector |-> IF s \in S THEN block ELSE st.disk[s]]
         /\ Write(st, S, block).map = st.map
         /\ Ready(Write(st, S, block))
         /\ (0 \in S => block = Zeros) => Alloc(st, Write(st, S, block), S)
<1>1. PICK d : d = [s \in Sector |-> IF s \in S THEN block ELSE st.disk[s]]
  OBVIOUS
<1>2. PICK u : u = [st EXCEPT !.disk = d]
  OBVIOUS
<1>3. Write(st, S, block) = u
  BY <1>1, <1>2, Zenon DEF Write
<1>4. IsState(u) /\ u.disk = d /\ u.map = st.map /\ u.saved = st.saved
      /\ u.dir = st.dir /\ u.open = st.open /\ u.table = st.table
      /\ u.stale = st.stale /\ u.status = st.status /\ u.panicked = st.panicked
  BY <1>2 DEF IsState, Ready
<1>5. d \in [Sector -> Block]
  BY <1>1 DEF Ready
<1>6. Ready(u)
  BY <1>4, <1>5 DEF Ready
<1>7. ASSUME 0 \in S => block = Zeros
      PROVE  Alloc(st, u, S)
  <2>1. 0 \in Sector
    BY GeometryAssumption DEF Sector
  <2>2. d[0] \in {st.disk[0], Zeros}
    BY <1>1, <1>7, <2>1
  <2>3. \A x \in Sector : x \notin S => d[x] = st.disk[x]
    BY <1>1
  <2> QED
    BY <1>4, <1>6, <2>2, <2>3 DEF Alloc
<1> QED
  BY <1>1, <1>3, <1>4, <1>6, <1>7

-----------------------------------------------------------------------------
(* The three ways to find blocks.                                           *)

\* Pointers ptr were given the sectors took, and became q.
Given(st, m, ptr, n, took, q, ok) ==
  /\ took \subseteq Available(st) /\ ok \in BOOLEAN
  /\ q \in [0 .. m - 1 -> Sector]
  /\ \A i \in 0 .. m - 1 : q[i] # ptr[i] => i < n /\ ptr[i] = 0 /\ q[i] \in took
  /\ \A i, j \in 0 .. m - 1 : q[i] # ptr[i] /\ q[j] # ptr[j] /\ q[i] = q[j] => i = j
  /\ \A x \in took : \E i \in 0 .. n - 1 : ptr[i] = 0 /\ q[i] = x
  /\ ok => \A i \in 0 .. n - 1 : q[i] # 0

\* Fill gives the first free sectors to the pointers that have none.
LEMMA FillGives ==
  ASSUME NEW st, Ready(st), NEW m \in Nat, NEW ptr \in [0 .. m - 1 -> Sector],
         NEW n \in 0 .. m
  PROVE  \E took, q, ok :
           /\ Fill(st, ptr, n) = [st |-> Zeroed(Take(st, took), took), ptr |-> q, ok |-> ok]
           /\ Given(st, m, ptr, n, took, q, ok)
<1>1. PICK free, want : free = Available(st) /\ want = {i \in 0 .. n - 1 : ptr[i] = 0}
  OBVIOUS
<1>2. PICK given : given = {i \in want : RankOf(i, want) < Cardinality(free)}
  OBVIOUS
<1>3. PICK nth : nth = [i \in given |-> CHOOSE s \in free : RankOf(s, free) = RankOf(i, want)]
  OBVIOUS
<1>4. PICK took : took = {nth[i] : i \in given}
  OBVIOUS
<1>5. PICK q : q = [i \in 0 .. m - 1 |-> IF i \in given THEN nth[i] ELSE ptr[i]]
  OBVIOUS
<1>6. PICK ok \in BOOLEAN : ok = (given = want)
  OBVIOUS
<1>7. Fill(st, ptr, n) = [st |-> Zeroed(Take(st, took), took), ptr |-> q, ok |-> ok]
  <2> DEFINE w == {i \in 0 .. n - 1 : ptr[i] = 0}
             g == {i \in w : RankOf(i, w) < Cardinality(Available(st))}
             Nth(i) == CHOOSE s \in Available(st) : RankOf(s, Available(st)) = RankOf(i, w)
             t == {Nth(i) : i \in g}
  <2>3. Fill(st, ptr, n) =
          [st |-> Zeroed(Take(st, t), t),
           ptr |-> [i \in DOMAIN ptr |-> IF i \in g THEN Nth(i) ELSE ptr[i]],
           ok |-> g = w]
    BY Zenon DEF Fill, RankOf
  <2>4. w = want /\ g = given
    BY <1>1, <1>2
  <2>6. \A i \in given : Nth(i) = nth[i]
    <3> SUFFICES ASSUME NEW i \in given
                 PROVE  Nth(i) = nth[i]
      OBVIOUS
    <3>1. nth[i] = CHOOSE s \in free : RankOf(s, free) = RankOf(i, want)
      BY <1>3
    <3> HIDE DEF w, g
    <3>2. Nth(i) = CHOOSE s \in free : RankOf(s, free) = RankOf(i, want)
      BY <1>1, <2>4, Zenon
    <3> QED
      BY <3>1, <3>2, Zenon
  <2> HIDE DEF w, g, Nth
  <2>5. t = took /\ [i \in DOMAIN ptr |-> IF i \in g THEN Nth(i) ELSE ptr[i]] = q
    BY <1>4, <1>5, <2>4, <2>6
  <2> HIDE DEF t
  <2> QED
    BY <1>6, <2>3, <2>4, <2>5
<1>8. free \subseteq Nat /\ free \subseteq Sector /\ IsFiniteSet(free) /\ 0 \notin free
  BY <1>1, AvailableBits, BitsFinite, FS_Subset
<1>9. want \subseteq Nat /\ want \subseteq 0 .. m - 1 /\ IsFiniteSet(want)
  <2>1. IsFiniteSet(0 .. n - 1)
    BY FS_Interval
  <2>2. want \subseteq 0 .. n - 1
    BY <1>1
  <2> QED
    <3>1. IsFiniteSet(want)
      BY <2>1, <2>2, FS_Subset
    <3>2. want \subseteq Nat /\ want \subseteq 0 .. m - 1
      BY <2>2
    <3> QED
      BY <3>1, <3>2
<1>10. ASSUME NEW i \in given
       PROVE  nth[i] \in free /\ RankOf(nth[i], free) = RankOf(i, want)
  <2>1. i \in want /\ RankOf(i, want) < Cardinality(free)
    BY <1>2
  <2>2. RankOf(i, want) \in 0 .. Cardinality(free) - 1
    <3>1. PICK c \in Nat : c = Cardinality(want)
      BY <1>9, FS_CardinalityType
    <3>2. RankOf(i, want) \in 0 .. c - 1
      BY <1>9, <2>1, <3>1, RankRange
    <3>3. Cardinality(free) \in Nat
      BY <1>8, FS_CardinalityType
    <3> QED
      BY <2>1, <3>2, <3>3
  <2>3. \E s \in free : RankOf(s, free) = RankOf(i, want)
    BY <1>8, <2>2, RankTaken
  <2> QED
    BY <1>3, <2>3
<1>11. ASSUME NEW i \in given, NEW j \in given, nth[i] = nth[j]
       PROVE  i = j
  <2>1. RankOf(i, want) = RankOf(j, want) /\ i \in want /\ j \in want
    BY <1>2, <1>10, <1>11
  <2>2. PICK c \in Nat : c = Cardinality(want)
    BY <1>9, FS_CardinalityType
  <2>3. RankOf(i, want) \in 0 .. c - 1
    BY <1>9, <2>1, <2>2, RankRange
  <2>4. CASE i < j
    <3>1. RankOf(i, want) < RankOf(j, want)
      BY <1>9, <2>1, <2>4, RankLess
    <3> QED
      BY <2>1, <2>3, <3>1
  <2>5. CASE j < i
    <3>1. RankOf(j, want) < RankOf(i, want)
      BY <1>9, <2>1, <2>5, RankLess
    <3> QED
      BY <2>1, <2>3, <3>1
  <2>6. i \in Nat /\ j \in Nat
    BY <1>9, <2>1
  <2> QED
    BY <2>4, <2>5, <2>6
<1>12. given \subseteq want /\ given \subseteq 0 .. m - 1
  BY <1>2, <1>9
<1>13. took \subseteq Available(st)
  BY <1>1, <1>4, <1>10
<1>14. q \in [0 .. m - 1 -> Sector]
  BY <1>5, <1>8, <1>10
<1>15. \A i \in 0 .. m - 1 : q[i] # ptr[i] => i \in given /\ q[i] = nth[i]
  BY <1>5
<1>16. \A i \in 0 .. m - 1 : q[i] # ptr[i] => i < n /\ ptr[i] = 0 /\ q[i] \in took
  BY <1>1, <1>4, <1>12, <1>15
<1>17. \A i, j \in 0 .. m - 1 : q[i] # ptr[i] /\ q[j] # ptr[j] /\ q[i] = q[j] => i = j
  BY <1>11, <1>15
<1>18. \A x \in took : \E i \in 0 .. n - 1 : ptr[i] = 0 /\ q[i] = x
  BY <1>1, <1>4, <1>5, <1>12
<1>19. ok => \A i \in 0 .. n - 1 : q[i] # 0
  <2> SUFFICES ASSUME ok, NEW i \in 0 .. n - 1
               PROVE  q[i] # 0
    OBVIOUS
  <2>1. CASE ptr[i] = 0
    <3>1. i \in given
      BY <1>1, <1>6, <2>1
    <3> QED
      BY <1>5, <1>8, <1>10, <1>12, <3>1
  <2>2. CASE ptr[i] # 0
    <3>1. i \notin given /\ i \in 0 .. m - 1
      BY <1>1, <1>12, <2>2
    <3> QED
      BY <1>5, <2>2, <3>1
  <2> QED
    BY <2>1, <2>2
<1>20. Given(st, m, ptr, n, took, q, ok)
  BY <1>13, <1>14, <1>16, <1>17, <1>18, <1>19 DEF Given
<1> QED
  BY <1>7, <1>20

\* What Fill returns, and what it did to the state.
Filled(st, m, ptr, n, r) ==
  /\ Alloc(st, r.st, {}) /\ r.ok \in BOOLEAN
  /\ r.ptr \in [0 .. m - 1 -> Sector]
  /\ Grow(0 .. m - 1, st.map, ptr, r.st.map, r.ptr)
  /\ \A i \in 0 .. m - 1 : r.ptr[i] # ptr[i] => i < n /\ ptr[i] = 0 /\ r.st.disk[r.ptr[i]] = Zeros
  /\ \A x \in r.st.map \ st.map : \E i \in 0 .. n - 1 : ptr[i] = 0 /\ r.ptr[i] = x
  /\ r.ok => \A i \in 0 .. n - 1 : r.ptr[i] # 0

\* The loop of inode_reserve over a run of pointers does what Filled says.
LEMMA FillEffect ==
  ASSUME NEW st, Ready(st), NEW m \in Nat, NEW ptr \in [0 .. m - 1 -> Sector],
         NEW n \in 0 .. m
  PROVE  Filled(st, m, ptr, n, Fill(st, ptr, n))
<1>1. PICK took, q, ok :
        /\ Fill(st, ptr, n) = [st |-> Zeroed(Take(st, took), took), ptr |-> q, ok |-> ok]
        /\ Given(st, m, ptr, n, took, q, ok)
  BY FillGives
<1>2. PICK t : t = Take(st, took)
  OBVIOUS
<1>3. Alloc(st, t, {}) /\ t.map = st.map \cup took /\ t.disk = st.disk /\ Ready(t)
  BY <1>1, <1>2, TakeEffect DEF Given, Alloc
<1>4. PICK u : u = Write(t, took, Zeros)
  OBVIOUS
<1>5. took \subseteq Bits /\ 0 \notin took /\ took \cap st.map = {}
  BY <1>1, AvailableBits DEF Given
<1>6. /\ u.disk = [s \in Sector |-> IF s \in took THEN Zeros ELSE t.disk[s]]
      /\ u.map = t.map /\ Alloc(t, u, took)
  BY <1>3, <1>4, <1>5, WriteEffect, ZerosIsBlock
<1>7. u.map \ st.map = took
  BY <1>3, <1>5, <1>6
<1>8. Alloc(st, u, {})
  <2>1. took \subseteq {} \cup {0} \cup (t.map \ st.map)
    BY <1>3, <1>5
  <2> QED
    BY <1>3, <1>6, <2>1, AllocTrans
<1>9. Grow(0 .. m - 1, st.map, ptr, u.map, q)
  <2>1. st.map \subseteq u.map
    BY <1>3, <1>6
  <2>2. \A i \in 0 .. m - 1 : ptr[i] # 0 => q[i] = ptr[i]
    BY <1>1 DEF Given
  <2>3. \A i \in 0 .. m - 1 : ptr[i] = 0 /\ q[i] # 0 => q[i] \in u.map \ st.map
    BY <1>1, <1>7 DEF Given
  <2>4. \A i, j \in 0 .. m - 1 : ptr[i] = 0 /\ ptr[j] = 0 /\ q[i] # 0 /\ q[i] = q[j] => i = j
    BY <1>1 DEF Given
  <2> QED
    BY <2>1, <2>2, <2>3, <2>4 DEF Grow
<1>10. \A i \in 0 .. m - 1 : q[i] # ptr[i] => i < n /\ ptr[i] = 0 /\ u.disk[q[i]] = Zeros
  BY <1>1, <1>5, <1>6, BitsFinite DEF Given
<1>11. \A x \in u.map \ st.map : \E i \in 0 .. n - 1 : ptr[i] = 0 /\ q[i] = x
  BY <1>1, <1>7 DEF Given
<1>12. Fill(st, ptr, n) = [st |-> u, ptr |-> q, ok |-> ok]
  BY <1>1, <1>2, <1>4 DEF Zeroed
<1>13. Filled(st, m, ptr, n, [st |-> u, ptr |-> q, ok |-> ok])
  BY <1>1, <1>8, <1>9, <1>10, <1>11 DEF Filled, Given
<1> QED
  BY <1>12, <1>13

\* An index block that is there, or was taken and cleared, or is missing because the
\* disk is full.
IndexFound(st, entry, r) ==
  /\ Alloc(st, r.st, {}) /\ r.entry \in Sector /\ r.entry \notin Available(r.st)
  /\ entry # 0 => r.st = st /\ r.entry = entry
  /\ entry = 0 =>
       /\ r.st.disk[r.entry] = Zeros
       /\ \/ r.entry = 0 /\ r.st.map = st.map /\ Available(r.st) = {}
          \/ r.entry # 0 /\ r.entry \in Available(st) /\ r.st.map = st.map \cup {r.entry}

\* Looking up or allocating an index block does what IndexFound says: on a full
\* disk the entry stays 0, and sector 0 is overwritten with zeros.
LEMMA IndexSectorEffect ==
  ASSUME NEW st, Ready(st), NEW entry \in Sector, entry \notin Available(st)
  PROVE  IndexFound(st, entry, IndexSector(st, entry))
<1>1. CASE entry # 0
  BY <1>1, AllocSame DEF IndexSector, IndexFound
<1>2. CASE entry = 0 /\ Available(st) = {}
  <2>1. PICK u : u = Write(st, {0}, Zeros)
    OBVIOUS
  <2>2. IndexSector(st, entry) = [st |-> u, entry |-> 0]
    BY <1>2, <2>1 DEF IndexSector, Take
  <2>3. Alloc(st, u, {0}) /\ u.map = st.map /\ u.disk = [s \in Sector |-> IF s \in {0} THEN Zeros ELSE st.disk[s]]
    BY <2>1, WriteEffect, ZerosIsBlock
  <2>4. Alloc(st, u, {})
    BY <2>3 DEF Alloc
  <2>5. 0 \in Sector
    BY GeometryAssumption DEF Sector
  <2>6. Available(u) = {} /\ u.disk[0] = Zeros
    BY <1>2, <2>3, <2>5 DEF Available
  <2> QED
    BY <1>2, <2>2, <2>3, <2>4, <2>5, <2>6 DEF IndexFound
<1>3. CASE entry = 0 /\ Available(st) # {}
  <2>1. PICK s : s = Min(Available(st))
    OBVIOUS
  <2>2. s \in Available(st) /\ s \in Sector /\ s # 0 /\ s \in Bits
    BY <1>3, <2>1, AvailableBits, BitsFinite, MinIsLeast
  <2>3. PICK t, u : t = Take(st, {s}) /\ u = Write(t, {s}, Zeros)
    OBVIOUS
  <2>4. IndexSector(st, entry) = [st |-> u, entry |-> s]
    BY <1>3, <2>1, <2>3 DEF IndexSector
  <2>5. Alloc(st, t, {}) /\ t.map = st.map \cup {s} /\ Ready(t)
    BY <2>2, <2>3, TakeEffect DEF Alloc
  <2>6. Alloc(t, u, {s}) /\ u.map = t.map /\ u.disk = [x \in Sector |-> IF x \in {s} THEN Zeros ELSE t.disk[x]]
    BY <2>2, <2>3, <2>5, WriteEffect, ZerosIsBlock
  <2>7. s \notin st.map
    BY <2>2, AvailableBits
  <2>8. Alloc(st, u, {})
    <3>1. {s} \subseteq {} \cup {0} \cup (t.map \ st.map)
      BY <2>5, <2>7
    <3> QED
      BY <2>5, <2>6, <3>1, AllocTrans
  <2>9. s \notin Available(u) /\ u.disk[s] = Zeros
    BY <2>2, <2>5, <2>6 DEF Available
  <2>10. PICK r : r = [st |-> u, entry |-> s]
    OBVIOUS
  <2>11. r.st = u /\ r.entry = s /\ u.map = st.map \cup {s}
    BY <2>5, <2>6, <2>10
  <2>12. IndexFound(st, entry, r)
    BY <1>3, <2>2, <2>8, <2>9, <2>11 DEF IndexFound
  <2> QED
    BY <2>4, <2>10, <2>12
<1> QED
  BY <1>1, <1>2, <1>3

\* Sector 0 exists, and an inode has direct blocks and index blocks pointers.
LEMMA SectorZero == 0 \in Sector /\ P \in Nat \ {0} /\ D \in Nat \ {0}
  BY GeometryAssumption DEF Sector, P, D

\* The pointers read from an index block, or from a sector of zeros.
LEMMA PointersOf ==
  ASSUME NEW b \in IndexNode
  PROVE  /\ Pointers(b) \in Pointer
         /\ b = Zeros => Pointers(b) = [i \in 0 .. P - 1 |-> 0]
         /\ b.kind = "index" => b \in [kind : {"index"}, ptr : Pointer] /\ Pointers(b) = b.ptr
         /\ b \in Block
<1>1. CASE b = Zeros
  <2>1. b.kind = "zeros"
    BY <1>1 DEF Zeros
  <2>2. Pointers(b) = [i \in 0 .. P - 1 |-> 0]
    BY <2>1 DEF Pointers
  <2> QED
    BY <1>1, <2>1, <2>2, SectorZero DEF Pointer, Block
<1>2. CASE b \in [kind : {"index"}, ptr : Pointer]
  <2>1. b.kind = "index" /\ b.ptr \in Pointer
    BY <1>2
  <2>2. b # Zeros
    BY <2>1 DEF Zeros
  <2> QED
    BY <1>2, <2>1, <2>2 DEF Pointers, Block
<1> QED
  BY <1>1, <1>2 DEF IndexNode

\* Reading the pointers of an index block, or of none, gives pointers.
LEMMA PtrsType ==
  ASSUME NEW dsk, NEW x, x # 0 => dsk[x] \in IndexNode
  PROVE  Ptrs(dsk, x) \in Pointer
  BY PointersOf, SectorZero DEF Ptrs, Pointer

\* Pointers that are written to an index block are read back.
LEMMA IndexBlockOf ==
  ASSUME NEW q \in Pointer
  PROVE  /\ IndexBlock(q) \in IndexNode /\ IndexBlock(q) \in Block
         /\ IndexBlock(q).kind = "index" /\ Pointers(IndexBlock(q)) = q
  BY DEF IndexBlock, IndexNode, Block, Pointers

\* An index block in sector x and what it points to; the block itself is at place P.
Branch(dsk, x) == [k \in 0 .. P |-> IF k = P THEN x ELSE Ptrs(dsk, x)[k]]

\* The index block and its pointers in a branch.
LEMMA BranchOf ==
  ASSUME NEW dsk, NEW x
  PROVE  Branch(dsk, x)[P] = x /\ \A k \in 0 .. P - 1 : Branch(dsk, x)[k] = Ptrs(dsk, x)[k]
  BY SectorZero DEF Branch

\* What reserving the first n blocks of an index block leaves.
BranchGrown(st, entry, n, r) ==
  LET F == Branch(st.disk, entry)
      G == Branch(r.st.disk, r.entry)
  IN  /\ Alloc(st, r.st, {entry}) /\ r.entry \in Sector /\ r.ok \in BOOLEAN
      /\ Grow(0 .. P, st.map, F, r.st.map, G)
      /\ \A k \in 0 .. P : G[k] # F[k] => k < n \/ k = P
      /\ r.entry # 0 => r.st.disk[r.entry] \in IndexNode
      /\ entry # 0 /\ st.disk[entry].kind = "index" => r.st.disk[r.entry].kind = "index"
      /\ \A k \in 0 .. P - 1 : F[k] = 0 /\ G[k] # 0 => r.st.disk[G[k]] = Zeros
      /\ r.ok => /\ r.entry # 0 /\ r.st.disk[r.entry].kind = "index"
                 /\ \A k \in 0 .. n - 1 : G[k] # 0
                 /\ \A x \in r.st.map \ st.map : \E k \in 0 .. P : F[k] = 0 /\ G[k] = x

\* inode_reserve_indirect at level 1 does what BranchGrown says.
LEMMA Level1Effect ==
  ASSUME NEW st, Ready(st), NEW entry \in Sector, entry \notin Available(st),
         entry # 0 => st.disk[entry] \in IndexNode, NEW n \in 1 .. P
  PROVE  BranchGrown(st, entry, n, ReserveLevel1(st, entry, n))
<1>1. PICK index : index = IndexSector(st, entry)
  OBVIOUS
<1>2. PICK t, e : t = index.st /\ e = index.entry
  OBVIOUS
<1>3. PICK ptr : ptr = Pointers(t.disk[e])
  OBVIOUS
<1>4. PICK r : r = Fill(t, ptr, n)
  OBVIOUS
<1>5. PICK u, q, ok : u = r.st /\ q = r.ptr /\ ok = r.ok
  OBVIOUS
<1>6. PICK v : v = Write(u, {e}, IndexBlock(q))
  OBVIOUS
<1>7. ReserveLevel1(st, entry, n) = [st |-> IF ok THEN v ELSE u, entry |-> e, ok |-> ok]
  <2>1. ReserveLevel1(st, entry, n) = Indexed(r, e)
    BY <1>1, <1>2, <1>3, <1>4, Zenon DEF ReserveLevel1
  <2> QED
    BY <1>5, <1>6, <2>1 DEF Indexed
<1>8. IndexFound(st, entry, index)
  BY <1>1, IndexSectorEffect
<1>9. /\ Alloc(st, t, {}) /\ Ready(t) /\ e \in Sector /\ e \notin Available(t)
      /\ entry # 0 => t = st /\ e = entry
      /\ entry = 0 => /\ t.disk[e] = Zeros
                      /\ \/ e = 0 /\ t.map = st.map /\ Available(t) = {}
                         \/ e # 0 /\ e \in Available(st) /\ t.map = st.map \cup {e}
  BY <1>2, <1>8 DEF IndexFound, Alloc
<1>10. t.disk[e] \in IndexNode
  BY <1>9, ZerosIsBlock
<1>11. ptr \in [0 .. P - 1 -> Sector] /\ P \in Nat /\ n \in 0 .. P
  BY <1>3, <1>10, PointersOf, SectorZero DEF Pointer
<1>12. ptr = Ptrs(st.disk, entry)
  <2>1. CASE entry # 0
    BY <1>3, <1>9, <2>1 DEF Ptrs
  <2>2. CASE entry = 0
    BY <1>3, <1>9, <1>10, <2>2, PointersOf DEF Ptrs
  <2> QED
    BY <2>1, <2>2
<1>13. Filled(t, P, ptr, n, r)
  BY <1>4, <1>9, <1>11, FillEffect
<1>14. /\ Alloc(t, u, {}) /\ Ready(u) /\ ok \in BOOLEAN /\ q \in [0 .. P - 1 -> Sector]
       /\ Grow(0 .. P - 1, t.map, ptr, u.map, q)
       /\ \A i \in 0 .. P - 1 : q[i] # ptr[i] => i < n /\ ptr[i] = 0 /\ u.disk[q[i]] = Zeros
       /\ \A x \in u.map \ t.map : \E i \in 0 .. n - 1 : ptr[i] = 0 /\ q[i] = x
       /\ ok => \A i \in 0 .. n - 1 : q[i] # 0
  BY <1>5, <1>13 DEF Filled, Alloc
<1>15. ok => e # 0
  <2> SUFFICES ASSUME ok, e = 0
               PROVE  FALSE
    OBVIOUS
  <2>1. entry = 0 /\ Available(t) = {}
    BY <1>9
  <2>2. 0 \in 0 .. n - 1 /\ 0 \in 0 .. P - 1
    BY SectorZero
  <2>3. ptr[0] = 0
    BY <1>12, <2>1, <2>2 DEF Ptrs
  <2>4. q[0] # 0
    BY <1>14, <2>2
  <2>5. q[0] \in u.map \ t.map
    BY <1>14, <2>2, <2>3, <2>4 DEF Grow
  <2> QED
    BY <1>14, <2>1, <2>5 DEF Alloc
<1>16. Alloc(st, u, {})
  BY <1>9, <1>14, AllocTrans
<1>17. u.map \ t.map \subseteq Available(t) /\ (e # 0 => u.disk[e] = t.disk[e])
  BY <1>9, <1>14 DEF Alloc
<1>18. ok => Alloc(u, v, {e}) /\ v.map = u.map
             /\ v.disk = [s \in Sector |-> IF s \in {e} THEN IndexBlock(q) ELSE u.disk[s]]
  <2>1. IndexBlock(q) \in Block
    BY <1>14, IndexBlockOf DEF Pointer
  <2>2. ok => (0 \in {e} => IndexBlock(q) = Zeros)
    BY <1>15
  <2> QED
    BY <1>6, <1>14, <2>1, <2>2, WriteEffect
<1>19. e = entry \/ e \in t.map \ st.map \/ e = 0
  BY <1>9, AvailableBits
<1>20. ok => Alloc(st, v, {entry})
  <2>1. {e} \subseteq {entry} \cup {0} \cup (u.map \ st.map)
    BY <1>14, <1>19 DEF Alloc
  <2>2. Alloc(st, u, {entry})
    BY <1>16 DEF Alloc
  <2> QED
    BY <1>18, <2>1, <2>2, AllocTrans
<1>21. Alloc(st, u, {entry})
  BY <1>16 DEF Alloc
<1> DEFINE F == Branch(st.disk, entry)
           V == [k \in 0 .. P |-> IF k = P THEN e ELSE q[k]]
<1>22. F[P] = entry /\ \A k \in 0 .. P - 1 : F[k] = ptr[k]
  BY <1>12, BranchOf
<1>23. Grow(0 .. P, st.map, F, u.map, V)
  <2> DEFINE W == [k \in 0 .. P |-> IF k = P THEN e ELSE ptr[k]]
  <2>1. Grow(0 .. P, st.map, F, t.map, W)
    <3>1. F[P] = entry /\ W[P] = e /\ \A k \in 0 .. P : k # P => W[k] = F[k]
      BY <1>22, SectorZero
    <3>2. st.map \subseteq t.map
      BY <1>9 DEF Alloc
    <3>3. entry # 0 => e = entry
      BY <1>9
    <3>4. entry = 0 /\ e # 0 => e \in t.map \ st.map
      BY <1>9, AvailableBits
    <3> HIDE DEF F, W
    <3>5. \A k \in 0 .. P : F[k] # 0 => W[k] = F[k]
      BY <3>1, <3>3
    <3>6. \A k \in 0 .. P : F[k] = 0 /\ W[k] # 0 => k = P /\ W[k] \in t.map \ st.map
      BY <3>1, <3>4
    <3> QED
      BY <3>2, <3>5, <3>6 DEF Grow
  <2>2. Grow(0 .. P, t.map, W, u.map, V)
    <3>1. \A p \in 0 .. P - 1 : W[p] = ptr[p] /\ V[p] = q[p]
      BY SectorZero
    <3>2. V[P] = W[P] /\ \A p \in 0 .. P : p # P => p \in 0 .. P - 1
      BY SectorZero
    <3> HIDE DEF W, V
    <3>3. \A k \in 0 .. P : W[k] # 0 => V[k] = W[k]
      BY <1>14, <3>1, <3>2 DEF Grow
    <3>4. \A k \in 0 .. P : W[k] = 0 /\ V[k] # 0 => k \in 0 .. P - 1 /\ V[k] \in u.map \ t.map
      BY <1>14, <3>1, <3>2 DEF Grow
    <3>5. \A k, l \in 0 .. P : W[k] = 0 /\ W[l] = 0 /\ V[k] # 0 /\ V[k] = V[l] => k = l
      BY <1>14, <3>1, <3>4 DEF Grow
    <3>6. t.map \subseteq u.map
      BY <1>14 DEF Grow
    <3> QED
      BY <3>3, <3>4, <3>5, <3>6 DEF Grow
  <2> QED
    BY <2>1, <2>2, GrowTrans
<1>24. CASE ok
  <2>1. ReserveLevel1(st, entry, n) = [st |-> v, entry |-> e, ok |-> TRUE]
    BY <1>7, <1>24
  <2>2. v.disk[e] = IndexBlock(q) /\ v.map = u.map /\ e # 0 /\ Alloc(st, v, {entry})
    BY <1>9, <1>15, <1>18, <1>20, <1>24
  <2>3. Branch(v.disk, e) = V
    BY <1>14, <2>2, IndexBlockOf DEF Branch, Ptrs, Pointer
  <2>4. v.disk[e] \in IndexNode /\ v.disk[e].kind = "index"
    BY <1>14, <2>2, IndexBlockOf DEF Pointer
  <2>5. \A k \in 0 .. P : V[k] # F[k] => k < n \/ k = P
    BY <1>14, <1>22, SectorZero
  <2>6. ASSUME NEW k \in 0 .. P - 1, F[k] = 0, V[k] # 0
        PROVE  v.disk[V[k]] = Zeros
    <3>1. V[k] = q[k] /\ ptr[k] = 0 /\ q[k] # ptr[k] /\ q[k] \in Sector
      BY <1>14, <1>22, <2>6, SectorZero
    <3>2. u.disk[q[k]] = Zeros /\ q[k] \in u.map \ t.map
      BY <1>14, <3>1 DEF Grow
    <3>3. q[k] # e
      BY <1>9, <1>17, <3>2
    <3> QED
      BY <1>18, <1>24, <3>1, <3>2, <3>3
  <2>7. \A k \in 0 .. n - 1 : V[k] # 0
    BY <1>11, <1>14, <1>24, SectorZero
  <2>8. \A x \in v.map \ st.map : \E k \in 0 .. P : F[k] = 0 /\ V[k] = x
    <3> SUFFICES ASSUME NEW x \in v.map \ st.map
                 PROVE  \E k \in 0 .. P : F[k] = 0 /\ V[k] = x
      OBVIOUS
    <3>1. CASE x \in u.map \ t.map
      <4>1. PICK i \in 0 .. n - 1 : ptr[i] = 0 /\ q[i] = x
        BY <1>14, <3>1
      <4>2. i \in 0 .. P - 1 /\ i \in 0 .. P /\ i # P
        BY <1>11, SectorZero
      <4> QED
        BY <1>22, <4>1, <4>2
    <3>2. CASE x \in t.map \ st.map
      <4>1. entry = 0 /\ x = e
        BY <1>9, <3>2
      <4> QED
        BY <1>22, <4>1, SectorZero
    <3> QED
      BY <2>2, <3>1, <3>2
  <2> HIDE DEF F, V
  <2>9. PICK z : z = [st |-> v, entry |-> e, ok |-> TRUE]
    OBVIOUS
  <2>10. z.st = v /\ z.entry = e /\ z.ok = TRUE
    BY <2>9
  <2>11. BranchGrown(st, entry, n, z)
    BY <1>9, <1>23, <2>2, <2>3, <2>4, <2>5, <2>6, <2>7, <2>8, <2>10 DEF BranchGrown, F
  <2> QED
    BY <2>1, <2>9, <2>11
<1>25. CASE ~ok
  <2>1. ReserveLevel1(st, entry, n) = [st |-> u, entry |-> e, ok |-> FALSE]
    BY <1>7, <1>14, <1>25
  <2> DEFINE G == Branch(u.disk, e)
  <2>2. Ptrs(u.disk, e) = ptr
    <3>1. CASE e # 0
      BY <1>3, <1>17, <3>1 DEF Ptrs
    <3>2. CASE e = 0
      BY <1>9, <1>12, <3>2 DEF Ptrs
    <3> QED
      BY <3>1, <3>2
  <2>3. G[P] = e /\ \A k \in 0 .. P - 1 : G[k] = ptr[k]
    BY <2>2, BranchOf
  <2>4. \A k \in 0 .. P : k # P => k \in 0 .. P - 1
    BY SectorZero
  <2>5. \A k \in 0 .. P : G[k] # F[k] => k = P
    BY <1>22, <2>3, <2>4
  <2>6. V[P] = e /\ \A k \in 0 .. P - 1 : V[k] = q[k]
    BY SectorZero
  <2>7. F[P] # 0 => e = F[P]
    BY <1>9, <1>22
  <2> HIDE DEF F, V, G
  <2>8. \A k \in 0 .. P : F[k] # 0 => G[k] # 0
    BY <2>5, <2>7, <2>3
  <2>9. \A k \in 0 .. P : G[k] # 0 => G[k] = V[k]
    <3>1. \A k \in 0 .. P - 1 : ptr[k] # 0 => q[k] = ptr[k]
      BY <1>14 DEF Grow
    <3> QED
      BY <2>3, <2>4, <2>6, <3>1
  <2>10. Grow(0 .. P, st.map, F, u.map, G)
    BY <1>23, <2>8, <2>9, GrowLess
  <2>11. e # 0 => u.disk[e] \in IndexNode
    BY <1>10, <1>17
  <2>12. entry # 0 /\ st.disk[entry].kind = "index" => u.disk[e].kind = "index"
    BY <1>9, <1>17
  <2>13. \A k \in 0 .. P - 1 : G[k] = F[k]
    BY <1>22, <2>3
  <2>14. PICK z : z = [st |-> u, entry |-> e, ok |-> FALSE]
    OBVIOUS
  <2>15. z.st = u /\ z.entry = e /\ z.ok = FALSE
    BY <2>14
  <2>16. BranchGrown(st, entry, n, z)
    BY <1>9, <1>21, <2>5, <2>10, <2>11, <2>12, <2>13, <2>15 DEF BranchGrown, F, G
  <2> QED
    BY <2>1, <2>14, <2>16
<1> QED
  BY <1>14, <1>24, <1>25

\* The second-level blocks of n blocks: block j is one of them if n goes past its start.
LEMMA SecondLevel ==
  ASSUME NEW n \in 1 .. P * P
  PROVE  /\ DivRoundUp(n, P) \in 1 .. P
         /\ \A j \in Nat : j < DivRoundUp(n, P) <=> j * P < n
<1>1. PICK b \in Nat \ {0} : b = P
  BY SectorZero
<1>2. n \in Nat \ {0} /\ n <= b * b
  BY <1>1
<1>3. PICK a \in Nat : a = n + b - 1
  BY <1>1, <1>2
<1>4. PICK q \in Nat, r \in 0 .. b - 1 : q = a \div b /\ a = b * q + r
  BY <1>1, <1>3, DivMod
<1>5. DivRoundUp(n, P) = q
  BY <1>1, <1>3, <1>4 DEF DivRoundUp
<1>6. ASSUME NEW j \in Nat, j < q
      PROVE  j * b < n
  <2>1. b * j + b <= b * q
    BY <1>6, NextMultiple
  <2>2. PICK x \in Nat, y \in Nat : x = b * j /\ y = b * q
    OBVIOUS
  <2>3. x < n
    BY <1>2, <1>3, <1>4, <2>1, <2>2
  <2>4. j * b = b * j
    OBVIOUS
  <2> QED
    BY <2>2, <2>3, <2>4
<1>7. ASSUME NEW j \in Nat, ~(j < q)
      PROVE  ~(j * b < n)
  <2>1. b * q <= b * j
    <3>1. CASE q = j
      BY <3>1
    <3>2. CASE q < j
      <4>1. b * q + b <= b * j
        BY <3>2, NextMultiple
      <4>2. PICK x \in Nat, y \in Nat : x = b * j /\ y = b * q
        OBVIOUS
      <4> QED
        BY <4>1, <4>2
    <3> QED
      BY <1>7, <3>1, <3>2
  <2>2. PICK x \in Nat, y \in Nat : x = b * j /\ y = b * q
    OBVIOUS
  <2>3. n <= x
    BY <1>2, <1>3, <1>4, <2>1, <2>2
  <2>4. j * b = b * j
    OBVIOUS
  <2> QED
    BY <1>2, <2>2, <2>3, <2>4
<1>8. q # 0
  <2>1. q = 0 => b * q = 0
    OBVIOUS
  <2> QED
    BY <1>2, <1>3, <1>4, <2>1
<1>9. q <= b
  <2>1. b < q => b * b < n
    BY <1>1, <1>6
  <2> QED
    BY <1>2, <2>1
<1> QED
  BY <1>1, <1>5, <1>6, <1>7, <1>8, <1>9

\* A doubly indirect block and what it leads to: the block itself is at <<P, P>>, its
\* second-level block j at <<j, P>>, and pointer k of that at <<j, k>>.
LimbSlot == {<<P, P>>} \cup ((0 .. P - 1) \X (0 .. P))
LimbOf(dsk, x, ptr) ==
  [s \in LimbSlot |-> IF s = <<P, P>> THEN x ELSE Branch(dsk, ptr[s[1]])[s[2]]]
Limb(dsk, x) == LimbOf(dsk, x, Ptrs(dsk, x))

\* The places of a limb: the doubly indirect block and the branches under it.
LEMMA LimbSlots ==
  /\ <<P, P>> \in LimbSlot
  /\ \A j \in 0 .. P - 1, k \in 0 .. P : <<j, k>> \in LimbSlot /\ <<j, k>> # <<P, P>>
  /\ \A s \in LimbSlot : s # <<P, P>> => \E j \in 0 .. P - 1, k \in 0 .. P : s = <<j, k>>
  BY SectorZero DEF LimbSlot

\* What stands at these places.
LEMMA LimbAt ==
  ASSUME NEW dsk, NEW x, NEW ptr
  PROVE  /\ LimbOf(dsk, x, ptr)[<<P, P>>] = x
         /\ \A j \in 0 .. P - 1, k \in 0 .. P : LimbOf(dsk, x, ptr)[<<j, k>>] = Branch(dsk, ptr[j])[k]
         /\ \A j \in 0 .. P - 1 : LimbOf(dsk, x, ptr)[<<j, P>>] = ptr[j]
<1>1. LimbOf(dsk, x, ptr)[<<P, P>>] = x
  BY LimbSlots DEF LimbOf
<1>2. ASSUME NEW j \in 0 .. P - 1, NEW k \in 0 .. P
      PROVE  LimbOf(dsk, x, ptr)[<<j, k>>] = Branch(dsk, ptr[j])[k]
  BY LimbSlots DEF LimbOf
<1>3. ASSUME NEW j \in 0 .. P - 1
      PROVE  LimbOf(dsk, x, ptr)[<<j, P>>] = ptr[j]
  <2>1. P \in 0 .. P
    BY SectorZero
  <2> QED
    BY <1>2, <2>1, BranchOf
<1> QED
  BY <1>1, <1>2, <1>3

\* An index block that was not written has the same pointers.
LEMMA PtrsFrame ==
  ASSUME NEW dsk, NEW dsk2, NEW x, x # 0 => dsk2[x] = dsk[x]
  PROVE  Ptrs(dsk2, x) = Ptrs(dsk, x) /\ Branch(dsk2, x) = Branch(dsk, x)
<1>1. Ptrs(dsk2, x) = Ptrs(dsk, x)
  BY DEF Ptrs
<1> QED
  BY <1>1 DEF Branch

\* Second-level blocks A, different from each other and from the block e they are in.
LimbReady(t, e, A) ==
  /\ Ready(t) /\ e \in Sector /\ e \notin Available(t) /\ A \in Pointer
  /\ \A j \in 0 .. P - 1 :
       /\ A[j] \notin Available(t)
       /\ A[j] # 0 => A[j] # e /\ t.disk[A[j]] \in IndexNode
  /\ \A i, j \in 0 .. P - 1 : A[i] # 0 /\ A[i] = A[j] => i = j

\* What the loop of ReserveLevel2 has reached after c second-level blocks.
LoopOK(t, e, A, n, c, g) ==
  LET u == g.st
      F == LimbOf(t.disk, e, A)
      G == LimbOf(u.disk, e, g.ptr)
  IN  /\ Alloc(t, u, {A[j] : j \in 0 .. P - 1}) /\ g.ok \in BOOLEAN
      /\ LimbReady(u, e, g.ptr)
      /\ \A j \in 0 .. P - 1 : /\ A[j] # 0 => g.ptr[j] = A[j]
                               /\ j >= c => g.ptr[j] = A[j]
      /\ Grow(LimbSlot, t.map, F, u.map, G)
      /\ \A j \in 0 .. P - 1 : A[j] # 0 /\ t.disk[A[j]].kind = "index" => u.disk[A[j]].kind = "index"
      /\ \A j \in 0 .. P - 1, k \in 0 .. P - 1 :
           F[<<j, k>>] = 0 /\ G[<<j, k>>] # 0 =>
             /\ u.disk[G[<<j, k>>]] = Zeros
             /\ G[<<j, k>>] # e /\ G[<<j, k>>] \notin Available(u)
             /\ \A i \in 0 .. P - 1 : g.ptr[i] # G[<<j, k>>]
      /\ \A j \in 0 .. P - 1, k \in 0 .. P :
           G[<<j, k>>] # F[<<j, k>>] => j * P < n /\ (k = P \/ k < n - j * P)
      /\ g.ok =>
           /\ \A j \in 0 .. P - 1 : j < c =>
                /\ g.ptr[j] # 0 /\ u.disk[g.ptr[j]].kind = "index"
                /\ \A k \in 0 .. P - 1 : k < n - j * P => G[<<j, k>>] # 0
           /\ \A x \in u.map \ t.map : \E s \in LimbSlot : F[s] = 0 /\ G[s] = x

\* The loop over the second level starts in its invariant.
LEMMA LoopStart ==
  ASSUME NEW t, NEW e, NEW A, LimbReady(t, e, A), NEW n
  PROVE  LoopOK(t, e, A, n, 0, [st |-> t, ok |-> TRUE, ptr |-> A])
<1>1. PICK g : g = [st |-> t, ok |-> TRUE, ptr |-> A]
  OBVIOUS
<1>2. g.st = t /\ g.ok = TRUE /\ g.ptr = A
  BY <1>1
<1>3. Alloc(t, t, {A[j] : j \in 0 .. P - 1})
  BY AllocSame DEF LimbReady
<1>4. Grow(LimbSlot, t.map, LimbOf(t.disk, e, A), t.map, LimbOf(t.disk, e, A))
  BY GrowSame
<1>6. ~ \E j \in 0 .. P - 1 : j < 0
  OBVIOUS
<1>5. LoopOK(t, e, A, n, 0, g)
  <2> DEFINE F == LimbOf(t.disk, e, A)
  <2>1. /\ \A j \in 0 .. P - 1, k \in 0 .. P - 1 : ~(F[<<j, k>>] = 0 /\ F[<<j, k>>] # 0)
        /\ \A j \in 0 .. P - 1, k \in 0 .. P : ~(F[<<j, k>>] # F[<<j, k>>])
        /\ t.map \ t.map = {}
    OBVIOUS
  <2> HIDE DEF F
  <2> QED
    BY <1>2, <1>3, <1>4, <1>6, <2>1 DEF LoopOK, F
<1> QED
  BY <1>1, <1>5

\* One second-level block more.
LEMMA LoopStep ==
  ASSUME NEW t, NEW e, NEW A, LimbReady(t, e, A), NEW n \in 1 .. P * P,
         NEW c \in 0 .. P - 1, c * P < n, NEW g, LoopOK(t, e, A, n, c, g)
  PROVE  LoopOK(t, e, A, n, c + 1, Step2(n, g, c))
<1>1. CASE ~g.ok
  <2>1. Step2(n, g, c) = g
    BY <1>1 DEF Step2
  <2>2. LoopOK(t, e, A, n, c + 1, g)
    BY <1>1 DEF LoopOK
  <2> QED
    BY <2>1, <2>2
<1>2. CASE g.ok
  <2>1. PICK u, ptr : u = g.st /\ ptr = g.ptr
    OBVIOUS
  <2>2. PICK m : m = MinOf(n - c * P, P)
    OBVIOUS
  <2>3. m \in 1 .. P /\ \A k \in 0 .. P - 1 : k < m <=> k < n - c * P
    <3>1. PICK b \in Nat, x \in Int : b = P /\ x = n - c * P /\ x > 0
      BY SectorZero
    <3>2. m = IF x < b THEN x ELSE b
      BY <2>2, <3>1 DEF MinOf
    <3> QED
      BY <3>1, <3>2, SectorZero
  <2>4. PICK r : r = ReserveLevel1(u, ptr[c], m)
    OBVIOUS
  <2>5. PICK v, x, q : v = r.st /\ x = r.entry /\ q = [ptr EXCEPT ![c] = x]
    OBVIOUS
  <2>6. PICK z : z = Step2(n, g, c)
    OBVIOUS
  <2>7. z.st = v /\ z.ok = r.ok /\ z.ptr = q
    BY <1>2, <2>1, <2>2, <2>4, <2>5, <2>6 DEF Step2, Sub2
  <2> DEFINE F == LimbOf(t.disk, e, A)
             G == LimbOf(u.disk, e, ptr)
             H == LimbOf(v.disk, e, q)
             X == {A[j] : j \in 0 .. P - 1}
  <2>8. /\ Alloc(t, u, X) /\ LimbReady(u, e, ptr)
        /\ \A j \in 0 .. P - 1 : /\ A[j] # 0 => ptr[j] = A[j]
                                 /\ j >= c => ptr[j] = A[j]
        /\ Grow(LimbSlot, t.map, F, u.map, G)
        /\ \A j \in 0 .. P - 1 : A[j] # 0 /\ t.disk[A[j]].kind = "index" => u.disk[A[j]].kind = "index"
    BY <2>1 DEF LoopOK
  <2>9. /\ \A j \in 0 .. P - 1, k \in 0 .. P - 1 :
             F[<<j, k>>] = 0 /\ G[<<j, k>>] # 0 =>
               /\ u.disk[G[<<j, k>>]] = Zeros
               /\ G[<<j, k>>] # e /\ G[<<j, k>>] \notin Available(u)
               /\ \A i \in 0 .. P - 1 : ptr[i] # G[<<j, k>>]
        /\ \A j \in 0 .. P - 1, k \in 0 .. P :
             G[<<j, k>>] # F[<<j, k>>] => j * P < n /\ (k = P \/ k < n - j * P)
    BY <2>1 DEF LoopOK
  <2>10. /\ \A j \in 0 .. P - 1 : j < c =>
               /\ ptr[j] # 0 /\ u.disk[ptr[j]].kind = "index"
               /\ \A k \in 0 .. P - 1 : k < n - j * P => G[<<j, k>>] # 0
         /\ \A y \in u.map \ t.map : \E s \in LimbSlot : F[s] = 0 /\ G[s] = y
    BY <1>2, <2>1 DEF LoopOK
  <2>11. /\ Ready(u) /\ e \notin Available(u) /\ ptr \in Pointer
         /\ \A j \in 0 .. P - 1 :
              /\ ptr[j] \notin Available(u)
              /\ ptr[j] # 0 => ptr[j] # e /\ u.disk[ptr[j]] \in IndexNode
         /\ \A i, j \in 0 .. P - 1 : ptr[i] # 0 /\ ptr[i] = ptr[j] => i = j
    BY <2>8 DEF LimbReady
  <2>12. BranchGrown(u, ptr[c], m, r)
    <3>1. ptr[c] \in Sector
      BY <2>11 DEF Pointer
    <3> QED
      BY <2>3, <2>4, <2>11, <3>1, Level1Effect
  <2> DEFINE B == Branch(u.disk, ptr[c])
             C == Branch(v.disk, x)
  <2>13. /\ Alloc(u, v, {ptr[c]}) /\ x \in Sector /\ r.ok \in BOOLEAN
         /\ Grow(0 .. P, u.map, B, v.map, C)
         /\ \A k \in 0 .. P : C[k] # B[k] => k < m \/ k = P
         /\ x # 0 => v.disk[x] \in IndexNode
         /\ ptr[c] # 0 /\ u.disk[ptr[c]].kind = "index" => v.disk[x].kind = "index"
         /\ \A k \in 0 .. P - 1 : B[k] = 0 /\ C[k] # 0 => v.disk[C[k]] = Zeros
         /\ r.ok => /\ x # 0 /\ v.disk[x].kind = "index"
                    /\ \A k \in 0 .. m - 1 : C[k] # 0
                    /\ \A y \in v.map \ u.map : \E k \in 0 .. P : B[k] = 0 /\ C[k] = y
    BY <2>5, <2>12 DEF BranchGrown
  <2>14. q \in Pointer /\ q[c] = x /\ \A j \in 0 .. P - 1 : j # c => q[j] = ptr[j]
    BY <2>5, <2>11, <2>13 DEF Pointer
  <2>15. v.map \ u.map \subseteq Available(u) /\ u.map \subseteq v.map
         /\ Available(v) \subseteq Available(u) /\ Ready(v)
         /\ Available(v) \cap v.map = {}
    BY <2>13, AvailableBits DEF Alloc, Available
  \* The block at place c is the old one or one just taken.
  <2>16. B[P] = ptr[c] /\ C[P] = x /\ P \in 0 .. P
    BY BranchOf, SectorZero
  <2>17. (ptr[c] # 0 => x = ptr[c]) /\ (ptr[c] = 0 /\ x # 0 => x \in v.map \ u.map)
    BY <2>13, <2>16 DEF Grow
  <2>18. x \notin Available(v)
    <3>1. CASE x = 0
      BY <2>15, <3>1, AvailableBits
    <3>2. CASE ptr[c] # 0
      BY <2>11, <2>15, <2>17, <3>2
    <3>3. CASE ptr[c] = 0 /\ x # 0
      BY <2>15, <2>17, <3>3
    <3> QED
      BY <3>1, <3>2, <3>3
  \* Nothing happened to the others.
  <2>19. \A j \in 0 .. P - 1 : j # c /\ ptr[j] # 0 =>
           ptr[j] \in Sector /\ ptr[j] # x /\ v.disk[ptr[j]] = u.disk[ptr[j]]
    <3> SUFFICES ASSUME NEW j \in 0 .. P - 1, j # c, ptr[j] # 0
                 PROVE  ptr[j] \in Sector /\ ptr[j] # x /\ v.disk[ptr[j]] = u.disk[ptr[j]]
      OBVIOUS
    <3>1. ptr[j] \in Sector /\ ptr[j] # ptr[c] /\ ptr[j] \notin v.map \ u.map
      BY <2>11, <2>15 DEF Pointer
    <3> QED
      BY <2>13, <2>17, <3>1 DEF Alloc
  <2>20. LimbReady(v, e, q)
    <3>1. e \in Sector
      BY <2>8 DEF LimbReady
    <3>2. e \notin Available(v)
      BY <2>11, <2>15
    <3>3. \A j \in 0 .. P - 1 : q[j] \notin Available(v)
      BY <2>11, <2>14, <2>15, <2>18
    <3>4. \A j \in 0 .. P - 1 : q[j] # 0 => q[j] # e /\ v.disk[q[j]] \in IndexNode
      <4>1. x # 0 => x # e
        BY <2>11, <2>15, <2>17
      <4> QED
        BY <2>11, <2>13, <2>14, <2>19, <4>1
    <3>5. \A i, j \in 0 .. P - 1 : q[i] # 0 /\ q[i] = q[j] => i = j
      <4> SUFFICES ASSUME NEW i \in 0 .. P - 1, NEW j \in 0 .. P - 1,
                          q[i] # 0, q[i] = q[j], i # j
                   PROVE  FALSE
        OBVIOUS
      <4>1. CASE i = c
        BY <2>14, <2>19, <4>1
      <4>2. CASE j = c
        BY <2>14, <2>19, <4>2
      <4>3. CASE i # c /\ j # c
        BY <2>11, <2>14, <4>3
      <4> QED
        BY <4>1, <4>2, <4>3
    <3> QED
      BY <2>14, <2>15, <3>1, <3>2, <3>3, <3>4, <3>5 DEF LimbReady
  <2>21. G[<<P, P>>] = e /\ H[<<P, P>>] = e
    BY LimbAt
  <2>22. \A k \in 0 .. P : G[<<c, k>>] = B[k] /\ H[<<c, k>>] = C[k]
    BY <2>14, LimbAt
  <2>23. \A j \in 0 .. P - 1, k \in 0 .. P : j # c => H[<<j, k>>] = G[<<j, k>>]
    <3> SUFFICES ASSUME NEW j \in 0 .. P - 1, NEW k \in 0 .. P, j # c
                 PROVE  H[<<j, k>>] = G[<<j, k>>]
      OBVIOUS
    <3>1. Branch(v.disk, ptr[j]) = Branch(u.disk, ptr[j])
      BY <2>19, PtrsFrame
    <3> QED
      BY <2>14, <3>1, LimbAt
  <2> HIDE DEF F, G, H, B, C
  <2>24. \A s \in LimbSlot : H[s] = G[s] \/ \E k \in 0 .. P : s = <<c, k>>
    BY <2>21, <2>23, LimbSlots
  <2>25. Grow(LimbSlot, u.map, G, v.map, H)
    <3>1. \A s \in LimbSlot : G[s] # 0 => H[s] = G[s]
      BY <2>13, <2>22, <2>24 DEF Grow
    <3>2. \A s \in LimbSlot : G[s] = 0 /\ H[s] # 0 =>
            H[s] \in v.map \ u.map /\ \E k \in 0 .. P : s = <<c, k>> /\ B[k] = 0 /\ C[k] = H[s]
      BY <2>13, <2>22, <2>24 DEF Grow
    <3>3. \A s, w \in LimbSlot : G[s] = 0 /\ G[w] = 0 /\ H[s] # 0 /\ H[s] = H[w] => s = w
      <4> SUFFICES ASSUME NEW s \in LimbSlot, NEW w \in LimbSlot, G[s] = 0, G[w] = 0,
                          H[s] # 0, H[s] = H[w]
                   PROVE  s = w
        OBVIOUS
      <4>1. PICK k \in 0 .. P : s = <<c, k>> /\ B[k] = 0 /\ C[k] = H[s]
        BY <3>2
      <4>2. PICK l \in 0 .. P : w = <<c, l>> /\ B[l] = 0 /\ C[l] = H[w]
        BY <3>2
      <4>3. k = l
        BY <2>13, <4>1, <4>2 DEF Grow
      <4> QED
        BY <4>1, <4>2, <4>3
    <3> QED
      BY <2>15, <3>1, <3>2, <3>3 DEF Grow
  <2>26. Grow(LimbSlot, t.map, F, v.map, H)
    BY <2>8, <2>25, GrowTrans
  <2>27. Alloc(t, v, X)
    <3>1. {ptr[c]} \subseteq X
      BY <2>8
    <3>2. {ptr[c]} \subseteq X \cup {0} \cup (u.map \ t.map)
      BY <3>1
    <3> HIDE DEF X
    <3> QED
      BY <2>8, <2>13, <3>2, AllocTrans
  <2>28. \A j \in 0 .. P - 1 : /\ A[j] # 0 => q[j] = A[j]
                               /\ j >= c + 1 => q[j] = A[j]
    BY <2>8, <2>14, <2>17
  <2>29. \A j \in 0 .. P - 1 : A[j] # 0 /\ t.disk[A[j]].kind = "index" => v.disk[A[j]].kind = "index"
    BY <2>8, <2>13, <2>17, <2>19
  <2>30. \A j \in 0 .. P - 1, k \in 0 .. P - 1 :
           F[<<j, k>>] = 0 /\ H[<<j, k>>] # 0 =>
             /\ v.disk[H[<<j, k>>]] = Zeros
             /\ H[<<j, k>>] # e /\ H[<<j, k>>] \notin Available(v)
             /\ \A i \in 0 .. P - 1 : q[i] # H[<<j, k>>]
    <3> SUFFICES ASSUME NEW j \in 0 .. P - 1, NEW k \in 0 .. P - 1,
                        F[<<j, k>>] = 0, H[<<j, k>>] # 0
                 PROVE  /\ v.disk[H[<<j, k>>]] = Zeros
                        /\ H[<<j, k>>] # e /\ H[<<j, k>>] \notin Available(v)
                        /\ \A i \in 0 .. P - 1 : q[i] # H[<<j, k>>]
      OBVIOUS
    <3>1. PICK y : y = H[<<j, k>>]
      OBVIOUS
    <3>2. <<j, k>> \in LimbSlot /\ k \in 0 .. P
      BY LimbSlots, SectorZero
    <3>3. CASE G[<<j, k>>] = 0
      <4>1. y \in v.map \ u.map
        BY <2>25, <3>1, <3>2, <3>3 DEF Grow
      <4>2. j = c
        BY <2>23, <3>2, <3>3
      <4>3. B[k] = 0 /\ C[k] = y /\ y # 0
        BY <2>22, <3>1, <3>2, <3>3, <4>2
      <4>4. v.disk[y] = Zeros
        BY <2>13, <4>3
      <4>5. y # e /\ y \notin Available(v)
        BY <2>11, <2>15, <4>1
      <4>6. y # x
        <5>1. CASE ptr[c] # 0
          BY <2>11, <2>15, <2>17, <4>1, <5>1
        <5>2. CASE ptr[c] = 0
          <6>1. k \in 0 .. P /\ P \in 0 .. P /\ k # P
            BY SectorZero
          <6> QED
            BY <2>13, <2>16, <4>3, <5>2, <6>1 DEF Grow
        <5> QED
          BY <5>1, <5>2
      <4>7. \A i \in 0 .. P - 1 : q[i] # y
        BY <2>11, <2>14, <2>15, <4>1, <4>6
      <4> QED
        BY <3>1, <4>4, <4>5, <4>7
    <3>4. CASE G[<<j, k>>] # 0
      <4>1. G[<<j, k>>] = y
        BY <2>25, <3>1, <3>2, <3>4 DEF Grow
      <4>2. u.disk[y] = Zeros /\ y # e /\ y \notin Available(u) /\ \A i \in 0 .. P - 1 : ptr[i] # y
        BY <2>9, <3>4, <4>1
      <4>3. y # x
        BY <2>15, <2>17, <3>1, <4>2
      <4>4. y \notin Available(v)
        BY <2>15, <4>2
      <4>5. y \in Sector
        <5>1. y \in u.map \ t.map
          BY <2>8, <3>2, <3>4, <4>1 DEF Grow
        <5> QED
          BY <2>11, <5>1, BitsFinite DEF Ready
      <4>6. v.disk[y] = u.disk[y]
        BY <2>13, <2>15, <3>1, <4>2, <4>5 DEF Alloc
      <4>7. \A i \in 0 .. P - 1 : q[i] # y
        BY <2>14, <4>2, <4>3
      <4> QED
        BY <3>1, <4>2, <4>4, <4>6, <4>7
    <3> QED
      BY <3>3, <3>4
  <2>31. \A j \in 0 .. P - 1, k \in 0 .. P :
           H[<<j, k>>] # F[<<j, k>>] => j * P < n /\ (k = P \/ k < n - j * P)
    <3> SUFFICES ASSUME NEW j \in 0 .. P - 1, NEW k \in 0 .. P, H[<<j, k>>] # F[<<j, k>>]
                 PROVE  j * P < n /\ (k = P \/ k < n - j * P)
      OBVIOUS
    <3>1. CASE G[<<j, k>>] # F[<<j, k>>]
      BY <2>9, <3>1
    <3>2. CASE G[<<j, k>>] = F[<<j, k>>]
      <4>1. j = c /\ C[k] # B[k]
        BY <2>22, <2>23, <3>2
      <4>2. k < m \/ k = P
        BY <2>13, <4>1
      <4>3. k # P => k \in 0 .. P - 1
        BY SectorZero
      <4> QED
        BY <2>3, <4>1, <4>2, <4>3
    <3> QED
      BY <3>1, <3>2
  <2>32. ASSUME r.ok
         PROVE  /\ \A j \in 0 .. P - 1 : j < c + 1 =>
                     /\ q[j] # 0 /\ v.disk[q[j]].kind = "index"
                     /\ \A k \in 0 .. P - 1 : k < n - j * P => H[<<j, k>>] # 0
                /\ \A y \in v.map \ t.map : \E s \in LimbSlot : F[s] = 0 /\ H[s] = y
    <3>1. ASSUME NEW j \in 0 .. P - 1, j < c + 1
          PROVE  /\ q[j] # 0 /\ v.disk[q[j]].kind = "index"
                 /\ \A k \in 0 .. P - 1 : k < n - j * P => H[<<j, k>>] # 0
      <4>1. CASE j = c
        <5>1. \A k \in 0 .. P - 1 : k < n - j * P => k \in 0 .. m - 1 /\ k \in 0 .. P
          <6> SUFFICES ASSUME NEW k \in 0 .. P - 1, k < n - j * P
                       PROVE  k \in 0 .. m - 1 /\ k \in 0 .. P
            OBVIOUS
          <6>1. k < n - c * P
            BY <4>1
          <6>2. k < m
            BY <2>3, <6>1
          <6> QED
            BY <2>3, <6>2, SectorZero
        <5> QED
          BY <2>13, <2>14, <2>22, <2>32, <4>1, <5>1
      <4>2. CASE j # c
        <5>1. j < c
          BY <3>1, <4>2
        <5>2. \A k \in 0 .. P - 1 : k \in 0 .. P
          BY SectorZero
        <5> QED
          BY <2>10, <2>14, <2>19, <2>23, <4>2, <5>1, <5>2
      <4> QED
        BY <4>1, <4>2
    <3>2. ASSUME NEW y \in v.map \ t.map
          PROVE  \E s \in LimbSlot : F[s] = 0 /\ H[s] = y
      <4>1. CASE y \in v.map \ u.map
        <5>1. PICK k \in 0 .. P : B[k] = 0 /\ C[k] = y
          BY <2>13, <2>32, <4>1
        <5>2. <<c, k>> \in LimbSlot /\ G[<<c, k>>] = 0 /\ H[<<c, k>>] = y
          BY <2>22, <5>1, LimbSlots
        <5>3. F[<<c, k>>] = 0
          BY <2>8, <5>2 DEF Grow
        <5> QED
          BY <5>2, <5>3
      <4>2. CASE y \in u.map \ t.map
        <5>1. PICK s \in LimbSlot : F[s] = 0 /\ G[s] = y
          BY <2>10, <4>2
        <5>2. y # 0
          BY <2>8, <4>2, AvailableBits DEF Alloc, LimbReady
        <5>3. H[s] = y
          BY <2>25, <5>1, <5>2 DEF Grow
        <5> QED
          BY <5>1, <5>3
      <4> QED
        BY <3>2, <4>1, <4>2
    <3> QED
      BY <3>1, <3>2
  <2> HIDE DEF X
  <2>33. LoopOK(t, e, A, n, c + 1, z)
    BY <2>7, <2>13, <2>20, <2>26, <2>27, <2>28, <2>29, <2>30, <2>31, <2>32 DEF LoopOK, F, H, X
  <2> QED
    BY <2>6, <2>33
<1>3. g.ok \in BOOLEAN
  BY DEF LoopOK
<1> QED
  BY <1>1, <1>2, <1>3

\* The loop to its end.
LEMMA LoopEnd ==
  ASSUME NEW index, NEW A, NEW e, NEW t, t = index.st, e = index.entry,
         A = Pointers(t.disk[e]), LimbReady(t, e, A),
         NEW n \in 1 .. P * P, NEW f, IsAfter(f, n, index, DivRoundUp(n, P))
  PROVE  LoopOK(t, e, A, n, DivRoundUp(n, P), f[DivRoundUp(n, P)])
<1>1. PICK K \in 1 .. P : K = DivRoundUp(n, P)
  BY SecondLevel
<1>2. \A j \in Nat : j < K => j * P < n
  BY <1>1, SecondLevel
<1> DEFINE S == {j \in Nat : j <= K => LoopOK(t, e, A, n, j, f[j])}
<1>3. 0 \in S
  <2>1. f[0] = Start2(index)
    BY <1>1 DEF IsAfter
  <2>2. f[0] = [st |-> t, ok |-> TRUE, ptr |-> A]
    BY <2>1 DEF Start2
  <2>3. LoopOK(t, e, A, n, 0, f[0])
    BY <2>2, LoopStart
  <2> QED
    BY <2>3
<1>4. ASSUME NEW j \in Nat, j \in S
      PROVE  j + 1 \in S
  <2> SUFFICES ASSUME j + 1 <= K
               PROVE  LoopOK(t, e, A, n, j + 1, f[j + 1])
    OBVIOUS
  <2>1. f[j + 1] = Step2(n, f[j], j)
    <3>1. j + 1 \in 0 .. K /\ j + 1 # 0 /\ (j + 1) - 1 = j
      OBVIOUS
    <3> QED
      BY <1>1, <3>1 DEF IsAfter
  <2>2. LoopOK(t, e, A, n, j, f[j])
    BY <1>4
  <2>3. j \in 0 .. P - 1 /\ j * P < n
    BY <1>1, <1>2, SectorZero
  <2>4. PICK g : g = f[j]
    OBVIOUS
  <2>5. LoopOK(t, e, A, n, j, g)
    BY <2>2, <2>4
  <2>6. LoopOK(t, e, A, n, j + 1, Step2(n, g, j))
    BY <2>3, <2>5, LoopStep
  <2> QED
    BY <2>1, <2>4, <2>6
<1> HIDE DEF S
<1>5. K \in S
  BY <1>3, <1>4, SetInduction
<1> QED
  BY <1>1, <1>5 DEF S

\* What reserving the first n blocks of a doubly indirect block leaves.
LimbGrown(st, entry, n, r) ==
  LET A == Ptrs(st.disk, entry)
      F == Limb(st.disk, entry)
      G == Limb(r.st.disk, r.entry)
  IN  /\ Alloc(st, r.st, {entry} \cup {A[j] : j \in 0 .. P - 1})
      /\ r.entry \in Sector /\ r.ok \in BOOLEAN
      /\ Grow(LimbSlot, st.map, F, r.st.map, G)
      /\ \A j \in 0 .. P - 1, k \in 0 .. P :
           G[<<j, k>>] # F[<<j, k>>] => j * P < n /\ (k = P \/ k < n - j * P)
      /\ r.entry # 0 => r.st.disk[r.entry] \in IndexNode
      /\ \A j \in 0 .. P - 1 : G[<<j, P>>] # 0 => r.st.disk[G[<<j, P>>]] \in IndexNode
      /\ entry # 0 /\ st.disk[entry].kind = "index" => r.st.disk[entry].kind = "index"
      /\ \A j \in 0 .. P - 1 : A[j] # 0 /\ st.disk[A[j]].kind = "index" => r.st.disk[A[j]].kind = "index"
      /\ \A j \in 0 .. P - 1, k \in 0 .. P - 1 :
           F[<<j, k>>] = 0 /\ G[<<j, k>>] # 0 => r.st.disk[G[<<j, k>>]] = Zeros
      /\ r.ok =>
           /\ r.entry # 0 /\ r.st.disk[r.entry].kind = "index"
           /\ \A j \in 0 .. P - 1 : j * P < n =>
                /\ G[<<j, P>>] # 0 /\ r.st.disk[G[<<j, P>>]].kind = "index"
                /\ \A k \in 0 .. P - 1 : k < n - j * P => G[<<j, k>>] # 0
           /\ \A x \in r.st.map \ st.map : \E s \in LimbSlot : F[s] = 0 /\ G[s] = x

\* inode_reserve_indirect at level 2 does what LimbGrown says.
LEMMA Level2Effect ==
  ASSUME NEW st, NEW entry, LimbReady(st, entry, Ptrs(st.disk, entry)),
         entry # 0 => st.disk[entry] \in IndexNode, NEW n \in 1 .. P * P
  PROVE  LimbGrown(st, entry, n, ReserveLevel2(st, entry, n))
<1>1. PICK index : index = IndexSector(st, entry)
  OBVIOUS
<1>2. PICK t, e : t = index.st /\ e = index.entry
  OBVIOUS
<1>3. PICK A : A = Pointers(t.disk[e])
  OBVIOUS
<1>4. PICK K \in 1 .. P : K = DivRoundUp(n, P) /\ \A j \in Nat : j < K <=> j * P < n
  BY SecondLevel
<1>5. K \in Nat
  BY SectorZero
<1>6. PICK f : IsAfter(f, n, index, K) /\ ReserveLevel2(st, entry, n) = Indexed(f[K], e)
  BY <1>1, <1>2, <1>4, <1>5, Level2
<1>7. PICK g : g = f[K]
  OBVIOUS
<1>8. PICK u, q, ok : u = g.st /\ q = g.ptr /\ ok = g.ok
  OBVIOUS
<1>9. PICK v : v = Write(u, {e}, IndexBlock(q))
  OBVIOUS
<1>10. ReserveLevel2(st, entry, n) = [st |-> IF ok THEN v ELSE u, entry |-> e, ok |-> ok]
  BY <1>6, <1>7, <1>8, <1>9 DEF Indexed
<1>11. /\ Ready(st) /\ entry \in Sector /\ entry \notin Available(st)
  BY DEF LimbReady
<1>12. IndexFound(st, entry, index)
  BY <1>1, <1>11, IndexSectorEffect
<1>13. /\ Alloc(st, t, {}) /\ Ready(t) /\ e \in Sector /\ e \notin Available(t)
       /\ entry # 0 => t = st /\ e = entry
       /\ entry = 0 => /\ t.disk[e] = Zeros
                       /\ \/ e = 0 /\ t.map = st.map /\ Available(t) = {}
                          \/ e # 0 /\ e \in Available(st) /\ t.map = st.map \cup {e}
  BY <1>2, <1>12 DEF IndexFound, Alloc
<1>14. t.disk[e] \in IndexNode
  BY <1>13, ZerosIsBlock
<1>15. A = Ptrs(st.disk, entry)
  <2>1. CASE entry # 0
    BY <1>3, <1>13, <2>1 DEF Ptrs
  <2>2. CASE entry = 0
    BY <1>3, <1>13, <1>14, <2>2, PointersOf DEF Ptrs
  <2> QED
    BY <2>1, <2>2
<1>16. LimbReady(t, e, A)
  <2>1. CASE entry # 0
    BY <1>13, <1>15, <2>1
  <2>2. CASE entry = 0
    <3>1. A = [i \in 0 .. P - 1 |-> 0] /\ A \in Pointer
      BY <1>3, <1>13, <1>14, <2>2, PointersOf
    <3>2. 0 \notin Available(t)
      BY <1>13, AvailableBits
    <3>3. \A j \in 0 .. P - 1 : A[j] = 0
      BY <3>1
    <3> QED
      BY <1>13, <3>1, <3>2, <3>3 DEF LimbReady
  <2> QED
    BY <2>1, <2>2
<1>17. LoopOK(t, e, A, n, K, g)
  BY <1>2, <1>3, <1>4, <1>6, <1>7, <1>16, LoopEnd
<1> DEFINE F == LimbOf(t.disk, e, A)
           G == LimbOf(u.disk, e, q)
           X == {A[j] : j \in 0 .. P - 1}
           F0 == Limb(st.disk, entry)
<1>18. /\ Alloc(t, u, X) /\ ok \in BOOLEAN
       /\ LimbReady(u, e, q)
       /\ \A j \in 0 .. P - 1 : A[j] # 0 => q[j] = A[j]
       /\ Grow(LimbSlot, t.map, F, u.map, G)
       /\ \A j \in 0 .. P - 1 : A[j] # 0 /\ t.disk[A[j]].kind = "index" => u.disk[A[j]].kind = "index"
  BY <1>8, <1>17 DEF LoopOK
<1>19. /\ \A j \in 0 .. P - 1, k \in 0 .. P - 1 :
            F[<<j, k>>] = 0 /\ G[<<j, k>>] # 0 =>
              /\ u.disk[G[<<j, k>>]] = Zeros
              /\ G[<<j, k>>] # e /\ G[<<j, k>>] \notin Available(u)
              /\ \A i \in 0 .. P - 1 : q[i] # G[<<j, k>>]
       /\ \A j \in 0 .. P - 1, k \in 0 .. P :
            G[<<j, k>>] # F[<<j, k>>] => j * P < n /\ (k = P \/ k < n - j * P)
  BY <1>8, <1>17 DEF LoopOK
<1>20. ok =>
         /\ \A j \in 0 .. P - 1 : j < K =>
              /\ q[j] # 0 /\ u.disk[q[j]].kind = "index"
              /\ \A k \in 0 .. P - 1 : k < n - j * P => G[<<j, k>>] # 0
         /\ \A x \in u.map \ t.map : \E s \in LimbSlot : F[s] = 0 /\ G[s] = x
  BY <1>8, <1>17 DEF LoopOK
<1>21. /\ Ready(u) /\ e \notin Available(u) /\ q \in Pointer
       /\ \A j \in 0 .. P - 1 :
            /\ q[j] \notin Available(u)
            /\ q[j] # 0 => q[j] # e /\ u.disk[q[j]] \in IndexNode
       /\ \A i, j \in 0 .. P - 1 : q[i] # 0 /\ q[i] = q[j] => i = j
  BY <1>18 DEF LimbReady
<1>22. A \in Pointer /\ \A j \in 0 .. P - 1 : A[j] # 0 => A[j] # e /\ t.disk[A[j]] \in IndexNode
  BY <1>16 DEF LimbReady
<1>23. e # 0 => u.disk[e] = t.disk[e]
  <2>1. e # 0 => e \notin X
    BY <1>22
  <2>2. e \notin u.map \ t.map
    BY <1>13, <1>18 DEF Alloc
  <2> QED
    BY <1>13, <1>18, <2>1, <2>2 DEF Alloc
\* The tree before.
<1>24. F0 = LimbOf(st.disk, entry, A)
  BY <1>15 DEF Limb
<1>25. \A j \in 0 .. P - 1, k \in 0 .. P : F[<<j, k>>] = F0[<<j, k>>]
  <2> SUFFICES ASSUME NEW j \in 0 .. P - 1, NEW k \in 0 .. P
               PROVE  F[<<j, k>>] = F0[<<j, k>>]
    OBVIOUS
  <2>1. Branch(t.disk, A[j]) = Branch(st.disk, A[j])
    <3>1. CASE entry # 0
      BY <1>13, <3>1
    <3>2. CASE entry = 0
      <4>1. A[j] = 0
        BY <1>15, <3>2 DEF Ptrs
      <4> QED
        BY <4>1, PtrsFrame
    <3> QED
      BY <3>1, <3>2
  <2> QED
    BY <1>24, <2>1, LimbAt
<1>26. F0[<<P, P>>] = entry /\ F[<<P, P>>] = e /\ G[<<P, P>>] = e
  BY <1>24, LimbAt
<1>27. \A j \in 0 .. P - 1 : F0[<<j, P>>] = A[j] /\ F[<<j, P>>] = A[j] /\ G[<<j, P>>] = q[j]
  BY <1>24, LimbAt
<1> HIDE DEF F, G, F0, X
<1>28. Grow(LimbSlot, st.map, F0, t.map, F)
  <2>1. st.map \subseteq t.map
    BY <1>13 DEF Alloc
  <2>2. entry # 0 => e = entry
    BY <1>13
  <2>3. entry = 0 /\ e # 0 => e \in t.map \ st.map
    BY <1>11, <1>13, AvailableBits
  <2>4. \A s \in LimbSlot : s # <<P, P>> => F[s] = F0[s]
    BY <1>25, LimbSlots
  <2>5. \A s \in LimbSlot : F0[s] # 0 => F[s] = F0[s]
    BY <1>26, <2>2, <2>4
  <2>6. \A s \in LimbSlot : F0[s] = 0 /\ F[s] # 0 => s = <<P, P>> /\ F[s] \in t.map \ st.map
    BY <1>26, <2>3, <2>4
  <2> QED
    BY <2>1, <2>5, <2>6 DEF Grow
<1>29. Grow(LimbSlot, st.map, F0, u.map, G)
  BY <1>18, <1>28, GrowTrans
<1>30. e = entry \/ e \in t.map \ st.map \/ e = 0
  BY <1>11, <1>13, AvailableBits
<1>31. Alloc(st, u, {entry} \cup X)
  <2>1. Alloc(st, t, {entry} \cup X)
    BY <1>13 DEF Alloc
  <2>2. X \subseteq ({entry} \cup X) \cup {0} \cup (t.map \ st.map)
    OBVIOUS
  <2> QED
    BY <1>18, <2>1, <2>2, AllocTrans
<1>32. e # 0 => u.disk[e] \in IndexNode
  BY <1>14, <1>23
<1>33. \A j \in 0 .. P - 1 : A[j] # 0 /\ st.disk[A[j]].kind = "index" => u.disk[A[j]].kind = "index"
  <2>1. \A j \in 0 .. P - 1 : A[j] # 0 => t.disk[A[j]] = st.disk[A[j]]
    <3>1. CASE entry # 0
      BY <1>13, <3>1
    <3>2. CASE entry = 0
      BY <1>15, <3>2 DEF Ptrs
    <3> QED
      BY <3>1, <3>2
  <2> QED
    BY <1>18, <2>1
<1>34. \A j \in 0 .. P - 1, k \in 0 .. P :
         G[<<j, k>>] # F0[<<j, k>>] => j * P < n /\ (k = P \/ k < n - j * P)
  BY <1>19, <1>25
<1>35. \A j \in 0 .. P - 1, k \in 0 .. P - 1 :
         F0[<<j, k>>] = 0 /\ G[<<j, k>>] # 0 =>
           /\ u.disk[G[<<j, k>>]] = Zeros /\ G[<<j, k>>] # e
  BY <1>19, <1>25, SectorZero
<1>36. e # 0 \/ ~ok
  <2> SUFFICES ASSUME ok, e = 0
               PROVE  FALSE
    OBVIOUS
  <2>1. Available(t) = {} /\ entry = 0
    BY <1>13
  <2>2. 0 \in 0 .. P - 1 /\ 0 < K /\ A[0] = 0
    BY <1>4, <1>15, <2>1, SectorZero DEF Ptrs
  <2>3. q[0] # 0
    BY <1>20, <2>2
  <2>4. <<0, P>> \in LimbSlot /\ F[<<0, P>>] = 0 /\ G[<<0, P>>] # 0
    BY <1>27, <2>2, <2>3, LimbSlots, SectorZero
  <2>5. u.map \ t.map = {}
    BY <1>18, <2>1 DEF Alloc
  <2> QED
    BY <1>18, <2>4, <2>5 DEF Grow
<1>37. CASE ~ok
  <2>1. PICK z : z = [st |-> u, entry |-> e, ok |-> FALSE]
    OBVIOUS
  <2>2. z.st = u /\ z.entry = e /\ z.ok = FALSE
    BY <2>1
  <2> DEFINE H == Limb(u.disk, e)
  <2>3. Ptrs(u.disk, e) = A
    <3>1. CASE e # 0
      BY <1>3, <1>23, <3>1 DEF Ptrs
    <3>2. CASE e = 0
      BY <1>13, <1>15, <3>2 DEF Ptrs
    <3> QED
      BY <3>1, <3>2
  <2>4. H = LimbOf(u.disk, e, A)
    BY <2>3 DEF Limb
  <2>5. H[<<P, P>>] = e /\ \A j \in 0 .. P - 1 : H[<<j, P>>] = A[j]
    BY <2>4, LimbAt
  <2>6. \A j \in 0 .. P - 1, k \in 0 .. P : A[j] # 0 => H[<<j, k>>] = G[<<j, k>>]
    <3> SUFFICES ASSUME NEW j \in 0 .. P - 1, NEW k \in 0 .. P, A[j] # 0
                 PROVE  H[<<j, k>>] = G[<<j, k>>]
      OBVIOUS
    <3>1. H[<<j, k>>] = Branch(u.disk, A[j])[k]
      BY <2>4, LimbAt
    <3>2. G[<<j, k>>] = Branch(u.disk, q[j])[k]
      BY LimbAt DEF G
    <3> QED
      BY <1>18, <3>1, <3>2
  <2>7. \A j \in 0 .. P - 1, k \in 0 .. P : A[j] = 0 => H[<<j, k>>] = 0 /\ F0[<<j, k>>] = 0
    <3> SUFFICES ASSUME NEW j \in 0 .. P - 1, NEW k \in 0 .. P, A[j] = 0
                 PROVE  H[<<j, k>>] = 0 /\ F0[<<j, k>>] = 0
      OBVIOUS
    <3>1. \A dsk : Branch(dsk, 0)[k] = 0
      BY SectorZero DEF Branch, Ptrs
    <3>2. H[<<j, k>>] = Branch(u.disk, A[j])[k]
      BY <2>4, LimbAt
    <3>3. F0[<<j, k>>] = Branch(st.disk, A[j])[k]
      BY <1>24, LimbAt
    <3> QED
      BY <3>1, <3>2, <3>3
  <2> HIDE DEF H
  <2>8. \A s \in LimbSlot : H[s] # 0 => H[s] = G[s]
    <3> SUFFICES ASSUME NEW s \in LimbSlot, H[s] # 0
                 PROVE  H[s] = G[s]
      OBVIOUS
    <3>1. CASE s = <<P, P>>
      BY <1>26, <2>5, <3>1
    <3>2. CASE s # <<P, P>>
      <4>1. PICK j \in 0 .. P - 1, k \in 0 .. P : s = <<j, k>>
        BY <3>2, LimbSlots
      <4> QED
        BY <2>6, <2>7, <4>1
    <3> QED
      BY <3>1, <3>2
  <2>9. \A s \in LimbSlot : F0[s] # 0 => H[s] # 0
    <3> SUFFICES ASSUME NEW s \in LimbSlot, F0[s] # 0
                 PROVE  H[s] # 0
      OBVIOUS
    <3>1. G[s] # 0
      BY <1>29 DEF Grow
    <3>2. CASE s = <<P, P>>
      BY <1>26, <2>5, <3>1, <3>2
    <3>3. CASE s # <<P, P>>
      <4>1. PICK j \in 0 .. P - 1, k \in 0 .. P : s = <<j, k>>
        BY <3>3, LimbSlots
      <4> QED
        BY <2>6, <2>7, <3>1, <4>1
    <3> QED
      BY <3>2, <3>3
  <2>10. Grow(LimbSlot, st.map, F0, u.map, H)
    BY <1>29, <2>8, <2>9, GrowLess
  <2>11. \A j \in 0 .. P - 1, k \in 0 .. P :
           H[<<j, k>>] # F0[<<j, k>>] => j * P < n /\ (k = P \/ k < n - j * P)
    BY <1>34, <2>6, <2>7
  <2>12. \A j \in 0 .. P - 1 : H[<<j, P>>] # 0 => u.disk[H[<<j, P>>]] \in IndexNode
    BY <1>18, <1>21, <2>5
  <2>13. \A j \in 0 .. P - 1, k \in 0 .. P - 1 :
           F0[<<j, k>>] = 0 /\ H[<<j, k>>] # 0 => u.disk[H[<<j, k>>]] = Zeros
    <3>1. \A k \in 0 .. P - 1 : k \in 0 .. P
      BY SectorZero
    <3> QED
      BY <1>35, <2>6, <2>7, <3>1
  <2>14. entry # 0 /\ st.disk[entry].kind = "index" => u.disk[entry].kind = "index"
    BY <1>13, <1>23
  <2>15. LimbGrown(st, entry, n, z)
    BY <1>13, <1>15, <1>31, <1>32, <1>33, <2>2, <2>10, <2>11, <2>12, <2>13, <2>14
       DEF LimbGrown, H, F0, X
  <2> QED
    BY <1>10, <1>18, <1>37, <2>1, <2>15
<1>38. CASE ok
  <2>1. PICK z : z = [st |-> v, entry |-> e, ok |-> TRUE]
    OBVIOUS
  <2>2. z.st = v /\ z.entry = e /\ z.ok = TRUE
    BY <2>1
  <2>3. IndexBlock(q) \in Block /\ IndexBlock(q) \in IndexNode /\ IndexBlock(q).kind = "index"
        /\ Pointers(IndexBlock(q)) = q
    BY <1>21, IndexBlockOf
  <2>4. Alloc(u, v, {e}) /\ v.map = u.map
        /\ v.disk = [s \in Sector |-> IF s \in {e} THEN IndexBlock(q) ELSE u.disk[s]]
    BY <1>9, <1>21, <1>36, <1>38, <2>3, WriteEffect
  <2>5. v.disk[e] = IndexBlock(q) /\ \A s \in Sector : s # e => v.disk[s] = u.disk[s]
    BY <1>13, <2>4
  <2>6. Alloc(st, v, {entry} \cup X)
    <3>1. {e} \subseteq ({entry} \cup X) \cup {0} \cup (u.map \ st.map)
      BY <1>18, <1>30 DEF Alloc
    <3> QED
      BY <1>31, <2>4, <3>1, AllocTrans
  <2> DEFINE H == Limb(v.disk, e)
  <2>7. H = LimbOf(v.disk, e, q)
    BY <1>36, <1>38, <2>3, <2>5 DEF Limb, Ptrs
  <2>8. \A j \in 0 .. P - 1, k \in 0 .. P : H[<<j, k>>] = G[<<j, k>>]
    <3> SUFFICES ASSUME NEW j \in 0 .. P - 1, NEW k \in 0 .. P
                 PROVE  H[<<j, k>>] = G[<<j, k>>]
      OBVIOUS
    <3>1. q[j] # 0 => v.disk[q[j]] = u.disk[q[j]]
      BY <1>21, <2>5 DEF Pointer
    <3>2. Branch(v.disk, q[j]) = Branch(u.disk, q[j])
      BY <3>1, PtrsFrame
    <3>3. H[<<j, k>>] = Branch(v.disk, q[j])[k]
      BY <2>7, LimbAt
    <3>4. G[<<j, k>>] = Branch(u.disk, q[j])[k]
      BY LimbAt DEF G
    <3> QED
      BY <3>2, <3>3, <3>4
  <2>9. H[<<P, P>>] = e
    BY <2>7, LimbAt
  <2> HIDE DEF H
  <2>10. \A s \in LimbSlot : H[s] = G[s]
    BY <1>26, <2>8, <2>9, LimbSlots
  <2>11. Grow(LimbSlot, st.map, F0, v.map, H)
    <3>1. \A s \in LimbSlot : F0[s] # 0 => H[s] # 0
      BY <1>29, <2>10 DEF Grow
    <3>2. Grow(LimbSlot, st.map, F0, u.map, H)
      BY <1>29, <2>10, <3>1, GrowLess
    <3> QED
      BY <2>4, <3>2
  <2>12. \A j \in 0 .. P - 1, k \in 0 .. P :
           H[<<j, k>>] # F0[<<j, k>>] => j * P < n /\ (k = P \/ k < n - j * P)
    BY <1>34, <2>8
  <2>13. \A j \in 0 .. P - 1 : H[<<j, P>>] = q[j]
    BY <1>27, <2>8, SectorZero
  <2>14. \A j \in 0 .. P - 1 : q[j] # 0 => q[j] \in Sector /\ v.disk[q[j]] = u.disk[q[j]]
    BY <1>21, <2>5 DEF Pointer
  <2>15. \A j \in 0 .. P - 1 : H[<<j, P>>] # 0 => v.disk[H[<<j, P>>]] \in IndexNode
    BY <1>21, <2>13, <2>14
  <2>16. \A j \in 0 .. P - 1 : A[j] # 0 /\ st.disk[A[j]].kind = "index" => v.disk[A[j]].kind = "index"
    BY <1>18, <1>33, <2>14
  <2>17. \A j \in 0 .. P - 1, k \in 0 .. P - 1 :
           F0[<<j, k>>] = 0 /\ H[<<j, k>>] # 0 => v.disk[H[<<j, k>>]] = Zeros
    <3> SUFFICES ASSUME NEW j \in 0 .. P - 1, NEW k \in 0 .. P - 1,
                        F0[<<j, k>>] = 0, H[<<j, k>>] # 0
                 PROVE  v.disk[H[<<j, k>>]] = Zeros
      OBVIOUS
    <3>1. k \in 0 .. P /\ <<j, k>> \in LimbSlot
      BY LimbSlots, SectorZero
    <3>2. H[<<j, k>>] = G[<<j, k>>]
      BY <2>8, <3>1
    <3>3. u.disk[G[<<j, k>>]] = Zeros /\ G[<<j, k>>] # e
      BY <1>35, <3>2
    <3>4. G[<<j, k>>] \in u.map
      BY <1>29, <3>1, <3>2 DEF Grow
    <3>5. G[<<j, k>>] \in Sector
      BY <1>21, <3>4, BitsFinite DEF Ready
    <3> QED
      BY <2>5, <3>2, <3>3, <3>5
  <2>18. \A j \in 0 .. P - 1 : j * P < n =>
           /\ H[<<j, P>>] # 0 /\ v.disk[H[<<j, P>>]].kind = "index"
           /\ \A k \in 0 .. P - 1 : k < n - j * P => H[<<j, k>>] # 0
    <3>1. \A j \in 0 .. P - 1 : j * P < n => j < K
      BY <1>4
    <3>2. \A k \in 0 .. P - 1 : k \in 0 .. P
      BY SectorZero
    <3> QED
      BY <1>20, <1>38, <2>8, <2>13, <2>14, <3>1, <3>2
  <2>19. \A x \in v.map \ st.map : \E s \in LimbSlot : F0[s] = 0 /\ H[s] = x
    <3> SUFFICES ASSUME NEW x \in v.map \ st.map
                 PROVE  \E s \in LimbSlot : F0[s] = 0 /\ H[s] = x
      OBVIOUS
    <3>1. CASE x \in u.map \ t.map
      <4>1. PICK s \in LimbSlot : F[s] = 0 /\ G[s] = x
        BY <1>20, <1>38, <3>1
      <4>2. F0[s] = 0
        BY <1>28, <4>1 DEF Grow
      <4> QED
        BY <2>10, <4>1, <4>2
    <3>2. CASE x \in t.map \ st.map
      <4>1. entry = 0 /\ x = e
        BY <1>13, <3>2
      <4> QED
        BY <1>26, <2>9, <4>1, LimbSlots
    <3> QED
      BY <2>4, <3>1, <3>2
  <2>20. entry # 0 /\ st.disk[entry].kind = "index" => v.disk[entry].kind = "index"
    BY <1>13, <2>3, <2>5
  <2>22. v.disk[e] \in IndexNode /\ v.disk[e].kind = "index" /\ e # 0
    BY <1>36, <1>38, <2>3, <2>5
  <2>23. F0 = Limb(st.disk, entry) /\ H = Limb(z.st.disk, z.entry)
    BY <2>2 DEF F0, H
  <2>24. /\ Alloc(st, z.st, {entry} \cup {A[j] : j \in 0 .. P - 1})
         /\ z.entry \in Sector /\ z.ok \in BOOLEAN
         /\ Grow(LimbSlot, st.map, F0, z.st.map, H)
    BY <1>13, <2>2, <2>6, <2>11 DEF X
  <2>25. /\ z.entry # 0 => z.st.disk[z.entry] \in IndexNode
         /\ \A j \in 0 .. P - 1 : H[<<j, P>>] # 0 => z.st.disk[H[<<j, P>>]] \in IndexNode
         /\ entry # 0 /\ st.disk[entry].kind = "index" => z.st.disk[entry].kind = "index"
    BY <2>2, <2>15, <2>20, <2>22
  <2>26. /\ \A j \in 0 .. P - 1 : A[j] # 0 /\ st.disk[A[j]].kind = "index" => z.st.disk[A[j]].kind = "index"
         /\ \A j \in 0 .. P - 1, k \in 0 .. P - 1 :
              F0[<<j, k>>] = 0 /\ H[<<j, k>>] # 0 => z.st.disk[H[<<j, k>>]] = Zeros
    BY <2>2, <2>16, <2>17
  <2>27. /\ z.entry # 0 /\ z.st.disk[z.entry].kind = "index"
         /\ \A j \in 0 .. P - 1 : j * P < n =>
              /\ H[<<j, P>>] # 0 /\ z.st.disk[H[<<j, P>>]].kind = "index"
              /\ \A k \in 0 .. P - 1 : k < n - j * P => H[<<j, k>>] # 0
         /\ \A x \in z.st.map \ st.map : \E s \in LimbSlot : F0[s] = 0 /\ H[s] = x
    BY <2>2, <2>18, <2>19, <2>22
  <2>21. LimbGrown(st, entry, n, z)
    BY <1>15, <2>12, <2>23, <2>24, <2>25, <2>26, <2>27, SMTT(30) DEF LimbGrown
  <2> QED
    BY <1>10, <1>38, <2>1, <2>21
<1> QED
  BY <1>18, <1>37, <1>38

-----------------------------------------------------------------------------
(* The slots of a file.                                                     *)

\* The index blocks on the way to a block.
LEMMA Prefixes ==
  ASSUME NEW a \in Nat, NEW b \in Nat, NEW c \in Nat
  PROVE  /\ SubSeq(<<a, b>>, 1, 1) = <<a>>
         /\ SubSeq(<<a, b, c>>, 1, 1) = <<a>>
         /\ SubSeq(<<a, b, c>>, 1, 2) = <<a, b>>
<1>1. ASSUME NEW s, \A i \in 1 .. 1 : s[i] \in Nat
      PROVE  SubSeq(s, 1, 1) = <<s[1]>>
  <2>1. PICK t : t = SubSeq(s, 1, 1)
    OBVIOUS
  <2>2. t \in Seq(Nat) /\ Len(t) = 1 /\ \A i \in 1 .. 1 : t[i] = s[1 + i - 1]
    BY <1>1, <2>1, SubSeqProperties
  <2>3. <<s[1]>> \in Seq(Nat) /\ Len(<<s[1]>>) = 1 /\ t[1] = s[1]
    BY <1>1, <2>2
  <2>4. t = <<s[1]>>
    BY <2>2, <2>3, SeqEqual
  <2> QED
    BY <2>1, <2>4
<1>2. SubSeq(<<a, b, c>>, 1, 2) = <<a, b>>
  <2>1. PICK t : t = SubSeq(<<a, b, c>>, 1, 2)
    OBVIOUS
  <2>2. \A i \in 1 .. 2 : <<a, b, c>>[i] \in Nat
    OBVIOUS
  <2>3. t \in Seq(Nat) /\ Len(t) = 2 /\ \A i \in 1 .. 2 : t[i] = <<a, b, c>>[1 + i - 1]
    BY <2>1, <2>2, SubSeqProperties
  <2>4. <<a, b>> \in Seq(Nat) /\ Len(<<a, b>>) = 2 /\ t[1] = a /\ t[2] = b
    BY <2>3
  <2>5. \A i \in 1 .. Len(t) : t[i] = <<a, b>>[i]
    BY <2>3, <2>4
  <2>6. t = <<a, b>>
    BY <2>3, <2>4, <2>5, SeqEqual
  <2> QED
    BY <2>1, <2>6
<1>3. \A i \in 1 .. 1 : <<a, b>>[i] \in Nat /\ <<a, b, c>>[i] \in Nat
  OBVIOUS
<1>4. SubSeq(<<a, b>>, 1, 1) = <<(<<a, b>>)[1]>> /\ SubSeq(<<a, b, c>>, 1, 1) = <<(<<a, b, c>>)[1]>>
  BY <1>1, <1>3
<1>5. <<a, b>>[1] = a /\ <<a, b, c>>[1] = a
  OBVIOUS
<1> QED
  BY <1>2, <1>4, <1>5

\* The six kinds of slots.
LEMMA SlotForms ==
  /\ \A p \in Slot : \/ \E i \in 0 .. D - 1 : p = <<0, i>>
                     \/ p = <<1>>
                     \/ \E i \in 0 .. P - 1 : p = <<1, i>>
                     \/ p = <<2>>
                     \/ \E j \in 0 .. P - 1 : p = <<2, j>>
                     \/ \E j \in 0 .. P - 1, i \in 0 .. P - 1 : p = <<2, j, i>>
  /\ \A i \in 0 .. D - 1 : <<0, i>> \in Slot /\ <<0, i>> \in DataSlot /\ <<0, i>> \notin IndexSlot
  /\ <<1>> \in Slot /\ <<1>> \in IndexSlot /\ <<1>> \notin DataSlot
  /\ \A i \in 0 .. P - 1 : <<1, i>> \in Slot /\ <<1, i>> \in DataSlot /\ <<1, i>> \notin IndexSlot
  /\ <<2>> \in Slot /\ <<2>> \in IndexSlot /\ <<2>> \notin DataSlot
  /\ \A j \in 0 .. P - 1 : <<2, j>> \in Slot /\ <<2, j>> \in IndexSlot /\ <<2, j>> \notin DataSlot
  /\ \A j \in 0 .. P - 1, i \in 0 .. P - 1 :
       <<2, j, i>> \in Slot /\ <<2, j, i>> \in DataSlot /\ <<2, j, i>> \notin IndexSlot
<1>1. \A p \in Slot : \/ \E i \in 0 .. D - 1 : p = <<0, i>>
                      \/ p = <<1>>
                      \/ \E i \in 0 .. P - 1 : p = <<1, i>>
                      \/ p = <<2>>
                      \/ \E j \in 0 .. P - 1 : p = <<2, j>>
                      \/ \E j \in 0 .. P - 1, i \in 0 .. P - 1 : p = <<2, j, i>>
  BY DEF Slot, IndexSlot, DataSlot
<1>2. \A i \in 0 .. D - 1 : <<0, i>> \in Slot /\ <<0, i>> \in DataSlot /\ <<0, i>> \notin IndexSlot
  BY DEF Slot, IndexSlot, DataSlot
<1>3. <<1>> \in Slot /\ <<1>> \in IndexSlot /\ <<1>> \notin DataSlot
  BY DEF Slot, IndexSlot, DataSlot
<1>4. \A i \in 0 .. P - 1 : <<1, i>> \in Slot /\ <<1, i>> \in DataSlot /\ <<1, i>> \notin IndexSlot
  BY DEF Slot, IndexSlot, DataSlot
<1>5. <<2>> \in Slot /\ <<2>> \in IndexSlot /\ <<2>> \notin DataSlot
  BY DEF Slot, IndexSlot, DataSlot
<1>6. \A j \in 0 .. P - 1 : <<2, j>> \in Slot /\ <<2, j>> \in IndexSlot /\ <<2, j>> \notin DataSlot
  BY DEF Slot, IndexSlot, DataSlot
<1>7. \A j \in 0 .. P - 1, i \in 0 .. P - 1 :
        <<2, j, i>> \in Slot /\ <<2, j, i>> \in DataSlot /\ <<2, j, i>> \notin IndexSlot
  BY DEF Slot, IndexSlot, DataSlot
<1> QED
  BY <1>1, <1>2, <1>3, <1>4, <1>5, <1>6, <1>7

\* What stands at the places of a file: index_to_sector's three cases.
LEMMA TreeAt ==
  ASSUME NEW dsk, NEW e
  PROVE  /\ \A i \in 0 .. D - 1 : Tree(dsk, e)[<<0, i>>] = e.direct[i]
         /\ Tree(dsk, e)[<<1>>] = e.indirect
         /\ \A i \in 0 .. P - 1 : Tree(dsk, e)[<<1, i>>] = Ptrs(dsk, e.indirect)[i]
         /\ Tree(dsk, e)[<<2>>] = e.doubly
         /\ \A j \in 0 .. P - 1 : Tree(dsk, e)[<<2, j>>] = Ptrs(dsk, e.doubly)[j]
         /\ \A j \in 0 .. P - 1, i \in 0 .. P - 1 :
              Tree(dsk, e)[<<2, j, i>>] = Ptrs(dsk, Ptrs(dsk, e.doubly)[j])[i]
<1> USE SlotForms DEF Tree, Node
<1>1. \A i \in 0 .. D - 1 : Tree(dsk, e)[<<0, i>>] = e.direct[i]
  OBVIOUS
<1>2. Tree(dsk, e)[<<1>>] = e.indirect
  OBVIOUS
<1>3. \A i \in 0 .. P - 1 : Tree(dsk, e)[<<1, i>>] = Ptrs(dsk, e.indirect)[i]
  OBVIOUS
<1>4. Tree(dsk, e)[<<2>>] = e.doubly
  OBVIOUS
<1>5. ASSUME NEW j \in 0 .. P - 1
      PROVE  Tree(dsk, e)[<<2, j>>] = Ptrs(dsk, e.doubly)[j]
  <2>1. PICK p : p = <<2, j>>
    OBVIOUS
  <2>2. p[1] = 2 /\ Len(p) = 2 /\ p[2] = j /\ p \in Slot
    BY <2>1
  <2>3. Node(dsk, e, p) = Ptrs(dsk, e.doubly)[j]
    BY <2>2
  <2> QED
    BY <2>1, <2>2, <2>3
<1>6. ASSUME NEW j \in 0 .. P - 1, NEW i \in 0 .. P - 1
      PROVE  Tree(dsk, e)[<<2, j, i>>] = Ptrs(dsk, Ptrs(dsk, e.doubly)[j])[i]
  <2>1. PICK p : p = <<2, j, i>>
    OBVIOUS
  <2>2. p[1] = 2 /\ Len(p) = 3 /\ p[2] = j /\ p[3] = i /\ p \in Slot
    BY <2>1
  <2>3. Node(dsk, e, p) = Ptrs(dsk, Ptrs(dsk, e.doubly)[j])[i]
    BY <2>2
  <2> QED
    BY <2>1, <2>2, <2>3
<1> HIDE DEF Tree, Node
<1> QED
  BY <1>1, <1>2, <1>3, <1>4, <1>5, <1>6

\* Slot p is in use by a file of n blocks.
InUse(n, p) ==
  \/ \E i \in 0 .. D - 1 : p = <<0, i>> /\ i < n
  \/ p = <<1>> /\ D < n
  \/ \E i \in 0 .. P - 1 : p = <<1, i>> /\ D + i < n
  \/ p = <<2>> /\ D + P < n
  \/ \E j \in 0 .. P - 1 : p = <<2, j>> /\ j * P < n - D - P
  \/ \E j \in 0 .. P - 1, i \in 0 .. P - 1 : p = <<2, j, i>> /\ i < n - D - P - j * P

\* Products of small numbers, as the block numbers are made of.
LEMMA Products ==
  ASSUME NEW j \in 0 .. P - 1, NEW i \in 0 .. P - 1
  PROVE  /\ j * P \in Nat /\ P * j = j * P /\ P * P \in Nat
         /\ j * P + i < P * P /\ j * P + P <= P * P
<1>1. P \in Nat \ {0} /\ j \in Nat /\ j < P /\ i \in Nat /\ i < P
  BY SectorZero
<1>2. P * j + P <= P * P
  BY <1>1, NextMultiple
<1>3. PICK b \in Nat : b = P
  BY <1>1
<1>4. b * j = j * b /\ j * b \in Nat /\ b * b \in Nat
  BY <1>1, <1>3
<1>5. P * j = j * P /\ j * P \in Nat /\ P * P \in Nat
  BY <1>3, <1>4
<1>6. ASSUME NEW x \in Nat, NEW y \in Nat, NEW z \in Nat, x + z <= y, i < z
      PROVE  x + i < y
  BY <1>6, <1>1
<1> QED
  BY <1>1, <1>2, <1>5, <1>6

\* Where each block is, and which block is where.
LEMMA BlockAt ==
  ASSUME NEW k \in Nat, k < D + P + P * P
  PROVE  \/ k < D /\ BlockSlot(k) = <<0, k>>
         \/ \E i \in 0 .. P - 1 : k = D + i /\ BlockSlot(k) = <<1, i>>
         \/ \E j, i \in 0 .. P - 1 : k = D + P + j * P + i /\ BlockSlot(k) = <<2, j, i>>
<1> USE SectorZero
<1>1. CASE k < D
  BY <1>1 DEF BlockSlot
<1>2. CASE D <= k /\ k < D + P
  <2>1. k - D \in 0 .. P - 1 /\ BlockSlot(k) = <<1, k - D>> /\ k = D + (k - D)
    BY <1>2 DEF BlockSlot
  <2> QED
    BY <2>1
<1>3. CASE D + P <= k
  <2>1. PICK a \in Nat : a = k - D - P
    BY <1>3
  <2>2. BlockSlot(k) = <<2, a \div P, a % P>>
    BY <1>3, <2>1 DEF BlockSlot
  <2>3. PICK j \in Nat, i \in 0 .. P - 1 : j = a \div P /\ i = a % P /\ a = P * j + i
    BY DivMod
  <2>4. j < P
    <3>1. SUFFICES ASSUME P <= j PROVE FALSE
      OBVIOUS
    <3>2. P * P <= P * j
      <4>1. CASE P = j
        <5>1. P * j \in Int
          OBVIOUS
        <5> QED
          BY <4>1, <5>1
      <4>2. CASE P < j
        <5>1. P * P + P <= P * j /\ P * P \in Int /\ P * j \in Int
          BY <4>2, NextMultiple
        <5> QED
          BY <5>1
      <4> QED
        BY <3>1, <4>1, <4>2
    <3>3. PICK x \in Int, y \in Int : x = P * P /\ y = P * j
      OBVIOUS
    <3>4. x <= y /\ a = y + i /\ a < x
      BY <2>1, <2>3, <3>2, <3>3
    <3> QED
      BY <3>4
  <2>5. j \in 0 .. P - 1 /\ P * j = j * P
    BY <2>3, <2>4, Products
  <2>6. k = D + P + j * P + i
    <3>1. PICK x \in Int : x = j * P
      BY <2>5
    <3>2. a = x + i
      BY <2>3, <2>5, <3>1
    <3>3. k = D + P + x + i
      BY <2>1, <3>2
    <3> QED
      BY <3>1, <3>3
  <2> QED
    BY <2>2, <2>3, <2>5, <2>6
<1> QED
  BY <1>1, <1>2, <1>3

\* Which place has which block.
LEMMA AtBlock ==
  /\ \A i \in 0 .. D - 1 : BlockSlot(i) = <<0, i>>
  /\ \A i \in 0 .. P - 1 : BlockSlot(D + i) = <<1, i>>
  /\ \A j, i \in 0 .. P - 1 : BlockSlot(D + P + j * P + i) = <<2, j, i>>
<1> USE SectorZero
<1>1. \A i \in 0 .. D - 1 : BlockSlot(i) = <<0, i>>
  BY DEF BlockSlot
<1>2. ASSUME NEW i \in 0 .. P - 1
      PROVE  BlockSlot(D + i) = <<1, i>>
  <2>1. ~ D + i < D /\ D + i < D + P /\ (D + i) - D = i
    OBVIOUS
  <2> QED
    BY <2>1 DEF BlockSlot
<1>3. ASSUME NEW j \in 0 .. P - 1, NEW i \in 0 .. P - 1
      PROVE  BlockSlot(D + P + j * P + i) = <<2, j, i>>
  <2>1. PICK a : a = P * j + i
    OBVIOUS
  <2>2. a \in Nat /\ a \div P = j /\ a % P = i
    BY <2>1, DivModUnique
  <2>3. PICK x \in Nat : x = j * P /\ x = P * j
    BY Products
  <2>4. PICK k \in Nat : k = D + P + x + i
    OBVIOUS
  <2>5. k - D - P = a /\ ~ k < D /\ ~ k < D + P
    BY <2>1, <2>3, <2>4
  <2>6. BlockSlot(k) = <<2, j, i>>
    BY <2>2, <2>5 DEF BlockSlot
  <2>7. k = D + P + j * P + i
    BY <2>3, <2>4
  <2> QED
    BY <2>6, <2>7
<1> QED
  BY <1>1, <1>2, <1>3

\* The places in use by n blocks are the blocks and the index blocks above them.
LEMMA SlotsChar ==
  ASSUME NEW n \in Nat, n <= D + P + P * P, NEW p
  PROVE  p \in Slots(n) <=> InUse(n, p)
<1> USE SectorZero
<1> DEFINE blocks == {BlockSlot(k) : k \in 0 .. n - 1}
           before == UNION {{SubSeq(q, 1, m) : m \in 1 .. Len(q) - 1} : q \in {r \in blocks : r[1] # 0}}
<1>1. Slots(n) = blocks \cup before
  BY DEF Slots
<1>b. \A q \in blocks : \E k \in 0 .. n - 1 : q = BlockSlot(k)
  OBVIOUS
<1>c. \A k \in 0 .. n - 1 : BlockSlot(k) \in blocks
  OBVIOUS
<1>e. \A b \in 0 .. P - 1 : SubSeq(<<1, b>>, 1, 1) = <<1>>
  <2> TAKE b \in 0 .. P - 1
  <2>1. b \in Nat /\ 1 \in Nat
    OBVIOUS
  <2> QED
    BY <2>1, Prefixes
<1>f. \A b, c \in 0 .. P - 1 : SubSeq(<<2, b, c>>, 1, 1) = <<2>> /\ SubSeq(<<2, b, c>>, 1, 2) = <<2, b>>
  <2> TAKE b, c \in 0 .. P - 1
  <2>1. b \in Nat /\ c \in Nat /\ 2 \in Nat
    OBVIOUS
  <2> QED
    BY <2>1, Prefixes
<1>d. P * P \in Int
  OBVIOUS
<1>2. ASSUME NEW q \in blocks
      PROVE  \/ \E i \in 0 .. D - 1 : q = <<0, i>> /\ i < n
             \/ \E i \in 0 .. P - 1 : q = <<1, i>> /\ D + i < n
             \/ \E j, i \in 0 .. P - 1 : q = <<2, j, i>> /\ D + P + j * P + i < n
  <2>1. PICK k \in 0 .. n - 1 : q = BlockSlot(k)
    BY <1>2
  <2>2. k \in Nat /\ k < n /\ k < D + P + P * P
    <3>1. PICK x \in Int : x = P * P
      OBVIOUS
    <3>2. k < D + P + x
      BY <3>1
    <3> QED
      BY <3>1, <3>2
  <2>3. CASE k < D /\ BlockSlot(k) = <<0, k>>
    BY <2>1, <2>2, <2>3
  <2>4. CASE \E i \in 0 .. P - 1 : k = D + i /\ BlockSlot(k) = <<1, i>>
    BY <2>1, <2>2, <2>4
  <2>5. CASE \E j, i \in 0 .. P - 1 : k = D + P + j * P + i /\ BlockSlot(k) = <<2, j, i>>
    BY <2>1, <2>2, <2>5
  <2> QED
    BY <2>2, <2>3, <2>4, <2>5, BlockAt
<1>3. \A i \in 0 .. D - 1 : i < n => <<0, i>> \in blocks
  BY <1>c, AtBlock
<1>4. \A i \in 0 .. P - 1 : D + i < n => <<1, i>> \in blocks
  <2>1. \A i \in 0 .. P - 1 : D + i < n => D + i \in 0 .. n - 1
    OBVIOUS
  <2> QED
    BY <1>c, <2>1, AtBlock
<1>5. ASSUME NEW j \in 0 .. P - 1, NEW i \in 0 .. P - 1, D + P + j * P + i < n
      PROVE  <<2, j, i>> \in blocks
  <2>1. PICK x \in Nat : x = j * P
    BY Products
  <2>2. PICK k : k = D + P + x + i
    OBVIOUS
  <2>3. k \in 0 .. n - 1
    BY <1>5, <2>1, <2>2
  <2>4. BlockSlot(k) = <<2, j, i>>
    BY <2>1, <2>2, AtBlock
  <2> QED
    BY <1>c, <2>3, <2>4
<1>6. \A r \in before : \E q \in blocks : q[1] # 0 /\ \E m \in 1 .. Len(q) - 1 : r = SubSeq(q, 1, m)
  OBVIOUS
<1>7. \A q \in blocks : q[1] # 0 => \A m \in 1 .. Len(q) - 1 : SubSeq(q, 1, m) \in before
  OBVIOUS
<1> HIDE DEF blocks, before
<1>8. ASSUME NEW r \in before
      PROVE  \/ r = <<1>> /\ D < n
             \/ r = <<2>> /\ D + P < n
             \/ \E j \in 0 .. P - 1 : r = <<2, j>> /\ j * P < n - D - P
  <2>0. PICK q \in blocks : q[1] # 0 /\ \E m \in 1 .. Len(q) - 1 : r = SubSeq(q, 1, m)
    BY <1>6, <1>8
  <2>1. PICK m \in 1 .. Len(q) - 1 : q[1] # 0 /\ r = SubSeq(q, 1, m)
    BY <2>0
  <2>2. CASE \E i \in 0 .. D - 1 : q = <<0, i>> /\ i < n
    BY <2>1, <2>2
  <2>3. CASE \E i \in 0 .. P - 1 : q = <<1, i>> /\ D + i < n
    <3>1. PICK i \in 0 .. P - 1 : q = <<1, i>> /\ D + i < n
      BY <2>3
    <3>2. Len(q) = 2 /\ m = 1
      BY <2>1, <3>1
    <3>3. r = <<1>>
      BY <1>e, <2>1, <3>1, <3>2
    <3> QED
      BY <3>1, <3>3
  <2>4. CASE \E j, i \in 0 .. P - 1 : q = <<2, j, i>> /\ D + P + j * P + i < n
    <3>1. PICK j \in 0 .. P - 1, i \in 0 .. P - 1 : q = <<2, j, i>> /\ D + P + j * P + i < n
      BY <2>4
    <3>2. Len(q) = 3 /\ (m = 1 \/ m = 2)
      BY <2>1, <3>1
    <3>3. r = <<2>> \/ r = <<2, j>>
      BY <1>f, <2>1, <3>1, <3>2
    <3>4. PICK x \in Nat : x = j * P
      BY Products
    <3>5. D + P < n /\ x < n - D - P
      BY <3>1, <3>4
    <3> QED
      BY <3>3, <3>4, <3>5
  <2> QED
    BY <1>2, <2>2, <2>3, <2>4
<1>9. D < n => <<1>> \in before
  <2>1. SUFFICES ASSUME D < n PROVE <<1>> \in before
    OBVIOUS
  <2>2. 0 \in 0 .. P - 1 /\ D + 0 < n
    BY <2>1
  <2>3. PICK q \in blocks : q = <<1, 0>>
    BY <1>4, <2>2
  <2>4. q[1] # 0 /\ 1 \in 1 .. Len(q) - 1
    BY <2>3
  <2>5. SubSeq(q, 1, 1) = <<1>>
    BY <2>3, Prefixes
  <2> QED
    BY <1>7, <2>4, <2>5
<1>10. ASSUME NEW j \in 0 .. P - 1, j * P < n - D - P
       PROVE  <<2, j>> \in before /\ <<2>> \in before
  <2>1. 0 \in 0 .. P - 1
    OBVIOUS
  <2>2. PICK x \in Nat : x = j * P
    BY Products
  <2>3. D + P + x + 0 < n
    BY <1>10, <2>2
  <2>4. PICK q \in blocks : q = <<2, j, 0>>
    BY <1>5, <2>1, <2>2, <2>3
  <2>5. q[1] # 0 /\ 1 \in 1 .. Len(q) - 1 /\ 2 \in 1 .. Len(q) - 1
    BY <2>4
  <2>6. SubSeq(q, 1, 1) = <<2>> /\ SubSeq(q, 1, 2) = <<2, j>>
    BY <1>f, <2>1, <2>4
  <2> QED
    BY <1>7, <2>5, <2>6
<1>11. D + P < n => <<2>> \in before
  <2>1. 0 \in 0 .. P - 1 /\ 0 * P = 0
    OBVIOUS
  <2>2. D + P < n => 0 * P < n - D - P
    BY <2>1
  <2> QED
    BY <1>10, <2>1, <2>2
<1>12. \A j, i \in 0 .. P - 1 : i < n - D - P - j * P <=> D + P + j * P + i < n
  <2> TAKE j, i \in 0 .. P - 1
  <2>1. PICK x \in Nat : x = j * P
    BY Products
  <2>2. i < n - D - P - x <=> D + P + x + i < n
    OBVIOUS
  <2> QED
    BY <2>1, <2>2
<1>13. p \in blocks \cup before => InUse(n, p)
  <2>1. CASE p \in blocks
    BY <1>2, <1>12, <2>1 DEF InUse
  <2>2. CASE p \in before
    BY <1>8, <2>2 DEF InUse
  <2> QED
    BY <2>1, <2>2
<1>14. InUse(n, p) => p \in blocks \cup before
  BY <1>3, <1>4, <1>5, <1>9, <1>10, <1>11, <1>12 DEF InUse
<1> QED
  BY <1>1, <1>13, <1>14

\* The slots in use are slots; those of blocks are in use one by one.
LEMMA SlotsIn ==
  ASSUME NEW n \in Nat, n <= D + P + P * P
  PROVE  /\ Slots(n) \subseteq Slot
         /\ \A k \in 0 .. n - 1 : BlockSlot(k) \in DataSlot /\ BlockSlot(k) \in Slots(n)
         /\ \A p \in Slots(n) : p \in DataSlot => \E k \in 0 .. n - 1 : p = BlockSlot(k)
<1> USE SectorZero
<1>0. P * P \in Int
  OBVIOUS
<1>1. \A p \in Slots(n) : InUse(n, p)
  BY SlotsChar
<1>2. \A p : InUse(n, p) => p \in Slot
  BY SlotForms DEF InUse
<1>3. ASSUME NEW k \in 0 .. n - 1
      PROVE  BlockSlot(k) \in DataSlot /\ BlockSlot(k) \in Slots(n)
  <2>1. k \in Nat /\ k < D + P + P * P
    BY <1>0
  <2>2. BlockSlot(k) \in DataSlot
    BY <2>1, BlockAt, SlotForms
  <2>3. BlockSlot(k) \in Slots(n)
    BY DEF Slots
  <2> QED
    BY <2>2, <2>3
<1>4. ASSUME NEW p \in Slots(n), p \in DataSlot
      PROVE  \E k \in 0 .. n - 1 : p = BlockSlot(k)
  <2>1. CASE \E i \in 0 .. D - 1 : p = <<0, i>> /\ i < n
    BY <2>1, AtBlock
  <2>2. CASE \E i \in 0 .. P - 1 : p = <<1, i>> /\ D + i < n
    <3>1. PICK i \in 0 .. P - 1 : p = <<1, i>> /\ D + i < n
      BY <2>2
    <3>2. D + i \in 0 .. n - 1 /\ p = BlockSlot(D + i)
      BY <3>1, AtBlock
    <3> QED
      BY <3>2
  <2>3. CASE \E j \in 0 .. P - 1, i \in 0 .. P - 1 : p = <<2, j, i>> /\ i < n - D - P - j * P
    <3>1. PICK j \in 0 .. P - 1, i \in 0 .. P - 1 : p = <<2, j, i>> /\ i < n - D - P - j * P
      BY <2>3
    <3>2. PICK x \in Nat : x = j * P
      BY Products
    <3>3. D + P + x + i \in 0 .. n - 1
      BY <3>1, <3>2
    <3>4. p = BlockSlot(D + P + x + i)
      BY <3>1, <3>2, AtBlock
    <3> QED
      BY <3>3, <3>4
  <2>4. p # <<1>> /\ p # <<2>> /\ \A j \in 0 .. P - 1 : p # <<2, j>>
    BY <1>4, SlotForms
  <2> QED
    BY <1>1, <2>1, <2>2, <2>3, <2>4 DEF InUse
<1> QED
  BY <1>1, <1>2, <1>3, <1>4

\* More blocks, more slots.
LEMMA SlotsGrow ==
  ASSUME NEW m \in Nat, NEW n \in Nat, m <= n, NEW p, InUse(m, p)
  PROVE  InUse(n, p)
<1> USE SectorZero
<1>1. \A j, i \in 0 .. P - 1 : i < m - D - P - j * P => i < n - D - P - j * P
  <2> TAKE j, i \in 0 .. P - 1
  <2>1. PICK x \in Nat : x = j * P
    BY Products
  <2>2. i < m - D - P - x => i < n - D - P - x
    OBVIOUS
  <2> QED
    BY <2>1, <2>2
<1>2. \A j \in 0 .. P - 1 : j * P < m - D - P => j * P < n - D - P
  <2> TAKE j \in 0 .. P - 1
  <2>1. PICK x \in Nat : x = j * P
    BY Products
  <2>2. x < m - D - P => x < n - D - P
    OBVIOUS
  <2> QED
    BY <2>1, <2>2
<1> QED
  BY <1>1, <1>2 DEF InUse

\* The index blocks on the way to a slot in use are in use.
LEMMA SlotsAbove ==
  ASSUME NEW n \in Nat
  PROVE  /\ \A i \in 0 .. P - 1 : InUse(n, <<1, i>>) => InUse(n, <<1>>)
         /\ \A j \in 0 .. P - 1 : InUse(n, <<2, j>>) => InUse(n, <<2>>)
         /\ \A j, i \in 0 .. P - 1 : InUse(n, <<2, j, i>>) => InUse(n, <<2, j>>) /\ InUse(n, <<2>>)
<1> USE SectorZero
<1>1. \A i \in 0 .. P - 1 : InUse(n, <<1, i>>) => InUse(n, <<1>>)
  BY DEF InUse
<1>2. ASSUME NEW j \in 0 .. P - 1, InUse(n, <<2, j>>)
      PROVE  InUse(n, <<2>>)
  <2>1. PICK x \in Nat : x = j * P
    BY Products
  <2>2. j * P < n - D - P
    BY <1>2 DEF InUse
  <2>3. D + P < n
    BY <2>1, <2>2
  <2> QED
    BY <2>3 DEF InUse
<1>3. ASSUME NEW j \in 0 .. P - 1, NEW i \in 0 .. P - 1, InUse(n, <<2, j, i>>)
      PROVE  InUse(n, <<2, j>>)
  <2>1. PICK x \in Nat : x = j * P
    BY Products
  <2>2. i < n - D - P - j * P
    BY <1>3 DEF InUse
  <2>3. x < n - D - P
    BY <2>1, <2>2
  <2>4. j * P < n - D - P
    BY <2>1, <2>3
  <2> QED
    BY <2>4 DEF InUse
<1> QED
  BY <1>1, <1>2, <1>3

\* Nothing below an index block that is not there.
LEMMA TreeAbove ==
  ASSUME NEW dsk, NEW e
  PROVE  LET T == Tree(dsk, e)
         IN  /\ \A i \in 0 .. P - 1 : T[<<1, i>>] # 0 => T[<<1>>] # 0
             /\ \A j \in 0 .. P - 1 : T[<<2, j>>] # 0 => T[<<2>>] # 0
             /\ \A j, i \in 0 .. P - 1 : T[<<2, j, i>>] # 0 => T[<<2, j>>] # 0
<1>1. \A x : x = 0 => \A i \in 0 .. P - 1 : Ptrs(dsk, x)[i] = 0
  BY DEF Ptrs
<1> QED
  BY <1>1, TreeAt

\* The tree depends on the index blocks only.
LEMMA TreeFrame ==
  ASSUME NEW dsk, NEW e, NEW dsk2,
         \A p \in IndexSlot : Tree(dsk, e)[p] # 0 => dsk2[Tree(dsk, e)[p]] = dsk[Tree(dsk, e)[p]]
  PROVE  Tree(dsk2, e) = Tree(dsk, e)
<1> DEFINE T == Tree(dsk, e)
<1>1. T[<<1>>] = e.indirect /\ T[<<2>>] = e.doubly /\ \A j \in 0 .. P - 1 : T[<<2, j>>] = Ptrs(dsk, e.doubly)[j]
  BY TreeAt
<1>2. \A p \in IndexSlot : T[p] # 0 => dsk2[T[p]] = dsk[T[p]]
  OBVIOUS
<1> HIDE DEF T
<1>3. Ptrs(dsk2, e.indirect) = Ptrs(dsk, e.indirect) /\ Ptrs(dsk2, e.doubly) = Ptrs(dsk, e.doubly)
  BY <1>1, <1>2, SlotForms, PtrsFrame
<1>4. \A j \in 0 .. P - 1 : Ptrs(dsk2, Ptrs(dsk, e.doubly)[j]) = Ptrs(dsk, Ptrs(dsk, e.doubly)[j])
  <2> TAKE j \in 0 .. P - 1
  <2>1. PICK x : x = Ptrs(dsk, e.doubly)[j]
    OBVIOUS
  <2>2. <<2, j>> \in IndexSlot /\ T[<<2, j>>] = x
    BY <1>1, <2>1, SlotForms
  <2>3. x # 0 => dsk2[x] = dsk[x]
    BY <1>2, <2>2
  <2>4. Ptrs(dsk2, x) = Ptrs(dsk, x)
    BY <2>3, PtrsFrame
  <2> QED
    BY <2>1, <2>4
<1>5. \A p \in Slot : Tree(dsk2, e)[p] = Tree(dsk, e)[p]
  BY <1>3, <1>4, SlotForms, TreeAt
<1> QED
  BY <1>5 DEF Tree

\* An inode with more pointers has a tree with more sectors.
LEMMA LeqTree ==
  ASSUME NEW dsk, NEW d, NEW e, InodeLeq(d, e), NEW p \in Slot, Tree(dsk, d)[p] # 0
  PROVE  Tree(dsk, e)[p] = Tree(dsk, d)[p]
<1>1. d.indirect # 0 => e.indirect = d.indirect
  BY DEF InodeLeq
<1>2. d.doubly # 0 => e.doubly = d.doubly
  BY DEF InodeLeq
<1>3. \A i \in 0 .. D - 1 : d.direct[i] # 0 => e.direct[i] = d.direct[i]
  BY DEF InodeLeq
<1>4. CASE \E i \in 0 .. D - 1 : p = <<0, i>>
  BY <1>3, <1>4, TreeAt
<1>5. CASE p = <<1>> \/ p = <<2>>
  BY <1>1, <1>2, <1>5, TreeAt
<1>6. CASE \E i \in 0 .. P - 1 : p = <<1, i>>
  BY <1>1, <1>6, TreeAt, TreeAbove
<1>7. CASE \E j \in 0 .. P - 1 : p = <<2, j>>
  BY <1>2, <1>7, TreeAt, TreeAbove
<1>8. CASE \E j \in 0 .. P - 1, i \in 0 .. P - 1 : p = <<2, j, i>>
  <2>1. PICK j \in 0 .. P - 1, i \in 0 .. P - 1 : p = <<2, j, i>>
    BY <1>8
  <2>2. Tree(dsk, d)[<<2, j>>] # 0
    BY <2>1, TreeAbove
  <2>3. Tree(dsk, d)[<<2>>] # 0
    BY <2>2, TreeAbove
  <2>4. e.doubly = d.doubly
    BY <1>2, <2>3, TreeAt
  <2> QED
    BY <2>1, <2>4, TreeAt
<1> QED
  BY <1>4, <1>5, <1>6, <1>7, <1>8, SlotForms

\* What the commands find at a slot in use.
LEMMA SectorIs ==
  ASSUME NEW n \in Nat, n <= D + P + P * P, NEW dsk, NEW d,
         \A q \in Slots(n) : Tree(dsk, d)[q] # 0, NEW p \in Slots(n)
  PROVE  SectorAt(dsk, d, p) = Tree(dsk, d)[p]
<1> USE SectorZero
<1> DEFINE T == Tree(dsk, d)
<1>1. \A q : InUse(n, q) => T[q] # 0
  BY SlotsChar
<1>2. InUse(n, p)
  BY SlotsChar
<1>3. /\ \A i \in 0 .. D - 1 : T[<<0, i>>] = d.direct[i]
      /\ T[<<1>>] = d.indirect /\ T[<<2>>] = d.doubly
      /\ \A i \in 0 .. P - 1 : T[<<1, i>>] = Ptrs(dsk, d.indirect)[i]
      /\ \A j \in 0 .. P - 1 : T[<<2, j>>] = Ptrs(dsk, d.doubly)[j]
      /\ \A j \in 0 .. P - 1, i \in 0 .. P - 1 : T[<<2, j, i>>] = Ptrs(dsk, Ptrs(dsk, d.doubly)[j])[i]
  BY TreeAt
<1> HIDE DEF T
<1>4. \A x : x # 0 => Ptrs(dsk, x) = Pointers(dsk[x])
  BY DEF Ptrs
<1>5. ASSUME NEW i \in 0 .. D - 1, p = <<0, i>>
      PROVE  SectorAt(dsk, d, p) = T[p]
  <2>1. p[1] = 0 /\ p[2] = i
    BY <1>5
  <2>2. SectorAt(dsk, d, p) = d.direct[i]
    BY <2>1 DEF SectorAt
  <2> QED
    BY <1>3, <1>5, <2>2
<1>6. ASSUME p = << 1 >> \/ p = << 2 >>
      PROVE  SectorAt(dsk, d, p) = T[p]
  <2>1. Len(p) = 1 /\ (p[1] = 1 \/ p[1] = 2)
    BY <1>6
  <2>2. SectorAt(dsk, d, p) = IF p[1] = 1 THEN d.indirect ELSE d.doubly
    BY <2>1 DEF SectorAt
  <2>3. CASE p = <<1>>
    <3>1. p[1] = 1
      BY <2>3
    <3> QED
      BY <1>3, <2>2, <2>3, <3>1
  <2>4. CASE p = <<2>>
    <3>1. p[1] = 2
      BY <2>4
    <3> QED
      BY <1>3, <2>2, <2>4, <3>1
  <2> QED
    BY <1>6, <2>3, <2>4
<1>7. ASSUME NEW i \in 0 .. P - 1, p = <<1, i>>
      PROVE  SectorAt(dsk, d, p) = T[p]
  <2>1. p[1] = 1 /\ Len(p) = 2 /\ p[2] = i
    BY <1>7
  <2>2. d.indirect # 0
    BY <1>1, <1>2, <1>3, <1>7, SlotsAbove
  <2>3. SectorAt(dsk, d, p) = Pointers(dsk[d.indirect])[i]
    BY <2>1 DEF SectorAt
  <2> QED
    BY <1>3, <1>4, <1>7, <2>2, <2>3
<1>8. ASSUME NEW j \in 0 .. P - 1, p = <<2, j>>
      PROVE  SectorAt(dsk, d, p) = T[p]
  <2>1. p[1] = 2 /\ Len(p) = 2 /\ p[2] = j
    BY <1>8
  <2>2. d.doubly # 0
    BY <1>1, <1>2, <1>3, <1>8, SlotsAbove
  <2>3. SectorAt(dsk, d, p) = Pointers(dsk[d.doubly])[j]
    BY <2>1 DEF SectorAt
  <2> QED
    BY <1>3, <1>4, <1>8, <2>2, <2>3
<1>9. ASSUME NEW j \in 0 .. P - 1, NEW i \in 0 .. P - 1, p = <<2, j, i>>
      PROVE  SectorAt(dsk, d, p) = T[p]
  <2>1. p[1] = 2 /\ Len(p) = 3 /\ p[2] = j /\ p[3] = i
    BY <1>9
  <2>2. d.doubly # 0 /\ Ptrs(dsk, d.doubly)[j] # 0
    <3>1. InUse(n, <<2, j>>) /\ InUse(n, <<2>>)
      BY <1>2, <1>9, SlotsAbove
    <3>2. T[<<2>>] # 0 /\ T[<<2, j>>] # 0
      BY <1>1, <3>1
    <3> QED
      BY <1>3, <3>2
  <2>3. SectorAt(dsk, d, p) = Pointers(dsk[Pointers(dsk[d.doubly])[j]])[i]
    BY <2>1 DEF SectorAt
  <2> QED
    BY <1>3, <1>4, <1>9, <2>2, <2>3
<1>10. p \in Slot
  BY SlotsIn
<1> QED
  BY <1>5, <1>6, <1>7, <1>8, <1>9, <1>10, SlotForms DEF T

-----------------------------------------------------------------------------
(* Giving blocks to an inode.                                               *)

\* An inode that can be given blocks: its sectors are its own.
TreeReady(st, e) ==
  LET T == Tree(st.disk, e)
  IN  /\ Ready(st) /\ e \in Inode
      /\ \A p \in Slot : T[p] \in Sector /\ T[p] \notin Available(st)
      /\ \A p, q \in Slot : T[p] # 0 /\ T[q] = T[p] => q = p
      /\ \A p \in IndexSlot : T[p] # 0 => st.disk[T[p]] \in IndexNode

\* The index blocks of an inode.
Indices(dsk, e) == {Tree(dsk, e)[p] : p \in IndexSlot}

\* Inode e of state st became d in state u, for a file of n blocks.
Part(st, e, n, u, d) ==
  LET F == Tree(st.disk, e)
      G == Tree(u.disk, d)
  IN  /\ Alloc(st, u, Indices(st.disk, e))
      /\ TreeReady(u, d)
      /\ d.length = e.length /\ InodeLeq(e, d)
      /\ Grow(Slot, st.map, F, u.map, G)
      /\ \A p \in Slot : G[p] # F[p] => InUse(n, p)
      /\ \A p \in IndexSlot : F[p] # 0 /\ st.disk[F[p]].kind = "index" => u.disk[G[p]].kind = "index"
      /\ \A p \in DataSlot : F[p] = 0 /\ G[p] # 0 => u.disk[G[p]] = Zeros

\* Every sector that was taken is at a slot.
Full(st, e, u, d) ==
  \A x \in u.map \ st.map : \E p \in Slot : Tree(st.disk, e)[p] = 0 /\ Tree(u.disk, d)[p] = x

\* A file whose pointers have grown may be extended again, also after a failure.
LEMMA GrowReady ==
  ASSUME NEW st, NEW e, TreeReady(st, e), NEW u, NEW X, Alloc(st, u, X), NEW d \in Inode,
         Grow(Slot, st.map, Tree(st.disk, e), u.map, Tree(u.disk, d)),
         \A p \in IndexSlot : Tree(u.disk, d)[p] # 0 => u.disk[Tree(u.disk, d)[p]] \in IndexNode
  PROVE  TreeReady(u, d)
<1>1. PICK F : F = Tree(st.disk, e)
  OBVIOUS
<1>2. PICK G : G = Tree(u.disk, d)
  OBVIOUS
<1>3. /\ \A p \in Slot : F[p] \in Sector /\ F[p] \notin Available(st)
      /\ \A p, q \in Slot : F[p] # 0 /\ F[q] = F[p] => q = p
      /\ Ready(st)
  BY <1>1 DEF TreeReady
<1>4. /\ \A k \in Slot : F[k] # 0 => G[k] = F[k]
      /\ \A k \in Slot : F[k] = 0 /\ G[k] # 0 => G[k] \in u.map \ st.map
      /\ \A k, l \in Slot : F[k] = 0 /\ F[l] = 0 /\ G[k] # 0 /\ G[k] = G[l] => k = l
  BY <1>1, <1>2 DEF Grow
<1>5. Ready(u) /\ st.map \subseteq u.map /\ u.map \ st.map \subseteq Available(st)
  BY DEF Alloc
<1>6. u.map \subseteq Bits /\ st.map \subseteq Bits
  BY <1>3, <1>5 DEF Ready
<1>7. Available(u) \subseteq Available(st) /\ Available(u) \cap u.map = {} /\ 0 \notin Available(u)
  <2>1. Available(u) \subseteq Available(st)
    BY <1>5 DEF Available
  <2> QED
    BY <1>5, <2>1, AvailableBits
<1>8. \A p \in Slot : G[p] \in Sector /\ G[p] \notin Available(u)
  BY <1>3, <1>4, <1>6, <1>7, BitsFinite, SectorZero
<1>9. \A p, q \in Slot : G[p] # 0 /\ G[q] = G[p] => q = p
  BY <1>3, <1>4, <1>5
<1> QED
  BY <1>2, <1>5, <1>8, <1>9 DEF TreeReady

\* Giving no blocks is giving a part of them.
LEMMA PartSame ==
  ASSUME NEW st, NEW e, TreeReady(st, e), NEW n
  PROVE  Part(st, e, n, st, e) /\ Full(st, e, st, e)
<1>1. Alloc(st, st, Indices(st.disk, e))
  BY AllocSame DEF TreeReady
<1>2. InodeLeq(e, e)
  BY DEF InodeLeq
<1>3. Grow(Slot, st.map, Tree(st.disk, e), st.map, Tree(st.disk, e))
  BY GrowSame
<1> QED
  BY <1>1, <1>2, <1>3 DEF Part, Full

\* The levels of inode_reserve, one after the other, give a part of the blocks.
LEMMA PartTrans ==
  ASSUME NEW st, NEW e, NEW n, NEW u, NEW d, Part(st, e, n, u, d), TreeReady(st, e),
         NEW v, NEW f, Part(u, d, n, v, f)
  PROVE  /\ Part(st, e, n, v, f)
         /\ Full(st, e, u, d) /\ Full(u, d, v, f) => Full(st, e, v, f)
<1>1. PICK F : F = Tree(st.disk, e)
  OBVIOUS
<1>2. PICK G : G = Tree(u.disk, d)
  OBVIOUS
<1>3. PICK H : H = Tree(v.disk, f)
  OBVIOUS
<1>4. /\ Grow(Slot, st.map, F, u.map, G) /\ Grow(Slot, u.map, G, v.map, H)
      /\ Alloc(st, u, Indices(st.disk, e)) /\ Alloc(u, v, Indices(u.disk, d))
      /\ TreeReady(u, d) /\ TreeReady(v, f)
  BY <1>1, <1>2, <1>3 DEF Part
<1>5. \A p \in Slot : /\ F[p] # 0 => G[p] = F[p]
                      /\ G[p] # 0 => H[p] = G[p]
                      /\ F[p] = 0 /\ G[p] # 0 => G[p] \in u.map \ st.map
                      /\ G[p] = 0 /\ H[p] # 0 => H[p] \in v.map \ u.map
  BY <1>4 DEF Grow
<1>6. IndexSlot \subseteq Slot /\ DataSlot \subseteq Slot /\ IndexSlot \cap DataSlot = {}
  <2>1. IndexSlot \subseteq Slot /\ DataSlot \subseteq Slot
    BY DEF Slot
  <2>2. \A p \in Slot : ~ (p \in IndexSlot /\ p \in DataSlot)
    BY SlotForms
  <2> QED
    BY <2>1, <2>2
<1>7. Indices(u.disk, d) \subseteq Indices(st.disk, e) \cup {0} \cup (u.map \ st.map)
  BY <1>1, <1>2, <1>5, <1>6 DEF Indices
<1>8. Alloc(st, v, Indices(st.disk, e))
  BY <1>4, <1>7, AllocTrans
<1>9. Grow(Slot, st.map, F, v.map, H)
  BY <1>4, GrowTrans
<1>10. f.length = e.length /\ InodeLeq(e, f)
  <2>1. InodeLeq(e, d) /\ InodeLeq(d, f) /\ f.length = d.length /\ d.length = e.length
    BY DEF Part
  <2> QED
    BY <2>1 DEF InodeLeq
<1>11. \A p \in Slot : H[p] # F[p] => InUse(n, p)
  <2>1. \A p \in Slot : G[p] # F[p] => InUse(n, p)
    BY <1>1, <1>2 DEF Part
  <2>2. \A p \in Slot : H[p] # G[p] => InUse(n, p)
    BY <1>2, <1>3 DEF Part
  <2> QED
    BY <2>1, <2>2
<1>12. \A p \in IndexSlot : F[p] # 0 /\ st.disk[F[p]].kind = "index" => v.disk[H[p]].kind = "index"
  <2>1. \A p \in IndexSlot : F[p] # 0 /\ st.disk[F[p]].kind = "index" => u.disk[G[p]].kind = "index"
    BY <1>1, <1>2 DEF Part
  <2>2. \A p \in IndexSlot : G[p] # 0 /\ u.disk[G[p]].kind = "index" => v.disk[H[p]].kind = "index"
    BY <1>2, <1>3 DEF Part
  <2> QED
    BY <1>5, <1>6, <2>1, <2>2
<1>13. ASSUME NEW p \in DataSlot, F[p] = 0, H[p] # 0
       PROVE  v.disk[H[p]] = Zeros
  <2>1. CASE G[p] = 0
    BY <1>2, <1>3, <1>13, <2>1 DEF Part
  <2>2. CASE G[p] # 0
    <3>1. u.disk[G[p]] = Zeros /\ H[p] = G[p] /\ G[p] \in u.map
      BY <1>1, <1>2, <1>5, <1>6, <1>13, <2>2 DEF Part
    <3>2. G[p] \notin Indices(u.disk, d)
      <4>1. \A q, r \in Slot : G[q] # 0 /\ G[r] = G[q] => r = q
        BY <1>2, <1>4 DEF TreeReady
      <4> QED
        BY <1>2, <1>6, <2>2, <4>1 DEF Indices
    <3>3. G[p] \in Sector
      BY <1>2, <1>4, <1>6 DEF TreeReady
    <3>4. v.disk[G[p]] = u.disk[G[p]]
      BY <1>4, <2>2, <3>1, <3>2, <3>3 DEF Alloc
    <3> QED
      BY <3>1, <3>4
  <2> QED
    BY <2>1, <2>2
<1>14. Full(st, e, u, d) /\ Full(u, d, v, f) => Full(st, e, v, f)
  <2> SUFFICES ASSUME Full(st, e, u, d), Full(u, d, v, f), NEW x \in v.map \ st.map
               PROVE  \E p \in Slot : F[p] = 0 /\ H[p] = x
    BY <1>1, <1>3 DEF Full
  <2>0. 0 \notin v.map \ st.map
    <3>1. Ready(st) /\ v.map \ st.map \subseteq Available(st)
      BY <1>8 DEF Alloc, TreeReady
    <3> QED
      BY <3>1, AvailableBits
  <2>1. CASE x \in u.map
    <3>1. PICK p \in Slot : F[p] = 0 /\ G[p] = x
      BY <1>1, <1>2, <2>1 DEF Full
    <3> QED
      BY <1>5, <2>0, <3>1
  <2>2. CASE x \notin u.map
    <3>1. PICK p \in Slot : G[p] = 0 /\ H[p] = x
      BY <1>2, <1>3, <2>2 DEF Full
    <3> QED
      BY <1>5, <3>1
  <2> QED
    BY <2>1, <2>2
<1> QED
  BY <1>1, <1>3, <1>4, <1>8, <1>9, <1>10, <1>11, <1>12, <1>13, <1>14 DEF Part

\* What a tree has at each slot.
TreeShape(T, dsk, e) ==
  /\ \A i \in 0 .. D - 1 : T[<<0, i>>] = e.direct[i]
  /\ T[<<1>>] = e.indirect
  /\ \A i \in 0 .. P - 1 : T[<<1, i>>] = Ptrs(dsk, e.indirect)[i]
  /\ T[<<2>>] = e.doubly
  /\ \A j \in 0 .. P - 1 : T[<<2, j>>] = Ptrs(dsk, e.doubly)[j]
  /\ \A j \in 0 .. P - 1, i \in 0 .. P - 1 :
       T[<<2, j, i>>] = Ptrs(dsk, Ptrs(dsk, e.doubly)[j])[i]

\* TreeAt as a property of a tree that has a name.
LEMMA TreeHas ==
  ASSUME NEW dsk, NEW e, NEW T, T = Tree(dsk, e)
  PROVE  TreeShape(T, dsk, e)
BY TreeAt DEF TreeShape

\* Pointers grow when those that change do.
LEMMA GrowSub ==
  ASSUME NEW m, NEW m2, NEW F, NEW G, NEW K, NEW S, S \subseteq K,
         Grow(S, m, F, m2, G), \A p \in K : p \notin S => G[p] = F[p]
  PROVE  Grow(K, m, F, m2, G)
BY DEF Grow

\* The sectors of an inode that an allocation does not touch.
LEMMA KeptSectors ==
  ASSUME NEW st, NEW e, TreeReady(st, e), NEW u, NEW X, Alloc(st, u, X),
         NEW p \in Slot, Tree(st.disk, e)[p] # 0, Tree(st.disk, e)[p] \notin X
  PROVE  u.disk[Tree(st.disk, e)[p]] = st.disk[Tree(st.disk, e)[p]]
<1>1. PICK x \in Sector : x = Tree(st.disk, e)[p] /\ x # 0 /\ x \notin Available(st) /\ x \notin X
  BY DEF TreeReady
<1>2. x \notin u.map \ st.map
  BY <1>1 DEF Alloc
<1>3. u.disk[x] = st.disk[x]
  BY <1>1, <1>2 DEF Alloc
<1> QED
  BY <1>1, <1>3

\* The direct blocks are given to the file, and its other blocks stay.
LEMMA DirectPart ==
  ASSUME NEW st, NEW e, TreeReady(st, e), NEW n \in Nat, NEW r,
         Filled(st, D, e.direct, MinOf(n, D), r), NEW d, d = [e EXCEPT !.direct = r.ptr]
  PROVE  /\ Part(st, e, n, r.st, d)
         /\ r.ok => /\ Full(st, e, r.st, d)
                    /\ \A i \in 0 .. D - 1 : i < n => Tree(r.st.disk, d)[<<0, i>>] # 0
<1> USE SectorZero
<1>1. PICK u, q, ok : u = r.st /\ q = r.ptr /\ ok = r.ok
  OBVIOUS
<1>2. PICK F : F = Tree(st.disk, e)
  OBVIOUS
<1>3. PICK G : G = Tree(u.disk, d)
  OBVIOUS
<1>4. PICK old : old = e.direct
  OBVIOUS
<1>5. e \in Inode /\ Ready(st)
  BY DEF TreeReady
<1>6. PICK m \in 0 .. D : m = MinOf(n, D) /\ \A i \in 0 .. D - 1 : i < m <=> i < n
  BY DEF MinOf
<1>7. /\ Alloc(st, u, {}) /\ ok \in BOOLEAN
      /\ q \in [0 .. D - 1 -> Sector]
      /\ Grow(0 .. D - 1, st.map, old, u.map, q)
      /\ \A i \in 0 .. D - 1 : q[i] # old[i] => i < m /\ old[i] = 0 /\ u.disk[q[i]] = Zeros
      /\ \A x \in u.map \ st.map : \E i \in 0 .. m - 1 : old[i] = 0 /\ q[i] = x
      /\ ok => \A i \in 0 .. m - 1 : q[i] # 0
  BY <1>1, <1>4, <1>6 DEF Filled
<1>8. d \in Inode /\ d.direct = q /\ d.indirect = e.indirect /\ d.doubly = e.doubly /\ d.length = e.length
  BY <1>1, <1>5, <1>7 DEF Inode
<1>9. InodeLeq(e, d)
  BY <1>4, <1>7, <1>8 DEF InodeLeq, Grow
<1>10. Alloc(st, u, Indices(st.disk, e))
  BY <1>7 DEF Alloc
<1>11. \A p \in IndexSlot : F[p] # 0 => u.disk[F[p]] = st.disk[F[p]]
  BY <1>2, <1>7, KeptSectors DEF Slot
<1>12. Tree(u.disk, e) = F
  BY <1>2, <1>11, TreeFrame
<1>t. TreeShape(G, u.disk, d) /\ TreeShape(F, st.disk, e) /\ TreeShape(F, u.disk, e)
  BY <1>2, <1>3, <1>12, TreeHas
<1>13. \A p \in Slot : (\A i \in 0 .. D - 1 : p # <<0, i>>) => G[p] = F[p]
  <2> TAKE p \in Slot
  <2> SUFFICES ASSUME \A i \in 0 .. D - 1 : p # <<0, i>> PROVE G[p] = F[p]
    OBVIOUS
  <2>1. /\ G[<<1>>] = e.indirect /\ G[<<2>>] = e.doubly
        /\ \A i \in 0 .. P - 1 : G[<<1, i>>] = Ptrs(u.disk, e.indirect)[i]
        /\ \A j \in 0 .. P - 1 : G[<<2, j>>] = Ptrs(u.disk, e.doubly)[j]
        /\ \A j \in 0 .. P - 1, i \in 0 .. P - 1 :
              G[<<2, j, i>>] = Ptrs(u.disk, Ptrs(u.disk, e.doubly)[j])[i]
    BY <1>8, <1>t DEF TreeShape
  <2>3. /\ F[<<1>>] = e.indirect /\ F[<<2>>] = e.doubly
        /\ \A i \in 0 .. P - 1 : F[<<1, i>>] = Ptrs(u.disk, e.indirect)[i]
        /\ \A j \in 0 .. P - 1 : F[<<2, j>>] = Ptrs(u.disk, e.doubly)[j]
        /\ \A j \in 0 .. P - 1, i \in 0 .. P - 1 :
              F[<<2, j, i>>] = Ptrs(u.disk, Ptrs(u.disk, e.doubly)[j])[i]
    BY <1>t DEF TreeShape
  <2>2. \/ p = <<1>> \/ p = <<2>> \/ \E i \in 0 .. P - 1 : p = <<1, i>>
        \/ \E j \in 0 .. P - 1 : p = <<2, j>>
        \/ \E j \in 0 .. P - 1, i \in 0 .. P - 1 : p = <<2, j, i>>
    BY SlotForms
  <2> QED
    BY <2>1, <2>2, <2>3
<1>14. \A i \in 0 .. D - 1 : G[<<0, i>>] = q[i] /\ F[<<0, i>>] = old[i]
  <2>1. \A i \in 0 .. D - 1 : G[<<0, i>>] = q[i]
    BY <1>8, <1>t DEF TreeShape
  <2>2. \A i \in 0 .. D - 1 : F[<<0, i>>] = old[i]
    BY <1>4, <1>t DEF TreeShape
  <2> QED
    BY <2>1, <2>2
<1>15. Grow(Slot, st.map, F, u.map, G)
  <2> DEFINE S == {<<0, i>> : i \in 0 .. D - 1}
  <2>1. S \subseteq Slot
    BY SlotForms
  <2>2. Grow(S, st.map, F, u.map, G)
    BY <1>7, <1>14 DEF Grow
  <2>3. \A p \in Slot : p \notin S => G[p] = F[p]
    BY <1>13
  <2> HIDE DEF S
  <2> QED
    BY <2>1, <2>2, <2>3, GrowSub
<1>16. \A p \in Slot : G[p] # F[p] => InUse(n, p)
  <2> TAKE p \in Slot
  <2>1. G[p] # F[p] => \E i \in 0 .. D - 1 : p = <<0, i>> /\ q[i] # old[i]
    BY <1>13, <1>14
  <2>2. \A i \in 0 .. D - 1 : q[i] # old[i] => i < n
    BY <1>6, <1>7
  <2> QED
    BY <2>1, <2>2 DEF InUse
<1>17. \A p \in IndexSlot : p \in Slot /\ G[p] = F[p]
  <2>1. \A p \in IndexSlot : \A i \in 0 .. D - 1 : p # <<0, i>>
    BY SlotForms
  <2> QED
    BY <1>13, <2>1 DEF Slot
<1>18. \A p \in IndexSlot : G[p] # 0 => u.disk[G[p]] \in IndexNode
  BY <1>2, <1>11, <1>17 DEF TreeReady
<1>19. \A p \in IndexSlot : F[p] # 0 /\ st.disk[F[p]].kind = "index" => u.disk[G[p]].kind = "index"
  BY <1>11, <1>17
<1>20. \A p \in DataSlot : F[p] = 0 /\ G[p] # 0 => u.disk[G[p]] = Zeros
  BY <1>7, <1>13, <1>14 DEF Slot
<1>21. Part(st, e, n, u, d)
  <2>1. TreeReady(u, d)
    BY <1>2, <1>3, <1>8, <1>10, <1>15, <1>18, GrowReady
  <2> QED
    BY <1>2, <1>3, <1>8, <1>9, <1>10, <1>15, <1>16, <1>19, <1>20, <2>1 DEF Part
<1>22. Full(st, e, u, d)
  <2>1. ASSUME NEW x \in u.map \ st.map
        PROVE  \E p \in Slot : F[p] = 0 /\ G[p] = x
    <3>1. PICK i \in 0 .. m - 1 : old[i] = 0 /\ q[i] = x
      BY <1>7
    <3>2. i \in 0 .. D - 1
      BY <1>6
    <3> QED
      BY <1>14, <3>1, <3>2, SlotForms
  <2> QED
    BY <1>2, <1>3, <2>1 DEF Full
<1>23. ok => \A i \in 0 .. D - 1 : i < n => G[<<0, i>>] # 0
  BY <1>6, <1>7, <1>14
<1> QED
  BY <1>1, <1>3, <1>21, <1>22, <1>23

\* Two trees agree below their index blocks.
SameIndirect(F, G) == G[<<1>>] = F[<<1>>] /\ \A i \in 0 .. P - 1 : G[<<1, i>>] = F[<<1, i>>]
SameDoubly(F, G) ==
  /\ G[<<2>>] = F[<<2>>] /\ \A j \in 0 .. P - 1 : G[<<2, j>>] = F[<<2, j>>]
  /\ \A j, i \in 0 .. P - 1 : G[<<2, j, i>>] = F[<<2, j, i>>]

\* They do when no one writes those blocks.
DoublyKept(dsk, e, F, dsk2, d, G) ==
  /\ TreeShape(F, dsk, e) /\ TreeShape(G, dsk2, d) /\ d.doubly = e.doubly
  /\ F[<<2>>] # 0 => dsk2[F[<<2>>]] = dsk[F[<<2>>]]
  /\ \A j \in 0 .. P - 1 : F[<<2, j>>] # 0 => dsk2[F[<<2, j>>]] = dsk[F[<<2, j>>]]

\* What is below the doubly indirect block stays while its index blocks do.
LEMMA DoublyFrame ==
  ASSUME NEW dsk, NEW e, NEW F, NEW dsk2, NEW d, NEW G, DoublyKept(dsk, e, F, dsk2, d, G)
  PROVE  SameDoubly(F, G)
<1> USE DEF DoublyKept
<1>1. Ptrs(dsk2, e.doubly) = Ptrs(dsk, e.doubly)
  BY PtrsFrame DEF TreeShape
<1>2. G[<<2>>] = F[<<2>>] /\ \A j \in 0 .. P - 1 : G[<<2, j>>] = F[<<2, j>>]
  BY <1>1 DEF TreeShape
<1>3. ASSUME NEW j \in 0 .. P - 1, NEW i \in 0 .. P - 1
      PROVE  G[<<2, j, i>>] = F[<<2, j, i>>]
  <2>1. PICK x : x = F[<<2, j>>]
    OBVIOUS
  <2>2. Ptrs(dsk2, x) = Ptrs(dsk, x)
    BY <2>1, PtrsFrame
  <2>3. x = Ptrs(dsk, e.doubly)[j]
    BY <2>1 DEF TreeShape
  <2>4. F[<<2, j, i>>] = Ptrs(dsk, x)[i]
    BY <2>3 DEF TreeShape
  <2>5. G[<<2, j, i>>] = Ptrs(dsk2, x)[i]
    BY <1>1, <2>3 DEF TreeShape
  <2> QED
    BY <2>2, <2>4, <2>5
<1> QED
  BY <1>2, <1>3 DEF SameDoubly

IndirectKept(dsk, e, F, dsk2, d, G) ==
  /\ TreeShape(F, dsk, e) /\ TreeShape(G, dsk2, d) /\ d.indirect = e.indirect
  /\ F[<<1>>] # 0 => dsk2[F[<<1>>]] = dsk[F[<<1>>]]

\* What is below the indirect block stays while it does.
LEMMA IndirectFrame ==
  ASSUME NEW dsk, NEW e, NEW F, NEW dsk2, NEW d, NEW G, IndirectKept(dsk, e, F, dsk2, d, G)
  PROVE  SameIndirect(F, G)
<1>1. Ptrs(dsk2, e.indirect) = Ptrs(dsk, e.indirect)
  BY PtrsFrame DEF IndirectKept, TreeShape
<1> QED
  BY <1>1 DEF IndirectKept, TreeShape, SameIndirect

\* Growing the branch of the indirect block gives blocks to the file.
LEMMA Level1Part ==
  ASSUME NEW st, NEW e, TreeReady(st, e), NEW n \in Nat, D < n, NEW r,
         BranchGrown(st, e.indirect, MinOf(n - D, P), r), NEW d, d = [e EXCEPT !.indirect = r.entry]
  PROVE  /\ Part(st, e, n, r.st, d)
         /\ r.ok => /\ Full(st, e, r.st, d)
                    /\ r.entry # 0 /\ r.st.disk[r.entry].kind = "index"
                    /\ \A i \in 0 .. P - 1 : D + i < n => Tree(r.st.disk, d)[<<1, i>>] # 0
<1> USE SectorZero
<1>1. PICK u, y, ok : u = r.st /\ y = r.entry /\ ok = r.ok
  OBVIOUS
<1>2. PICK F : F = Tree(st.disk, e)
  OBVIOUS
<1>3. PICK G : G = Tree(u.disk, d)
  OBVIOUS
<1>4. PICK x : x = e.indirect
  OBVIOUS
<1>5. e \in Inode /\ Ready(st)
  BY DEF TreeReady
<1>6. PICK m \in 1 .. P : m = MinOf(n - D, P) /\ \A i \in 0 .. P - 1 : i < m <=> D + i < n
  BY DEF MinOf
<1>7. PICK BF : BF = Branch(st.disk, x)
  OBVIOUS
<1>8. PICK BG : BG = Branch(u.disk, y)
  OBVIOUS
<1>9. /\ Alloc(st, u, {x}) /\ y \in Sector /\ ok \in BOOLEAN
      /\ Grow(0 .. P, st.map, BF, u.map, BG)
      /\ \A k \in 0 .. P : BG[k] # BF[k] => k < m \/ k = P
      /\ y # 0 => u.disk[y] \in IndexNode
      /\ x # 0 /\ st.disk[x].kind = "index" => u.disk[y].kind = "index"
      /\ \A k \in 0 .. P - 1 : BF[k] = 0 /\ BG[k] # 0 => u.disk[BG[k]] = Zeros
      /\ ok => /\ y # 0 /\ u.disk[y].kind = "index"
               /\ \A k \in 0 .. m - 1 : BG[k] # 0
               /\ \A z \in u.map \ st.map : \E k \in 0 .. P : BF[k] = 0 /\ BG[k] = z
  BY <1>1, <1>4, <1>6, <1>7, <1>8 DEF BranchGrown
<1>10. d \in Inode /\ d.indirect = y /\ d.direct = e.direct /\ d.doubly = e.doubly /\ d.length = e.length
  BY <1>1, <1>5, <1>9 DEF Inode
<1>11. BF[P] = x /\ BG[P] = y
  BY <1>7, <1>8, BranchOf
<1>12. x # 0 => y = x
  BY <1>9, <1>11 DEF Grow
<1>13. InodeLeq(e, d)
  BY <1>4, <1>10, <1>12 DEF InodeLeq
<1>14. TreeShape(F, st.disk, e) /\ TreeShape(G, u.disk, d)
  BY <1>2, <1>3, TreeHas
<1>15. /\ F[<<1>>] = BF[P] /\ G[<<1>>] = BG[P]
       /\ \A i \in 0 .. P - 1 : F[<<1, i>>] = BF[i] /\ G[<<1, i>>] = BG[i]
  <2>1. \A i \in 0 .. P - 1 : BF[i] = Ptrs(st.disk, x)[i] /\ BG[i] = Ptrs(u.disk, y)[i]
    BY <1>7, <1>8, BranchOf
  <2> QED
    BY <1>4, <1>10, <1>11, <1>14, <2>1 DEF TreeShape
<1>16. Alloc(st, u, Indices(st.disk, e))
  <2>1. x \in Indices(st.disk, e)
    BY <1>2, <1>11, <1>15, SlotForms DEF Indices
  <2> QED
    BY <1>9, <2>1 DEF Alloc
<1>17. ASSUME NEW p \in Slot, p # << 1 >>, F[p] # 0
       PROVE  u.disk[F[p]] = st.disk[F[p]]
  <2>1. F[p] # x
    BY <1>2, <1>11, <1>15, <1>17, SlotForms DEF TreeReady
  <2> QED
    BY <1>2, <1>9, <1>17, <2>1, KeptSectors
<1>18. /\ <<2>> \in Slot /\ <<2>> # <<1>>
       /\ \A j \in 0 .. P - 1 : <<2, j>> \in Slot /\ <<2, j>> # <<1>>
  BY SlotForms
<1>19. /\ G[<<2>>] = F[<<2>>] /\ \A j \in 0 .. P - 1 : G[<<2, j>>] = F[<<2, j>>]
       /\ \A j, i \in 0 .. P - 1 : G[<<2, j, i>>] = F[<<2, j, i>>]
  <2>1. F[<<2>>] # 0 => u.disk[F[<<2>>]] = st.disk[F[<<2>>]]
    BY <1>17, <1>18
  <2>2. \A j \in 0 .. P - 1 : F[<<2, j>>] # 0 => u.disk[F[<<2, j>>]] = st.disk[F[<<2, j>>]]
    BY <1>17, <1>18
  <2>3. d.doubly = e.doubly
    BY <1>10
  <2>4. SameDoubly(F, G)
    <3>1. DoublyKept(st.disk, e, F, u.disk, d, G)
      BY <1>14, <2>1, <2>2, <2>3 DEF DoublyKept
    <3> QED
      BY <3>1, DoublyFrame
  <2> QED
    BY <2>4 DEF SameDoubly
<1>20. \A i \in 0 .. D - 1 : G[<<0, i>>] = F[<<0, i>>]
  <2>1. \A i \in 0 .. D - 1 : F[<<0, i>>] = e.direct[i]
    BY <1>14 DEF TreeShape
  <2>2. \A i \in 0 .. D - 1 : G[<<0, i>>] = d.direct[i]
    BY <1>14 DEF TreeShape
  <2>3. d.direct = e.direct
    BY <1>10
  <2> QED
    BY ONLY <2>1, <2>2, <2>3
<1>21. \A p \in Slot : p = <<1>> \/ (\E i \in 0 .. P - 1 : p = <<1, i>>) \/ G[p] = F[p]
  BY <1>19, <1>20, SlotForms
<1>22. Grow(Slot, st.map, F, u.map, G)
  <2> DEFINE S == {<<1>>} \cup {<<1, i>> : i \in 0 .. P - 1}
  <2>1. S \subseteq Slot
    BY SlotForms
  <2>2. Grow(S, st.map, F, u.map, G)
    <3> DEFINE h(k) == IF k = P THEN <<1>> ELSE <<1, k>>
    <3>1. \A s \in S : \E k \in 0 .. P : s = h(k)
      OBVIOUS
    <3>2. \A k \in 0 .. P : F[h(k)] = BF[k] /\ G[h(k)] = BG[k]
      <4>1. h(P) = <<1>> /\ \A k \in 0 .. P - 1 : h(k) = <<1, k>>
        OBVIOUS
      <4>2. \A k \in 0 .. P : k = P \/ k \in 0 .. P - 1
        OBVIOUS
      <4> HIDE DEF h
      <4> QED
        BY <1>15, <4>1, <4>2
    <3> HIDE DEF S, h
    <3>3. st.map \subseteq u.map /\ \A s \in S : F[s] # 0 => G[s] = F[s]
      BY <1>9, <3>1, <3>2 DEF Grow
    <3>4. \A s \in S : F[s] = 0 /\ G[s] # 0 => G[s] \in u.map \ st.map
      BY <1>9, <3>1, <3>2 DEF Grow
    <3>5. \A s, t \in S : F[s] = 0 /\ F[t] = 0 /\ G[s] # 0 /\ G[s] = G[t] => s = t
      BY <1>9, <3>1, <3>2 DEF Grow
    <3> QED
      BY <3>3, <3>4, <3>5 DEF Grow
  <2>3. \A p \in Slot : p \notin S => G[p] = F[p]
    BY <1>21
  <2> HIDE DEF S
  <2> QED
    BY <2>1, <2>2, <2>3, GrowSub
<1>23. \A p \in Slot : G[p] # F[p] => InUse(n, p)
  <2>1. InUse(n, <<1>>)
    BY DEF InUse
  <2>2. \A i \in 0 .. P - 1 : BG[i] # BF[i] => D + i < n
    BY <1>6, <1>9
  <2>3. \A i \in 0 .. P - 1 : D + i < n => InUse(n, <<1, i>>)
    BY DEF InUse
  <2> QED
    BY <1>15, <1>21, <2>1, <2>2, <2>3
<1>24. \A p \in IndexSlot : p \in Slot /\ (p = <<1>> \/ G[p] = F[p])
  <2>1. \A p \in IndexSlot : \A i \in 0 .. P - 1 : p # <<1, i>>
    BY SlotForms
  <2> QED
    BY <1>21, <2>1 DEF Slot
<1>25. \A p \in IndexSlot : G[p] # 0 => u.disk[G[p]] \in IndexNode
  <2>1. \A p \in IndexSlot : F[p] # 0 => st.disk[F[p]] \in IndexNode
    BY <1>2 DEF TreeReady
  <2> QED
    BY <1>9, <1>11, <1>15, <1>17, <1>24, <2>1
<1>26. \A p \in IndexSlot : F[p] # 0 /\ st.disk[F[p]].kind = "index" => u.disk[G[p]].kind = "index"
  BY <1>9, <1>11, <1>15, <1>17, <1>24
<1>27. \A p \in DataSlot : F[p] = 0 /\ G[p] # 0 => u.disk[G[p]] = Zeros
  <2>1. \A p \in DataSlot : p \in Slot /\ p # <<1>>
    BY SlotForms DEF Slot
  <2> QED
    BY <1>9, <1>15, <1>21, <2>1
<1>28. Part(st, e, n, u, d)
  <2>1. TreeReady(u, d)
    BY <1>2, <1>3, <1>10, <1>16, <1>22, <1>25, GrowReady
  <2> QED
    BY <1>2, <1>3, <1>10, <1>13, <1>16, <1>22, <1>23, <1>26, <1>27, <2>1 DEF Part
<1>29. ok => Full(st, e, u, d)
  <2>1. ASSUME ok, NEW z \in u.map \ st.map
        PROVE  \E p \in Slot : F[p] = 0 /\ G[p] = z
    <3>1. PICK k \in 0 .. P : BF[k] = 0 /\ BG[k] = z
      BY <1>9, <2>1
    <3>2. CASE k = P
      <4>1. F[<<1>>] = 0 /\ G[<<1>>] = z
        BY <1>15, <3>1, <3>2
      <4> QED
        BY <4>1, SlotForms
    <3>3. CASE k \in 0 .. P - 1
      <4>1. F[<<1, k>>] = 0 /\ G[<<1, k>>] = z
        BY <1>15, <3>1, <3>3
      <4> QED
        BY <3>3, <4>1, SlotForms
    <3> QED
      BY <3>2, <3>3
  <2> QED
    BY <1>2, <1>3, <2>1 DEF Full
<1>30. ok => \A i \in 0 .. P - 1 : D + i < n => G[<<1, i>>] # 0
  BY <1>6, <1>9, <1>15
<1> QED
  BY <1>1, <1>3, <1>9, <1>28, <1>29, <1>30

\* The doubly indirect block of a file is ready for the loop of level 2.
LEMMA TreeLimb ==
  ASSUME NEW st, NEW e, TreeReady(st, e)
  PROVE  /\ LimbReady(st, e.doubly, Ptrs(st.disk, e.doubly))
         /\ e.doubly # 0 => st.disk[e.doubly] \in IndexNode
<1>1. PICK F : F = Tree(st.disk, e)
  OBVIOUS
<1>2. TreeShape(F, st.disk, e)
  BY <1>1, TreeHas
<1>3. /\ Ready(st) /\ e \in Inode
      /\ \A p \in Slot : F[p] \in Sector /\ F[p] \notin Available(st)
      /\ \A p, q \in Slot : F[p] # 0 /\ F[q] = F[p] => q = p
      /\ \A p \in IndexSlot : F[p] # 0 => st.disk[F[p]] \in IndexNode
  BY <1>1 DEF TreeReady
<1>4. PICK y, A : y = e.doubly /\ A = Ptrs(st.disk, e.doubly)
  OBVIOUS
<1>5. F[<<2>>] = y /\ \A j \in 0 .. P - 1 : F[<<2, j>>] = A[j]
  BY <1>2, <1>4 DEF TreeShape
<1>6. /\ <<2>> \in Slot /\ <<2>> \in IndexSlot
      /\ \A j \in 0 .. P - 1 : <<2, j>> \in Slot /\ <<2, j>> \in IndexSlot /\ <<2, j>> # <<2>>
  BY SlotForms
<1>7. y # 0 => st.disk[y] \in IndexNode
  BY <1>3, <1>5, <1>6
<1>8. A \in Pointer
  BY <1>4, <1>7, PtrsType
<1>9. y \in Sector /\ y \notin Available(st)
  BY <1>3, <1>5, <1>6
<1>10. \A j \in 0 .. P - 1 :
         /\ A[j] \notin Available(st)
         /\ A[j] # 0 => A[j] # y /\ st.disk[A[j]] \in IndexNode
  BY <1>3, <1>5, <1>6
<1>11. \A i, j \in 0 .. P - 1 : <<2, i>> = <<2, j>> => i = j
  OBVIOUS
<1>12. \A i, j \in 0 .. P - 1 : A[i] # 0 /\ A[i] = A[j] => i = j
  BY <1>3, <1>5, <1>6, <1>11
<1> QED
  BY <1>3, <1>4, <1>7, <1>8, <1>9, <1>10, <1>12 DEF LimbReady

\* Growing the limb of the doubly indirect block gives blocks to the file.
LEMMA Level2Part ==
  ASSUME NEW st, NEW e, TreeReady(st, e), NEW n \in Nat, D + P < n, NEW r,
         LimbGrown(st, e.doubly, MinOf(n - D - P, P * P), r), NEW d, d = [e EXCEPT !.doubly = r.entry]
  PROVE  /\ Part(st, e, n, r.st, d)
         /\ r.ok /\ n <= D + P + P * P =>
              /\ Full(st, e, r.st, d)
              /\ r.entry # 0 /\ r.st.disk[r.entry].kind = "index"
              /\ \A j \in 0 .. P - 1 : InUse(n, <<2, j>>) =>
                   LET x == Tree(r.st.disk, d)[<<2, j>>] IN x # 0 /\ r.st.disk[x].kind = "index"
              /\ \A j, i \in 0 .. P - 1 : InUse(n, <<2, j, i>>) => Tree(r.st.disk, d)[<<2, j, i>>] # 0
<1> USE SectorZero
<1>1. PICK u, y, ok : u = r.st /\ y = r.entry /\ ok = r.ok
  OBVIOUS
<1>2. PICK F : F = Tree(st.disk, e)
  OBVIOUS
<1>3. PICK G : G = Tree(u.disk, d)
  OBVIOUS
<1>4. PICK x, A : x = e.doubly /\ A = Ptrs(st.disk, x)
  OBVIOUS
<1>5. e \in Inode /\ Ready(st)
  BY DEF TreeReady
<1>6. PICK m : m = MinOf(n - D - P, P * P)
  OBVIOUS
<1>7. PICK LF, LG : LF = Limb(st.disk, x) /\ LG = Limb(u.disk, y)
  OBVIOUS
<1>8. /\ Alloc(st, u, {x} \cup {A[j] : j \in 0 .. P - 1}) /\ y \in Sector /\ ok \in BOOLEAN
      /\ Grow(LimbSlot, st.map, LF, u.map, LG)
      /\ \A j \in 0 .. P - 1, k \in 0 .. P :
           LG[<<j, k>>] # LF[<<j, k>>] => j * P < m /\ (k = P \/ k < m - j * P)
      /\ y # 0 => u.disk[y] \in IndexNode
      /\ \A j \in 0 .. P - 1 : LG[<<j, P>>] # 0 => u.disk[LG[<<j, P>>]] \in IndexNode
      /\ x # 0 /\ st.disk[x].kind = "index" => u.disk[x].kind = "index"
      /\ \A j \in 0 .. P - 1 : A[j] # 0 /\ st.disk[A[j]].kind = "index" => u.disk[A[j]].kind = "index"
      /\ \A j \in 0 .. P - 1, k \in 0 .. P - 1 :
           LF[<<j, k>>] = 0 /\ LG[<<j, k>>] # 0 => u.disk[LG[<<j, k>>]] = Zeros
  <2>0. LimbGrown(st, x, m, r)
    BY <1>4, <1>6
  <2>1. /\ Alloc(st, u, {x} \cup {A[j] : j \in 0 .. P - 1}) /\ y \in Sector /\ ok \in BOOLEAN
        /\ Grow(LimbSlot, st.map, LF, u.map, LG)
    <3>1. Alloc(st, u, {x} \cup {A[j] : j \in 0 .. P - 1})
      BY ONLY <1>1, <1>4, <2>0 DEF LimbGrown
    <3>2. y \in Sector /\ ok \in BOOLEAN
      BY ONLY <1>1, <2>0 DEF LimbGrown
    <3>3. Grow(LimbSlot, st.map, LF, u.map, LG)
      BY ONLY <1>1, <1>7, <2>0 DEF LimbGrown
    <3> QED
      BY <3>1, <3>2, <3>3
  <2>2. /\ \A j \in 0 .. P - 1, k \in 0 .. P :
             LG[<<j, k>>] # LF[<<j, k>>] => j * P < m /\ (k = P \/ k < m - j * P)
        /\ y # 0 => u.disk[y] \in IndexNode
        /\ \A j \in 0 .. P - 1 : LG[<<j, P>>] # 0 => u.disk[LG[<<j, P>>]] \in IndexNode
    BY <1>1, <1>7, <2>0 DEF LimbGrown
  <2>3. /\ x # 0 /\ st.disk[x].kind = "index" => u.disk[x].kind = "index"
        /\ \A j \in 0 .. P - 1 : A[j] # 0 /\ st.disk[A[j]].kind = "index" => u.disk[A[j]].kind = "index"
    <3>1. x # 0 /\ st.disk[x].kind = "index" => u.disk[x].kind = "index"
      BY <1>1, <2>0 DEF LimbGrown
    <3>2. \A j \in 0 .. P - 1 : A[j] # 0 /\ st.disk[A[j]].kind = "index" => u.disk[A[j]].kind = "index"
      BY <1>1, <1>4, <2>0, Zenon DEF LimbGrown
    <3> QED
      BY <3>1, <3>2
  <2>4. \A j \in 0 .. P - 1, k \in 0 .. P - 1 :
           LF[<<j, k>>] = 0 /\ LG[<<j, k>>] # 0 => u.disk[LG[<<j, k>>]] = Zeros
    BY <1>1, <1>7, <2>0 DEF LimbGrown
  <2> QED
    BY <2>1, <2>2, <2>3, <2>4
<1>9. ok =>
        /\ y # 0 /\ u.disk[y].kind = "index"
        /\ \A j \in 0 .. P - 1 : j * P < m =>
             /\ LG[<<j, P>>] # 0 /\ u.disk[LG[<<j, P>>]].kind = "index"
             /\ \A k \in 0 .. P - 1 : k < m - j * P => LG[<<j, k>>] # 0
        /\ \A z \in u.map \ st.map : \E s \in LimbSlot : LF[s] = 0 /\ LG[s] = z
  BY <1>1, <1>4, <1>6, <1>7 DEF LimbGrown
<1>10. d \in Inode /\ d.doubly = y /\ d.direct = e.direct /\ d.indirect = e.indirect /\ d.length = e.length
  BY <1>1, <1>5, <1>8 DEF Inode
<1>11. TreeShape(F, st.disk, e) /\ TreeShape(G, u.disk, d)
  BY <1>2, <1>3, TreeHas
<1>12. PICK B : B = Ptrs(u.disk, y)
  OBVIOUS
<1>13. /\ LF[<<P, P>>] = x /\ LG[<<P, P>>] = y
       /\ \A j \in 0 .. P - 1 : LF[<<j, P>>] = A[j] /\ LG[<<j, P>>] = B[j]
  <2>1. LF = LimbOf(st.disk, x, A) /\ LG = LimbOf(u.disk, y, B)
    BY <1>4, <1>7, <1>12 DEF Limb
  <2> QED
    BY <2>1, LimbAt
<1>14. ASSUME NEW j \in 0 .. P - 1, NEW k \in 0 .. P - 1
       PROVE  LF[<<j, k>>] = Ptrs(st.disk, A[j])[k] /\ LG[<<j, k>>] = Ptrs(u.disk, B[j])[k]
  <2>1. LF = LimbOf(st.disk, x, A) /\ LG = LimbOf(u.disk, y, B)
    BY <1>4, <1>7, <1>12 DEF Limb
  <2>2. k \in 0 .. P
    OBVIOUS
  <2>3. LF[<<j, k>>] = Branch(st.disk, A[j])[k] /\ LG[<<j, k>>] = Branch(u.disk, B[j])[k]
    BY <2>1, <2>2, LimbAt
  <2> QED
    BY <2>3, BranchOf
<1>15. /\ F[<<2>>] = LF[<<P, P>>] /\ G[<<2>>] = LG[<<P, P>>]
       /\ \A j \in 0 .. P - 1 : F[<<2, j>>] = LF[<<j, P>>] /\ G[<<2, j>>] = LG[<<j, P>>]
  BY <1>4, <1>10, <1>11, <1>12, <1>13 DEF TreeShape
<1>16. \A j, k \in 0 .. P - 1 : F[<<2, j, k>>] = LF[<<j, k>>] /\ G[<<2, j, k>>] = LG[<<j, k>>]
  <2> TAKE j, k \in 0 .. P - 1
  <2>1. F[<<2, j, k>>] = Ptrs(st.disk, A[j])[k]
    BY <1>4, <1>11 DEF TreeShape
  <2>2. G[<<2, j, k>>] = Ptrs(u.disk, B[j])[k]
    BY <1>10, <1>11, <1>12 DEF TreeShape
  <2> QED
    BY <1>14, <2>1, <2>2
<1>17. /\ <<P, P>> \in LimbSlot
       /\ \A j \in 0 .. P - 1, k \in 0 .. P : <<j, k>> \in LimbSlot
       /\ \A j \in 0 .. P - 1 : <<j, P>> \in LimbSlot
       /\ \A s \in LimbSlot : s = <<P, P>> \/ (\E j \in 0 .. P - 1 : s = <<j, P>>)
                                \/ \E j, k \in 0 .. P - 1 : s = <<j, k>>
  <2>1. \A k \in 0 .. P : k = P \/ k \in 0 .. P - 1
    OBVIOUS
  <2>2. P \in 0 .. P
    OBVIOUS
  <2> QED
    BY <2>1, <2>2, LimbSlots
<1>18. (x # 0 => y = x) /\ \A j \in 0 .. P - 1 : A[j] # 0 => LG[<<j, P>>] = A[j]
  BY <1>8, <1>13, <1>17 DEF Grow
<1>19. InodeLeq(e, d)
  BY <1>4, <1>10, <1>18 DEF InodeLeq
<1>20. x \in Indices(st.disk, e) /\ \A j \in 0 .. P - 1 : A[j] \in Indices(st.disk, e)
  <2>1. \A p \in IndexSlot : F[p] \in Indices(st.disk, e)
    BY <1>2 DEF Indices
  <2>2. <<2>> \in IndexSlot /\ \A j \in 0 .. P - 1 : <<2, j>> \in IndexSlot
    BY SlotForms
  <2>3. x = F[<<2>>] /\ \A j \in 0 .. P - 1 : A[j] = F[<<2, j>>]
    BY <1>13, <1>15
  <2> QED
    BY <2>1, <2>2, <2>3
<1>21. Alloc(st, u, Indices(st.disk, e))
  BY <1>8, <1>20 DEF Alloc
<1>22. ASSUME NEW p \in Slot, p # << 2 >>, \A j \in 0 .. P - 1 : p # <<2, j>>, F[p] # 0
       PROVE  u.disk[F[p]] = st.disk[F[p]]
  <2>1. \A q \in Slot : F[q] = F[p] => q = p
    BY <1>2, <1>22 DEF TreeReady
  <2>2. F[p] # x /\ \A j \in 0 .. P - 1 : F[p] # A[j]
    <3>1. <<2>> \in Slot /\ \A j \in 0 .. P - 1 : <<2, j>> \in Slot
      BY SlotForms
    <3>2. F[p] # F[<<2>>] /\ \A j \in 0 .. P - 1 : F[p] # F[<<2, j>>]
      BY <1>22, <2>1, <3>1
    <3> QED
      BY <1>13, <1>15, <3>2
  <2> QED
    BY <1>2, <1>8, <1>22, <2>2, KeptSectors
<1>23. G[<<1>>] = F[<<1>>] /\ \A i \in 0 .. P - 1 : G[<<1, i>>] = F[<<1, i>>]
  <2>1. <<1>> \in Slot /\ <<1>> # <<2>> /\ \A j \in 0 .. P - 1 : <<1>> # <<2, j>>
    BY SlotForms
  <2>2. F[<<1>>] # 0 => u.disk[F[<<1>>]] = st.disk[F[<<1>>]]
    BY <1>22, <2>1
  <2>3. IndirectKept(st.disk, e, F, u.disk, d, G)
    BY <1>10, <1>11, <2>2 DEF IndirectKept
  <2>4. SameIndirect(F, G)
    BY <2>3, IndirectFrame
  <2> QED
    BY <2>4 DEF SameIndirect
<1>24. \A i \in 0 .. D - 1 : G[<<0, i>>] = F[<<0, i>>]
  <2>1. \A i \in 0 .. D - 1 : F[<<0, i>>] = e.direct[i]
    BY <1>11 DEF TreeShape
  <2>2. \A i \in 0 .. D - 1 : G[<<0, i>>] = d.direct[i]
    BY <1>11 DEF TreeShape
  <2>3. d.direct = e.direct
    BY <1>10
  <2> QED
    BY ONLY <2>1, <2>2, <2>3
<1>25. \A p \in Slot : \/ p = <<2>> \/ (\E j \in 0 .. P - 1 : p = <<2, j>>)
                       \/ (\E j, i \in 0 .. P - 1 : p = <<2, j, i>>) \/ G[p] = F[p]
  BY <1>23, <1>24, SlotForms
<1>26. Grow(Slot, st.map, F, u.map, G)
  <2> DEFINE S == {<<2>>} \cup {<<2, j>> : j \in 0 .. P - 1} \cup {<<2, j, i>> : j, i \in 0 .. P - 1}
  <2>1. S \subseteq Slot
    BY SlotForms
  <2>2. \A s \in S : s = <<2>> \/ (\E j \in 0 .. P - 1 : s = <<2, j>>)
                       \/ \E j, i \in 0 .. P - 1 : s = <<2, j, i>>
    OBVIOUS
  <2>3. \A p \in Slot : p \notin S => G[p] = F[p]
    BY <1>25
  <2> HIDE DEF S
  <2> DEFINE match(s, l) == \/ s = <<2>> /\ l = <<P, P>>
                            \/ \E j \in 0 .. P - 1 : s = <<2, j>> /\ l = <<j, P>>
                            \/ \E j, i \in 0 .. P - 1 : s = <<2, j, i>> /\ l = <<j, i>>
  <2>4. ASSUME NEW s \in S
        PROVE  \E l \in LimbSlot : match(s, l)
    <3>1. \A j, i \in 0 .. P - 1 : <<j, i>> \in LimbSlot
      <4>1. \A i \in 0 .. P - 1 : i \in 0 .. P
        OBVIOUS
      <4> QED
        BY <1>17, <4>1
    <3>2. CASE s = <<2>>
      BY <1>17, <3>2
    <3>3. CASE \E j \in 0 .. P - 1 : s = <<2, j>>
      BY <1>17, <3>3
    <3>4. CASE \E j, i \in 0 .. P - 1 : s = <<2, j, i>>
      BY <3>1, <3>4
    <3> QED
      BY <2>2, <3>2, <3>3, <3>4
  <2>5. \A s, l : match(s, l) => F[s] = LF[l] /\ G[s] = LG[l]
    BY <1>15, <1>16
  <2>6. ASSUME NEW s, NEW t, NEW l, match(s, l), match(t, l)
        PROVE  s = t
    <3>1. \A j, i \in 0 .. P - 1 : j # P /\ i # P
      OBVIOUS
    <3>2. \A a, b, c, f : <<a, b>> = <<c, f>> <=> a = c /\ b = f
      OBVIOUS
    <3> QED
      BY <2>6, <3>1, <3>2
  <2> HIDE DEF match
  <2>7. st.map \subseteq u.map /\ \A s \in S : F[s] # 0 => G[s] = F[s]
    <3>1. st.map \subseteq u.map /\ \A l \in LimbSlot : LF[l] # 0 => LG[l] = LF[l]
      BY <1>8 DEF Grow
    <3> QED
      BY <2>4, <2>5, <3>1
  <2>8. \A s \in S : F[s] = 0 /\ G[s] # 0 => G[s] \in u.map \ st.map
    <3>1. \A l \in LimbSlot : LF[l] = 0 /\ LG[l] # 0 => LG[l] \in u.map \ st.map
      BY <1>8 DEF Grow
    <3> QED
      BY <2>4, <2>5, <3>1
  <2>9. \A s, t \in S : F[s] = 0 /\ F[t] = 0 /\ G[s] # 0 /\ G[s] = G[t] => s = t
    <3> TAKE s, t \in S
    <3>1. PICK l \in LimbSlot : match(s, l)
      BY <2>4
    <3>2. PICK k \in LimbSlot : match(t, k)
      BY <2>4
    <3>3. F[s] = LF[l] /\ G[s] = LG[l] /\ F[t] = LF[k] /\ G[t] = LG[k]
      BY <2>5, <3>1, <3>2
    <3>4. LF[l] = 0 /\ LF[k] = 0 /\ LG[l] # 0 /\ LG[l] = LG[k] => l = k
      BY <1>8 DEF Grow
    <3> QED
      BY <2>6, <3>1, <3>2, <3>3, <3>4
  <2>10. Grow(S, st.map, F, u.map, G)
    BY <2>7, <2>8, <2>9 DEF Grow
  <2> QED
    BY <2>1, <2>3, <2>10, GrowSub
<1>27. /\ \A j \in 0 .. P - 1 : j * P < m => j * P < n - D - P
       /\ \A j, k \in 0 .. P - 1 : k < m - j * P => k < n - D - P - j * P
  <2>1. PICK b \in Nat : b = P * P
    OBVIOUS
  <2>2. m \in Int /\ m <= n - D - P
    BY <1>6, <2>1 DEF MinOf
  <2>3. ASSUME NEW j \in 0 .. P - 1
        PROVE  /\ j * P < m => j * P < n - D - P
               /\ \A k \in 0 .. P - 1 : k < m - j * P => k < n - D - P - j * P
    <3>1. PICK a \in Nat : a = j * P
      BY Products
    <3>2. a < m => a < n - D - P
      BY <2>2
    <3>3. \A k \in 0 .. P - 1 : k < m - a => k < n - D - P - a
      BY <2>2
    <3> QED
      BY <3>1, <3>2, <3>3
  <2> QED
    BY <2>3
<1>28. \A p \in Slot : G[p] # F[p] => InUse(n, p)
  <2>1. InUse(n, <<2>>)
    BY DEF InUse
  <2>2. ASSUME NEW j \in 0 .. P - 1, G[<<2, j>>] # F[<<2, j>>]
        PROVE  InUse(n, <<2, j>>)
    <3>1. P \in 0 .. P
      OBVIOUS
    <3>2. j * P < n - D - P
      BY <1>8, <1>15, <1>27, <2>2, <3>1
    <3> QED
      BY <3>2 DEF InUse
  <2>3. ASSUME NEW j \in 0 .. P - 1, NEW i \in 0 .. P - 1, G[<<2, j, i>>] # F[<<2, j, i>>]
        PROVE  InUse(n, <<2, j, i>>)
    <3>1. i \in 0 .. P /\ i # P
      OBVIOUS
    <3>2. i < m - j * P
      BY <1>8, <1>16, <2>3, <3>1
    <3>3. i < n - D - P - j * P
      BY <1>27, <3>2
    <3> QED
      BY <3>3 DEF InUse
  <2> QED
    BY <1>25, <2>1, <2>2, <2>3
<1>29. \A p \in IndexSlot : p \in Slot /\ (p = <<1>> \/ p = <<2>> \/ \E j \in 0 .. P - 1 : p = <<2, j>>)
  BY DEF IndexSlot, Slot
<1>30. F[<<1>>] # 0 => u.disk[F[<<1>>]] = st.disk[F[<<1>>]]
  <2>1. <<1>> \in Slot /\ <<1>> # <<2>> /\ \A j \in 0 .. P - 1 : <<1>> # <<2, j>>
    BY SlotForms
  <2> QED
    BY <1>22, <2>1
<1>31. \A p \in IndexSlot : G[p] # 0 => u.disk[G[p]] \in IndexNode
  <2>1. F[<<1>>] # 0 => st.disk[F[<<1>>]] \in IndexNode
    BY <1>2, SlotForms DEF TreeReady
  <2>2. G[<<1>>] # 0 => u.disk[G[<<1>>]] \in IndexNode
    BY <1>23, <1>30, <2>1
  <2>3. G[<<2>>] # 0 => u.disk[G[<<2>>]] \in IndexNode
    BY <1>8, <1>13, <1>15
  <2>4. \A j \in 0 .. P - 1 : G[<<2, j>>] # 0 => u.disk[G[<<2, j>>]] \in IndexNode
    BY <1>8, <1>15
  <2> QED
    BY <1>29, <2>2, <2>3, <2>4
<1>32. \A p \in IndexSlot : F[p] # 0 /\ st.disk[F[p]].kind = "index" => u.disk[G[p]].kind = "index"
  <2>1. F[<<1>>] # 0 /\ st.disk[F[<<1>>]].kind = "index" => u.disk[G[<<1>>]].kind = "index"
    BY <1>23, <1>30
  <2>2. F[<<2>>] # 0 /\ st.disk[F[<<2>>]].kind = "index" => u.disk[G[<<2>>]].kind = "index"
    BY <1>8, <1>13, <1>15, <1>18
  <2>3. \A j \in 0 .. P - 1 :
          F[<<2, j>>] # 0 /\ st.disk[F[<<2, j>>]].kind = "index" => u.disk[G[<<2, j>>]].kind = "index"
    <3> TAKE j \in 0 .. P - 1
    <3>1. F[<<2, j>>] = A[j] /\ (A[j] # 0 => G[<<2, j>>] = A[j])
      BY <1>13, <1>15, <1>18
    <3>2. A[j] # 0 /\ st.disk[A[j]].kind = "index" => u.disk[A[j]].kind = "index"
      BY <1>8
    <3> QED
      BY <3>1, <3>2
  <2> QED
    BY <1>29, <2>1, <2>2, <2>3
<1>33. \A p \in DataSlot : F[p] = 0 /\ G[p] # 0 => u.disk[G[p]] = Zeros
  <2>1. \A p \in DataSlot : p \in Slot /\ p # <<2>> /\ \A j \in 0 .. P - 1 : p # <<2, j>>
    BY SlotForms DEF Slot
  <2>2. ASSUME NEW p \in DataSlot, F[p] = 0, G[p] # 0
        PROVE  u.disk[G[p]] = Zeros
    <3>1. PICK j \in 0 .. P - 1, i \in 0 .. P - 1 : p = <<2, j, i>>
      BY <1>25, <2>1, <2>2
    <3>2. F[p] = LF[<<j, i>>] /\ G[p] = LG[<<j, i>>]
      BY <1>16, <3>1
    <3> QED
      BY <1>8, <2>2, <3>2
  <2> QED
    BY <2>2
<1>34. Part(st, e, n, u, d)
  <2>1. TreeReady(u, d)
    BY <1>2, <1>3, <1>10, <1>21, <1>26, <1>31, GrowReady
  <2> QED
    BY <1>2, <1>3, <1>10, <1>19, <1>21, <1>26, <1>28, <1>32, <1>33, <2>1 DEF Part
<1>35. ok => Full(st, e, u, d)
  <2>1. ASSUME ok, NEW z \in u.map \ st.map
        PROVE  \E p \in Slot : F[p] = 0 /\ G[p] = z
    <3>1. PICK s \in LimbSlot : LF[s] = 0 /\ LG[s] = z
      BY <1>9, <2>1
    <3>2. CASE s = <<P, P>>
      BY <1>15, <3>1, <3>2, SlotForms
    <3>3. CASE \E j \in 0 .. P - 1 : s = <<j, P>>
      <4>1. PICK j \in 0 .. P - 1 : s = <<j, P>>
        BY <3>3
      <4>2. <<2, j>> \in Slot /\ F[<<2, j>>] = 0 /\ G[<<2, j>>] = z
        BY <1>15, <3>1, <4>1, SlotForms
      <4> QED
        BY <4>2
    <3>4. CASE \E j, k \in 0 .. P - 1 : s = <<j, k>>
      <4>1. PICK j \in 0 .. P - 1, k \in 0 .. P - 1 : s = <<j, k>>
        BY <3>4
      <4>2. <<2, j, k>> \in Slot /\ F[<<2, j, k>>] = 0 /\ G[<<2, j, k>>] = z
        BY <1>16, <3>1, <4>1, SlotForms
      <4> QED
        BY <4>2
    <3> QED
      BY <1>17, <3>2, <3>3, <3>4
  <2> QED
    BY <1>2, <1>3, <2>1 DEF Full
<1>36. ASSUME n <= D + P + P * P
       PROVE  /\ \A j \in 0 .. P - 1 : InUse(n, <<2, j>>) => j * P < m
              /\ \A j, i \in 0 .. P - 1 : InUse(n, <<2, j, i>>) => i < m - j * P
  <2>1. PICK b \in Nat : b = P * P
    OBVIOUS
  <2>2. n <= D + P + b
    BY <1>36, <2>1
  <2>3. m = n - D - P
    BY <1>6, <2>1, <2>2 DEF MinOf
  <2>4. \A j \in 0 .. P - 1 : InUse(n, <<2, j>>) => j * P < m
    BY <2>3 DEF InUse
  <2>5. \A j, i \in 0 .. P - 1 : InUse(n, <<2, j, i>>) => i < m - j * P
    BY <2>3 DEF InUse
  <2> QED
    BY <2>4, <2>5
<1>37. ASSUME ok, n <= D + P + P * P
       PROVE  /\ \A j \in 0 .. P - 1 : InUse(n, <<2, j>>) => G[<<2, j>>] # 0 /\ u.disk[G[<<2, j>>]].kind = "index"
              /\ \A j, i \in 0 .. P - 1 : InUse(n, <<2, j, i>>) => G[<<2, j, i>>] # 0
  <2>1. \A j \in 0 .. P - 1 : InUse(n, <<2, j>>) => G[<<2, j>>] # 0 /\ u.disk[G[<<2, j>>]].kind = "index"
    <3>1. \A j \in 0 .. P - 1 : InUse(n, <<2, j>>) => j * P < m
      BY <1>36, <1>37
    <3>2. \A j \in 0 .. P - 1 : j * P < m => LG[<<j, P>>] # 0 /\ u.disk[LG[<<j, P>>]].kind = "index"
      BY <1>9, <1>37
    <3>3. \A j \in 0 .. P - 1 : G[<<2, j>>] = LG[<<j, P>>]
      BY <1>15
    <3> QED
      BY ONLY <3>1, <3>2, <3>3
  <2>2. \A j, i \in 0 .. P - 1 : InUse(n, <<2, j, i>>) => j * P < m
    BY <1>36, <1>37, SlotsAbove
  <2>3. \A j, i \in 0 .. P - 1 : InUse(n, <<2, j, i>>) => G[<<2, j, i>>] # 0
    <3> TAKE j, i \in 0 .. P - 1
    <3>1. InUse(n, <<2, j, i>>) => j * P < m /\ i < m - j * P
      BY <1>36, <1>37, <2>2
    <3>2. j * P < m /\ i < m - j * P => LG[<<j, i>>] # 0
      BY <1>9, <1>37
    <3> QED
      BY <1>16, <3>1, <3>2
  <2> QED
    BY <2>1, <2>3
<1> QED
  BY <1>1, <1>3, <1>9, <1>34, <1>35, <1>37

\* What inode_reserve returns for a file of n blocks.
Complete(n, dsk, d) ==
  \A p : InUse(n, p) => Tree(dsk, d)[p] # 0 /\ (p \in IndexSlot => dsk[Tree(dsk, d)[p]].kind = "index")
Reserved(st, e, n, r, t) ==
  /\ Part(st, e, n, t, r.inode) /\ r.ok \in BOOLEAN
  /\ \/ r.st = t
     \/ \E bad \in BOOLEAN :
          /\ r.st = [t EXCEPT !.panicked = @ \cup Printed(bad, "inode_reserve")]
          /\ bad => n > D + P + P * P
  /\ r.ok => /\ \/ r.st = t
                \/ r.st = [t EXCEPT !.panicked = @ \cup Printed(FALSE, "inode_reserve")]
             /\ n <= D + P + P * P /\ Full(st, e, t, r.inode) /\ Complete(n, t.disk, r.inode)

\* Later blocks leave the earlier ones in place.
LEMMA PartKeeps ==
  ASSUME NEW u, NEW d, NEW n, NEW v, NEW f, Part(u, d, n, v, f), NEW p \in Slot, Tree(u.disk, d)[p] # 0
  PROVE  /\ Tree(v.disk, f)[p] = Tree(u.disk, d)[p]
         /\ p \in IndexSlot /\ u.disk[Tree(u.disk, d)[p]].kind = "index" =>
              v.disk[Tree(v.disk, f)[p]].kind = "index"
BY DEF Part, Grow

\* The first step of inode_reserve: the direct blocks.
LEMMA ReserveDirect ==
  ASSUME NEW st, NEW e, TreeReady(st, e), NEW n \in Nat, NEW r0, NEW d0,
         r0 = Fill(st, e.direct, MinOf(n, D)), d0 = [e EXCEPT !.direct = r0.ptr]
  PROVE  /\ Part(st, e, n, r0.st, d0) /\ r0.ok \in BOOLEAN
         /\ r0.ok => /\ Full(st, e, r0.st, d0)
                     /\ \A i \in 0 .. D - 1 : i < n => Tree(r0.st.disk, d0)[<<0, i>>] # 0
<1> USE SectorZero
<1>1. PICK ptr : ptr = e.direct
  OBVIOUS
<1>2. ptr \in [0 .. D - 1 -> Sector] /\ Ready(st)
  BY <1>1 DEF TreeReady, Inode
<1>3. PICK m \in 0 .. D : m = MinOf(n, D)
  BY DEF MinOf
<1>4. Filled(st, D, ptr, m, Fill(st, ptr, m))
  BY <1>2, FillEffect
<1>5. Filled(st, D, e.direct, MinOf(n, D), r0)
  BY <1>1, <1>3, <1>4
<1>6. r0.ok \in BOOLEAN
  BY <1>5 DEF Filled
<1> QED
  BY <1>5, <1>6, DirectPart

\* The second: the indirect block.
LEMMA ReserveIndirect ==
  ASSUME NEW st, NEW e, TreeReady(st, e), NEW n \in Nat, D < n, NEW r, NEW d,
         r = ReserveLevel1(st, e.indirect, MinOf(n - D, P)), d = [e EXCEPT !.indirect = r.entry]
  PROVE  /\ Part(st, e, n, r.st, d) /\ r.ok \in BOOLEAN
         /\ r.ok => /\ Full(st, e, r.st, d)
                    /\ r.entry # 0 /\ r.st.disk[r.entry].kind = "index"
                    /\ \A i \in 0 .. P - 1 : D + i < n => Tree(r.st.disk, d)[<<1, i>>] # 0
<1> USE SectorZero
<1>1. PICK x : x = e.indirect
  OBVIOUS
<1>2. PICK F : F = Tree(st.disk, e)
  OBVIOUS
<1>3. F[<<1>>] = x
  BY <1>1, <1>2, TreeHas DEF TreeShape
<1>4. x \in Sector /\ x \notin Available(st) /\ (x # 0 => st.disk[x] \in IndexNode) /\ Ready(st)
  BY <1>2, <1>3, SlotForms DEF TreeReady
<1>5. PICK m \in 1 .. P : m = MinOf(n - D, P)
  BY DEF MinOf
<1>6. BranchGrown(st, x, m, ReserveLevel1(st, x, m))
  BY <1>4, Level1Effect
<1>7. BranchGrown(st, e.indirect, MinOf(n - D, P), r)
  BY <1>1, <1>5, <1>6
<1>8. r.ok \in BOOLEAN
  BY <1>7 DEF BranchGrown
<1> QED
  BY <1>7, <1>8, Level1Part

\* The third: the doubly indirect block.
LEMMA ReserveDoubly ==
  ASSUME NEW st, NEW e, TreeReady(st, e), NEW n \in Nat, D + P < n, NEW r, NEW d,
         r = ReserveLevel2(st, e.doubly, MinOf(n - D - P, P * P)), d = [e EXCEPT !.doubly = r.entry]
  PROVE  /\ Part(st, e, n, r.st, d) /\ r.ok \in BOOLEAN
         /\ r.ok /\ n <= D + P + P * P =>
              /\ Full(st, e, r.st, d)
              /\ r.entry # 0 /\ r.st.disk[r.entry].kind = "index"
              /\ \A j \in 0 .. P - 1 : InUse(n, <<2, j>>) =>
                   LET x == Tree(r.st.disk, d)[<<2, j>>] IN x # 0 /\ r.st.disk[x].kind = "index"
              /\ \A j, i \in 0 .. P - 1 : InUse(n, <<2, j, i>>) => Tree(r.st.disk, d)[<<2, j, i>>] # 0
<1> USE SectorZero
<1>1. PICK x : x = e.doubly
  OBVIOUS
<1>2. LimbReady(st, x, Ptrs(st.disk, x)) /\ (x # 0 => st.disk[x] \in IndexNode)
  BY <1>1, TreeLimb
<1>3. PICK b \in Nat : b = P * P /\ 1 <= b
  <2>1. 0 \in 0 .. P - 1
    OBVIOUS
  <2>2. P * P \in Nat /\ 0 * P + 0 < P * P
    BY <2>1, Products
  <2>3. 0 * P + 0 = 0
    OBVIOUS
  <2>4. PICK b \in Nat : b = P * P
    BY <2>2
  <2>5. 1 <= b
    BY <2>2, <2>3, <2>4
  <2> QED
    BY <2>4, <2>5
<1>4. PICK m \in 1 .. b : m = MinOf(n - D - P, b)
  <2>1. PICK a \in Nat : a = n - D - P /\ 1 <= a
    OBVIOUS
  <2>2. MinOf(a, b) \in 1 .. b
    BY <1>3, <2>1 DEF MinOf
  <2> QED
    BY <2>1, <2>2
<1>5. m \in 1 .. P * P
  BY <1>3, <1>4
<1>6. LimbGrown(st, x, m, ReserveLevel2(st, x, m))
  BY <1>2, <1>5, Level2Effect
<1>7. LimbGrown(st, e.doubly, MinOf(n - D - P, P * P), r)
  BY <1>1, <1>3, <1>4, <1>6
<1>8. r.ok \in BOOLEAN
  BY <1>7 DEF LimbGrown
<1>9. TreeReady(st, e) /\ n \in Nat /\ D + P < n /\ d = [e EXCEPT !.doubly = r.entry]
  OBVIOUS
<1> QED
  BY ONLY <1>7, <1>8, <1>9, Level2Part

\* inode_reserve does what Reserved says, wherever it stops.
LEMMA ReserveEffect ==
  ASSUME NEW st, NEW e, TreeReady(st, e), NEW length \in Nat
  PROVE  \E t : Reserved(st, e, bytes_to_sectors(length), inode_reserve(st, e, length), t)
<1> DEFINE n == bytes_to_sectors(length)
<1>1. n \in Nat /\ D \in Nat \ {0} /\ P \in Nat \ {0}
  BY GeometryAssumption DEF bytes_to_sectors, DivRoundUp, D, P
<1>2. PICK r0, d0 : r0 = Fill(st, e.direct, MinOf(n, D)) /\ d0 = [e EXCEPT !.direct = r0.ptr]
  OBVIOUS
<1>3. PICK r1, d1 : /\ r1 = ReserveLevel1(r0.st, e.indirect, MinOf(n - D, P))
                    /\ d1 = [d0 EXCEPT !.indirect = r1.entry]
  OBVIOUS
<1>4. PICK r2, d2 : /\ r2 = ReserveLevel2(r1.st, d0.doubly, MinOf(n - D - P, P * P))
                    /\ d2 = [d1 EXCEPT !.doubly = r2.entry]
  OBVIOUS
<1>5. PICK u : u = [r2.st EXCEPT !.panicked =
                                  @ \cup Printed(r2.ok /\ n > D + P + P * P, "inode_reserve")]
  OBVIOUS
<1>6. PICK r : r = inode_reserve(st, e, length)
  OBVIOUS
<1>7. r = IF ~ r0.ok \/ n <= D THEN [st |-> r0.st, inode |-> d0, ok |-> r0.ok]
          ELSE IF ~ r1.ok \/ n <= D + P THEN [st |-> r1.st, inode |-> d1, ok |-> r1.ok]
          ELSE [st |-> u, inode |-> d2, ok |-> r2.ok /\ ~ (n > D + P + P * P)]
  BY <1>2, <1>3, <1>4, <1>5, <1>6, Zenon DEF inode_reserve
<1> HIDE DEF n
<1>8. /\ Part(st, e, n, r0.st, d0) /\ r0.ok \in BOOLEAN
      /\ r0.ok => /\ Full(st, e, r0.st, d0)
                  /\ \A i \in 0 .. D - 1 : i < n => Tree(r0.st.disk, d0)[<<0, i>>] # 0
  BY <1>1, <1>2, ReserveDirect
<1>9. TreeReady(r0.st, d0)
  BY <1>8 DEF Part
<1>10. e \in Inode /\ d0.indirect = e.indirect /\ d0.doubly = e.doubly
  BY <1>2 DEF TreeReady, Inode
<1>11. D < n =>
         /\ Part(r0.st, d0, n, r1.st, d1) /\ r1.ok \in BOOLEAN
         /\ r1.ok => /\ Full(r0.st, d0, r1.st, d1)
                     /\ r1.entry # 0 /\ r1.st.disk[r1.entry].kind = "index"
                     /\ \A i \in 0 .. P - 1 : D + i < n => Tree(r1.st.disk, d1)[<<1, i>>] # 0
  BY <1>1, <1>3, <1>9, <1>10, ReserveIndirect
<1>12. D < n => TreeReady(r1.st, d1)
  BY <1>11 DEF Part
<1>13. d0 \in Inode /\ d1.doubly = d0.doubly /\ d1.indirect = r1.entry
  BY <1>3, <1>9 DEF TreeReady, Inode
<1>14. D + P < n => D < n
  BY <1>1
<1>15. D + P < n =>
         /\ Part(r1.st, d1, n, r2.st, d2) /\ r2.ok \in BOOLEAN
         /\ r2.ok /\ n <= D + P + P * P =>
              /\ Full(r1.st, d1, r2.st, d2)
              /\ r2.entry # 0 /\ r2.st.disk[r2.entry].kind = "index"
              /\ \A j \in 0 .. P - 1 : InUse(n, <<2, j>>) =>
                   LET x == Tree(r2.st.disk, d2)[<<2, j>>] IN x # 0 /\ r2.st.disk[x].kind = "index"
              /\ \A j, i \in 0 .. P - 1 : InUse(n, <<2, j, i>>) => Tree(r2.st.disk, d2)[<<2, j, i>>] # 0
  <2>1. n \in Nat /\ (D + P < n => TreeReady(r1.st, d1))
    BY <1>1, <1>12, <1>14
  <2>2. /\ r2 = ReserveLevel2(r1.st, d1.doubly, MinOf(n - D - P, P * P))
        /\ d2 = [d1 EXCEPT !.doubly = r2.entry]
    BY <1>4, <1>13, <1>14
  <2> QED
    BY ONLY <2>1, <2>2, ReserveDoubly
<1>16. /\ D < n => Part(st, e, n, r1.st, d1)
       /\ D < n /\ r0.ok /\ r1.ok => Full(st, e, r1.st, d1)
  BY <1>8, <1>11, PartTrans
<1>17. /\ D + P < n => Part(st, e, n, r2.st, d2)
       /\ D + P < n /\ n <= D + P + P * P /\ r0.ok /\ r1.ok /\ r2.ok => Full(st, e, r2.st, d2)
  BY <1>14, <1>15, <1>16, PartTrans
<1>18. PICK G0, G1, G2 : G0 = Tree(r0.st.disk, d0) /\ G1 = Tree(r1.st.disk, d1) /\ G2 = Tree(r2.st.disk, d2)
  OBVIOUS
<1>19. D < n => \A p \in Slot : G0[p] # 0 => G1[p] = G0[p]
  BY <1>11, <1>18, PartKeeps
<1>20. D + P < n => \A p \in Slot : G1[p] # 0 => /\ G2[p] = G1[p]
                                                 /\ p \in IndexSlot /\ r1.st.disk[G1[p]].kind = "index" =>
                                                      r2.st.disk[G2[p]].kind = "index"
  BY <1>15, <1>18, PartKeeps
<1>21. D < n => G1[<<1>>] = r1.entry
  BY <1>13, <1>18, TreeHas DEF TreeShape
<1>22. G2[<<2>>] = r2.entry \/ ~ D + P < n
  <2>1. ASSUME D + P < n PROVE d2.doubly = r2.entry
    <3>1. d1 \in Inode
      BY <1>12, <1>14, <2>1 DEF TreeReady
    <3> QED
      BY <1>4, <3>1 DEF Inode
  <2> QED
    BY <1>18, <2>1, TreeHas DEF TreeShape
<1>23. PICK b \in Nat : b = P * P
  BY <1>1
<1>24. CASE ~ r0.ok \/ n <= D
  <2>1. r = [st |-> r0.st, inode |-> d0, ok |-> r0.ok]
    BY <1>7, <1>24
  <2>2. r.st = r0.st /\ r.inode = d0 /\ r.ok = r0.ok
    BY <2>1
  <2>3. r0.ok => n <= D /\ n <= D + P + P * P
    BY <1>1, <1>23, <1>24
  <2>4. \A p : n <= D /\ InUse(n, p) => p \notin IndexSlot /\ \E i \in 0 .. D - 1 : p = <<0, i>> /\ i < n
    <3>1. \A j \in 0 .. P - 1 : j * P \in Nat
      BY Products
    <3>2. \A j \in 0 .. P - 1 : n <= D => ~ j * P < n - D - P
      BY <1>1, <3>1
    <3>3. \A j, i \in 0 .. P - 1 : n <= D => ~ i < n - D - P - j * P
      BY <1>1, <3>1
    <3>4. \A i \in 0 .. P - 1 : n <= D => ~ D + i < n
      BY <1>1
    <3>5. n <= D => ~ D < n /\ ~ D + P < n
      BY <1>1
    <3> QED
      BY <3>2, <3>3, <3>4, <3>5, SlotForms DEF InUse
  <2>5. r0.ok => Complete(n, r0.st.disk, d0)
    BY <1>8, <2>3, <2>4 DEF Complete
  <2>6. Reserved(st, e, n, r, r0.st)
    BY <1>8, <2>2, <2>3, <2>5 DEF Reserved
  <2> QED
    BY <1>6, <2>6 DEF n
<1>25. CASE ~ (~ r0.ok \/ n <= D) /\ (~ r1.ok \/ n <= D + P)
  <2>0. D < n /\ r0.ok
    BY <1>1, <1>8, <1>25
  <2>1. r = [st |-> r1.st, inode |-> d1, ok |-> r1.ok]
    BY <1>7, <1>25
  <2>2. r.st = r1.st /\ r.inode = d1 /\ r.ok = r1.ok
    BY <2>1
  <2>3. r1.ok => n <= D + P /\ n <= D + P + P * P
    BY <1>1, <1>23, <1>25
  <2>4. \A p : n <= D + P /\ InUse(n, p) =>
          \/ p \notin IndexSlot /\ \E i \in 0 .. D - 1 : p = <<0, i>> /\ i < n
          \/ p = <<1>>
          \/ p \notin IndexSlot /\ \E i \in 0 .. P - 1 : p = <<1, i>> /\ D + i < n
    <3>1. \A j \in 0 .. P - 1 : j * P \in Nat
      BY Products
    <3>2. \A j \in 0 .. P - 1 : n <= D + P => ~ j * P < n - D - P
      BY <1>1, <3>1
    <3>3. \A j, i \in 0 .. P - 1 : n <= D + P => ~ i < n - D - P - j * P
      BY <1>1, <3>1
    <3>5. n <= D + P => ~ D + P < n
      BY <1>1
    <3> QED
      BY <3>2, <3>3, <3>5, SlotForms DEF InUse
  <2>5. r1.ok => Complete(n, r1.st.disk, d1)
    <3>1. \A i \in 0 .. D - 1 : i < n => G1[<<0, i>>] # 0
      BY <1>8, <1>18, <1>19, <2>0, SlotForms
    <3>2. r1.ok => G1[<<1>>] # 0 /\ r1.st.disk[G1[<<1>>]].kind = "index"
      BY <1>11, <1>21, <2>0
    <3>3. r1.ok => \A i \in 0 .. P - 1 : D + i < n => G1[<<1, i>>] # 0
      BY <1>11, <1>18, <2>0
    <3> QED
      BY <1>18, <2>3, <2>4, <3>1, <3>2, <3>3 DEF Complete
  <2>6. Reserved(st, e, n, r, r1.st)
    BY <1>11, <1>16, <2>0, <2>2, <2>3, <2>5 DEF Reserved
  <2> QED
    BY <1>6, <2>6 DEF n
<1>26. CASE ~ (~ r0.ok \/ n <= D) /\ ~ (~ r1.ok \/ n <= D + P)
  <2>0. D < n /\ D + P < n /\ r0.ok /\ r1.ok
    BY <1>1, <1>8, <1>11, <1>26
  <2>1. r = [st |-> u, inode |-> d2, ok |-> r2.ok /\ ~ (n > D + P + P * P)]
    BY <1>7, <1>26
  <2>2. r.st = u /\ r.inode = d2 /\ r.ok = (r2.ok /\ ~ (n > D + P + P * P))
    BY <2>1
  <2>3. r.ok \in BOOLEAN /\ (r.ok => r2.ok /\ n <= D + P + P * P)
    <3>1. r2.ok \in BOOLEAN /\ (n > D + P + b <=> ~ n <= D + P + b)
      BY <1>1, <1>15, <1>23, <2>0
    <3>2. n > D + P + P * P <=> ~ n <= D + P + P * P
      BY <1>23, <3>1
    <3>3. \A x, y : x \in BOOLEAN => (x /\ ~ y) \in BOOLEAN
      OBVIOUS
    <3>4. r.ok \in BOOLEAN
      BY <2>2, <3>1, <3>3
    <3>5. r.ok => r2.ok /\ ~ n > D + P + P * P
      BY <2>2
    <3> QED
      BY <3>2, <3>4, <3>5
  <2>4. Part(st, e, n, r2.st, r.inode)
    BY <1>17, <2>0, <2>2
  <2>5. \E bad \in BOOLEAN :
          /\ r.st = [r2.st EXCEPT !.panicked = @ \cup Printed(bad, "inode_reserve")]
          /\ bad => n > D + P + P * P
    <3>1. PICK bad \in BOOLEAN : bad = (r2.ok /\ n > D + P + P * P)
      OBVIOUS
    <3>2. r.st = [r2.st EXCEPT !.panicked = @ \cup Printed(bad, "inode_reserve")]
      BY <1>5, <2>2, <3>1
    <3> QED
      BY <3>1, <3>2
  <2>6. r.ok => r.st = [r2.st EXCEPT !.panicked = @ \cup Printed(FALSE, "inode_reserve")]
    <3>1. SUFFICES ASSUME r.ok
                   PROVE  r.st = [r2.st EXCEPT !.panicked = @ \cup Printed(FALSE, "inode_reserve")]
      OBVIOUS
    <3>2. (r2.ok /\ n > D + P + P * P) = FALSE
      BY <2>2, <3>1
    <3> QED
      BY <1>5, <2>2, <3>2
  <2>7. ASSUME r.ok
        PROVE  Complete(n, r2.st.disk, d2)
    <3>1. \A i \in 0 .. D - 1 : i < n => G1[<<0, i>>] # 0
      BY <1>8, <1>18, <1>19, <2>0, SlotForms
    <3>2. \A i \in 0 .. D - 1 : i < n => G2[<<0, i>>] # 0
      BY <1>20, <2>0, <3>1, SlotForms
    <3>3. G1[<<1>>] # 0 /\ r1.st.disk[G1[<<1>>]].kind = "index"
      BY <1>11, <1>21, <2>0
    <3>4. G2[<<1>>] # 0 /\ r2.st.disk[G2[<<1>>]].kind = "index"
      BY <1>20, <2>0, <3>3, SlotForms
    <3>5. \A i \in 0 .. P - 1 : D + i < n => G1[<<1, i>>] # 0
      BY <1>11, <1>18, <2>0
    <3>6. \A i \in 0 .. P - 1 : D + i < n => G2[<<1, i>>] # 0
      BY <1>20, <2>0, <3>5, SlotForms
    <3>7. G2[<<2>>] # 0 /\ r2.st.disk[G2[<<2>>]].kind = "index"
      BY <1>15, <1>22, <2>0, <2>3, <2>7
    <3>8. \A j \in 0 .. P - 1 : InUse(n, <<2, j>>) => G2[<<2, j>>] # 0 /\ r2.st.disk[G2[<<2, j>>]].kind = "index"
      BY <1>15, <1>18, <2>0, <2>3, <2>7
    <3>9. \A j, i \in 0 .. P - 1 : InUse(n, <<2, j, i>>) => G2[<<2, j, i>>] # 0
      BY <1>15, <1>18, <2>0, <2>3, <2>7
    <3>10. ASSUME NEW p, InUse(n, p)
           PROVE  G2[p] # 0 /\ (p \in IndexSlot => r2.st.disk[G2[p]].kind = "index")
      <4>1. CASE \E i \in 0 .. D - 1 : p = <<0, i>> /\ i < n
        BY <3>2, <4>1, SlotForms
      <4>2. CASE p = <<1>> \/ p = <<2>>
        BY <3>4, <3>7, <4>2
      <4>3. CASE \E i \in 0 .. P - 1 : p = <<1, i>> /\ D + i < n
        BY <3>6, <4>3, SlotForms
      <4>4. CASE \E j \in 0 .. P - 1 : p = <<2, j>>
        BY <3>8, <3>10, <4>4
      <4>5. CASE \E j \in 0 .. P - 1, i \in 0 .. P - 1 : p = <<2, j, i>>
        BY <3>9, <3>10, <4>5, SlotForms
      <4> QED
        BY <3>10, <4>1, <4>2, <4>3, <4>4, <4>5 DEF InUse
    <3> QED
      BY <1>18, <3>10 DEF Complete
  <2>8. r.ok => Full(st, e, r2.st, r.inode)
    BY <1>17, <2>0, <2>2, <2>3
  <2>9. Reserved(st, e, n, r, r2.st)
    BY <2>2, <2>3, <2>4, <2>5, <2>6, <2>7, <2>8 DEF Reserved
  <2> QED
    BY <1>6, <2>9 DEF n
<1> QED
  BY <1>24, <1>25, <1>26

-----------------------------------------------------------------------------
(* What holds of the files between commands.                                *)

\* The sectors found from inode e, in sector s, of file n: they belong to the
\* bitmap and not to the system, none is reached twice, and each holds what its
\* place calls for.
TreeOK(dsk, n, s, e) ==
  LET T == Tree(dsk, e)
  IN  /\ \A p \in Slot : T[p] # 0 => T[p] \in Bits \ (SystemSectors \cup {s})
      /\ \A p, q \in Slot : T[p] # 0 /\ T[q] = T[p] => q = p
      /\ \A p \in IndexSlot : T[p] # 0 => dsk[T[p]] \in IndexNode
      /\ \A p \in DataSlot : T[p] # 0 => dsk[T[p]] \in {Zeros, Data(n)}

\* The blocks up to the length of inode d are there.
LengthOK(dsk, d) ==
  LET n == bytes_to_sectors(d.length)
      T == Tree(dsk, d)
  IN  /\ n <= D + P + P * P
      /\ \A p \in Slots(n) : T[p] # 0 /\ (p \in IndexSlot => dsk[T[p]].kind = "index")

\* File n with its inode in sector s; e is the inode that commands use.
FileIn(dsk, n, s, e) ==
  /\ s \in Bits \ SystemSectors /\ dsk[s] \in Inode /\ e \in Inode
  /\ InodeLeq(dsk[s], e) /\ dsk[s].length = e.length
  /\ TreeOK(dsk, n, s, e) /\ LengthOK(dsk, dsk[s])

\* The sectors found from it.
OwnAt(dsk, s, e) == {s} \cup ({Tree(dsk, e)[p] : p \in Slot} \ {0})

FilesIn(st) == {n \in Entry : st.dir[n] # 0}
FileOK(st, n) == FileIn(st.disk, n, st.dir[n], inode_open(st, st.dir[n]))
Own(st, n) == OwnAt(st.disk, st.dir[n], inode_open(st, st.dir[n]))

TypesIn(st) ==
  /\ IsState(st)
  /\ st.disk \in [Sector -> Block]
  /\ st.map \subseteq Bits /\ st.saved \subseteq Bits
  /\ st.dir \in [Entry -> Bits]
  /\ st.table \subseteq FilesIn(st) /\ st.stale = {}
  /\ DOMAIN st.open = {st.dir[n] : n \in st.table}
  /\ st.panicked \in SUBSET Message /\ st.status \in {"ok", "error"}

\* mf is map_file: once the free map is lost there is no inode in sector 0 to
\* read it from.
MapIn(mf, st) ==
  /\ mf => SystemSectors \subseteq st.map /\ st.saved = st.map
  /\ st.disk[0] \in {free_map_create, Zeros}
  /\ ~ mf => st.disk[0] = Zeros

OK(mf, st) ==
  /\ TypesIn(st) /\ MapIn(mf, st)
  /\ \A n \in FilesIn(st) : FileOK(st, n) /\ (mf => Own(st, n) \subseteq st.map)
  /\ \A n, m \in FilesIn(st) : n # m => Own(st, n) \cap Own(st, m) = {}

\* The blocks up to the length, slot by slot.
LEMMA LengthComplete ==
  ASSUME NEW dsk, NEW d \in Inode, NEW n, n = bytes_to_sectors(d.length)
  PROVE  /\ n \in Nat
         /\ LengthOK(dsk, d) <=> n <= D + P + P * P /\ Complete(n, dsk, d)
<1>1. n \in Nat
  <2>1. d.length \in Nat
    BY DEF Inode
  <2>2. BLOCK_SECTOR_SIZE \in Nat \ {0}
    BY GeometryAssumption
  <2> QED
    BY <2>1, <2>2, RoundUp DEF bytes_to_sectors, DivRoundUp
<1>2. n <= D + P + P * P => \A p : p \in Slots(n) <=> InUse(n, p)
  BY <1>1, SlotsChar
<1> QED
  BY <1>1, <1>2 DEF LengthOK, Complete

\* An inode that has the blocks up to a length has them in every inode with more.
LEMMA CompleteUp ==
  ASSUME NEW n \in Nat, NEW dsk, NEW d, NEW dsk2, NEW f, InodeLeq(d, f),
         \A p : InUse(n, p) => Tree(dsk, d)[p] # 0, NEW p, InUse(n, p)
  PROVE  Tree(dsk2, d)[p] = Tree(dsk2, f)[p]
<1>1. PICK F : F = Tree(dsk, d)
  OBVIOUS
<1>2. PICK G : G = Tree(dsk2, d)
  OBVIOUS
<1>3. PICK H : H = Tree(dsk2, f)
  OBVIOUS
<1>4. TreeShape(F, dsk, d) /\ TreeShape(G, dsk2, d) /\ TreeShape(H, dsk2, f)
  BY <1>1, <1>2, <1>3, TreeHas
<1>5. /\ \A i \in 0 .. D - 1 : F[<<0, i>>] = d.direct[i] /\ G[<<0, i>>] = d.direct[i] /\ H[<<0, i>>] = f.direct[i]
  BY <1>4 DEF TreeShape
<1>6. /\ F[<<1>>] = d.indirect /\ G[<<1>>] = d.indirect /\ H[<<1>>] = f.indirect
      /\ F[<<2>>] = d.doubly /\ G[<<2>>] = d.doubly /\ H[<<2>>] = f.doubly
  BY <1>4 DEF TreeShape
<1>7. d.indirect = f.indirect => \A i \in 0 .. P - 1 : G[<<1, i>>] = H[<<1, i>>]
  <2>1. \A i \in 0 .. P - 1 : G[<<1, i>>] = Ptrs(dsk2, d.indirect)[i]
    BY <1>4 DEF TreeShape
  <2>2. \A i \in 0 .. P - 1 : H[<<1, i>>] = Ptrs(dsk2, f.indirect)[i]
    BY <1>4 DEF TreeShape
  <2> QED
    BY <2>1, <2>2
<1>8. d.doubly = f.doubly => \A j \in 0 .. P - 1 : G[<<2, j>>] = H[<<2, j>>]
  <2>1. \A j \in 0 .. P - 1 : G[<<2, j>>] = Ptrs(dsk2, d.doubly)[j]
    BY <1>4 DEF TreeShape
  <2>2. \A j \in 0 .. P - 1 : H[<<2, j>>] = Ptrs(dsk2, f.doubly)[j]
    BY <1>4 DEF TreeShape
  <2> QED
    BY <2>1, <2>2
<1>9. d.doubly = f.doubly => \A j \in 0 .. P - 1, i \in 0 .. P - 1 : G[<<2, j, i>>] = H[<<2, j, i>>]
  <2>1. \A j \in 0 .. P - 1, i \in 0 .. P - 1 : G[<<2, j, i>>] = Ptrs(dsk2, Ptrs(dsk2, d.doubly)[j])[i]
    BY <1>4 DEF TreeShape
  <2>2. \A j \in 0 .. P - 1, i \in 0 .. P - 1 : H[<<2, j, i>>] = Ptrs(dsk2, Ptrs(dsk2, f.doubly)[j])[i]
    BY <1>4 DEF TreeShape
  <2>3. ASSUME d.doubly = f.doubly, NEW j \in 0 .. P - 1, NEW i \in 0 .. P - 1
        PROVE  G[<<2, j, i>>] = H[<<2, j, i>>]
    <3>1. PICK y : y = Ptrs(dsk2, d.doubly) /\ y = Ptrs(dsk2, f.doubly)
      BY <2>3
    <3>2. PICK z : z = Ptrs(dsk2, y[j])[i]
      OBVIOUS
    <3>3. G[<<2, j, i>>] = z
      BY <2>1, <3>1, <3>2
    <3>4. H[<<2, j, i>>] = z
      BY <2>2, <3>1, <3>2
    <3> QED
      BY <3>3, <3>4
  <2> QED
    BY <2>3
<1>10. /\ \A i \in 0 .. D - 1 : d.direct[i] # 0 => f.direct[i] = d.direct[i]
       /\ d.indirect # 0 => f.indirect = d.indirect
       /\ d.doubly # 0 => f.doubly = d.doubly
  BY DEF InodeLeq
<1>11. \A q : InUse(n, q) => F[q] # 0
  BY <1>1
<1>12. CASE \E i \in 0 .. D - 1 : p = <<0, i>>
  BY <1>2, <1>3, <1>5, <1>10, <1>11, <1>12
<1>13. CASE p = <<1>> \/ p = <<2>>
  BY <1>2, <1>3, <1>6, <1>10, <1>11, <1>13
<1>14. CASE \E i \in 0 .. P - 1 : p = <<1, i>>
  <2>1. InUse(n, <<1>>)
    BY <1>14, SlotsAbove
  <2> QED
    BY <1>2, <1>3, <1>6, <1>7, <1>10, <1>11, <1>14, <2>1
<1>15. CASE \E j \in 0 .. P - 1 : p = <<2, j>>
  <2>1. InUse(n, <<2>>)
    BY <1>15, SlotsAbove
  <2> QED
    BY <1>2, <1>3, <1>6, <1>8, <1>10, <1>11, <1>15, <2>1
<1>16. CASE \E j \in 0 .. P - 1, i \in 0 .. P - 1 : p = <<2, j, i>>
  <2>1. InUse(n, <<2>>)
    BY <1>16, SlotsAbove
  <2> QED
    BY <1>2, <1>3, <1>6, <1>9, <1>10, <1>11, <1>16, <2>1
<1> QED
  BY <1>12, <1>13, <1>14, <1>15, <1>16 DEF InUse

\* The blocks up to the length of a file are those of its inode in memory too.
LEMMA FileAgrees ==
  ASSUME NEW dsk, NEW n, NEW s, NEW e, FileIn(dsk, n, s, e), NEW b, b = bytes_to_sectors(e.length)
  PROVE  /\ b \in Nat /\ b <= D + P + P * P
         /\ \A p : InUse(b, p) => /\ p \in Slot
                                  /\ Tree(dsk, e)[p] = Tree(dsk, dsk[s])[p] /\ Tree(dsk, e)[p] # 0
                                  /\ p \in IndexSlot => dsk[Tree(dsk, e)[p]].kind = "index"
<1>1. PICK d \in Inode : d = dsk[s] /\ InodeLeq(d, e) /\ d.length = e.length /\ LengthOK(dsk, d)
  BY DEF FileIn
<1>2. b \in Nat /\ b <= D + P + P * P /\ Complete(b, dsk, d)
  BY <1>1, LengthComplete
<1>3. \A p : InUse(b, p) => p \in Slot
  BY SlotForms DEF InUse
<1>4. \A p : InUse(b, p) => Tree(dsk, d)[p] # 0 /\ (p \in IndexSlot => dsk[Tree(dsk, d)[p]].kind = "index")
  BY <1>2 DEF Complete
<1>5. \A p : InUse(b, p) => Tree(dsk, e)[p] = Tree(dsk, d)[p]
  BY <1>1, <1>3, <1>4, LeqTree
<1> QED
  BY <1>1, <1>2, <1>3, <1>4, <1>5

\* A tree depends on the pointers of its inode only.
LEMMA TreeSame ==
  ASSUME NEW dsk, NEW e, NEW f,
         f.direct = e.direct, f.indirect = e.indirect, f.doubly = e.doubly
  PROVE  Tree(dsk, f) = Tree(dsk, e)
BY DEF Tree, Node

\* A place holds an index block or a block of data.
LEMMA SlotParts ==
  /\ IndexSlot \subseteq Slot /\ DataSlot \subseteq Slot /\ Slot = IndexSlot \cup DataSlot
  /\ \A p \in Slot : ~ (p \in IndexSlot /\ p \in DataSlot)
<1>1. \A p \in Slot : ~ (p \in IndexSlot /\ p \in DataSlot)
  BY SlotForms
<1> QED
  BY <1>1 DEF Slot

\* A file stays as it is when its inode and its index blocks are left alone and its
\* blocks hold bytes of it.
LEMMA FileFrame ==
  ASSUME NEW dsk, NEW n, NEW s, NEW e, FileIn(dsk, n, s, e), NEW dsk2, dsk2[s] = dsk[s],
         \A p \in IndexSlot : Tree(dsk, e)[p] # 0 => dsk2[Tree(dsk, e)[p]] = dsk[Tree(dsk, e)[p]],
         \A p \in DataSlot : Tree(dsk, e)[p] # 0 => dsk2[Tree(dsk, e)[p]] \in {Zeros, Data(n)}
  PROVE  FileIn(dsk2, n, s, e) /\ OwnAt(dsk2, s, e) = OwnAt(dsk, s, e)
<1>1. PICK T : T = Tree(dsk, e)
  OBVIOUS
<1>2. Tree(dsk2, e) = T
  BY <1>1, TreeFrame
<1>3. \A p \in IndexSlot : T[p] # 0 => dsk2[T[p]] = dsk[T[p]]
  BY <1>1
<1>4. TreeOK(dsk2, n, s, e)
  <2>1. TreeOK(dsk, n, s, e)
    BY DEF FileIn
  <2>2. /\ \A p \in Slot : T[p] # 0 => T[p] \in Bits \ (SystemSectors \cup {s})
        /\ \A p, q \in Slot : T[p] # 0 /\ T[q] = T[p] => q = p
        /\ \A p \in IndexSlot : T[p] # 0 => dsk[T[p]] \in IndexNode
    BY <1>1, <2>1 DEF TreeOK
  <2>3. \A p \in IndexSlot : T[p] # 0 => dsk2[T[p]] \in IndexNode
    BY <1>3, <2>2
  <2>4. \A p \in DataSlot : T[p] # 0 => dsk2[T[p]] \in {Zeros, Data(n)}
    BY <1>1
  <2> QED
    BY <1>2, <2>2, <2>3, <2>4 DEF TreeOK
<1>5. PICK d \in Inode : d = dsk[s] /\ d = dsk2[s] /\ InodeLeq(d, e) /\ LengthOK(dsk, d)
  BY DEF FileIn
<1>6. PICK b \in Nat : b = bytes_to_sectors(d.length) /\ b <= D + P + P * P /\ Complete(b, dsk, d)
  BY <1>5, LengthComplete
<1>7. PICK U : U = Tree(dsk, d)
  OBVIOUS
<1>8. \A p \in IndexSlot : U[p] # 0 => U[p] = T[p]
  BY <1>1, <1>5, <1>7, LeqTree, SlotParts
<1>9. \A p \in IndexSlot : U[p] # 0 => dsk2[U[p]] = dsk[U[p]]
  BY <1>3, <1>8
<1>10. Tree(dsk2, d) = U
  BY <1>7, <1>9, TreeFrame
<1>11. Complete(b, dsk2, d)
  <2>1. \A p : InUse(b, p) => U[p] # 0 /\ (p \in IndexSlot => dsk[U[p]].kind = "index")
    BY <1>6, <1>7 DEF Complete
  <2>2. \A p : InUse(b, p) => U[p] # 0 /\ (p \in IndexSlot => dsk2[U[p]].kind = "index")
    BY <1>9, <2>1
  <2> QED
    BY <1>10, <2>2 DEF Complete
<1>12. LengthOK(dsk2, d)
  BY <1>6, <1>11, LengthComplete
<1>13. FileIn(dsk2, n, s, e)
  BY <1>4, <1>5, <1>12 DEF FileIn
<1>14. OwnAt(dsk2, s, e) = OwnAt(dsk, s, e)
  BY <1>1, <1>2 DEF OwnAt
<1> QED
  BY <1>13, <1>14

\* A file of which no sector is written stays as it is.
LEMMA FileUntouched ==
  ASSUME NEW dsk, NEW n, NEW s, NEW e, FileIn(dsk, n, s, e), NEW dsk2,
         \A x \in OwnAt(dsk, s, e) : dsk2[x] = dsk[x]
  PROVE  FileIn(dsk2, n, s, e) /\ OwnAt(dsk2, s, e) = OwnAt(dsk, s, e)
<1>1. PICK T : T = Tree(dsk, e)
  OBVIOUS
<1>2. dsk2[s] = dsk[s] /\ \A p \in Slot : T[p] # 0 => dsk2[T[p]] = dsk[T[p]]
  BY <1>1 DEF OwnAt
<1>3. \A p \in DataSlot : T[p] # 0 => dsk[T[p]] \in {Zeros, Data(n)}
  BY <1>1 DEF FileIn, TreeOK
<1> QED
  BY <1>1, <1>2, <1>3, SlotParts, FileFrame

\* An inode read from the disk again is one with fewer pointers.
LEMMA FileClosed ==
  ASSUME NEW dsk, NEW n, NEW s, NEW e, FileIn(dsk, n, s, e)
  PROVE  FileIn(dsk, n, s, dsk[s]) /\ OwnAt(dsk, s, dsk[s]) \subseteq OwnAt(dsk, s, e)
<1>1. PICK T : T = Tree(dsk, e)
  OBVIOUS
<1>2. PICK d \in Inode : d = dsk[s] /\ InodeLeq(d, e) /\ LengthOK(dsk, d)
  BY DEF FileIn
<1>3. PICK U : U = Tree(dsk, d)
  OBVIOUS
<1>4. \A p \in Slot : U[p] # 0 => U[p] = T[p]
  BY <1>1, <1>2, <1>3, LeqTree
<1>5. /\ \A p \in Slot : T[p] # 0 => T[p] \in Bits \ (SystemSectors \cup {s})
      /\ \A p, q \in Slot : T[p] # 0 /\ T[q] = T[p] => q = p
      /\ \A p \in IndexSlot : T[p] # 0 => dsk[T[p]] \in IndexNode
      /\ \A p \in DataSlot : T[p] # 0 => dsk[T[p]] \in {Zeros, Data(n)}
  BY <1>1 DEF FileIn, TreeOK
<1>6. \A p, q \in Slot : U[p] # 0 /\ U[q] = U[p] => q = p
  BY <1>4, <1>5
<1>7. TreeOK(dsk, n, s, d)
  BY <1>3, <1>4, <1>5, <1>6, SlotParts DEF TreeOK
<1>8. InodeLeq(d, d)
  BY DEF InodeLeq
<1>9. FileIn(dsk, n, s, dsk[s])
  BY <1>2, <1>7, <1>8 DEF FileIn
<1>10. OwnAt(dsk, s, dsk[s]) \subseteq OwnAt(dsk, s, e)
  BY <1>1, <1>2, <1>3, <1>4 DEF OwnAt
<1> QED
  BY <1>9, <1>10

\* Giving blocks to a file leaves its sectors its own.
LEMMA PartTree ==
  ASSUME NEW st, NEW n, NEW s, NEW e, TreeReady(st, e), TreeOK(st.disk, n, s, e),
         s \in Bits \ SystemSectors, (SystemSectors \cup {s}) \cap Available(st) = {},
         NEW m, NEW t, NEW f, Part(st, e, m, t, f)
  PROVE  /\ TreeOK(t.disk, n, s, f) /\ t.disk[s] = st.disk[s]
         /\ OwnAt(t.disk, s, f) \subseteq OwnAt(st.disk, s, e) \cup (t.map \ st.map)
<1>1. PICK F : F = Tree(st.disk, e)
  OBVIOUS
<1>2. PICK G : G = Tree(t.disk, f)
  OBVIOUS
<1>3. /\ \A p \in Slot : F[p] # 0 => F[p] \in Bits \ (SystemSectors \cup {s})
      /\ \A p, q \in Slot : F[p] # 0 /\ F[q] = F[p] => q = p
      /\ \A p \in DataSlot : F[p] # 0 => st.disk[F[p]] \in {Zeros, Data(n)}
  BY <1>1 DEF TreeOK
<1>4. /\ Alloc(st, t, Indices(st.disk, e)) /\ TreeReady(t, f) /\ Grow(Slot, st.map, F, t.map, G)
      /\ \A p \in DataSlot : F[p] = 0 /\ G[p] # 0 => t.disk[G[p]] = Zeros
  BY <1>1, <1>2 DEF Part
<1>5. \A p \in Slot : /\ F[p] # 0 => G[p] = F[p]
                      /\ F[p] = 0 /\ G[p] # 0 => G[p] \in t.map \ st.map
  BY <1>4 DEF Grow
<1>6. t.map \ st.map \subseteq Available(st) /\ t.map \subseteq Bits
  BY <1>4 DEF Alloc, Ready
<1>7. \A p \in Slot : G[p] # 0 => G[p] \in Bits \ (SystemSectors \cup {s})
  BY <1>3, <1>5, <1>6
<1>8. /\ \A p, q \in Slot : G[p] # 0 /\ G[q] = G[p] => q = p
      /\ \A p \in IndexSlot : G[p] # 0 => t.disk[G[p]] \in IndexNode
  BY <1>2, <1>4 DEF TreeReady
<1>9. ASSUME NEW p \in DataSlot, G[p] # 0
      PROVE  t.disk[G[p]] \in {Zeros, Data(n)}
  <2>1. CASE F[p] = 0
    BY <1>4, <1>9, <2>1
  <2>2. CASE F[p] # 0
    <3>1. F[p] \notin Indices(st.disk, e)
      BY <1>1, <1>3, <2>2, SlotParts DEF Indices
    <3>2. t.disk[F[p]] = st.disk[F[p]]
      BY <1>1, <1>4, <2>2, <3>1, KeptSectors, SlotParts
    <3> QED
      BY <1>3, <1>5, <2>2, <3>2, SlotParts
  <2> QED
    BY <2>1, <2>2
<1>10. TreeOK(t.disk, n, s, f)
  BY <1>2, <1>7, <1>8, <1>9 DEF TreeOK
<1>11. t.disk[s] = st.disk[s]
  <2>1. s \in Sector /\ s # 0
    BY BitsFinite, GeometryAssumption DEF SystemSectors
  <2>2. s \notin Indices(st.disk, e)
    BY <1>1, <1>3, <2>1, SlotParts DEF Indices
  <2>3. s \notin t.map \ st.map
    BY <1>6
  <2> QED
    BY <1>4, <2>1, <2>2, <2>3 DEF Alloc
<1>12. OwnAt(t.disk, s, f) \subseteq OwnAt(st.disk, s, e) \cup (t.map \ st.map)
  BY ONLY <1>1, <1>2, <1>5 DEF OwnAt
<1> QED
  BY <1>10, <1>11, <1>12

\* A file keeps its length when blocks found for a longer one are not written back.
LEMMA FileExtended ==
  ASSUME NEW st, NEW n, NEW s, NEW e, TreeReady(st, e), FileIn(st.disk, n, s, e),
         (SystemSectors \cup {s}) \cap Available(st) = {},
         NEW m, NEW t, NEW f, Part(st, e, m, t, f)
  PROVE  FileIn(t.disk, n, s, f)
<1>1. s \in Bits \ SystemSectors /\ TreeOK(st.disk, n, s, e)
  BY DEF FileIn
<1>2. TreeOK(t.disk, n, s, f) /\ t.disk[s] = st.disk[s]
  BY <1>1, PartTree
<1>3. PICK d \in Inode : d = st.disk[s] /\ d = t.disk[s] /\ InodeLeq(d, e) /\ d.length = e.length /\ LengthOK(st.disk, d)
  BY <1>2 DEF FileIn
<1>4. f \in Inode /\ InodeLeq(e, f) /\ f.length = e.length
  BY DEF Part, TreeReady
<1>5. InodeLeq(d, f)
  BY <1>3, <1>4 DEF InodeLeq
<1>6. PICK b \in Nat : b = bytes_to_sectors(d.length) /\ b <= D + P + P * P /\ Complete(b, st.disk, d)
  BY <1>3, LengthComplete
<1>7. \A p : InUse(b, p) => /\ p \in Slot /\ Tree(st.disk, d)[p] # 0
                            /\ Tree(st.disk, e)[p] = Tree(st.disk, d)[p] /\ Tree(st.disk, e)[p] # 0
                            /\ p \in IndexSlot => st.disk[Tree(st.disk, e)[p]].kind = "index"
  <2>1. b = bytes_to_sectors(e.length)
    BY <1>3, <1>6
  <2>2. Tree(st.disk, st.disk[s]) = Tree(st.disk, d)
    BY <1>3
  <2>3. \A p : InUse(b, p) => /\ p \in Slot
                              /\ Tree(st.disk, e)[p] = Tree(st.disk, st.disk[s])[p] /\ Tree(st.disk, e)[p] # 0
                              /\ p \in IndexSlot => st.disk[Tree(st.disk, e)[p]].kind = "index"
    BY <2>1, FileAgrees
  <2> QED
    BY <2>2, <2>3
<1>8. \A p : InUse(b, p) => /\ Tree(t.disk, f)[p] # 0
                            /\ p \in IndexSlot => t.disk[Tree(t.disk, f)[p]].kind = "index"
  BY <1>7, PartKeeps
<1>9. \A p : InUse(b, p) => Tree(t.disk, d)[p] = Tree(t.disk, f)[p]
  BY <1>5, <1>7, CompleteUp
<1>10. Complete(b, t.disk, d)
  BY <1>8, <1>9 DEF Complete
<1>11. LengthOK(t.disk, d)
  BY <1>6, <1>10, LengthComplete
<1> QED
  BY <1>1, <1>2, <1>3, <1>4, <1>5, <1>11 DEF FileIn

\* An inode with all its blocks is written to its sector.
LEMMA FileWritten ==
  ASSUME NEW dsk, NEW n, NEW s, s \in Bits \ SystemSectors, NEW f, TreeOK(dsk, n, s, f),
         NEW e \in Inode, e.direct = f.direct, e.indirect = f.indirect, e.doubly = f.doubly,
         NEW b, b = bytes_to_sectors(e.length), b <= D + P + P * P, Complete(b, dsk, f),
         NEW dsk2, dsk2[s] = e, \A x \in Sector : x # s => dsk2[x] = dsk[x]
  PROVE  FileIn(dsk2, n, s, e) /\ OwnAt(dsk2, s, e) = OwnAt(dsk, s, f)
<1>1. PICK T : T = Tree(dsk, f) /\ T = Tree(dsk, e)
  BY TreeSame
<1>2. /\ \A p \in Slot : T[p] # 0 => T[p] \in Bits \ (SystemSectors \cup {s})
      /\ \A p, q \in Slot : T[p] # 0 /\ T[q] = T[p] => q = p
      /\ \A p \in IndexSlot : T[p] # 0 => dsk[T[p]] \in IndexNode
      /\ \A p \in DataSlot : T[p] # 0 => dsk[T[p]] \in {Zeros, Data(n)}
  BY <1>1 DEF TreeOK
<1>3. \A p \in Slot : T[p] # 0 => dsk2[T[p]] = dsk[T[p]]
  BY <1>2, BitsFinite
<1>4. Tree(dsk2, e) = T
  BY <1>1, <1>3, TreeFrame, SlotParts
<1>5. TreeOK(dsk2, n, s, e)
  BY <1>2, <1>3, <1>4, SlotParts DEF TreeOK
<1>6. \A p : InUse(b, p) => p \in Slot
  BY SlotForms DEF InUse
<1>7. Complete(b, dsk2, e)
  <2>1. \A p : InUse(b, p) => T[p] # 0 /\ (p \in IndexSlot => dsk[T[p]].kind = "index")
    BY <1>1 DEF Complete
  <2>2. \A p : InUse(b, p) => T[p] # 0 /\ (p \in IndexSlot => dsk2[T[p]].kind = "index")
    BY <1>3, <1>6, <2>1
  <2> QED
    BY <1>4, <2>2 DEF Complete
<1>8. LengthOK(dsk2, e)
  BY <1>7, LengthComplete
<1>9. InodeLeq(e, e)
  BY DEF InodeLeq
<1>10. FileIn(dsk2, n, s, e)
  BY <1>5, <1>8, <1>9 DEF FileIn
<1> QED
  BY <1>1, <1>4, <1>10 DEF OwnAt

-----------------------------------------------------------------------------
(* The commands keep the files.                                             *)

\* A command that changes file n only.
Others(mf, st, u, n) ==
  /\ FilesIn(u) \subseteq FilesIn(st) \cup {n}
  /\ \A m \in FilesIn(u) : m # n =>
       /\ u.dir[m] = st.dir[m] /\ inode_open(u, st.dir[m]) = inode_open(st, st.dir[m])
       /\ \A x \in Own(st, m) : u.disk[x] = st.disk[x]
       /\ mf => Own(st, m) \subseteq u.map
This(mf, st, u, n) ==
  n \in FilesIn(u) =>
    /\ FileOK(u, n) /\ (mf => Own(u, n) \subseteq u.map)
    /\ \A m \in FilesIn(st) : m # n => Own(u, n) \cap Own(st, m) = {}

\* A command that changes one file, and sectors that were free, keeps the files.
LEMMA OKFrame ==
  ASSUME NEW mf, NEW st, OK(mf, st), NEW u, TypesIn(u), MapIn(mf, u), NEW n,
         Others(mf, st, u, n), This(mf, st, u, n)
  PROVE  OK(mf, u)
<1>1. ASSUME NEW m \in FilesIn(u), m # n
      PROVE  /\ m \in FilesIn(st) /\ FileOK(u, m) /\ Own(u, m) = Own(st, m)
             /\ mf => Own(u, m) \subseteq u.map
  <2>1. PICK s, e : s = st.dir[m] /\ e = inode_open(st, s)
    OBVIOUS
  <2>2. m \in FilesIn(st) /\ u.dir[m] = s /\ inode_open(u, s) = e
    BY <1>1, <2>1 DEF Others
  <2>3. Own(st, m) = OwnAt(st.disk, s, e) /\ Own(u, m) = OwnAt(u.disk, s, e)
    BY <2>1, <2>2 DEF Own
  <2>4. FileIn(st.disk, m, s, e)
    BY <2>1, <2>2 DEF OK, FileOK
  <2>5. \A x \in OwnAt(st.disk, s, e) : u.disk[x] = st.disk[x]
    BY <1>1, <2>3 DEF Others
  <2>6. FileIn(u.disk, m, s, e) /\ OwnAt(u.disk, s, e) = OwnAt(st.disk, s, e)
    BY <2>4, <2>5, FileUntouched
  <2>7. mf => Own(st, m) \subseteq u.map
    BY <1>1 DEF Others
  <2> QED
    BY <2>2, <2>3, <2>6, <2>7 DEF FileOK
<1>2. \A m \in FilesIn(u) : FileOK(u, m) /\ (mf => Own(u, m) \subseteq u.map)
  BY <1>1 DEF This
<1>3. ASSUME NEW m \in FilesIn(u), NEW k \in FilesIn(u), m # k
      PROVE  Own(u, m) \cap Own(u, k) = {}
  <2>1. CASE m # n /\ k # n
    BY <1>1, <1>3, <2>1 DEF OK
  <2>2. CASE m = n
    BY <1>1, <1>3, <2>2 DEF This
  <2>3. CASE k = n
    BY <1>1, <1>3, <2>3 DEF This
  <2> QED
    BY <2>1, <2>2, <2>3
<1> QED
  BY <1>2, <1>3 DEF OK

\* What the invariant says about one state.
LEMMA OKFacts ==
  ASSUME NEW st, OK(map_file, st)
  PROVE  /\ Ready(st) /\ IsState(st)
         /\ SystemSectors \cap Available(st) = {} /\ 0 \in SystemSectors
         /\ \A n \in FilesIn(st) :
              /\ Own(st, n) \cap Available(st) = {} /\ Own(st, n) \subseteq Bits \ SystemSectors
              /\ st.dir[n] \in Own(st, n) /\ st.dir[n] \in Bits \ SystemSectors
              /\ TreeReady(st, inode_open(st, st.dir[n]))
         /\ \A n, m \in FilesIn(st) : n # m => st.dir[n] # st.dir[m]
<1>1. 0 \in SystemSectors
  BY GeometryAssumption DEF SystemSectors
<1>2. Ready(st) /\ IsState(st)
  BY <1>1 DEF OK, TypesIn, MapIn, Ready
<1>3. Available(st) \subseteq Bits /\ 0 \notin Available(st) /\ Available(st) \cap st.map = {}
  BY <1>2, AvailableBits
<1>4. ~ map_file => Available(st) = {}
  BY DEF Available
<1>5. SystemSectors \cap Available(st) = {}
  BY <1>3, <1>4 DEF OK, MapIn
<1>6. ASSUME NEW n \in FilesIn(st)
      PROVE  /\ Own(st, n) \cap Available(st) = {} /\ Own(st, n) \subseteq Bits \ SystemSectors
             /\ st.dir[n] \in Own(st, n) /\ st.dir[n] \in Bits \ SystemSectors
             /\ TreeReady(st, inode_open(st, st.dir[n]))
  <2>1. PICK s, e : s = st.dir[n] /\ e = inode_open(st, s)
    OBVIOUS
  <2>2. FileIn(st.disk, n, s, e) /\ (map_file => Own(st, n) \subseteq st.map)
    BY <2>1 DEF OK, FileOK
  <2>3. Own(st, n) = OwnAt(st.disk, s, e)
    BY <2>1 DEF Own
  <2>4. PICK T : T = Tree(st.disk, e)
    OBVIOUS
  <2>5. /\ \A p \in Slot : T[p] # 0 => T[p] \in Bits \ (SystemSectors \cup {s})
        /\ \A p, q \in Slot : T[p] # 0 /\ T[q] = T[p] => q = p
        /\ \A p \in IndexSlot : T[p] # 0 => st.disk[T[p]] \in IndexNode
        /\ s \in Bits \ SystemSectors /\ e \in Inode
    BY <2>2, <2>4 DEF FileIn, TreeOK
  <2>6. Own(st, n) \cap Available(st) = {}
    BY <1>3, <1>4, <2>2
  <2>7. Own(st, n) \subseteq Bits \ SystemSectors /\ s \in Own(st, n)
    BY <2>3, <2>4, <2>5 DEF OwnAt
  <2>8. \A p \in Slot : T[p] # 0 => T[p] \in Own(st, n)
    BY <2>3, <2>4 DEF OwnAt
  <2>9. \A p \in Slot : T[p] \in Sector /\ T[p] \notin Available(st)
    BY <1>3, <2>5, <2>6, <2>8, BitsFinite, SectorZero
  <2>10. TreeReady(st, e)
    BY <1>2, <2>4, <2>5, <2>9 DEF TreeReady
  <2> QED
    BY <2>1, <2>5, <2>6, <2>7, <2>10
<1>7. \A n, m \in FilesIn(st) : n # m => st.dir[n] # st.dir[m]
  BY <1>6 DEF OK
<1> QED
  BY <1>1, <1>2, <1>5, <1>6, <1>7

\* The result of a command is no part of the files.
LEMMA OKResult ==
  ASSUME NEW mf, NEW st, OK(mf, st), NEW r \in {"ok", "error"}
  PROVE  OK(mf, Result(st, r)) /\ Result(st, r).status = r
<1>1. PICK u : u = Result(st, r)
  OBVIOUS
<1>2. IsState(st)
  BY DEF OK, TypesIn
<1>3. /\ IsState(u) /\ u.disk = st.disk /\ u.map = st.map /\ u.saved = st.saved /\ u.dir = st.dir
      /\ u.open = st.open /\ u.table = st.table /\ u.stale = st.stale /\ u.panicked = st.panicked
      /\ u.status = r
  BY <1>1, <1>2 DEF Result, IsState
<1>4. TypesIn(u)
  BY <1>3 DEF OK, TypesIn, FilesIn
<1>5. MapIn(mf, u)
  BY <1>3 DEF OK, MapIn
<1>6. FilesIn(u) = FilesIn(st)
  BY <1>3 DEF FilesIn
<1>7. \A n : inode_open(u, u.dir[n]) = inode_open(st, st.dir[n])
  BY <1>3 DEF inode_open
<1>8. \A n : Own(u, n) = Own(st, n) /\ (FileOK(u, n) <=> FileOK(st, n))
  BY <1>3, <1>7 DEF Own, FileOK
<1> QED
  BY <1>1, <1>3, <1>4, <1>5, <1>6, <1>8 DEF OK

\* A file brought into the file table is read, and otherwise as it was.
LEMMA OKOpen ==
  ASSUME NEW st, OK(map_file, st), NEW n \in FilesIn(st), NEW u, u = OpenByName(st, n)
  PROVE  /\ OK(map_file, u) /\ n \in u.table
         /\ u.disk = st.disk /\ u.map = st.map /\ u.dir = st.dir /\ u.panicked = st.panicked
         /\ u.status = st.status /\ u.table = st.table \cup {n}
<1>1. CASE n \in st.table
  BY <1>1 DEF OpenByName, get_file_by_fname
<1>2. CASE n \notin st.table
  <2>1. PICK s : s = st.dir[n]
    OBVIOUS
  <2>2. u = [filesys_open(st, n) EXCEPT !.table = filesys_open(st, n).table \cup {n}]
    <3>1. IsState(st)
      BY DEF OK, TypesIn
    <3>2. filesys_open(st, n).table = st.table
      BY <3>1 DEF filesys_open, IsState
    <3>3. OpenByName(st, n) = add_to_file_table(filesys_open(st, n), n)
      BY <1>2 DEF OpenByName, get_file_by_fname
    <3> QED
      BY <1>2, <3>2, <3>3 DEF add_to_file_table, get_file_by_fname
  <2>3. PICK o : o = [x \in DOMAIN st.open \cup {s} |-> inode_open(st, x)]
    OBVIOUS
  <2>4. /\ IsState(u) /\ u.disk = st.disk /\ u.map = st.map /\ u.saved = st.saved /\ u.dir = st.dir
        /\ u.open = o /\ u.table = st.table \cup {n} /\ u.stale = st.stale
        /\ u.panicked = st.panicked /\ u.status = st.status
    <3>1. IsState(st)
      BY DEF OK, TypesIn
    <3>2. filesys_open(st, n) = [st EXCEPT !.open = o]
      <4>1. st.open = st.open /\ lookup(st, n) = s
        BY <2>1 DEF lookup
      <4> QED
        BY <2>3, <4>1 DEF filesys_open
    <3>3. u = [[st EXCEPT !.open = o] EXCEPT !.table = st.table \cup {n}]
      BY <2>2, <3>1, <3>2 DEF IsState
    <3> HIDE <2>2, <2>3
    <3> QED
      BY <3>1, <3>3 DEF IsState
  <2>5. FilesIn(u) = FilesIn(st)
    BY <2>4 DEF FilesIn
  <2>6. \A x : inode_open(u, x) = inode_open(st, x)
    <3> TAKE x
    <3>1. CASE x \in DOMAIN st.open \cup {s}
      <4>1. inode_open(u, x) = o[x]
        BY <2>3, <2>4, <3>1 DEF inode_open
      <4> QED
        BY <2>3, <3>1, <4>1
    <3>2. CASE x \notin DOMAIN st.open \cup {s}
      BY <2>3, <2>4, <3>2 DEF inode_open
    <3> QED
      BY <3>1, <3>2
  <2>7. TypesIn(u)
    <3>1. /\ st.disk \in [Sector -> Block] /\ st.map \subseteq Bits /\ st.saved \subseteq Bits
          /\ st.dir \in [Entry -> Bits] /\ st.table \subseteq FilesIn(st) /\ st.stale = {}
          /\ DOMAIN st.open = {st.dir[m] : m \in st.table}
          /\ st.panicked \in SUBSET Message /\ st.status \in {"ok", "error"}
      BY DEF OK, TypesIn
    <3>2. u.table \subseteq FilesIn(u)
      BY <2>4, <2>5, <3>1
    <3>3. DOMAIN u.open = {u.dir[m] : m \in u.table}
      BY <2>1, <2>3, <2>4, <3>1
    <3> QED
      BY <2>4, <3>1, <3>2, <3>3 DEF TypesIn
  <2>8. MapIn(map_file, u)
    BY <2>4 DEF OK, MapIn
  <2>9. \A m : Own(u, m) = Own(st, m) /\ (FileOK(u, m) <=> FileOK(st, m))
    BY <2>4, <2>6 DEF Own, FileOK
  <2>10. OK(map_file, u)
    BY <2>4, <2>5, <2>7, <2>8, <2>9 DEF OK
  <2> QED
    BY <2>4, <2>10
<1> QED
  BY <1>1, <1>2

\* A file taken out of the file table is closed: what its inode in memory had
\* beyond the one on disk is forgotten.
LEMMA OKForget ==
  ASSUME NEW st, OK(map_file, st), NEW n, NEW u, u = remove_from_file_table(st, n)
  PROVE  /\ OK(map_file, u) /\ u.table = st.table \ {n}
         /\ u.disk = st.disk /\ u.map = st.map /\ u.dir = st.dir /\ u.panicked = st.panicked
         /\ u.status = st.status
<1>1. CASE n \notin st.table
  BY <1>1 DEF remove_from_file_table
<1>2. CASE n \in st.table
  <2>1. PICK s : s = st.dir[n]
    OBVIOUS
  <2>2. PICK o : o = [x \in DOMAIN st.open \ {s} |-> st.open[x]]
    OBVIOUS
  <2>3. PICK t : t = st.stale \cup {m \in st.table \ {n} : st.dir[m] = s /\ s \in DOMAIN st.open}
    OBVIOUS
  <2>4. IsState(st)
    BY DEF OK, TypesIn
  <2>5. /\ IsState(u) /\ u.disk = st.disk /\ u.map = st.map /\ u.saved = st.saved /\ u.dir = st.dir
        /\ u.open = o /\ u.table = st.table \ {n} /\ u.stale = t
        /\ u.panicked = st.panicked /\ u.status = st.status
    <3>1. PICK v : v = [st EXCEPT !.table = @ \ {n}]
      OBVIOUS
    <3>2. /\ IsState(v) /\ v.disk = st.disk /\ v.map = st.map /\ v.saved = st.saved /\ v.dir = st.dir
          /\ v.open = st.open /\ v.table = st.table \ {n} /\ v.stale = st.stale
          /\ v.panicked = st.panicked /\ v.status = st.status
      BY <2>4, <3>1 DEF IsState
    <3>3. u = inode_close(v, s)
      BY <1>2, <2>1, <3>1, <3>2 DEF remove_from_file_table, file_close, lookup
    <3>4. inode_close(v, s) = [v EXCEPT !.open = o, !.stale = t]
      BY <2>2, <2>3, <3>2 DEF inode_close
    <3> HIDE <2>2, <2>3
    <3>5. u = [v EXCEPT !.open = o, !.stale = t]
      BY ONLY <3>3, <3>4
    <3> QED
      BY ONLY <3>2, <3>5 DEF IsState
  <2>6. FilesIn(u) = FilesIn(st)
    BY <2>5 DEF FilesIn
  <2>7. /\ st.disk \in [Sector -> Block] /\ st.map \subseteq Bits /\ st.saved \subseteq Bits
        /\ st.dir \in [Entry -> Bits] /\ st.table \subseteq FilesIn(st) /\ st.stale = {}
        /\ DOMAIN st.open = {st.dir[m] : m \in st.table}
        /\ st.panicked \in SUBSET Message /\ st.status \in {"ok", "error"}
    BY DEF OK, TypesIn
  <2>8. \A m \in FilesIn(st) : m # n => st.dir[m] # s
    BY <1>2, <2>1, <2>7, OKFacts
  <2>9. t = {}
    BY <2>3, <2>7, <2>8
  <2>10. DOMAIN u.open = {u.dir[m] : m \in u.table}
    <3>1. DOMAIN o = DOMAIN st.open \ {s}
      BY <2>2
    <3> QED
      BY <2>1, <2>5, <2>7, <2>8, <3>1
  <2>11. TypesIn(u)
    BY <2>5, <2>6, <2>7, <2>9, <2>10 DEF TypesIn
  <2>12. MapIn(map_file, u)
    BY <2>5 DEF OK, MapIn
  <2>13. \A x : x # s => inode_open(u, x) = inode_open(st, x)
    BY <2>2, <2>5 DEF inode_open
  <2>14. inode_open(u, s) = st.disk[s]
    BY <2>2, <2>5 DEF inode_open
  <2>15. Others(map_file, st, u, n)
    <3>1. \A m \in FilesIn(u) : map_file => Own(st, m) \subseteq u.map
      BY <2>5, <2>6 DEF OK
    <3> QED
      BY <2>5, <2>6, <2>8, <2>13, <3>1 DEF Others
  <2>16. PICK e : e = inode_open(st, s)
    OBVIOUS
  <2>17. n \in FilesIn(st)
    BY <1>2, <2>7
  <2>18. FileIn(st.disk, n, s, e)
    BY <2>1, <2>16, <2>17 DEF OK, FileOK
  <2>19. FileIn(st.disk, n, s, st.disk[s]) /\ OwnAt(st.disk, s, st.disk[s]) \subseteq OwnAt(st.disk, s, e)
    BY <2>18, FileClosed
  <2>20. FileOK(u, n)
    BY <2>1, <2>5, <2>14, <2>19 DEF FileOK
  <2>21. Own(u, n) \subseteq Own(st, n)
    BY <2>1, <2>5, <2>14, <2>16, <2>19 DEF Own
  <2>22. This(map_file, st, u, n)
    <3>1. \A m \in FilesIn(st) : m # n => Own(st, n) \cap Own(st, m) = {}
      BY <2>17 DEF OK
    <3>2. map_file => Own(st, n) \subseteq st.map
      BY <2>17 DEF OK
    <3> QED
      BY <2>5, <2>20, <2>21, <3>1, <3>2 DEF This
  <2>23. OK(map_file, u)
    BY <2>11, <2>12, <2>15, <2>22, OKFrame
  <2> QED
    BY <2>5, <2>23
<1> QED
  BY <1>1, <1>2

\* The sectors that removing a file releases: each once.
Reach(dsk, s) == {s} \cup InodeBlocks(dsk, dsk[s])

\* The sectors that deallocation reads from the disk are distinct and the file's.
LEMMA ReachOf ==
  ASSUME NEW dsk, NEW n, NEW s, NEW e, FileIn(dsk, n, s, e), NEW b, b = bytes_to_sectors(dsk[s].length)
  PROVE  /\ Reach(dsk, s) \subseteq OwnAt(dsk, s, e) /\ IsFiniteSet(Reach(dsk, s))
         /\ Cardinality(Reach(dsk, s)) = Cardinality(Slots(b)) + 1
         /\ b \in Nat /\ b <= D + P + P * P
         /\ \A p \in Slots(b) : /\ p \in Slot /\ Tree(dsk, e)[p] # 0
                                /\ SectorAt(dsk, dsk[s], p) = Tree(dsk, e)[p]
                                /\ SectorAt(dsk, e, p) = Tree(dsk, e)[p]
                                /\ p \in IndexSlot => dsk[Tree(dsk, e)[p]].kind = "index"
<1>1. PICK d \in Inode : d = dsk[s] /\ InodeLeq(d, e) /\ LengthOK(dsk, d) /\ d.length = e.length
  BY DEF FileIn
<1>2. PICK T : T = Tree(dsk, e)
  OBVIOUS
<1>3. b = bytes_to_sectors(e.length)
  BY <1>1
<1>4. b \in Nat /\ b <= D + P + P * P
  BY <1>3, FileAgrees
<1>5. \A p \in Slots(b) : InUse(b, p)
  BY <1>4, SlotsChar
<1>6. \A p \in Slots(b) : /\ p \in Slot /\ T[p] # 0 /\ Tree(dsk, dsk[s])[p] = T[p]
                          /\ p \in IndexSlot => dsk[T[p]].kind = "index"
  BY <1>2, <1>3, <1>5, FileAgrees
<1>7. \A p \in Slots(b) : SectorAt(dsk, e, p) = T[p]
  BY <1>2, <1>4, <1>6, SectorIs
<1>8. \A p \in Slots(b) : SectorAt(dsk, dsk[s], p) = T[p]
  <2>1. PICK U : U = Tree(dsk, dsk[s])
    OBVIOUS
  <2>2. \A p \in Slots(b) : Tree(dsk, dsk[s])[p] # 0
    BY <1>6
  <2>3. \A p \in Slots(b) : SectorAt(dsk, dsk[s], p) = Tree(dsk, dsk[s])[p]
    BY <1>4, <2>2, SectorIs
  <2> QED
    BY <1>6, <2>3
<1>9. InodeBlocks(dsk, dsk[s]) = {T[p] : p \in Slots(b)}
  BY <1>8 DEF InodeBlocks
<1>10. /\ \A p \in Slot : T[p] # 0 => T[p] \in Bits \ (SystemSectors \cup {s})
       /\ \A p, q \in Slot : T[p] # 0 /\ T[q] = T[p] => q = p
  BY <1>2 DEF FileIn, TreeOK
<1> DEFINE B == {T[p] : p \in Slots(b)}
<1>11. B \subseteq Bits /\ s \notin B
  BY <1>6, <1>10
<1>12. IsFiniteSet(B)
  BY <1>11, BitsFinite, FS_Subset
<1>13. Cardinality(Slots(b)) = Cardinality(B)
  <2> DEFINE h == [x \in B |-> CHOOSE p \in Slots(b) : T[p] = x]
  <2>1. \A x \in B : h[x] \in Slots(b) /\ T[h[x]] = x
    OBVIOUS
  <2>2. h \in [B -> Slots(b)]
    BY <2>1
  <2>3. \A x, y \in B : h[x] = h[y] => x = y
    BY <2>1
  <2>4. \A p \in Slots(b) : T[p] \in B
    OBVIOUS
  <2>5. \A p \in Slots(b) : h[T[p]] = p
    BY <1>6, <1>10, <2>1, <2>4
  <2> HIDE DEF h, B
  <2>6. h \in Bijection(B, Slots(b))
    <3>1. h \in Injection(B, Slots(b))
      BY <2>2, <2>3 DEF Injection, IsInjective
    <3>2. h \in Surjection(B, Slots(b))
      BY <2>2, <2>4, <2>5 DEF Surjection
    <3> QED
      BY <3>1, <3>2 DEF Bijection
  <2>7. ExistsBijection(B, Slots(b))
    BY <2>6 DEF ExistsBijection
  <2> QED
    BY <1>12, <2>7, FS_Bijection
<1>14. Reach(dsk, s) = B \cup {s}
  BY <1>9 DEF Reach
<1>15. IsFiniteSet(B \cup {s}) /\ Cardinality(B \cup {s}) = Cardinality(B) + 1
  BY <1>11, <1>12, FS_AddElement
<1>16. B \cup {s} \subseteq OwnAt(dsk, s, e)
  BY <1>2, <1>6 DEF OwnAt
<1> HIDE DEF B
<1> QED
  BY <1>2, <1>4, <1>6, <1>7, <1>8, <1>13, <1>14, <1>15, <1>16

\* What releasing sectors does to the map.
LEMMA ReleaseEffect ==
  ASSUME NEW st, Ready(st), NEW S, NEW cnt, NEW u, u = free_map_release(st, S, cnt)
  PROVE  /\ IsState(u) /\ u.disk = st.disk /\ u.dir = st.dir /\ u.open = st.open /\ u.table = st.table
         /\ u.stale = st.stale /\ u.status = st.status
         /\ u.map = st.map \ S /\ u.saved \subseteq Bits /\ (map_file => u.saved = u.map)
         /\ S \subseteq st.map /\ Cardinality(S) = cnt => u.panicked = st.panicked
         /\ st.panicked \in SUBSET Message => u.panicked \in SUBSET Message
<1>1. IsState(st) /\ st.map \subseteq Bits /\ st.saved \subseteq Bits
  BY DEF Ready
<1>7. PICK new : new = st.panicked \cup
                       Printed(~ S \subseteq st.map \/ Cardinality(S) # cnt, "free_map_release")
  OBVIOUS
<1>8. /\ S \subseteq st.map /\ Cardinality(S) = cnt => new = st.panicked
      /\ st.panicked \in SUBSET Message => new \in SUBSET Message
  BY <1>7 DEF Printed, Message
<1>2. PICK v : v = [st EXCEPT !.map = st.map \ S, !.panicked = new]
  OBVIOUS
<1>3. u = Save(v)
  BY <1>2, <1>7 DEF free_map_release, bitmap_set_multiple, bitmap_all
<1> HIDE <1>7
<1>4. /\ IsState(v) /\ v.disk = st.disk /\ v.dir = st.dir /\ v.open = st.open /\ v.table = st.table
      /\ v.stale = st.stale /\ v.status = st.status /\ v.map = st.map \ S /\ v.saved = st.saved
      /\ v.panicked = new
  BY <1>1, <1>2 DEF IsState
<1> HIDE <1>2
<1>5. CASE map_file
  <2>1. u = [v EXCEPT !.saved = v.map]
    BY <1>3, <1>5 DEF Save
  <2> QED
    BY <1>1, <1>4, <1>8, <2>1 DEF IsState
<1>6. CASE ~ map_file
  <2>1. u = v
    BY <1>3, <1>6 DEF Save
  <2> QED
    BY <1>1, <1>4, <1>6, <1>8, <2>1
<1> QED
  BY <1>5, <1>6

\* Removing a file that is not in the file table.
LEMMA OKRemove ==
  ASSUME NEW st, OK(map_file, st), NEW n \in Entry, n \notin st.table, NEW u, u = filesys_remove(st, n)
  PROVE  /\ OK(map_file, u) /\ (map_file => u.panicked = st.panicked)
         /\ u.disk = st.disk /\ u.table = st.table
         /\ st.dir[n] = 0 => u.dir = st.dir /\ u.map = st.map /\ u.status = "error"
         /\ st.dir[n] # 0 => u.dir = [st.dir EXCEPT ![n] = 0] /\ u.map = st.map \ Reach(st.disk, st.dir[n])
<1>1. PICK s : s = st.dir[n]
  OBVIOUS
<1>2. CASE s = 0
  <2>1. u = Result(st, "error")
    BY <1>1, <1>2 DEF filesys_remove, dir_remove, lookup
  <2>2. OK(map_file, u) /\ u.status = "error"
    BY <2>1, OKResult
  <2>3. IsState(st)
    BY DEF OK, TypesIn
  <2>4. u.disk = st.disk /\ u.table = st.table /\ u.dir = st.dir /\ u.map = st.map /\ u.panicked = st.panicked
    BY <2>1, <2>3 DEF Result, IsState
  <2> QED
    BY <1>1, <1>2, <2>2, <2>4
<1>3. CASE s # 0
  <2>1. n \in FilesIn(st)
    BY <1>1, <1>3 DEF FilesIn
  <2>2. /\ st.disk \in [Sector -> Block] /\ st.map \subseteq Bits /\ st.saved \subseteq Bits
        /\ st.dir \in [Entry -> Bits] /\ st.table \subseteq FilesIn(st) /\ st.stale = {}
        /\ DOMAIN st.open = {st.dir[m] : m \in st.table}
        /\ st.panicked \in SUBSET Message /\ st.status \in {"ok", "error"} /\ IsState(st)
    BY DEF OK, TypesIn
  <2>3. \A m \in FilesIn(st) : m # n => st.dir[m] # s
    BY <1>1, <2>1, OKFacts
  <2>4. s \notin DOMAIN st.open
    BY <2>2, <2>3
  <2>5. PICK dir2 : dir2 = [st.dir EXCEPT ![n] = 0]
    OBVIOUS
  <2>6. PICK o : o = [x \in DOMAIN st.open \ {s} |-> st.open[x]]
    OBVIOUS
  <2>7. PICK t : t = st.stale \cup {m \in st.table : dir2[m] = s /\ s \in DOMAIN st.open}
    OBVIOUS
  <2>8. t = {} /\ DOMAIN o = DOMAIN st.open /\ \A x \in DOMAIN st.open : o[x] = st.open[x]
    BY <2>2, <2>4, <2>6, <2>7
  <2>9. PICK v : v = [st EXCEPT !.dir[n] = 0]
    OBVIOUS
  <2>10. /\ IsState(v) /\ v.disk = st.disk /\ v.map = st.map /\ v.saved = st.saved /\ v.dir = dir2
         /\ v.open = st.open /\ v.table = st.table /\ v.stale = st.stale
         /\ v.panicked = st.panicked /\ v.status = st.status
    BY <2>2, <2>5, <2>9 DEF IsState
  <2>11. PICK w : w = inode_close(v, s)
    OBVIOUS
  <2>12. /\ IsState(w) /\ w.disk = st.disk /\ w.map = st.map /\ w.saved = st.saved /\ w.dir = dir2
         /\ w.open = o /\ w.table = st.table /\ w.stale = t
         /\ w.panicked = st.panicked /\ w.status = st.status
    <3>1. w = [v EXCEPT !.open = o, !.stale = t]
      BY <2>6, <2>7, <2>10, <2>11 DEF inode_close
    <3> HIDE <2>6, <2>7, <2>9
    <3> QED
      BY <2>10, <3>1 DEF IsState
  <2>13. PICK d, b : d = st.disk[s] /\ b = bytes_to_sectors(d.length)
    OBVIOUS
  <2>14. inode_open(st, s) = d
    BY <2>4, <2>13 DEF inode_open
  <2>15. PICK x : x = free_map_release(w, Reach(st.disk, s), Cardinality(Slots(b)) + 1)
    OBVIOUS
  <2>16. u = Result(x, "ok")
    <3>1. u = Result(inode_deallocate(w, s, d), "ok")
      BY <1>1, <1>3, <2>9, <2>11, <2>14 DEF filesys_remove, dir_remove, lookup
    <3>2. inode_deallocate(w, s, d) = x
      BY <2>12, <2>13, <2>15 DEF inode_deallocate, Reach
    <3> QED
      BY <3>1, <3>2
  <2>17. Ready(w)
    <3>1. Ready(st)
      BY OKFacts
    <3> QED
      BY <2>12, <3>1 DEF Ready
  <2>18. PICK R : R = Reach(st.disk, s)
    OBVIOUS
  <2>19. /\ IsState(x) /\ x.disk = st.disk /\ x.dir = dir2 /\ x.open = o /\ x.table = st.table
         /\ x.stale = {} /\ x.status = st.status
         /\ x.map = st.map \ R /\ x.saved \subseteq Bits /\ (map_file => x.saved = x.map)
         /\ R \subseteq st.map /\ Cardinality(R) = Cardinality(Slots(b)) + 1 => x.panicked = st.panicked
         /\ x.panicked \in SUBSET Message
    BY <2>2, <2>8, <2>12, <2>15, <2>17, <2>18, ReleaseEffect
  <2>20. /\ IsState(u) /\ u.disk = st.disk /\ u.dir = dir2 /\ u.open = o /\ u.table = st.table
         /\ u.stale = {} /\ u.status = "ok"
         /\ u.map = st.map \ R /\ u.saved \subseteq Bits /\ (map_file => u.saved = u.map)
         /\ u.panicked = x.panicked
    BY <2>16, <2>19 DEF Result, IsState
  <2>21. FileIn(st.disk, n, s, d) /\ Own(st, n) = OwnAt(st.disk, s, d)
    BY <1>1, <2>1, <2>14 DEF OK, FileOK, Own
  <2>22. R \subseteq Own(st, n) /\ Cardinality(R) = Cardinality(Slots(b)) + 1
    BY <2>13, <2>18, <2>21, ReachOf
  <2>23. map_file => u.panicked = st.panicked
    BY <2>1, <2>2, <2>19, <2>20, <2>22 DEF OK
  <2>24. FilesIn(u) = FilesIn(st) \ {n}
    BY <2>2, <2>5, <2>20 DEF FilesIn
  <2>25. \A m \in FilesIn(u) : u.dir[m] = st.dir[m] /\ m \in FilesIn(st) /\ m # n
    BY <2>2, <2>5, <2>20, <2>24 DEF FilesIn
  <2>26. TypesIn(u)
    <3>1. dir2 \in [Entry -> Bits]
      BY <2>2, <2>5, BitsFinite, GeometryAssumption DEF Bits
    <3>2. u.table \subseteq FilesIn(u)
      BY <2>2, <2>20, <2>24
    <3>3. DOMAIN u.open = {u.dir[m] : m \in u.table}
      BY <2>2, <2>8, <2>20, <2>25, <3>2
    <3>4. u.panicked \in SUBSET Message
      BY <2>19, <2>20
    <3>5. u.map \subseteq Bits
      BY <2>2, <2>20
    <3> QED
      BY <2>2, <2>20, <3>1, <3>2, <3>3, <3>4, <3>5 DEF TypesIn
  <2>27. MapIn(map_file, u)
    <3>1. SystemSectors \cap R = {}
      BY <2>1, <2>22, OKFacts
    <3> QED
      BY <2>20, <3>1 DEF OK, MapIn
  <2>28. \A y : inode_open(u, y) = inode_open(st, y)
    BY <2>8, <2>20 DEF inode_open
  <2>29. Others(map_file, st, u, n)
    <3>1. \A m \in FilesIn(u) : map_file => Own(st, m) \subseteq u.map
      <4>1. \A m \in FilesIn(u) : (map_file => Own(st, m) \subseteq st.map) /\ Own(st, m) \cap Own(st, n) = {}
        BY <2>1, <2>25 DEF OK
      <4> QED
        BY <2>20, <2>22, <4>1
    <3> QED
      BY <2>20, <2>24, <2>25, <2>28, <3>1 DEF Others
  <2>30. This(map_file, st, u, n)
    BY <2>24 DEF This
  <2>31. OK(map_file, u)
    BY <2>26, <2>27, <2>29, <2>30, OKFrame
  <2> QED
    BY <1>1, <1>3, <2>5, <2>18, <2>20, <2>23, <2>31
<1> QED
  BY <1>2, <1>3

\* What the files of one state have to do with those of a later one: none is gone,
\* and what was marked meanwhile belongs to one.
Used(st) == UNION {Reach(st.disk, st.dir[n]) : n \in FilesIn(st)}
Covered(st, u) == Used(st) \subseteq Used(u) /\ u.map \subseteq st.map \cup Used(u)

\* Two commands that lose nothing lose nothing together.
LEMMA CoveredTrans ==
  ASSUME NEW st, NEW u, NEW v, Covered(st, u), Covered(u, v)
  PROVE  Covered(st, v)
BY DEF Covered

\* A state in which no sector of a file was written has the same sectors in use.
LEMMA ReachSame ==
  ASSUME NEW dsk, NEW n, NEW s, NEW e, FileIn(dsk, n, s, e), NEW dsk2,
         \A x \in OwnAt(dsk, s, e) : dsk2[x] = dsk[x]
  PROVE  Reach(dsk2, s) = Reach(dsk, s)
<1>1. PICK b : b = bytes_to_sectors(dsk[s].length)
  OBVIOUS
<1>2. FileIn(dsk2, n, s, e) /\ OwnAt(dsk2, s, e) = OwnAt(dsk, s, e)
  BY FileUntouched
<1>3. dsk2[s] = dsk[s]
  BY DEF OwnAt
<1>4. b = bytes_to_sectors(dsk2[s].length)
  BY <1>1, <1>3
<1>5. \A p \in Slots(b) : p \in Slot /\ Tree(dsk, e)[p] # 0 /\ SectorAt(dsk, dsk[s], p) = Tree(dsk, e)[p]
  BY <1>1, ReachOf
<1>6. \A p \in Slots(b) : SectorAt(dsk2, dsk2[s], p) = Tree(dsk2, e)[p]
  BY <1>2, <1>4, ReachOf
<1>7. Tree(dsk2, e) = Tree(dsk, e)
  <2>1. \A p \in IndexSlot : Tree(dsk, e)[p] # 0 => dsk2[Tree(dsk, e)[p]] = dsk[Tree(dsk, e)[p]]
    BY SlotParts DEF OwnAt
  <2> QED
    BY <2>1, TreeFrame
<1>8. InodeBlocks(dsk2, dsk2[s]) = {Tree(dsk, e)[p] : p \in Slots(b)}
  BY <1>4, <1>6, <1>7 DEF InodeBlocks
<1>9. InodeBlocks(dsk, dsk[s]) = {Tree(dsk, e)[p] : p \in Slots(b)}
  BY <1>1, <1>5 DEF InodeBlocks
<1> QED
  BY <1>8, <1>9 DEF Reach

\* Allocating for one file leaves the others, and the system, as they are.
LEMMA AllocFrame ==
  ASSUME NEW st, OK(map_file, st), NEW u, NEW X, Alloc(st, u, X), NEW n,
         \A m \in FilesIn(st) : m # n => X \cap Own(st, m) = {}
  PROVE  /\ TypesIn(u) /\ MapIn(map_file, u) /\ Others(map_file, st, u, n)
         /\ FilesIn(u) = FilesIn(st)
<1>1. FilesIn(u) = FilesIn(st)
  BY DEF Alloc, FilesIn
<1>2. TypesIn(u)
  BY <1>1 DEF Alloc, Ready, OK, TypesIn
<1>3. MapIn(map_file, u)
  BY DEF Alloc, Ready, OK, MapIn
<1>4. ASSUME NEW m \in FilesIn(u), m # n
      PROVE  /\ \A x \in Own(st, m) : u.disk[x] = st.disk[x]
             /\ map_file => Own(st, m) \subseteq u.map
  <2>1. Own(st, m) \cap Available(st) = {} /\ Own(st, m) \subseteq Bits \ SystemSectors /\ 0 \in SystemSectors
    BY <1>1, OKFacts
  <2>2. map_file => Own(st, m) \subseteq st.map
    BY <1>1 DEF OK
  <2>3. X \cap Own(st, m) = {}
    BY <1>1, <1>4
  <2> QED
    BY <2>1, <2>2, <2>3, BitsFinite DEF Alloc
<1>5. ASSUME NEW m \in FilesIn(u), m # n
      PROVE  inode_open(u, st.dir[m]) = inode_open(st, st.dir[m])
  <2>1. st.dir[m] \in Own(st, m)
    BY <1>1, OKFacts
  <2>2. u.disk[st.dir[m]] = st.disk[st.dir[m]] /\ u.open = st.open
    BY <1>4, <1>5, <2>1 DEF Alloc
  <2> QED
    BY <2>2 DEF inode_open
<1>6. u.dir = st.dir
  BY DEF Alloc
<1>7. Others(map_file, st, u, n)
  BY <1>1, <1>4, <1>5, <1>6 DEF Others
<1> QED
  BY <1>1, <1>2, <1>3, <1>7

\* The failed ASSERTs of a state are some of those there are.
Warned(st) == st.panicked \in SUBSET Message

\* inode_reserve changes no more than the blocks and an ASSERT.
LEMMA ReservedState ==
  ASSUME NEW st, NEW e, NEW b \in Nat, NEW r, NEW t, Reserved(st, e, b, r, t), Warned(st), NEW w, w = r.st
  PROVE  /\ IsState(t) /\ IsState(w) /\ t.panicked = st.panicked /\ Warned(w)
         /\ w.disk = t.disk /\ w.map = t.map /\ w.saved = t.saved /\ w.dir = t.dir /\ w.open = t.open
         /\ w.table = t.table /\ w.stale = t.stale /\ w.status = t.status
         /\ b <= D + P + P * P => w.panicked = st.panicked
<1>1. IsState(t) /\ t.panicked = st.panicked
  BY DEF Reserved, Part, Alloc, Ready
<1>2. CASE w = t
  BY <1>1, <1>2 DEF Warned
<1>3. CASE w # t
  <2>1. PICK mx \in Int : mx = D + P + P * P
    <3>1. P * P \in Nat /\ D \in Nat /\ P \in Nat
      BY Products, GeometryAssumption DEF P, D
    <3> QED
      BY <3>1
  <2>2. PICK bad \in BOOLEAN : /\ w = [t EXCEPT !.panicked = @ \cup Printed(bad, "inode_reserve")]
                               /\ bad => b > mx
    BY <1>3, <2>1 DEF Reserved
  <2>3. b <= mx => ~ bad
    BY <2>2
  <2>4. PICK y : y = t.panicked \cup Printed(bad, "inode_reserve")
    OBVIOUS
  <2>5. y \in SUBSET Message /\ (~ bad => y = st.panicked)
    BY <1>1, <2>4 DEF Printed, Message, Warned
  <2>6. w = [t EXCEPT !.panicked = y]
    BY <2>2, <2>4
  <2> HIDE <2>2, <2>4
  <2> QED
    BY <1>1, <2>1, <2>3, <2>5, <2>6 DEF IsState, Warned
<1> QED
  BY <1>2, <1>3

\* The empty inode of a new file.
LEMMA NewTree ==
  ASSUME NEW st, Ready(st), NEW length \in Nat, NEW e, e = NewInode(length)
  PROVE  /\ TreeReady(st, e) /\ e.length = length
         /\ \A p \in Slot : Tree(st.disk, e)[p] = 0
<1>1. e \in Inode /\ e.length = length
  BY SectorZero DEF NewInode, Inode
<1>2. PICK T : T = Tree(st.disk, e)
  OBVIOUS
<1>3. \A p \in Slot : T[p] = 0
  <2>1. TreeShape(T, st.disk, e)
    BY <1>2, TreeHas
  <2>2. e.indirect = 0 /\ e.doubly = 0 /\ \A i \in 0 .. D - 1 : e.direct[i] = 0
    BY DEF NewInode
  <2>3. \A i \in 0 .. P - 1 : Ptrs(st.disk, 0)[i] = 0
    BY DEF Ptrs
  <2>4. \A i \in 0 .. D - 1 : T[<<0, i>>] = 0
    BY <2>1, <2>2 DEF TreeShape
  <2>5. T[<<1>>] = 0 /\ T[<<2>>] = 0
    BY <2>1, <2>2 DEF TreeShape
  <2>6. /\ \A i \in 0 .. P - 1 : T[<<1, i>>] = Ptrs(st.disk, 0)[i]
        /\ \A i \in 0 .. P - 1 : T[<<2, i>>] = Ptrs(st.disk, 0)[i]
        /\ \A j \in 0 .. P - 1, i \in 0 .. P - 1 : T[<<2, j, i>>] = Ptrs(st.disk, Ptrs(st.disk, 0)[j])[i]
    BY ONLY <2>1, <2>2 DEF TreeShape
  <2>7. \A i \in 0 .. P - 1 : T[<<1, i>>] = 0 /\ T[<<2, i>>] = 0
    BY ONLY <2>3, <2>6
  <2>8. ASSUME NEW j \in 0 .. P - 1, NEW i \in 0 .. P - 1
        PROVE  T[<<2, j, i>>] = 0
    <3>1. PICK y : y = Ptrs(st.disk, 0)[j]
      OBVIOUS
    <3>2. y = 0
      BY <2>3, <3>1
    <3>3. T[<<2, j, i>>] = Ptrs(st.disk, y)[i]
      BY <2>6, <3>1
    <3> QED
      BY <2>3, <3>2, <3>3
  <2> QED
    <3>1. ASSUME NEW p \in DataSlot
          PROVE  T[p] = 0
      <4>1. CASE \E i \in 0 .. D - 1 : p = <<0, i>>
        BY <2>4, <4>1
      <4>2. CASE \E i \in 0 .. P - 1 : p = <<1, i>>
        BY <2>7, <4>2
      <4>3. CASE \E j \in 0 .. P - 1, i \in 0 .. P - 1 : p = <<2, j, i>>
        BY <2>8, <4>3
      <4> QED
        BY <4>1, <4>2, <4>3 DEF DataSlot
    <3>2. \A p \in IndexSlot : T[p] = 0
      BY ONLY <2>5, <2>7 DEF IndexSlot
    <3> QED
      BY ONLY <3>1, <3>2 DEF Slot
<1>4. \A p \in Slot : T[p] \in Sector /\ T[p] \notin Available(st)
  BY <1>3, SectorZero, AvailableBits
<1>5. TreeReady(st, e)
  <2>1. \A p \in IndexSlot : p \in Slot
    BY SlotParts
  <2> QED
    BY ONLY <1>1, <1>2, <1>3, <1>4, <2>1, Ready(st) DEF TreeReady
<1> QED
  BY <1>1, <1>2, <1>3, <1>5

\* What inode_reserve leaves for a new file n with its inode in sector s.
NewFile(st, n, s, b, r, t) ==
  /\ s \in Bits \ SystemSectors /\ Alloc(st, t, {}) /\ r.ok \in BOOLEAN
  /\ s \in t.map \ st.map /\ r.inode \in Inode
  /\ TreeOK(t.disk, n, s, r.inode)
  /\ OwnAt(t.disk, s, r.inode) \subseteq t.map \ st.map
  /\ r.ok => /\ b <= D + P + P * P /\ Complete(b, t.disk, r.inode)
             /\ t.map \ st.map \subseteq {s} \cup {Tree(t.disk, r.inode)[p] : p \in Slots(b)}

\* State w is t, but for a failed ASSERT.
Leaves(st, b, w, t) ==
  /\ t.panicked = st.panicked
  /\ w.panicked \in SUBSET Message /\ (b <= D + P + P * P => w.panicked = st.panicked)
  /\ w.disk = t.disk /\ w.map = t.map /\ w.saved = t.saved /\ w.dir = t.dir
  /\ w.open = t.open /\ w.table = t.table /\ w.stale = t.stale /\ w.status = t.status

\* inode_create gives a new file sectors that were free, or leaves some of them marked.
LEMMA Creation ==
  ASSUME NEW st, OK(map_file, st), Available(st) # {}, NEW n, NEW size \in Nat, NEW s, s = Min(Available(st)),
         NEW r, r = inode_reserve(Take(st, {s}), NewInode(size), size), NEW b, b = bytes_to_sectors(size)
  PROVE  /\ r.inode.length = size /\ b \in Nat /\ IsState(r.st)
         /\ \E t : NewFile(st, n, s, b, r, t) /\ Leaves(st, b, r.st, t)
<1>1. Ready(st) /\ SystemSectors \cap Available(st) = {} /\ 0 \in SystemSectors
  BY OKFacts
<1>2. Available(st) \subseteq Bits /\ Available(st) \cap st.map = {}
  BY <1>1, AvailableBits
<1>3. s \in Available(st) /\ s \in Bits \ SystemSectors
  BY <1>1, <1>2, MinIsLeast, BitsFinite
<1>4. PICK v, e : v = Take(st, {s}) /\ e = NewInode(size)
  OBVIOUS
<1>5. Alloc(st, v, {}) /\ v.map = st.map \cup {s} /\ v.disk = st.disk
  BY <1>1, <1>3, <1>4, TakeEffect
<1>6. Ready(v)
  BY <1>5 DEF Alloc
<1>7. TreeReady(v, e) /\ e.length = size /\ \A p \in Slot : Tree(v.disk, e)[p] = 0
  BY <1>4, <1>6, NewTree
<1>8. PICK t : Reserved(v, e, b, r, t)
  BY <1>4, <1>7, ReserveEffect
<1>9. b \in Nat
  BY <1>4, <1>7, LengthComplete DEF TreeReady
<1>10. PICK w : w = r.st
  OBVIOUS
<1>11. v.panicked = st.panicked /\ st.panicked \in SUBSET Message
  BY <1>5 DEF Alloc, OK, TypesIn
<1>12. /\ IsState(t) /\ IsState(w) /\ t.panicked = v.panicked /\ Warned(w)
       /\ w.disk = t.disk /\ w.map = t.map /\ w.saved = t.saved /\ w.dir = t.dir /\ w.open = t.open
       /\ w.table = t.table /\ w.stale = t.stale /\ w.status = t.status
       /\ b <= D + P + P * P => w.panicked = v.panicked
  <2>1. Warned(v)
    BY <1>11 DEF Warned
  <2> QED
    BY <1>8, <1>9, <1>10, <2>1, ReservedState
<1>13. Part(v, e, b, t, r.inode) /\ r.ok \in BOOLEAN
  BY <1>8 DEF Reserved
<1>14. r.inode \in Inode /\ r.inode.length = size
  BY <1>7, <1>13 DEF Part, TreeReady
<1>15. Alloc(v, t, {0})
  <2>1. Indices(v.disk, e) \subseteq {0}
    BY <1>7, SlotParts DEF Indices
  <2>2. Alloc(v, t, Indices(v.disk, e))
    BY <1>13 DEF Part
  <2> QED
    BY <2>1, <2>2 DEF Alloc
<1>16. Alloc(st, t, {})
  BY <1>5, <1>15, AllocTrans
<1>17. TreeOK(v.disk, n, s, e)
  BY <1>7, SlotParts DEF TreeOK
<1>18. (SystemSectors \cup {s}) \cap Available(v) = {}
  <2>1. Available(v) \cap v.map = {} /\ Available(v) \subseteq Available(st)
    <3>1. Available(v) \cap v.map = {}
      BY <1>6, AvailableBits
    <3> QED
      BY <1>5, <3>1 DEF Available
  <2> QED
    BY <1>1, <1>5, <2>1
<1>19. /\ TreeOK(t.disk, n, s, r.inode)
       /\ OwnAt(t.disk, s, r.inode) \subseteq OwnAt(v.disk, s, e) \cup (t.map \ v.map)
  <2>1. TreeReady(v, e) /\ Part(v, e, b, t, r.inode) /\ s \in Bits \ SystemSectors
    BY <1>3, <1>7, <1>13
  <2> QED
    BY ONLY <2>1, <1>17, <1>18, PartTree
<1>20. OwnAt(v.disk, s, e) = {s}
  BY <1>7 DEF OwnAt
<1>21. s \in t.map \ st.map /\ st.map \subseteq v.map /\ v.map \subseteq t.map
  BY <1>2, <1>3, <1>5, <1>15 DEF Alloc
<1>22. OwnAt(t.disk, s, r.inode) \subseteq t.map \ st.map
  BY <1>19, <1>20, <1>21
<1>23. ASSUME r.ok
       PROVE  /\ b <= D + P + P * P /\ Complete(b, t.disk, r.inode)
              /\ t.map \ st.map \subseteq {s} \cup {Tree(t.disk, r.inode)[p] : p \in Slots(b)}
  <2>1. b <= D + P + P * P /\ Full(v, e, t, r.inode) /\ Complete(b, t.disk, r.inode)
    BY <1>8, <1>23 DEF Reserved
  <2>2. ASSUME NEW x \in t.map \ v.map
        PROVE  x \in {Tree(t.disk, r.inode)[p] : p \in Slots(b)}
    <3>1. PICK p \in Slot : Tree(v.disk, e)[p] = 0 /\ Tree(t.disk, r.inode)[p] = x
      BY <2>1, <2>2 DEF Full
    <3>2. x # 0
      <4>1. Available(v) \subseteq Bits /\ 0 \notin Available(v)
        BY <1>6, AvailableBits
      <4> QED
        BY <1>15, <2>2, <4>1 DEF Alloc
    <3>3. InUse(b, p)
      BY <1>13, <3>1, <3>2 DEF Part
    <3>4. p \in Slots(b)
      BY <1>9, <2>1, <3>3, SlotsChar
    <3> QED
      BY <3>1, <3>4
  <2> QED
    BY <1>5, <2>1, <2>2
<1>24. NewFile(st, n, s, b, r, t)
  BY <1>3, <1>13, <1>14, <1>16, <1>19, <1>21, <1>22, <1>23 DEF NewFile
<1>25. Leaves(st, b, w, t)
  BY <1>11, <1>12 DEF Leaves, Warned
<1> QED
  BY <1>9, <1>10, <1>12, <1>14, <1>24, <1>25

\* The result of a command, and what its ASSERTs printed, are no part of the files.
LEMMA OKSame ==
  ASSUME NEW mf, NEW st, OK(mf, st), NEW u, IsState(u),
         u.disk = st.disk, u.map = st.map, u.saved = st.saved, u.dir = st.dir, u.open = st.open,
         u.table = st.table, u.stale = st.stale, u.panicked \in SUBSET Message, u.status \in {"ok", "error"}
  PROVE  OK(mf, u)
<1>1. TypesIn(u)
  BY DEF OK, TypesIn, FilesIn
<1>2. MapIn(mf, u)
  BY DEF OK, MapIn
<1>3. FilesIn(u) = FilesIn(st)
  BY DEF FilesIn
<1>4. \A n : inode_open(u, u.dir[n]) = inode_open(st, st.dir[n])
  BY DEF inode_open
<1>5. \A n : Own(u, n) = Own(st, n) /\ (FileOK(u, n) <=> FileOK(st, n))
  BY <1>4 DEF Own, FileOK
<1> QED
  BY <1>1, <1>2, <1>3, <1>5 DEF OK

\* Two states with the same directory, of which the first has no file that the
\* second has written to.
LEMMA UsedSame ==
  ASSUME NEW st, OK(map_file, st), NEW u,
         \A n \in FilesIn(st) : /\ n \in FilesIn(u) /\ u.dir[n] = st.dir[n]
                                /\ \A x \in Own(st, n) : u.disk[x] = st.disk[x]
  PROVE  Used(st) \subseteq Used(u)
<1>1. ASSUME NEW n \in FilesIn(st)
      PROVE  Reach(u.disk, u.dir[n]) = Reach(st.disk, st.dir[n])
  <2>1. PICK s, e : s = st.dir[n] /\ e = inode_open(st, s)
    OBVIOUS
  <2>2. FileIn(st.disk, n, s, e) /\ Own(st, n) = OwnAt(st.disk, s, e)
    BY <2>1 DEF OK, FileOK, Own
  <2>3. Reach(u.disk, s) = Reach(st.disk, s)
    BY <2>2, ReachSame
  <2> QED
    BY <2>1, <2>3
<1> QED
  BY <1>1 DEF Used

\* A new file that was written, or given up.
LEMMA CreatedAlloc ==
  ASSUME NEW st, OK(map_file, st), NEW n, NEW s, NEW b, NEW r, NEW t, NewFile(st, n, s, b, r, t),
         NEW u, IsState(u), u.disk \in [Sector -> Block],
         \A x \in Sector : x # s => u.disk[x] = t.disk[x],
         u.map = t.map \/ u.map = t.map \ {s}, u.saved \subseteq Bits, map_file => u.saved = u.map,
         u.dir = st.dir, u.open = st.open, u.table = st.table, u.stale = st.stale,
         u.status = st.status, u.panicked = st.panicked
  PROVE  Alloc(st, u, {s})
<1>1. Alloc(st, t, {}) /\ s \in Bits \ SystemSectors /\ s \in t.map \ st.map
  BY DEF NewFile
<1>2. 0 \in SystemSectors
  BY OKFacts
<1>3. s # 0 /\ 0 \in Sector
  BY <1>1, <1>2, SectorZero
<1>4. Ready(u)
  BY <1>1, <1>3 DEF Alloc, Ready
<1>5. \A x \in Sector : x # 0 /\ x \notin u.map \ st.map /\ x \notin {s} => u.disk[x] = st.disk[x]
  BY <1>1 DEF Alloc
<1>6. u.disk[0] \in {st.disk[0], Zeros}
  BY <1>1, <1>3 DEF Alloc
<1>7. st.map \subseteq u.map /\ u.map \ st.map \subseteq Available(st)
  BY <1>1 DEF Alloc
<1> QED
  BY <1>4, <1>5, <1>6, <1>7 DEF Alloc

\* A creation that fails leaves no file.
LEMMA CreationFails ==
  ASSUME NEW st, OK(map_file, st), NEW n, NEW s, NEW b, NEW r, NEW t, NewFile(st, n, s, b, r, t),
         NEW u, IsState(u), u.disk \in [Sector -> Block],
         \A x \in Sector : x # s => u.disk[x] = t.disk[x],
         u.map = t.map \ {s}, u.saved \subseteq Bits, map_file => u.saved = u.map,
         u.dir = st.dir, u.open = st.open, u.table = st.table, u.stale = st.stale,
         u.status = "error", Warned(u)
  PROVE  OK(map_file, u) /\ FilesIn(u) = FilesIn(st)
<1>1. PICK n0 : n0 \notin Entry
  <2>1. {x \in Entry : x \notin x} \notin Entry
    OBVIOUS
  <2> QED
    BY <2>1
<1>2. PICK y : y = [disk |-> u.disk, map |-> u.map, saved |-> u.saved, dir |-> u.dir, open |-> u.open,
                    table |-> u.table, stale |-> u.stale, panicked |-> st.panicked, status |-> st.status]
  OBVIOUS
<1>3. /\ IsState(y) /\ y.disk = u.disk /\ y.map = u.map /\ y.saved = u.saved /\ y.dir = u.dir
      /\ y.open = u.open /\ y.table = u.table /\ y.stale = u.stale
      /\ y.panicked = st.panicked /\ y.status = st.status
  BY <1>2 DEF IsState
<1> HIDE <1>2
<1>4. Alloc(st, y, {s})
  <2>1. y.disk \in [Sector -> Block] /\ \A x \in Sector : x # s => y.disk[x] = t.disk[x]
    BY <1>3
  <2>2. (y.map = t.map \/ y.map = t.map \ {s}) /\ y.saved \subseteq Bits /\ (map_file => y.saved = y.map)
    BY <1>3
  <2>3. /\ y.dir = st.dir /\ y.open = st.open /\ y.table = st.table /\ y.stale = st.stale
        /\ y.status = st.status /\ y.panicked = st.panicked /\ IsState(y)
    BY <1>3
  <2> QED
    BY ONLY <2>1, <2>2, <2>3, OK(map_file, st), NewFile(st, n, s, b, r, t), CreatedAlloc
<1>5. s \in Available(st)
  BY DEF NewFile, Alloc
<1>6. \A m \in FilesIn(st) : {s} \cap Own(st, m) = {}
  BY <1>5, OKFacts
<1>7. TypesIn(y) /\ MapIn(map_file, y) /\ Others(map_file, st, y, n0) /\ FilesIn(y) = FilesIn(st)
  BY <1>4, <1>6, AllocFrame
<1>8. n0 \notin FilesIn(y)
  BY <1>1 DEF FilesIn
<1>9. This(map_file, st, y, n0)
  BY <1>8 DEF This
<1>10. OK(map_file, y)
  BY <1>7, <1>9, OKFrame
<1>11. OK(map_file, u)
  BY <1>3, <1>10, OKSame DEF Warned
<1> QED
  BY <1>3, <1>7, <1>11 DEF FilesIn

\* A creation that succeeds: the new file has what was taken from the map.
LEMMA CreationDone ==
  ASSUME NEW st, OK(map_file, st), NEW n \in Entry, st.dir[n] = 0, NEW s, NEW r, NEW t, NEW b,
         NewFile(st, n, s, b, r, t), r.ok, b = bytes_to_sectors(r.inode.length),
         NEW u, IsState(u), u.disk = [x \in Sector |-> IF x \in {s} THEN r.inode ELSE t.disk[x]],
         u.map = t.map, u.saved = t.saved, u.dir = [st.dir EXCEPT ![n] = s],
         u.open = st.open, u.table = st.table, u.stale = st.stale,
         u.status = "ok", u.panicked \in SUBSET Message
  PROVE  OK(map_file, u) /\ FilesIn(u) = FilesIn(st) \cup {n} /\ Covered(st, u)
<1>1. PICK e : e = r.inode
  OBVIOUS
<1>2. /\ s \in Bits \ SystemSectors /\ Alloc(st, t, {}) /\ s \in t.map \ st.map /\ e \in Inode
      /\ TreeOK(t.disk, n, s, e) /\ OwnAt(t.disk, s, e) \subseteq t.map \ st.map
      /\ b <= D + P + P * P /\ Complete(b, t.disk, e)
      /\ t.map \ st.map \subseteq {s} \cup {Tree(t.disk, e)[p] : p \in Slots(b)}
  BY <1>1 DEF NewFile
<1>3. s \in Sector /\ s # 0
  BY <1>2, BitsFinite, OKFacts
<1>4. u.disk[s] = e /\ \A x \in Sector : x # s => u.disk[x] = t.disk[x]
  BY <1>1, <1>3
<1>5. FileIn(u.disk, n, s, e) /\ OwnAt(u.disk, s, e) = OwnAt(t.disk, s, e)
  BY <1>1, <1>2, <1>4, FileWritten
<1>6. PICK y : y = [disk |-> u.disk, map |-> u.map, saved |-> u.saved, dir |-> st.dir, open |-> u.open,
                    table |-> u.table, stale |-> u.stale, panicked |-> st.panicked, status |-> st.status]
  OBVIOUS
<1>7. /\ IsState(y) /\ y.disk = u.disk /\ y.map = u.map /\ y.saved = u.saved /\ y.dir = st.dir
      /\ y.open = u.open /\ y.table = u.table /\ y.stale = u.stale
      /\ y.panicked = st.panicked /\ y.status = st.status
  BY <1>6 DEF IsState
<1> HIDE <1>6
<1>8. t.disk \in [Sector -> Block] /\ t.saved \subseteq Bits /\ (map_file => t.saved = t.map)
  BY <1>2 DEF Alloc, Ready
<1>9. TypesIn(y) /\ MapIn(map_file, y) /\ Others(map_file, st, y, n) /\ FilesIn(y) = FilesIn(st)
  <2>1. y.disk \in [Sector -> Block]
    BY <1>1, <1>2, <1>7, <1>8 DEF Block
  <2>2. \A x \in Sector : x # s => y.disk[x] = t.disk[x]
    BY <1>4, <1>7
  <2>3. (y.map = t.map \/ y.map = t.map \ {s}) /\ y.saved \subseteq Bits /\ (map_file => y.saved = y.map)
    BY <1>7, <1>8
  <2>4. /\ y.dir = st.dir /\ y.open = st.open /\ y.table = st.table /\ y.stale = st.stale
        /\ y.status = st.status /\ y.panicked = st.panicked /\ IsState(y)
    BY <1>7
  <2> QED
    <3>1. Alloc(st, y, {s})
      BY ONLY <2>1, <2>2, <2>3, <2>4, OK(map_file, st), NewFile(st, n, s, b, r, t), CreatedAlloc
    <3>2. s \in Available(st)
      BY <1>2 DEF Alloc
    <3>3. \A m \in FilesIn(st) : {s} \cap Own(st, m) = {}
      BY <3>2, OKFacts
    <3> QED
      BY <3>1, <3>3, AllocFrame
<1>10. st.dir \in [Entry -> Bits] /\ st.table \subseteq FilesIn(st) /\ DOMAIN st.open = {st.dir[m] : m \in st.table}
  BY DEF OK, TypesIn
<1>11. FilesIn(u) = FilesIn(st) \cup {n}
  BY <1>3, <1>10 DEF FilesIn
<1>12. n \notin FilesIn(st) /\ \A m \in Entry : m # n => u.dir[m] = st.dir[m]
  BY <1>10 DEF FilesIn
<1>13. s \in Available(st)
  BY <1>2 DEF Alloc
<1>14. s \notin DOMAIN u.open
  BY <1>10, <1>13, OKFacts
<1>15. TypesIn(u)
  <2>1. u.dir \in [Entry -> Bits]
    BY <1>2, <1>10
  <2>2. DOMAIN u.open = {u.dir[m] : m \in u.table}
    BY <1>10, <1>12 DEF FilesIn
  <2>3. u.table \subseteq FilesIn(u)
    BY <1>10, <1>11
  <2>4. u.disk \in [Sector -> Block] /\ u.map \subseteq Bits /\ u.saved \subseteq Bits /\ u.stale = {}
    BY <1>7, <1>9 DEF TypesIn
  <2> QED
    BY <2>1, <2>2, <2>3, <2>4 DEF TypesIn
<1>16. MapIn(map_file, u)
  BY <1>7, <1>9 DEF MapIn
<1>17. \A x : inode_open(u, x) = inode_open(y, x)
  BY <1>7 DEF inode_open
<1>18. Others(map_file, st, u, n)
  <2>1. \A m \in FilesIn(u) : m # n =>
          /\ m \in FilesIn(y) /\ inode_open(y, st.dir[m]) = inode_open(st, st.dir[m])
          /\ \A x \in Own(st, m) : y.disk[x] = st.disk[x]
          /\ map_file => Own(st, m) \subseteq y.map
    BY <1>9, <1>11 DEF Others
  <2>2. \A m \in FilesIn(u) : m # n => u.dir[m] = st.dir[m]
    BY <1>12 DEF FilesIn
  <2> QED
    BY <1>7, <1>11, <1>17, <2>1, <2>2 DEF Others
<1>19. inode_open(u, s) = e /\ u.dir[n] = s
  BY <1>4, <1>10, <1>14 DEF inode_open
<1>20. FileOK(u, n) /\ Own(u, n) = OwnAt(t.disk, s, e)
  BY <1>5, <1>19 DEF FileOK, Own
<1>21. This(map_file, st, u, n)
  <2>1. Own(u, n) \subseteq u.map
    BY <1>2, <1>20
  <2>2. Own(u, n) \subseteq Available(st)
    BY <1>2, <1>20 DEF Alloc
  <2>3. \A m \in FilesIn(st) : Own(u, n) \cap Own(st, m) = {}
    BY <2>2, OKFacts
  <2> QED
    BY <1>20, <2>1, <2>3 DEF This
<1>22. OK(map_file, u)
  BY <1>15, <1>16, <1>18, <1>21, OKFrame
<1>23. Used(st) \subseteq Used(u)
  <2>1. \A m \in FilesIn(st) : m # n
    BY <1>12
  <2>2. \A m \in FilesIn(st) : m \in FilesIn(u) /\ u.dir[m] = st.dir[m] /\ \A x \in Own(st, m) : u.disk[x] = st.disk[x]
    BY <1>11, <1>18, <2>1 DEF Others
  <2> QED
    BY <2>2, UsedSame
<1>24. Reach(u.disk, s) = {s} \cup {Tree(t.disk, e)[p] : p \in Slots(b)}
  <2>1. b = bytes_to_sectors(u.disk[s].length)
    BY <1>1, <1>4
  <2>2. \A p \in Slots(b) : p \in Slot /\ SectorAt(u.disk, u.disk[s], p) = Tree(u.disk, e)[p]
    BY <1>5, <2>1, ReachOf
  <2>3. Tree(u.disk, e) = Tree(t.disk, e)
    <3>1. \A p \in IndexSlot : Tree(t.disk, e)[p] # 0 => Tree(t.disk, e)[p] \in Bits \ (SystemSectors \cup {s})
      BY <1>2, SlotParts DEF TreeOK
    <3>2. \A p \in IndexSlot : Tree(t.disk, e)[p] # 0 => u.disk[Tree(t.disk, e)[p]] = t.disk[Tree(t.disk, e)[p]]
      BY <1>4, <3>1, BitsFinite
    <3> QED
      BY <3>2, TreeFrame
  <2>4. InodeBlocks(u.disk, u.disk[s]) = {SectorAt(u.disk, u.disk[s], p) : p \in Slots(b)}
    BY <2>1 DEF InodeBlocks
  <2>5. InodeBlocks(u.disk, u.disk[s]) = {Tree(t.disk, e)[p] : p \in Slots(b)}
    BY <2>2, <2>3, <2>4
  <2> QED
    BY <2>5 DEF Reach
<1>25. Reach(u.disk, s) \subseteq Used(u)
  BY <1>11, <1>19 DEF Used
<1>26. Covered(st, u)
  BY <1>2, <1>23, <1>24, <1>25 DEF Covered
<1> QED
  BY <1>11, <1>22, <1>26

\* What a command that cannot remove a file leaves.
Effect(st, u, n) ==
  /\ OK(map_file, u) /\ FilesIn(st) \subseteq FilesIn(u)
  /\ u.status = "ok" => n \in FilesIn(u) /\ Covered(st, u)

\* filesys_create keeps the files, at each of its early returns.
LEMMA OKCreate ==
  ASSUME NEW st, OK(map_file, st), NEW n \in Entry, NEW size \in Nat,
         NEW u, u = filesys_create(st, n, size)
  PROVE  /\ Effect(st, u, n) /\ u.table = st.table /\ u.stale = st.stale
         /\ map_file /\ bytes_to_sectors(size) <= D + P + P * P => u.panicked = st.panicked
<1>1. CASE Available(st) = {}
  <2>1. u = Result(st, "error")
    BY <1>1 DEF filesys_create
  <2>2. OK(map_file, u) /\ u.status = "error"
    BY <2>1, OKResult
  <2>3. IsState(st)
    BY DEF OK, TypesIn
  <2>4. u.table = st.table /\ u.dir = st.dir /\ u.panicked = st.panicked /\ u.stale = st.stale
    BY <2>1, <2>3 DEF Result, IsState
  <2> QED
    BY <2>2, <2>4 DEF Effect, FilesIn
<1>2. CASE Available(st) # {}
  <2>1. PICK s : s = Min(Available(st))
    OBVIOUS
  <2>2. PICK b : b = bytes_to_sectors(size)
    OBVIOUS
  <2>3. PICK r : r = inode_reserve(Take(st, {s}), NewInode(size), size)
    OBVIOUS
  <2>4. PICK w : w = r.st
    OBVIOUS
  <2>5. PICK c : c = inode_create(Take(st, {s}), s, size)
    OBVIOUS
  <2>6. c = IF r.ok THEN Result(Write(w, {s}, r.inode), "ok") ELSE Result(w, "error")
    <3>1. ~ size < 0
      OBVIOUS
    <3> QED
      BY <2>3, <2>4, <2>5, <3>1 DEF inode_create
  <2>7. PICK a : a = IF c.status = "ok" THEN dir_add(c, n, s) ELSE c
    OBVIOUS
  <2>8. u = IF a.status = "ok" THEN a ELSE free_map_release(a, {s}, 1)
    BY <1>2, <2>1, <2>5, <2>7 DEF filesys_create
  <2>9. r.inode.length = size /\ b \in Nat /\ IsState(w)
    BY <1>2, <2>1, <2>2, <2>3, <2>4, Creation
  <2>10. PICK t : NewFile(st, n, s, b, r, t) /\ Leaves(st, b, w, t)
    BY <1>2, <2>1, <2>2, <2>3, <2>4, Creation
  <2>20. /\ t.panicked = st.panicked
         /\ w.panicked \in SUBSET Message /\ (b <= D + P + P * P => w.panicked = st.panicked)
         /\ w.disk = t.disk /\ w.map = t.map /\ w.saved = t.saved /\ w.dir = t.dir
         /\ w.open = t.open /\ w.table = t.table /\ w.stale = t.stale /\ w.status = t.status
    BY <2>10 DEF Leaves
  <2>11. /\ w.dir = st.dir /\ w.open = st.open /\ w.table = st.table /\ w.stale = st.stale
         /\ s \in w.map \ st.map /\ s \in Bits \ SystemSectors /\ r.ok \in BOOLEAN /\ r.inode \in Inode
         /\ w.disk \in [Sector -> Block] /\ w.map \subseteq Bits /\ w.saved \subseteq Bits
         /\ map_file => 0 \in w.map /\ w.saved = w.map
    BY <2>10, <2>20 DEF NewFile, Alloc, Ready
  <2> HIDE <2>1, <2>2, <2>3, <2>4, <2>5, <2>7
  <2>12. s # 0 /\ s \in Sector
    BY <2>11, BitsFinite, OKFacts
  <2>13. ASSUME NEW x, IsState(x), u = free_map_release(x, {s}, 1), x.disk \in [Sector -> Block],
                \A y \in Sector : y # s => x.disk[y] = w.disk[y], x.map = w.map, x.saved = w.saved,
                x.dir = st.dir, x.open = st.open, x.table = st.table, x.stale = st.stale,
                x.status = "error", x.panicked = w.panicked
         PROVE  /\ Effect(st, u, n) /\ u.table = st.table /\ u.stale = st.stale
                /\ map_file /\ b <= D + P + P * P => u.panicked = st.panicked
    <3>1. Ready(x)
      BY <2>11, <2>13 DEF Ready
    <3>2. PICK S : S = {s}
      OBVIOUS
    <3>3. Cardinality(S) = 1 /\ S \subseteq x.map
      BY <2>11, <2>13, <3>2, FS_Singleton
    <3>4. /\ IsState(u) /\ u.disk = x.disk /\ u.dir = x.dir /\ u.open = x.open /\ u.table = x.table
          /\ u.stale = x.stale /\ u.status = x.status
          /\ u.map = x.map \ S /\ u.saved \subseteq Bits /\ (map_file => u.saved = u.map)
          /\ S \subseteq x.map /\ Cardinality(S) = 1 => u.panicked = x.panicked
      BY <2>13, <3>1, <3>2, ReleaseEffect
    <3>5. u.panicked = w.panicked
      BY <2>10, <2>20, <2>13, <3>3, <3>4
    <3>6. OK(map_file, u) /\ FilesIn(u) = FilesIn(st)
      <4>1. u.disk \in [Sector -> Block] /\ \A y \in Sector : y # s => u.disk[y] = t.disk[y]
        BY <2>10, <2>20, <2>13, <3>4
      <4>2. u.map = t.map \ {s} /\ u.saved \subseteq Bits /\ (map_file => u.saved = u.map)
        BY <2>10, <2>20, <2>13, <3>2, <3>4
      <4>3. /\ u.dir = st.dir /\ u.open = st.open /\ u.table = st.table /\ u.stale = st.stale
            /\ u.status = "error" /\ Warned(u) /\ IsState(u)
        BY <2>10, <2>20, <2>13, <3>4, <3>5 DEF Warned
      <4>4. NewFile(st, n, s, b, r, t)
        BY <2>10, <2>20
      <4> QED
        BY ONLY <4>1, <4>2, <4>3, <4>4, OK(map_file, st), CreationFails
    <3> QED
      BY <2>10, <2>20, <2>13, <3>4, <3>5, <3>6 DEF Effect
  <2>14. CASE ~ r.ok
    <3>1. c = Result(w, "error")
      BY <2>6, <2>14
    <3>2. /\ IsState(c) /\ c.disk = w.disk /\ c.map = w.map /\ c.saved = w.saved /\ c.dir = w.dir
          /\ c.open = w.open /\ c.table = w.table /\ c.stale = w.stale /\ c.status = "error"
          /\ c.panicked = w.panicked
      BY <2>9, <3>1 DEF Result, IsState
    <3>3. a = c
      BY <2>7, <3>2
    <3>4. u = free_map_release(c, {s}, 1)
      BY <2>8, <3>2, <3>3
    <3> QED
      BY <2>2, <2>11, <2>13, <3>2, <3>4
  <2>15. CASE r.ok
    <3>1. PICK disk2 : disk2 = [x \in Sector |-> IF x \in {s} THEN r.inode ELSE w.disk[x]]
      OBVIOUS
    <3>2. c = Result([w EXCEPT !.disk = disk2], "ok")
      BY <2>6, <2>15, <3>1 DEF Write
    <3>3. /\ IsState(c) /\ c.disk = disk2 /\ c.map = w.map /\ c.saved = w.saved /\ c.dir = w.dir
          /\ c.open = w.open /\ c.table = w.table /\ c.stale = w.stale /\ c.status = "ok"
          /\ c.panicked = w.panicked
      <4> HIDE <3>1
      <4> QED
        BY <2>9, <3>2 DEF Result, IsState
    <3>4. a = dir_add(c, n, s)
      BY <2>7, <3>3
    <3>5. disk2 \in [Sector -> Block] /\ \A y \in Sector : y # s => disk2[y] = w.disk[y]
      BY <2>11, <3>1 DEF Block
    <3>6. CASE st.dir[n] # 0
      <4>1. a = Result(c, "error")
        BY <2>11, <3>3, <3>4, <3>6 DEF dir_add, lookup
      <4>2. /\ IsState(a) /\ a.disk = disk2 /\ a.map = w.map /\ a.saved = w.saved /\ a.dir = w.dir
            /\ a.open = w.open /\ a.table = w.table /\ a.stale = w.stale /\ a.status = "error"
            /\ a.panicked = w.panicked
        BY <3>3, <4>1 DEF Result, IsState
      <4>3. u = free_map_release(a, {s}, 1)
        BY <2>8, <4>2
      <4> QED
        BY <2>2, <2>11, <2>13, <3>5, <4>2, <4>3
    <3>7. CASE st.dir[n] = 0
      <4>1. PICK dir2 : dir2 = [st.dir EXCEPT ![n] = s]
        OBVIOUS
      <4>2. a = Result([c EXCEPT !.dir = dir2], "ok")
        BY <2>11, <3>3, <3>4, <3>7, <4>1 DEF dir_add, lookup
      <4>3. /\ IsState(a) /\ a.disk = disk2 /\ a.map = w.map /\ a.saved = w.saved /\ a.dir = dir2
            /\ a.open = w.open /\ a.table = w.table /\ a.stale = w.stale /\ a.status = "ok"
            /\ a.panicked = w.panicked
        <5> HIDE <4>1
        <5> QED
          BY <3>3, <4>2 DEF Result, IsState
      <4>4. u = a
        BY <2>8, <4>3
      <4>5. OK(map_file, u) /\ FilesIn(u) = FilesIn(st) \cup {n} /\ Covered(st, u)
        <5>1. /\ u.disk = [x \in Sector |-> IF x \in {s} THEN r.inode ELSE t.disk[x]]
              /\ u.map = t.map /\ u.saved = t.saved /\ u.dir = [st.dir EXCEPT ![n] = s]
          BY <2>10, <2>20, <3>1, <4>1, <4>3, <4>4
        <5>2. /\ IsState(u) /\ u.open = st.open /\ u.table = st.table /\ u.stale = st.stale
              /\ u.status = "ok" /\ u.panicked \in SUBSET Message
          BY <2>10, <2>20, <2>11, <4>3, <4>4
        <5>3. NewFile(st, n, s, b, r, t) /\ r.ok /\ b = bytes_to_sectors(r.inode.length)
          BY <2>2, <2>9, <2>10, <2>20, <2>15
        <5> QED
          BY ONLY <3>7, <5>1, <5>2, <5>3, n \in Entry, OK(map_file, st), CreationDone
      <4> QED
        BY <2>2, <2>10, <2>20, <2>11, <4>3, <4>4, <4>5 DEF Effect
    <3> QED
      BY <3>6, <3>7
  <2> QED
    BY <2>11, <2>14, <2>15
<1> QED
  BY <1>1, <1>2

\* A creation with a negative size prints a message and gives the sector back.
LEMMA OKRefused ==
  ASSUME NEW st, OK(map_file, st), NEW n \in Entry, NEW size \in Int, size < 0,
         NEW u, u = filesys_create(st, n, size)
  PROVE  /\ OK(map_file, u) /\ FilesIn(u) = FilesIn(st) /\ u.status = "error"
         /\ u.panicked \ {"inode_create"} = st.panicked \ {"inode_create"}
<1>1. /\ IsState(st) /\ st.map \subseteq Bits /\ st.panicked \in SUBSET Message
      /\ map_file => st.saved = st.map
  BY DEF OK, TypesIn, MapIn
<1>2. CASE Available(st) = {}
  <2>1. u = Result(st, "error")
    BY <1>2 DEF filesys_create
  <2>2. OK(map_file, u) /\ u.status = "error"
    BY <2>1, OKResult
  <2>3. u.dir = st.dir /\ u.panicked = st.panicked
    BY <1>1, <2>1 DEF Result, IsState
  <2> QED
    BY <2>2, <2>3 DEF FilesIn
<1>3. CASE Available(st) # {}
  <2>1. PICK s : s = Min(Available(st))
    OBVIOUS
  <2>2. PICK v : v = Take(st, {s})
    OBVIOUS
  <2>3. PICK new : new = st.panicked \cup {"inode_create"}
    OBVIOUS
  <2>4. PICK c : c = Result([v EXCEPT !.panicked = @ \cup Printed(TRUE, "inode_create")], "error")
    OBVIOUS
  <2>5. Ready(st) /\ map_file
    BY <1>3, OKFacts DEF Available
  <2>6. s \in Available(st) /\ s \in Bits /\ s \notin st.map
    <3>1. Available(st) \subseteq Bits /\ Available(st) \cap st.map = {}
      BY <2>5, AvailableBits
    <3> QED
      BY <1>3, <2>1, <3>1, MinIsLeast, BitsFinite
  <2>7. Alloc(st, v, {}) /\ v.map = st.map \cup {s} /\ v.disk = st.disk
    BY <2>2, <2>5, <2>6, TakeEffect
  <2>8. /\ Ready(v) /\ IsState(v) /\ v.dir = st.dir /\ v.open = st.open /\ v.table = st.table
        /\ v.stale = st.stale /\ v.panicked = st.panicked
    BY <2>7 DEF Alloc, Ready
  <2> HIDE <2>2
  <2>9. /\ IsState(c) /\ c.disk = v.disk /\ c.map = v.map /\ c.saved = v.saved /\ c.dir = v.dir
        /\ c.open = v.open /\ c.table = v.table /\ c.stale = v.stale /\ c.status = "error"
        /\ c.panicked = new
    <3>1. v.panicked \cup Printed(TRUE, "inode_create") = new
      BY <2>3, <2>8 DEF Printed
    <3> HIDE <2>3
    <3> QED
      BY <2>4, <2>8, <3>1 DEF Result, IsState
  <2>10. u = free_map_release(c, {s}, 1)
    <3>1. inode_create(v, s, size) = c
      BY <2>4 DEF inode_create
    <3>2. Result(c, "error").status = "error" /\ c.status # "ok"
      BY <2>9 DEF Result, IsState
    <3> HIDE <2>4
    <3> QED
      BY <1>3, <2>1, <2>2, <3>1, <3>2 DEF filesys_create
  <2> HIDE <2>1, <2>3, <2>4
  <2>11. Ready(c)
    BY <2>8, <2>9 DEF Ready
  <2>12. PICK S : S = {s}
    OBVIOUS
  <2>13. Cardinality(S) = 1 /\ S \subseteq c.map
    BY <2>7, <2>9, <2>12, FS_Singleton
  <2>14. /\ IsState(u) /\ u.disk = c.disk /\ u.dir = c.dir /\ u.open = c.open /\ u.table = c.table
         /\ u.stale = c.stale /\ u.status = c.status
         /\ u.map = c.map \ S /\ (map_file => u.saved = u.map)
         /\ S \subseteq c.map /\ Cardinality(S) = 1 => u.panicked = c.panicked
    BY <2>10, <2>11, <2>12, ReleaseEffect
  <2>15. u.map = st.map /\ u.saved = st.saved
    BY <1>1, <2>5, <2>6, <2>7, <2>9, <2>12, <2>14
  <2>16. u.panicked = new /\ new \in SUBSET Message
    BY <1>1, <2>3, <2>9, <2>13, <2>14 DEF Message
  <2>17. OK(map_file, u)
    <3>1. /\ IsState(u) /\ u.disk = st.disk /\ u.map = st.map /\ u.saved = st.saved /\ u.dir = st.dir
          /\ u.open = st.open /\ u.table = st.table /\ u.stale = st.stale
          /\ u.panicked \in SUBSET Message /\ u.status \in {"ok", "error"}
      BY <2>7, <2>8, <2>9, <2>14, <2>15, <2>16
    <3> QED
      BY ONLY <3>1, OK(map_file, st), OKSame
  <2>18. FilesIn(u) = FilesIn(st)
    BY <2>8, <2>9, <2>14 DEF FilesIn
  <2> QED
    BY <2>3, <2>9, <2>14, <2>16, <2>17, <2>18
<1> QED
  BY <1>2, <1>3

-----------------------------------------------------------------------------
(* Writing to a file.                                                       *)

\* Blocks of longer files.
LEMMA DivMono ==
  ASSUME NEW b \in Nat \ {0}, NEW x \in Nat, NEW y \in Nat, x <= y
  PROVE  x \div b <= y \div b
<1>1. PICK q \in Nat, r \in 0 .. b - 1 : q = x \div b /\ x = b * q + r
  <2>1. x \div b \in Nat /\ x % b \in 0 .. b - 1 /\ x = b * (x \div b) + (x % b)
    BY DivMod
  <2> QED
    BY <2>1
<1>2. PICK q2 \in Nat, r2 \in 0 .. b - 1 : q2 = y \div b /\ y = b * q2 + r2
  <2>1. y \div b \in Nat /\ y % b \in 0 .. b - 1 /\ y = b * (y \div b) + (y % b)
    BY DivMod
  <2> QED
    BY <2>1
<1>3. ~ q2 < q
  <2>1. SUFFICES ASSUME q2 < q PROVE FALSE
    OBVIOUS
  <2>2. b * q2 + b <= b * q
    BY <2>1, NextMultiple
  <2>3. PICK u \in Int, v \in Int : u = b * q /\ v = b * q2
    OBVIOUS
  <2>4. x = u + r /\ y = v + r2 /\ v + b <= u
    BY <1>1, <1>2, <2>2, <2>3
  <2> QED
    BY ONLY <2>4, x <= y, r \in 0 .. b - 1, r2 \in 0 .. b - 1, b \in Nat, u \in Int, v \in Int
<1> QED
  BY <1>1, <1>2, <1>3

\* Longer files have no fewer sectors.
LEMMA SectorsMono ==
  ASSUME NEW x \in Nat, NEW y \in Nat, x <= y
  PROVE  bytes_to_sectors(x) \in Nat /\ bytes_to_sectors(x) <= bytes_to_sectors(y)
<1>1. PICK b \in Nat \ {0} : b = BLOCK_SECTOR_SIZE
  BY GeometryAssumption
<1>2. x + b - 1 \in Nat /\ y + b - 1 \in Nat /\ x + b - 1 <= y + b - 1
  OBVIOUS
<1>3. (x + b - 1) \div b <= (y + b - 1) \div b
  BY <1>2, DivMono
<1>4. (x + b - 1) \div b \in Nat
  BY RoundUp
<1> QED
  BY <1>1, <1>3, <1>4 DEF bytes_to_sectors, DivRoundUp

\* The bytes written are in blocks of the file.
LEMMA BlocksWritten ==
  ASSUME NEW start \in Nat, NEW end \in Nat, NEW length \in Nat, end <= length,
         NEW k \in start \div BLOCK_SECTOR_SIZE .. (end - 1) \div BLOCK_SECTOR_SIZE
  PROVE  k \in 0 .. bytes_to_sectors(length) - 1
<1>1. PICK b \in Nat \ {0} : b = BLOCK_SECTOR_SIZE
  BY GeometryAssumption
<1>2. start \div b \in Nat
  BY DivMod
<1>3. k \in Nat /\ k <= (end - 1) \div b
  BY <1>1, <1>2
<1>4. end # 0
  <2>1. (0 - 1) \div b = -1
    OBVIOUS
  <2> QED
    BY <1>3, <2>1
<1>5. PICK q \in Nat, r \in 0 .. b - 1 : q = (end - 1) \div b /\ end - 1 = b * q + r
  <2>1. PICK x \in Nat : x = end - 1
    BY <1>4
  <2>2. x \div b \in Nat /\ x % b \in 0 .. b - 1 /\ x = b * (x \div b) + (x % b)
    BY DivMod
  <2> QED
    BY <2>1, <2>2
<1>6. PICK m \in Nat : m = bytes_to_sectors(length) /\ length <= b * m
  BY <1>1, RoundUp DEF bytes_to_sectors, DivRoundUp
<1>7. q < m
  <2>1. SUFFICES ASSUME m <= q PROVE FALSE
    OBVIOUS
  <2>2. b * m <= b * q
    <3>1. CASE m = q
      BY <3>1
    <3>2. CASE m < q
      <4>1. b * m + b <= b * q
        BY <3>2, NextMultiple
      <4> QED
        BY <4>1
    <3> QED
      BY <2>1, <3>1, <3>2
  <2>3. PICK u \in Int, v \in Int : u = b * q /\ v = b * m
    OBVIOUS
  <2>4. end - 1 = u + r /\ length <= v /\ v <= u
    BY <1>5, <1>6, <2>2, <2>3
  <2> QED
    BY ONLY <2>4, end <= length, r \in 0 .. b - 1, b \in Nat, end \in Nat, length \in Nat, u \in Int, v \in Int
<1> QED
  BY <1>3, <1>5, <1>6, <1>7

\* State v has the blocks that t took for file n, and its inode in memory is g.
Extended(st, n, s, e, t, g, v) ==
  /\ Alloc(st, t, Indices(st.disk, e)) /\ g \in Inode
  /\ IsState(v) /\ v.disk \in [Sector -> Block]
  /\ \A x \in Sector : x # s => v.disk[x] = t.disk[x]
  /\ v.map = t.map /\ v.saved = t.saved /\ v.dir = st.dir /\ v.open = [st.open EXCEPT ![s] = g]
  /\ v.table = st.table /\ v.stale = st.stale /\ v.status \in {"ok", "error"} /\ v.panicked \in SUBSET Message
  /\ FileIn(v.disk, n, s, g)
  /\ OwnAt(v.disk, s, g) \subseteq OwnAt(st.disk, s, e) \cup (t.map \ st.map)

\* The extension of a file in inode_write_at keeps the files.
LEMMA OKExtended ==
  ASSUME NEW st, OK(map_file, st), NEW n \in st.table, NEW s, s = st.dir[n], NEW e, e = st.open[s],
         NEW t, NEW g, NEW v, Extended(st, n, s, e, t, g, v)
  PROVE  OK(map_file, v) /\ Others(map_file, st, v, n) /\ FilesIn(v) = FilesIn(st)
<1>1. /\ st.dir \in [Entry -> Bits] /\ st.table \subseteq FilesIn(st) /\ st.stale = {}
      /\ DOMAIN st.open = {st.dir[m] : m \in st.table}
  BY DEF OK, TypesIn
<1>2. n \in FilesIn(st) /\ s \in DOMAIN st.open
  BY <1>1
<1>3. e = inode_open(st, s)
  BY <1>2 DEF inode_open
<1>4. Own(st, n) = OwnAt(st.disk, s, e) /\ FileIn(st.disk, n, s, e)
  BY <1>2, <1>3 DEF Own, OK, FileOK
<1>5. PICK X : X = Indices(st.disk, e) \cup {s}
  OBVIOUS
<1>6. X \subseteq {0} \cup Own(st, n)
  <2>1. Indices(st.disk, e) \subseteq {0} \cup OwnAt(st.disk, s, e)
    BY SlotParts DEF Indices, OwnAt
  <2>2. s \in OwnAt(st.disk, s, e)
    BY DEF OwnAt
  <2> QED
    BY <1>4, <1>5, <2>1, <2>2
<1>7. \A m \in FilesIn(st) : m # n => X \cap Own(st, m) = {}
  <2>1. \A m \in FilesIn(st) : 0 \notin Own(st, m)
    BY OKFacts
  <2>2. \A m \in FilesIn(st) : m # n => Own(st, n) \cap Own(st, m) = {}
    BY <1>2 DEF OK
  <2> QED
    BY <1>6, <2>1, <2>2
<1>8. PICK y : y = [disk |-> v.disk, map |-> v.map, saved |-> v.saved, dir |-> v.dir, open |-> st.open,
                    table |-> v.table, stale |-> v.stale, panicked |-> st.panicked, status |-> st.status]
  OBVIOUS
<1>9. /\ IsState(y) /\ y.disk = v.disk /\ y.map = v.map /\ y.saved = v.saved /\ y.dir = v.dir
      /\ y.open = st.open /\ y.table = v.table /\ y.stale = v.stale
      /\ y.panicked = st.panicked /\ y.status = st.status
  BY <1>8 DEF IsState
<1> HIDE <1>8
<1>10. Alloc(st, y, X)
  <2>1. Alloc(st, t, Indices(st.disk, e))
    BY DEF Extended
  <2>2. s # 0 /\ 0 \in Sector
    BY <1>2, OKFacts, SectorZero
  <2>3. Ready(y)
    <3>1. y.disk \in [Sector -> Block] /\ y.map = t.map /\ y.saved = t.saved
      BY <1>9 DEF Extended
    <3>2. Ready(t)
      BY <2>1 DEF Alloc
    <3> QED
      BY <1>9, <3>1, <3>2 DEF Ready
  <2>4. \A x \in Sector : x # 0 /\ x \notin y.map \ st.map /\ x \notin X => y.disk[x] = st.disk[x]
    <3>1. \A x \in Sector : x # s => y.disk[x] = t.disk[x]
      BY <1>9 DEF Extended
    <3>2. y.map = t.map
      BY <1>9 DEF Extended
    <3> QED
      BY <1>5, <2>1, <3>1, <3>2 DEF Alloc
  <2>5. y.disk[0] \in {st.disk[0], Zeros}
    <3>1. y.disk[0] = t.disk[0]
      BY <1>9, <2>2 DEF Extended
    <3> QED
      BY <2>1, <3>1 DEF Alloc
  <2>6. st.map \subseteq y.map /\ y.map \ st.map \subseteq Available(st)
    <3>1. y.map = t.map
      BY <1>9 DEF Extended
    <3> QED
      BY <2>1, <3>1 DEF Alloc
  <2>7. y.dir = st.dir /\ y.table = st.table /\ y.stale = st.stale
    BY <1>9 DEF Extended
  <2> QED
    BY <1>9, <2>3, <2>4, <2>5, <2>6, <2>7 DEF Alloc
<1>11. TypesIn(y) /\ MapIn(map_file, y) /\ Others(map_file, st, y, n) /\ FilesIn(y) = FilesIn(st)
  BY <1>7, <1>10, AllocFrame
<1>12. FilesIn(v) = FilesIn(st)
  BY <1>9, <1>11 DEF FilesIn
<1>13. /\ v.open = [st.open EXCEPT ![s] = g] /\ v.dir = st.dir /\ v.table = st.table /\ v.stale = st.stale
       /\ v.status \in {"ok", "error"} /\ v.panicked \in SUBSET Message /\ IsState(v)
  BY DEF Extended
<1>14. DOMAIN v.open = DOMAIN st.open /\ v.open[s] = g /\ \A x \in DOMAIN st.open : x # s => v.open[x] = st.open[x]
  BY <1>2, <1>13
<1>15. TypesIn(v)
  <2>1. v.table \subseteq FilesIn(v) /\ DOMAIN v.open = {v.dir[m] : m \in v.table}
    BY <1>1, <1>12, <1>13, <1>14
  <2>2. v.disk \in [Sector -> Block] /\ v.map \subseteq Bits /\ v.saved \subseteq Bits
    BY <1>9, <1>11 DEF TypesIn
  <2> QED
    BY <1>1, <1>13, <2>1, <2>2 DEF TypesIn
<1>16. MapIn(map_file, v)
  BY <1>9, <1>11 DEF MapIn
<1>17. Others(map_file, st, v, n)
  <2>1. \A m \in FilesIn(v) : m # n => st.dir[m] # s
    BY <1>2, <1>12, OKFacts
  <2>2. \A x : x # s => inode_open(v, x) = inode_open(y, x)
    BY <1>9, <1>14 DEF inode_open
  <2>3. \A m \in FilesIn(v) : m # n =>
          /\ inode_open(y, st.dir[m]) = inode_open(st, st.dir[m])
          /\ \A x \in Own(st, m) : y.disk[x] = st.disk[x]
          /\ map_file => Own(st, m) \subseteq y.map
    BY <1>11, <1>12 DEF Others
  <2> QED
    BY <1>9, <1>12, <1>13, <2>1, <2>2, <2>3 DEF Others
<1>18. inode_open(v, s) = g /\ v.dir[n] = s
  BY <1>2, <1>13, <1>14 DEF inode_open
<1>19. FileIn(v.disk, n, s, g) /\ OwnAt(v.disk, s, g) \subseteq Own(st, n) \cup (t.map \ st.map)
  BY <1>4 DEF Extended
<1>20. FileOK(v, n) /\ Own(v, n) \subseteq Own(st, n) \cup (t.map \ st.map)
  BY <1>18, <1>19 DEF FileOK, Own
<1>21. Alloc(st, t, Indices(st.disk, e)) /\ v.map = t.map
  BY DEF Extended
<1>22. This(map_file, st, v, n)
  <2>1. map_file => Own(v, n) \subseteq v.map
    <3>1. map_file => Own(st, n) \subseteq st.map
      BY <1>2 DEF OK
    <3> QED
      BY <1>20, <1>21, <3>1 DEF Alloc
  <2>2. t.map \ st.map \subseteq Available(st)
    BY <1>21 DEF Alloc
  <2>3. \A m \in FilesIn(st) : m # n => Own(v, n) \cap Own(st, m) = {}
    <3>1. \A m \in FilesIn(st) : Own(st, m) \cap Available(st) = {}
      BY OKFacts
    <3>2. \A m \in FilesIn(st) : m # n => Own(st, n) \cap Own(st, m) = {}
      BY <1>2 DEF OK
    <3> QED
      BY <1>20, <2>2, <3>1, <3>2
  <2> QED
    BY <1>20, <2>1, <2>3 DEF This
<1>23. OK(map_file, v)
  BY <1>15, <1>16, <1>17, <1>22, OKFrame
<1> QED
  BY <1>12, <1>17, <1>23

\* The bytes themselves.
PutBlocks(t, s, start, end) ==
  {index_to_sector(t.disk, t.open[s], k) :
     k \in start \div BLOCK_SECTOR_SIZE .. (end - 1) \div BLOCK_SECTOR_SIZE}

\* The loop of inode_write_at writes to sectors of its own file.
LEMMA OKPut ==
  ASSUME NEW st, OK(map_file, st), NEW n \in st.table, NEW s, s = st.dir[n],
         NEW start \in Nat, NEW end \in Nat, end <= st.open[s].length,
         NEW u, u = Result(Write(st, PutBlocks(st, s, start, end), Data(n)), "ok")
  PROVE  /\ OK(map_file, u) /\ u.dir = st.dir /\ u.map = st.map /\ u.table = st.table
         /\ u.stale = st.stale /\ u.panicked = st.panicked /\ u.status = "ok"
         /\ Used(st) \subseteq Used(u)
<1>1. PICK e, S : e = st.open[s] /\ S = PutBlocks(st, s, start, end)
  OBVIOUS
<1>2. /\ st.disk \in [Sector -> Block] /\ st.map \subseteq Bits /\ st.saved \subseteq Bits
      /\ st.dir \in [Entry -> Bits] /\ st.table \subseteq FilesIn(st) /\ st.stale = {}
      /\ DOMAIN st.open = {st.dir[m] : m \in st.table}
      /\ st.panicked \in SUBSET Message /\ st.status \in {"ok", "error"} /\ IsState(st)
  BY DEF OK, TypesIn
<1>3. n \in FilesIn(st) /\ s \in DOMAIN st.open /\ n \in Entry
  BY <1>2 DEF FilesIn
<1>4. e = inode_open(st, s)
  BY <1>1, <1>3 DEF inode_open
<1>5. Own(st, n) = OwnAt(st.disk, s, e) /\ FileIn(st.disk, n, s, e)
  BY <1>3, <1>4 DEF Own, OK, FileOK
<1>6. PICK b : b = bytes_to_sectors(e.length)
  OBVIOUS
<1>7. e \in Inode /\ e.length \in Nat /\ end <= e.length /\ st.disk[s].length = e.length
  BY <1>1, <1>5 DEF FileIn, Inode
<1>8. PICK T : T = Tree(st.disk, e)
  OBVIOUS
<1>9. /\ b \in Nat /\ b <= D + P + P * P
      /\ \A p \in Slots(b) : p \in Slot /\ T[p] # 0 /\ SectorAt(st.disk, e, p) = T[p]
  BY <1>5, <1>6, <1>7, <1>8, ReachOf
<1>10. ASSUME NEW x \in S
       PROVE  \E p \in DataSlot : x = T[p] /\ T[p] # 0
  <2>1. PICK k \in start \div BLOCK_SECTOR_SIZE .. (end - 1) \div BLOCK_SECTOR_SIZE :
               x = SectorAt(st.disk, e, BlockSlot(k))
    BY <1>1 DEF PutBlocks, index_to_sector
  <2>2. k \in 0 .. b - 1
    BY <1>6, <1>7, BlocksWritten
  <2>3. BlockSlot(k) \in DataSlot /\ BlockSlot(k) \in Slots(b)
    BY <1>9, <2>2, SlotsIn
  <2> QED
    BY <1>9, <2>1, <2>3
<1>11. /\ \A p \in Slot : T[p] # 0 => T[p] \in Bits \ (SystemSectors \cup {s})
       /\ \A p, q \in Slot : T[p] # 0 /\ T[q] = T[p] => q = p
       /\ \A p \in DataSlot : T[p] # 0 => st.disk[T[p]] \in {Zeros, Data(n)}
  BY <1>5, <1>8 DEF FileIn, TreeOK
<1>12. S \subseteq Own(st, n) /\ S \subseteq Bits \ (SystemSectors \cup {s})
  BY <1>5, <1>8, <1>10, <1>11, SlotParts DEF OwnAt
<1>13. \A p \in IndexSlot : T[p] # 0 => T[p] \notin S
  BY <1>10, <1>11, SlotParts
<1>14. PICK disk2 : disk2 = [x \in Sector |-> IF x \in S THEN Data(n) ELSE st.disk[x]]
  OBVIOUS
<1>15. u = Result([st EXCEPT !.disk = disk2], "ok")
  BY <1>1, <1>14 DEF Write
<1>16. disk2 \in [Sector -> Block]
  BY <1>2, <1>3, <1>14 DEF Block
<1>17. (\A x \in S : disk2[x] = Data(n)) /\ (\A x \in Sector : x \notin S => disk2[x] = st.disk[x])
  BY <1>12, <1>14, BitsFinite
<1> HIDE <1>14
<1>18. /\ IsState(u) /\ u.disk = disk2 /\ u.map = st.map /\ u.saved = st.saved /\ u.dir = st.dir
       /\ u.open = st.open /\ u.table = st.table /\ u.stale = st.stale /\ u.status = "ok"
       /\ u.panicked = st.panicked
  BY <1>2, <1>15 DEF Result, IsState
<1>19. FilesIn(u) = FilesIn(st)
  BY <1>18 DEF FilesIn
<1>20. TypesIn(u)
  BY <1>2, <1>16, <1>18, <1>19 DEF TypesIn
<1>21. 0 \in Sector /\ 0 \notin S
  <2>1. 0 \in SystemSectors
    BY OKFacts
  <2> QED
    BY <1>12, <2>1, SectorZero
<1>22. MapIn(map_file, u)
  BY <1>17, <1>18, <1>21 DEF OK, MapIn
<1>23. s \in Bits \ SystemSectors /\ s \in Sector
  BY <1>5, BitsFinite DEF FileIn
<1>24. disk2[s] = st.disk[s]
  BY <1>12, <1>17, <1>23
<1>25. \A p \in IndexSlot : T[p] # 0 => disk2[T[p]] = st.disk[T[p]]
  <2>1. \A p \in IndexSlot : T[p] # 0 => T[p] \in Sector /\ T[p] \notin S
    BY <1>11, <1>13, SlotParts, BitsFinite
  <2> QED
    BY <1>17, <2>1
<1>26. \A p \in DataSlot : T[p] # 0 => disk2[T[p]] \in {Zeros, Data(n)}
  <2>1. \A p \in DataSlot : T[p] # 0 => T[p] \in Sector
    BY <1>11, SlotParts, BitsFinite
  <2> QED
    BY <1>11, <1>17, <2>1
<1>27. FileIn(disk2, n, s, e) /\ OwnAt(disk2, s, e) = OwnAt(st.disk, s, e)
  BY <1>5, <1>8, <1>24, <1>25, <1>26, FileFrame
<1>28. \A x : inode_open(u, x) = IF x \in DOMAIN st.open THEN st.open[x] ELSE disk2[x]
  BY <1>18 DEF inode_open
<1>29. \A m \in FilesIn(st) : m # n => Own(st, n) \cap Own(st, m) = {}
  BY <1>3 DEF OK
<1>30. \A m \in FilesIn(st) : m # n => \A x \in Own(st, m) : disk2[x] = st.disk[x]
  <2>1. \A m \in FilesIn(st) : Own(st, m) \subseteq Sector
    BY OKFacts, BitsFinite
  <2> QED
    BY <1>12, <1>17, <1>29, <2>1
<1>31. Others(map_file, st, u, n)
  <2>1. \A m \in FilesIn(st) : m # n => inode_open(u, st.dir[m]) = inode_open(st, st.dir[m])
    <3>1. \A m \in FilesIn(st) : st.dir[m] \in Own(st, m)
      BY OKFacts
    <3> QED
      BY <1>28, <1>30, <3>1 DEF inode_open
  <2>2. \A m \in FilesIn(st) : map_file => Own(st, m) \subseteq st.map
    BY DEF OK
  <2> QED
    BY <1>18, <1>19, <1>30, <2>1, <2>2 DEF Others
<1>32. inode_open(u, s) = e
  BY <1>1, <1>3, <1>28
<1>33. FileOK(u, n) /\ Own(u, n) = Own(st, n)
  BY <1>5, <1>18, <1>27, <1>32 DEF FileOK, Own
<1>34. This(map_file, st, u, n)
  BY <1>3, <1>18, <1>29, <1>33 DEF This, OK
<1>35. OK(map_file, u)
  BY <1>20, <1>22, <1>31, <1>34, OKFrame
<1>36. Used(st) \subseteq Used(u)
  <2>1. ASSUME NEW m \in FilesIn(st)
        PROVE  Reach(u.disk, u.dir[m]) = Reach(st.disk, st.dir[m])
    <3>1. CASE m # n
      <4>1. PICK s2, e2 : s2 = st.dir[m] /\ e2 = inode_open(st, s2)
        OBVIOUS
      <4>2. FileIn(st.disk, m, s2, e2) /\ Own(st, m) = OwnAt(st.disk, s2, e2)
        BY <4>1 DEF OK, FileOK, Own
      <4>3. Reach(disk2, s2) = Reach(st.disk, s2)
        BY <1>30, <3>1, <4>2, ReachSame
      <4> QED
        BY <1>18, <4>1, <4>3
    <3>2. CASE m = n
      <4>1. b = bytes_to_sectors(st.disk[s].length) /\ b = bytes_to_sectors(disk2[s].length)
        BY <1>6, <1>7, <1>24
      <4>2. Tree(disk2, e) = T
        BY <1>8, <1>25, TreeFrame
      <4>3. \A p \in Slots(b) : SectorAt(st.disk, st.disk[s], p) = T[p]
        <5>1. PICK dsk : dsk = st.disk
          OBVIOUS
        <5>2. FileIn(dsk, n, s, e) /\ b = bytes_to_sectors(dsk[s].length)
          BY <1>5, <4>1, <5>1
        <5>3. \A p \in Slots(b) : SectorAt(dsk, dsk[s], p) = Tree(dsk, e)[p]
          BY ONLY <5>2, ReachOf
        <5> QED
          BY ONLY <1>8, <5>1, <5>3
      <4>4. \A p \in Slots(b) : SectorAt(disk2, disk2[s], p) = T[p]
        BY <1>27, <4>1, <4>2, ReachOf
      <4>5. InodeBlocks(disk2, disk2[s]) = {T[p] : p \in Slots(b)}
        BY <4>1, <4>4 DEF InodeBlocks
      <4>6. InodeBlocks(st.disk, st.disk[s]) = {T[p] : p \in Slots(b)}
        BY <4>1, <4>3 DEF InodeBlocks
      <4>7. Reach(disk2, s) = Reach(st.disk, s)
        BY <4>5, <4>6 DEF Reach
      <4> QED
        BY <1>18, <3>2, <4>7
    <3> QED
      BY <3>1, <3>2
  <2> QED
    BY <1>19, <2>1 DEF Used
<1> QED
  BY <1>18, <1>35, <1>36

\* A disk without a free sector.
Exhausted(u) == map_file => Bits \subseteq u.map

\* inode_write_at with enough, or not enough, sectors free.
LEMMA OKWriteAt ==
  ASSUME NEW st, OK(map_file, st), NEW n \in st.table, NEW start \in Nat, NEW end \in Nat,
         NEW short \in {"ok", "error"}, NEW u, u = inode_write_at(st, n, start, end, short)
  PROVE  /\ OK(map_file, u) /\ FilesIn(st) \subseteq FilesIn(u)
         /\ bytes_to_sectors(end) <= D + P + P * P =>
              u.panicked = st.panicked /\ (Covered(st, u) \/ Exhausted(u))
<1>1. PICK s : s = st.dir[n]
  OBVIOUS
<1>2. PICK e : e = st.open[s]
  OBVIOUS
<1>3. /\ st.dir \in [Entry -> Bits] /\ st.table \subseteq FilesIn(st)
      /\ DOMAIN st.open = {st.dir[m] : m \in st.table}
      /\ st.panicked \in SUBSET Message /\ IsState(st)
  BY DEF OK, TypesIn
<1>4. n \in FilesIn(st) /\ s \in DOMAIN st.open
  BY <1>1, <1>3
<1>5. e = inode_open(st, s)
  BY <1>2, <1>4 DEF inode_open
<1>6. Own(st, n) = OwnAt(st.disk, s, e) /\ FileIn(st.disk, n, s, e)
  BY <1>1, <1>4, <1>5 DEF Own, OK, FileOK
<1>7. CASE end <= e.length
  <2>1. u = Result(Write(st, PutBlocks(st, s, start, end), Data(n)), "ok")
    BY <1>1, <1>2, <1>7 DEF inode_write_at, lookup, PutBlocks
  <2>2. /\ OK(map_file, u) /\ u.dir = st.dir /\ u.map = st.map /\ u.table = st.table
        /\ u.stale = st.stale /\ u.panicked = st.panicked /\ u.status = "ok"
        /\ Used(st) \subseteq Used(u)
    BY <1>1, <1>2, <1>7, <2>1, OKPut
  <2> QED
    BY <1>4, <2>2 DEF Covered, FilesIn
<1>8. CASE ~ end <= e.length
  <2>1. PICK r : r = inode_reserve(st, e, end)
    OBVIOUS
  <2>2. PICK b : b = bytes_to_sectors(end)
    OBVIOUS
  <2>3. TreeReady(st, e) /\ (SystemSectors \cup {s}) \cap Available(st) = {} /\ s \in Bits \ SystemSectors
    <3>1. s \in Own(st, n) /\ Own(st, n) \cap Available(st) = {} /\ s \in Bits \ SystemSectors
      BY <1>1, <1>4, OKFacts
    <3> QED
      BY <1>1, <1>4, <1>5, <3>1, OKFacts
  <2>4. PICK t : Reserved(st, e, b, r, t)
    BY <2>1, <2>2, <2>3, ReserveEffect
  <2>5. PICK b0 : b0 = bytes_to_sectors(e.length)
    OBVIOUS
  <2>6. e \in Inode /\ e.length \in Nat /\ st.disk[s].length = e.length
    BY <1>6 DEF FileIn, Inode
  <2>7. b \in Nat /\ b0 \in Nat /\ b0 <= b
    <3>1. end <= end /\ e.length <= end
      BY <1>8, <2>6
    <3>2. b0 \in Nat /\ b0 <= b
      BY <2>2, <2>5, <2>6, <3>1, SectorsMono
    <3>3. b \in Nat
      BY <2>2, <3>1, SectorsMono
    <3> QED
      BY <3>2, <3>3
  <2>8. PICK w : w = r.st
    OBVIOUS
  <2>9. /\ IsState(t) /\ IsState(w) /\ t.panicked = st.panicked /\ w.panicked \in SUBSET Message
        /\ w.disk = t.disk /\ w.map = t.map /\ w.saved = t.saved /\ w.dir = t.dir /\ w.open = t.open
        /\ w.table = t.table /\ w.stale = t.stale /\ w.status = t.status
        /\ b <= D + P + P * P => w.panicked = st.panicked
    <3>1. Warned(st)
      BY <1>3 DEF Warned
    <3>2. /\ IsState(t) /\ IsState(w) /\ t.panicked = st.panicked /\ Warned(w)
          /\ w.disk = t.disk /\ w.map = t.map /\ w.saved = t.saved /\ w.dir = t.dir /\ w.open = t.open
          /\ w.table = t.table /\ w.stale = t.stale /\ w.status = t.status
          /\ b <= D + P + P * P => w.panicked = st.panicked
      BY <2>4, <2>7, <2>8, <3>1, ReservedState
    <3> QED
      BY <3>2 DEF Warned
  <2>10. PICK g : g = r.inode
    OBVIOUS
  <2>11. Part(st, e, b, t, g) /\ r.ok \in BOOLEAN
    BY <2>4, <2>10 DEF Reserved
  <2>12. /\ Alloc(st, t, Indices(st.disk, e)) /\ TreeReady(t, g) /\ g \in Inode /\ g.length = e.length
         /\ InodeLeq(e, g) /\ Grow(Slot, st.map, Tree(st.disk, e), t.map, Tree(t.disk, g))
    BY <2>11 DEF Part, TreeReady
  <2>13. /\ t.dir = st.dir /\ t.open = st.open /\ t.table = st.table /\ t.stale = st.stale
         /\ t.status = st.status /\ t.disk \in [Sector -> Block]
    BY <2>12 DEF Alloc, Ready
  <2>14. /\ TreeOK(t.disk, n, s, g) /\ t.disk[s] = st.disk[s]
         /\ OwnAt(t.disk, s, g) \subseteq OwnAt(st.disk, s, e) \cup (t.map \ st.map)
    <3>1. TreeOK(st.disk, n, s, e)
      BY <1>6 DEF FileIn
    <3> QED
      BY <2>3, <2>11, <3>1, PartTree
  <2>15. inode_write_at(st, n, start, end, short) =
           IF r.ok THEN LET v == Extend(w, s, [g EXCEPT !.length = end])
                        IN  Result(Write(v, PutBlocks(v, s, start, end), Data(n)), "ok")
           ELSE Result([w EXCEPT !.open[s] = g], short)
    BY <1>1, <1>2, <1>8, <2>1, <2>8, <2>10 DEF inode_write_at, lookup, PutBlocks
  <2>18. ASSUME ~ r.ok, b <= D + P + P * P, map_file
         PROVE  Bits \subseteq w.map
    <3>1. Synced(st)
      BY <1>3 DEF OK, MapIn, Synced
    <3>2. bytes_to_sectors(end) <= D + P + P * P
      BY <2>2, <2>18
    <3>3. Available(w) = {}
      BY <2>1, <2>8, <2>18, <3>1, <3>2, ReserveFull
    <3> QED
      BY <2>18, <3>3 DEF Available
  <2> HIDE <2>1, <2>2, <2>5, <2>8, <2>10
  <2>16. CASE ~ r.ok
    <3>1. PICK open2 : open2 = [st.open EXCEPT ![s] = g]
      OBVIOUS
    <3>2. u = Result([w EXCEPT !.open = open2], short)
      BY <2>9, <2>13, <2>15, <2>16, <3>1
    <3>3. /\ IsState(u) /\ u.disk = w.disk /\ u.map = w.map /\ u.saved = w.saved /\ u.dir = w.dir
          /\ u.open = open2 /\ u.table = w.table /\ u.stale = w.stale /\ u.status = short
          /\ u.panicked = w.panicked
      <4> HIDE <3>1
      <4> QED
        BY <2>9, <3>2 DEF Result, IsState
    <3>4. FileIn(t.disk, n, s, g)
      BY <1>6, <2>3, <2>11, FileExtended
    <3>5. Extended(st, n, s, e, t, g, u)
      BY <2>9, <2>12, <2>13, <2>14, <3>1, <3>3, <3>4 DEF Extended
    <3>6. OK(map_file, u) /\ FilesIn(u) = FilesIn(st)
      BY <1>1, <1>2, <3>5, OKExtended
    <3>7. b <= D + P + P * P => Exhausted(u)
      BY <2>16, <2>18, <3>3 DEF Exhausted
    <3> QED
      BY <2>2, <2>9, <3>3, <3>6, <3>7
  <2>17. CASE r.ok
    <3>1. PICK f : f = [g EXCEPT !.length = end]
      OBVIOUS
    <3>2. /\ f \in Inode /\ f.length = end
          /\ f.direct = g.direct /\ f.indirect = g.indirect /\ f.doubly = g.doubly
      BY <2>12, <3>1 DEF Inode
    <3>3. PICK open2 : open2 = [st.open EXCEPT ![s] = f]
      OBVIOUS
    <3>4. PICK disk2 : disk2 = [x \in Sector |-> IF x \in {s} THEN f ELSE t.disk[x]]
      OBVIOUS
    <3>5. PICK v : v = [[w EXCEPT !.open = open2] EXCEPT !.disk = disk2]
      OBVIOUS
    <3>6. Extend(w, s, f) = v
      <4>1. [w EXCEPT !.open[s] = f] = [w EXCEPT !.open = open2]
        BY <2>9, <2>13, <3>3
      <4>2. [w EXCEPT !.open = open2].disk = t.disk
        BY <2>9 DEF IsState
      <4> QED
        BY <3>4, <3>5, <4>1, <4>2 DEF Extend, Write
    <3>7. u = Result(Write(v, PutBlocks(v, s, start, end), Data(n)), "ok")
      BY <2>15, <2>17, <3>1, <3>6
    <3>8. /\ IsState(v) /\ v.disk = disk2 /\ v.map = w.map /\ v.saved = w.saved /\ v.dir = w.dir
          /\ v.open = open2 /\ v.table = w.table /\ v.stale = w.stale /\ v.status = w.status
          /\ v.panicked = w.panicked
      <4> HIDE <3>3, <3>4
      <4> QED
        BY <2>9, <3>5 DEF IsState
    <3>9. s \in Sector /\ disk2[s] = f /\ \A x \in Sector : x # s => disk2[x] = t.disk[x]
      BY <2>3, <3>4, BitsFinite
    <3>10. disk2 \in [Sector -> Block]
      BY <2>13, <3>2, <3>4 DEF Block
    <3>11. b <= D + P + P * P /\ Full(st, e, t, g) /\ Complete(b, t.disk, g)
      BY <2>4, <2>10, <2>17 DEF Reserved
    <3>12. FileIn(disk2, n, s, f) /\ OwnAt(disk2, s, f) = OwnAt(t.disk, s, g)
      BY <2>2, <2>3, <2>14, <3>2, <3>9, <3>11, FileWritten
    <3>13. v.status \in {"ok", "error"}
      BY <2>9, <2>13, <3>8 DEF OK, TypesIn
    <3>14. Extended(st, n, s, e, t, f, v)
      <4> HIDE <3>4, <3>5, <3>1
      <4> QED
        BY <2>9, <2>12, <2>13, <2>14, <3>2, <3>3, <3>8, <3>9, <3>10, <3>12, <3>13 DEF Extended
    <3>15. OK(map_file, v) /\ Others(map_file, st, v, n) /\ FilesIn(v) = FilesIn(st)
      BY <1>1, <1>2, <3>14, OKExtended
    <3>16. n \in v.table /\ s = v.dir[n] /\ v.open[s] = f
      BY <1>1, <1>4, <2>9, <2>13, <3>3, <3>8
    <3>17. /\ OK(map_file, u) /\ u.dir = v.dir /\ u.map = v.map /\ u.table = v.table
           /\ u.stale = v.stale /\ u.panicked = v.panicked /\ u.status = "ok"
           /\ Used(v) \subseteq Used(u)
      <4>1. end <= v.open[s].length
        BY <3>2, <3>16
      <4> QED
        BY <3>7, <3>15, <3>16, <4>1, OKPut
    <3>18. Reach(v.disk, s) = {s} \cup {Tree(t.disk, g)[p] : p \in Slots(b)}
      <4>1. b = bytes_to_sectors(disk2[s].length)
        BY <2>2, <3>2, <3>9
      <4>2. \A p \in Slots(b) : SectorAt(disk2, disk2[s], p) = Tree(disk2, f)[p]
        BY ONLY <3>12, <4>1, ReachOf
      <4>3. Tree(disk2, f) = Tree(t.disk, g)
        <5>1. Tree(t.disk, f) = Tree(t.disk, g)
          BY <3>2, TreeSame
        <5>2. \A p \in IndexSlot : Tree(t.disk, g)[p] # 0 => Tree(t.disk, g)[p] \in Bits \ (SystemSectors \cup {s})
          BY <2>14, SlotParts DEF TreeOK
        <5>3. \A p \in IndexSlot : Tree(t.disk, f)[p] # 0 => disk2[Tree(t.disk, f)[p]] = t.disk[Tree(t.disk, f)[p]]
          BY <3>9, <5>1, <5>2, BitsFinite
        <5>4. Tree(disk2, f) = Tree(t.disk, f)
          BY <5>3, TreeFrame
        <5> QED
          BY <5>1, <5>4
      <4>4. InodeBlocks(disk2, disk2[s]) = {SectorAt(disk2, disk2[s], p) : p \in Slots(b)}
        BY <4>1 DEF InodeBlocks
      <4>5. InodeBlocks(disk2, disk2[s]) = {Tree(t.disk, g)[p] : p \in Slots(b)}
        BY <4>2, <4>3, <4>4
      <4> QED
        BY <3>8, <4>5 DEF Reach
    <3>19. Reach(st.disk, s) \subseteq Reach(v.disk, s)
      <4>1. /\ b0 <= D + P + P * P
            /\ \A p \in Slots(b0) : /\ p \in Slot /\ Tree(st.disk, e)[p] # 0
                                    /\ SectorAt(st.disk, st.disk[s], p) = Tree(st.disk, e)[p]
        <5>1. PICK dsk : dsk = st.disk
          OBVIOUS
        <5>2. FileIn(dsk, n, s, e) /\ b0 = bytes_to_sectors(dsk[s].length)
          BY <1>6, <2>5, <2>6, <5>1
        <5>3. /\ b0 <= D + P + P * P
              /\ \A p \in Slots(b0) : p \in Slot /\ Tree(dsk, e)[p] # 0 /\ SectorAt(dsk, dsk[s], p) = Tree(dsk, e)[p]
          BY ONLY <5>2, ReachOf
        <5> QED
          BY ONLY <5>1, <5>3
      <4>2. Slots(b0) \subseteq Slots(b)
        BY <2>7, <3>11, <4>1, SlotsChar, SlotsGrow
      <4>3. \A p \in Slots(b0) : SectorAt(st.disk, st.disk[s], p) = Tree(t.disk, g)[p]
        BY <2>12, <4>1 DEF Grow
      <4>4. InodeBlocks(st.disk, st.disk[s]) = {SectorAt(st.disk, st.disk[s], p) : p \in Slots(b0)}
        BY <2>5, <2>6 DEF InodeBlocks
      <4> QED
        BY <3>18, <4>2, <4>3, <4>4 DEF Reach
    <3>20. t.map \ st.map \subseteq Reach(v.disk, s)
      <4>1. ASSUME NEW x \in t.map \ st.map
            PROVE  \E p \in Slots(b) : Tree(t.disk, g)[p] = x
        <5>1. PICK p \in Slot : Tree(st.disk, e)[p] = 0 /\ Tree(t.disk, g)[p] = x
          BY <3>11, <4>1 DEF Full
        <5>2. x # 0
          <6>1. 0 \notin Available(st)
            BY <2>3, AvailableBits DEF TreeReady
          <6> QED
            BY <2>12, <4>1, <6>1 DEF Alloc
        <5>3. InUse(b, p)
          BY <2>11, <5>1, <5>2 DEF Part
        <5>4. p \in Slots(b)
          BY <2>7, <3>11, <5>3, SlotsChar
        <5> QED
          BY <5>1, <5>4
      <4> QED
        BY <3>18, <4>1
    <3>21. Reach(v.disk, s) \subseteq Used(v)
      BY <1>4, <3>15, <3>16 DEF Used
    <3>22. Used(st) \subseteq Used(v)
      <4>1. ASSUME NEW m \in FilesIn(st), m # n
            PROVE  Reach(st.disk, st.dir[m]) \subseteq Used(v)
        <5>1. PICK s2, e2 : s2 = st.dir[m] /\ e2 = inode_open(st, s2)
          OBVIOUS
        <5>2. FileIn(st.disk, m, s2, e2) /\ Own(st, m) = OwnAt(st.disk, s2, e2)
          BY <5>1 DEF OK, FileOK, Own
        <5>3. v.dir[m] = s2 /\ \A x \in Own(st, m) : v.disk[x] = st.disk[x]
          BY <3>15, <4>1, <5>1 DEF Others
        <5>4. Reach(v.disk, s2) = Reach(st.disk, s2)
          BY <5>2, <5>3, ReachSame
        <5> QED
          BY <3>15, <5>1, <5>3, <5>4 DEF Used
      <4>2. Reach(st.disk, st.dir[n]) \subseteq Used(v)
        BY <1>1, <3>19, <3>21
      <4> QED
        BY <4>1, <4>2 DEF Used
    <3>23. Covered(st, u)
      <4>1. u.map = t.map
        BY <2>9, <3>8, <3>17
      <4> QED
        BY <3>17, <3>20, <3>21, <3>22, <4>1 DEF Covered
    <3>24. FilesIn(u) = FilesIn(st)
      BY <3>15, <3>17 DEF FilesIn
    <3> QED
      BY <2>2, <2>9, <3>8, <3>17, <3>23, <3>24
  <2> QED
    BY <2>11, <2>16, <2>17
<1> QED
  BY <1>7, <1>8

\* fsutil_write: the file is opened first.
LEMMA OKFsWrite ==
  ASSUME NEW st, OK(map_file, st), NEW n \in Entry, NEW start \in Nat, NEW end \in Nat,
         NEW short \in {"ok", "error"}, NEW u, u = fsutil_write(st, n, start, end, short)
  PROVE  /\ OK(map_file, u) /\ FilesIn(st) \subseteq FilesIn(u)
         /\ bytes_to_sectors(end) <= D + P + P * P =>
              /\ u.panicked = st.panicked
              /\ u.status = "ok" => Covered(st, u) \/ Exhausted(u)
<1>1. CASE st.dir[n] = 0
  <2>1. u = Result(st, "error")
    BY <1>1 DEF fsutil_write, lookup
  <2>2. OK(map_file, u) /\ u.status = "error"
    BY <2>1, OKResult
  <2>3. IsState(st)
    BY DEF OK, TypesIn
  <2>4. u.dir = st.dir /\ u.panicked = st.panicked
    BY <2>1, <2>3 DEF Result, IsState
  <2> QED
    BY <2>2, <2>4 DEF FilesIn
<1>2. CASE st.dir[n] # 0
  <2>1. n \in FilesIn(st)
    BY <1>2 DEF FilesIn
  <2>2. PICK v : v = OpenByName(st, n)
    OBVIOUS
  <2>3. /\ OK(map_file, v) /\ n \in v.table
        /\ v.disk = st.disk /\ v.map = st.map /\ v.dir = st.dir /\ v.panicked = st.panicked
    BY <2>1, <2>2, OKOpen
  <2>4. u = inode_write_at(v, n, start, end, short)
    BY <1>2, <2>2 DEF fsutil_write, lookup
  <2>5. /\ OK(map_file, u) /\ FilesIn(v) \subseteq FilesIn(u)
        /\ bytes_to_sectors(end) <= D + P + P * P =>
             u.panicked = v.panicked /\ (Covered(v, u) \/ Exhausted(u))
    BY <2>3, <2>4, OKWriteAt
  <2>6. FilesIn(v) = FilesIn(st)
    BY <2>3 DEF FilesIn
  <2>7. Used(v) = Used(st)
    BY <2>3, <2>6 DEF Used
  <2> QED
    BY <2>3, <2>5, <2>6, <2>7 DEF Covered
<1> QED
  BY <1>1, <1>2

\* Commands that only read leave the files as they are.
Reads(st, u) ==
  /\ OK(map_file, u) /\ u.disk = st.disk /\ u.map = st.map /\ u.dir = st.dir
  /\ u.panicked = st.panicked

\* The status a command returns is not part of what the files are.
LEMMA ReadsResult ==
  ASSUME NEW st, NEW u, Reads(st, u), NEW r \in {"ok", "error"}
  PROVE  Reads(st, Result(u, r))
<1>1. OK(map_file, u)
  BY DEF Reads
<1>2. IsState(u)
  BY <1>1 DEF OK, TypesIn
<1>3. PICK v : v = Result(u, r)
  OBVIOUS
<1>4. v.disk = u.disk /\ v.map = u.map /\ v.dir = u.dir /\ v.panicked = u.panicked
  BY <1>2, <1>3 DEF Result, IsState
<1>5. OK(map_file, v)
  BY <1>1, <1>3, OKResult
<1> QED
  BY <1>3, <1>4, <1>5 DEF Reads

\* A command that only reads loses nothing.
LEMMA ReadsEffect ==
  ASSUME NEW st, NEW u, Reads(st, u)
  PROVE  FilesIn(u) = FilesIn(st) /\ Used(u) = Used(st) /\ Covered(st, u)
<1>1. FilesIn(u) = FilesIn(st)
  BY DEF Reads, FilesIn
<1>2. Used(u) = Used(st)
  BY <1>1 DEF Reads, Used
<1> QED
  BY <1>1, <1>2 DEF Reads, Covered

\* fsutil_cat opens the file, and otherwise only reads.
LEMMA OKCat ==
  ASSUME NEW st, OK(map_file, st), NEW n \in Entry, NEW u, u = fsutil_cat(st, n)
  PROVE  Reads(st, u)
<1>1. Reads(st, st)
  BY DEF Reads
<1>2. CASE n \in st.table
  <2>1. u = Result(st, "ok")
    BY <1>2 DEF fsutil_cat, get_file_by_fname
  <2> QED
    BY <1>1, <2>1, ReadsResult
<1>3. CASE n \notin st.table /\ st.dir[n] = 0
  <2>1. u = Result(st, "ok")
    BY <1>3 DEF fsutil_cat, get_file_by_fname, lookup
  <2> QED
    BY <1>1, <2>1, ReadsResult
<1>4. CASE n \notin st.table /\ st.dir[n] # 0
  <2>1. PICK v : v = OpenByName(st, n)
    OBVIOUS
  <2>2. PICK w : w = remove_from_file_table(v, n)
    OBVIOUS
  <2>3. u = Result(w, "ok")
    BY <1>4, <2>1, <2>2 DEF fsutil_cat, get_file_by_fname, lookup
  <2>4. n \in FilesIn(st)
    BY <1>4 DEF FilesIn
  <2>5. /\ OK(map_file, v)
        /\ v.disk = st.disk /\ v.map = st.map /\ v.dir = st.dir /\ v.panicked = st.panicked
    BY <2>1, <2>4, OKOpen
  <2>6. /\ OK(map_file, w)
        /\ w.disk = v.disk /\ w.map = v.map /\ w.dir = v.dir /\ w.panicked = v.panicked
    BY <2>2, <2>5, OKForget
  <2>7. Reads(st, w)
    BY <2>5, <2>6 DEF Reads
  <2> QED
    BY <2>3, <2>7, ReadsResult
<1> QED
  BY <1>2, <1>3, <1>4

\* The sizes that copy_in and the calls it makes ask for.
LEMMA CopyInFits ==
  ASSUME NEW free \in Nat, NEW size \in Nat, bytes_to_sectors(size + 1) <= D + P + P * P,
         NEW first, first = IF bytes_to_sectors(size) > free THEN 1 ELSE size,
         NEW last, last = IF bytes_to_sectors(size) > free THEN CopyInSize(free) ELSE size + 1
  PROVE  bytes_to_sectors(first) <= D + P + P * P /\ bytes_to_sectors(last) <= D + P + P * P
<1>1. PICK mx \in Int : mx = D + P + P * P
  <2>1. P * P \in Nat /\ D \in Nat /\ P \in Nat
    BY Products, GeometryAssumption DEF P, D
  <2> QED
    BY <2>1
<1>2. bytes_to_sectors(size) \in Nat /\ bytes_to_sectors(size) <= bytes_to_sectors(size + 1)
  BY SectorsMono
<1>3. bytes_to_sectors(1) \in Nat /\ bytes_to_sectors(1) <= bytes_to_sectors(size + 1)
  BY SectorsMono
<1>4. bytes_to_sectors(size + 1) \in Nat
  BY SectorsMono
<1>5. ASSUME bytes_to_sectors(size) > free
      PROVE  bytes_to_sectors(CopyInSize(free)) \in Nat /\ bytes_to_sectors(CopyInSize(free)) <= free
  <2>1. PICK k \in 0 .. free : CopyInSize(free) = BLOCK_SECTOR_SIZE * k
    BY CopyInSizeNat
  <2>2. PICK b \in Nat \ {0} : b = BLOCK_SECTOR_SIZE
    BY GeometryAssumption
  <2>3. PICK a \in Int : a = b * k
    OBVIOUS
  <2>4. (a + b - 1) \div b = k
    <3>1. PICK x \in 0 .. b - 1 : x = b - 1
      OBVIOUS
    <3>2. PICK c : c = b * k + x
      OBVIOUS
    <3>3. c = a + b - 1
      BY <2>3, <3>1, <3>2
    <3>4. c \div b = k
      <4>1. k \in Nat /\ x \in 0 .. b - 1 /\ b \in Nat \ {0}
        OBVIOUS
      <4> QED
        BY ONLY <3>2, <4>1, DivModUnique
    <3> QED
      BY <3>3, <3>4
  <2>5. bytes_to_sectors(CopyInSize(free)) = k
    BY <2>1, <2>2, <2>3, <2>4 DEF bytes_to_sectors, DivRoundUp
  <2> QED
    BY <2>5
<1> QED
  BY <1>1, <1>2, <1>3, <1>4, <1>5

\* copy_in keeps the files, whatever it creates and writes of the host file.
LEMMA OKCopyIn ==
  ASSUME NEW st, OK(map_file, st), NEW n \in Entry, NEW size \in Nat, NEW readable \in BOOLEAN,
         NEW u, u = CopyIn(st, n, size, readable)
  PROVE  /\ OK(map_file, u) /\ FilesIn(st) \subseteq FilesIn(u)
         /\ bytes_to_sectors(size + 1) <= D + P + P * P =>
              /\ map_file => u.panicked = st.panicked
              /\ u.status = "ok" => Covered(st, u) \/ Exhausted(u)
<1>1. PICK free : free = num_free_sectors(st)
  OBVIOUS
<1>2. free \in Nat
  <2>1. IsFiniteSet(Bits \ st.map)
    BY BitsFinite, FS_Subset
  <2> QED
    BY <1>1, <2>1, FS_CardinalityType DEF num_free_sectors
<1>3. PICK first \in Nat, last \in Nat :
        /\ first = IF bytes_to_sectors(size) > free THEN 1 ELSE size
        /\ last = IF bytes_to_sectors(size) > free THEN CopyInSize(free) ELSE size + 1
  <2>1. CopyInSize(free) \in Nat
    BY <1>2, CopyInSizeNat
  <2> QED
    BY <2>1
<1>4. bytes_to_sectors(size + 1) <= D + P + P * P =>
        bytes_to_sectors(first) <= D + P + P * P /\ bytes_to_sectors(last) <= D + P + P * P
  BY <1>2, <1>3, CopyInFits
<1>5. PICK t : t = filesys_create(st, n, first)
  OBVIOUS
<1>6. /\ Effect(st, t, n)
      /\ map_file /\ bytes_to_sectors(first) <= D + P + P * P => t.panicked = st.panicked
  BY <1>5, OKCreate
<1>7. OK(map_file, t) /\ FilesIn(st) \subseteq FilesIn(t) /\ (t.status = "ok" => Covered(st, t))
  BY <1>6 DEF Effect
<1>8. u = CASE t.status # "ok" -> t
            [] t.status = "ok" /\ ~ readable -> Result(t, "error")
            [] t.status = "ok" /\ readable -> fsutil_write(t, n, 0, last, "error")
  BY <1>1, <1>3, <1>5, Zenon DEF CopyIn
<1>9. CASE t.status # "ok"
  BY <1>4, <1>6, <1>7, <1>8, <1>9
<1>10. CASE t.status = "ok" /\ ~ readable
  <2>1. u = Result(t, "error")
    BY <1>8, <1>10
  <2>2. Reads(t, t)
    BY <1>7 DEF Reads
  <2>3. Reads(t, u)
    BY <2>1, <2>2, ReadsResult
  <2>4. FilesIn(u) = FilesIn(t) /\ Covered(t, u)
    BY <2>3, ReadsEffect
  <2> QED
    BY <1>4, <1>6, <1>7, <1>10, <2>3, <2>4, CoveredTrans DEF Reads
<1>11. CASE t.status = "ok" /\ readable
  <2>1. u = fsutil_write(t, n, 0, last, "error")
    BY <1>8, <1>11
  <2>2. /\ OK(map_file, u) /\ FilesIn(t) \subseteq FilesIn(u)
        /\ bytes_to_sectors(last) <= D + P + P * P =>
             /\ u.panicked = t.panicked
             /\ u.status = "ok" => Covered(t, u) \/ Exhausted(u)
    BY <1>7, <2>1, OKFsWrite
  <2>3. Covered(t, u) => Covered(st, u)
    BY <1>7, <1>11, <2>2, CoveredTrans
  <2> QED
    BY <1>4, <1>6, <1>7, <2>2, <2>3
<1> QED
  BY <1>9, <1>10, <1>11

-----------------------------------------------------------------------------
(* The files between commands.                                              *)

\* What holds of the files and of the map, in every state.
FilesInv == map_file \in BOOLEAN /\ OK(map_file, Now)

\* The variables as a record.
LEMMA NowFields ==
  /\ IsState(Now)
  /\ Now.disk = disk /\ Now.map = free_map /\ Now.saved = saved_map /\ Now.dir = dir
  /\ Now.open = open_inodes /\ Now.table = file_table /\ Now.stale = stale
  /\ Now.panicked = panicked /\ Now.status = status
BY DEF Now, IsState

\* A command leaves the variables as the state it is composed of.
LEMMA NowBecomes ==
  ASSUME NEW u, OK(map_file, u), Becomes(u)
  PROVE  Now' = u
<1>1. IsState(u)
  BY DEF OK, TypesIn
<1>2. Now' = [disk |-> disk', map |-> free_map', saved |-> saved_map', dir |-> dir',
              open |-> open_inodes', table |-> file_table', stale |-> stale',
              panicked |-> panicked', status |-> status']
  BY DEF Now
<1> QED
  BY <1>1, <1>2 DEF Becomes, IsState

\* Both inodes of a fresh disk are in place.
LEMMA FormattedInodes == free_map_create \in Inode /\ dir_create \in Inode
<1>1. ASSUME NEW first \in Nat, NEW n \in Nat, first + n <= NumSectors
      PROVE  FormattedInode(first, n) \in Inode
  <2>1. PICK length \in Nat : length = n * BLOCK_SECTOR_SIZE
    BY GeometryAssumption
  <2>2. PICK direct : direct = [i \in 0 .. D - 1 |-> IF i < n THEN first + i ELSE 0]
    OBVIOUS
  <2>3. direct \in [0 .. D - 1 -> Sector]
    BY <1>1, <2>2, SectorZero, GeometryAssumption DEF Sector, D
  <2>4. FormattedInode(first, n) = [NewInode(length) EXCEPT !.direct = direct]
    BY <2>1, <2>2 DEF FormattedInode
  <2> HIDE <2>1, <2>2
  <2> QED
    BY <2>1, <2>3, <2>4, SectorZero DEF NewInode, Inode
<1>2. free_map_create \in Inode
  <2>1. 2 + 1 <= NumSectors
    BY GeometryAssumption
  <2> QED
    BY <1>1, <2>1 DEF free_map_create
<1>3. dir_create \in Inode
  <2>1. RootBlocks \in Nat /\ 3 + RootBlocks <= NumSectors
    BY GeometryAssumption
  <2> QED
    BY <1>1, <2>1 DEF dir_create
<1> QED
  BY <1>2, <1>3

\* A formatted disk has no files.
LEMMA InitFiles == Init => FilesInv
<1> SUFFICES ASSUME Init PROVE FilesInv
  OBVIOUS
<1>1. PICK st : st = Now
  OBVIOUS
<1>2. /\ IsState(st) /\ st.disk = disk /\ st.map = SystemSectors /\ st.saved = SystemSectors
      /\ st.dir = [n \in Entry |-> 0] /\ st.open = [s \in {} |-> Zeros] /\ st.table = {} /\ st.stale = {}
      /\ st.panicked = {} /\ st.status = "ok" /\ map_file = TRUE
  BY <1>1, NowFields DEF Init
<1>3. FilesIn(st) = {}
  BY <1>2 DEF FilesIn
<1>4. SystemSectors \subseteq Bits /\ 0 \in Bits
  BY GeometryAssumption DEF SystemSectors, Bits
<1>5. 0 \in Sector /\ 1 \in Sector
  BY GeometryAssumption DEF Sector
<1>6. disk \in [Sector -> Block] /\ disk[0] = free_map_create
  <2>1. disk = [s \in Sector |-> IF s = 0 THEN free_map_create ELSE IF s = 1 THEN dir_create ELSE Zeros]
    BY DEF Init, FREE_MAP_SECTOR, ROOT_DIR_SECTOR
  <2>2. free_map_create \in Block /\ dir_create \in Block /\ Zeros \in Block
    BY FormattedInodes, ZerosIsBlock DEF Block
  <2> QED
    BY <1>5, <2>1, <2>2
<1>7. TypesIn(st)
  <2>1. st.dir \in [Entry -> Bits]
    BY <1>2, <1>4
  <2>2. DOMAIN st.open = {st.dir[m] : m \in st.table}
    BY <1>2
  <2> QED
    BY <1>2, <1>4, <1>6, <2>1, <2>2 DEF TypesIn
<1>8. MapIn(map_file, st)
  BY <1>2, <1>6 DEF MapIn
<1> QED
  BY <1>1, <1>2, <1>3, <1>7, <1>8 DEF FilesInv, OK

\* The lengths that the commands are given are those of files with no more blocks
\* than an inode can point to; for others inode_reserve has an ASSERT.
LengthsFit == \A size \in Sizes : bytes_to_sectors(size + 1) <= D + P + P * P

\* What a command that removes no file does.
Adds(st, u) ==
  /\ OK(map_file, u) /\ FilesIn(st) \subseteq FilesIn(u)
  /\ LengthsFit => /\ u.status = "ok" => Covered(st, u) \/ Exhausted(u)
                   /\ map_file => u.panicked \ {"inode_create"} = st.panicked \ {"inode_create"}

\* A command that only reads is one that removes nothing.
LEMMA ReadsAdds ==
  ASSUME NEW st, NEW u, Reads(st, u)
  PROVE  Adds(st, u)
<1>1. FilesIn(u) = FilesIn(st) /\ Covered(st, u)
  BY ReadsEffect
<1> QED
  BY <1>1 DEF Reads, Adds

\* What opening a file for the table comes to.
LEMMA OpenReads ==
  ASSUME NEW st, OK(map_file, st), NEW n \in Entry, st.dir[n] # 0, NEW r \in {"ok", "error"}
  PROVE  Reads(st, Result(OpenByName(st, n), r))
<1>1. PICK v : v = OpenByName(st, n)
  OBVIOUS
<1>2. n \in FilesIn(st)
  BY DEF FilesIn
<1>3. Reads(st, v)
  BY <1>1, <1>2, OKOpen DEF Reads
<1> QED
  BY <1>1, <1>3, ReadsResult

\* The lengths that fit have no more blocks than that.
LEMMA LengthFits ==
  ASSUME LengthsFit, NEW size \in Sizes
  PROVE  bytes_to_sectors(size) <= D + P + P * P
<1>1. PICK mx \in Int : mx = D + P + P * P
  <2>1. P * P \in Nat /\ D \in Nat /\ P \in Nat
    BY Products, GeometryAssumption DEF P, D
  <2> QED
    BY <2>1
<1>2. size \in Nat
  BY SizesAssumption
<1>3. bytes_to_sectors(size) \in Nat /\ bytes_to_sectors(size) <= bytes_to_sectors(size + 1)
  BY <1>2, SectorsMono
<1>4. bytes_to_sectors(size + 1) \in Nat
  BY <1>2, SectorsMono
<1>5. bytes_to_sectors(size + 1) <= mx
  BY <1>1 DEF LengthsFit
<1> QED
  BY <1>1, <1>3, <1>4, <1>5

\* Every command but rm.
LEMMA AddingStep ==
  ASSUME FilesInv, NEW n \in Name,
         create(n) \/ write(n) \/ open(n) \/ cat(n) \/ copy_in(n) \/ copy_out(n)
  PROVE  \E u : Adds(Now, u) /\ Becomes(u) /\ UNCHANGED map_file
<1>1. PICK st : st = Now /\ OK(map_file, st) /\ st.dir = dir
  BY NowFields DEF FilesInv
<1>2. n \in Entry
  BY DEF Entry
<1>3. CASE create(n)
  <2>1. PICK size \in Sizes \cup {-1} : Becomes(filesys_create(st, n, size)) /\ UNCHANGED map_file
    BY <1>1, <1>3 DEF create
  <2>2. PICK u : u = filesys_create(st, n, size)
    OBVIOUS
  <2>3. ASSUME size \in Sizes
        PROVE  Adds(st, u)
    <3>1. size \in Nat
      BY <2>3, SizesAssumption
    <3>2. /\ Effect(st, u, n)
          /\ map_file /\ bytes_to_sectors(size) <= D + P + P * P => u.panicked = st.panicked
      BY <1>1, <1>2, <2>2, <3>1, OKCreate
    <3> QED
      BY <2>3, <3>2, LengthFits DEF Adds, Effect
  <2>4. ASSUME size = -1
        PROVE  Adds(st, u)
    <3>1. size \in Int /\ size < 0
      BY <2>4
    <3>2. /\ OK(map_file, u) /\ FilesIn(u) = FilesIn(st) /\ u.status = "error"
          /\ u.panicked \ {"inode_create"} = st.panicked \ {"inode_create"}
      BY <1>1, <1>2, <2>2, <3>1, OKRefused
    <3> QED
      BY <3>2 DEF Adds
  <2>5. Adds(st, u)
    BY <2>3, <2>4
  <2> QED
    BY <1>1, <2>1, <2>2, <2>5
<1>4. CASE write(n)
  <2>1. PICK end \in Sizes \ {0}, start \in Sizes \cup {0} :
          start < end /\ Becomes(fsutil_write(st, n, start, end, "ok")) /\ UNCHANGED map_file
    BY <1>1, <1>4 DEF write
  <2>2. PICK u : u = fsutil_write(st, n, start, end, "ok")
    OBVIOUS
  <2>3. start \in Nat /\ end \in Nat /\ end \in Sizes
    BY SizesAssumption
  <2>4. /\ OK(map_file, u) /\ FilesIn(st) \subseteq FilesIn(u)
        /\ bytes_to_sectors(end) <= D + P + P * P =>
             /\ u.panicked = st.panicked
             /\ u.status = "ok" => Covered(st, u) \/ Exhausted(u)
    BY <1>1, <1>2, <2>2, <2>3, OKFsWrite
  <2>5. Adds(st, u)
    BY <2>3, <2>4, LengthFits DEF Adds
  <2> QED
    BY <1>1, <2>1, <2>2, <2>5
<1>5. CASE open(n)
  <2>1. PICK u : u = IF dir[n] = 0 THEN Result(st, "error") ELSE Result(OpenByName(st, n), "ok")
    OBVIOUS
  <2>2. Becomes(u) /\ UNCHANGED map_file
    BY <1>1, <1>5, <2>1 DEF open
  <2>3. Reads(st, st)
    BY <1>1 DEF Reads
  <2>4. Reads(st, u)
    BY <1>1, <1>2, <2>1, <2>3, ReadsResult, OpenReads
  <2> QED
    BY <1>1, <2>2, <2>4, ReadsAdds
<1>6. CASE cat(n)
  <2>1. PICK u : u = fsutil_cat(st, n)
    OBVIOUS
  <2>2. Becomes(u) /\ UNCHANGED map_file
    BY <1>1, <1>6, <2>1 DEF cat
  <2>3. Reads(st, u)
    BY <1>1, <1>2, <2>1, OKCat
  <2> QED
    BY <1>1, <2>2, <2>3, ReadsAdds
<1>7. CASE copy_in(n)
  <2>1. PICK size \in Sizes, readable \in BOOLEAN : Becomes(CopyIn(st, n, size, readable)) /\ UNCHANGED map_file
    BY <1>1, <1>7 DEF copy_in
  <2>2. PICK u : u = CopyIn(st, n, size, readable)
    OBVIOUS
  <2>3. size \in Nat
    BY SizesAssumption
  <2>4. /\ OK(map_file, u) /\ FilesIn(st) \subseteq FilesIn(u)
        /\ bytes_to_sectors(size + 1) <= D + P + P * P =>
             /\ map_file => u.panicked = st.panicked
             /\ u.status = "ok" => Covered(st, u) \/ Exhausted(u)
    BY <1>1, <1>2, <2>2, <2>3, OKCopyIn
  <2>5. Adds(st, u)
    BY <2>4 DEF Adds, LengthsFit
  <2> QED
    BY <1>1, <2>1, <2>2, <2>5
<1>8. CASE copy_out(n)
  <2>1. PICK r \in {"ok", "error"} :
          dir[n] # 0 /\ Becomes(Result(OpenByName(st, n), r)) /\ UNCHANGED map_file
    BY <1>1, <1>8 DEF copy_out
  <2>2. PICK u : u = Result(OpenByName(st, n), r)
    OBVIOUS
  <2>3. Reads(st, u)
    BY <1>1, <1>2, <2>1, <2>2, OpenReads
  <2> QED
    BY <1>1, <2>1, <2>2, <2>3, ReadsAdds
<1> QED
  BY <1>3, <1>4, <1>5, <1>6, <1>7, <1>8

\* What rm does: the sectors of the file, and no others, are free.
Removes(st, u, n) ==
  /\ OK(map_file, u) /\ u.disk = st.disk /\ (map_file => u.panicked = st.panicked)
  /\ \/ st.dir[n] = 0 /\ u.dir = st.dir /\ u.map = st.map
     \/ /\ st.dir[n] # 0 /\ u.dir = [st.dir EXCEPT ![n] = 0]
        /\ u.map = st.map \ Reach(st.disk, st.dir[n])

\* The rm command closes the file and removes it, or fails without a change.
LEMMA RemovingStep ==
  ASSUME FilesInv, NEW n \in Name, rm(n)
  PROVE  \E u : Removes(Now, u, n) /\ Becomes(u) /\ UNCHANGED map_file
<1>1. PICK st : st = Now /\ OK(map_file, st)
  BY DEF FilesInv
<1>2. n \in Entry
  BY DEF Entry
<1>3. PICK v : v = remove_from_file_table(st, n)
  OBVIOUS
<1>4. PICK u : u = filesys_remove(v, n)
  OBVIOUS
<1>5. Becomes(u) /\ UNCHANGED map_file
  BY <1>1, <1>3, <1>4 DEF rm
<1>6. /\ OK(map_file, v) /\ v.table = st.table \ {n}
      /\ v.disk = st.disk /\ v.map = st.map /\ v.dir = st.dir /\ v.panicked = st.panicked
  BY <1>1, <1>3, OKForget
<1>7. /\ OK(map_file, u) /\ (map_file => u.panicked = v.panicked) /\ u.disk = v.disk
      /\ v.dir[n] = 0 => u.dir = v.dir /\ u.map = v.map
      /\ v.dir[n] # 0 => u.dir = [v.dir EXCEPT ![n] = 0] /\ u.map = v.map \ Reach(v.disk, v.dir[n])
  BY <1>2, <1>4, <1>6, OKRemove
<1>8. Removes(st, u, n)
  BY <1>6, <1>7 DEF Removes
<1> QED
  BY <1>1, <1>5, <1>8

\* A restart reads the map that was saved, unless sector 0 holds no inode.
LEMMA RestartStep ==
  ASSUME FilesInv, restart
  PROVE  /\ FilesInv' /\ (map_file' => map_file /\ free_map' = free_map)
         /\ map_file' => panicked' = panicked
         /\ disk' = disk /\ dir' = dir
<1>1. PICK st : st = Now
  OBVIOUS
<1>2. /\ IsState(st) /\ st.disk = disk /\ st.map = free_map /\ st.saved = saved_map /\ st.dir = dir
      /\ st.open = open_inodes /\ st.table = file_table /\ st.stale = stale
      /\ st.panicked = panicked /\ st.status = status
  BY <1>1, NowFields
<1>3. OK(map_file, st) /\ map_file \in BOOLEAN
  BY <1>1 DEF FilesInv
<1>4. PICK mf : mf = map_file'
  OBVIOUS
<1>5. PICK u : u = Now'
  OBVIOUS
<1>6. /\ mf = (disk[0].kind = "inode") /\ disk' = disk /\ saved_map' = saved_map /\ dir' = dir
      /\ free_map' = (IF mf THEN saved_map ELSE free_map_init)
      /\ panicked' = panicked \cup Printed(~ mf, "free_map_open") /\ open_inodes' = [s \in {} |-> Zeros] /\ file_table' = {}
      /\ stale' = {} /\ status' = "ok"
  BY <1>4 DEF restart, free_map_open, FREE_MAP_SECTOR
<1>7. /\ IsState(u) /\ u.disk = disk' /\ u.map = free_map' /\ u.saved = saved_map' /\ u.dir = dir'
      /\ u.open = open_inodes' /\ u.table = file_table' /\ u.stale = stale'
      /\ u.panicked = panicked' /\ u.status = status'
  BY <1>5 DEF Now, IsState
<1>8. /\ st.disk \in [Sector -> Block] /\ st.map \subseteq Bits /\ st.saved \subseteq Bits
      /\ st.dir \in [Entry -> Bits] /\ st.panicked \in SUBSET Message
      /\ map_file => SystemSectors \subseteq st.map /\ st.saved = st.map
      /\ st.disk[0] \in {free_map_create, Zeros} /\ (~ map_file => st.disk[0] = Zeros)
  BY <1>3 DEF OK, TypesIn, MapIn
<1>9. mf \in BOOLEAN /\ (mf => disk[0] = free_map_create /\ map_file) /\ (~ mf => disk[0] = Zeros)
  <2>1. Zeros.kind # "inode"
    BY DEF Zeros
  <2>2. free_map_create.kind = "inode"
    BY FormattedInodes DEF Inode
  <2> QED
    BY <1>2, <1>3, <1>6, <1>8, <2>1, <2>2
<1>10. FilesIn(u) = FilesIn(st)
  BY <1>2, <1>6, <1>7 DEF FilesIn
<1>11. free_map_init \subseteq Bits
  BY GeometryAssumption DEF free_map_init, Bits, FREE_MAP_SECTOR, ROOT_DIR_SECTOR
<1>12. TypesIn(u)
  <2>1. u.map \subseteq Bits
    BY <1>2, <1>6, <1>7, <1>8, <1>11
  <2>2. DOMAIN u.open = {u.dir[m] : m \in u.table}
    BY <1>6, <1>7
  <2>3. u.panicked \in SUBSET Message
    BY <1>2, <1>6, <1>7, <1>8 DEF Printed, Message
  <2> QED
    BY <1>2, <1>6, <1>7, <1>8, <2>1, <2>2, <2>3 DEF TypesIn
<1>13. MapIn(mf, u)
  BY <1>2, <1>6, <1>7, <1>8, <1>9 DEF MapIn
<1>14. mf => u.map = st.map
  BY <1>2, <1>6, <1>7, <1>8, <1>9
<1>15. ASSUME NEW n \in FilesIn(u)
       PROVE  /\ n \in FilesIn(st) /\ FileOK(u, n) /\ Own(u, n) \subseteq Own(st, n)
              /\ mf => Own(u, n) \subseteq u.map
  <2>1. PICK s, e : s = st.dir[n] /\ e = inode_open(st, s)
    OBVIOUS
  <2>2. n \in FilesIn(st) /\ u.dir[n] = s /\ u.disk = st.disk
    BY <1>2, <1>6, <1>7, <1>10, <2>1
  <2>3. inode_open(u, s) = st.disk[s]
    BY <1>6, <1>7, <2>2 DEF inode_open
  <2>4. FileIn(st.disk, n, s, e) /\ Own(st, n) = OwnAt(st.disk, s, e)
        /\ (map_file => Own(st, n) \subseteq st.map)
    BY <1>3, <2>1, <2>2 DEF OK, FileOK, Own
  <2>5. FileIn(st.disk, n, s, st.disk[s]) /\ OwnAt(st.disk, s, st.disk[s]) \subseteq OwnAt(st.disk, s, e)
    BY <2>4, FileClosed
  <2>6. FileOK(u, n) /\ Own(u, n) = OwnAt(st.disk, s, st.disk[s])
    BY <2>2, <2>3, <2>5 DEF FileOK, Own
  <2> QED
    BY <1>9, <1>14, <2>2, <2>4, <2>5, <2>6
<1>16. \A n, m \in FilesIn(u) : n # m => Own(u, n) \cap Own(u, m) = {}
  <2>1. \A n, m \in FilesIn(st) : n # m => Own(st, n) \cap Own(st, m) = {}
    BY <1>3 DEF OK
  <2> QED
    BY <1>15, <2>1
<1>17. OK(mf, u)
  BY <1>12, <1>13, <1>15, <1>16 DEF OK
<1>18. FilesInv'
  BY <1>4, <1>5, <1>9, <1>17 DEF FilesInv
<1>19. mf => map_file /\ free_map' = free_map
  BY <1>2, <1>7, <1>9, <1>14
<1>20. ASSUME mf
       PROVE  panicked' = panicked
  <2>1. panicked' = panicked \cup Printed(~ mf, "free_map_open")
    BY <1>6
  <2> QED
    BY <1>20, <2>1 DEF Printed
<1> QED
  BY <1>4, <1>6, <1>18, <1>19, <1>20

\* A step is one of these.
LEMMA StepIs ==
  ASSUME FilesInv, [Next]_vars
  PROVE  \/ \E u : Adds(Now, u) /\ Becomes(u) /\ UNCHANGED map_file
         \/ \E n \in Name : \E u : Removes(Now, u, n) /\ Becomes(u) /\ UNCHANGED map_file
         \/ restart
         \/ UNCHANGED vars
<1>1. CASE UNCHANGED vars
  BY <1>1
<1>2. CASE restart
  BY <1>2
<1>3. CASE \E n \in Name : create(n) \/ write(n) \/ open(n) \/ cat(n) \/ copy_in(n) \/ copy_out(n)
  BY <1>3, AddingStep
<1>4. CASE \E n \in Name : rm(n)
  BY <1>4, RemovingStep
<1> QED
  BY <1>1, <1>2, <1>3, <1>4 DEF Next

\* Every command keeps the files and the map in order.
LEMMA StepFiles == FilesInv /\ [Next]_vars => FilesInv'
<1> SUFFICES ASSUME FilesInv, [Next]_vars
             PROVE  FilesInv'
  OBVIOUS
<1>1. ASSUME NEW u, OK(map_file, u), Becomes(u), UNCHANGED map_file
      PROVE  FilesInv'
  <2>1. Now' = u
    BY <1>1, NowBecomes
  <2> QED
    BY <1>1, <2>1 DEF FilesInv
<1>2. CASE \E u : Adds(Now, u) /\ Becomes(u) /\ UNCHANGED map_file
  BY <1>1, <1>2 DEF Adds
<1>3. CASE \E n \in Name : \E u : Removes(Now, u, n) /\ Becomes(u) /\ UNCHANGED map_file
  BY <1>1, <1>3 DEF Removes
<1>4. CASE restart
  BY <1>4, RestartStep
<1>5. CASE UNCHANGED vars
  <2>1. Now' = Now /\ map_file' = map_file
    BY <1>5 DEF vars, Now
  <2> QED
    BY <2>1 DEF FilesInv
<1> QED
  BY <1>2, <1>3, <1>4, <1>5, StepIs

\* The files and the free map fit together in every state: each file's sectors form
\* a tree of its own, marked in the map, whatever sequence of creations, writes,
\* removals and restarts came before, and wherever one ran out of space.
THEOREM FilesStay == Spec => []FilesInv
<1>1. Init => FilesInv
  BY InitFiles
<1>2. FilesInv /\ [Next]_vars => FilesInv'
  BY StepFiles
<1> QED
  BY <1>1, <1>2, PTL DEF Spec

-----------------------------------------------------------------------------
(* What follows for the properties of FileSys.                              *)

\* One file, in the terms of the properties.
LEMMA FileFacts ==
  ASSUME FilesInv, NEW n \in Files
  PROVE  /\ n \in FilesIn(Now) /\ SectorsOf(n) = Reach(disk, dir[n])
         /\ \E e : /\ e = inode_open(Now, dir[n]) /\ FileIn(disk, n, dir[n], e)
                   /\ Own(Now, n) = OwnAt(disk, dir[n], e)
         /\ SectorsOf(n) \subseteq Own(Now, n)
         /\ Cardinality(SectorsOf(n)) = Cardinality(Slots(bytes_to_sectors(disk[dir[n]].length))) + 1
<1>1. PICK st : st = Now /\ st.disk = disk /\ st.dir = dir /\ OK(map_file, st)
  BY NowFields DEF FilesInv
<1>2. n \in FilesIn(st)
  BY <1>1 DEF Files, FilesIn
<1>3. PICK s, e : s = dir[n] /\ e = inode_open(st, s)
  OBVIOUS
<1>4. FileIn(disk, n, s, e) /\ Own(st, n) = OwnAt(disk, s, e)
  BY <1>1, <1>2, <1>3 DEF OK, FileOK, Own
<1>5. SectorsOf(n) = Reach(disk, s)
  BY <1>3 DEF SectorsOf, Reach
<1>6. PICK b : b = bytes_to_sectors(disk[s].length)
  OBVIOUS
<1>7. Reach(disk, s) \subseteq OwnAt(disk, s, e) /\ Cardinality(Reach(disk, s)) = Cardinality(Slots(b)) + 1
  BY <1>4, <1>6, ReachOf
<1> QED
  BY <1>1, <1>2, <1>3, <1>4, <1>5, <1>6, <1>7

\* The types follow from the files' order.
LEMMA FilesType == FilesInv => TypeOK
<1> SUFFICES ASSUME FilesInv PROVE TypeOK
  OBVIOUS
<1>1. /\ disk \in [Sector -> Block] /\ free_map \subseteq Bits /\ saved_map \subseteq Bits
      /\ dir \in [Entry -> Bits] /\ file_table \subseteq FilesIn(Now) /\ stale = {}
      /\ DOMAIN open_inodes = {dir[n] : n \in file_table}
      /\ panicked \subseteq Message /\ status \in {"ok", "error"} /\ map_file \in BOOLEAN
  BY NowFields DEF FilesInv, OK, TypesIn
<1>2. FilesIn(Now) = Files
  BY NowFields DEF FilesIn, Files
<1>3. file_table \subseteq Entry
  BY <1>1, <1>2 DEF Files
<1>4. DOMAIN open_inodes \subseteq Bits
  BY <1>1, <1>3
<1>5. ASSUME NEW s \in DOMAIN open_inodes
      PROVE  open_inodes[s] \in Inode
  <2>1. PICK n \in file_table : s = dir[n]
    BY <1>1
  <2>2. FileIn(disk, n, dir[n], inode_open(Now, dir[n]))
    BY <1>1, <1>2, FileFacts
  <2>3. inode_open(Now, dir[n]) = open_inodes[s]
    BY <2>1, NowFields DEF inode_open
  <2> QED
    BY <2>2, <2>3 DEF FileIn
<1> QED
  BY <1>1, <1>3, <1>4, <1>5 DEF TypeOK

\* The sectors that a file uses are among its own, which are marked.
LEMMA FilesMarked == FilesInv => UsedIsMarked
<1> SUFFICES ASSUME FilesInv, map_file
             PROVE  SystemSectors \cup UNION {SectorsOf(n) : n \in Files} \subseteq free_map
  BY DEF UsedIsMarked
<1>1. OK(map_file, Now) /\ Now.map = free_map
  BY NowFields DEF FilesInv
<1>2. SystemSectors \subseteq free_map
  BY <1>1 DEF OK, MapIn
<1>3. ASSUME NEW n \in Files
      PROVE  SectorsOf(n) \subseteq free_map
  <2>1. n \in FilesIn(Now) /\ SectorsOf(n) \subseteq Own(Now, n)
    BY FileFacts
  <2> QED
    BY <1>1, <2>1 DEF OK
<1> QED
  BY <1>2, <1>3

\* And they are distinct, since the blocks up to the length are.
LEMMA FilesApart == FilesInv => NoSharing
<1> SUFFICES ASSUME FilesInv PROVE NoSharing
  OBVIOUS
<1>1. OK(map_file, Now)
  BY DEF FilesInv
<1>2. ASSUME NEW n \in Files
      PROVE  /\ SectorsOf(n) \cap SystemSectors = {}
             /\ Cardinality(SectorsOf(n)) = Cardinality(Slots(bytes_to_sectors(disk[dir[n]].length))) + 1
             /\ \A m \in Files \ {n} : SectorsOf(n) \cap SectorsOf(m) = {}
  <2>1. /\ n \in FilesIn(Now) /\ SectorsOf(n) \subseteq Own(Now, n)
        /\ Cardinality(SectorsOf(n)) = Cardinality(Slots(bytes_to_sectors(disk[dir[n]].length))) + 1
    BY FileFacts
  <2>2. \A m \in Files : m \in FilesIn(Now) /\ SectorsOf(m) \subseteq Own(Now, m)
    BY FileFacts
  <2>3. Own(Now, n) \subseteq Bits \ SystemSectors
    BY <1>1, <2>1, OKFacts
  <2>4. \A m \in FilesIn(Now) : n # m => Own(Now, n) \cap Own(Now, m) = {}
    BY <1>1, <2>1 DEF OK
  <2> QED
    BY <2>1, <2>2, <2>3, <2>4
<1> QED
  BY <1>2 DEF NoSharing

\* Each holds what its place in the file calls for.
LEMMA FilesKept == FilesInv => ContentsKept
<1> SUFFICES ASSUME FilesInv, NEW n \in Files
             PROVE  LET inode == disk[dir[n]]
                        blocks == get_inode_data_sectors(disk, inode)
                        data == {blocks[k] : k \in DOMAIN blocks}
                    IN  /\ \A s \in data : disk[s] \in {Zeros, Data(n)}
                        /\ \A s \in InodeBlocks(disk, inode) \ data : disk[s].kind = "index"
  BY DEF ContentsKept
<1> DEFINE inode == disk[dir[n]]
           blocks == get_inode_data_sectors(disk, inode)
           data == {blocks[k] : k \in DOMAIN blocks}
<1>1. PICK s, e : s = dir[n] /\ FileIn(disk, n, s, e)
  BY FileFacts
<1>2. PICK b : b = bytes_to_sectors(inode.length) /\ b = bytes_to_sectors(disk[s].length)
  BY <1>1
<1>3. PICK T : T = Tree(disk, e)
  OBVIOUS
<1>4. /\ b \in Nat /\ b <= D + P + P * P
      /\ \A p \in Slots(b) : /\ p \in Slot /\ Tree(disk, e)[p] # 0
                             /\ SectorAt(disk, disk[s], p) = Tree(disk, e)[p]
                             /\ p \in IndexSlot => disk[Tree(disk, e)[p]].kind = "index"
  BY <1>1, <1>2, ReachOf
<1>5. \A p \in Slots(b) : /\ p \in Slot /\ T[p] # 0 /\ SectorAt(disk, inode, p) = T[p]
                          /\ p \in IndexSlot => disk[T[p]].kind = "index"
  BY <1>1, <1>3, <1>4
<1>6. \A p \in DataSlot : T[p] # 0 => disk[T[p]] \in {Zeros, Data(n)}
  BY <1>1, <1>3 DEF FileIn, TreeOK
<1>7. /\ \A k \in 0 .. b - 1 : BlockSlot(k) \in DataSlot /\ BlockSlot(k) \in Slots(b)
      /\ \A p \in Slots(b) : p \in DataSlot => \E k \in 0 .. b - 1 : p = BlockSlot(k)
  BY <1>4, SlotsIn
<1>8. blocks = [k \in 0 .. b - 1 |-> SectorAt(disk, inode, BlockSlot(k))]
  BY <1>2 DEF get_inode_data_sectors, index_to_sector
<1>9. DOMAIN blocks = 0 .. b - 1 /\ \A k \in 0 .. b - 1 : blocks[k] = T[BlockSlot(k)]
  BY <1>5, <1>7, <1>8
<1> HIDE DEF inode, blocks
<1>10. \A x \in data : disk[x] \in {Zeros, Data(n)}
  BY <1>5, <1>6, <1>7, <1>9
<1>11. ASSUME NEW x \in InodeBlocks(disk, inode) \ data
       PROVE  disk[x].kind = "index"
  <2>1. PICK p \in Slots(b) : x = SectorAt(disk, inode, p)
    BY <1>2, <1>11 DEF InodeBlocks
  <2>2. x = T[p] /\ p \in Slot
    BY <1>5, <2>1
  <2>3. p \notin DataSlot
    <3>1. SUFFICES ASSUME p \in DataSlot PROVE FALSE
      OBVIOUS
    <3>2. PICK k \in 0 .. b - 1 : p = BlockSlot(k)
      BY <1>7, <3>1
    <3>3. x = blocks[k]
      BY <1>9, <2>2, <3>2
    <3> QED
      BY <1>9, <1>11, <3>3
  <2>4. p \in IndexSlot
    BY <2>2, <2>3, SlotParts
  <2> QED
    BY <1>5, <2>2, <2>4
<1> HIDE DEF data
<1> QED
  BY <1>10, <1>11 DEF inode, blocks, data

\* The inode on disk has no pointer that the one in memory has not.
LEMMA FilesAgree == FilesInv => OpenInodesAgree
<1> SUFFICES ASSUME FilesInv PROVE OpenInodesAgree
  OBVIOUS
<1>1. stale = {} /\ DOMAIN open_inodes = {dir[n] : n \in file_table} /\ file_table \subseteq FilesIn(Now)
  BY NowFields DEF FilesInv, OK, TypesIn
<1>2. FilesIn(Now) = Files
  BY NowFields DEF FilesIn, Files
<1>3. ASSUME NEW s \in DOMAIN open_inodes, NEW mem, mem = open_inodes[s]
      PROVE  /\ mem.length = disk[s].length
             /\ \A p \in Slots(bytes_to_sectors(mem.length)) :
                  SectorAt(disk, mem, p) = SectorAt(disk, disk[s], p)
  <2>1. PICK n \in file_table : s = dir[n]
    BY <1>1
  <2>2. FileIn(disk, n, s, inode_open(Now, s))
    BY <1>1, <1>2, <2>1, FileFacts
  <2>3. inode_open(Now, s) = mem
    BY <1>3, NowFields DEF inode_open
  <2>4. FileIn(disk, n, s, mem) /\ mem.length = disk[s].length
    BY <2>2, <2>3 DEF FileIn
  <2>5. PICK b : b = bytes_to_sectors(disk[s].length)
    OBVIOUS
  <2>6. \A p \in Slots(b) : /\ SectorAt(disk, disk[s], p) = Tree(disk, mem)[p]
                            /\ SectorAt(disk, mem, p) = Tree(disk, mem)[p]
    BY <2>4, <2>5, ReachOf
  <2> QED
    BY <2>4, <2>5, <2>6
<1> QED
  BY <1>1, <1>3 DEF OpenInodesAgree

\* Every variable keeps its type: the sectors named by a directory entry, an inode or
\* an index block exist, and lengths are never negative (filesys_create,
\* inode_write_at, filesys_remove).
THEOREM FileSysTypes == Spec => []TypeOK
BY FilesStay, FilesType, PTL

\* What the directory reaches stays marked: free_map_allocate never finds a sector
\* in use, and free_map_release gives back none of another file.
THEOREM SectorsMarked == Spec => []UsedIsMarked
BY FilesStay, FilesMarked, PTL

\* No sector belongs to two files, to one file twice, or to a file and the system
\* (the pointers that inode_reserve sets up over several failed and retried calls).
THEOREM SectorsApart == Spec => []NoSharing
BY FilesStay, FilesApart, PTL

\* A file's blocks hold zeros or what was written to it, and its index blocks
\* pointers: the zeros that inode_reserve_indirect writes without looking whether
\* free_map_allocate succeeded land in no file.
THEOREM ContentsStay == Spec => []ContentsKept
BY FilesStay, FilesKept, PTL

\* The inodes in memory are those of the file table, and agree with the disk on the
\* length and every block up to it, although inode_write_at leaves the pointers of a
\* failed extension in memory only.
THEOREM InodesAgree == Spec => []OpenInodesAgree
BY FilesStay, FilesAgree, PTL

\* The ASSERTs of free_map_release and inode_reserve hold until a free map is lost,
\* for lengths that an inode can hold.
THEOREM AssertsStay ==
  ASSUME LengthsFit
  PROVE  Spec => []SpaceAssertsHold
<1>1. Init => FilesInv /\ SpaceAssertsHold
  BY InitFiles DEF Init, SpaceAssertsHold
<1>2. FilesInv /\ SpaceAssertsHold /\ [Next]_vars => FilesInv' /\ SpaceAssertsHold'
  <2> SUFFICES ASSUME FilesInv, SpaceAssertsHold, [Next]_vars
               PROVE  SpaceAssertsHold'
    BY StepFiles
  <2>1. Now.panicked = panicked
    BY NowFields
  <2>2. CASE \E u : Adds(Now, u) /\ Becomes(u) /\ UNCHANGED map_file
    BY <2>1, <2>2 DEF Adds, Becomes, SpaceAssertsHold
  <2>3. CASE \E n \in Name : \E u : Removes(Now, u, n) /\ Becomes(u) /\ UNCHANGED map_file
    BY <2>1, <2>3 DEF Removes, Becomes, SpaceAssertsHold
  <2>4. CASE restart
    BY <2>4, RestartStep DEF SpaceAssertsHold
  <2>5. CASE UNCHANGED vars
    BY <2>5 DEF vars, SpaceAssertsHold
  <2> QED
    BY <2>2, <2>3, <2>4, <2>5, StepIs
<1> QED
  BY <1>1, <1>2, PTL DEF Spec

\* Removing a file frees its sectors and no others, whatever its inode in memory had
\* collected (dir_remove, with the inode_close that deallocates).
THEOREM RemovingFrees == Spec => RemoveFreesAll
<1>1. FilesInv /\ [Next]_vars =>
        [\A n \in Entry : (dir[n] # 0 /\ dir'[n] = 0 /\ map_file) =>
            free_map' = free_map \ SectorsOf(n)]_vars
  <2> SUFFICES ASSUME FilesInv, [Next]_vars, NEW n \in Entry, dir[n] # 0, dir'[n] = 0
               PROVE  free_map' = free_map \ SectorsOf(n)
    OBVIOUS
  <2>1. Now.dir = dir /\ Now.disk = disk /\ Now.map = free_map
    BY NowFields
  <2>2. n \in FilesIn(Now)
    BY <2>1 DEF FilesIn
  <2>3. ASSUME NEW u, Adds(Now, u), Becomes(u)
        PROVE  FALSE
    <3>1. n \in FilesIn(u) /\ dir' = u.dir
      BY <2>2, <2>3 DEF Adds, Becomes
    <3> QED
      BY <3>1 DEF FilesIn
  <2>4. ASSUME NEW m \in Name, NEW u, Removes(Now, u, m), Becomes(u)
        PROVE  free_map' = free_map \ SectorsOf(n)
    <3>1. dir \in [Entry -> Bits]
      BY <2>1 DEF FilesInv, OK, TypesIn
    <3>2. dir' = u.dir /\ free_map' = u.map
      BY <2>4 DEF Becomes
    <3>3. dir[m] # 0 /\ u.dir = [dir EXCEPT ![m] = 0] /\ u.map = free_map \ Reach(disk, dir[m])
      BY <2>1, <2>4, <3>2 DEF Removes
    <3>4. n = m
      BY <3>1, <3>2, <3>3
    <3> QED
      BY <3>2, <3>3, <3>4 DEF SectorsOf, Reach
  <2>5. CASE restart
    BY <2>5 DEF restart
  <2>6. CASE UNCHANGED vars
    BY <2>6 DEF vars
  <2> QED
    BY <2>3, <2>4, <2>5, <2>6, StepIs
<1> QED
  BY <1>1, FilesStay, PTL DEF Spec, RemoveFreesAll

\* The lost sectors of a state.
LostIn(st) == st.map \ (SystemSectors \cup Used(st))

\* The lost sectors of the variables are those of their record.
LEMMA LostNow == Lost = LostIn(Now)
<1>1. FilesIn(Now) = Files
  BY NowFields DEF FilesIn, Files
<1>2. Used(Now) = UNION {SectorsOf(n) : n \in Files}
  BY <1>1, NowFields DEF Used, SectorsOf, Reach
<1> QED
  BY <1>2, NowFields DEF Lost, LostIn

\* And those after a command are those of the record it computes.
LEMMA LostAfter ==
  ASSUME NEW u, Becomes(u)
  PROVE  Lost' = LostIn(u)
<1>1. disk' = u.disk /\ free_map' = u.map /\ dir' = u.dir
  BY DEF Becomes
<1>2. FilesIn(u) = Files'
  BY <1>1 DEF FilesIn, Files
<1>3. Used(u) = UNION {SectorsOf(n)' : n \in Files'}
  BY <1>1, <1>2 DEF Used, SectorsOf, Reach
<1>4. Lost' = free_map' \ (SystemSectors \cup UNION {SectorsOf(n)' : n \in Files'})
  BY DEF Lost
<1> QED
  BY <1>1, <1>3, <1>4 DEF LostIn

\* A command loses sectors only when it returns an error (filesys_create gives back
\* the sector of the inode, and not the blocks) or has taken the last free one (an
\* extension in inode_write_at gives nothing back).
THEOREM LosingIsFailing ==
  ASSUME LengthsFit
  PROVE  Spec => LostOnlyOnErrorOrFull
<1> DEFINE K == (map_file' /\ ~ (Lost' \subseteq Lost)) =>
                  (status' = "error" \/ Bits \subseteq free_map')
<1>1. FilesInv /\ [Next]_vars => FilesInv' /\ [K]_vars
  <2> SUFFICES ASSUME FilesInv, [Next]_vars, status' # "error", map_file', ~ Bits \subseteq free_map'
               PROVE  Lost' \subseteq Lost
    BY StepFiles
  <2>1. Now.dir = dir /\ Now.disk = disk /\ Now.map = free_map
    BY NowFields
  <2>2. ASSUME NEW u, Adds(Now, u), Becomes(u), UNCHANGED map_file
        PROVE  Lost' \subseteq Lost
    <3>1. u.status = "ok"
      BY <2>2 DEF Becomes, Adds, OK, TypesIn
    <3>2. Covered(Now, u)
      BY <2>2, <3>1 DEF Adds, Exhausted, Becomes
    <3> QED
      BY <2>2, <3>2, LostNow, LostAfter DEF Covered, LostIn
  <2>3. ASSUME NEW m \in Name, NEW u, Removes(Now, u, m), Becomes(u)
        PROVE  Lost' \subseteq Lost
    <3>1. CASE dir[m] = 0
      <4>1. u.disk = disk /\ u.dir = dir /\ u.map = free_map
        BY <2>1, <2>3, <3>1 DEF Removes
      <4>2. FilesIn(u) = FilesIn(Now)
        BY <2>1, <4>1 DEF FilesIn
      <4>3. Used(u) = Used(Now)
        BY <2>1, <4>1, <4>2 DEF Used
      <4> QED
        BY <2>1, <2>3, <4>1, <4>3, LostNow, LostAfter DEF LostIn
    <3>2. CASE dir[m] # 0
      <4>1. /\ u.disk = disk /\ u.dir = [dir EXCEPT ![m] = 0]
            /\ u.map = free_map \ Reach(disk, dir[m])
        BY <2>1, <2>3, <3>2 DEF Removes
      <4>2. dir \in [Entry -> Bits]
        BY <2>1 DEF FilesInv, OK, TypesIn
      <4>3. \A k \in Entry : k # m => u.dir[k] = dir[k]
        BY <4>1, <4>2
      <4>4. Used(Now) \subseteq Used(u) \cup Reach(disk, dir[m])
        BY <2>1, <4>1, <4>3 DEF Used, FilesIn
      <4> QED
        BY <2>1, <2>3, <4>1, <4>4, LostNow, LostAfter DEF LostIn
    <3> QED
      BY <3>1, <3>2
  <2>4. CASE restart
    <3>1. disk' = disk /\ dir' = dir /\ free_map' = free_map
      BY <2>4, RestartStep
    <3> QED
      BY <3>1 DEF Lost, SectorsOf, Files
  <2>5. CASE UNCHANGED vars
    BY <2>5 DEF vars, Lost, SectorsOf, Files
  <2> QED
    BY <2>2, <2>3, <2>4, <2>5, StepIs
<1>2. LostOnlyOnErrorOrFull <=> [][K]_vars
  BY PTL DEF LostOnlyOnErrorOrFull
<1> HIDE DEF K
<1> QED
  BY <1>1, <1>2, InitFiles, PTL DEF Spec
=============================================================================
