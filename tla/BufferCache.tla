---------------------------- MODULE BufferCache ----------------------------
(***************************************************************************)
(* The buffer cache of the file system (a3/fs/cache.c) over the block      *)
(* device (a3/fs/block.c, a3/fs/ide.c): BUFFER_CACHE_SIZE entries, looked  *)
(* up linearly, replaced by the clock algorithm, written back when they    *)
(* are evicted and when the cache is closed.  Callers pass sectors of the  *)
(* device only, so the range check of block.c never fires here.            *)
(***************************************************************************)
EXTENDS Integers

CONSTANTS
  BUFFER_CACHE_SIZE,  \* number of cache entries
  DeviceSize,         \* struct block.size: number of sectors
  Data,               \* contents of a sector
  Zero                \* the contents static storage starts with

ASSUME CacheSizeAssumption == BUFFER_CACHE_SIZE \in Nat \ {0}
ASSUME DeviceSizeAssumption == DeviceSize \in Nat \ {0}
ASSUME ZeroAssumption == Zero \in Data

VARIABLES
  cache,   \* the entries
  clock,   \* hand of the clock algorithm (static in buffer_cache_evict)
  disk,    \* contents of the device
  target   \* what the last buffer_cache_read copied to its caller

vars == <<cache, clock, disk, target>>

Slot == 0 .. BUFFER_CACHE_SIZE - 1
Sector == 0 .. DeviceSize - 1
buffer_cache_entry_t ==
  [occupied : BOOLEAN, disk_sector : Sector, buffer : Data,
   dirty : BOOLEAN, access : BOOLEAN]

\* Entries, clock hand and device have their types: the hand stays inside the
\* cache (cache.c:71-99).
TypeOK ==
  /\ cache \in [Slot -> buffer_cache_entry_t]
  /\ clock \in Slot
  /\ disk \in [Sector -> Data]
  /\ target \in Data

\* Static storage is zero, and buffer_cache_init clears the valid and dirty bits.
buffer_cache_init ==
  [i \in Slot |-> [occupied |-> FALSE, disk_sector |-> 0, buffer |-> Zero,
                   dirty |-> FALSE, access |-> FALSE]]

Init ==
  /\ cache = buffer_cache_init
  /\ clock = 0
  /\ disk \in [Sector -> Data]
  /\ target = Zero

-----------------------------------------------------------------------------
Holds(i, s) == cache[i].occupied /\ cache[i].disk_sector = s

\* Slot i is the one the linear search for sector s returns.
buffer_cache_lookup(s, i) ==
  Holds(i, s) /\ \A j \in 0 .. i - 1 : ~Holds(j, s)

\* Fault: only the entry under the clock hand is looked at.
FaultyMiss(s) == ~Holds(clock, s)

\* No entry holds sector s.
Miss(s) == \A i \in Slot : ~Holds(i, s)

\* Fault: the entry is dropped without a write.
FaultyFlush(i) == disk

\* The device after the entry in slot i has been written back.
buffer_cache_flush(i) ==
  IF cache[i].occupied /\ cache[i].dirty
  THEN [disk EXCEPT ![cache[i].disk_sector] = cache[i].buffer]
  ELSE disk

\* The slot the hand points to after k advances.
Hand(k) == (clock + k) % BUFFER_CACHE_SIZE

SecondChanceFor(i) == cache[i].occupied /\ cache[i].access

\* Fault: the hand moves past the victim without wrapping around.
FaultyWrap(k) ==
  /\ \A j \in 0 .. k - 1 : SecondChanceFor(Hand(j))
  /\ k = BUFFER_CACHE_SIZE \/ ~SecondChanceFor(Hand(k))
  /\ clock' = Hand(k) + 1
  /\ disk' = buffer_cache_flush(Hand(k))

\* Fault: the test of the reference bit is inverted.
FaultyChance(k) ==
  /\ \A j \in 0 .. k - 1 : ~SecondChanceFor(Hand(j))
  /\ k = BUFFER_CACHE_SIZE \/ SecondChanceFor(Hand(k))
  /\ clock' = Hand(k)
  /\ disk' = buffer_cache_flush(Hand(k))

\* The clock loop passes k referenced entries, clearing their reference bit,
\* and stops at the first one that is empty or unreferenced; after a whole
\* turn that is the one it started from.
buffer_cache_evict(k) ==
  /\ \A j \in 0 .. k - 1 : SecondChanceFor(Hand(j))
  /\ k = BUFFER_CACHE_SIZE \/ ~SecondChanceFor(Hand(k))
  /\ clock' = Hand(k)
  /\ disk' = buffer_cache_flush(Hand(k))

Swept(k) ==
  [i \in Slot |-> IF \E j \in 0 .. k - 1 : i = Hand(j)
                  THEN [cache[i] EXCEPT !.access = FALSE]
                  ELSE cache[i]]

\* Fault: a written entry is not marked dirty.
FaultyFilled(s, d, written) ==
  [occupied |-> TRUE, disk_sector |-> s, buffer |-> d,
   dirty |-> FALSE, access |-> TRUE]

\* An entry just filled with d for sector s, by a write or by a read.
Filled(s, d, written) ==
  [occupied |-> TRUE, disk_sector |-> s, buffer |-> d,
   dirty |-> written, access |-> TRUE]

buffer_cache_read(s) ==
  \/ \E i \in Slot :
       /\ buffer_cache_lookup(s, i)
       /\ cache' = [cache EXCEPT ![i].access = TRUE]
       /\ target' = cache[i].buffer
       /\ UNCHANGED <<clock, disk>>
  \/ \E k \in 0 .. BUFFER_CACHE_SIZE :
       /\ Miss(s)
       /\ buffer_cache_evict(k)
       /\ cache' = [Swept(k) EXCEPT ![Hand(k)] = Filled(s, disk'[s], FALSE)]
       /\ target' = disk'[s]

buffer_cache_write(s, source) ==
  /\ \/ \E i \in Slot :
          /\ buffer_cache_lookup(s, i)
          /\ cache' = [cache EXCEPT ![i] = Filled(s, source, TRUE)]
          /\ UNCHANGED <<clock, disk>>
     \/ \E k \in 0 .. BUFFER_CACHE_SIZE :
          /\ Miss(s)
          /\ buffer_cache_evict(k)
          /\ cache' = [Swept(k) EXCEPT ![Hand(k)] = Filled(s, source, TRUE)]
  /\ UNCHANGED target

\* Every occupied entry is flushed and stays in the cache, clean.
buffer_cache_close ==
  /\ disk' = [s \in Sector |->
                IF \E i \in Slot : Holds(i, s) /\ cache[i].dirty
                THEN cache[CHOOSE i \in Slot : Holds(i, s) /\ cache[i].dirty].buffer
                ELSE disk[s]]
  /\ cache' = [i \in Slot |-> IF cache[i].occupied
                              THEN [cache[i] EXCEPT !.dirty = FALSE]
                              ELSE cache[i]]
  /\ UNCHANGED <<clock, target>>

\* The process ends (exit(99) in the kernel, or the end of the shell) and is
\* started again on the same device.
Restart ==
  /\ cache' = buffer_cache_init
  /\ clock' = 0
  /\ UNCHANGED <<disk, target>>

Next ==
  \/ \E s \in Sector : buffer_cache_read(s)
  \/ \E s \in Sector, d \in Data : buffer_cache_write(s, d)
  \/ buffer_cache_close
  \/ Restart

Spec == Init /\ [][Next]_vars

-----------------------------------------------------------------------------
\* A sector is cached in at most one entry: otherwise a write through one of
\* them would be invisible through the other, and the order of their
\* write-backs would decide what survives (cache.c:53-64, 103-113, 122-132).
OneCopy ==
  \A i, j \in Slot :
    cache[i].occupied /\ cache[j].occupied
      /\ cache[i].disk_sector = cache[j].disk_sector => i = j

\* An entry without the dirty bit holds exactly what the device holds, so
\* dropping it without a write loses nothing (cache.c:92-97).
CleanMatchesDisk ==
  \A i \in Slot :
    cache[i].occupied /\ ~cache[i].dirty
      => cache[i].buffer = disk[cache[i].disk_sector]

Coherent == TypeOK /\ OneCopy /\ CleanMatchesDisk

\* An entry that was referenced since the hand last passed it is replaced
\* only when every entry was (cache.c:80-84, "give a second chance").
SecondChance ==
  [][\A i \in Slot :
       /\ SecondChanceFor(i)
       /\ cache'[i].occupied
       /\ cache'[i].disk_sector # cache[i].disk_sector
       => \A j \in Slot : SecondChanceFor(j)]_vars

-----------------------------------------------------------------------------
\* What a read of each sector returns.
Contents ==
  [s \in Sector |-> IF \E i \in Slot : Holds(i, s)
                    THEN cache[CHOOSE i \in Slot : Holds(i, s)].buffer
                    ELSE disk[s]]

Store == INSTANCE SectorStore
           WITH store <- Contents, durable <- disk, result <- target

\* The cache behaves as the sector store of cache.h: reads see the last
\* write, closing makes the device current, and a restart loses only what
\* had not been written back.
ImplementsSectorStore == Store!Spec
=============================================================================
