------------------------- MODULE BufferCacheProofs -------------------------
(***************************************************************************)
(* Proofs about the buffer cache, for any number of entries, any device    *)
(* size and any contents: coherence (Coherent is inductive as it stands),  *)
(* the second chance of the clock, and the refinement of SectorStore.      *)
(***************************************************************************)
EXTENDS BufferCache, TLAPS

\* Every step uses the constants' assumptions.
USE CacheSizeAssumption, DeviceSizeAssumption, ZeroAssumption

-----------------------------------------------------------------------------
\* The clock hand stays inside the entry array (cache.c:86-87).
LEMMA HandInRange ==
  ASSUME TypeOK, NEW k \in 0 .. BUFFER_CACHE_SIZE
  PROVE  Hand(k) \in Slot
  BY DEF TypeOK, Hand, Slot

\* The entry in slot h has been replaced by contents d of sector s: every
\* other entry keeps its sector and contents, and the device changes only at
\* the sector the victim held, where it receives the victim's contents.
Replaced(s, d, w, h) ==
  /\ cache' \in [Slot -> buffer_cache_entry_t]
  /\ clock' \in Slot
  /\ disk' \in [Sector -> Data]
  /\ cache'[h] = Filled(s, d, w)
  /\ \A i \in Slot \ {h} :
       /\ cache'[i].occupied = cache[i].occupied
       /\ cache'[i].disk_sector = cache[i].disk_sector
       /\ cache'[i].buffer = cache[i].buffer
       /\ cache'[i].dirty = cache[i].dirty
  /\ \A t \in Sector :
       disk'[t] = IF Holds(h, t) /\ cache[h].dirty
                  THEN cache[h].buffer
                  ELSE disk[t]

\* A miss replaces the entry under the hand (cache.c:71-99, 108-112).
LEMMA MissEffect ==
  ASSUME TypeOK,
         NEW s \in Sector, NEW d \in Data, NEW w \in BOOLEAN,
         NEW k \in 0 .. BUFFER_CACHE_SIZE,
         buffer_cache_evict(k),
         cache' = [Swept(k) EXCEPT ![Hand(k)] = Filled(s, d, w)]
  PROVE  Replaced(s, d, w, Hand(k))
<1>1. Hand(k) \in Slot
  BY HandInRange
<1>2. Swept(k) \in [Slot -> buffer_cache_entry_t]
  BY DEF TypeOK, Swept, buffer_cache_entry_t
<1>3. Filled(s, d, w) \in buffer_cache_entry_t
  BY DEF Filled, buffer_cache_entry_t
<1>4. cache' \in [Slot -> buffer_cache_entry_t]
  BY <1>1, <1>2, <1>3
<1>5. cache'[Hand(k)] = Filled(s, d, w)
  BY <1>1, <1>2
<1>6. \A i \in Slot \ {Hand(k)} :
        /\ cache'[i].occupied = cache[i].occupied
        /\ cache'[i].disk_sector = cache[i].disk_sector
        /\ cache'[i].buffer = cache[i].buffer
        /\ cache'[i].dirty = cache[i].dirty
  <2> SUFFICES ASSUME NEW i \in Slot \ {Hand(k)}
               PROVE  /\ cache'[i].occupied = cache[i].occupied
                      /\ cache'[i].disk_sector = cache[i].disk_sector
                      /\ cache'[i].buffer = cache[i].buffer
                      /\ cache'[i].dirty = cache[i].dirty
    OBVIOUS
  <2>1. cache'[i] = Swept(k)[i]
    BY <1>1, <1>2
  <2>2. cache[i] \in buffer_cache_entry_t
    BY DEF TypeOK
  <2> QED
    BY <2>1, <2>2 DEF Swept, buffer_cache_entry_t
<1>7. /\ clock' = Hand(k)
      /\ disk' = buffer_cache_flush(Hand(k))
  BY DEF buffer_cache_evict
<1>8. cache[Hand(k)] \in buffer_cache_entry_t
  BY <1>1 DEF TypeOK
<1>9. /\ disk' \in [Sector -> Data]
      /\ \A t \in Sector :
           disk'[t] = IF Holds(Hand(k), t) /\ cache[Hand(k)].dirty
                      THEN cache[Hand(k)].buffer
                      ELSE disk[t]
  BY <1>7, <1>8 DEF TypeOK, buffer_cache_flush, Holds, buffer_cache_entry_t
<1> QED
  BY <1>1, <1>4, <1>5, <1>6, <1>7, <1>9 DEF Replaced

\* A miss keeps the cache coherent: the new entry's sector was nowhere in the
\* cache, and only the victim's sector of the device was touched.
LEMMA MissCoherent ==
  ASSUME Coherent,
         NEW s \in Sector, NEW d \in Data, NEW w \in BOOLEAN,
         NEW k \in 0 .. BUFFER_CACHE_SIZE,
         Miss(s),
         buffer_cache_evict(k),
         cache' = [Swept(k) EXCEPT ![Hand(k)] = Filled(s, d, w)],
         w \/ d = disk'[s],
         target' \in Data
  PROVE  Coherent'
<1> DEFINE h == Hand(k)
<1>1. TypeOK /\ OneCopy /\ CleanMatchesDisk
  BY DEF Coherent
<1>2. h \in Slot
  BY <1>1, HandInRange
<1>3. Replaced(s, d, w, h)
  BY <1>1, MissEffect
<1> HIDE DEF h
<1>4. TypeOK'
  BY <1>3 DEF TypeOK, Replaced
<1>5. OneCopy'
  <2> SUFFICES ASSUME NEW i \in Slot, NEW j \in Slot,
                      cache'[i].occupied, cache'[j].occupied,
                      cache'[i].disk_sector = cache'[j].disk_sector,
                      i # h \/ j # h
               PROVE  i = j
    BY DEF OneCopy
  <2>1. cache'[h].disk_sector = s
    BY <1>3 DEF Replaced, Filled
  <2>2. ASSUME NEW m \in Slot \ {h}, cache'[m].occupied
        PROVE  cache'[m].disk_sector # s
    BY <1>3, <2>2 DEF Replaced, Miss, Holds
  <2>3. i # h /\ j # h
    BY <2>1, <2>2
  <2>4. /\ cache[i].occupied /\ cache[j].occupied
        /\ cache[i].disk_sector = cache[j].disk_sector
    BY <1>3, <2>3 DEF Replaced
  <2> QED
    BY <1>1, <2>4 DEF OneCopy
<1>6. CleanMatchesDisk'
  <2> SUFFICES ASSUME NEW i \in Slot,
                      cache'[i].occupied, ~cache'[i].dirty
               PROVE  cache'[i].buffer = disk'[cache'[i].disk_sector]
    BY DEF CleanMatchesDisk
  <2>1. CASE i = h
    BY <2>1, <1>3 DEF Filled, Replaced
  <2>2. CASE i # h
    <3>1. cache[i] \in buffer_cache_entry_t
      BY <1>1 DEF TypeOK
    <3>2. cache[i].disk_sector \in Sector
      BY <3>1 DEF buffer_cache_entry_t
    <3>3. ~Holds(h, cache[i].disk_sector)
      BY <1>1, <1>2, <1>3, <2>2 DEF OneCopy, Holds, Replaced
    <3> QED
      BY <1>1, <1>3, <2>2, <3>2, <3>3 DEF CleanMatchesDisk, Replaced
  <2> QED
    BY <2>1, <2>2
<1> QED
  BY <1>4, <1>5, <1>6 DEF Coherent

\* A hit keeps the cache coherent: the entry keeps its sector, and it becomes
\* dirty when its contents change (cache.c:115-117, 134-137).
LEMMA HitCoherent ==
  ASSUME Coherent,
         NEW s \in Sector, NEW i \in Slot, NEW d \in Data, NEW w \in BOOLEAN,
         Holds(i, s),
         cache' = [cache EXCEPT ![i] = Filled(s, d, w)],
         w \/ d = disk[s],
         clock' = clock, disk' = disk, target' \in Data
  PROVE  Coherent'
<1>1. TypeOK /\ OneCopy /\ CleanMatchesDisk
  BY DEF Coherent
<1>2. Filled(s, d, w) \in buffer_cache_entry_t
  BY DEF Filled, buffer_cache_entry_t
<1>3. TypeOK'
  BY <1>1, <1>2 DEF TypeOK
<1>4. /\ cache'[i] = Filled(s, d, w)
      /\ \A j \in Slot \ {i} : cache'[j] = cache[j]
  BY <1>1 DEF TypeOK
<1>5. cache'[i].occupied /\ cache'[i].disk_sector = s
  BY <1>4 DEF Filled
<1>6. OneCopy'
  BY <1>1, <1>4, <1>5 DEF OneCopy, Holds
<1>7. ~cache'[i].dirty => cache'[i].buffer = disk'[s]
  BY <1>4 DEF Filled
<1>8. CleanMatchesDisk'
  BY <1>1, <1>4, <1>5, <1>7 DEF CleanMatchesDisk
<1> QED
  BY <1>3, <1>6, <1>8 DEF Coherent

\* A read that hits only sets the reference bit (cache.c:115-117).
LEMMA ReadHitCoherent ==
  ASSUME Coherent,
         NEW s \in Sector, NEW i \in Slot,
         Holds(i, s),
         cache' = [cache EXCEPT ![i].access = TRUE],
         clock' = clock, disk' = disk, target' = cache[i].buffer
  PROVE  Coherent'
<1>1. TypeOK /\ OneCopy /\ CleanMatchesDisk
  BY DEF Coherent
<1>2. cache[i] \in buffer_cache_entry_t
  BY <1>1 DEF TypeOK
<1>3. cache' \in [Slot -> buffer_cache_entry_t]
  BY <1>1, <1>2 DEF TypeOK, buffer_cache_entry_t
<1>4. target' \in Data
  BY <1>2 DEF buffer_cache_entry_t
<1>5. TypeOK'
  BY <1>1, <1>3, <1>4 DEF TypeOK
<1>6. \A j \in Slot : /\ cache'[j].occupied = cache[j].occupied
                      /\ cache'[j].disk_sector = cache[j].disk_sector
                      /\ cache'[j].buffer = cache[j].buffer
                      /\ cache'[j].dirty = cache[j].dirty
  BY <1>1 DEF TypeOK, buffer_cache_entry_t
<1>7. OneCopy' /\ CleanMatchesDisk'
  BY <1>1, <1>6 DEF OneCopy, CleanMatchesDisk
<1> QED
  BY <1>5, <1>7 DEF Coherent

\* Every entry is kept and clean, and only cached sectors were written.
Flushed ==
  /\ \A i \in Slot : /\ cache'[i].occupied = cache[i].occupied
                     /\ cache'[i].disk_sector = cache[i].disk_sector
                     /\ cache'[i].buffer = cache[i].buffer
                     /\ cache'[i].occupied => ~cache'[i].dirty
  /\ \A s \in Sector : Miss(s) => disk'[s] = disk[s]

\* Closing writes every dirty entry where it belongs; what is kept is clean
\* and equal to the device (cache.c:30-47).
LEMMA CloseCoherent ==
  ASSUME Coherent, buffer_cache_close
  PROVE  Coherent' /\ Flushed
<1>1. TypeOK /\ OneCopy /\ CleanMatchesDisk
  BY DEF Coherent
<1> DEFINE D(s, i) == Holds(i, s) /\ cache[i].dirty
<1>2. disk' = [s \in Sector |->
                IF \E i \in Slot : D(s, i)
                THEN cache[CHOOSE i \in Slot : D(s, i)].buffer
                ELSE disk[s]]
  BY DEF buffer_cache_close
<1>3. \A i \in Slot : cache[i] \in buffer_cache_entry_t
  BY <1>1 DEF TypeOK
<1>4. ASSUME NEW s \in Sector, NEW i \in Slot, D(s, i)
      PROVE  disk'[s] = cache[i].buffer
  <2>1. (CHOOSE j \in Slot : D(s, j)) \in Slot /\ D(s, CHOOSE j \in Slot : D(s, j))
    BY <1>4
  <2>2. (CHOOSE j \in Slot : D(s, j)) = i
    BY <1>1, <1>4, <2>1 DEF OneCopy, Holds
  <2> HIDE DEF D
  <2> QED
    BY <1>2, <1>4, <2>2
<1>5. ASSUME NEW s \in Sector, \A i \in Slot : ~D(s, i)
      PROVE  disk'[s] = disk[s]
  <2> HIDE DEF D
  <2> QED
    BY <1>2, <1>5
<1>6. \A i \in Slot : /\ cache'[i] \in buffer_cache_entry_t
                      /\ cache'[i].occupied = cache[i].occupied
                      /\ cache'[i].disk_sector = cache[i].disk_sector
                      /\ cache'[i].buffer = cache[i].buffer
                      /\ cache'[i].occupied => ~cache'[i].dirty
  BY <1>3 DEF buffer_cache_close, buffer_cache_entry_t
<1>7. disk' \in [Sector -> Data]
  <2>1. \A s \in Sector : disk'[s] \in Data
    BY <1>1, <1>3, <1>4, <1>5 DEF TypeOK, buffer_cache_entry_t
  <2>2. disk' = [s \in Sector |-> disk'[s]]
    BY <1>2
  <2> QED
    BY <2>1, <2>2
<1>8. cache' = [i \in Slot |-> cache'[i]]
  BY DEF buffer_cache_close
<1>9. TypeOK'
  BY <1>1, <1>6, <1>7, <1>8 DEF TypeOK, buffer_cache_close
<1>10. OneCopy'
  BY <1>1, <1>6 DEF OneCopy
<1>11. CleanMatchesDisk'
  <2> SUFFICES ASSUME NEW i \in Slot, cache[i].occupied
               PROVE  cache[i].buffer = disk'[cache[i].disk_sector]
    BY <1>6 DEF CleanMatchesDisk
  <2> DEFINE s == cache[i].disk_sector
  <2>1. s \in Sector
    BY <1>3 DEF buffer_cache_entry_t
  <2>2. CASE cache[i].dirty
    BY <1>4, <2>1, <2>2 DEF Holds
  <2>3. CASE ~cache[i].dirty
    <3>1. \A j \in Slot : ~D(s, j)
      BY <1>1, <2>3 DEF OneCopy, Holds
    <3>2. disk'[s] = disk[s]
      BY <1>5, <2>1, <3>1
    <3> QED
      BY <1>1, <2>3, <3>2 DEF CleanMatchesDisk
  <2> QED
    BY <2>2, <2>3
<1>12. \A s \in Sector : Miss(s) => disk'[s] = disk[s]
  BY <1>5 DEF Miss
<1> QED
  BY <1>6, <1>9, <1>10, <1>11, <1>12 DEF Coherent, Flushed

\* Coherence is inductive: every operation of cache.c, and a restart, keeps it.
LEMMA CoherentStep ==
  ASSUME Coherent, [Next]_vars
  PROVE  Coherent'
<1>1. TypeOK
  BY DEF Coherent
<1>2. ASSUME NEW s \in Sector, buffer_cache_read(s)
      PROVE  Coherent'
  <2>1. ASSUME NEW i \in Slot, buffer_cache_lookup(s, i),
               cache' = [cache EXCEPT ![i].access = TRUE],
               target' = cache[i].buffer, UNCHANGED <<clock, disk>>
        PROVE  Coherent'
    BY <2>1, ReadHitCoherent DEF buffer_cache_lookup
  <2>2. ASSUME NEW k \in 0 .. BUFFER_CACHE_SIZE, Miss(s), buffer_cache_evict(k),
               cache' = [Swept(k) EXCEPT ![Hand(k)] = Filled(s, disk'[s], FALSE)],
               target' = disk'[s]
        PROVE  Coherent'
    <3>1. disk' \in [Sector -> Data]
      BY <1>1, <2>2, HandInRange
         DEF buffer_cache_evict, buffer_cache_flush, TypeOK, buffer_cache_entry_t
    <3>2. disk'[s] \in Data
      BY <3>1
    <3> QED
      BY <2>2, <3>2, MissCoherent
  <2> QED
    BY <1>2, <2>1, <2>2 DEF buffer_cache_read
<1>3. ASSUME NEW s \in Sector, NEW d \in Data, buffer_cache_write(s, d)
      PROVE  Coherent'
  <2>1. target' \in Data
    BY <1>1, <1>3 DEF buffer_cache_write, TypeOK
  <2>2. ASSUME NEW i \in Slot, buffer_cache_lookup(s, i),
               cache' = [cache EXCEPT ![i] = Filled(s, d, TRUE)],
               UNCHANGED <<clock, disk>>
        PROVE  Coherent'
    BY <2>1, <2>2, HitCoherent DEF buffer_cache_lookup
  <2>3. ASSUME NEW k \in 0 .. BUFFER_CACHE_SIZE, Miss(s), buffer_cache_evict(k),
               cache' = [Swept(k) EXCEPT ![Hand(k)] = Filled(s, d, TRUE)]
        PROVE  Coherent'
    BY <2>1, <2>3, MissCoherent
  <2> QED
    BY <1>3, <2>2, <2>3 DEF buffer_cache_write
<1>4. CASE buffer_cache_close
  BY <1>4, CloseCoherent
<1>5. CASE Restart
  <2>1. TypeOK'
    BY <1>1, <1>5 DEF Restart, buffer_cache_init, TypeOK, buffer_cache_entry_t,
                      Slot, Sector
  <2>2. OneCopy' /\ CleanMatchesDisk'
    BY <1>5 DEF Restart, buffer_cache_init, OneCopy, CleanMatchesDisk
  <2> QED
    BY <2>1, <2>2 DEF Coherent
<1>6. CASE UNCHANGED vars
  BY <1>6 DEF vars, Coherent, TypeOK, OneCopy, CleanMatchesDisk
<1> QED
  BY <1>2, <1>3, <1>4, <1>5, <1>6 DEF Next

\* The empty cache of buffer_cache_init is coherent (cache.c:21-28).
LEMMA CoherentInit ==
  ASSUME Init
  PROVE  Coherent
<1>1. TypeOK
  BY DEF Init, buffer_cache_init, TypeOK, buffer_cache_entry_t, Slot, Sector
<1>2. OneCopy /\ CleanMatchesDisk
  BY DEF Init, buffer_cache_init, OneCopy, CleanMatchesDisk
<1> QED
  BY <1>1, <1>2 DEF Coherent

\* The cache of cache.c is always coherent: well typed, no sector cached
\* twice, and every entry without the dirty bit equal to the device.
THEOREM CacheCoherent == Spec => []Coherent
<1>1. Init => Coherent
  BY CoherentInit
<1>2. Coherent /\ [Next]_vars => Coherent'
  BY CoherentStep
<1> QED
  BY <1>1, <1>2, PTL DEF Spec

\* Entries, clock hand and device keep their types in every behaviour: the hand
\* of buffer_cache_evict never leaves the cache (cache.c:71-99).
THEOREM CacheTypeCorrect == Spec => []TypeOK
<1>1. Coherent => TypeOK
  BY DEF Coherent
<1> QED
  BY <1>1, CacheCoherent, PTL

\* No sector is ever cached in two entries (cache.c:53-64).
THEOREM NeverTwoCopies == Spec => []OneCopy
<1>1. Coherent => OneCopy
  BY DEF Coherent
<1> QED
  BY <1>1, CacheCoherent, PTL

\* An entry whose dirty bit is off equals the device (cache.c:92-97).
THEOREM CleanEntriesMatch == Spec => []CleanMatchesDisk
<1>1. Coherent => CleanMatchesDisk
  BY DEF Coherent
<1> QED
  BY <1>1, CacheCoherent, PTL

-----------------------------------------------------------------------------
\* In BUFFER_CACHE_SIZE advances the hand passes every entry.
LEMMA HandCovers ==
  ASSUME TypeOK, NEW i \in Slot
  PROVE  \E j \in 0 .. BUFFER_CACHE_SIZE - 1 : Hand(j) = i
<1>1. i \in Int /\ clock \in Int /\ BUFFER_CACHE_SIZE \in Nat \ {0}
      /\ 0 <= i /\ i < BUFFER_CACHE_SIZE /\ 0 <= clock /\ clock < BUFFER_CACHE_SIZE
  BY DEF TypeOK, Slot
<1>2. i % BUFFER_CACHE_SIZE = i
  BY <1>1
<1>3. (i + BUFFER_CACHE_SIZE) % BUFFER_CACHE_SIZE = i
  BY <1>1
<1>4. CASE clock <= i
  <2>1. i - clock \in 0 .. BUFFER_CACHE_SIZE - 1 /\ clock + (i - clock) = i
    BY <1>1, <1>4
  <2> QED
    BY <1>2, <2>1 DEF Hand
<1>5. CASE clock > i
  <2> DEFINE j == i - clock + BUFFER_CACHE_SIZE
  <2>1. j \in 0 .. BUFFER_CACHE_SIZE - 1 /\ clock + j = i + BUFFER_CACHE_SIZE
    BY <1>1, <1>5
  <2> QED
    BY <1>3, <2>1 DEF Hand
<1> QED
  BY <1>1, <1>4, <1>5

\* The entry that replacement takes was referenced only if all of them were.
LEMMA VictimReferenced ==
  ASSUME TypeOK, NEW k \in 0 .. BUFFER_CACHE_SIZE,
         buffer_cache_evict(k), SecondChanceFor(Hand(k)),
         NEW j \in Slot
  PROVE  SecondChanceFor(j)
<1>1. k = BUFFER_CACHE_SIZE
  BY DEF buffer_cache_evict
<1>2. \A m \in 0 .. BUFFER_CACHE_SIZE - 1 : SecondChanceFor(Hand(m))
  BY <1>1 DEF buffer_cache_evict
<1>3. PICK m \in 0 .. BUFFER_CACHE_SIZE - 1 : Hand(m) = j
  BY HandCovers
<1> QED
  BY <1>2, <1>3

\* Only replacement changes the sector of an occupied entry, and it takes a
\* referenced one only when all are (cache.c:71-99).
LEMMA SecondChanceStep ==
  ASSUME Coherent, [Next]_vars,
         NEW i \in Slot,
         SecondChanceFor(i),
         cache'[i].occupied,
         cache'[i].disk_sector # cache[i].disk_sector,
         NEW j \in Slot
  PROVE  SecondChanceFor(j)
<1>1. TypeOK
  BY DEF Coherent
<1>2. ASSUME NEW s \in Sector, NEW d, NEW w,
             NEW k \in 0 .. BUFFER_CACHE_SIZE, buffer_cache_evict(k),
             cache' = [Swept(k) EXCEPT ![Hand(k)] = Filled(s, d, w)]
      PROVE  SecondChanceFor(j)
  <2>1. Hand(k) \in Slot
    BY <1>1, HandInRange
  <2>2. ASSUME i # Hand(k)
        PROVE  FALSE
    <3>1. cache'[i] = Swept(k)[i]
      BY <1>2, <2>1, <2>2 DEF Swept
    <3>2. cache[i] \in buffer_cache_entry_t
      BY <1>1 DEF TypeOK
    <3>3. cache'[i].disk_sector = cache[i].disk_sector
      BY <3>1, <3>2 DEF Swept, buffer_cache_entry_t
    <3> QED
      BY <3>3
  <2> QED
    BY <1>1, <1>2, <2>2, VictimReferenced
<1>3. ASSUME NEW s \in Sector, buffer_cache_read(s)
      PROVE  SecondChanceFor(j)
  <2>1. ASSUME NEW m \in Slot, cache' = [cache EXCEPT ![m].access = TRUE]
        PROVE  cache'[i].disk_sector = cache[i].disk_sector
    BY <1>1, <2>1 DEF TypeOK, buffer_cache_entry_t
  <2> QED
    BY <1>2, <1>3, <2>1 DEF buffer_cache_read
<1>4. ASSUME NEW s \in Sector, NEW d \in Data, buffer_cache_write(s, d)
      PROVE  SecondChanceFor(j)
  <2>1. ASSUME NEW m \in Slot, buffer_cache_lookup(s, m),
               cache' = [cache EXCEPT ![m] = Filled(s, d, TRUE)]
        PROVE  cache'[i].disk_sector = cache[i].disk_sector
    BY <1>1, <2>1 DEF TypeOK, buffer_cache_lookup, Holds, Filled
  <2> QED
    BY <1>2, <1>4, <2>1 DEF buffer_cache_write
<1>5. CASE buffer_cache_close
  <2>1. cache[i] \in buffer_cache_entry_t
    BY <1>1 DEF TypeOK
  <2>2. cache'[i].disk_sector = cache[i].disk_sector
    BY <1>5, <2>1 DEF buffer_cache_close, buffer_cache_entry_t
  <2> QED
    BY <2>2
<1>6. CASE Restart
  BY <1>6 DEF Restart, buffer_cache_init
<1>7. CASE UNCHANGED vars
  BY <1>7 DEF vars
<1> QED
  BY <1>3, <1>4, <1>5, <1>6, <1>7 DEF Next

\* A referenced entry is replaced only when every entry is referenced, for
\* any number of entries (cache.c:80-84).
THEOREM ClockGivesSecondChance == Spec => SecondChance
<1>1. Coherent /\ [Next]_vars
        => [\A i \in Slot :
              /\ SecondChanceFor(i)
              /\ cache'[i].occupied
              /\ cache'[i].disk_sector # cache[i].disk_sector
              => \A j \in Slot : SecondChanceFor(j)]_vars
  BY SecondChanceStep
<1> QED
  BY <1>1, CacheCoherent, PTL DEF Spec, SecondChance

-----------------------------------------------------------------------------
(***************************************************************************)
(* The refinement.  Contents, the abstract store, is described by what it  *)
(* yields for cached and for uncached sectors; each operation is then      *)
(* shown to change it as SectorStore says.                                 *)
(***************************************************************************)
ContentsOf(f, c, d) ==
  /\ f = [s \in Sector |-> f[s]]
  /\ \A s \in Sector, i \in Slot :
       c[i].occupied /\ c[i].disk_sector = s => f[s] = c[i].buffer
  /\ \A s \in Sector :
       (\A i \in Slot : ~(c[i].occupied /\ c[i].disk_sector = s)) => f[s] = d[s]

\* When no sector is cached twice, the store yields the cached contents of a
\* cached sector and the device's contents of any other (cache.c:53-64).
LEMMA ContentsDescribed ==
  ASSUME NEW c, NEW d,
         \A i, j \in Slot : /\ c[i].occupied /\ c[j].occupied
                            /\ c[i].disk_sector = c[j].disk_sector
                            => i = j,
         NEW f,
         f = [s \in Sector |->
                IF \E i \in Slot : c[i].occupied /\ c[i].disk_sector = s
                THEN c[CHOOSE i \in Slot : c[i].occupied
                                           /\ c[i].disk_sector = s].buffer
                ELSE d[s]]
  PROVE  ContentsOf(f, c, d)
<1> DEFINE H(s, i) == c[i].occupied /\ c[i].disk_sector = s
<1>1. f = [s \in Sector |-> IF \E i \in Slot : H(s, i)
                           THEN c[CHOOSE i \in Slot : H(s, i)].buffer
                           ELSE d[s]]
  OBVIOUS
<1>2. ASSUME NEW s \in Sector, NEW i \in Slot, H(s, i)
      PROVE  f[s] = c[i].buffer
  <2>1. /\ (CHOOSE j \in Slot : H(s, j)) \in Slot
        /\ H(s, CHOOSE j \in Slot : H(s, j))
    BY <1>2
  <2>2. (CHOOSE j \in Slot : H(s, j)) = i
    BY <1>2, <2>1
  <2> HIDE DEF H
  <2> QED
    BY <1>1, <1>2, <2>2
<1>3. ASSUME NEW s \in Sector, \A i \in Slot : ~H(s, i)
      PROVE  f[s] = d[s]
  <2> HIDE DEF H
  <2> QED
    BY <1>1, <1>3
<1>4. f = [s \in Sector |-> f[s]]
  BY <1>1
<1> QED
  BY <1>2, <1>3, <1>4 DEF ContentsOf

\* The description holds of the current state.
LEMMA ContentsNow ==
  ASSUME OneCopy
  PROVE  ContentsOf(Contents, cache, disk)
  BY ContentsDescribed DEF OneCopy, Contents, Holds

\* The description holds of the next state.
LEMMA ContentsThen ==
  ASSUME OneCopy'
  PROVE  ContentsOf(Contents', cache', disk')
  BY ContentsDescribed DEF OneCopy, Contents, Holds

\* A miss changes what is read back only at the sector it fills, and writes
\* to the device nothing but what the store already held.
LEMMA MissRefines ==
  ASSUME Coherent, Coherent',
         NEW s \in Sector, NEW d \in Data, NEW w \in BOOLEAN,
         NEW k \in 0 .. BUFFER_CACHE_SIZE,
         Miss(s),
         buffer_cache_evict(k),
         cache' = [Swept(k) EXCEPT ![Hand(k)] = Filled(s, d, w)]
  PROVE  /\ Contents' = [Contents EXCEPT ![s] = d]
         /\ Store!WriteBack
         /\ disk'[s] = Contents[s]
<1> DEFINE h == Hand(k)
<1>1. TypeOK /\ OneCopy /\ CleanMatchesDisk /\ OneCopy'
  BY DEF Coherent
<1>2. h \in Slot
  BY <1>1, HandInRange
<1>3. Replaced(s, d, w, h)
  BY <1>1, MissEffect
<1>4. /\ ContentsOf(Contents, cache, disk)
      /\ ContentsOf(Contents', cache', disk')
  BY <1>1, ContentsNow, ContentsThen
<1> HIDE DEF h
<1>5. disk'[s] = Contents[s]
  BY <1>2, <1>3, <1>4 DEF Miss, Holds, Replaced, ContentsOf
<1>6. Contents'[s] = d
  BY <1>2, <1>3, <1>4 DEF Replaced, Filled, ContentsOf
<1>7. ASSUME NEW t \in Sector, t # s
      PROVE  Contents'[t] = Contents[t]
  <2>1. CASE Holds(h, t)
    <3>1. Contents[t] = cache[h].buffer
      BY <1>2, <1>4, <2>1 DEF ContentsOf, Holds
    <3>2. \A i \in Slot : ~(cache'[i].occupied /\ cache'[i].disk_sector = t)
      <4> SUFFICES ASSUME NEW i \in Slot,
                          cache'[i].occupied, cache'[i].disk_sector = t
                   PROVE  FALSE
        OBVIOUS
      <4>1. i # h
        BY <1>3, <1>7 DEF Replaced, Filled
      <4>2. cache[i].occupied /\ cache[i].disk_sector = t
        BY <1>3, <4>1 DEF Replaced
      <4> QED
        BY <1>1, <1>2, <2>1, <4>1, <4>2 DEF OneCopy, Holds
    <3>3. Contents'[t] = disk'[t]
      BY <1>4, <3>2 DEF ContentsOf
    <3>4. ~cache[h].dirty => cache[h].buffer = disk[t]
      BY <1>1, <1>2, <2>1 DEF CleanMatchesDisk, Holds
    <3>5. disk'[t] = cache[h].buffer
      BY <1>3, <2>1, <3>4 DEF Replaced
    <3> QED
      BY <3>1, <3>3, <3>5
  <2>2. ASSUME NEW i \in Slot \ {h}, Holds(i, t)
        PROVE  Contents'[t] = Contents[t]
    BY <1>3, <1>4, <2>2 DEF Replaced, ContentsOf, Holds
  <2>3. CASE Miss(t)
    <3>1. \A i \in Slot : ~(cache'[i].occupied /\ cache'[i].disk_sector = t)
      <4> SUFFICES ASSUME NEW i \in Slot,
                          cache'[i].occupied, cache'[i].disk_sector = t
                   PROVE  FALSE
        OBVIOUS
      <4>1. i # h
        BY <1>3, <1>7 DEF Replaced, Filled
      <4> QED
        BY <1>3, <2>3, <4>1 DEF Replaced, Miss, Holds
    <3>2. disk'[t] = disk[t]
      BY <1>2, <1>3, <2>3 DEF Replaced, Miss
    <3>3. Contents[t] = disk[t] /\ Contents'[t] = disk'[t]
      BY <1>4, <2>3, <3>1 DEF ContentsOf, Miss, Holds
    <3> QED
      BY <3>2, <3>3
  <2> QED
    BY <2>1, <2>2, <2>3 DEF Miss
<1>8. Contents' = [Contents EXCEPT ![s] = d]
  BY <1>4, <1>6, <1>7 DEF ContentsOf
<1>9. Store!WriteBack
  <2> DEFINE W == {t \in Sector : Holds(h, t) /\ cache[h].dirty}
  <2>1. \A t \in Sector : disk'[t] = IF t \in W THEN Contents[t] ELSE disk[t]
    BY <1>2, <1>3, <1>4 DEF Replaced, ContentsOf, Holds
  <2>2. W \in SUBSET Sector
    OBVIOUS
  <2>3. disk' = [t \in Sector |-> IF t \in W THEN Contents[t] ELSE disk[t]]
    BY <1>3, <2>1 DEF Replaced
  <2> HIDE DEF W
  <2> QED
    BY <2>2, <2>3 DEF Store!WriteBack
<1> QED
  BY <1>5, <1>8, <1>9

\* Entries that keep their sector and contents over an unchanged device leave
\* the store as it was.
LEMMA SameContents ==
  ASSUME OneCopy, OneCopy',
         \A i \in Slot : /\ cache'[i].occupied = cache[i].occupied
                         /\ cache'[i].disk_sector = cache[i].disk_sector
                         /\ cache'[i].buffer = cache[i].buffer,
         \A s \in Sector : Miss(s) => disk'[s] = disk[s]
  PROVE  Contents' = Contents
<1>1. /\ ContentsOf(Contents, cache, disk)
      /\ ContentsOf(Contents', cache', disk')
  BY ContentsNow, ContentsThen
<1>2. ASSUME NEW s \in Sector
      PROVE  Contents'[s] = Contents[s]
  <2>1. CASE Miss(s)
    BY <1>1, <2>1 DEF ContentsOf, Miss, Holds
  <2>2. ASSUME NEW i \in Slot, Holds(i, s)
        PROVE  Contents'[s] = Contents[s]
    BY <1>1, <2>2 DEF ContentsOf, Holds
  <2> QED
    BY <2>1, <2>2 DEF Miss
<1> QED
  BY <1>1, <1>2 DEF ContentsOf

\* Nothing written back is a write-back of no sector.
LEMMA NothingWrittenBack ==
  ASSUME TypeOK, disk' = disk
  PROVE  Store!WriteBack
<1> DEFINE W == {t \in Sector : FALSE}
<1>1. W \in SUBSET Sector
  OBVIOUS
<1>2. disk' = [s \in Sector |-> IF s \in W THEN Contents[s] ELSE disk[s]]
  BY DEF TypeOK
<1> HIDE DEF W
<1> QED
  BY <1>1, <1>2 DEF Store!WriteBack

\* buffer_cache_read returns what the store holds (cache.c:101-118).
LEMMA ReadRefines ==
  ASSUME Coherent, Coherent', NEW s \in Sector, buffer_cache_read(s)
  PROVE  Store!Read(s)
<1>1. TypeOK /\ OneCopy /\ OneCopy' /\ disk' \in [Sector -> Data]
  BY DEF Coherent, TypeOK
<1>2. ContentsOf(Contents, cache, disk)
  BY <1>1, ContentsNow
<1>3. ASSUME NEW i \in Slot, buffer_cache_lookup(s, i),
             cache' = [cache EXCEPT ![i].access = TRUE],
             target' = cache[i].buffer, UNCHANGED <<clock, disk>>
      PROVE  Store!Read(s)
  <2>1. \A j \in Slot : /\ cache'[j].occupied = cache[j].occupied
                        /\ cache'[j].disk_sector = cache[j].disk_sector
                        /\ cache'[j].buffer = cache[j].buffer
    BY <1>1, <1>3 DEF TypeOK, buffer_cache_entry_t
  <2>2. Contents' = Contents
    BY <1>1, <1>3, <2>1, SameContents
  <2>3. target' = Contents[s]
    BY <1>2, <1>3 DEF ContentsOf, buffer_cache_lookup, Holds
  <2>4. Store!WriteBack
    BY <1>1, <1>3, NothingWrittenBack
  <2> QED
    BY <2>2, <2>3, <2>4 DEF Store!Read
<1>4. ASSUME NEW k \in 0 .. BUFFER_CACHE_SIZE, Miss(s), buffer_cache_evict(k),
             cache' = [Swept(k) EXCEPT ![Hand(k)] = Filled(s, disk'[s], FALSE)],
             target' = disk'[s]
      PROVE  Store!Read(s)
  <2>1. disk'[s] \in Data
    BY <1>1
  <2>2. /\ Contents' = [Contents EXCEPT ![s] = disk'[s]]
        /\ Store!WriteBack
        /\ disk'[s] = Contents[s]
    BY <1>4, <2>1, MissRefines
  <2>3. Contents' = Contents
    BY <1>2, <2>2 DEF ContentsOf
  <2> QED
    BY <1>4, <2>2, <2>3 DEF Store!Read
<1> QED
  BY <1>3, <1>4 DEF buffer_cache_read

\* buffer_cache_write changes one sector of the store (cache.c:120-138).
LEMMA WriteRefines ==
  ASSUME Coherent, Coherent', NEW s \in Sector, NEW d \in Data,
         buffer_cache_write(s, d)
  PROVE  Store!Write(s, d)
<1>1. TypeOK /\ OneCopy /\ OneCopy'
  BY DEF Coherent
<1>2. target' = target
  BY DEF buffer_cache_write
<1>3. ASSUME NEW i \in Slot, buffer_cache_lookup(s, i),
             cache' = [cache EXCEPT ![i] = Filled(s, d, TRUE)],
             UNCHANGED <<clock, disk>>
      PROVE  Store!Write(s, d)
  <2>1. /\ ContentsOf(Contents, cache, disk)
        /\ ContentsOf(Contents', cache', disk')
    BY <1>1, ContentsNow, ContentsThen
  <2>2. /\ cache'[i] = Filled(s, d, TRUE)
        /\ \A j \in Slot \ {i} : cache'[j] = cache[j]
    BY <1>1, <1>3 DEF TypeOK
  <2>3. Contents'[s] = d
    BY <2>1, <2>2 DEF ContentsOf, Filled
  <2>4. ASSUME NEW t \in Sector, t # s
        PROVE  Contents'[t] = Contents[t]
    <3>1. ~Holds(i, t)
      BY <1>3, <2>4 DEF buffer_cache_lookup, Holds
    <3>2. CASE Miss(t)
      <4>1. \A j \in Slot : ~(cache'[j].occupied /\ cache'[j].disk_sector = t)
        BY <2>2, <2>4, <3>2 DEF Miss, Holds, Filled
      <4> QED
        BY <1>3, <2>1, <3>2, <4>1 DEF ContentsOf, Miss, Holds
    <3>3. ASSUME NEW j \in Slot, Holds(j, t)
          PROVE  Contents'[t] = Contents[t]
      BY <2>1, <2>2, <3>1, <3>3 DEF ContentsOf, Holds
    <3> QED
      BY <3>2, <3>3 DEF Miss
  <2>5. Contents' = [Contents EXCEPT ![s] = d]
    BY <2>1, <2>3, <2>4 DEF ContentsOf
  <2>6. Store!WriteBack
    BY <1>1, <1>3, NothingWrittenBack
  <2> QED
    BY <1>2, <2>5, <2>6 DEF Store!Write
<1>4. ASSUME NEW k \in 0 .. BUFFER_CACHE_SIZE, Miss(s), buffer_cache_evict(k),
             cache' = [Swept(k) EXCEPT ![Hand(k)] = Filled(s, d, TRUE)]
      PROVE  Store!Write(s, d)
  <2>1. Contents' = [Contents EXCEPT ![s] = d] /\ Store!WriteBack
    BY <1>4, MissRefines
  <2> QED
    BY <1>2, <2>1 DEF Store!Write
<1> QED
  BY <1>3, <1>4 DEF buffer_cache_write

\* buffer_cache_close makes the device equal to the store (cache.c:40-47).
LEMMA CloseRefines ==
  ASSUME Coherent, Coherent', buffer_cache_close
  PROVE  Store!Sync
<1>1. OneCopy /\ OneCopy' /\ CleanMatchesDisk' /\ disk' \in [Sector -> Data]
  BY DEF Coherent, TypeOK
<1>2. Flushed
  BY CloseCoherent
<1>3. Contents' = Contents
  BY <1>1, <1>2, SameContents DEF Flushed
<1>4. ContentsOf(Contents', cache', disk')
  BY <1>1, ContentsThen
<1>5. ASSUME NEW s \in Sector
      PROVE  disk'[s] = Contents'[s]
  <2>1. ASSUME NEW i \in Slot, cache'[i].occupied, cache'[i].disk_sector = s
        PROVE  disk'[s] = Contents'[s]
    BY <1>1, <1>2, <1>4, <2>1 DEF ContentsOf, CleanMatchesDisk, Flushed
  <2> QED
    BY <1>4, <2>1 DEF ContentsOf
<1>6. disk' = Contents'
  BY <1>1, <1>4, <1>5 DEF ContentsOf
<1> QED
  BY <1>3, <1>6 DEF Store!Sync, buffer_cache_close

\* A restart with an empty cache leaves what the device holds (cache.c:21-28).
LEMMA RestartRefines ==
  ASSUME Coherent, Coherent', Restart
  PROVE  Store!Crash
<1>1. OneCopy' /\ disk \in [Sector -> Data]
  BY DEF Coherent, TypeOK
<1>2. ContentsOf(Contents', cache', disk')
  BY <1>1, ContentsThen
<1>3. \A i \in Slot : ~cache'[i].occupied
  BY DEF Restart, buffer_cache_init
<1>4. \A s \in Sector : Contents'[s] = disk[s]
  BY <1>2, <1>3 DEF ContentsOf, Restart
<1>5. Contents' = disk
  BY <1>1, <1>2, <1>4 DEF ContentsOf
<1> QED
  BY <1>5 DEF Store!Crash, Restart

\* The cache implements the sector store, for any number of entries, any
\* device and any contents: each operation of cache.c is the store's
\* operation of the same kind, and a restart is its crash.
THEOREM CacheImplementsStore == Spec => ImplementsSectorStore
<1>1. Init => Store!Init
  <2> SUFFICES ASSUME Init
               PROVE  Store!Init
    OBVIOUS
  <2>1. Coherent
    BY CoherentInit
  <2>2. ContentsOf(Contents, cache, disk)
    BY <2>1, ContentsNow DEF Coherent
  <2>3. Contents = disk
    BY <2>2 DEF ContentsOf, Init, buffer_cache_init
  <2> QED
    BY <2>3 DEF Init, Store!Init
<1>2. Coherent /\ Coherent' /\ [Next]_vars => [Store!Next]_(Store!vars)
  <2> SUFFICES ASSUME Coherent, Coherent', [Next]_vars
               PROVE  [Store!Next]_(Store!vars)
    OBVIOUS
  <2>1. ASSUME NEW s \in Sector, buffer_cache_read(s)
        PROVE  Store!Next
    BY <2>1, ReadRefines DEF Store!Next
  <2>2. ASSUME NEW s \in Sector, NEW d \in Data, buffer_cache_write(s, d)
        PROVE  Store!Next
    BY <2>2, WriteRefines DEF Store!Next
  <2>3. CASE buffer_cache_close
    BY <2>3, CloseRefines DEF Store!Next
  <2>4. CASE Restart
    BY <2>4, RestartRefines DEF Store!Next
  <2>5. CASE UNCHANGED vars
    BY <2>5 DEF vars, Store!vars, Contents, Holds
  <2> QED
    BY <2>1, <2>2, <2>3, <2>4, <2>5 DEF Next
<1> QED
  BY <1>1, <1>2, CacheCoherent, PTL DEF Spec, ImplementsSectorStore, Store!Spec

=============================================================================
