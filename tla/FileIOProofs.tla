---------------------------- MODULE FileIOProofs ----------------------------
(***************************************************************************)
(* Proofs about reading and writing files, for any sector size, any names, *)
(* bytes and texts, and any bound on the length of a file: the type        *)
(* invariant, zeros after the end of a file, texts that follow each other, *)
(* and the refinement of ByteFile by the loops over sectors.               *)
(*                                                                         *)
(* The properties need each other.  That a file grows by zeros needs zeros *)
(* in the last sector after its end; that a chunk stays in the file needs  *)
(* that the file was extended to the end of the write before its loop; and *)
(* that texts follow each other needs what the loop has still to write.    *)
(***************************************************************************)
EXTENDS FileIO, NatLemmas, SequenceTheorems

\* Every step uses the constants' assumptions.
USE SizeAssumption, AbsentAssumption

-----------------------------------------------------------------------------
(* The inductive invariant.                                                 *)

Block == [0 .. BLOCK_SECTOR_SIZE - 1 -> Byte]

\* Byte i of a file, counted from 1, in the blocks bl.
ByteAt(bl, i) == bl[(i - 1) \div BLOCK_SECTOR_SIZE + 1][(i - 1) % BLOCK_SECTOR_SIZE]
Capacity(bl) == BLOCK_SECTOR_SIZE * Len(bl)

Types ==
  /\ blocks \in [Name -> Seq(Block)]
  /\ length \in [Name -> 0 .. MaxLength \cup {Absent}]
  /\ pos \in [Name -> Int \cup {Closed}]
  /\ buffer \in Seq(Byte) /\ out \in Seq(Byte)
  /\ typed \in [Name -> [from : Int, text : Seq(Byte), end : Int]]

\* A file has blocks for its length, with zeros after its end, and only a file
\* that exists is in the table.
FileOK(n) ==
  /\ Exists(n) =>
       /\ length[n] <= Capacity(blocks[n])
       /\ \A i \in 1 .. Capacity(blocks[n]) : i > length[n] => ByteAt(blocks[n], i) = NUL
  /\ pos[n] # Closed => Exists(n)

FilesOK == \A n \in Name : FileOK(n)

LoopState == [op : {"write"} \cup Reading, name : Name, offset : Nat, size : Nat, done : Nat]

\* A loop goes on where it was begun: a write inside the file, with the bytes it
\* has left to write, and a read with the bytes it has read.
LoopOK ==
  \/ io = NoIO
  \/ /\ io \in LoopState /\ Exists(io.name)
     /\ io.op = "write" => io.offset + io.size <= length[io.name] /\ Len(buffer) = io.size
     /\ io.op \in Reading => Len(buffer) = io.done
     /\ io.op # "cat" => pos[io.name] \in Nat /\ pos[io.name] + io.done = io.offset
     /\ io.op = "cat" => io.done = io.offset

Reads(n) == io.op \in {"read", "copy_out"} /\ io.name = n
Writes(n) == io.op = "write" /\ io.name = n

\* Where the position of a file is after the write under way.
FinalPos(n) == IF Writes(n) THEN pos[n] + io.done + io.size - 2 ELSE pos[n]

\* What was typed since the position was set, and not taken back, ends at the
\* position and stands in the file once the write under way has ended; two zeros
\* stand after it unless a write has failed since.
TextOK(n) ==
  /\ pos[n] = Closed => typed[n] = Untyped
  /\ pos[n] # Closed /\ ~Reads(n) =>
       /\ FinalPos(n) = typed[n].from + Len(typed[n].text) /\ FinalPos(n) <= typed[n].end
       /\ typed[n].text # <<>> =>
            /\ typed[n].from >= 0 /\ FinalPos(n) + 2 <= length[n]
            /\ \A i \in 1 .. Len(typed[n].text) :
                 View(n)[typed[n].from + i] = typed[n].text[i]
            /\ FinalPos(n) = typed[n].end =>
                 \A i \in 1 .. 2 : View(n)[FinalPos(n) + i] = NUL

TextsOK == \A n \in Name : TextOK(n)

Core == Types /\ FilesOK /\ LoopOK
IInv == Core /\ TextsOK

-----------------------------------------------------------------------------
(* Bytes and blocks.                                                        *)

\* A function on 1 .. k is a sequence, an empty one when k is not positive.
LEMMA FunctionIsSeq ==
  ASSUME NEW S, NEW k \in Int, NEW f \in [1 .. k -> S]
  PROVE  f \in Seq(S) /\ Len(f) = IF k > 0 THEN k ELSE 0
<1> DEFINE l == IF k > 0 THEN k ELSE 0
<1>1. l \in Nat /\ 1 .. k = 1 .. l
  OBVIOUS
<1> HIDE DEF l
<1>2. f \in [1 .. l -> S]
  BY <1>1
<1>3. f \in Seq(S) /\ Len(f) = l
  BY <1>1, <1>2
<1> QED
  BY <1>3 DEF l

\* Byte i is in one of the blocks.
LEMMA ByteAtBlock ==
  ASSUME NEW bl \in Seq(Block), NEW i \in 1 .. Capacity(bl)
  PROVE  /\ (i - 1) \div BLOCK_SECTOR_SIZE + 1 \in 1 .. Len(bl)
         /\ (i - 1) % BLOCK_SECTOR_SIZE \in 0 .. BLOCK_SECTOR_SIZE - 1
         /\ ByteAt(bl, i) \in Byte
<1> DEFINE b == BLOCK_SECTOR_SIZE
           q == (i - 1) \div b
           r == (i - 1) % b
<1>1. i - 1 \in Nat /\ Len(bl) \in Nat /\ b \in Nat \ {0} /\ i <= b * Len(bl)
  BY LenProperties DEF Capacity
<1>2. q \in Nat /\ r \in 0 .. b - 1 /\ i - 1 = b * q + r
  BY <1>1, DivMod
<1> HIDE DEF b, q, r
<1>3. ~(Len(bl) < q + 1)
  <2> SUFFICES ASSUME Len(bl) < q + 1
               PROVE  FALSE
    OBVIOUS
  <2>1. Len(bl) = q \/ b * Len(bl) + b <= b * q
    BY <1>1, <1>2, NextMultiple
  <2>2. b * q \in Nat /\ b * Len(bl) \in Nat
    BY <1>1, <1>2
  <2> QED
    BY <1>1, <1>2, <2>1, <2>2
<1>4. q + 1 \in 1 .. Len(bl)
  BY <1>1, <1>2, <1>3
<1>5. bl[q + 1][r] \in Byte
  BY <1>2, <1>4 DEF Block, b
<1> QED
  BY <1>2, <1>4, <1>5 DEF ByteAt, b, q, r

\* A byte of a block has one number in the file.
LEMMA ByteNumber ==
  ASSUME NEW bl \in Seq(Block), NEW k \in 1 .. Len(bl),
         NEW j \in 0 .. BLOCK_SECTOR_SIZE - 1
  PROVE  LET i == (k - 1) * BLOCK_SECTOR_SIZE + j + 1 IN
         i \in 1 .. Capacity(bl) /\ ByteAt(bl, i) = bl[k][j]
<1> DEFINE b == BLOCK_SECTOR_SIZE
           i == (k - 1) * b + j + 1
           m == b * (k - 1)
<1>1. k - 1 \in Nat /\ b \in Nat \ {0} /\ k - 1 < Len(bl) /\ Len(bl) \in Nat
  BY LenProperties
<1>2. m \in Nat /\ m + b <= b * Len(bl) /\ i - 1 = m + j /\ b * Len(bl) \in Nat
  BY <1>1, NextMultiple
<1>3. i \in 1 .. Capacity(bl)
  <2> HIDE DEF m
  <2> QED
    BY <1>1, <1>2 DEF Capacity
<1>4. (i - 1) \div b = k - 1 /\ (i - 1) % b = j
  <2> DEFINE a == i - 1
             q == k - 1
  <2>1. a = b * q + j /\ j \in 0 .. b - 1 /\ q \in Nat /\ b \in Nat \ {0}
    BY <1>1, <1>2
  <2> HIDE DEF a, b, q
  <2>2. a \div b = q /\ a % b = j
    BY <2>1, DivModUnique
  <2> QED
    BY <2>2 DEF a, q
<1> QED
  BY <1>3, <1>4 DEF ByteAt

\* Blocks added at the end keep the bytes that were there and hold zeros.
LEMMA AddedBlocks ==
  ASSUME NEW bl \in Seq(Block), NEW k \in Int
  PROVE  LET new == bl \o ZeroBlocks(k) IN
         /\ new \in Seq(Block)
         /\ Len(new) = Len(bl) + (IF k > 0 THEN k ELSE 0)
         /\ Capacity(bl) <= Capacity(new)
         /\ \A i \in 1 .. Capacity(bl) : ByteAt(new, i) = ByteAt(bl, i)
         /\ \A i \in 1 .. Capacity(new) : i > Capacity(bl) => ByteAt(new, i) = NUL
<1> DEFINE z == ZeroBlocks(k)
           new == bl \o z
           b == BLOCK_SECTOR_SIZE
<1>1. ZeroBlock \in Block /\ \A j \in 0 .. b - 1 : ZeroBlock[j] = NUL
  BY DEF ZeroBlock, Block
<1>2. z \in [1 .. k -> Block] /\ \A i \in 1 .. k : z[i] = ZeroBlock
  BY <1>1 DEF ZeroBlocks
<1> HIDE DEF z
<1>3. z \in Seq(Block) /\ Len(z) = IF k > 0 THEN k ELSE 0
  BY <1>2, FunctionIsSeq
<1>4. /\ new \in Seq(Block) /\ Len(new) = Len(bl) + Len(z)
      /\ \A i \in 1 .. Len(bl) + Len(z) :
           new[i] = IF i <= Len(bl) THEN bl[i] ELSE z[i - Len(bl)]
  BY <1>3, ConcatProperties
<1>5. Len(bl) \in Nat /\ Len(z) \in Nat /\ b \in Nat \ {0}
  BY <1>3, LenProperties
<1> HIDE DEF new
<1>6. Capacity(bl) \in Nat /\ Capacity(new) \in Nat /\ Capacity(bl) <= Capacity(new)
  BY <1>4, <1>5 DEF Capacity
<1>7. ASSUME NEW i \in 1 .. Capacity(bl)
      PROVE  ByteAt(new, i) = ByteAt(bl, i)
  BY <1>4, <1>5, ByteAtBlock DEF ByteAt
<1>8. ASSUME NEW i \in 1 .. Capacity(new), i > Capacity(bl)
      PROVE  ByteAt(new, i) = NUL
  <2> DEFINE q == (i - 1) \div b
             r == (i - 1) % b
  <2>1. i - 1 \in Nat /\ q + 1 \in 1 .. Len(new) /\ r \in 0 .. b - 1
    BY <1>4, ByteAtBlock
  <2>2. q \in Nat /\ i - 1 = b * q + r
    BY <1>5, <2>1, DivMod
  <2> HIDE DEF q, r
  <2>3. ~(q + 1 <= Len(bl))
    <3> SUFFICES ASSUME q + 1 <= Len(bl)
                 PROVE  FALSE
      OBVIOUS
    <3>1. b * q + b <= b * Len(bl) /\ b * q \in Nat
      BY <1>5, <2>2, NextMultiple
    <3> QED
      BY <1>5, <1>6, <1>8, <2>1, <2>2, <3>1 DEF Capacity
  <2>4. q + 1 - Len(bl) \in 1 .. k
    BY <1>3, <1>4, <1>5, <2>1, <2>2, <2>3
  <2>5. new[q + 1] = ZeroBlock
    <3>1. z[q + 1 - Len(bl)] = ZeroBlock
      BY <1>2, <2>4
    <3>2. q + 1 \in 1 .. Len(bl) + Len(z)
      BY <1>4, <2>1
    <3>3. new[q + 1] = z[q + 1 - Len(bl)]
      BY <1>4, <1>5, <2>2, <2>3, <3>2
    <3> QED
      BY <3>1, <3>3
  <2> QED
    BY <1>1, <2>1, <2>5 DEF ByteAt, q, r, b
<1> QED
  BY <1>3, <1>4, <1>6, <1>7, <1>8 DEF new, z

-----------------------------------------------------------------------------
(* A chunk: the part of the loop's work that lies in one sector.            *)

\* A file that exists has a length.
LEMMA LengthType ==
  ASSUME Types, NEW n \in Name, Exists(n)
  PROVE  length[n] \in 0 .. MaxLength /\ blocks[n] \in Seq(Block)
  BY DEF Types, Exists

\* Where the loop is: a sector and an offset in it.
LEMMA OffsetInSector ==
  ASSUME NEW b, b = BLOCK_SECTOR_SIZE, io.offset \in Nat
  PROVE  /\ sector_ofs \in 0 .. b - 1 /\ sector_idx \in Nat \ {0}
         /\ io.offset = b * (sector_idx - 1) + sector_ofs
         /\ sector_left = b - sector_ofs /\ sector_left \in 1 .. b
<1>1. b \in Nat \ {0}
  OBVIOUS
<1>2. /\ io.offset \div b \in Nat /\ io.offset % b \in 0 .. b - 1
      /\ io.offset = b * (io.offset \div b) + (io.offset % b)
  BY <1>1, DivMod
<1>3. sector_idx = io.offset \div b + 1 /\ sector_ofs = io.offset % b
  BY DEF sector_idx, sector_ofs
<1>4. sector_idx \in Nat \ {0} /\ sector_idx - 1 = io.offset \div b
  <2> DEFINE d == io.offset \div b
  <2>1. d \in Nat /\ sector_idx = d + 1
    BY <1>2, <1>3
  <2> HIDE DEF d
  <2>2. sector_idx \in Nat \ {0} /\ sector_idx - 1 = d
    BY <2>1
  <2> QED
    BY <2>2 DEF d
<1>5. sector_ofs \in 0 .. b - 1 /\ sector_left = b - sector_ofs
  BY <1>2, <1>3 DEF sector_left
<1>6. sector_left \in 1 .. b
  BY <1>1, <1>5
<1>7. io.offset = b * (sector_idx - 1) + sector_ofs
  BY <1>2, <1>3, <1>4, Zenon
<1> QED
  BY <1>4, <1>5, <1>6, <1>7

\* The loop under way.
LEMMA InLoop ==
  ASSUME Core, io # NoIO
  PROVE  /\ io \in LoopState /\ io.name \in Name /\ io.op \in {"write"} \cup Reading
         /\ io.offset \in Nat /\ io.size \in Nat /\ io.done \in Nat
         /\ Exists(io.name) /\ length[io.name] \in 0 .. MaxLength
         /\ blocks[io.name] \in Seq(Block)
<1>1. io \in LoopState /\ Exists(io.name)
  BY DEF Core, LoopOK
<1>2. /\ io.name \in Name /\ io.op \in {"write"} \cup Reading
      /\ io.offset \in Nat /\ io.size \in Nat /\ io.done \in Nat
  BY <1>1 DEF LoopState
<1> QED
  BY <1>1, <1>2, LengthType DEF Core

\* The chunk is not empty, and lies in the request, in the file and in a sector.
LEMMA ChunkInside ==
  ASSUME Core, io # NoIO, ~LoopOver
  PROVE  /\ chunk_size \in Nat \ {0} /\ chunk_size <= io.size
         /\ io.offset + chunk_size <= length[io.name]
         /\ sector_ofs + chunk_size <= BLOCK_SECTOR_SIZE
         /\ sector_idx \in 1 .. Len(blocks[io.name])
<1> DEFINE b == BLOCK_SECTOR_SIZE
           bl == blocks[io.name]
<1>1. /\ io.name \in Name /\ io.offset \in Nat /\ io.size \in Nat
      /\ Exists(io.name) /\ length[io.name] \in Nat /\ bl \in Seq(Block)
  BY InLoop
<1>2. /\ sector_ofs \in 0 .. b - 1 /\ sector_left = b - sector_ofs
      /\ sector_idx \in Nat \ {0}
  BY <1>1, OffsetInSector
<1>3. /\ chunk_size \in Nat \ {0} /\ chunk_size <= io.size
      /\ chunk_size <= inode_left /\ chunk_size <= sector_left
  <2>1. inode_left \in Int /\ sector_left \in Int /\ io.size # 0 /\ ~(chunk_size <= 0)
    BY <1>1, <1>2 DEF inode_left, LoopOver
  <2> QED
    BY <1>1, <2>1 DEF chunk_size, MinOf
<1>4. io.offset + chunk_size <= length[io.name]
  BY <1>1, <1>3 DEF inode_left
<1>5. io.offset + 1 \in 1 .. Capacity(bl)
  <2>1. length[io.name] <= Capacity(bl) /\ Capacity(bl) \in Nat
    <3>1. length[io.name] <= Capacity(bl)
      BY <1>1 DEF Core, FilesOK, FileOK
    <3>2. Len(bl) \in Nat
      BY <1>1, LenProperties
    <3> QED
      BY <3>1, <3>2 DEF Capacity
  <2>2. io.offset \in Nat /\ length[io.name] \in Nat
    BY <1>1
  <2>3. chunk_size \in Nat \ {0}
    BY <1>3
  <2> QED
    BY <1>4, <2>1, <2>2, <2>3
<1>6. sector_idx \in 1 .. Len(bl)
  <2>1. (io.offset + 1) - 1 = io.offset
    BY <1>1
  <2> QED
    BY <1>1, <1>5, <2>1, ByteAtBlock DEF sector_idx
<1> QED
  BY <1>2, <1>3, <1>4, <1>6

\* The bytes of the chunk are those of its sector from sector_ofs on.
LEMMA ChunkInSector ==
  ASSUME Core, io # NoIO, ~LoopOver, NEW i \in Nat \ {0}
  PROVE  LET q == (i - 1) \div BLOCK_SECTOR_SIZE
             r == (i - 1) % BLOCK_SECTOR_SIZE IN
         /\ q + 1 = sector_idx =>
              /\ i - io.offset = r - sector_ofs + 1
              /\ (i > io.offset /\ i <= io.offset + chunk_size) <=>
                   (r >= sector_ofs /\ r < sector_ofs + chunk_size)
         /\ q + 1 # sector_idx => ~(i > io.offset /\ i <= io.offset + chunk_size)
<1> DEFINE b == BLOCK_SECTOR_SIZE
           q == (i - 1) \div b
           r == (i - 1) % b
           s == sector_idx - 1
<1>1. b \in Nat \ {0} /\ io.offset \in Nat
  BY InLoop
<1>2. q \in Nat /\ r \in 0 .. b - 1 /\ i - 1 = b * q + r
  <2>1. i - 1 \in Nat
    OBVIOUS
  <2> QED
    BY <1>1, <2>1, DivMod
<1>3. /\ sector_ofs \in 0 .. b - 1 /\ s \in Nat /\ sector_idx = s + 1
      /\ io.offset = b * s + sector_ofs
  BY <1>1, OffsetInSector
<1>4. chunk_size \in Nat \ {0} /\ sector_ofs + chunk_size <= b
  BY ChunkInside
<1> HIDE DEF b, q, r, s
<1>5. b * q \in Nat /\ b * s \in Nat
  BY <1>1, <1>2, <1>3
<1>6. ASSUME q = s
      PROVE  /\ i - io.offset = r - sector_ofs + 1
             /\ (i > io.offset /\ i <= io.offset + chunk_size) <=>
                  (r >= sector_ofs /\ r < sector_ofs + chunk_size)
  BY <1>1, <1>2, <1>3, <1>4, <1>5, <1>6
<1>7. ASSUME q < s
      PROVE  ~(i > io.offset /\ i <= io.offset + chunk_size)
  <2>1. b * q + b <= b * s
    BY <1>1, <1>2, <1>3, <1>7, NextMultiple
  <2> QED
    BY <1>1, <1>2, <1>3, <1>4, <1>5, <2>1
<1>8. ASSUME s < q
      PROVE  ~(i > io.offset /\ i <= io.offset + chunk_size)
  <2>1. b * s + b <= b * q
    BY <1>1, <1>2, <1>3, <1>8, NextMultiple
  <2> QED
    BY <1>1, <1>2, <1>3, <1>4, <1>5, <2>1
<1>9. q + 1 = sector_idx <=> q = s
  BY <1>2, <1>3
<1>10. q = s \/ q < s \/ s < q
  BY <1>2, <1>3
<1> QED
  BY <1>6, <1>7, <1>8, <1>9, <1>10 DEF q, r, b

\* What a sector holds after the chunk was written to it, whichever way.
LEMMA WrittenSector ==
  ASSUME Core, io.op = "write", ~LoopOver, NEW bk \in Block
  PROVE  /\ WriteSector(bk) \in Block
         /\ \A j \in 0 .. BLOCK_SECTOR_SIZE - 1 :
              WriteSector(bk)[j] =
                IF j >= sector_ofs /\ j < sector_ofs + chunk_size
                THEN buffer[j - sector_ofs + 1] ELSE bk[j]
<1> DEFINE b == BLOCK_SECTOR_SIZE
<1>1. io # NoIO
  BY DEF NoIO
<1>2. io.offset \in Nat /\ io.size \in Nat /\ b \in Nat \ {0}
  BY <1>1, InLoop
<1>3. sector_ofs \in 0 .. b - 1 /\ sector_left = b - sector_ofs
  BY <1>2, OffsetInSector
<1>4. /\ chunk_size \in Nat \ {0} /\ chunk_size <= io.size /\ sector_ofs + chunk_size <= b
  BY <1>1, ChunkInside
<1>5. buffer \in Seq(Byte) /\ Len(buffer) = io.size
  BY <1>1 DEF Core, Types, LoopOK
<1>6. \A k \in 1 .. chunk_size : buffer[k] \in Byte
  BY <1>2, <1>4, <1>5, ElementOfSeq
<1>7. \A j \in 0 .. b - 1 :
        j >= sector_ofs /\ j < sector_ofs + chunk_size => buffer[j - sector_ofs + 1] \in Byte
  BY <1>2, <1>3, <1>4, <1>6
<1>8. CASE sector_ofs = 0 /\ chunk_size = b
  <2>1. WriteSector(bk) = [j \in 0 .. b - 1 |-> buffer[j + 1]]
    BY <1>8 DEF WriteSector
  <2>2. \A j \in 0 .. b - 1 : j - sector_ofs + 1 = j + 1
    BY <1>2, <1>8
  <2> QED
    BY <1>2, <1>7, <1>8, <2>1, <2>2 DEF Block
<1>9. CASE ~(sector_ofs = 0 /\ chunk_size = b)
  <2>1. Bounce(bk) = bk
    BY <1>2, <1>3, <1>4, <1>9 DEF Bounce
  <2>2. WriteSector(bk) =
          [j \in 0 .. b - 1 |-> IF j >= sector_ofs /\ j < sector_ofs + chunk_size
                                THEN buffer[j - sector_ofs + 1] ELSE bk[j]]
    BY <1>9, <2>1, Zenon DEF WriteSector
  <2> QED
    BY <1>7, <2>2 DEF Block
<1> QED
  BY <1>8, <1>9

\* A chunk of a write changes exactly the bytes of the file that it covers.
LEMMA WriteChunkEffect ==
  ASSUME Core, WriteChunk
  PROVE  LET n == io.name
             c == chunk_size IN
         /\ blocks' \in [Name -> Seq(Block)]
         /\ \A m \in Name \ {n} : blocks'[m] = blocks[m]
         /\ Capacity(blocks'[n]) = Capacity(blocks[n])
         /\ \A i \in 1 .. Capacity(blocks[n]) :
              ByteAt(blocks'[n], i) =
                IF i > io.offset /\ i <= io.offset + c THEN buffer[i - io.offset]
                ELSE ByteAt(blocks[n], i)
         /\ buffer' \in Seq(Byte) /\ Len(buffer') = io.size - c
         /\ \A k \in 1 .. io.size - c : buffer'[k] = buffer[c + k]
         /\ io' = [io EXCEPT !.size = @ - c, !.offset = @ + c, !.done = @ + c]
<1> DEFINE n == io.name
           c == chunk_size
           b == BLOCK_SECTOR_SIZE
           bl == blocks[n]
           w == WriteSector(bl[sector_idx])
<1>1. io # NoIO /\ io.op = "write" /\ ~LoopOver
  BY DEF WriteChunk, NoIO
<1>2. /\ n \in Name /\ io.offset \in Nat /\ io.size \in Nat /\ bl \in Seq(Block)
      /\ blocks \in [Name -> Seq(Block)]
  BY <1>1, InLoop DEF Core, Types
<1>3. c \in Nat \ {0} /\ c <= io.size /\ sector_idx \in 1 .. Len(bl)
  BY <1>1, ChunkInside
<1>4. bl[sector_idx] \in Block
  BY <1>2, <1>3, ElementOfSeq
<1>5. /\ w \in Block
      /\ \A j \in 0 .. b - 1 : w[j] = IF j >= sector_ofs /\ j < sector_ofs + c
                                      THEN buffer[j - sector_ofs + 1] ELSE bl[sector_idx][j]
  BY <1>1, <1>4, WrittenSector
<1> HIDE DEF w
<1>6. blocks' = [blocks EXCEPT ![n] = [bl EXCEPT ![sector_idx] = w]]
  BY DEF WriteChunk, w
<1> DEFINE new == [bl EXCEPT ![sector_idx] = w]
<1>7. /\ new \in Seq(Block) /\ Len(new) = Len(bl)
      /\ \A k \in 1 .. Len(bl) : new[k] = IF k = sector_idx THEN w ELSE bl[k]
  BY <1>2, <1>3, <1>5, ExceptSeq
<1> HIDE DEF new
<1>8. blocks'[n] = new /\ \A m \in Name \ {n} : blocks'[m] = blocks[m]
  BY <1>2, <1>6 DEF new
<1>9. blocks' \in [Name -> Seq(Block)]
  BY <1>2, <1>6, <1>7 DEF new
<1>10. ASSUME NEW i \in 1 .. Capacity(bl)
       PROVE  ByteAt(new, i) = IF i > io.offset /\ i <= io.offset + c
                               THEN buffer[i - io.offset] ELSE ByteAt(bl, i)
  <2> DEFINE q == (i - 1) \div b
             r == (i - 1) % b
  <2>1. i \in Nat \ {0} /\ q + 1 \in 1 .. Len(bl) /\ r \in 0 .. b - 1
    BY <1>2, ByteAtBlock
  <2>2. /\ q + 1 = sector_idx =>
             /\ i - io.offset = r - sector_ofs + 1
             /\ (i > io.offset /\ i <= io.offset + c) <=>
                  (r >= sector_ofs /\ r < sector_ofs + c)
        /\ q + 1 # sector_idx => ~(i > io.offset /\ i <= io.offset + c)
    BY <1>1, <2>1, ChunkInSector
  <2>3. ByteAt(new, i) = new[q + 1][r] /\ ByteAt(bl, i) = bl[q + 1][r]
    BY DEF ByteAt
  <2> HIDE DEF q, r, b, c
  <2>4. CASE q + 1 = sector_idx
    <3>1. new[q + 1] = w
      BY <1>7, <2>1, <2>4
    <3>2. w[r] = IF r >= sector_ofs /\ r < sector_ofs + c
                 THEN buffer[r - sector_ofs + 1] ELSE bl[q + 1][r]
      BY <1>5, <2>1, <2>4
    <3> QED
      BY <2>2, <2>3, <2>4, <3>1, <3>2
  <2>5. CASE q + 1 # sector_idx
    <3>1. new[q + 1] = bl[q + 1]
      BY <1>7, <2>1, <2>5
    <3> QED
      BY <2>2, <2>3, <2>5, <3>1
  <2> QED
    BY <2>4, <2>5
<1>11. buffer \in Seq(Byte) /\ Len(buffer) = io.size
  BY <1>1 DEF Core, Types, LoopOK
<1>12. /\ buffer' \in Seq(Byte) /\ Len(buffer') = io.size - c
       /\ \A k \in 1 .. io.size - c : buffer'[k] = buffer[c + k]
  <2>1. buffer' = SubSeq(buffer, c + 1, io.size)
    BY <1>11 DEF WriteChunk
  <2>2. \A k \in c + 1 .. io.size : buffer[k] \in Byte
    BY <1>2, <1>3, <1>11, ElementOfSeq
  <2>3. c + 1 \in Int /\ io.size \in Int
    BY <1>2, <1>3
  <2> HIDE DEF c
  <2>4. /\ buffer' \in Seq(Byte)
        /\ Len(buffer') = IF c + 1 <= io.size THEN io.size - (c + 1) + 1 ELSE 0
        /\ \A k \in 1 .. io.size - (c + 1) + 1 : buffer'[k] = buffer[c + 1 + k - 1]
    BY <2>1, <2>2, <2>3, SubSeqProperties
  <2>5. c \in Nat /\ io.size \in Nat /\ c <= io.size
    BY <1>2, <1>3
  <2>6. ASSUME NEW k \in 1 .. io.size - c
        PROVE  k \in 1 .. io.size - (c + 1) + 1 /\ c + 1 + k - 1 = c + k
    BY <2>5
  <2>7. Len(buffer') = io.size - c
    BY <2>4, <2>5
  <2> QED
    BY <2>4, <2>6, <2>7
<1>13. io' = [io EXCEPT !.size = @ - c, !.offset = @ + c, !.done = @ + c]
  BY DEF WriteChunk, Advance
<1>14. Capacity(blocks'[n]) = Capacity(blocks[n])
  BY <1>7, <1>8 DEF Capacity
<1> QED
  BY <1>8, <1>9, <1>10, <1>12, <1>13, <1>14

-----------------------------------------------------------------------------
(* The invariant is inductive: files, table and loop.                       *)

\* The bytes that write gives to inode_write_at.
LEMMA WriteBuffer ==
  ASSUME NEW text \in Seq(Byte)
  PROVE  /\ write_buffer(text) \in Seq(Byte) /\ Len(text) \in Nat
         /\ Len(write_buffer(text)) = Len(text) + 2
         /\ \A i \in 1 .. Len(text) : write_buffer(text)[i] = text[i]
         /\ \A i \in Len(text) + 1 .. Len(text) + 2 : write_buffer(text)[i] = NUL
<1> DEFINE z == <<NUL, NUL>>
<1>1. z \in Seq(Byte) /\ Len(z) = 2 /\ z[1] = NUL /\ z[2] = NUL
  OBVIOUS
<1> HIDE DEF z
<1>2. /\ text \o z \in Seq(Byte) /\ Len(text) \in Nat
      /\ Len(text \o z) = Len(text) + 2
      /\ \A i \in 1 .. Len(text) + 2 :
           (text \o z)[i] = IF i <= Len(text) THEN text[i] ELSE z[i - Len(text)]
  <2>1. /\ text \o z \in Seq(Byte)
        /\ Len(text \o z) = Len(text) + Len(z)
        /\ \A i \in 1 .. Len(text) + Len(z) :
             (text \o z)[i] = IF i <= Len(text) THEN text[i] ELSE z[i - Len(text)]
    BY <1>1, ConcatProperties
  <2>2. Len(text) \in Nat
    BY LenProperties
  <2> QED
    BY <1>1, <2>1, <2>2
<1>3. \A i \in Len(text) + 1 .. Len(text) + 2 : i - Len(text) \in {1, 2}
  BY <1>2
<1>4. \A i \in Len(text) + 1 .. Len(text) + 2 : (text \o z)[i] = NUL
  BY <1>1, <1>2, <1>3
<1>5. write_buffer(text) = text \o z
  BY DEF write_buffer, z
<1> QED
  BY <1>2, <1>4, <1>5

\* The position that get_file finds.
LEMMA GetFile ==
  ASSUME Core, NEW n \in Name
  PROVE  get_file(n) \in Int
  BY DEF Core, Types, get_file

\* Extending a file to end keeps its bytes and adds zeros.
LEMMA ExtendEffect ==
  ASSUME Core, NEW n \in Name, Exists(n), NEW end \in 0 .. MaxLength, Extend(n, end)
  PROVE  /\ blocks' \in [Name -> Seq(Block)]
         /\ length' \in [Name -> 0 .. MaxLength \cup {Absent}]
         /\ \A m \in Name \ {n} : blocks'[m] = blocks[m] /\ length'[m] = length[m]
         /\ length'[n] = (IF end <= length[n] THEN length[n] ELSE end)
         /\ length'[n] <= Capacity(blocks'[n])
         /\ \A i \in 1 .. length[n] : ByteAt(blocks'[n], i) = ByteAt(blocks[n], i)
         /\ \A i \in 1 .. Capacity(blocks'[n]) : i > length[n] => ByteAt(blocks'[n], i) = NUL
<1> DEFINE bl == blocks[n]
           len == length[n]
           k == bytes_to_sectors(end) - Len(bl)
           new == bl \o ZeroBlocks(k)
           b == BLOCK_SECTOR_SIZE
<1>1. /\ bl \in Seq(Block) /\ len \in 0 .. MaxLength /\ Len(bl) \in Nat
      /\ len <= Capacity(bl) /\ Capacity(bl) \in Nat
      /\ \A i \in 1 .. Capacity(bl) : i > len => ByteAt(bl, i) = NUL
  BY LengthType, LenProperties DEF Core, FilesOK, FileOK, Capacity
<1>2. /\ blocks \in [Name -> Seq(Block)]
      /\ length \in [Name -> 0 .. MaxLength \cup {Absent}]
  BY DEF Core, Types
<1>3. CASE end <= len
  BY <1>1, <1>2, <1>3 DEF Extend
<1>4. CASE ~(end <= len)
  <2>1. length' = [length EXCEPT ![n] = end] /\ blocks' = [blocks EXCEPT ![n] = new]
    BY <1>4 DEF Extend
  <2>2. bytes_to_sectors(end) \in Nat /\ end <= b * bytes_to_sectors(end)
    BY RoundUp DEF bytes_to_sectors
  <2>3. k \in Int
    BY <1>1, <2>2
  <2>4. /\ new \in Seq(Block)
        /\ Len(new) = Len(bl) + (IF k > 0 THEN k ELSE 0)
        /\ Capacity(bl) <= Capacity(new)
        /\ \A i \in 1 .. Capacity(bl) : ByteAt(new, i) = ByteAt(bl, i)
        /\ \A i \in 1 .. Capacity(new) : i > Capacity(bl) => ByteAt(new, i) = NUL
    BY <1>1, <2>3, AddedBlocks
  <2> HIDE DEF new
  <2>5. end <= Capacity(new)
    <3>1. Len(new) \in Nat /\ bytes_to_sectors(end) <= Len(new)
      BY <1>1, <2>2, <2>4
    <3>2. b * bytes_to_sectors(end) <= b * Len(new)
      BY <2>2, <3>1, NextMultiple
    <3> QED
      BY <2>2, <3>1, <3>2 DEF Capacity
  <2>6. blocks'[n] = new /\ length'[n] = end
    BY <1>2, <2>1
  <2>7. \A i \in 1 .. Capacity(new) : i > len => ByteAt(new, i) = NUL
    BY <1>1, <2>4
  <2>8. \A i \in 1 .. len : ByteAt(new, i) = ByteAt(bl, i)
    BY <1>1, <2>4
  <2>9. /\ blocks' \in [Name -> Seq(Block)]
        /\ length' \in [Name -> 0 .. MaxLength \cup {Absent}]
        /\ \A m \in Name \ {n} : blocks'[m] = blocks[m] /\ length'[m] = length[m]
    BY <1>2, <2>1, <2>4
  <2> QED
    BY <1>4, <2>5, <2>6, <2>7, <2>8, <2>9
<1> QED
  BY <1>3, <1>4

\* A file whose blocks, length and place in the table are as before.
LEMMA FileFrame ==
  ASSUME NEW m \in Name, FileOK(m), blocks'[m] = blocks[m], length'[m] = length[m],
         pos'[m] # Closed => pos[m] # Closed \/ Exists(m)
  PROVE  FileOK(m)'
  BY DEF FileOK, Exists

\* The loop that a command begins.
LEMMA BegunLoop ==
  ASSUME NEW op \in {"write"} \cup Reading, NEW n \in Name, NEW offset \in Nat,
         NEW count \in Nat, NEW data, Begin(op, n, offset, count, data)
  PROVE  /\ io' \in LoopState /\ io' # NoIO /\ buffer' = data
         /\ io'.op = op /\ io'.name = n /\ io'.offset = offset /\ io'.size = count
         /\ io'.done = 0
<1>1. io' = [op |-> op, name |-> n, offset |-> offset, size |-> count, done |-> 0]
  BY DEF Begin
<1>2. io'.op = op /\ op # "none"
  BY <1>1 DEF Reading
<1> QED
  BY <1>1, <1>2 DEF Begin, LoopState, NoIO

\* A chunk moves the loop on.
LEMMA AdvancedLoop ==
  ASSUME Core, io # NoIO, ~LoopOver, Advance
  PROVE  /\ io' \in LoopState /\ io' # NoIO
         /\ io'.op = io.op /\ io'.name = io.name
         /\ io'.offset = io.offset + chunk_size /\ io'.size = io.size - chunk_size
         /\ io'.done = io.done + chunk_size
<1>1. io \in LoopState /\ chunk_size \in Nat /\ chunk_size <= io.size
  BY InLoop, ChunkInside
<1>2. /\ io'.op = io.op /\ io'.name = io.name
      /\ io'.offset = io.offset + chunk_size /\ io'.size = io.size - chunk_size
      /\ io'.done = io.done + chunk_size
  BY <1>1 DEF Advance, LoopState
<1>3. io.size - chunk_size \in Nat /\ io.offset + chunk_size \in Nat /\ io.done + chunk_size \in Nat
  BY <1>1 DEF LoopState
<1>4. io' \in LoopState
  BY <1>1, <1>3 DEF Advance, LoopState
<1>5. io' # NoIO
  BY <1>2, InLoop DEF NoIO, Reading
<1> QED
  BY <1>2, <1>4, <1>5

\* A chunk of a read appends the bytes of the file that it covers.
LEMMA ReadChunkEffect ==
  ASSUME Core, ReadChunk
  PROVE  LET c == chunk_size IN
         /\ buffer' \in Seq(Byte) /\ Len(buffer') = Len(buffer) + c
         /\ \A k \in 1 .. Len(buffer) : buffer'[k] = buffer[k]
         /\ \A k \in 1 .. c :
              buffer'[Len(buffer) + k] = ByteAt(blocks[io.name], io.offset + k)
<1> DEFINE c == chunk_size
           bl == blocks[io.name]
           b == BLOCK_SECTOR_SIZE
           s == ReadSector(bl[sector_idx])
<1>1. io # NoIO /\ ~LoopOver
  BY DEF ReadChunk, NoIO, Reading
<1>2. /\ io.name \in Name /\ io.offset \in Nat /\ bl \in Seq(Block)
      /\ length[io.name] \in Nat /\ Exists(io.name)
  BY <1>1, InLoop
<1>3. /\ c \in Nat \ {0} /\ sector_ofs + c <= b /\ sector_idx \in 1 .. Len(bl)
      /\ io.offset + c <= length[io.name]
  BY <1>1, ChunkInside
<1>4. sector_ofs \in 0 .. b - 1 /\ bl[sector_idx] \in Block
  BY <1>2, <1>3, OffsetInSector, ElementOfSeq
<1>5. s = [j \in 1 .. c |-> bl[sector_idx][sector_ofs + j - 1]]
  BY DEF ReadSector
<1>6. \A j \in 1 .. c : sector_ofs + j - 1 \in 0 .. b - 1
  BY <1>3, <1>4
<1>7. \A j \in 1 .. c : s[j] = bl[sector_idx][sector_ofs + j - 1] /\ s[j] \in Byte
  BY <1>4, <1>5, <1>6 DEF Block
<1>8. s \in [1 .. c -> Byte]
  BY <1>5, <1>7
<1> HIDE DEF s
<1>9. s \in Seq(Byte) /\ Len(s) = c
  BY <1>3, <1>8, FunctionIsSeq
<1>10. buffer \in Seq(Byte) /\ Len(buffer) \in Nat
  BY LenProperties DEF Core, Types
<1>11. buffer' = buffer \o s
  BY DEF ReadChunk, s
<1>12. /\ buffer' \in Seq(Byte) /\ Len(buffer') = Len(buffer) + Len(s)
       /\ \A k \in 1 .. Len(buffer) + Len(s) :
            buffer'[k] = IF k <= Len(buffer) THEN buffer[k] ELSE s[k - Len(buffer)]
  BY <1>9, <1>10, <1>11, ConcatProperties
<1>13. ASSUME NEW k \in 1 .. c
       PROVE  buffer'[Len(buffer) + k] = ByteAt(bl, io.offset + k)
  <2> DEFINE i == io.offset + k
             q == (i - 1) \div b
             r == (i - 1) % b
  <2>1. i \in Nat \ {0} /\ i > io.offset /\ i <= io.offset + c
    BY <1>2, <1>3
  <2>2. /\ q + 1 = sector_idx =>
             /\ i - io.offset = r - sector_ofs + 1
             /\ (i > io.offset /\ i <= io.offset + c) <=>
                  (r >= sector_ofs /\ r < sector_ofs + c)
        /\ q + 1 # sector_idx => ~(i > io.offset /\ i <= io.offset + c)
    BY <1>1, <2>1, ChunkInSector
  <2>3. r \in Nat
    BY <2>1, DivMod
  <2>4. ByteAt(bl, i) = bl[q + 1][r]
    BY DEF ByteAt
  <2> HIDE DEF q, r
  <2>5. q + 1 = sector_idx /\ r = sector_ofs + k - 1
    BY <1>2, <1>4, <2>1, <2>2, <2>3
  <2>6. buffer'[Len(buffer) + k] = s[k]
    <3>1. /\ Len(buffer) + k \in 1 .. Len(buffer) + Len(s)
          /\ ~(Len(buffer) + k <= Len(buffer)) /\ Len(buffer) + k - Len(buffer) = k
      BY <1>3, <1>9, <1>10
    <3> QED
      BY <1>12, <3>1
  <2> QED
    BY <1>7, <2>4, <2>5, <2>6
<1>14. \A k \in 1 .. Len(buffer) : buffer'[k] = buffer[k]
  BY <1>9, <1>10, <1>12
<1> QED
  BY <1>9, <1>12, <1>13, <1>14

\* The initial state has no file and no loop.
LEMMA InitInv == Init => IInv
<1> SUFFICES ASSUME Init
             PROVE  IInv
  OBVIOUS
<1>1. Types
  BY DEF Init, Types, Untyped
<1>2. FilesOK /\ LoopOK
  BY DEF Init, FilesOK, FileOK, Exists, LoopOK
<1>3. TextsOK
  BY DEF Init, TextsOK, TextOK
<1> QED
  BY <1>1, <1>2, <1>3 DEF IInv, Core

\* The start of a write: the file reaches to the end of the text, with its bytes
\* and zeros after them, and the loop has everything to write.
LEMMA WriteEffect ==
  ASSUME Core, NEW n \in Name, NEW text \in Text, write(n, text)
  PROVE  LET p == get_file(n)
             end == p + Len(text) + 2 IN
         /\ Ready /\ Exists(n) /\ text \in Seq(Byte) /\ Len(text) \in Nat
         /\ p \in Nat /\ end \in 0 .. MaxLength
         /\ blocks' \in [Name -> Seq(Block)]
         /\ length' \in [Name -> 0 .. MaxLength \cup {Absent}]
         /\ \A m \in Name \ {n} : blocks'[m] = blocks[m] /\ length'[m] = length[m]
         /\ length'[n] = (IF end <= length[n] THEN length[n] ELSE end)
         /\ length'[n] <= Capacity(blocks'[n])
         /\ \A i \in 1 .. length[n] : ByteAt(blocks'[n], i) = ByteAt(blocks[n], i)
         /\ \A i \in 1 .. Capacity(blocks'[n]) : i > length[n] => ByteAt(blocks'[n], i) = NUL
         /\ io' \in LoopState /\ io' # NoIO /\ io'.op = "write" /\ io'.name = n
         /\ io'.offset = p /\ io'.size = Len(text) + 2 /\ io'.done = 0
         /\ buffer' = write_buffer(text)
<1> DEFINE p == get_file(n)
           end == p + Len(text) + 2
<1>1. Ready /\ Exists(n) /\ p >= 0 /\ p + Len(text) + 2 <= MaxLength
  BY DEF write
<1>2. text \in Seq(Byte)
  OBVIOUS
<1>3. Len(text) \in Nat /\ Len(write_buffer(text)) = Len(text) + 2
  BY <1>2, WriteBuffer
<1>4. p \in Nat
  BY <1>1, GetFile
<1> HIDE DEF p
<1>5. end \in 0 .. MaxLength /\ p + Len(write_buffer(text)) = end
  BY <1>1, <1>3, <1>4
<1>6. Extend(n, end)
  <2>1. Extend(n, p + Len(write_buffer(text)))
    BY DEF write, p
  <2> HIDE DEF end
  <2> QED
    BY <1>5, <2>1
<1>7. Begin("write", n, p, Len(write_buffer(text)), write_buffer(text))
  BY DEF write, p
<1>8. /\ io' \in LoopState /\ io' # NoIO /\ buffer' = write_buffer(text)
      /\ io'.op = "write" /\ io'.name = n /\ io'.offset = p
      /\ io'.size = Len(write_buffer(text)) /\ io'.done = 0
  <2>1. Len(write_buffer(text)) \in Nat /\ "write" \in {"write"} \cup Reading
    BY <1>3
  <2> QED
    BY <1>4, <1>7, <2>1, BegunLoop
<1> HIDE DEF end
<1>9. /\ blocks' \in [Name -> Seq(Block)]
      /\ length' \in [Name -> 0 .. MaxLength \cup {Absent}]
      /\ \A m \in Name \ {n} : blocks'[m] = blocks[m] /\ length'[m] = length[m]
      /\ length'[n] = (IF end <= length[n] THEN length[n] ELSE end)
      /\ length'[n] <= Capacity(blocks'[n])
      /\ \A i \in 1 .. length[n] : ByteAt(blocks'[n], i) = ByteAt(blocks[n], i)
      /\ \A i \in 1 .. Capacity(blocks'[n]) : i > length[n] => ByteAt(blocks'[n], i) = NUL
  BY <1>1, <1>5, <1>6, ExtendEffect
<1> QED
  BY <1>1, <1>2, <1>3, <1>4, <1>5, <1>8, <1>9 DEF p, end

\* A write keeps files, table and loop in order.
LEMMA WriteCore ==
  ASSUME Core, NEW n \in Name, NEW text \in Text, write(n, text)
  PROVE  Core'
<1> DEFINE p == get_file(n)
           end == p + Len(text) + 2
<1>1. /\ Ready /\ Exists(n) /\ text \in Seq(Byte) /\ Len(text) \in Nat
      /\ p \in Nat /\ end \in 0 .. MaxLength
      /\ blocks' \in [Name -> Seq(Block)]
      /\ length' \in [Name -> 0 .. MaxLength \cup {Absent}]
      /\ \A m \in Name \ {n} : blocks'[m] = blocks[m] /\ length'[m] = length[m]
      /\ length'[n] = (IF end <= length[n] THEN length[n] ELSE end)
      /\ length'[n] <= Capacity(blocks'[n])
      /\ \A i \in 1 .. Capacity(blocks'[n]) : i > length[n] => ByteAt(blocks'[n], i) = NUL
      /\ io' \in LoopState /\ io' # NoIO /\ io'.op = "write" /\ io'.name = n
      /\ io'.offset = p /\ io'.size = Len(text) + 2 /\ io'.done = 0
      /\ buffer' = write_buffer(text)
  BY WriteEffect
<1>2. pos' = [pos EXCEPT ![n] = p] /\ out' = out /\ typed' = [typed EXCEPT ![n].text = @ \o text, ![n].end = p + Len(text)]
  BY DEF write
<1> HIDE DEF p, end
<1>3. Types'
  <2>1. pos' \in [Name -> Int \cup {Closed}] /\ buffer' \in Seq(Byte) /\ out' \in Seq(Byte)
    BY <1>1, <1>2, WriteBuffer DEF Core, Types
  <2>2. typed' \in [Name -> [from : Int, text : Seq(Byte), end : Int]]
    <3>1. typed[n].text \o text \in Seq(Byte) /\ p + Len(text) \in Int
      BY <1>1, ConcatProperties DEF Core, Types
    <3> QED
      BY <1>2, <3>1 DEF Core, Types
  <2> QED
    BY <1>1, <2>1, <2>2 DEF Types
<1>4. length[n] \in Nat /\ length'[n] \in Nat /\ length[n] <= length'[n] /\ end <= length'[n]
  BY <1>1, LengthType DEF Core
<1>5. FilesOK'
  <2> SUFFICES ASSUME NEW m \in Name
               PROVE  FileOK(m)'
    BY DEF FilesOK
  <2>1. CASE m = n
    <3>1. \A i \in 1 .. Capacity(blocks'[n]) : i > length'[n] => i > length[n]
      BY <1>4
    <3> QED
      BY <1>1, <1>4, <2>1, <3>1 DEF FileOK, Exists
  <2>2. CASE m # n
    BY <1>1, <1>2, <2>2, FileFrame DEF Core, FilesOK, Types
  <2> QED
    BY <2>1, <2>2
<1>6. LoopOK'
  <2>1. Exists(n)'
    BY <1>4 DEF Exists
  <2>2. pos'[n] = p
    BY <1>2 DEF Core, Types
  <2>3. io'.offset + io'.size = end
    BY <1>1 DEF end
  <2>4. Len(buffer') = io'.size
    BY <1>1, WriteBuffer
  <2> QED
    BY <1>1, <1>4, <2>1, <2>2, <2>3, <2>4 DEF LoopOK, Reading
<1> QED
  BY <1>3, <1>5, <1>6 DEF Core

\* A new file has blocks of zeros for its size.
LEMMA NewFile ==
  ASSUME NEW k \in Nat
  PROVE  LET new == ZeroBlocks(bytes_to_sectors(k)) IN
         /\ new \in Seq(Block) /\ k <= Capacity(new)
         /\ \A i \in 1 .. Capacity(new) : ByteAt(new, i) = NUL
<1> DEFINE s == bytes_to_sectors(k)
           new == ZeroBlocks(s)
           none == <<>>
           b == BLOCK_SECTOR_SIZE
<1>1. s \in Nat /\ k <= b * s
  BY RoundUp DEF bytes_to_sectors
<1>2. new \in Seq(Block) /\ Len(new) = s
  <2>1. new \in [1 .. s -> Block]
    BY DEF ZeroBlocks, ZeroBlock, Block
  <2> HIDE DEF new
  <2> QED
    BY <1>1, <2>1, FunctionIsSeq
<1>3. none \in Seq(Block) /\ Len(none) = 0 /\ none \o new = new
  BY <1>2, EmptySeq, ConcatEmptySeq
<1> HIDE DEF none
<1>4. \A i \in 1 .. Capacity(none \o new) : i > Capacity(none) => ByteAt(none \o new, i) = NUL
  <2> HIDE DEF s
  <2>1. s \in Int
    BY <1>1
  <2> QED
    BY <1>3, <2>1, AddedBlocks
<1> HIDE DEF new, s
<1>5. Capacity(none) = 0 /\ Capacity(new) \in Nat /\ k <= Capacity(new)
  BY <1>1, <1>2, <1>3 DEF Capacity
<1> QED
  BY <1>2, <1>3, <1>4, <1>5 DEF new, s

\* create keeps files, table and loop in order.
LEMMA CreateCore ==
  ASSUME Core, NEW n \in Name, NEW k \in Sizes, create(n, k)
  PROVE  Core'
<1> DEFINE new == ZeroBlocks(bytes_to_sectors(k))
<1>1. k \in 0 .. MaxLength
  BY DEF create
<1>2. /\ new \in Seq(Block) /\ k <= Capacity(new)
      /\ \A i \in 1 .. Capacity(new) : ByteAt(new, i) = NUL
  BY <1>1, NewFile
<1>3. blocks' = [blocks EXCEPT ![n] = new] /\ length' = [length EXCEPT ![n] = k]
  BY DEF create
<1> HIDE DEF new
<1>4. Types'
  BY <1>1, <1>2, <1>3 DEF create, Core, Types
<1>5. FilesOK'
  <2> SUFFICES ASSUME NEW m \in Name
               PROVE  FileOK(m)'
    BY DEF FilesOK
  <2>1. CASE m = n
    <3>1. blocks'[n] = new /\ length'[n] = k
      BY <1>3 DEF Core, Types
    <3> QED
      BY <1>1, <1>2, <2>1, <3>1 DEF FileOK, Exists
  <2>2. CASE m # n
    <3>1. blocks'[m] = blocks[m] /\ length'[m] = length[m] /\ pos'[m] = pos[m] /\ FileOK(m)
      BY <1>3, <2>2 DEF Core, Types, FilesOK, create
    <3> QED
      BY <3>1, FileFrame
  <2> QED
    BY <2>1, <2>2
<1>6. LoopOK'
  BY DEF create, Ready, LoopOK
<1> QED
  BY <1>4, <1>5, <1>6 DEF Core

\* A command that only sets the position of a file.
LEMMA PositionCore ==
  ASSUME Core, NEW n \in Name, NEW p \in Int, Ready, Exists(n),
         pos' = [pos EXCEPT ![n] = p], UNCHANGED <<blocks, length, io, buffer, out>>,
         typed' \in [Name -> [from : Int, text : Seq(Byte), end : Int]]
  PROVE  Core'
<1>1. Types'
  BY DEF Core, Types
<1>2. FilesOK'
  <2> SUFFICES ASSUME NEW m \in Name
               PROVE  FileOK(m)'
    BY DEF FilesOK
  <2>1. FileOK(m) /\ (pos'[m] # Closed => pos[m] # Closed \/ Exists(m))
    BY DEF Core, Types, FilesOK
  <2> QED
    BY <2>1, FileFrame
<1>3. LoopOK'
  BY DEF Ready, LoopOK
<1> QED
  BY <1>1, <1>2, <1>3 DEF Core

\* seek and size keep files, table and loop in order.
LEMMA SeekSizeCore ==
  ASSUME Core, NEW n \in Name, (\E k \in Sizes : seek(n, k)) \/ size(n)
  PROVE  Core'
<1>1. typed \in [Name -> [from : Int, text : Seq(Byte), end : Int]] /\ <<>> \in Seq(Byte)
  BY EmptySeq DEF Core, Types
<1>2. ASSUME NEW k \in Sizes, seek(n, k)
      PROVE  Core'
  <2>1. k \in Int
    OBVIOUS
  <2>2. typed' \in [Name -> [from : Int, text : Seq(Byte), end : Int]]
    BY <1>1, <1>2, <2>1 DEF seek, StartsAt
  <2> QED
    BY <1>2, <2>1, <2>2, PositionCore DEF seek
<1>3. CASE size(n)
  BY <1>1, <1>3, GetFile, PositionCore DEF size
<1> QED
  BY <1>2, <1>3

\* rm leaves no length, no blocks and no position.
LEMMA RmCore ==
  ASSUME Core, NEW n \in Name, rm(n)
  PROVE  Core'
<1>1. <<>> \in Seq(Block) /\ Untyped \in [from : Int, text : Seq(Byte), end : Int]
  BY EmptySeq DEF Untyped
<1>2. Types'
  BY <1>1 DEF rm, Core, Types
<1>3. FilesOK'
  <2> SUFFICES ASSUME NEW m \in Name
               PROVE  FileOK(m)'
    BY DEF FilesOK
  <2>1. CASE m = n
    <3>1. length'[n] = Absent /\ pos'[n] = Closed
      BY DEF Core, Types, rm
    <3> QED
      BY <2>1, <3>1 DEF FileOK, Exists
  <2>2. CASE m # n
    <3>1. blocks'[m] = blocks[m] /\ length'[m] = length[m] /\ pos'[m] = pos[m] /\ FileOK(m)
      BY <2>2 DEF Core, Types, FilesOK, rm
    <3> QED
      BY <3>1, FileFrame
  <2> QED
    BY <2>1, <2>2
<1>4. LoopOK'
  BY DEF rm, Ready, LoopOK
<1> QED
  BY <1>2, <1>3, <1>4 DEF Core

\* The blocks a failed write leaves behind hold zeros.
LEMMA WriteFailsEffect ==
  ASSUME Core, NEW n \in Name, NEW text \in Text, write_fails(n, text)
  PROVE  /\ Ready /\ Exists(n) /\ get_file(n) \in Nat
         /\ blocks' \in [Name -> Seq(Block)] /\ Capacity(blocks[n]) <= Capacity(blocks'[n])
         /\ \A m \in Name \ {n} : blocks'[m] = blocks[m]
         /\ \A i \in 1 .. Capacity(blocks[n]) : ByteAt(blocks'[n], i) = ByteAt(blocks[n], i)
         /\ \A i \in 1 .. Capacity(blocks'[n]) : i > length[n] => ByteAt(blocks'[n], i) = NUL
<1> DEFINE bl == blocks[n]
           end == get_file(n) + Len(text) + 2
<1>1. Ready /\ Exists(n) /\ get_file(n) >= 0
  BY DEF write_fails
<1>2. get_file(n) \in Nat /\ Len(text) \in Nat
  BY <1>1, GetFile, LenProperties
<1>3. PICK k \in Len(bl) .. bytes_to_sectors(end) - 1 :
        blocks' = [blocks EXCEPT ![n] = bl \o ZeroBlocks(k - Len(bl))]
  BY DEF write_fails
<1>4. /\ bl \in Seq(Block) /\ length[n] \in Nat /\ Len(bl) \in Nat
      /\ length[n] <= Capacity(bl) /\ Capacity(bl) \in Nat
      /\ \A i \in 1 .. Capacity(bl) : i > length[n] => ByteAt(bl, i) = NUL
      /\ blocks \in [Name -> Seq(Block)]
  BY <1>1, LengthType, LenProperties DEF Core, Types, FilesOK, FileOK, Capacity
<1>5. k - Len(bl) \in Int
  BY <1>3, <1>4
<1> DEFINE new == bl \o ZeroBlocks(k - Len(bl))
<1>6. /\ new \in Seq(Block) /\ Capacity(bl) <= Capacity(new)
      /\ \A i \in 1 .. Capacity(bl) : ByteAt(new, i) = ByteAt(bl, i)
      /\ \A i \in 1 .. Capacity(new) : i > Capacity(bl) => ByteAt(new, i) = NUL
  BY <1>4, <1>5, AddedBlocks
<1> HIDE DEF new
<1>7. blocks'[n] = new /\ \A m \in Name \ {n} : blocks'[m] = blocks[m]
  BY <1>3, <1>4 DEF new
<1>8. blocks' \in [Name -> Seq(Block)]
  BY <1>3, <1>4, <1>6 DEF new
<1>9. \A i \in 1 .. Capacity(new) : i > length[n] => ByteAt(new, i) = NUL
  BY <1>4, <1>6
<1> QED
  BY <1>1, <1>2, <1>6, <1>7, <1>8, <1>9

\* What a failed write leaves of the text: all but its last two bytes.
LEMMA TakenBack ==
  ASSUME Types, NEW n \in Name, NEW text \in Text, write_fails(n, text), get_file(n) \in Nat
  PROVE  /\ typed' \in [Name -> [from : Int, text : Seq(Byte), end : Int]]
         /\ typed'[n].from = MinOf(typed[n].from, get_file(n) - 2)
         /\ typed'[n].end = typed[n].end
         /\ Len(typed'[n].text) = (IF Len(typed[n].text) >= 2 THEN Len(typed[n].text) - 2 ELSE 0)
         /\ \A i \in 1 .. Len(typed'[n].text) : typed'[n].text[i] = typed[n].text[i]
         /\ typed[n].from \in Int /\ typed[n].end \in Int /\ Len(typed[n].text) \in Nat
<1> DEFINE t == typed[n].text
           l == Len(t) - 2
           s == SubSeq(t, 1, l)
           f == MinOf(typed[n].from, get_file(n) - 2)
<1>1. typed[n] \in [from : Int, text : Seq(Byte), end : Int]
  BY DEF Types
<1>2. t \in Seq(Byte) /\ Len(t) \in Nat
  BY <1>1, LenProperties
<1>3. f \in Int
  BY <1>1 DEF MinOf
<1>4. 1 \in Int /\ l \in Int /\ \A i \in 1 .. l : t[i] \in Byte
  BY <1>2, ElementOfSeq
<1>5. typed' = [typed EXCEPT ![n].from = f, ![n].text = s]
  BY DEF write_fails
<1> HIDE DEF s, f, l
<1>6. /\ s \in Seq(Byte)
      /\ Len(s) = (IF 1 <= l THEN l - 1 + 1 ELSE 0)
      /\ \A i \in 1 .. l - 1 + 1 : s[i] = t[1 + i - 1]
  BY <1>4, SubSeqProperties DEF s
<1>7. /\ Len(s) = (IF Len(t) >= 2 THEN Len(t) - 2 ELSE 0)
      /\ \A i \in 1 .. Len(s) : s[i] = t[i]
  <2>1. Len(s) = (IF Len(t) >= 2 THEN Len(t) - 2 ELSE 0)
    BY <1>2, <1>4, <1>6 DEF l
  <2> SUFFICES ASSUME NEW i \in 1 .. Len(s)
               PROVE  s[i] = t[i]
    BY <2>1
  <2>2. i \in 1 .. l - 1 + 1 /\ 1 + i - 1 = i
    BY <1>2, <1>4, <1>6
  <2> QED
    BY <1>6, <2>2
<1>8. typed' \in [Name -> [from : Int, text : Seq(Byte), end : Int]]
  BY <1>1, <1>3, <1>5, <1>6 DEF Types
<1>9. typed'[n].from = f /\ typed'[n].text = s /\ typed'[n].end = typed[n].end
  BY <1>1, <1>5 DEF Types
<1> QED
  BY <1>1, <1>2, <1>7, <1>8, <1>9 DEF f

\* A write that finds no sectors keeps files, table and loop in order.
LEMMA WriteFailsCore ==
  ASSUME Core, NEW n \in Name, NEW text \in Text, write_fails(n, text)
  PROVE  Core'
<1>1. /\ Ready /\ Exists(n) /\ get_file(n) \in Nat
      /\ blocks' \in [Name -> Seq(Block)] /\ Capacity(blocks[n]) <= Capacity(blocks'[n])
      /\ \A m \in Name \ {n} : blocks'[m] = blocks[m]
      /\ \A i \in 1 .. Capacity(blocks'[n]) : i > length[n] => ByteAt(blocks'[n], i) = NUL
  BY WriteFailsEffect
<1>2. /\ pos' = [pos EXCEPT ![n] = get_file(n) - 2]
      /\ UNCHANGED <<length, io, buffer, out>>
  BY DEF write_fails
<1>3. Types'
  <2>1. get_file(n) - 2 \in Int
    BY <1>1
  <2>2. typed' \in [Name -> [from : Int, text : Seq(Byte), end : Int]]
    BY <1>1, TakenBack DEF Core
  <2> QED
    BY <1>1, <1>2, <2>1, <2>2 DEF Core, Types
<1>4. FilesOK'
  <2> SUFFICES ASSUME NEW m \in Name
               PROVE  FileOK(m)'
    BY DEF FilesOK
  <2>1. CASE m = n
    <3>1. length[n] <= Capacity(blocks'[n])
      <4>1. Len(blocks'[n]) \in Nat /\ Len(blocks[n]) \in Nat /\ length[n] \in Nat
        BY <1>1, LengthType, LenProperties DEF Core
      <4>2. Capacity(blocks'[n]) \in Nat /\ Capacity(blocks[n]) \in Nat
        BY <4>1 DEF Capacity
      <4> QED
        BY <1>1, <4>1, <4>2 DEF Core, FilesOK, FileOK
    <3> QED
      BY <1>1, <1>2, <2>1, <3>1 DEF FileOK, Exists
  <2>2. CASE m # n
    <3>1. blocks'[m] = blocks[m] /\ length'[m] = length[m] /\ pos'[m] = pos[m] /\ FileOK(m)
      BY <1>1, <1>2, <2>2 DEF Core, Types, FilesOK
    <3> QED
      BY <3>1, FileFrame
  <2> QED
    BY <2>1, <2>2
<1>5. LoopOK'
  BY <1>1, <1>2 DEF Ready, LoopOK
<1> QED
  BY <1>3, <1>4, <1>5 DEF Core

\* What read, cat and copy_out begin.
LEMMA ReadStart ==
  ASSUME Core, NEW n \in Name,
         (\E k \in Sizes : read(n, k)) \/ cat(n) \/ copy_out(n)
  PROVE  /\ Ready /\ Exists(n) /\ length[n] \in Nat
         /\ io' \in LoopState /\ io' # NoIO /\ io'.op \in Reading /\ io'.name = n
         /\ io'.done = 0 /\ buffer' = <<>>
         /\ UNCHANGED <<blocks, length, out, typed>>
         /\ io'.op = "cat" => cat(n) /\ pos' = pos /\ io'.offset = 0 /\ io'.size = length[n]
         /\ io'.op = "copy_out" => /\ copy_out(n) /\ pos' = [pos EXCEPT ![n] = 0]
                                   /\ io'.offset = 0 /\ io'.size = length[n]
         /\ io'.op = "read" => /\ get_file(n) \in Nat /\ pos' = [pos EXCEPT ![n] = get_file(n)]
                               /\ io'.offset = get_file(n)
                               /\ io'.size \in Sizes /\ read(n, io'.size)
<1>1. Ready /\ Exists(n)
  BY DEF read, cat, copy_out
<1>2. length[n] \in Nat
  BY <1>1, LengthType DEF Core
<1>3. "read" \in Reading /\ "cat" \in Reading /\ "copy_out" \in Reading
  BY DEF Reading
<1>4. ASSUME NEW k \in Sizes, read(n, k)
      PROVE  /\ io' \in LoopState /\ io' # NoIO /\ io'.op = "read" /\ io'.name = n
             /\ io'.done = 0 /\ buffer' = <<>> /\ get_file(n) \in Nat
             /\ pos' = [pos EXCEPT ![n] = get_file(n)]
             /\ io'.offset = get_file(n) /\ io'.size = k
  <2>1. get_file(n) \in Nat /\ k \in Nat
    BY <1>4, GetFile DEF read
  <2> QED
    BY <1>3, <1>4, <2>1, BegunLoop DEF read
<1>5. ASSUME cat(n)
      PROVE  /\ io' \in LoopState /\ io' # NoIO /\ io'.op = "cat" /\ io'.name = n
             /\ io'.done = 0 /\ buffer' = <<>> /\ pos' = pos
             /\ io'.offset = 0 /\ io'.size = length[n]
  BY <1>2, <1>3, <1>5, BegunLoop DEF cat
<1>6. ASSUME copy_out(n)
      PROVE  /\ io' \in LoopState /\ io' # NoIO /\ io'.op = "copy_out" /\ io'.name = n
             /\ io'.done = 0 /\ buffer' = <<>> /\ pos' = [pos EXCEPT ![n] = 0]
             /\ io'.offset = 0 /\ io'.size = length[n]
  BY <1>2, <1>3, <1>6, BegunLoop DEF copy_out
<1>7. UNCHANGED <<blocks, length, out, typed>>
  BY DEF read, cat, copy_out
<1> QED
  BY <1>1, <1>2, <1>3, <1>4, <1>5, <1>6, <1>7

\* Starting a read keeps files, table and loop in order.
LEMMA ReadStartCore ==
  ASSUME Core, NEW n \in Name,
         (\E k \in Sizes : read(n, k)) \/ cat(n) \/ copy_out(n)
  PROVE  Core'
<1>1. /\ Ready /\ Exists(n) /\ length[n] \in Nat
      /\ io' \in LoopState /\ io' # NoIO /\ io'.op \in Reading /\ io'.name = n
      /\ io'.done = 0 /\ buffer' = <<>>
      /\ UNCHANGED <<blocks, length, out, typed>>
      /\ io'.op = "cat" => pos' = pos /\ io'.offset = 0
      /\ io'.op = "copy_out" => pos' = [pos EXCEPT ![n] = 0] /\ io'.offset = 0
      /\ io'.op = "read" => /\ get_file(n) \in Nat /\ pos' = [pos EXCEPT ![n] = get_file(n)]
                            /\ io'.offset = get_file(n)
  BY ReadStart
<1>2. \/ pos' = pos
      \/ \E p \in Int : pos' = [pos EXCEPT ![n] = p]
  <2>1. CASE io'.op = "cat"
    BY <1>1, <2>1
  <2>2. CASE io'.op = "copy_out"
    BY <1>1, <2>2
  <2>3. CASE io'.op = "read"
    BY <1>1, <2>3
  <2> QED
    BY <1>1, <2>1, <2>2, <2>3 DEF Reading
<1>3. Types'
  <2>1. pos' \in [Name -> Int \cup {Closed}]
    BY <1>2 DEF Core, Types
  <2> QED
    BY <1>1, <2>1, EmptySeq DEF Core, Types
<1>4. FilesOK'
  <2> SUFFICES ASSUME NEW m \in Name
               PROVE  FileOK(m)'
    BY DEF FilesOK
  <2>1. FileOK(m) /\ (pos'[m] # Closed => pos[m] # Closed \/ Exists(m))
    BY <1>1, <1>2 DEF Core, Types, FilesOK
  <2> QED
    BY <1>1, <2>1, FileFrame
<1>5. LoopOK'
  <2>1. Exists(n)' /\ Len(buffer') = 0
    BY <1>1, EmptySeq DEF Exists
  <2>2. io'.op # "cat" => pos'[n] \in Nat /\ pos'[n] + io'.done = io'.offset
    <3>1. CASE io'.op = "copy_out"
      BY <1>1, <3>1 DEF Core, Types
    <3>2. CASE io'.op = "read"
      BY <1>1, <3>2 DEF Core, Types
    <3> QED
      BY <1>1, <3>1, <3>2 DEF Reading
  <2>3. io'.op # "write"
    BY <1>1 DEF Reading
  <2> QED
    BY <1>1, <2>1, <2>2, <2>3 DEF LoopOK
<1> QED
  BY <1>3, <1>4, <1>5 DEF Core

\* A chunk of a write keeps files, table and loop in order.
LEMMA WriteChunkCore ==
  ASSUME Core, WriteChunk
  PROVE  Core'
<1> DEFINE n == io.name
           c == chunk_size
<1>1. io # NoIO /\ io.op = "write" /\ ~LoopOver /\ Advance /\ UNCHANGED <<length, pos, out, typed>>
  BY DEF WriteChunk, NoIO
<1>2. /\ n \in Name /\ io.offset \in Nat /\ io.size \in Nat /\ io.done \in Nat
      /\ Exists(n) /\ length[n] \in Nat
  BY <1>1, InLoop
<1>3. /\ blocks' \in [Name -> Seq(Block)]
      /\ \A m \in Name \ {n} : blocks'[m] = blocks[m]
      /\ Capacity(blocks'[n]) = Capacity(blocks[n])
      /\ \A i \in 1 .. Capacity(blocks[n]) :
           ByteAt(blocks'[n], i) =
             IF i > io.offset /\ i <= io.offset + c THEN buffer[i - io.offset]
             ELSE ByteAt(blocks[n], i)
      /\ buffer' \in Seq(Byte) /\ Len(buffer') = io.size - c
  BY WriteChunkEffect
<1>4. c \in Nat \ {0} /\ c <= io.size /\ io.offset + c <= length[n]
  BY <1>1, ChunkInside
<1>5. /\ io' \in LoopState /\ io' # NoIO /\ io'.op = io.op /\ io'.name = n
      /\ io'.offset = io.offset + c /\ io'.size = io.size - c /\ io'.done = io.done + c
  BY <1>1, AdvancedLoop
<1> HIDE DEF n, c
<1>6. Types'
  BY <1>1, <1>3 DEF Core, Types
<1>7. FilesOK'
  <2> SUFFICES ASSUME NEW m \in Name
               PROVE  FileOK(m)'
    BY DEF FilesOK
  <2>1. FileOK(m)
    BY DEF Core, FilesOK
  <2>2. CASE m = n
    <3>1. ASSUME NEW i \in 1 .. Capacity(blocks'[n]), i > length[n]
          PROVE  ByteAt(blocks'[n], i) = NUL
      <4>1. i \in 1 .. Capacity(blocks[n]) /\ ~(i <= io.offset + c)
        BY <1>2, <1>3, <1>4, <3>1
      <4>2. ByteAt(blocks[n], i) = NUL
        BY <1>2, <2>1, <2>2, <3>1, <4>1 DEF FileOK
      <4> QED
        BY <1>3, <4>1, <4>2
    <3> QED
      BY <1>1, <1>3, <2>1, <2>2, <3>1 DEF FileOK, Exists
  <2>3. CASE m # n
    BY <1>1, <1>3, <2>1, <2>3, FileFrame
  <2> QED
    BY <2>2, <2>3
<1>8. LoopOK'
  <2>1. /\ io.offset + io.size <= length[n]
        /\ pos[n] \in Nat /\ pos[n] + io.done = io.offset
    BY <1>1 DEF Core, LoopOK, n
  <2>2. /\ io'.offset + io'.size <= length'[n]
        /\ pos'[n] \in Nat /\ pos'[n] + io'.done = io'.offset
    BY <1>1, <1>2, <1>4, <1>5, <2>1
  <2>3. length'[n] # Absent
    BY <1>1, <1>2 DEF Exists
  <2> QED
    BY <1>1, <1>3, <1>5, <2>2, <2>3 DEF LoopOK, Reading, Exists
<1> QED
  BY <1>6, <1>7, <1>8 DEF Core

\* So does a chunk of a read.
LEMMA ReadChunkCore ==
  ASSUME Core, ReadChunk
  PROVE  Core'
<1> DEFINE n == io.name
           c == chunk_size
<1>1. /\ io # NoIO /\ io.op \in Reading /\ ~LoopOver /\ Advance
      /\ UNCHANGED <<blocks, length, pos, out, typed>>
  BY DEF ReadChunk, NoIO, Reading
<1>2. n \in Name /\ io.offset \in Nat /\ io.done \in Nat /\ Exists(n)
  BY <1>1, InLoop
<1>3. c \in Nat \ {0}
  BY <1>1, ChunkInside
<1>4. buffer' \in Seq(Byte) /\ Len(buffer') = Len(buffer) + c
  BY ReadChunkEffect
<1>5. /\ io' \in LoopState /\ io' # NoIO /\ io'.op = io.op /\ io'.name = n
      /\ io'.offset = io.offset + c /\ io'.done = io.done + c
  BY <1>1, AdvancedLoop
<1> HIDE DEF n, c
<1>6. Types'
  BY <1>1, <1>4 DEF Core, Types
<1>7. FilesOK'
  BY <1>1 DEF Core, FilesOK, FileOK, Exists
<1>8. LoopOK'
  <2>1. /\ Len(buffer) = io.done
        /\ io.op # "cat" => pos[n] \in Nat /\ pos[n] + io.done = io.offset
        /\ io.op = "cat" => io.done = io.offset
    BY <1>1 DEF Core, LoopOK, n
  <2>2. /\ Len(buffer') = io'.done
        /\ io'.op # "cat" => pos'[n] \in Nat /\ pos'[n] + io'.done = io'.offset
        /\ io'.op = "cat" => io'.done = io'.offset
    BY <1>1, <1>2, <1>3, <1>4, <1>5, <2>1
  <2>3. length'[n] # Absent /\ io'.op # "write" /\ io'.op \in Reading
    BY <1>1, <1>2, <1>5 DEF Exists, Reading
  <2> QED
    BY <1>5, <2>2, <2>3 DEF LoopOK, Exists
<1> QED
  BY <1>6, <1>7, <1>8 DEF Core

\* So do the ends of the loops.
LEMMA LoopEndCore ==
  ASSUME Core, file_write \/ file_read
  PROVE  Core'
<1> DEFINE n == io.name
<1>1. /\ io # NoIO /\ UNCHANGED <<blocks, length>> /\ io' = NoIO /\ buffer' = <<>>
  BY DEF file_write, file_read, NoIO, Reading
<1>2. n \in Name /\ Exists(n) /\ io.done \in Nat
  BY <1>1, InLoop
<1>3. <<>> \in Seq(Byte)
  BY EmptySeq
<1>4. /\ pos' \in [Name -> Int \cup {Closed}]
      /\ \A m \in Name \ {n} : pos'[m] = pos[m]
      /\ out' \in Seq(Byte)
      /\ typed' \in [Name -> [from : Int, text : Seq(Byte), end : Int]]
  <2>1. io.op # "cat" => pos[n] \in Nat
    BY <1>1 DEF Core, LoopOK
  <2>2. CASE file_write
    <3>1. pos[n] + AdvanceBy(io.done) \in Int
      BY <1>2, <2>1, <2>2 DEF AdvanceBy, file_write
    <3> QED
      BY <2>2, <3>1 DEF file_write, Core, Types
  <2>3. CASE file_read /\ io.op = "cat"
    BY <2>3 DEF file_read, Core, Types
  <2>4. CASE file_read /\ io.op # "cat"
    <3>1. pos[n] + io.done \in Int
      BY <1>2, <2>1, <2>4
    <3>2. pos' = [pos EXCEPT ![n] = @ + io.done] /\ out' = buffer
      BY <2>4 DEF file_read
    <3>3. typed' = [typed EXCEPT ![n] = [from |-> pos[n] + io.done, text |-> <<>>,
                                         end |-> pos[n] + io.done]]
      BY <2>4 DEF file_read, StartsAt
    <3>4. typed' \in [Name -> [from : Int, text : Seq(Byte), end : Int]]
      BY <1>3, <3>1, <3>3 DEF Core, Types
    <3> QED
      BY <3>1, <3>2, <3>4 DEF Core, Types
  <2> QED
    BY <2>2, <2>3, <2>4
<1> HIDE DEF n
<1>5. Types'
  BY <1>1, <1>3, <1>4 DEF Core, Types
<1>6. FilesOK'
  <2> SUFFICES ASSUME NEW m \in Name
               PROVE  FileOK(m)'
    BY DEF FilesOK
  <2>1. FileOK(m) /\ (pos'[m] # Closed => pos[m] # Closed \/ Exists(m))
    BY <1>2, <1>4 DEF Core, FilesOK
  <2> QED
    BY <1>1, <2>1, FileFrame
<1>7. LoopOK'
  BY <1>1 DEF LoopOK
<1> QED
  BY <1>5, <1>6, <1>7 DEF Core

\* Every step keeps files, table and loop in order.
LEMMA StepCore == Core /\ [Next]_vars => Core'
<1> SUFFICES ASSUME Core, [Next]_vars
             PROVE  Core'
  OBVIOUS
<1>1. CASE Loop
  BY <1>1, WriteChunkCore, ReadChunkCore, LoopEndCore DEF Loop
<1>2. ASSUME NEW n \in Name, Command(n)
      PROVE  Core'
  <2>1. ASSUME NEW k \in Sizes, create(n, k) \/ seek(n, k) \/ read(n, k)
        PROVE  Core'
    BY <2>1, CreateCore, SeekSizeCore, ReadStartCore
  <2>2. ASSUME NEW text \in Text, write(n, text) \/ write_fails(n, text)
        PROVE  Core'
    BY <2>2, WriteCore, WriteFailsCore
  <2>3. CASE size(n) \/ cat(n) \/ copy_out(n) \/ rm(n)
    BY <2>3, SeekSizeCore, ReadStartCore, RmCore
  <2> QED
    BY <1>2, <2>1, <2>2, <2>3 DEF Command
<1>3. CASE UNCHANGED vars
  BY <1>3 DEF vars, Core, Types, FilesOK, FileOK, Exists, LoopOK
<1> QED
  BY <1>1, <1>2, <1>3 DEF Next

-----------------------------------------------------------------------------
(* The bytes of a file with what a write under way has still to write.      *)

\* A byte of the view, in a state and in the next one.
LEMMA ViewByte ==
  ASSUME NEW n, NEW i
  PROVE  /\ i \in 1 .. length[n] =>
              View(n)[i] = IF Writes(n) /\ i > io.offset /\ i <= io.offset + io.size
                           THEN buffer[i - io.offset] ELSE ByteAt(blocks[n], i)
         /\ i \in 1 .. length'[n] =>
              View(n)'[i] = IF Writes(n)' /\ i > io'.offset /\ i <= io'.offset + io'.size
                            THEN buffer'[i - io'.offset] ELSE ByteAt(blocks'[n], i)
  BY Zenon DEF View, Bytes, ByteAt, Writes

\* The view is a function on the numbers of the bytes.
LEMMA ViewDomain ==
  ASSUME NEW n
  PROVE  /\ View(n) = [i \in 1 .. length[n] |-> View(n)[i]]
         /\ View(n)' = [i \in 1 .. length'[n] |-> View(n)'[i]]
  BY Zenon DEF View

\* The view of a file is as long as the file.
LEMMA ViewSeq ==
  ASSUME Core, NEW n \in Name, Exists(n)
  PROVE  View(n) \in Seq(Byte) /\ Len(View(n)) = length[n]
<1>1. length[n] \in Nat /\ blocks[n] \in Seq(Block)
  BY LengthType DEF Core
<1>2. length[n] <= Capacity(blocks[n]) /\ Capacity(blocks[n]) \in Nat
  BY <1>1, LenProperties DEF Core, FilesOK, FileOK, Capacity
<1>3. ASSUME NEW i \in 1 .. length[n]
      PROVE  View(n)[i] \in Byte
  <2>1. ByteAt(blocks[n], i) \in Byte
    BY <1>1, <1>2, ByteAtBlock
  <2>2. ASSUME Writes(n), i > io.offset, i <= io.offset + io.size
        PROVE  buffer[i - io.offset] \in Byte
    <3>1. io # NoIO
      BY <2>2 DEF Writes, NoIO
    <3>2. /\ io.offset \in Nat /\ io.size \in Nat
          /\ buffer \in Seq(Byte) /\ Len(buffer) = io.size
      BY <2>2, <3>1, InLoop DEF Core, Types, LoopOK, Writes
    <3>3. i - io.offset \in 1 .. Len(buffer)
      BY <1>1, <2>2, <3>2
    <3> QED
      BY <3>2, <3>3, ElementOfSeq
  <2>3. View(n)[i] = IF Writes(n) /\ i > io.offset /\ i <= io.offset + io.size
                     THEN buffer[i - io.offset] ELSE ByteAt(blocks[n], i)
    BY ViewByte
  <2> QED
    BY <2>1, <2>2, <2>3
<1>4. View(n) \in [1 .. length[n] -> Byte]
  <2>1. View(n) = [i \in 1 .. length[n] |-> View(n)[i]]
    BY ViewDomain
  <2> QED
    BY <1>3, <2>1, Zenon
<1> QED
  BY <1>1, <1>4, FunctionIsSeq

\* A step that keeps the bytes of a file that is not being written.
LEMMA ViewFrame ==
  ASSUME NEW m, length'[m] = length[m], ~Writes(m), ~Writes(m)',
         \A i \in 1 .. length[m] : ByteAt(blocks'[m], i) = ByteAt(blocks[m], i)
  PROVE  View(m)' = View(m)
<1>1. \A i \in 1 .. length[m] : View(m)'[i] = View(m)[i]
  BY ViewByte
<1>2. [i \in 1 .. length[m] |-> View(m)'[i]] = [i \in 1 .. length[m] |-> View(m)[i]]
  BY <1>1, Zenon
<1> QED
  BY <1>2, ViewDomain, Zenon

\* A chunk of a write moves bytes from the buffer to the file: the view stays.
LEMMA WriteChunkView ==
  ASSUME Core, WriteChunk, NEW m \in Name, Exists(m)
  PROVE  View(m)' = View(m)
<1> DEFINE c == chunk_size
<1>1. io # NoIO /\ io.op = "write" /\ ~LoopOver /\ Advance /\ UNCHANGED length
  BY DEF WriteChunk, NoIO
<1>2. /\ io.name \in Name /\ io.offset \in Nat /\ io.size \in Nat
      /\ length[io.name] \in Nat /\ blocks[io.name] \in Seq(Block) /\ Exists(io.name)
  BY <1>1, InLoop
<1>3. /\ \A k \in Name \ {io.name} : blocks'[k] = blocks[k]
      /\ \A i \in 1 .. Capacity(blocks[io.name]) :
           ByteAt(blocks'[io.name], i) =
             IF i > io.offset /\ i <= io.offset + c THEN buffer[i - io.offset]
             ELSE ByteAt(blocks[io.name], i)
      /\ \A k \in 1 .. io.size - c : buffer'[k] = buffer[c + k]
  BY WriteChunkEffect
<1>4. c \in Nat \ {0} /\ c <= io.size
  BY <1>1, ChunkInside
<1>5. /\ io'.op = "write" /\ io'.name = io.name
      /\ io'.offset = io.offset + c /\ io'.size = io.size - c
  BY <1>1, AdvancedLoop
<1> HIDE DEF c
<1>6. CASE m # io.name
  BY <1>1, <1>3, <1>5, <1>6, ViewFrame DEF Writes
<1>7. CASE m = io.name
  <2>1. length[m] <= Capacity(blocks[m]) /\ Capacity(blocks[m]) \in Nat
    BY <1>2, <1>7, LenProperties DEF Core, FilesOK, FileOK, Capacity
  <2>2. ASSUME NEW i \in 1 .. length[m]
        PROVE  View(m)'[i] = View(m)[i]
    <3>1. View(m)[i] = IF i > io.offset /\ i <= io.offset + io.size
                       THEN buffer[i - io.offset] ELSE ByteAt(blocks[m], i)
      BY <1>1, <1>7, ViewByte DEF Writes
    <3>2. View(m)'[i] = IF i > io.offset + c /\ i <= io.offset + c + (io.size - c)
                        THEN buffer'[i - (io.offset + c)] ELSE ByteAt(blocks'[m], i)
      BY <1>1, <1>5, <1>7, ViewByte DEF Writes
    <3>3. ByteAt(blocks'[m], i) =
            IF i > io.offset /\ i <= io.offset + c THEN buffer[i - io.offset]
            ELSE ByteAt(blocks[m], i)
      BY <1>2, <1>3, <1>7, <2>1
    <3>4. CASE i > io.offset + c /\ i <= io.offset + io.size
      <4>1. /\ i - (io.offset + c) \in 1 .. io.size - c
            /\ c + (i - (io.offset + c)) = i - io.offset
            /\ i > io.offset /\ i <= io.offset + c + (io.size - c)
        BY <1>2, <1>4, <1>7, <3>4
      <4>2. buffer'[i - (io.offset + c)] = buffer[i - io.offset]
        BY <1>3, <4>1
      <4> QED
        BY <3>1, <3>2, <3>4, <4>1, <4>2
    <3>5. CASE ~(i > io.offset + c /\ i <= io.offset + io.size)
      <4>1. ~(i > io.offset + c /\ i <= io.offset + c + (io.size - c))
        BY <1>2, <1>4, <1>7, <3>5
      <4>2. (i > io.offset /\ i <= io.offset + io.size) <=> (i > io.offset /\ i <= io.offset + c)
        BY <1>2, <1>4, <1>7, <3>5
      <4> QED
        BY <3>1, <3>2, <3>3, <4>1, <4>2
    <3> QED
      BY <3>4, <3>5
  <2>3. [i \in 1 .. length[m] |-> View(m)'[i]] = [i \in 1 .. length[m] |-> View(m)[i]]
    BY <2>2, Zenon
  <2> QED
    BY <1>1, <2>3, ViewDomain, Zenon
<1> QED
  BY <1>6, <1>7

\* When the loop of a write ends, everything was written.
LEMMA AllWritten ==
  ASSUME Core, file_write
  PROVE  io.size = 0 /\ io # NoIO /\ io.op = "write"
<1>1. io # NoIO /\ io.op = "write" /\ LoopOver
  BY DEF file_write, NoIO
<1>2. /\ io.offset \in Nat /\ io.size \in Nat /\ length[io.name] \in Nat
      /\ io.offset + io.size <= length[io.name]
  BY <1>1, InLoop DEF Core, LoopOK
<1>3. sector_left \in Nat \ {0}
  BY <1>2, OffsetInSector
<1>4. io.size = 0
  BY <1>1, <1>2, <1>3 DEF LoopOver, chunk_size, MinOf, inode_left
<1> QED
  BY <1>1, <1>4

\* The ends of the loops and the chunks of a read change no view.
LEMMA LoopView ==
  ASSUME Core, Loop, NEW m \in Name, Exists(m)
  PROVE  View(m)' = View(m) /\ length'[m] = length[m]
<1>1. length'[m] = length[m]
  BY DEF Loop, WriteChunk, ReadChunk, file_write, file_read
<1>2. CASE WriteChunk
  BY <1>1, <1>2, WriteChunkView
<1>3. CASE ReadChunk
  <2>1. io.op # "write" /\ io'.op # "write" /\ blocks' = blocks
    <3>1. io # NoIO /\ io.op \in Reading /\ ~LoopOver /\ Advance
      BY <1>3 DEF ReadChunk, NoIO, Reading
    <3> QED
      BY <1>3, <3>1, AdvancedLoop DEF ReadChunk, Reading
  <2> QED
    BY <1>1, <2>1, ViewFrame DEF Writes
<1>4. CASE file_read
  <2>1. io.op # "write" /\ io'.op # "write" /\ blocks' = blocks
    BY <1>4 DEF file_read, Reading, NoIO
  <2> QED
    BY <1>1, <2>1, ViewFrame DEF Writes
<1>5. CASE file_write
  <2>1. io.size = 0 /\ io # NoIO
    BY <1>5, AllWritten
  <2>2. io.offset \in Nat /\ io'.op # "write" /\ blocks' = blocks
    BY <1>5, <2>1, InLoop DEF file_write, NoIO
  <2>3. length[m] \in Nat
    BY LengthType DEF Core
  <2>4. ASSUME NEW i \in 1 .. length[m]
        PROVE  View(m)'[i] = View(m)[i]
    <3>1. ~(i > io.offset /\ i <= io.offset + io.size)
      BY <2>1, <2>2, <2>3
    <3> QED
      BY <1>1, <2>2, <3>1, ViewByte DEF Writes
  <2>5. [i \in 1 .. length[m] |-> View(m)'[i]] = [i \in 1 .. length[m] |-> View(m)[i]]
    BY <2>4, Zenon
  <2> QED
    BY <1>1, <2>5, ViewDomain, Zenon
<1> QED
  BY <1>1, <1>2, <1>3, <1>4, <1>5 DEF Loop

\* The start of a write lays the text over the bytes of the file, which a gap of
\* zeros precedes if the write begins after the end.
LEMMA WriteView ==
  ASSUME Core, NEW n \in Name, NEW text \in Text, write(n, text)
  PROVE  LET p == get_file(n) IN
         /\ length'[n] = IF p + (Len(text) + 2) > length[n] THEN p + (Len(text) + 2)
                         ELSE length[n]
         /\ \A i \in 1 .. length'[n] :
              View(n)'[i] = IF i > p /\ i <= p + (Len(text) + 2) THEN write_buffer(text)[i - p]
                            ELSE IF i <= length[n] THEN View(n)[i] ELSE NUL
<1> DEFINE p == get_file(n)
           end == p + Len(text) + 2
<1>1. /\ Ready /\ Exists(n) /\ Len(text) \in Nat /\ p \in Nat
      /\ blocks' \in [Name -> Seq(Block)]
      /\ length'[n] = (IF end <= length[n] THEN length[n] ELSE end)
      /\ length'[n] <= Capacity(blocks'[n])
      /\ \A i \in 1 .. length[n] : ByteAt(blocks'[n], i) = ByteAt(blocks[n], i)
      /\ \A i \in 1 .. Capacity(blocks'[n]) : i > length[n] => ByteAt(blocks'[n], i) = NUL
      /\ io'.op = "write" /\ io'.name = n /\ io'.offset = p /\ io'.size = Len(text) + 2
      /\ buffer' = write_buffer(text)
  BY WriteEffect
<1>2. length[n] \in Nat /\ Len(blocks'[n]) \in Nat
  BY <1>1, LengthType, LenProperties DEF Core
<1> HIDE DEF p
<1>3. /\ end = p + (Len(text) + 2) /\ end \in Nat
      /\ Capacity(blocks'[n]) \in Nat /\ length'[n] \in Nat
  <2>1. end = p + (Len(text) + 2) /\ end \in Nat
    <3>1. p \in Nat /\ Len(text) \in Nat
      BY <1>1
    <3> QED
      BY <3>1
  <2>2. Capacity(blocks'[n]) \in Nat
    BY <1>2 DEF Capacity
  <2> HIDE DEF end
  <2>3. length'[n] \in Nat
    BY <1>1, <1>2, <2>1
  <2> QED
    BY <2>1, <2>2, <2>3
<1>4. ASSUME NEW i \in 1 .. length'[n]
      PROVE  View(n)'[i] = IF i > p /\ i <= p + (Len(text) + 2) THEN write_buffer(text)[i - p]
                           ELSE IF i <= length[n] THEN View(n)[i] ELSE NUL
  <2>1. View(n)'[i] = IF i > p /\ i <= p + (Len(text) + 2)
                      THEN write_buffer(text)[i - p] ELSE ByteAt(blocks'[n], i)
    BY <1>1, ViewByte DEF Writes
  <2>2. i <= length[n] => View(n)[i] = ByteAt(blocks[n], i)
    <3>1. io.op # "write"
      BY <1>1 DEF Ready, NoIO
    <3>2. i <= length[n] => i \in 1 .. length[n]
      BY <1>2, <1>3
    <3> QED
      BY <3>1, <3>2, ViewByte DEF Writes
  <2>3. ByteAt(blocks'[n], i) = IF i <= length[n] THEN View(n)[i] ELSE NUL
    <3>1. i \in 1 .. Capacity(blocks'[n])
      <4>1. length'[n] <= Capacity(blocks'[n])
        BY <1>1
      <4> QED
        BY <1>3, <4>1
    <3>2. i > length[n] => ByteAt(blocks'[n], i) = NUL
      BY <1>1, <3>1
    <3>3. i <= length[n] => ByteAt(blocks'[n], i) = ByteAt(blocks[n], i)
      <4>1. i <= length[n] => i \in 1 .. length[n]
        BY <1>2, <1>3
      <4> QED
        BY <1>1, <4>1
    <3>4. i \in Nat
      BY <1>3
    <3> QED
      BY <1>2, <2>2, <3>2, <3>3, <3>4
  <2> QED
    BY <2>1, <2>3
<1>5. length'[n] = IF p + (Len(text) + 2) > length[n] THEN p + (Len(text) + 2)
                   ELSE length[n]
  BY <1>1, <1>2, <1>3
<1> QED
  BY <1>4, <1>5 DEF p

\* No command changes the view of another file, and read, cat, copy_out, seek,
\* size and a failed write change no view.
LEMMA CommandView ==
  ASSUME Core, NEW n \in Name, Command(n), NEW m \in Name, Exists(m),
         m # n \/ ~((\E text \in Text : write(n, text)) \/ rm(n))
  PROVE  View(m)' = View(m) /\ length'[m] = length[m]
<1>1. Ready
  BY DEF Command, create, seek, size, rm, read, cat, copy_out, write, write_fails
<1>2. length[m] \in Nat /\ length[m] <= Capacity(blocks[m]) /\ Capacity(blocks[m]) \in Nat
  BY LengthType, LenProperties DEF Core, FilesOK, FileOK, Capacity
<1>3. ASSUME NEW k \in Sizes, create(n, k) \/ seek(n, k)
      PROVE  /\ length'[m] = length[m] /\ io' = io
             /\ \A i \in 1 .. length[m] : ByteAt(blocks'[m], i) = ByteAt(blocks[m], i)
  BY <1>3 DEF create, seek, Core, Types, Exists
<1>4. ASSUME NEW text \in Text, write(n, text)
      PROVE  /\ length'[m] = length[m] /\ (m # n => ~Writes(m)')
             /\ \A i \in 1 .. length[m] : ByteAt(blocks'[m], i) = ByteAt(blocks[m], i)
  BY <1>4, WriteEffect DEF Writes
<1>5. ASSUME NEW text \in Text, write_fails(n, text)
      PROVE  /\ length'[m] = length[m] /\ io' = io
             /\ \A i \in 1 .. length[m] : ByteAt(blocks'[m], i) = ByteAt(blocks[m], i)
  <2>1. length' = length /\ io' = io
    BY <1>5 DEF write_fails
  <2>2. /\ \A k \in Name \ {n} : blocks'[k] = blocks[k]
        /\ \A i \in 1 .. Capacity(blocks[n]) : ByteAt(blocks'[n], i) = ByteAt(blocks[n], i)
    BY <1>5, WriteFailsEffect
  <2>3. \A i \in 1 .. length[m] : i \in 1 .. Capacity(blocks[m])
    BY <1>2
  <2>4. CASE m = n
    BY <2>1, <2>2, <2>3, <2>4
  <2>5. CASE m # n
    BY <2>1, <2>2, <2>5
  <2> QED
    BY <2>4, <2>5
<1>6. ASSUME size(n) \/ rm(n)
      PROVE  /\ io' = io
             /\ size(n) \/ m # n => length'[m] = length[m] /\ blocks'[m] = blocks[m]
  BY <1>6 DEF size, rm, Core, Types
<1>7. ASSUME (\E k \in Sizes : read(n, k)) \/ cat(n) \/ copy_out(n)
      PROVE  /\ length'[m] = length[m] /\ io'.op # "write" /\ blocks' = blocks
  BY <1>7, ReadStart DEF Reading
<1>8. ~Writes(m) /\ ~Writes(m)'
  <2>1. ~Writes(m)
    BY <1>1 DEF Ready, NoIO, Writes
  <2>2. io' = io => ~Writes(m)'
    BY <2>1 DEF Writes
  <2>3. io'.op # "write" => ~Writes(m)'
    BY DEF Writes
  <2> QED
    BY <1>3, <1>4, <1>5, <1>6, <1>7, <2>1, <2>2, <2>3 DEF Command
<1>9. /\ length'[m] = length[m]
      /\ \A i \in 1 .. length[m] : ByteAt(blocks'[m], i) = ByteAt(blocks[m], i)
  BY <1>3, <1>4, <1>5, <1>6, <1>7 DEF Command
<1> QED
  BY <1>8, <1>9, ViewFrame

-----------------------------------------------------------------------------
(* The invariant is inductive: the texts.                                   *)

\* A file that a step leaves alone, or only moves on with.
LEMMA TextFrame ==
  ASSUME NEW m \in Name, TextOK(m), typed'[m] = typed[m],
         pos'[m] = Closed <=> pos[m] = Closed,
         pos[m] # Closed /\ ~Reads(m)' =>
           /\ ~Reads(m) /\ FinalPos(m)' = FinalPos(m)
           /\ length'[m] = length[m] /\ View(m)' = View(m)
  PROVE  TextOK(m)'
<1>1. pos'[m] = Closed => typed'[m] = Untyped
  BY DEF TextOK
<1>2. ASSUME pos'[m] # Closed, ~Reads(m)'
      PROVE  /\ FinalPos(m)' = typed'[m].from + Len(typed'[m].text)
             /\ FinalPos(m)' <= typed'[m].end
             /\ typed'[m].text # <<>> =>
                  /\ typed'[m].from >= 0 /\ FinalPos(m)' + 2 <= length'[m]
                  /\ \A i \in 1 .. Len(typed'[m].text) :
                       View(m)'[typed'[m].from + i] = typed'[m].text[i]
                  /\ FinalPos(m)' = typed'[m].end =>
                       \A i \in 1 .. 2 : View(m)'[FinalPos(m)' + i] = NUL
  BY <1>2 DEF TextOK
<1> QED
  BY <1>1, <1>2, Zenon DEF TextOK, Untyped

\* A file whose position was set anew: nothing was typed since.
LEMMA TextStart ==
  ASSUME NEW m \in Name, NEW p \in Int, pos'[m] = p, io' = NoIO,
         typed'[m] = [from |-> p, text |-> <<>>, end |-> p]
  PROVE  TextOK(m)'
<1>1. p # Closed /\ typed'[m].from = p /\ typed'[m].end = p /\ typed'[m].text = <<>> /\ Len(<<>>) = 0
  BY EmptySeq
<1>2. FinalPos(m)' = p
  BY DEF FinalPos, Writes, NoIO
<1> QED
  BY <1>1, <1>2 DEF TextOK

\* The text of a write follows the text before it.
LEMMA WriteText ==
  ASSUME IInv, NEW n \in Name, NEW text \in Text, write(n, text)
  PROVE  TextOK(n)'
<1> DEFINE p == get_file(n)
           f == typed[n].from
           old == typed[n].text
           new == old \o text
           z == <<NUL, NUL>>
<1>1. Core /\ TextOK(n)
  BY DEF IInv, TextsOK
<1>2. /\ Ready /\ Exists(n) /\ text \in Seq(Byte) /\ Len(text) \in Nat /\ p \in Nat
      /\ io'.op = "write" /\ io'.name = n /\ io'.size = Len(text) + 2 /\ io'.done = 0
  BY <1>1, WriteEffect
<1>3. typed[n] \in [from : Int, text : Seq(Byte), end : Int] /\ pos[n] \in Int \cup {Closed}
  BY <1>1 DEF Core, Types
<1>4. f \in Int /\ old \in Seq(Byte) /\ Len(old) \in Nat
  BY <1>3, LenProperties
<1>5. typed'[n].from = f /\ typed'[n].text = new /\ typed'[n].end = p + Len(text) /\ pos'[n] = p
  BY <1>1, <1>3 DEF write, Core, Types
<1>6. /\ new \in Seq(Byte) /\ Len(new) = Len(old) + Len(text)
      /\ \A i \in 1 .. Len(old) + Len(text) :
           new[i] = IF i <= Len(old) THEN old[i] ELSE text[i - Len(old)]
  BY <1>2, <1>4, ConcatProperties
<1>7. ~Writes(n) /\ ~Reads(n)
  BY <1>2 DEF Ready, NoIO, Writes, Reads
<1>8. p = f + Len(old)
  <2>1. CASE pos[n] = Closed
    BY <1>1, <2>1, EmptySeq DEF TextOK, Untyped, get_file
  <2>2. CASE pos[n] # Closed
    BY <1>1, <1>7, <2>2 DEF TextOK, FinalPos, get_file
  <2> QED
    BY <2>1, <2>2
<1>9. ASSUME old # <<>>
      PROVE  /\ f >= 0 /\ p + 2 <= length[n]
             /\ \A i \in 1 .. Len(old) : View(n)[f + i] = old[i]
  <2>1. pos[n] # Closed
    BY <1>1, <1>9 DEF TextOK, Untyped
  <2> QED
    BY <1>1, <1>7, <1>9, <2>1 DEF TextOK, FinalPos, get_file
<1>10. Len(old) = 0 \/ old # <<>>
  BY EmptySeq
<1>11. length[n] \in Nat
  BY <1>1, <1>2, LengthType DEF Core
<1>12. /\ length'[n] = IF p + (Len(text) + 2) > length[n] THEN p + (Len(text) + 2)
                       ELSE length[n]
       /\ \A i \in 1 .. length'[n] :
            View(n)'[i] = IF i > p /\ i <= p + (Len(text) + 2) THEN write_buffer(text)[i - p]
                          ELSE IF i <= length[n] THEN View(n)[i] ELSE NUL
  BY <1>1, WriteView
<1> HIDE DEF p, f, old, new
<1>13. FinalPos(n)' = p + Len(text)
  BY <1>2, <1>5 DEF FinalPos, Writes
<1>14. FinalPos(n)' = f + Len(new) /\ p + (Len(text) + 2) <= length'[n] /\ length'[n] \in Nat
  <2>1. length'[n] = IF p + (Len(text) + 2) > length[n] THEN p + (Len(text) + 2) ELSE length[n]
    BY <1>12
  <2>2. p + (Len(text) + 2) <= length'[n] /\ length'[n] \in Nat
    BY <1>2, <1>4, <1>8, <1>11, <2>1
  <2>3. FinalPos(n)' = f + Len(new)
    BY <1>2, <1>4, <1>6, <1>8, <1>13
  <2> QED
    BY <2>2, <2>3
<1>18. f >= 0
  BY <1>2, <1>4, <1>8, <1>9, <1>10
<1>15. ASSUME NEW i \in 1 .. Len(new) + 2
       PROVE  View(n)'[f + i] = (new \o z)[i]
  <2>1. f + i \in 1 .. length'[n] /\ f + i <= p + (Len(text) + 2)
    <3>1. Len(new) = Len(old) + Len(text) /\ i \in Nat \ {0} /\ i <= Len(old) + Len(text) + 2
      BY <1>2, <1>4, <1>6, <1>15
    <3>2. f \in Int /\ Len(old) \in Nat /\ Len(text) \in Nat /\ p \in Nat /\ length'[n] \in Nat
      BY <1>2, <1>4, <1>14
    <3>3. f + i <= p + (Len(text) + 2)
      BY <1>8, <3>1, <3>2
    <3> QED
      BY <1>14, <1>15, <1>18, <3>1, <3>2, <3>3
  <2>2. /\ \A k \in 1 .. Len(new) : write_buffer(new)[k] = new[k]
        /\ \A k \in Len(new) + 1 .. Len(new) + 2 : write_buffer(new)[k] = NUL
        /\ \A k \in 1 .. Len(text) : write_buffer(text)[k] = text[k]
        /\ \A k \in Len(text) + 1 .. Len(text) + 2 : write_buffer(text)[k] = NUL
    BY <1>2, <1>6, WriteBuffer
  <2>3. CASE i <= Len(old)
    <3>1. old # <<>> /\ i \in 1 .. Len(old) /\ i \in 1 .. Len(new) /\ ~(f + i > p)
      BY <1>2, <1>4, <1>6, <1>8, <2>3, EmptySeq
    <3>2. f + i <= length[n]
      BY <1>2, <1>4, <1>8, <1>9, <1>11, <1>15, <1>18, <2>3, <3>1
    <3>3. View(n)'[f + i] = View(n)[f + i]
      BY <1>12, <2>1, <3>1, <3>2
    <3>4. View(n)[f + i] = old[i] /\ new[i] = old[i]
      BY <1>2, <1>4, <1>6, <1>9, <1>15, <3>1
    <3>5. (new \o z)[i] = new[i]
      BY <2>2, <3>1 DEF write_buffer, z
    <3> QED
      BY <3>3, <3>4, <3>5
  <2>4. CASE i > Len(old)
    <3>1. f + i > p /\ (f + i) - p = i - Len(old) /\ i - Len(old) \in 1 .. Len(text) + 2
      BY <1>2, <1>4, <1>6, <1>8, <2>4
    <3>2. View(n)'[f + i] = write_buffer(text)[i - Len(old)]
      <4> DEFINE x == f + i
      <4>1. /\ x \in 1 .. length'[n] /\ x > p /\ x <= p + (Len(text) + 2)
            /\ x - p = i - Len(old)
        BY <2>1, <3>1
      <4> HIDE DEF x
      <4>2. View(n)'[x] = IF x > p /\ x <= p + (Len(text) + 2) THEN write_buffer(text)[x - p]
                          ELSE IF x <= length[n] THEN View(n)[x] ELSE NUL
        BY <1>12, <4>1, Zenon
      <4>3. View(n)'[x] = write_buffer(text)[i - Len(old)]
        BY <4>1, <4>2
      <4> QED
        BY <4>3 DEF x
    <3>3. CASE i <= Len(new)
      <4>1. i \in 1 .. Len(new) /\ i - Len(old) \in 1 .. Len(text)
        BY <1>2, <1>4, <1>6, <2>4, <3>3
      <4>2. write_buffer(new)[i] = text[i - Len(old)]
        BY <1>2, <1>4, <1>6, <2>2, <2>4, <4>1
      <4> QED
        BY <2>2, <3>2, <4>1, <4>2 DEF write_buffer, z
    <3>4. CASE i > Len(new)
      <4>1. i \in Len(new) + 1 .. Len(new) + 2 /\ i - Len(old) \in Len(text) + 1 .. Len(text) + 2
        BY <1>2, <1>4, <1>6, <2>4, <3>4
      <4> QED
        BY <2>2, <3>2, <4>1 DEF write_buffer, z
    <3> QED
      BY <1>2, <1>4, <1>6, <3>3, <3>4
  <2> QED
    BY <1>4, <2>3, <2>4
<1>16. FinalPos(n)' + 2 <= length'[n]
  BY <1>2, <1>11, <1>13, <1>14
<1>17. pos'[n] # Closed
  BY <1>2, <1>5
<1>19. \A i \in 1 .. Len(new) : View(n)'[f + i] = new[i]
  <2> SUFFICES ASSUME NEW i \in 1 .. Len(new)
               PROVE  View(n)'[f + i] = new[i]
    OBVIOUS
  <2>1. i \in 1 .. Len(new) + 2 /\ (new \o z)[i] = new[i]
    BY <1>2, <1>4, <1>6, WriteBuffer DEF write_buffer, z
  <2> QED
    BY <1>15, <2>1
<1>20. \A i \in 1 .. 2 : View(n)'[FinalPos(n)' + i] = NUL
  <2> SUFFICES ASSUME NEW i \in 1 .. 2
               PROVE  View(n)'[FinalPos(n)' + i] = NUL
    OBVIOUS
  <2> DEFINE k == Len(new) + i
  <2>1. k \in 1 .. Len(new) + 2 /\ k \in Len(new) + 1 .. Len(new) + 2
    BY <1>2, <1>4, <1>6
  <2>2. f + k = FinalPos(n)' + i
    BY <1>2, <1>4, <1>6, <1>14
  <2> HIDE DEF k
  <2>3. (new \o z)[k] = NUL
    BY <1>6, <2>1, WriteBuffer DEF write_buffer, z
  <2>4. View(n)'[f + k] = (new \o z)[k]
    BY <1>15, <2>1
  <2> QED
    BY <2>2, <2>3, <2>4
<1>21. FinalPos(n)' <= typed'[n].end
  BY <1>2, <1>5, <1>13
<1> QED
  BY <1>5, <1>14, <1>16, <1>17, <1>18, <1>19, <1>20, <1>21 DEF TextOK

\* A write that fails takes the last two bytes of the text back.
LEMMA FailedText ==
  ASSUME IInv, NEW n \in Name, NEW text \in Text, write_fails(n, text)
  PROVE  TextOK(n)'
<1> DEFINE p == get_file(n)
           f == typed[n].from
           old == typed[n].text
           new == typed'[n].text
<1>1. Core /\ TextOK(n) /\ Types
  BY DEF IInv, TextsOK, Core
<1>2. /\ Ready /\ Exists(n) /\ p \in Nat /\ io' = io /\ pos'[n] = p - 2
  BY <1>1, WriteFailsEffect DEF write_fails, Types
<1>3. /\ typed'[n].from = MinOf(f, p - 2) /\ typed'[n].end = typed[n].end
      /\ Len(new) = (IF Len(old) >= 2 THEN Len(old) - 2 ELSE 0)
      /\ \A i \in 1 .. Len(new) : new[i] = old[i]
      /\ f \in Int /\ typed[n].end \in Int /\ Len(old) \in Nat /\ new \in Seq(Byte)
  BY <1>1, <1>2, TakenBack
<1>4. ~Writes(n) /\ ~Reads(n) /\ ~Writes(n)'
  BY <1>2 DEF Ready, NoIO, Writes, Reads
<1>5. p = f + Len(old) /\ p <= typed[n].end
  <2>1. CASE pos[n] = Closed
    BY <1>1, <2>1, EmptySeq DEF TextOK, Untyped, get_file
  <2>2. CASE pos[n] # Closed
    BY <1>1, <1>4, <2>2 DEF TextOK, FinalPos, get_file
  <2> QED
    BY <2>1, <2>2
<1>6. View(n)' = View(n) /\ length'[n] = length[n] /\ length[n] \in Nat
  <2>1. Command(n)
    BY DEF Command
  <2>2. io'.op # "write"
    BY <1>2 DEF Ready, NoIO
  <2>3. length' = length
    BY DEF write_fails
  <2>4. ~rm(n)
    BY <1>1, <1>2, <2>3 DEF rm, Exists, Types
  <2>5. ASSUME NEW u \in Text, write(n, u)
        PROVE  FALSE
    BY <2>2, <2>5 DEF write, Begin
  <2>6. ~((\E u \in Text : write(n, u)) \/ rm(n))
    BY <2>4, <2>5
  <2> QED
    BY <1>1, <1>2, <2>1, <2>6, CommandView, LengthType
<1>7. FinalPos(n)' = p - 2
  BY <1>2, <1>4 DEF FinalPos
<1> HIDE DEF p, f, old, new
<1>8. FinalPos(n)' = typed'[n].from + Len(new) /\ ~(FinalPos(n)' >= typed'[n].end)
  <2>1. p \in Nat /\ f \in Int /\ Len(old) \in Nat /\ typed[n].end \in Int
    BY <1>2, <1>3
  <2>2. CASE Len(old) >= 2
    BY <1>3, <1>5, <1>7, <2>1, <2>2 DEF MinOf
  <2>3. CASE ~(Len(old) >= 2)
    BY <1>3, <1>5, <1>7, <2>1, <2>3 DEF MinOf
  <2> QED
    BY <2>2, <2>3
<1>9. ASSUME new # <<>>
      PROVE  /\ typed'[n].from >= 0 /\ FinalPos(n)' + 2 <= length'[n]
             /\ \A i \in 1 .. Len(new) : View(n)'[typed'[n].from + i] = new[i]
  <2>1. Len(new) \in Nat /\ Len(new) # 0
    BY <1>3, <1>9, EmptySeq, LenProperties
  <2>2. Len(old) >= 2 /\ Len(new) = Len(old) - 2 /\ old # <<>>
    BY <1>3, <2>1, EmptySeq
  <2>3. typed'[n].from = f
    BY <1>2, <1>3, <1>5, <2>2 DEF MinOf
  <2>4. /\ pos[n] # Closed
        /\ f >= 0 /\ FinalPos(n) + 2 <= length[n] /\ FinalPos(n) = p
        /\ \A i \in 1 .. Len(old) : View(n)[f + i] = old[i]
    BY <1>1, <1>4, <2>2 DEF TextOK, Untyped, FinalPos, get_file, p, f, old
  <2>5. \A i \in 1 .. Len(new) : i \in 1 .. Len(old)
    BY <1>3, <2>2
  <2>6. \A i \in 1 .. Len(new) : View(n)'[typed'[n].from + i] = new[i]
    BY <1>3, <1>6, <2>3, <2>4, <2>5
  <2> QED
    BY <1>2, <1>6, <1>7, <2>3, <2>4, <2>6
<1>10. pos'[n] # Closed
  BY <1>2
<1>11. FinalPos(n)' <= typed'[n].end /\ FinalPos(n)' # typed'[n].end
  BY <1>2, <1>3, <1>7, <1>8
<1> QED
  BY <1>8, <1>9, <1>10, <1>11 DEF TextOK, new

\* A file that the command of another file leaves alone.
LEMMA OtherText ==
  ASSUME IInv, NEW n \in Name, Command(n), NEW m \in Name, m # n
  PROVE  TextOK(m)'
<1>1. Core /\ TextOK(m)
  BY DEF IInv, TextsOK
<1>2. Ready
  BY DEF Command, create, seek, size, rm, read, cat, copy_out, write, write_fails
<1>3. typed'[m] = typed[m] /\ pos'[m] = pos[m]
  BY <1>1 DEF Command, create, seek, size, rm, read, cat, copy_out, write, write_fails,
              StartsAt, MinOf, Core, Types
<1>4. pos[m] # Closed => Exists(m)
  BY <1>1 DEF Core, FilesOK, FileOK
<1>5. pos[m] # Closed => View(m)' = View(m) /\ length'[m] = length[m]
  BY <1>1, <1>4, CommandView
<1>6. ~Reads(m) /\ ~Writes(m)
  BY <1>2 DEF Reads, Writes, Ready, NoIO
<1>7. ~Writes(m)'
  <2>1. \A op, offset, count, data : Begin(op, n, offset, count, data) => io'.name = n
    BY DEF Begin
  <2>2. io' = io \/ io'.name = n
    BY <2>1 DEF Command, create, seek, size, rm, read, cat, copy_out, write, write_fails
  <2> QED
    BY <1>6, <2>2 DEF Writes
<1>8. FinalPos(m)' = FinalPos(m)
  BY <1>3, <1>6, <1>7 DEF FinalPos
<1> QED
  BY <1>1, <1>3, <1>5, <1>6, <1>8, TextFrame

\* The text of the file that a command is about.
LEMMA CommandText ==
  ASSUME IInv, NEW n \in Name, Command(n)
  PROVE  TextOK(n)'
<1>1. Core /\ TextOK(n)
  BY DEF IInv, TextsOK
<1>2. Ready
  BY DEF Command, create, seek, size, rm, read, cat, copy_out, write, write_fails
<1>3. /\ typed \in [Name -> [from : Int, text : Seq(Byte), end : Int]]
      /\ pos \in [Name -> Int \cup {Closed}]
  BY <1>1 DEF Core, Types
<1>4. ~Reads(n) /\ ~Writes(n)
  BY <1>2 DEF Reads, Writes, Ready, NoIO
<1>5. ASSUME NEW k \in Sizes, create(n, k)
      PROVE  TextOK(n)'
  <2>1. pos[n] = Closed /\ pos' = pos /\ typed' = typed
    BY <1>1, <1>5 DEF create, Core, FilesOK, FileOK
  <2> QED
    BY <1>1, <2>1, TextFrame
<1>6. ASSUME NEW k \in Sizes, seek(n, k)
      PROVE  TextOK(n)'
  BY <1>2, <1>3, <1>6, TextStart DEF seek, StartsAt, Ready
<1>7. ASSUME size(n)
      PROVE  TextOK(n)'
  <2>1. io' = NoIO /\ typed' = typed /\ pos'[n] = get_file(n)
    BY <1>2, <1>3, <1>7 DEF size, Ready
  <2>2. CASE pos[n] = Closed
    BY <1>1, <2>1, <2>2, TextStart DEF TextOK, Untyped, get_file
  <2>3. CASE pos[n] # Closed
    <3>1. pos'[n] = pos[n] /\ Exists(n)
      BY <1>1, <2>1, <2>3 DEF get_file, Core, FilesOK, FileOK
    <3>2. ~((\E text \in Text : write(n, text)) \/ rm(n))
      <4>1. ~rm(n)
        BY <1>3, <2>3, <3>1 DEF rm
      <4>2. ASSUME NEW text \in Text, write(n, text)
            PROVE  FALSE
        <5>1. io'.op = "write"
          BY <4>2 DEF write, Begin
        <5> QED
          BY <2>1, <5>1 DEF NoIO
      <4> QED
        BY <4>1, <4>2
    <3>3. View(n)' = View(n) /\ length'[n] = length[n]
      BY <1>1, <3>1, <3>2, CommandView
    <3>4. FinalPos(n)' = FinalPos(n)
      BY <1>4, <2>1, <3>1 DEF FinalPos, Writes, NoIO
    <3> QED
      BY <1>1, <1>4, <2>1, <3>1, <3>3, <3>4, TextFrame
  <2> QED
    BY <2>2, <2>3
<1>8. ASSUME rm(n)
      PROVE  TextOK(n)'
  BY <1>3, <1>8 DEF rm, TextOK, Untyped
<1>9. ASSUME NEW text \in Text, write(n, text)
      PROVE  TextOK(n)'
  BY <1>9, WriteText
<1>10. ASSUME NEW text \in Text, write_fails(n, text)
       PROVE  TextOK(n)'
  BY <1>10, FailedText
<1>11. ASSUME (\E k \in Sizes : read(n, k)) \/ copy_out(n)
       PROVE  TextOK(n)'
  <2>1. io'.op \in {"read", "copy_out"} /\ io'.name = n
    BY <1>11 DEF read, copy_out, Begin
  <2>2. Reads(n)'
    BY <2>1 DEF Reads
  <2>3. pos'[n] # Closed
    <3>1. CASE copy_out(n)
      BY <1>3, <3>1 DEF copy_out
    <3>2. CASE \E k \in Sizes : read(n, k)
      BY <1>1, <1>3, <3>2, GetFile DEF read
    <3> QED
      BY <1>11, <3>1, <3>2
  <2> QED
    BY <2>2, <2>3 DEF TextOK
<1>12. ASSUME cat(n)
       PROVE  TextOK(n)'
  <2>1. io'.op = "cat" /\ pos' = pos /\ typed' = typed /\ Exists(n)
    BY <1>12 DEF cat, Begin
  <2>2. /\ length'[n] = length[n]
        /\ \A i \in 1 .. length[n] : ByteAt(blocks'[n], i) = ByteAt(blocks[n], i)
        /\ ~Writes(n)'
    BY <1>12, <2>1 DEF cat, Writes
  <2>3. View(n)' = View(n)
    BY <1>4, <2>2, ViewFrame
  <2>4. FinalPos(n)' = FinalPos(n)
    BY <1>4, <2>1, <2>2 DEF FinalPos
  <2> QED
    BY <1>1, <1>4, <2>1, <2>2, <2>3, <2>4, TextFrame
<1> QED
  BY <1>5, <1>6, <1>7, <1>8, <1>9, <1>10, <1>11, <1>12 DEF Command

\* The loops move the position where the texts end.
LEMMA LoopText ==
  ASSUME IInv, Loop, NEW m \in Name
  PROVE  TextOK(m)'
<1>1. Core /\ TextOK(m)
  BY DEF IInv, TextsOK
<1>2. pos[m] # Closed => View(m)' = View(m) /\ length'[m] = length[m]
  BY <1>1, LoopView DEF Core, FilesOK, FileOK
<1>3. pos \in [Name -> Int \cup {Closed}] /\ typed \in [Name -> [from : Int, text : Seq(Byte), end : Int]]
  BY <1>1 DEF Core, Types
<1>4. io # NoIO
  BY DEF Loop, WriteChunk, ReadChunk, file_write, file_read, NoIO, Reading
<1>5. /\ io.name \in Name /\ io.size \in Nat /\ io.done \in Nat /\ io.op \in {"write"} \cup Reading
      /\ io.op # "cat" => pos[io.name] \in Nat
  BY <1>1, <1>4, InLoop DEF Core, LoopOK
<1>6. CASE WriteChunk \/ ReadChunk
  <2>1. ~LoopOver /\ Advance /\ pos' = pos /\ typed' = typed
    BY <1>6 DEF WriteChunk, ReadChunk
  <2>2. chunk_size \in Nat
    BY <1>1, <1>4, <2>1, ChunkInside
  <2>3. /\ io'.op = io.op /\ io'.name = io.name
        /\ io'.size = io.size - chunk_size /\ io'.done = io.done + chunk_size
    BY <1>1, <1>4, <2>1, AdvancedLoop
  <2>4. FinalPos(m)' = FinalPos(m)
    <3>1. CASE Writes(m)
      <4>1. pos[m] \in Nat /\ pos[m] + (io.done + chunk_size) + (io.size - chunk_size) - 2
                              = pos[m] + io.done + io.size - 2
        BY <1>5, <2>2, <3>1 DEF Writes
      <4> QED
        BY <2>1, <2>3, <3>1, <4>1 DEF FinalPos, Writes
    <3>2. CASE ~Writes(m)
      BY <2>1, <2>3, <3>2 DEF FinalPos, Writes
    <3> QED
      BY <3>1, <3>2
  <2>5. Reads(m)' <=> Reads(m)
    BY <2>3 DEF Reads
  <2> QED
    BY <1>1, <1>2, <2>1, <2>4, <2>5, TextFrame
<1>7. CASE file_write
  <2>1. io.size = 0 /\ io.op = "write" /\ io' = NoIO /\ typed' = typed
    BY <1>1, <1>7, AllWritten DEF file_write
  <2>2. ~Reads(m) /\ ~Writes(m)'
    BY <2>1 DEF Reads, Writes, NoIO
  <2>3. pos' = [pos EXCEPT ![io.name] = @ + (io.done - 2)] /\ pos[io.name] \in Nat
    BY <1>5, <1>7, <2>1 DEF file_write, AdvanceBy
  <2>4. FinalPos(m)' = FinalPos(m)
    <3>1. CASE m = io.name
      <4>1. pos'[m] = pos[m] + (io.done - 2)
        BY <1>3, <2>3, <3>1
      <4>2. pos[m] + (io.done - 2) = pos[m] + io.done + io.size - 2
        BY <1>5, <2>1, <2>3, <3>1
      <4> QED
        BY <2>1, <2>2, <3>1, <4>1, <4>2 DEF FinalPos, Writes
    <3>2. CASE m # io.name
      BY <1>3, <2>2, <2>3, <3>2 DEF FinalPos, Writes
    <3> QED
      BY <3>1, <3>2
  <2>5. pos'[m] = Closed <=> pos[m] = Closed
    BY <1>3, <1>5, <2>3
  <2> QED
    BY <1>1, <1>2, <2>1, <2>2, <2>4, <2>5, TextFrame
<1>8. CASE file_read /\ (io.op = "cat" \/ io.name # m)
  <2>1. io' = NoIO /\ pos'[m] = pos[m] /\ typed'[m] = typed[m]
    BY <1>3, <1>8 DEF file_read, StartsAt
  <2>2. ~Reads(m) /\ ~Writes(m) /\ ~Writes(m)'
    BY <1>8, <2>1 DEF Reads, Writes, NoIO, file_read, Reading
  <2>3. FinalPos(m)' = FinalPos(m)
    BY <2>1, <2>2 DEF FinalPos
  <2> QED
    BY <1>1, <1>2, <2>1, <2>2, <2>3, TextFrame
<1>9. CASE file_read /\ ~(io.op = "cat" \/ io.name # m)
  <2>1. pos[m] + io.done \in Int
    BY <1>5, <1>9
  <2>2. /\ io' = NoIO /\ pos'[m] = pos[m] + io.done
        /\ typed'[m] = [from |-> pos[m] + io.done, text |-> <<>>, end |-> pos[m] + io.done]
    BY <1>3, <1>9 DEF file_read, StartsAt
  <2> QED
    BY <2>1, <2>2, TextStart
<1> QED
  BY <1>6, <1>7, <1>8, <1>9 DEF Loop

\* Every step keeps the texts in order.
LEMMA StepInv == IInv /\ [Next]_vars => IInv'
<1> SUFFICES ASSUME IInv, [Next]_vars
             PROVE  IInv'
  OBVIOUS
<1>1. Core'
  BY StepCore DEF IInv
<1>2. CASE Loop
  BY <1>1, <1>2, LoopText DEF IInv, TextsOK
<1>3. CASE \E n \in Name : Command(n)
  BY <1>1, <1>3, OtherText, CommandText DEF IInv, TextsOK
<1>4. CASE UNCHANGED vars
  <2>1. \A m \in Name : TextOK(m)
    BY DEF IInv, TextsOK
  <2>2. \A m \in Name : View(m)' = View(m) /\ FinalPos(m)' = FinalPos(m) /\ Reads(m)' = Reads(m)
    BY <1>4 DEF vars, View, Bytes, FinalPos, Writes, Reads
  <2> QED
    BY <1>1, <1>4, <2>1, <2>2, TextFrame DEF vars, IInv, TextsOK
<1> QED
  BY <1>1, <1>2, <1>3, <1>4 DEF IInv, Next, TextsOK

-----------------------------------------------------------------------------
(* The properties.                                                          *)

\* In every reachable state a file has blocks for its length with zeros after
\* it, the loop is inside the file it is about, and what was typed stands, or
\* will stand when the write under way has ended, before the position
\* (inode_write_at, inode_read_at, file_write, file_read).
THEOREM Invariant == Spec => []IInv
<1>1. Init => IInv
  BY InitInv
<1>2. IInv /\ [Next]_vars => IInv'
  BY StepInv
<1> QED
  BY <1>1, <1>2, PTL DEF Spec

\* Every state the commands reach is well typed, and no file is longer than its
\* blocks.
THEOREM TypeCorrect == Spec => []TypeOK
<1>1. IInv => TypeOK
  <2> SUFFICES ASSUME IInv
               PROVE  TypeOK
    OBVIOUS
  <2>1. Core /\ Types
    BY DEF IInv, Core
  <2>2. ASSUME NEW n \in Name
        PROVE  /\ length[n] \in 0 .. MaxLength \cup {Absent}
               /\ \A k \in 1 .. Len(blocks[n]) :
                    blocks[n][k] \in [0 .. BLOCK_SECTOR_SIZE - 1 -> Byte]
               /\ Exists(n) => Len(blocks[n]) * BLOCK_SECTOR_SIZE >= length[n]
               /\ pos[n] \in Int \cup {Closed} /\ (pos[n] # Closed => Exists(n))
    <3>1. /\ length[n] \in 0 .. MaxLength \cup {Absent} /\ blocks[n] \in Seq(Block)
          /\ pos[n] \in Int \cup {Closed}
      BY <2>1 DEF Types
    <3>2. Len(blocks[n]) \in Nat /\ FileOK(n)
      BY <2>1, <3>1, LenProperties DEF Core, FilesOK
    <3>3. \A k \in 1 .. Len(blocks[n]) : blocks[n][k] \in Block
      BY <3>1, ElementOfSeq
    <3>4. Exists(n) => Len(blocks[n]) * BLOCK_SECTOR_SIZE >= length[n]
      <4>1. Exists(n) => length[n] \in Nat /\ length[n] <= Capacity(blocks[n])
        BY <3>1, <3>2 DEF FileOK, Exists
      <4>2. Capacity(blocks[n]) = Len(blocks[n]) * BLOCK_SECTOR_SIZE /\ Capacity(blocks[n]) \in Nat
        BY <3>2 DEF Capacity
      <4> QED
        BY <4>1, <4>2
    <3> QED
      BY <3>1, <3>2, <3>3, <3>4 DEF FileOK, Block
  <2>3. io # NoIO => io.op \in {"write"} \cup Reading /\ io.size >= 0
    BY <2>1, InLoop
  <2> QED
    BY <2>1, <2>2, <2>3 DEF TypeOK, Types
<1> QED
  BY <1>1, Invariant, PTL

\* What stands after the end of a file, in its last sector and in blocks that a
\* failed write left behind, is zero in every reachable state (inode_reserve,
\* inode_write_at).
THEOREM NothingHidden == Spec => []ZeroPastEnd
<1>1. IInv => ZeroPastEnd
  <2> SUFFICES ASSUME IInv, NEW n \in Name, Exists(n), NEW k \in 1 .. Len(blocks[n]),
                      NEW j \in 0 .. BLOCK_SECTOR_SIZE - 1,
                      (k - 1) * BLOCK_SECTOR_SIZE + j >= length[n]
               PROVE  blocks[n][k][j] = NUL
    BY DEF ZeroPastEnd
  <2> DEFINE x == (k - 1) * BLOCK_SECTOR_SIZE + j
             i == x + 1
  <2>1. blocks[n] \in Seq(Block) /\ length[n] \in Nat /\ FileOK(n) /\ Len(blocks[n]) \in Nat
    BY LengthType, LenProperties DEF IInv, Core, FilesOK
  <2>2. i \in 1 .. Capacity(blocks[n]) /\ ByteAt(blocks[n], i) = blocks[n][k][j]
    BY <2>1, ByteNumber
  <2>3. x \in Int /\ x >= length[n]
    BY <2>1
  <2> HIDE DEF x
  <2>4. i > length[n]
    BY <2>1, <2>3
  <2> QED
    BY <2>1, <2>2, <2>4 DEF FileOK
<1> QED
  BY <1>1, Invariant, PTL

\* What was typed since the position was last set reads back as one string,
\* ended by two zero bytes; a write that fails takes back the last two bytes of
\* it, and nothing else (file_write; write in interpreter.c).
THEOREM TextsReadBack == Spec => []TextsFollow
<1>1. IInv => TextsFollow
  <2> SUFFICES ASSUME IInv, Ready, NEW n \in Name, pos[n] # Closed, typed[n].text # <<>>
               PROVE  /\ pos[n] = typed[n].from + Len(typed[n].text)
                      /\ SubSeq(Bytes(n), typed[n].from + 1, pos[n]) = typed[n].text
                      /\ typed[n].end = pos[n] =>
                           SubSeq(Bytes(n), pos[n] + 1, pos[n] + 2) = <<NUL, NUL>>
    BY DEF TextsFollow
  <2> DEFINE f == typed[n].from
             t == typed[n].text
             z == <<NUL, NUL>>
             v == View(n)
             p == pos[n]
  <2>1. Core /\ TextOK(n) /\ Exists(n)
    BY DEF IInv, TextsOK, Core, FilesOK, FileOK
  <2>2. ~Reads(n) /\ ~Writes(n)
    BY DEF Ready, NoIO, Reads, Writes
  <2>3. /\ f \in Nat /\ t \in Seq(Byte) /\ Len(t) \in Nat
        /\ p = f + Len(t) /\ p + 2 <= length[n]
        /\ \A i \in 1 .. Len(t) : v[f + i] = t[i]
        /\ typed[n].end = p => \A i \in 1 .. 2 : v[p + i] = NUL
    BY <2>1, <2>2, LenProperties DEF TextOK, FinalPos, Core, Types
  <2>4. v \in Seq(Byte) /\ Len(v) = length[n] /\ length[n] \in Nat
    BY <2>1, ViewSeq, LengthType DEF Core
  <2>5. Bytes(n) = v
    BY <2>2 DEF View, Bytes, Writes
  <2> HIDE DEF f, t, v, p
  <2>6. \A e \in 1 .. Len(v) : v[e] \in Byte
    BY <2>4, ElementOfSeq
  <2>7. SubSeq(v, f + 1, p) = t
    <3> DEFINE s == SubSeq(v, f + 1, p)
    <3>1. /\ \A i \in f + 1 .. p : v[i] \in Byte
          /\ f + 1 \in Int /\ p \in Int /\ p - (f + 1) + 1 = Len(t)
      BY <2>3, <2>4, <2>6
    <3>2. s \in Seq(Byte) /\ Len(s) = Len(t) /\ \A i \in 1 .. Len(t) : s[i] = v[f + 1 + i - 1]
      BY <2>3, <3>1, SubSeqProperties
    <3>3. \A i \in 1 .. Len(t) : f + 1 + i - 1 = f + i
      BY <2>3
    <3> HIDE DEF s
    <3>4. \A i \in 1 .. Len(t) : s[i] = t[i]
      BY <2>3, <3>2, <3>3
    <3>5. s = t
      BY <2>3, <3>2, <3>4, SeqEqual
    <3> QED
      BY <3>5 DEF s
  <2>8. ASSUME typed[n].end = p
        PROVE  SubSeq(v, p + 1, p + 2) = z
    <3> DEFINE b == p + 1
               e == p + 2
               s == SubSeq(v, b, e)
    <3>1. /\ \A i \in b .. e : v[i] \in Byte
          /\ b \in Int /\ e \in Int /\ e - b + 1 = 2 /\ b <= e
      BY <2>3, <2>4, <2>6
    <3> HIDE DEF b, e
    <3>2. s \in Seq(Byte) /\ Len(s) = 2 /\ \A i \in 1 .. 2 : s[i] = v[b + i - 1]
      BY <3>1, SubSeqProperties
    <3>3. z \in Seq(Byte) /\ Len(z) = 2 /\ \A i \in 1 .. 2 : z[i] = NUL
      BY SizeAssumption
    <3>4. \A i \in 1 .. 2 : b + i - 1 = p + i
      BY <2>3 DEF b
    <3> HIDE DEF s, z
    <3>5. \A i \in 1 .. 2 : s[i] = z[i]
      BY <2>3, <2>8, <3>2, <3>3, <3>4
    <3>6. s = z
      BY <3>2, <3>3, <3>5, SeqEqual
    <3> QED
      BY <3>6 DEF s, b, e
  <2> QED
    BY <2>3, <2>5, <2>7, <2>8 DEF f, t, p
<1> QED
  BY <1>1, Invariant, PTL

-----------------------------------------------------------------------------
(* The loops implement files that are sequences of bytes.                   *)

\* What the variables of ByteFile stand for (Abstract in FileIO).
AContent == [n \in Name |-> IF Exists(n) THEN View(n) ELSE Absent]
APosition ==
  [n \in Name |-> IF Ready \/ io.name # n \/ io.op = "cat" THEN pos[n]
                  ELSE IF io.op = "write" THEN pos[n] + io.done + io.size - 2
                  ELSE pos[n] + io.done + LeftToRead]
AResult ==
  IF Ready \/ io.op = "write" THEN out
  ELSE buffer \o SubSeq(Bytes(io.name), io.offset + 1, io.offset + LeftToRead)

\* A function that differs from another in one place.
LEMMA ChangedAt ==
  ASSUME NEW S, NEW F, NEW G, F = [m \in S |-> F[m]], G = [m \in S |-> G[m]],
         NEW n \in S, NEW v, G[n] = v, \A m \in S \ {n} : G[m] = F[m]
  PROVE  G = [F EXCEPT ![n] = v]
<1>1. [F EXCEPT ![n] = v] = [m \in S |-> IF m = n THEN v ELSE F[m]]
  BY Zenon
<1>2. [m \in S |-> G[m]] = [m \in S |-> IF m = n THEN v ELSE F[m]]
  BY Zenon
<1> QED
  BY <1>1, <1>2, Zenon

\* Functions with the same values.
LEMMA SameFunction ==
  ASSUME NEW S, NEW F, NEW G, F = [m \in S |-> F[m]], G = [m \in S |-> G[m]],
         \A m \in S : G[m] = F[m]
  PROVE  G = F
<1>1. [m \in S |-> G[m]] = [m \in S |-> F[m]]
  BY Zenon
<1> QED
  BY <1>1, Zenon

\* The mapped variables, pointwise, in a state and in the next one.
LEMMA MappedValues ==
  /\ AContent = [n \in Name |-> AContent[n]] /\ AContent' = [n \in Name |-> AContent'[n]]
  /\ APosition = [n \in Name |-> APosition[n]] /\ APosition' = [n \in Name |-> APosition'[n]]
  /\ \A n \in Name :
       /\ AContent[n] = IF Exists(n) THEN View(n) ELSE Absent
       /\ AContent'[n] = IF Exists(n)' THEN View(n)' ELSE Absent
       /\ APosition[n] = IF Ready \/ io.name # n \/ io.op = "cat" THEN pos[n]
                         ELSE IF io.op = "write" THEN pos[n] + io.done + io.size - 2
                         ELSE pos[n] + io.done + LeftToRead
       /\ APosition'[n] = IF Ready' \/ io'.name # n \/ io'.op = "cat" THEN pos'[n]
                          ELSE IF io'.op = "write" THEN pos'[n] + io'.done + io'.size - 2
                          ELSE pos'[n] + io'.done + LeftToRead'
  BY Zenon DEF AContent, APosition

\* Between commands the mapped variables are those of the files and the table.
LEMMA MappedAtRest ==
  ASSUME Core, Ready, NEW n \in Name
  PROVE  /\ AContent[n] # Absent <=> Exists(n)
         /\ Exists(n) => AContent[n] = View(n)
         /\ APosition[n] = pos[n] /\ AResult = out
<1>1. AContent[n] = (IF Exists(n) THEN View(n) ELSE Absent) /\ APosition[n] = pos[n]
  BY MappedValues
<1>2. Exists(n) => View(n) # Absent
  BY ViewSeq
<1> QED
  BY <1>1, <1>2 DEF AResult

\* What is left to read lies in the request and in the file, and is nothing when
\* the loop is over.
LEMMA LeftInside ==
  ASSUME Core, io # NoIO
  PROVE  /\ LeftToRead \in Nat /\ LeftToRead <= io.size
         /\ LeftToRead = 0 \/ io.offset + LeftToRead <= length[io.name]
         /\ LoopOver => LeftToRead = 0
<1>1. io.offset \in Nat /\ io.size \in Nat /\ length[io.name] \in Nat
  BY InLoop
<1>2. inode_left \in Int /\ inode_left = length[io.name] - io.offset
  BY <1>1 DEF inode_left
<1>3. /\ LeftToRead \in Nat /\ LeftToRead <= io.size
      /\ LeftToRead = 0 \/ LeftToRead <= inode_left
  BY <1>1, <1>2 DEF LeftToRead, MinOf
<1>4. sector_left \in Nat \ {0}
  BY <1>1, OffsetInSector
<1>5. LoopOver => LeftToRead = 0
  BY <1>1, <1>2, <1>4 DEF LoopOver, chunk_size, LeftToRead, MinOf
<1> QED
  BY <1>1, <1>2, <1>3, <1>5

\* A part of a file behind what was read before it.
LEMMA ReadAndLeft ==
  ASSUME NEW buf \in Seq(Byte), NEW bytes \in Seq(Byte), NEW ofs \in Nat, NEW l \in Nat,
         l = 0 \/ ofs + l <= Len(bytes)
  PROVE  LET r == buf \o SubSeq(bytes, ofs + 1, ofs + l) IN
         /\ r \in Seq(Byte) /\ Len(buf) \in Nat /\ Len(r) = Len(buf) + l
         /\ \A k \in 1 .. Len(buf) : r[k] = buf[k]
         /\ \A k \in 1 .. l : r[Len(buf) + k] = bytes[ofs + k]
         /\ l = 0 => r = buf
<1> DEFINE p == SubSeq(bytes, ofs + 1, ofs + l)
           r == buf \o p
<1>1. Len(bytes) \in Nat /\ Len(buf) \in Nat
  BY LenProperties
<1>2. \A k \in ofs + 1 .. ofs + l : bytes[k] \in Byte
  BY <1>1, ElementOfSeq
<1>3. /\ p \in Seq(Byte) /\ Len(p) = l
      /\ \A k \in 1 .. l : p[k] = bytes[ofs + k]
  <2> DEFINE a == ofs + 1
             z == ofs + l
  <2>1. a \in Int /\ z \in Int /\ z - a + 1 = l /\ \A k \in 1 .. l : a + k - 1 = ofs + k
    OBVIOUS
  <2>2. (a <= z) \/ l = 0
    OBVIOUS
  <2>3. \A k \in a .. z : bytes[k] \in Byte
    BY <1>2
  <2> HIDE DEF a, z
  <2>4. /\ SubSeq(bytes, a, z) \in Seq(Byte)
        /\ Len(SubSeq(bytes, a, z)) = IF a <= z THEN z - a + 1 ELSE 0
        /\ \A k \in 1 .. z - a + 1 : SubSeq(bytes, a, z)[k] = bytes[a + k - 1]
    BY <2>1, <2>3, SubSeqProperties
  <2>5. Len(SubSeq(bytes, a, z)) = l
    BY <2>1, <2>2, <2>4
  <2>6. \A k \in 1 .. l : SubSeq(bytes, a, z)[k] = bytes[ofs + k]
    BY <2>1, <2>4
  <2> QED
    BY <2>4, <2>5, <2>6 DEF a, z
<1> HIDE DEF p
<1>4. /\ r \in Seq(Byte) /\ Len(r) = Len(buf) + Len(p)
      /\ \A k \in 1 .. Len(buf) + Len(p) :
           r[k] = IF k <= Len(buf) THEN buf[k] ELSE p[k - Len(buf)]
  BY <1>3, ConcatProperties
<1> HIDE DEF r
<1>5. \A k \in 1 .. Len(buf) : r[k] = buf[k]
  BY <1>1, <1>3, <1>4
<1>6. ASSUME NEW k \in 1 .. l
      PROVE  r[Len(buf) + k] = bytes[ofs + k]
  <2> DEFINE x == Len(buf) + k
  <2>1. x \in 1 .. Len(buf) + Len(p) /\ ~(x <= Len(buf)) /\ x - Len(buf) = k
    BY <1>1, <1>3
  <2> HIDE DEF x
  <2>2. r[x] = p[k]
    BY <1>4, <2>1
  <2> QED
    BY <1>3, <2>2 DEF x
<1>7. l = 0 => r = buf
  <2> SUFFICES ASSUME l = 0
               PROVE  r = buf
    OBVIOUS
  <2>1. Len(r) = Len(buf)
    BY <1>1, <1>3, <1>4
  <2> QED
    BY <1>1, <1>4, <1>5, <2>1, SeqEqual
<1> QED
  BY <1>1, <1>3, <1>4, <1>5, <1>6, <1>7 DEF r, p

\* The bytes of a file that is not being written are its view.
LEMMA BytesAreView ==
  ASSUME NEW n
  PROVE  (~Writes(n) => Bytes(n) = View(n)) /\ (~Writes(n)' => Bytes(n)' = View(n)')
<1>1. ASSUME ~Writes(n)
      PROVE  Bytes(n) = View(n)
  BY <1>1, Zenon DEF View, Bytes, Writes
<1>2. ASSUME ~Writes(n)'
      PROVE  Bytes(n)' = View(n)'
  BY <1>2, Zenon DEF View, Bytes, Writes
<1> QED
  BY <1>1, <1>2

\* A chunk of a read moves bytes from what is left to the buffer.
LEMMA ReadChunkResult ==
  ASSUME Core, Core', ReadChunk
  PROVE  /\ LeftToRead' = LeftToRead - chunk_size
         /\ AResult' = AResult
<1> DEFINE n == io.name
           c == chunk_size
           by == Bytes(n)
           l == LeftToRead
<1>1. /\ io # NoIO /\ io.op \in Reading /\ ~LoopOver /\ Advance /\ UNCHANGED <<blocks, length>>
  BY DEF ReadChunk, NoIO, Reading
<1>2. /\ n \in Name /\ io.offset \in Nat /\ io.size \in Nat /\ Exists(n) /\ length[n] \in Nat
  BY <1>1, InLoop
<1>3. c \in Nat \ {0} /\ c <= io.size /\ io.offset + c <= length[n]
  BY <1>1, ChunkInside
<1>4. /\ io' # NoIO /\ io'.op = io.op /\ io'.name = n
      /\ io'.offset = io.offset + c /\ io'.size = io.size - c
  BY <1>1, AdvancedLoop
<1>5. /\ l \in Nat
      /\ l = 0 \/ io.offset + l <= length[n]
      /\ l = IF io.size < length[n] - io.offset THEN io.size ELSE length[n] - io.offset
  <2>1. l \in Nat /\ (l = 0 \/ io.offset + l <= length[n])
    BY <1>1, LeftInside
  <2>2. ~(length[n] - io.offset < 0)
    BY <1>2, <1>3
  <2> QED
    BY <2>1, <2>2 DEF LeftToRead, inode_left, MinOf
<1>6. LeftToRead' = l - c
  <2>1. LeftToRead' = IF length[n] - (io.offset + c) < 0 THEN 0
                      ELSE IF io.size - c < length[n] - (io.offset + c) THEN io.size - c
                      ELSE length[n] - (io.offset + c)
    BY <1>1, <1>4, Zenon DEF LeftToRead, inode_left, MinOf
  <2> HIDE DEF n, c, l
  <2> QED
    BY <1>2, <1>3, <1>5, <2>1
<1>7. by \in Seq(Byte) /\ Len(by) = length[n] /\ by = View(n)
  BY <1>1, <1>2, ViewSeq, BytesAreView DEF Writes, Reading
<1>8. /\ buffer \in Seq(Byte)
      /\ buffer' \in Seq(Byte) /\ Len(buffer') = Len(buffer) + c
      /\ \A k \in 1 .. Len(buffer) : buffer'[k] = buffer[k]
      /\ \A k \in 1 .. c : buffer'[Len(buffer) + k] = ByteAt(blocks[n], io.offset + k)
  BY ReadChunkEffect DEF Core, Types
<1>9. \A k \in 1 .. c : ByteAt(blocks[n], io.offset + k) = by[io.offset + k]
  <2>1. \A k \in 1 .. c : io.offset + k \in 1 .. length[n]
    BY <1>2, <1>3
  <2> QED
    BY <2>1 DEF Bytes, ByteAt
<1>10. /\ Bytes(io.name)' = Bytes(io.name)
       /\ ~Ready /\ ~Ready' /\ io.op # "write" /\ io'.op # "write"
  <2>1. Bytes(io.name)' = Bytes(io.name)
    BY <1>1, <1>4, Zenon DEF Bytes
  <2> QED
    BY <1>1, <1>4, <2>1 DEF Ready, Reading
<1> DEFINE r == buffer \o SubSeq(by, io.offset + 1, io.offset + l)
           s == buffer' \o SubSeq(by, io.offset + c + 1, io.offset + c + (l - c))
<1>11. AResult = r /\ AResult' = s
  BY <1>4, <1>6, <1>10, Zenon DEF AResult
<1>12. c <= l
  BY <1>2, <1>3, <1>5
<1> HIDE DEF by, c, n, l
<1>13. /\ r \in Seq(Byte) /\ Len(buffer) \in Nat /\ Len(r) = Len(buffer) + l
       /\ \A k \in 1 .. Len(buffer) : r[k] = buffer[k]
       /\ \A k \in 1 .. l : r[Len(buffer) + k] = by[io.offset + k]
  <2> DEFINE o == io.offset
  <2>1. o \in Nat /\ l \in Nat /\ (l = 0 \/ o + l <= Len(by))
    BY <1>2, <1>5, <1>7
  <2>2. buffer \in Seq(Byte) /\ by \in Seq(Byte)
    BY <1>7, <1>8
  <2> HIDE DEF o
  <2>3. LET q == buffer \o SubSeq(by, o + 1, o + l) IN
        /\ q \in Seq(Byte) /\ Len(buffer) \in Nat /\ Len(q) = Len(buffer) + l
        /\ \A k \in 1 .. Len(buffer) : q[k] = buffer[k]
        /\ \A k \in 1 .. l : q[Len(buffer) + k] = by[o + k]
    BY <2>1, <2>2, ReadAndLeft
  <2> QED
    BY <2>3 DEF o
<1>14. /\ s \in Seq(Byte) /\ Len(s) = Len(buffer') + (l - c)
       /\ \A k \in 1 .. Len(buffer') : s[k] = buffer'[k]
       /\ \A k \in 1 .. l - c : s[Len(buffer') + k] = by[io.offset + c + k]
  <2> DEFINE o == io.offset + c
             d == l - c
  <2>1. o \in Nat /\ d \in Nat /\ (d = 0 \/ o + d <= Len(by))
    <3>0. io.offset \in Nat /\ c \in Nat /\ l \in Nat
      BY <1>2, <1>3, <1>5
    <3>1. o \in Nat /\ d \in Nat /\ o + d = io.offset + l
      BY <1>12, <3>0
    <3>2. l = 0 => d = 0
      BY <1>12, <3>0
    <3> HIDE DEF o, d
    <3> QED
      BY <1>5, <1>7, <3>1, <3>2
  <2> HIDE DEF o, d
  <2>2. buffer' \in Seq(Byte) /\ by \in Seq(Byte)
    BY <1>7, <1>8
  <2>3. LET q == buffer' \o SubSeq(by, o + 1, o + d) IN
        /\ q \in Seq(Byte) /\ Len(q) = Len(buffer') + d
        /\ \A k \in 1 .. Len(buffer') : q[k] = buffer'[k]
        /\ \A k \in 1 .. d : q[Len(buffer') + k] = by[o + k]
    BY <2>1, <2>2, ReadAndLeft
  <2> QED
    BY <2>3 DEF o, d
<1> HIDE DEF r, s
<1>15. Len(r) \in Nat /\ Len(s) = Len(r)
  BY <1>3, <1>5, <1>8, <1>12, <1>13, <1>14
<1>16. ASSUME NEW k \in 1 .. Len(r)
       PROVE  r[k] = s[k]
  <2>1. CASE k <= Len(buffer)
    <3>1. k \in 1 .. Len(buffer) /\ k \in 1 .. Len(buffer')
      BY <1>3, <1>8, <1>13, <2>1
    <3> QED
      BY <1>8, <1>13, <1>14, <3>1
  <2>2. CASE k > Len(buffer) /\ k <= Len(buffer) + c
    <3> DEFINE j == k - Len(buffer)
    <3>1. j \in 1 .. c /\ j \in 1 .. l /\ k = Len(buffer) + j /\ k \in 1 .. Len(buffer')
      BY <1>3, <1>5, <1>8, <1>12, <1>13, <2>2
    <3> HIDE DEF j
    <3>2. r[k] = by[io.offset + j] /\ s[k] = buffer'[k]
      BY <1>13, <1>14, <3>1
    <3>3. buffer'[k] = by[io.offset + j]
      BY <1>8, <1>9, <3>1
    <3> QED
      BY <3>2, <3>3
  <2>3. CASE k > Len(buffer) + c
    <3> DEFINE j == k - Len(buffer)
               i == j - c
    <3>1. j \in 1 .. l /\ k = Len(buffer) + j
      BY <1>3, <1>5, <1>13, <2>3
    <3>2. /\ i \in 1 .. l - c /\ k = Len(buffer') + i
      <4>1. c \in Nat /\ l \in Nat /\ Len(buffer) \in Nat /\ Len(buffer') = Len(buffer) + c
        BY <1>3, <1>5, <1>8, <1>13
      <4>2. k \in Nat
        BY <1>13, <1>16
      <4> QED
        BY <2>3, <3>1, <4>1, <4>2
    <3>3. io.offset + c + i = io.offset + j
      BY <1>2, <1>3, <3>1
    <3> HIDE DEF i, j
    <3>4. r[k] = by[io.offset + j]
      BY <1>13, <3>1
    <3>5. s[k] = by[io.offset + j]
      BY <1>14, <3>2, <3>3
    <3> QED
      BY <3>4, <3>5
  <2> QED
    BY <1>3, <1>13, <2>1, <2>2, <2>3
<1>17. r = s
  BY <1>13, <1>14, <1>15, <1>16, SeqEqual
<1> QED
  BY <1>6, <1>11, <1>17 DEF l, c

\* The steps of a loop are invisible in ByteFile.
LEMMA LoopRefines ==
  ASSUME Core, Core', Loop
  PROVE  AContent' = AContent /\ APosition' = APosition /\ AResult' = AResult
<1>1. io # NoIO /\ ~Ready
  BY DEF Loop, WriteChunk, ReadChunk, file_write, file_read, NoIO, Reading, Ready
<1>2. /\ io.name \in Name /\ io.offset \in Nat /\ io.size \in Nat /\ io.done \in Nat
      /\ io.op \in {"write"} \cup Reading /\ Exists(io.name)
      /\ io.op # "cat" => pos[io.name] \in Nat
      /\ pos \in [Name -> Int \cup {Closed}] /\ buffer \in Seq(Byte)
  BY <1>1, InLoop DEF Core, Types, LoopOK
<1>3. AContent' = AContent
  <2>1. length' = length
    BY DEF Loop, WriteChunk, ReadChunk, file_write, file_read
  <2>2. ASSUME NEW m \in Name
        PROVE  AContent'[m] = AContent[m]
    <3>1. Exists(m)' <=> Exists(m)
      BY <2>1 DEF Exists
    <3>2. Exists(m) => View(m)' = View(m)
      BY LoopView
    <3> QED
      BY <3>1, <3>2, MappedValues
  <2> QED
    BY <2>2, MappedValues, SameFunction
<1>4. LeftToRead \in Nat /\ (LoopOver => LeftToRead = 0)
  BY <1>1, LeftInside
<1>5. CASE WriteChunk
  <2>1. io.op = "write" /\ ~LoopOver /\ Advance /\ pos' = pos /\ out' = out
    BY <1>5 DEF WriteChunk
  <2>2. chunk_size \in Nat
    BY <1>1, <2>1, ChunkInside
  <2>3. /\ io' # NoIO /\ io'.op = "write" /\ io'.name = io.name
        /\ io'.size = io.size - chunk_size /\ io'.done = io.done + chunk_size
    BY <1>1, <2>1, AdvancedLoop
  <2>4. ASSUME NEW m \in Name
        PROVE  APosition'[m] = APosition[m]
    <3>1. CASE m = io.name
      <4>1. APosition'[m] = pos[m] + (io.done + chunk_size) + (io.size - chunk_size) - 2
        BY <2>1, <2>3, <3>1, MappedValues DEF Ready
      <4>2. APosition[m] = pos[m] + io.done + io.size - 2
        BY <1>1, <2>1, <3>1, MappedValues
      <4>3. pos[m] \in Nat /\ io.done \in Nat /\ io.size \in Nat
        BY <1>2, <2>1, <3>1
      <4>4. pos[m] + (io.done + chunk_size) + (io.size - chunk_size) - 2
              = pos[m] + io.done + io.size - 2
        <5> DEFINE p == pos[m]
                   d == io.done
                   s == io.size
                   c == chunk_size
        <5>1. p \in Nat /\ d \in Nat /\ s \in Nat /\ c \in Nat
          BY <2>2, <4>3
        <5> HIDE DEF p, d, s, c
        <5>2. p + (d + c) + (s - c) - 2 = p + d + s - 2
          BY <5>1
        <5> QED
          BY <5>2 DEF p, d, s, c
      <4> QED
        BY <4>1, <4>2, <4>4, Zenon
    <3>2. CASE m # io.name
      BY <2>1, <2>3, <3>2, MappedValues
    <3> QED
      BY <3>1, <3>2
  <2>5. APosition' = APosition
    BY <2>4, MappedValues, SameFunction
  <2>6. AResult' = AResult
    BY <2>1, <2>3 DEF AResult
  <2> QED
    BY <1>3, <2>5, <2>6
<1>6. CASE ReadChunk
  <2>1. io.op \in Reading /\ ~LoopOver /\ Advance /\ pos' = pos
    BY <1>6 DEF ReadChunk
  <2>2. chunk_size \in Nat
    BY <1>1, <2>1, ChunkInside
  <2>3. /\ io' # NoIO /\ io'.op = io.op /\ io'.name = io.name
        /\ io'.done = io.done + chunk_size
    BY <1>1, <2>1, AdvancedLoop
  <2>4. LeftToRead' = LeftToRead - chunk_size /\ AResult' = AResult
    BY <1>6, ReadChunkResult
  <2>5. ASSUME NEW m \in Name
        PROVE  APosition'[m] = APosition[m]
    <3>1. CASE m = io.name /\ io.op # "cat"
      <4>1. APosition'[m] = pos[m] + (io.done + chunk_size) + (LeftToRead - chunk_size)
        BY <2>1, <2>3, <2>4, <3>1, MappedValues DEF Ready, Reading
      <4>2. APosition[m] = pos[m] + io.done + LeftToRead
        BY <1>1, <2>1, <3>1, MappedValues DEF Reading
      <4> QED
        BY <1>2, <1>4, <2>2, <3>1, <4>1, <4>2
    <3>2. CASE m # io.name \/ io.op = "cat"
      BY <2>1, <2>3, <3>2, MappedValues
    <3> QED
      BY <3>1, <3>2
  <2>6. APosition' = APosition
    BY <2>5, MappedValues, SameFunction
  <2> QED
    BY <1>3, <2>4, <2>6
<1>7. CASE file_write
  <2>1. io.size = 0 /\ io.op = "write" /\ Ready' /\ out' = out
    BY <1>7, AllWritten DEF file_write, Ready
  <2>2. pos' = [pos EXCEPT ![io.name] = @ + (io.done - 2)]
    BY <1>7 DEF file_write, AdvanceBy
  <2>3. ASSUME NEW m \in Name
        PROVE  APosition'[m] = APosition[m]
    <3>1. APosition'[m] = pos'[m]
      BY <2>1, MappedValues
    <3>2. CASE m = io.name
      <4>1. APosition[m] = pos[m] + io.done + io.size - 2
        BY <1>1, <2>1, <3>2, MappedValues
      <4>2. pos'[m] = pos[m] + (io.done - 2) /\ pos[m] \in Nat
        BY <1>2, <2>1, <2>2, <3>2
      <4> QED
        BY <1>2, <2>1, <3>1, <4>1, <4>2
    <3>3. CASE m # io.name
      BY <1>2, <2>2, <3>1, <3>3, MappedValues
    <3> QED
      BY <3>2, <3>3
  <2>4. APosition' = APosition
    BY <2>3, MappedValues, SameFunction
  <2>5. AResult' = AResult
    BY <2>1 DEF AResult
  <2> QED
    BY <1>3, <2>4, <2>5
<1>8. CASE file_read
  <2>1. io.op \in Reading /\ Ready' /\ out' = buffer /\ LeftToRead = 0
    BY <1>4, <1>8 DEF file_read, Ready
  <2>2. IF io.op = "cat" THEN pos' = pos ELSE pos' = [pos EXCEPT ![io.name] = @ + io.done]
    BY <1>8 DEF file_read
  <2>3. ASSUME NEW m \in Name
        PROVE  APosition'[m] = APosition[m]
    <3>1. APosition'[m] = pos'[m]
      BY <2>1, MappedValues
    <3>2. CASE m = io.name /\ io.op # "cat"
      <4>1. APosition[m] = pos[m] + io.done + LeftToRead
        BY <1>1, <2>1, <3>2, MappedValues DEF Reading
      <4>2. pos'[m] = pos[m] + io.done /\ pos[m] \in Nat
        BY <1>2, <2>2, <3>2
      <4> QED
        BY <1>2, <2>1, <3>1, <4>1, <4>2
    <3>3. CASE m # io.name \/ io.op = "cat"
      BY <1>2, <2>2, <3>1, <3>3, MappedValues
    <3> QED
      BY <3>2, <3>3
  <2>4. APosition' = APosition
    BY <2>3, MappedValues, SameFunction
  <2>5. AResult = buffer
    <3> DEFINE by == Bytes(io.name)
               o == io.offset
               l == LeftToRead
    <3>1. by \in Seq(Byte)
      BY <1>2, <2>1, ViewSeq, BytesAreView DEF Writes, Reading
    <3>2. o \in Nat /\ l \in Nat /\ l = 0 /\ buffer \in Seq(Byte)
      BY <1>2, <1>4, <2>1
    <3>3. AResult = buffer \o SubSeq(by, o + 1, o + l)
      BY <1>1, <2>1 DEF AResult, Reading
    <3> HIDE DEF by, o, l
    <3> QED
      BY <3>1, <3>2, <3>3, ReadAndLeft
  <2>6. AResult' = out'
    BY <2>1 DEF AResult
  <2> QED
    BY <1>3, <2>1, <2>4, <2>5, <2>6
<1> QED
  BY <1>5, <1>6, <1>7, <1>8 DEF Loop

\* A command on one file: the others, and the mapped variables that stay.
LEMMA CommandFrame ==
  ASSUME Core, Core', NEW n \in Name, Command(n)
  PROVE  /\ Ready
         /\ \A m \in Name \ {n} : AContent'[m] = AContent[m] /\ APosition'[m] = APosition[m]
         /\ APosition'[n] = APosition[n] => APosition' = APosition
         /\ AContent'[n] = AContent[n] => AContent' = AContent
         /\ APosition' = [APosition EXCEPT ![n] = APosition'[n]]
         /\ AContent' = [AContent EXCEPT ![n] = AContent'[n]]
<1>1. Ready
  BY DEF Command, create, seek, size, rm, read, cat, copy_out, write, write_fails
<1>2. ASSUME NEW m \in Name \ {n}
      PROVE  AContent'[m] = AContent[m] /\ APosition'[m] = APosition[m]
  <2>1. length'[m] = length[m] /\ pos'[m] = pos[m]
    <3>1. pos'[m] = pos[m]
      BY DEF Command, create, seek, size, rm, read, cat, copy_out, write, write_fails,
             Core, Types
    <3>2. \A end : Extend(n, end) => length'[m] = length[m]
      BY DEF Extend, Core, Types
    <3>3. length'[m] = length[m]
      BY <3>2 DEF Command, create, seek, size, rm, read, cat, copy_out, write, write_fails,
                  Core, Types
    <3> QED
      BY <3>1, <3>3
  <2>2. Exists(m)' <=> Exists(m)
    BY <2>1 DEF Exists
  <2>3. Exists(m) => View(m)' = View(m)
    BY CommandView
  <2>4. io' = io \/ io'.name = n
    <3>1. \A op, offset, count, data : Begin(op, n, offset, count, data) => io'.name = n
      BY DEF Begin
    <3> QED
      BY <3>1 DEF Command, create, seek, size, rm, read, cat, copy_out, write, write_fails
  <2>5. APosition'[m] = pos'[m] /\ APosition[m] = pos[m]
    BY <1>1, <2>4, MappedValues DEF Ready
  <2>6. AContent'[m] = AContent[m]
    BY <2>2, <2>3, MappedValues
  <2> QED
    BY <2>1, <2>5, <2>6
<1>3. APosition'[n] = APosition[n] => APosition' = APosition
  BY <1>2, MappedValues, SameFunction
<1>4. AContent'[n] = AContent[n] => AContent' = AContent
  BY <1>2, MappedValues, SameFunction
<1>5. APosition' = [APosition EXCEPT ![n] = APosition'[n]]
  BY <1>2, MappedValues, ChangedAt
<1>6. AContent' = [AContent EXCEPT ![n] = AContent'[n]]
  BY <1>2, MappedValues, ChangedAt
<1> QED
  BY <1>1, <1>2, <1>3, <1>4, <1>5, <1>6

\* The commands that change no file.
LEMMA QuietCommand ==
  ASSUME Core, Core', NEW n \in Name,
         \/ \E k \in Sizes : seek(n, k) \/ read(n, k)
         \/ \E text \in Text : write_fails(n, text)
         \/ size(n) \/ cat(n) \/ copy_out(n)
  PROVE  /\ Command(n) /\ Ready /\ Exists(n) /\ View(n)' = View(n)
         /\ AContent' = AContent /\ AContent[n] = View(n) /\ AContent[n] # Absent
         /\ APosition[n] = pos[n] /\ AResult = out
         /\ APosition' = [APosition EXCEPT ![n] = APosition'[n]]
<1>1. Command(n)
  BY DEF Command
<1>2. Ready /\ Exists(n) /\ length' = length
  BY DEF seek, read, write_fails, size, cat, copy_out
<1>3. ~rm(n)
  BY <1>2 DEF rm, Exists, Core, Types
<1>4. ASSUME NEW text \in Text, write(n, text)
      PROVE  FALSE
  <2>1. io'.op = "write"
    BY <1>4 DEF write, Begin
  <2>2. io' = io \/ io'.op \in Reading
    <3>1. \A op, offset, count, data : Begin(op, n, offset, count, data) => io'.op = op
      BY DEF Begin
    <3> QED
      BY <3>1 DEF seek, read, write_fails, size, cat, copy_out, Reading
  <2> QED
    BY <1>2, <2>1, <2>2 DEF Ready, NoIO, Reading
<1>5. View(n)' = View(n)
  BY <1>1, <1>2, <1>3, <1>4, CommandView
<1>6. AContent'[n] = AContent[n]
  BY <1>2, <1>5, MappedValues DEF Exists
<1>7. AContent' = AContent /\ APosition' = [APosition EXCEPT ![n] = APosition'[n]]
  BY <1>1, <1>6, CommandFrame
<1> QED
  BY <1>1, <1>2, <1>5, <1>7, MappedAtRest

\* Abstract!Opened is get_file.
LEMMA OpenedIsGetFile ==
  ASSUME Core, Ready, NEW n \in Name
  PROVE  Abstract!Opened(n) = get_file(n)
<1>1. APosition[n] = pos[n]
  BY MappedAtRest
<1> QED
  BY <1>1, Zenon DEF Abstract!Opened, get_file, APosition

\* seek, size and rm.
LEMMA TableRefines ==
  ASSUME Core, Core', NEW n \in Name
  PROVE  /\ \A k \in Sizes : seek(n, k) => Abstract!Seek(n, k)
         /\ size(n) => Abstract!Size(n)
         /\ rm(n) => Abstract!Remove(n)
<1>1. pos \in [Name -> Int \cup {Closed}] /\ length \in [Name -> 0 .. MaxLength \cup {Absent}]
  BY DEF Core, Types
<1>2. ASSUME NEW k \in Sizes, seek(n, k)
      PROVE  Abstract!Seek(n, k)
  <2>1. Ready' /\ pos'[n] = k /\ out' = out
    BY <1>1, <1>2 DEF seek, Ready
  <2>2. /\ AContent[n] # Absent /\ AContent' = AContent /\ AResult = out
        /\ APosition' = [APosition EXCEPT ![n] = APosition'[n]]
    BY <1>2, QuietCommand
  <2>3. APosition'[n] = k /\ AResult' = AResult
    BY <2>1, <2>2, MappedValues DEF AResult
  <2> QED
    BY <2>2, <2>3, Zenon DEF Abstract!Seek, Abstract!Exists, AContent, APosition, AResult
<1>3. ASSUME size(n)
      PROVE  Abstract!Size(n)
  <2>1. Ready' /\ pos'[n] = get_file(n) /\ out' = out
    BY <1>1, <1>3 DEF size, Ready
  <2>2. /\ AContent[n] # Absent /\ AContent' = AContent /\ AResult = out /\ Ready
        /\ APosition' = [APosition EXCEPT ![n] = APosition'[n]]
    BY <1>3, QuietCommand
  <2>3. APosition'[n] = Abstract!Opened(n) /\ AResult' = AResult
    BY <2>1, <2>2, MappedValues, OpenedIsGetFile DEF AResult
  <2> QED
    BY <2>2, <2>3, Zenon DEF Abstract!Size, Abstract!Exists, AContent, APosition, AResult
<1>4. ASSUME rm(n)
      PROVE  Abstract!Remove(n)
  <2>1. Ready /\ Ready' /\ pos'[n] = Closed /\ length'[n] = Absent /\ out' = out /\ Command(n)
    BY <1>1, <1>4 DEF rm, Ready, Command
  <2>2. APosition'[n] = Closed /\ AContent'[n] = Absent /\ AResult' = AResult
    BY <2>1, MappedValues DEF AResult, Exists
  <2>3. AContent' = [AContent EXCEPT ![n] = Absent] /\ APosition' = [APosition EXCEPT ![n] = Closed]
    BY <2>1, <2>2, CommandFrame
  <2> QED
    BY <2>2, <2>3, Zenon DEF Abstract!Remove, AContent, APosition, AResult
<1> QED
  BY <1>2, <1>3, <1>4

\* create makes a file of zeros.
LEMMA CreateRefines ==
  ASSUME Core, Core', NEW n \in Name, NEW k \in Sizes, create(n, k)
  PROVE  Abstract!Create(n, k)
<1> DEFINE new == ZeroBlocks(bytes_to_sectors(k))
<1>1. /\ Command(n) /\ Ready /\ Ready' /\ ~Exists(n) /\ k \in Nat
      /\ length'[n] = k /\ blocks'[n] = new /\ pos' = pos /\ out' = out
  BY DEF create, Command, Ready, Core, Types
<1>2. \A i \in 1 .. Capacity(new) : ByteAt(new, i) = NUL
  BY <1>1, NewFile
<1>3. new \in Seq(Block) /\ k <= Capacity(new)
  BY <1>1, NewFile
<1> HIDE DEF new
<1>4. Capacity(new) \in Nat
  BY <1>3, LenProperties DEF Capacity
<1>5. ~Writes(n)'
  BY <1>1 DEF Ready, NoIO, Writes
<1>6. ASSUME NEW i \in 1 .. k
      PROVE  View(n)'[i] = NUL
  BY <1>1, <1>2, <1>3, <1>4, <1>5, ViewByte
<1>7. View(n)' = [i \in 1 .. k |-> NUL]
  <2>1. View(n)' = [i \in 1 .. k |-> View(n)'[i]]
    BY <1>1, ViewDomain, Zenon
  <2> QED
    BY <1>6, <2>1, Zenon
<1>8. Exists(n)'
  BY <1>1 DEF Exists
<1>9. AContent'[n] = Abstract!Zeros(k)
  BY <1>7, <1>8, MappedValues DEF Abstract!Zeros
<1>10. ~(AContent[n] # Absent) /\ APosition'[n] = APosition[n] /\ AResult' = AResult
  BY <1>1, MappedAtRest, MappedValues DEF AResult
<1>11. AContent' = [AContent EXCEPT ![n] = Abstract!Zeros(k)] /\ APosition' = APosition
  BY <1>1, <1>9, <1>10, CommandFrame
<1> QED
  BY <1>10, <1>11, Zenon DEF Abstract!Create, Abstract!Exists, AContent, APosition, AResult

\* A write that finds no sectors changes no byte of a file.
LEMMA WriteFailsRefines ==
  ASSUME Core, Core', NEW n \in Name, NEW text \in Text, write_fails(n, text)
  PROVE  Abstract!WriteFails(n)
<1>1. Ready' /\ pos'[n] = get_file(n) - 2 /\ out' = out /\ get_file(n) >= 0
  BY DEF write_fails, Ready, Core, Types
<1>2. /\ AContent[n] # Absent /\ AContent' = AContent /\ AResult = out /\ Ready
      /\ APosition' = [APosition EXCEPT ![n] = APosition'[n]]
  BY QuietCommand
<1>3. /\ APosition'[n] = Abstract!Opened(n) - 2 /\ AResult' = AResult
      /\ Abstract!Opened(n) >= 0
  BY <1>1, <1>2, MappedValues, OpenedIsGetFile, GetFile DEF AResult
<1> QED
  BY <1>2, <1>3, Zenon DEF Abstract!WriteFails, Abstract!Exists, AContent, APosition, AResult

\* The start of a write is the whole write of ByteFile.
LEMMA WriteRefines ==
  ASSUME Core, Core', NEW n \in Name, NEW text \in Text, write(n, text)
  PROVE  Abstract!Write(n, text)
<1> DEFINE p == get_file(n)
           d == Abstract!Terminated(text)
<1>1. /\ Ready /\ Exists(n) /\ text \in Seq(Byte) /\ Len(text) \in Nat /\ p \in Nat
      /\ io' # NoIO /\ io'.op = "write" /\ io'.name = n
      /\ io'.size = Len(text) + 2 /\ io'.done = 0
  BY WriteEffect
<1>2. Command(n) /\ pos'[n] = p /\ out' = out
  BY DEF Command, write, Core, Types
<1>3. d = write_buffer(text) /\ Len(d) = Len(text) + 2
  BY <1>1, WriteBuffer DEF Abstract!Terminated, write_buffer
<1>4. /\ length'[n] = IF p + (Len(text) + 2) > length[n] THEN p + (Len(text) + 2)
                      ELSE length[n]
      /\ \A i \in 1 .. length'[n] :
           View(n)'[i] = IF i > p /\ i <= p + (Len(text) + 2) THEN write_buffer(text)[i - p]
                         ELSE IF i <= length[n] THEN View(n)[i] ELSE NUL
  BY WriteView
<1>5. Len(View(n)) = length[n] /\ length[n] \in Nat
  BY <1>1, ViewSeq, LengthType DEF Core
<1>6. /\ Abstract!Opened(n) = p /\ AContent[n] = View(n) /\ AContent[n] # Absent
      /\ APosition[n] = pos[n] /\ AResult = out
  BY <1>1, OpenedIsGetFile, MappedAtRest
<1> HIDE DEF p, d
<1>7. View(n)' = Abstract!Overlay(View(n), p, d)
  <2>1. View(n)' = [i \in 1 .. length'[n] |-> View(n)'[i]]
    BY ViewDomain
  <2>2. length'[n] = IF p + Len(d) > Len(View(n)) THEN p + Len(d) ELSE Len(View(n))
    BY <1>3, <1>4, <1>5
  <2>3. \A i \in 1 .. length'[n] :
          View(n)'[i] = IF i > p /\ i <= p + Len(d) THEN d[i - p]
                        ELSE IF i <= Len(View(n)) THEN View(n)[i] ELSE NUL
    BY <1>3, <1>4, <1>5
  <2>4. View(n)' = [i \in 1 .. length'[n] |->
                      IF i > p /\ i <= p + Len(d) THEN d[i - p]
                      ELSE IF i <= Len(View(n)) THEN View(n)[i] ELSE NUL]
    BY <2>1, <2>3, Zenon
  <2> QED
    BY <2>2, <2>4, Zenon DEF Abstract!Overlay
<1>8. Exists(n)'
  <2>1. length'[n] \in Nat
    BY <1>1, <1>4, <1>5
  <2> QED
    BY <2>1 DEF Exists
<1>9. AContent'[n] = Abstract!Overlay(View(n), p, d)
  BY <1>7, <1>8, MappedValues
<1>10. APosition'[n] = p + Len(text)
  <2>1. APosition'[n] = pos'[n] + io'.done + io'.size - 2
    BY <1>1, MappedValues DEF Ready
  <2> QED
    BY <1>1, <1>2, <2>1
<1>11. AResult' = AResult
  BY <1>1, <1>2, <1>6 DEF AResult
<1>12. /\ AContent' = [AContent EXCEPT ![n] = AContent'[n]]
       /\ APosition' = [APosition EXCEPT ![n] = APosition'[n]]
  BY <1>2, CommandFrame
<1>13. /\ AContent' = [AContent EXCEPT ![n] =
                         Abstract!Overlay(AContent[n], Abstract!Opened(n), Abstract!Terminated(text))]
       /\ APosition' = [APosition EXCEPT ![n] = Abstract!Opened(n) + Len(text)]
  <2>1. AContent' = [AContent EXCEPT ![n] = Abstract!Overlay(AContent[n], Abstract!Opened(n), d)]
    BY <1>6, <1>9, <1>12, Zenon
  <2> QED
    BY <1>6, <1>10, <1>12, <2>1, Zenon DEF d
<1>14. Abstract!Opened(n) >= 0
  BY <1>1, <1>6
<1> QED
  BY <1>6, <1>11, <1>13, <1>14, Zenon
     DEF Abstract!Write, Abstract!Exists, AContent, APosition, AResult

\* What a read will return is known when it begins.
LEMMA ReadStartResult ==
  ASSUME Core, Core', NEW n \in Name,
         (\E k \in Sizes : read(n, k)) \/ cat(n) \/ copy_out(n)
  PROVE  LET o == io'.offset
             l == LeftToRead' IN
         /\ o \in Nat /\ l \in Nat /\ io'.size \in Nat /\ length[n] \in Nat
         /\ l = 0 \/ o + l <= length[n]
         /\ l = IF length[n] - o < 0 THEN 0
                ELSE IF io'.size < length[n] - o THEN io'.size ELSE length[n] - o
         /\ View(n) \in Seq(Byte) /\ Len(View(n)) = length[n]
         /\ AResult' = SubSeq(View(n), o + 1, o + l) /\ Len(AResult') = l
<1> DEFINE o == io'.offset
           l == LeftToRead'
<1>1. /\ Ready /\ Exists(n) /\ length[n] \in Nat
      /\ io' \in LoopState /\ io' # NoIO /\ io'.op \in Reading /\ io'.name = n
      /\ buffer' = <<>> /\ UNCHANGED <<blocks, length>>
  BY ReadStart
<1>2. o \in Nat /\ io'.size \in Nat
  BY <1>1 DEF LoopState
<1>3. l = IF length[n] - o < 0 THEN 0
          ELSE IF io'.size < length[n] - o THEN io'.size ELSE length[n] - o
  BY <1>1 DEF LeftToRead, inode_left, MinOf
<1>4. View(n) \in Seq(Byte) /\ Len(View(n)) = length[n] /\ Bytes(n) = View(n)
  BY <1>1, ViewSeq, BytesAreView DEF Writes, Ready, NoIO
<1>5. Bytes(io.name)' = Bytes(n)
  BY <1>1, Zenon DEF Bytes
<1>6. AResult' = <<>> \o SubSeq(View(n), o + 1, o + l)
  BY <1>1, <1>4, <1>5 DEF AResult, Ready, Reading
<1> HIDE DEF o, l
<1>7. l \in Nat /\ (l = 0 \/ o + l <= length[n])
  BY <1>1, <1>2, <1>3
<1> DEFINE none == <<>>
           s == SubSeq(View(n), o + 1, o + l)
<1>8. none \in Seq(Byte) /\ Len(none) = 0
  BY EmptySeq
<1>9. s \in Seq(Byte)
  <2>1. \A k \in o + 1 .. o + l : View(n)[k] \in Byte
    BY <1>1, <1>2, <1>4, <1>7, ElementOfSeq
  <2>2. o + 1 \in Int /\ o + l \in Int
    BY <1>2, <1>7
  <2> QED
    BY <2>1, <2>2, SubSeqProperties
<1>10. AResult' = s
  <2> HIDE DEF s
  <2>1. <<>> \o s = s
    BY <1>9, ConcatEmptySeq
  <2> QED
    BY <1>6, <2>1 DEF s
<1>11. Len(AResult') = l
  <2> HIDE DEF none
  <2>1. Len(none \o SubSeq(View(n), o + 1, o + l)) = Len(none) + l
    <3>1. l = 0 \/ o + l <= Len(View(n))
      BY <1>4, <1>7
    <3>2. View(n) \in Seq(Byte)
      BY <1>4
    <3> DEFINE v == View(n)
    <3> HIDE DEF v
    <3>3. v \in Seq(Byte) /\ (l = 0 \/ o + l <= Len(v))
      BY <3>1, <3>2 DEF v
    <3>4. Len(none \o SubSeq(v, o + 1, o + l)) = Len(none) + l
      BY <1>2, <1>7, <1>8, <3>3, ReadAndLeft
    <3> QED
      BY <3>4 DEF v
  <2>2. Len(AResult') = Len(none) + l
    BY <1>6, <2>1, Zenon DEF none
  <2> QED
    BY <1>7, <1>8, <2>2
<1> QED
  BY <1>1, <1>2, <1>3, <1>4, <1>7, <1>10, <1>11 DEF o, l

\* A whole sequence as a part of itself.
LEMMA WholeSeq ==
  ASSUME NEW v \in Seq(Byte)
  PROVE  SubSeq(v, 0 + 1, 0 + Len(v)) = v
<1>1. Len(v) \in Nat
  BY LenProperties
<1>2. \A k \in 1 .. Len(v) : v[k] \in Byte
  BY ElementOfSeq
<1> DEFINE z == Len(v)
           s == SubSeq(v, 1, z)
<1>3. /\ s \in Seq(Byte) /\ Len(s) = IF 1 <= z THEN z - 1 + 1 ELSE 0
      /\ \A k \in 1 .. z - 1 + 1 : s[k] = v[1 + k - 1]
  <2>1. 1 \in Int /\ z \in Int
    BY <1>1
  <2> HIDE DEF z
  <2> QED
    BY <1>2, <2>1, SubSeqProperties DEF z
<1> HIDE DEF s
<1>4. Len(s) = Len(v) /\ \A k \in 1 .. Len(v) : s[k] = v[k]
  BY <1>1, <1>3
<1>5. s = v
  BY <1>3, <1>4, SeqEqual
<1> QED
  BY <1>1, <1>5 DEF s

\* The start of a read, of cat and of copy_out is the whole command of ByteFile.
LEMMA ReadRefines ==
  ASSUME Core, Core', NEW n \in Name
  PROVE  /\ \A k \in Sizes : read(n, k) => Abstract!Read(n, k)
         /\ cat(n) => Abstract!Cat(n)
         /\ copy_out(n) => Abstract!CopyOut(n)
<1>1. pos \in [Name -> Int \cup {Closed}]
  BY DEF Core, Types
<1>2. ASSUME NEW k \in Sizes, read(n, k)
      PROVE  Abstract!Read(n, k)
  <2> DEFINE o == io'.offset
             l == LeftToRead'
             b == View(n)
  <2>1. /\ o \in Nat /\ l \in Nat /\ io'.size \in Nat /\ length[n] \in Nat
        /\ l = 0 \/ o + l <= length[n]
        /\ l = IF length[n] - o < 0 THEN 0
               ELSE IF io'.size < length[n] - o THEN io'.size ELSE length[n] - o
        /\ b \in Seq(Byte) /\ Len(b) = length[n]
        /\ AResult' = SubSeq(b, o + 1, o + l) /\ Len(AResult') = l
    BY <1>2, ReadStartResult
  <2>2. /\ get_file(n) \in Nat /\ io'.op = "read" /\ io'.name = n /\ io'.done = 0
        /\ o = get_file(n) /\ io'.size = k /\ pos'[n] = get_file(n) /\ io' # NoIO
    <3>1. io'.op = "read" /\ io'.size = k /\ pos'[n] = get_file(n)
      BY <1>1, <1>2 DEF read, Begin
    <3> QED
      BY <1>2, <3>1, ReadStart
  <2>3. /\ AContent[n] # Absent /\ AContent' = AContent /\ AContent[n] = b /\ Ready
        /\ APosition' = [APosition EXCEPT ![n] = APosition'[n]]
    BY <1>2, QuietCommand
  <2>4. Abstract!Opened(n) = o /\ Abstract!Opened(n) >= 0
    BY <2>1, <2>2, <2>3, OpenedIsGetFile
  <2>5. APosition'[n] = o + Len(AResult')
    <3>1. APosition'[n] = pos'[n] + io'.done + LeftToRead'
      BY <2>2, MappedValues DEF Ready
    <3>2. APosition'[n] = o + 0 + l
      BY <2>2, <3>1
    <3> HIDE DEF o, l
    <3>3. o + 0 + l = o + l
      BY <2>1
    <3> QED
      BY <2>1, <3>2, <3>3, Zenon
  <2> HIDE DEF o, l, b
  <2>6. AResult' = Abstract!Part(b, o, k)
    <3> DEFINE e == IF o + k < Len(b) THEN o + k ELSE Len(b)
    <3>1. Abstract!Part(b, o, k) = SubSeq(b, o + 1, e)
      BY DEF Abstract!Part
    <3>2. k \in Nat /\ io'.size = k
      BY <2>2
    <3>3. CASE o <= Len(b)
      <4>1. e = o + l
        BY <2>1, <3>2, <3>3
      <4> QED
        BY <2>1, <3>1, <4>1
    <3>4. CASE ~(o <= Len(b))
      <4>1. l = 0 /\ e \in Int /\ ~(o + 1 <= e) /\ o + 1 \in Int
        BY <2>1, <3>2, <3>4
      <4> HIDE DEF e
      <4>2. \A i \in o + 1 .. e : b[i] \in Byte
        BY <4>1
      <4>3. SubSeq(b, o + 1, e) \in Seq(Byte) /\ Len(SubSeq(b, o + 1, e)) = 0
        BY <4>1, <4>2, SubSeqProperties
      <4>4. SubSeq(b, o + 1, e) = <<>>
        BY <4>3, EmptySeq
      <4>5. AResult' \in Seq(Byte) /\ Len(AResult') = 0
        <5>1. o + l \in Int /\ \A i \in o + 1 .. o + l : b[i] \in Byte
          BY <2>1, <4>1
        <5>2. SubSeq(b, o + 1, o + l) \in Seq(Byte)
          BY <4>1, <5>1, SubSeqProperties
        <5> QED
          BY <2>1, <4>1, <5>2
      <4>6. AResult' = <<>>
        BY <4>5, EmptySeq
      <4> QED
        BY <3>1, <4>4, <4>6
    <3> QED
      BY <3>3, <3>4
  <2>7. AResult' = Abstract!Part(AContent[n], Abstract!Opened(n), k)
    BY <2>3, <2>4, <2>6
  <2>8. APosition' = [APosition EXCEPT ![n] = Abstract!Opened(n) + Len(AResult')]
    BY <2>3, <2>4, <2>5
  <2> QED
    BY <2>3, <2>4, <2>7, <2>8, Zenon
       DEF Abstract!Read, Abstract!Exists, AContent, APosition, AResult
<1>3. ASSUME cat(n) \/ copy_out(n)
      PROVE  /\ AResult' = AContent[n] /\ Len(AContent[n]) = length[n] /\ length[n] \in Nat
             /\ AContent[n] # Absent /\ AContent' = AContent /\ LeftToRead' = length[n]
             /\ APosition[n] = pos[n] /\ APosition' = [APosition EXCEPT ![n] = APosition'[n]]
  <2> DEFINE o == io'.offset
             l == LeftToRead'
             b == View(n)
  <2>1. /\ l \in Nat /\ length[n] \in Nat
        /\ l = IF length[n] - o < 0 THEN 0
               ELSE IF io'.size < length[n] - o THEN io'.size ELSE length[n] - o
        /\ b \in Seq(Byte) /\ Len(b) = length[n]
        /\ AResult' = SubSeq(b, o + 1, o + l)
    BY <1>3, ReadStartResult
  <2>2. o = 0 /\ io'.size = length[n]
    BY <1>3 DEF cat, copy_out, Begin
  <2>3. /\ AContent[n] # Absent /\ AContent' = AContent /\ AContent[n] = b
        /\ APosition[n] = pos[n] /\ APosition' = [APosition EXCEPT ![n] = APosition'[n]]
    BY <1>3, QuietCommand
  <2> HIDE DEF o, l, b
  <2>4. l = length[n]
    BY <2>1, <2>2
  <2>5. AResult' = b
    BY <2>1, <2>2, <2>4, WholeSeq
  <2> QED
    BY <2>1, <2>3, <2>4, <2>5 DEF l
<1>4. ASSUME cat(n)
      PROVE  Abstract!Cat(n)
  <2>1. io'.op = "cat" /\ pos' = pos
    BY <1>4 DEF cat, Begin
  <2>2. APosition'[n] = APosition[n] /\ Command(n)
    BY <1>3, <1>4, <2>1, MappedValues DEF Command
  <2>3. APosition' = APosition
    BY <2>2, CommandFrame
  <2> QED
    BY <1>3, <1>4, <2>3, Zenon DEF Abstract!Cat, Abstract!Exists, AContent, APosition, AResult
<1>5. ASSUME copy_out(n)
      PROVE  Abstract!CopyOut(n)
  <2>1. io'.op = "copy_out" /\ io'.name = n /\ io'.done = 0 /\ pos'[n] = 0
    BY <1>1, <1>5 DEF copy_out, Begin
  <2>2. APosition'[n] = pos'[n] + io'.done + LeftToRead'
    BY <2>1, MappedValues DEF Ready, NoIO
  <2>3. APosition'[n] = Len(AContent[n])
    BY <1>3, <1>5, <2>1, <2>2
  <2>4. APosition' = [APosition EXCEPT ![n] = Len(AContent[n])]
    BY <1>3, <1>5, <2>3, Zenon
  <2> QED
    BY <1>3, <1>5, <2>4, Zenon DEF Abstract!CopyOut, Abstract!Exists, AContent, APosition, AResult
<1> QED
  BY <1>2, <1>4, <1>5

\* Every step of a command or of a loop is a step of ByteFile, or leaves it as
\* it is.
LEMMA StepRefines ==
  ASSUME Core, Core', [Next]_vars
  PROVE  [Abstract!Next]_(Abstract!vars)
<1>1. CASE Loop
  BY <1>1, LoopRefines DEF Abstract!vars, AContent, APosition, AResult
<1>2. ASSUME NEW n \in Name, Command(n)
      PROVE  Abstract!Next
  <2>1. ASSUME NEW k \in Sizes, create(n, k) \/ seek(n, k) \/ read(n, k)
        PROVE  Abstract!Next
    <3>1. Abstract!Create(n, k) \/ Abstract!Seek(n, k) \/ Abstract!Read(n, k)
      BY <2>1, CreateRefines, TableRefines, ReadRefines
    <3> QED
      BY <3>1, Zenon DEF Abstract!Next
  <2>2. ASSUME NEW text \in Text, write(n, text) \/ write_fails(n, text)
        PROVE  Abstract!Next
    <3>1. Abstract!Write(n, text) \/ Abstract!WriteFails(n)
      BY <2>2, WriteRefines, WriteFailsRefines
    <3> QED
      BY <3>1, Zenon DEF Abstract!Next
  <2>3. CASE size(n) \/ cat(n) \/ copy_out(n) \/ rm(n)
    <3>1. Abstract!Size(n) \/ Abstract!Cat(n) \/ Abstract!CopyOut(n) \/ Abstract!Remove(n)
      BY <2>3, TableRefines, ReadRefines
    <3> QED
      BY <3>1, Zenon DEF Abstract!Next
  <2> QED
    BY <1>2, <2>1, <2>2, <2>3 DEF Command
<1>3. CASE UNCHANGED vars
  BY <1>3 DEF vars, Abstract!vars, View, Bytes, Exists, Ready, LeftToRead, inode_left
<1> QED
  BY <1>1, <1>2, <1>3 DEF Next

\* The loops over sectors, with their bounce buffer and their reservation of
\* blocks, implement files that are sequences of bytes (inode_read_at,
\* inode_write_at, file_read, file_write, fsutil_*).
THEOREM Refinement == Spec => ImplementsByteFile
<1>1. Init => Abstract!Init
  BY DEF Init, Abstract!Init, Exists, Ready
<1>2. IInv /\ IInv' /\ [Next]_vars => [Abstract!Next]_(Abstract!vars)
  BY StepRefines DEF IInv
<1> QED
  BY <1>1, <1>2, Invariant, PTL DEF Spec, ImplementsByteFile, Abstract!Spec
=============================================================================
