------------------------------- MODULE FileIO -------------------------------
(***************************************************************************)
(* Reading and writing files in the a3 shell: the commands create, write,  *)
(* read, seek, size, cat, copy_out and rm (a3/interpreter.c,               *)
(* a3/fs/fsutil.c, a3/fs/fsutil2.c), the open file and its position        *)
(* (a3/fs/file.c), and the loops of inode_read_at and inode_write_at,      *)
(* which go through a file sector by sector, a sector that is not covered  *)
(* entirely by way of a bounce buffer (a3/fs/inode.c).                     *)
(*                                                                         *)
(* Which sectors a file has is the subject of module FileSys, which shows  *)
(* that no two files share one: here a file is its blocks and its length,  *)
(* and an allocation may fail.  An action is the start of a command, one   *)
(* iteration of a loop, or its end; nothing comes between them.  Each      *)
(* Faulty... operator is a plausible fault of the definition after it.     *)
(***************************************************************************)
EXTENDS Integers, Sequences, FiniteSets

CONSTANTS
  Name, Byte, NUL, Text, Sizes, Absent, Closed,   \* as in ByteFile
  BLOCK_SECTOR_SIZE,  \* bytes of a sector
  MaxLength           \* bound: length of a file, in bytes

ASSUME SizeAssumption ==
  /\ BLOCK_SECTOR_SIZE \in Nat \ {0} /\ MaxLength \in Nat /\ Sizes \subseteq Nat
  /\ NUL \in Byte /\ Text \subseteq Seq(Byte)
\* Absent is no length and no contents, Closed is no position.
ASSUME AbsentAssumption ==
  Absent \notin Nat /\ Absent \notin Seq(Byte) /\ Closed \notin Int

VARIABLES
  blocks,    \* the data blocks of each file, in order
  length,    \* inode->data.length, Absent if there is no such file
  pos,       \* the file table: the position of an open file, else Closed
  io,        \* the loop under way: its command, file, offset and bytes left
  buffer,    \* the bytes it has still to write, or those it has read
  out,       \* what the last command read
  typed      \* history: what was typed since pos was last set (see StartsAt)

vars == <<blocks, length, pos, io, buffer, out, typed>>

MinOf(a, b) == IF a < b THEN a ELSE b
Zeros(k) == [i \in 1 .. k |-> NUL]

\* Fault: a sector keeps what a removed file left in it.
FaultyZeroBlock == [j \in 0 .. BLOCK_SECTOR_SIZE - 1 |-> CHOOSE b \in Byte : b # NUL]
ZeroBlock == [j \in 0 .. BLOCK_SECTOR_SIZE - 1 |-> NUL]

\* Fault: the last, partial sector is not counted.
FaultyBytesToSectors(size) == size \div BLOCK_SECTOR_SIZE
bytes_to_sectors(size) == (size + BLOCK_SECTOR_SIZE - 1) \div BLOCK_SECTOR_SIZE
ZeroBlocks(k) == [i \in 1 .. k |-> ZeroBlock]

NoIO == [op |-> "none"]
Untyped == [from |-> 0, text |-> <<>>, end |-> 0]
Exists(n) == length[n] # Absent
Ready == io = NoIO

Init ==
  /\ blocks = [n \in Name |-> <<>>] /\ length = [n \in Name |-> Absent]
  /\ pos = [n \in Name |-> Closed]
  /\ io = NoIO /\ buffer = <<>> /\ out = <<>>
  /\ typed = [n \in Name |-> Untyped]

-----------------------------------------------------------------------------
(* Commands that need no loop.                                              *)

\* The name is in the table, or the file is opened at 0 and added to it.
get_file(n) == IF pos[n] = Closed THEN 0 ELSE pos[n]
\* text is what was typed from the offset from on, less what failed writes took
\* back of it; end is where the last write ended.
StartsAt(n, p) == [typed EXCEPT ![n] = [from |-> p, text |-> <<>>, end |-> p]]

create(n, size) ==
  /\ Ready /\ ~Exists(n) /\ size <= MaxLength
  /\ length' = [length EXCEPT ![n] = size]
  /\ blocks' = [blocks EXCEPT ![n] = ZeroBlocks(bytes_to_sectors(size))]
  /\ UNCHANGED <<pos, io, buffer, out, typed>>

seek(n, p) ==
  /\ Ready /\ Exists(n)
  /\ pos' = [pos EXCEPT ![n] = p] /\ typed' = StartsAt(n, p)
  /\ UNCHANGED <<blocks, length, io, buffer, out>>

size(n) ==
  /\ Ready /\ Exists(n)
  /\ pos' = [pos EXCEPT ![n] = get_file(n)]
  /\ UNCHANGED <<blocks, length, io, buffer, out, typed>>

\* The file leaves the table before its inode is removed.
rm(n) ==
  /\ Ready
  /\ pos' = [pos EXCEPT ![n] = Closed]
  /\ length' = [length EXCEPT ![n] = Absent] /\ blocks' = [blocks EXCEPT ![n] = <<>>]
  /\ typed' = [typed EXCEPT ![n] = Untyped]
  /\ UNCHANGED <<io, buffer, out>>

-----------------------------------------------------------------------------
(* inode_write_at.                                                          *)

\* The words joined by blanks; the last blank and one more byte are zero.
write_buffer(text) == text \o <<NUL, NUL>>

Begin(op, n, offset, count, data) ==
  /\ io' = [op |-> op, name |-> n, offset |-> offset, size |-> count, done |-> 0]
  /\ buffer' = data

\* A write that ends after the end of the file reserves blocks, zeroed, up to
\* its end, and then sets the length.
Extend(n, end) ==
  IF end <= length[n] THEN UNCHANGED <<blocks, length>>
  ELSE /\ length' = [length EXCEPT ![n] = end]
       /\ blocks' = [blocks EXCEPT
                       ![n] = @ \o ZeroBlocks(bytes_to_sectors(end) - Len(@))]

\* A negative position, which only a failed write can leave, makes the next read
\* or write undefined: it is not followed.
write(n, text) ==
  /\ Ready /\ Exists(n) /\ get_file(n) >= 0
  /\ get_file(n) + Len(text) + 2 <= MaxLength
  /\ Extend(n, get_file(n) + Len(write_buffer(text)))
  /\ Begin("write", n, get_file(n), Len(write_buffer(text)), write_buffer(text))
  /\ pos' = [pos EXCEPT ![n] = get_file(n)]
  /\ typed' = [typed EXCEPT ![n].text = @ \o text, ![n].end = get_file(n) + Len(text)]
  /\ UNCHANGED out

\* The reservation runs out of sectors: the blocks it got stay with the inode,
\* 0 bytes are written, and the position moves by 0 - 2: the next write goes
\* over the last two bytes typed.
write_fails(n, text) ==
  /\ Ready /\ Exists(n) /\ get_file(n) >= 0
  /\ get_file(n) + Len(text) + 2 <= MaxLength
  /\ \E k \in Len(blocks[n]) .. bytes_to_sectors(get_file(n) + Len(text) + 2) - 1 :
       blocks' = [blocks EXCEPT ![n] = @ \o ZeroBlocks(k - Len(@))]
  /\ pos' = [pos EXCEPT ![n] = get_file(n) - 2]
  /\ typed' = [typed EXCEPT ![n].from = MinOf(@, get_file(n) - 2),
                            ![n].text = SubSeq(@, 1, Len(@) - 2)]
  /\ UNCHANGED <<length, io, buffer, out>>

sector_ofs == io.offset % BLOCK_SECTOR_SIZE
sector_left == BLOCK_SECTOR_SIZE - sector_ofs
sector_idx == io.offset \div BLOCK_SECTOR_SIZE + 1
inode_left == length[io.name] - io.offset

chunk_size == MinOf(io.size, MinOf(inode_left, sector_left))

\* Fault: the sector is not read when the chunk starts it.
FaultyBounce(block) == IF sector_ofs > 0 THEN block ELSE ZeroBlock

\* The sector as it was if it has data before or after the chunk, else zeros.
Bounce(block) ==
  IF sector_ofs > 0 \/ chunk_size < sector_left THEN block ELSE ZeroBlock

\* A whole sector is written from the caller's buffer, a part of one by way of
\* the bounce buffer.
WriteSector(block) ==
  IF sector_ofs = 0 /\ chunk_size = BLOCK_SECTOR_SIZE
  THEN [j \in 0 .. BLOCK_SECTOR_SIZE - 1 |-> buffer[j + 1]]
  ELSE [j \in 0 .. BLOCK_SECTOR_SIZE - 1 |->
          IF j >= sector_ofs /\ j < sector_ofs + chunk_size
          THEN buffer[j - sector_ofs + 1] ELSE Bounce(block)[j]]

\* Fault: the only other exit tests a sector number, which is unsigned.
FaultyLoopOver == io.size = 0
\* At the end of the file nothing is left; byte_to_sector's -1 is unsigned, so
\* that the test of a negative sector never ends the loop.
LoopOver == io.size = 0 \/ chunk_size <= 0

Advance ==
  io' = [io EXCEPT !.size = @ - chunk_size, !.offset = @ + chunk_size,
                   !.done = @ + chunk_size]

WriteChunk ==
  /\ io.op = "write" /\ ~LoopOver
  /\ blocks' = [blocks EXCEPT ![io.name][sector_idx] = WriteSector(@)]
  /\ buffer' = SubSeq(buffer, chunk_size + 1, Len(buffer))
  /\ Advance
  /\ UNCHANGED <<length, pos, out, typed>>

\* Fault: the position moves past the terminators.
FaultyAdvanceBy(written) == written
\* Back over the two terminators.
AdvanceBy(written) == written - 2

file_write ==
  /\ io.op = "write" /\ LoopOver
  /\ pos' = [pos EXCEPT ![io.name] = @ + AdvanceBy(io.done)]
  /\ io' = NoIO /\ buffer' = <<>>
  /\ UNCHANGED <<blocks, length, out, typed>>

-----------------------------------------------------------------------------
(* inode_read_at.                                                           *)

Reading == {"read", "cat", "copy_out"}

read(n, count) ==
  /\ Ready /\ Exists(n) /\ get_file(n) >= 0
  /\ Begin("read", n, get_file(n), count, <<>>)
  /\ pos' = [pos EXCEPT ![n] = get_file(n)]
  /\ UNCHANGED <<blocks, length, out, typed>>

\* The whole file, from 0; the position comes back at the end.
cat(n) ==
  /\ Ready /\ Exists(n)
  /\ Begin("cat", n, 0, length[n], <<>>)
  /\ UNCHANGED <<blocks, length, pos, out, typed>>

copy_out(n) ==
  /\ Ready /\ Exists(n)
  /\ Begin("copy_out", n, 0, length[n], <<>>)
  /\ pos' = [pos EXCEPT ![n] = 0]
  /\ UNCHANGED <<blocks, length, out, typed>>

\* A sector from sector_ofs on, or all of it.
ReadSector(block) == [j \in 1 .. chunk_size |-> block[sector_ofs + j - 1]]

ReadChunk ==
  /\ io.op \in Reading /\ ~LoopOver
  /\ buffer' = buffer \o ReadSector(blocks[io.name][sector_idx])
  /\ Advance
  /\ UNCHANGED <<blocks, length, pos, out, typed>>

\* file_read moves the position by what was read; cat restores it.
file_read ==
  /\ io.op \in Reading /\ LoopOver
  /\ out' = buffer
  /\ IF io.op = "cat" THEN UNCHANGED <<pos, typed>>
     ELSE /\ pos' = [pos EXCEPT ![io.name] = @ + io.done]
          /\ typed' = StartsAt(io.name, pos[io.name] + io.done)
  /\ io' = NoIO /\ buffer' = <<>>
  /\ UNCHANGED <<blocks, length>>

Command(n) ==
  \/ \E k \in Sizes : create(n, k) \/ seek(n, k) \/ read(n, k)
  \/ \E text \in Text : write(n, text) \/ write_fails(n, text)
  \/ size(n) \/ cat(n) \/ copy_out(n) \/ rm(n)

Loop == WriteChunk \/ file_write \/ ReadChunk \/ file_read

Next == Loop \/ \E n \in Name : Command(n)

\* A command that was started is not interrupted.
Spec == Init /\ [][Next]_vars /\ WF_vars(Loop)

-----------------------------------------------------------------------------
(* defragment reads every file into memory, removes them all, and creates   *)
(* and writes them again.  It reads through the file table, so from the     *)
(* position of a file that is open; the rest of the buffer is what malloc   *)
(* returned.  The inodes it closes too early (module FileSys) are taken to  *)
(* be still readable.  With an empty file it uses an uninitialized name:    *)
(* this is not followed.                                                     *)

Bytes(n) == [i \in 1 .. length[n] |->
               blocks[n][(i - 1) \div BLOCK_SECTOR_SIZE + 1][(i - 1) % BLOCK_SECTOR_SIZE]]
BlocksOf(bytes) ==
  [k \in 1 .. bytes_to_sectors(Len(bytes)) |-> [j \in 0 .. BLOCK_SECTOR_SIZE - 1 |->
     LET i == (k - 1) * BLOCK_SECTOR_SIZE + j + 1 IN
     IF i < Len(bytes) THEN bytes[i] ELSE NUL]]

\* What fsutil_read leaves in a buffer that malloc filled with garbage.
ReadBuffer(n, garbage) ==
  [i \in 1 .. length[n] |-> IF get_file(n) + i <= length[n]
                           THEN Bytes(n)[get_file(n) + i] ELSE garbage]

defragment ==
  /\ Ready
  /\ \A n \in Name : Exists(n) => length[n] > 0 /\ get_file(n) >= 0
  /\ \E garbage \in Byte :
       blocks' = [n \in Name |->
                    IF Exists(n) THEN BlocksOf(ReadBuffer(n, garbage)) ELSE <<>>]
  /\ pos' = [n \in Name |-> IF Exists(n) THEN length[n] - 2 ELSE Closed]
  /\ typed' = [n \in Name |-> IF Exists(n) THEN [from |-> length[n] - 2, text |-> <<>>,
                                                 end |-> length[n] - 2]
                              ELSE Untyped]
  /\ UNCHANGED <<length, io, buffer, out>>

DefragmentSpec == Init /\ [][Next \/ defragment]_vars /\ WF_vars(Loop)

-----------------------------------------------------------------------------
(* Properties.                                                              *)

\* A file has blocks for its whole length, and what the blocks, the table and
\* the loop hold is of the right kind.
TypeOK ==
  /\ \A n \in Name :
       /\ length[n] \in 0 .. MaxLength \cup {Absent}
       /\ \A k \in 1 .. Len(blocks[n]) :
            blocks[n][k] \in [0 .. BLOCK_SECTOR_SIZE - 1 -> Byte]
       /\ Exists(n) => Len(blocks[n]) * BLOCK_SECTOR_SIZE >= length[n]
       /\ pos[n] \in Int \cup {Closed} /\ (pos[n] # Closed => Exists(n))
  /\ io # NoIO => io.op \in {"write"} \cup Reading /\ io.size >= 0
  /\ buffer \in Seq(Byte) /\ out \in Seq(Byte)

\* The bytes of a file with what a write under way has still to write.
View(n) ==
  [i \in 1 .. length[n] |->
     IF io.op = "write" /\ io.name = n /\ i > io.offset /\ i <= io.offset + io.size
     THEN buffer[i - io.offset] ELSE Bytes(n)[i]]

\* How much of the file the loop under way has still to read.
LeftToRead == IF inode_left < 0 THEN 0 ELSE MinOf(io.size, inode_left)

Abstract == INSTANCE ByteFile WITH
  content  <- [n \in Name |-> IF Exists(n) THEN View(n) ELSE Absent],
  position <- [n \in Name |->
                 IF Ready \/ io.name # n \/ io.op = "cat" THEN pos[n]
                 ELSE IF io.op = "write" THEN pos[n] + io.done + io.size - 2
                 ELSE pos[n] + io.done + LeftToRead],
  result   <- IF Ready \/ io.op = "write" THEN out
              ELSE buffer \o SubSeq(Bytes(io.name), io.offset + 1, io.offset + LeftToRead)

\* The sector loops implement files that are sequences of bytes: a write changes
\* exactly the bytes from the position on, keeps what stands before and after
\* them in a sector that it covers only in part, and fills a gap with zeros; a
\* read returns exactly the bytes from the position to the end of the request or
\* of the file; each moves the position as the next command expects
\* (inode_read_at, inode_write_at, file_read, file_write, fsutil_*).
ImplementsByteFile == Abstract!Spec

\* The texts of successive writes follow each other without a gap and read back
\* as one string, ended by two zero bytes after a write; a write that fails takes
\* back the last two bytes typed, and no more (file_write, file.c:136;
\* interpreter.c:220).
TextsFollow ==
  Ready => \A n \in Name :
    LET t == typed[n] IN
    (pos[n] # Closed /\ t.text # <<>>) =>
      /\ pos[n] = t.from + Len(t.text)
      /\ SubSeq(Bytes(n), t.from + 1, pos[n]) = t.text
      /\ t.end = pos[n] => SubSeq(Bytes(n), pos[n] + 1, pos[n] + 2) = <<NUL, NUL>>

\* Nothing is hidden after the end of a file, in its last sector or in blocks a
\* failed write left behind: a file that grows later, or that recover 2 looks
\* into, shows only zeros there (inode_reserve, inode_write_at).
ZeroPastEnd ==
  \A n \in Name : Exists(n) =>
    \A k \in 1 .. Len(blocks[n]), j \in 0 .. BLOCK_SECTOR_SIZE - 1 :
      (k - 1) * BLOCK_SECTOR_SIZE + j >= length[n] => blocks[n][k][j] = NUL

\* The loops end: every chunk moves the offset (inode_read_at, inode_write_at).
CommandsEnd == (io # NoIO) ~> (io = NoIO)

\* fsutil2.c:222: "Reduce nbr of fragmented files to 0 without data loss".
DefragmentKeepsData ==
  [][defragment => \A n \in Name : Exists(n) => Bytes(n)' = Bytes(n)]_vars
=============================================================================
