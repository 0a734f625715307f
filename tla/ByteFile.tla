------------------------------ MODULE ByteFile ------------------------------
(***************************************************************************)
(* What the file commands of the a3 shell promise: a file is a sequence of *)
(* bytes, and an open file has a position.  write puts a text and two      *)
(* terminators at the position, filling a gap with zeros, and leaves the   *)
(* position after the text, so that the next text follows it; a write that *)
(* finds the disk full changes no byte and moves the position two back;    *)
(* read returns the bytes from the position on.  Only create, write and rm *)
(* change a file, and each only the file it names.                         *)
(***************************************************************************)
EXTENDS Integers, Sequences

CONSTANTS
  Name,      \* file names
  Byte,      \* what a byte can hold
  NUL,       \* the zero byte
  Text,      \* texts given to write
  Sizes,     \* sizes and positions given to create, read and seek
  Absent,    \* no such file
  Closed     \* not in the file table

VARIABLES
  content,   \* the bytes of each file
  position,  \* the position of each open file
  result     \* the bytes the last read returned

vars == <<content, position, result>>

Zeros(k) == [i \in 1 .. k |-> NUL]
Terminated(text) == text \o <<NUL, NUL>>
Exists(n) == content[n] # Absent
\* A file that a command has to open starts at 0.
Opened(n) == IF position[n] = Closed THEN 0 ELSE position[n]

\* data written over bytes from offset p on.
Overlay(bytes, p, data) ==
  [i \in 1 .. (IF p + Len(data) > Len(bytes) THEN p + Len(data) ELSE Len(bytes)) |->
     IF i > p /\ i <= p + Len(data) THEN data[i - p]
     ELSE IF i <= Len(bytes) THEN bytes[i] ELSE NUL]

\* Up to size bytes from offset p on.
Part(bytes, p, size) ==
  SubSeq(bytes, p + 1, IF p + size < Len(bytes) THEN p + size ELSE Len(bytes))

Init ==
  /\ content = [n \in Name |-> Absent]
  /\ position = [n \in Name |-> Closed]
  /\ result = <<>>

Create(n, size) ==
  /\ ~Exists(n)
  /\ content' = [content EXCEPT ![n] = Zeros(size)]
  /\ UNCHANGED <<position, result>>

Write(n, text) ==
  /\ Exists(n) /\ Opened(n) >= 0
  /\ content' = [content EXCEPT ![n] = Overlay(@, Opened(n), Terminated(text))]
  /\ position' = [position EXCEPT ![n] = Opened(n) + Len(text)]
  /\ UNCHANGED result

\* On a full disk nothing is written, yet the position steps back by two.
WriteFails(n) ==
  /\ Exists(n) /\ Opened(n) >= 0
  /\ position' = [position EXCEPT ![n] = Opened(n) - 2]
  /\ UNCHANGED <<content, result>>

Read(n, size) ==
  /\ Exists(n) /\ Opened(n) >= 0
  /\ result' = Part(content[n], Opened(n), size)
  /\ position' = [position EXCEPT ![n] = Opened(n) + Len(result')]
  /\ UNCHANGED content

\* cat shows the whole file and moves nothing.
Cat(n) ==
  /\ Exists(n)
  /\ result' = content[n]
  /\ UNCHANGED <<content, position>>

\* copy_out reads the whole file and leaves the position at its end.
CopyOut(n) ==
  /\ Exists(n)
  /\ result' = content[n]
  /\ position' = [position EXCEPT ![n] = Len(content[n])]
  /\ UNCHANGED content

Seek(n, p) ==
  /\ Exists(n)
  /\ position' = [position EXCEPT ![n] = p]
  /\ UNCHANGED <<content, result>>

\* size opens the file.
Size(n) ==
  /\ Exists(n)
  /\ position' = [position EXCEPT ![n] = Opened(n)]
  /\ UNCHANGED <<content, result>>

Remove(n) ==
  /\ content' = [content EXCEPT ![n] = Absent]
  /\ position' = [position EXCEPT ![n] = Closed]
  /\ UNCHANGED result

Next ==
  \E n \in Name :
    \/ \E size \in Sizes : Create(n, size) \/ Read(n, size) \/ Seek(n, size)
    \/ \E text \in Text : Write(n, text)
    \/ WriteFails(n) \/ Cat(n) \/ CopyOut(n) \/ Size(n) \/ Remove(n)

Spec == Init /\ [][Next]_vars
=============================================================================
