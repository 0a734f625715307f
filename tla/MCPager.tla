------------------------------ MODULE MCPager ------------------------------
(* Scripts of one to ten lines; "gone" names no file.                       *)
EXTENDS Pager

Cmd(r) == [var |-> None, value |-> None, ret |-> r, blank |-> FALSE]
SetLine(v, x) == [var |-> v, value |-> x, ret |-> 0, blank |-> FALSE]

CONSTANTS x, one, two

\* n lines; the last one sets x.
Lines(n) == [k \in 1 .. n |-> IF k = n THEN SetLine(x, one) ELSE Cmd(0)]

MCScript == {"s1", "s2", "s4", "s7", "s10", "gone"}
MCProgram ==
  [s \in MCScript \ {"gone"} |->
     CASE s = "s1" -> Lines(1)
       [] s = "s2" -> Lines(2)
       [] s = "s4" -> Lines(4)
       [] s = "s7" -> Lines(7)
       [] s = "s10" -> Lines(10)]

\* Scripts that break the kernel's expectations: every command of r7 and one
\* of r4 has status 1, b4 has a blank line, n1 and n4 end with a newline.
IrregularScript == {"r4", "r7", "b4", "n1", "n4"}
IrregularProgram ==
  [s \in IrregularScript |->
     CASE s = "r4" -> [Lines(4) EXCEPT ![2] = Cmd(1)]
       [] s = "r7" -> [k \in 1 .. 7 |-> Cmd(1)]
       [] s = "b4" -> [Lines(4) EXCEPT ![2].ret = BAD_COMMAND, ![2].blank = TRUE]
       [] s = "n1" -> Lines(1)
       [] s = "n4" -> Lines(4)]
=============================================================================
