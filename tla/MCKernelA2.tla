----------------------------- MODULE MCKernelA2 -----------------------------
(* Scripts of one to 22 lines, some of which start others.  "gone" names   *)
(* no file.                                                                  *)
EXTENDS KernelA2

CONSTANTS
  one, two,    \* values given to set
  home, away   \* directories

Cmd(op, args) == [op |-> op, args |-> args]
Other(n) == [i \in 1 .. n |-> Cmd("other", <<>>)]

\* s4, s7 and s22 need two, three and eight pages; e3 ends with a newline after a full page;
\* nrun and nexec start other scripts; cd5 leaves the directory and comes back; q1 quits.
MCDirectory == {home, away}
MCScript == {"s4", "s7", "s22", "e3", "nrun", "nexec", "cd5", "q1"}
MCProgram ==
  [s \in MCScript |->
     CASE s = "s4" -> [Other(4) EXCEPT ![2] = Cmd("set", <<"x", one>>)]
       [] s = "s7" -> [Other(7) EXCEPT ![4] = Cmd("resetmem", <<>>)]
       [] s = "s22" -> Other(22)
       [] s = "e3" -> Other(3)
       [] s = "nrun" -> [Other(5) EXCEPT ![3] = Cmd("run", <<"s4">>)]
       [] s = "nexec" -> [Other(2) EXCEPT ![1] = Cmd("exec", <<"s7", "s4">>)]
       [] s = "cd5" -> [Other(5) EXCEPT ![1] = Cmd("my_cd", <<away>>),
                                        ![5] = Cmd("my_cd", <<home>>)]
       [] s = "q1" -> <<Cmd("quit", <<>>)>>]
MCNewline == {"e3", "nrun"}

MCCommand ==
  {Cmd("run", <<"s7">>), Cmd("run", <<"nrun">>), Cmd("run", <<"gone">>),
   Cmd("run", <<"s22">>), Cmd("exec", <<"s7", "s4">>), Cmd("exec", <<"s4", "nrun", "s7">>),
   Cmd("exec", <<"e3", "s4">>), Cmd("exec", <<"nexec">>),
   Cmd("exec", <<"s7", "cd5">>), Cmd("exec", <<"cd5", "s22">>), Cmd("my_cd", <<away>>),
   Cmd("my_cd", <<home>>), Cmd("exec", <<"s4", "gone">>), Cmd("exec", <<"s4", "q1">>),
   Cmd("set", <<"x", two>>), Cmd("set", <<"y", two>>),
   Cmd("set", <<"z", two>>), Cmd("resetmem", <<>>)}

\* Two scripts of three pages in four frames.
EvictCommand == {Cmd("exec", <<"s7", "s22">>)}
=============================================================================
