--------------------------- MODULE KernelA2Proofs ---------------------------
(***************************************************************************)
(* The a2 shell keeps its processes and its pages in order: proofs, for    *)
(* any scripts, commands and sizes, of the invariants of KernelA2.         *)
(*                                                                         *)
(* The inductive invariant has four layers.  QueueOK and ControlOK say     *)
(* where each process is and which step of a command comes next; TablesOK  *)
(* and MemoryOK say what page tables and frames hold in any state, however *)
(* many pages were evicted; PlacesOK says what frames hold as long as the  *)
(* store is undisturbed; and RunsOK ties the lines a process has run to    *)
(* its PC.                                                                 *)
(***************************************************************************)
EXTENDS KernelA2, NatLemmas, FiniteSetTheorems, SequenceTheorems

ScriptLines(s) == {Program[s][i] : i \in 1 .. Len(Program[s])}

\* The set commands, typed or in a script.
SetCommand ==
  {c \in Command \cup UNION {ScriptLines(s) : s \in Script} : c.op = "set"}
VarName == {c.args[1] : c \in SetCommand}
VarValue == {c.args[2] : c \in SetCommand}

\* The lines that the scripts have.
Line == {l \in LineOf : l.line \in 1 .. Len(Program[l.script])}

Cell == [var : Script \cup VarName \cup {None}, value : Line \cup VarValue \cup {None}]
Frame == 1 .. TOTAL_FRAMES

PCB ==
  [filename : Script, dangling : BOOLEAN, PC : Nat, current_page : Nat,
   pages_needed : Nat, num_pages : Nat, pagetable : [Page -> {-1} \cup Frame],
   lru_timer : [Page -> Nat], ran : Seq(LineOf), done : BOOLEAN]

\* A process is running, in the queue, or at its end.
QueueOK ==
  /\ pcb \in Seq(PCB)
  /\ ready \in Seq(Nat) /\ cur \in {0} \cup Pid
  /\ \A i \in 1 .. Len(ready) :
       ready[i] \in Pid /\ ready[i] # cur /\ ~pcb[ready[i]].done
  /\ \A i, j \in 1 .. Len(ready) : ready[i] = ready[j] => i = j
  /\ cur # 0 => ~pcb[cur].done
  /\ \A p \in Pid : pcb[p].done \/ p = cur \/ \E i \in 1 .. Len(ready) : ready[i] = p

ControlOK ==
  /\ in_background \in BOOLEAN /\ evicted \in BOOLEAN
  /\ policy \in {None, "RR", "FCFS"} /\ request \in {None, "RR", "FCFS"}
  /\ status \in {"prompt", "running", "exited", "crashed"}
  /\ after \in {"none", "line", "end", "fault"}
  /\ after # "none" => cur # 0 /\ in_background
  /\ in_background /\ cur = 0 => ready # <<>>
  /\ status = "prompt" =>
       /\ todo = <<>> /\ request = None /\ policy = None
       /\ cur = 0 /\ ready = <<>> /\ ~in_background
  /\ status = "running" =>
       /\ todo # <<>> => request # None
       /\ policy = None => request # None /\ cur = 0 /\ ~in_background
       /\ request # None /\ policy # None => after # "none"

\* Where process p is in execute_process.
Faulting(p) == p = cur /\ after = "fault"
Ending(p) == pcb[p].done \/ (p = cur /\ after = "end")

TableOK(p) ==
  LET q == pcb[p] IN
  /\ q.PC >= varmemsize
  /\ q.pages_needed = countPages(q.filename)
  /\ q.num_pages \in 1 .. q.pages_needed
  /\ q.num_pages >= 2 \/ q.pages_needed = 1
  /\ \A c \in Page : q.pagetable[c] = -1 <=> c >= q.num_pages
  /\ Faulting(p) => q.current_page = q.num_pages /\ q.num_pages < q.pages_needed
  /\ Ending(p) => q.current_page = q.pages_needed
  /\ Faulting(p) \/ Ending(p) \/ q.current_page < q.num_pages

TablesOK == \A p \in Pid : TableOK(p)

\* Variables are no lines; a frame's lines stand for themselves, and a frame
\* whose first line is empty is empty.
MemOK(m) ==
  /\ m \in [Index -> Cell]
  /\ \A i \in Index : i < varmemsize => m[i].value \in VarValue \cup {None}
  /\ \A i \in Index : i >= varmemsize =>
       m[i] = Free \/ (m[i].value \in Line /\ m[i].var = m[i].value.script)
  /\ \A f \in FreeFrames(m) : \A i \in FrameLines(f) : m[i] = Free
MemoryOK == MemOK(shellmemory)

\* Page c of s stands in frame f of m.
Stands(m, s, c, f) ==
  \A k \in 1 .. 3 :
    m[FrameStart(f) + k - 1] = IF 3 * c + k <= Len(Program[s]) THEN PageLine(s, c, k) ELSE Free

\* The frames that are free are the last ones.
Packed(m) == \A f \in FreeFrames(m), g \in Frame : f <= g => g \in FreeFrames(m)

PlacesOK ==
  /\ pcb = <<>> => ~evicted /\ FreeFrames(shellmemory) = Frame
  /\ Undisturbed =>
       /\ Packed(shellmemory)
       /\ \A p \in Pid : \A c \in 0 .. pcb[p].num_pages - 1 :
            /\ Stands(shellmemory, pcb[p].filename, c, pcb[p].pagetable[c])
            /\ pcb[p].pagetable[c] > c

\* Lines run when PC stands at its place in page current_page.
Count(q) ==
  LET n == 3 * q.current_page + (q.PC - FrameStart(q.pagetable[q.current_page]))
  IN  IF n <= Len(Program[q.filename]) THEN n ELSE Len(Program[q.filename])
CountAtStart(q) ==
  IF 3 * q.current_page <= Len(Program[q.filename])
  THEN 3 * q.current_page ELSE Len(Program[q.filename])

RunOK(p) ==
  LET q == pcb[p] IN
  /\ q.num_pages <= 2 \/ q.num_pages <= q.current_page + 1
  /\ q.num_pages >= 2 => q.pagetable[1] = q.pagetable[0] + 1
  /\ \A c \in q.current_page .. q.num_pages - 1 :
       Stands(shellmemory, q.filename, c, q.pagetable[c])
  /\ \A i \in 1 .. Len(q.ran) : q.ran[i] = [script |-> q.filename, line |-> i]
  /\ IF Faulting(p) \/ Ending(p)
     THEN Len(q.ran) = CountAtStart(q)
     ELSE /\ q.PC \in FrameLines(q.pagetable[q.current_page])
          /\ Len(q.ran) = Count(q)

\* A step needs a file that is not where the shell is.
FileMissing ==
  \/ todo # <<>> /\ ~Found(Head(todo))
  \/ after = "fault" /\ cwd # Home

RunsOK ==
  /\ Undisturbed \/ Alone => \A p \in Pid : RunOK(p)
  /\ Alone => ~pcb[1].dangling
  /\ Undisturbed /\ status = "crashed" => FileMissing

-----------------------------------------------------------------------------
(* Pages, frames and the searches for them.                                 *)

\* The first element of a set of numbers, for every search from the start.
LEMMA First ==
  ASSUME NEW S, S \subseteq Nat, S # {}
  PROVE  FirstOf(S) \in S /\ \A j \in S : FirstOf(S) <= j
  BY LeastExists, Zenon DEF FirstOf

\* A script has at least one page and fewer than a page table has entries; its
\* pages have room for its lines, and all but the last are full.
LEMMA PageCount ==
  ASSUME NEW s \in Script
  PROVE  /\ countLines(s) \in Nat /\ countPages(s) \in 1 .. PageTableSize - 1
         /\ Len(Program[s]) \in Nat
         /\ Len(Program[s]) <= 3 * countPages(s)
         /\ 3 * (countPages(s) - 1) <= Len(Program[s])
         /\ countLines(s) <= 3 <=> countPages(s) = 1
<1>0. Len(Program[s]) \in 0 .. 3 * (PageTableSize - 1) - 1
  BY ProgramAssumption, Zenon
<1>1. Len(Program[s]) \in Nat /\ Len(Program[s]) <= 3 * (PageTableSize - 1) - 1
  BY <1>0, SizeAssumption
<1>2. Len(Program[s]) = 0 => Program[s] = <<>>
  BY ProgramAssumption
<1> DEFINE n == countLines(s)
           k == countPages(s)
<1>3. n \in Nat /\ n >= 1 /\ Len(Program[s]) <= n /\ n <= Len(Program[s]) + 1
  BY <1>1, <1>2 DEF countLines
<1>4. k = (n + 2) \div 3
  BY DEF countPages
<1> HIDE DEF n, k
<1>5. k \in Nat /\ n <= 3 * k /\ 3 * (k - 1) < n
  BY <1>3, <1>4
<1>6. k \in 1 .. PageTableSize - 1
  BY <1>1, <1>3, <1>5, SizeAssumption
<1> QED
  BY <1>1, <1>3, <1>5, <1>6 DEF n, k

\* Frames lie after the variables, inside the shell memory, and apart.
LEMMA Frames ==
  ASSUME NEW f \in Frame
  PROVE  /\ FrameStart(f) \in Nat /\ FrameStart(f) >= varmemsize
         /\ FrameLines(f) \subseteq Index
         /\ \A i \in FrameLines(f) : i >= varmemsize
         /\ \A g \in Frame : g # f => FrameLines(f) \cap FrameLines(g) = {}
  BY SizeAssumption DEF Frame, FrameStart, FrameLines, Index, SHELL_MEM_LENGTH

\* Every line after the variables is in a frame.
LEMMA InSomeFrame ==
  ASSUME NEW i \in Index, i >= varmemsize
  PROVE  \E f \in Frame : i \in FrameLines(f)
<1> DEFINE d == i - varmemsize
<1>1. d \in Nat /\ d < 3 * TOTAL_FRAMES
  BY SizeAssumption DEF Index, SHELL_MEM_LENGTH
<1>2. d \div 3 \in Nat /\ 3 * (d \div 3) <= d /\ d <= 3 * (d \div 3) + 2
  BY <1>1
<1>3. (d \div 3) + 1 \in Frame
  BY <1>1, <1>2, SizeAssumption DEF Frame
<1>4. i \in FrameLines((d \div 3) + 1)
  BY <1>2, SizeAssumption DEF FrameLines, FrameStart, Index, SHELL_MEM_LENGTH
<1> QED
  BY <1>3, <1>4

\* The victim is a page that the process has loaded, page 0 if there is none.
LEMMA Victim ==
  ASSUME NEW p \in PCB, p.num_pages <= PageTableSize
  PROVE  get_victim(p) \in Nat /\ (get_victim(p) < p.num_pages \/ get_victim(p) = 0)
<1> DEFINE Used == {i \in 0 .. p.num_pages - 1 : p.lru_timer[i] < 1000}
           Least == {i \in Used : \A j \in Used : p.lru_timer[i] <= p.lru_timer[j]}
           S == Least \cup (IF Used = {} THEN {0} ELSE {})
           Times == {p.lru_timer[i] : i \in Used}
<1>1. p.num_pages \in Nat /\ p.lru_timer \in [Page -> Nat]
  BY DEF PCB
<1>2. Used \subseteq Page
  BY <1>1, SizeAssumption DEF Page
<1>3. Used # {} => Least # {}
  <2> SUFFICES ASSUME Used # {} PROVE Least # {}
    OBVIOUS
  <2>1. Times \subseteq Nat /\ Times # {}
    BY <1>1, <1>2
  <2>2. PICK t \in Times : \A u \in Times : t <= u
    BY <2>1, LeastExists
  <2>3. PICK i \in Used : t = p.lru_timer[i]
    OBVIOUS
  <2> QED
    BY <2>2, <2>3
<1>4. S \subseteq Nat /\ S # {} /\ \A i \in S : i < p.num_pages \/ i = 0
  BY <1>1, <1>3
<1>5. get_victim(p) = FirstOf(S)
  BY DEF get_victim
<1> HIDE DEF S
<1> QED
  BY <1>4, <1>5, First

\* The frame that load_page finds: the first free one, or the victim's number.
LEMMA FoundFrame ==
  ASSUME NEW m, NEW p \in PCB, p.num_pages <= PageTableSize
  PROVE  LET f == find_free_frame(m, p) IN
         /\ f \in Nat \ {0}
         /\ FreeFrames(m) # {} =>
              f \in FreeFrames(m) /\ f \in Frame /\ \A g \in FreeFrames(m) : f <= g
         /\ FreeFrames(m) = {} => f <= p.num_pages \/ f = 1
<1>1. FreeFrames(m) \subseteq Frame /\ FreeFrames(m) \subseteq Nat
      /\ \A g \in FreeFrames(m) : g # 0
  BY DEF FreeFrames, Frame
<1>2. p.num_pages \in Nat
  BY DEF PCB
<1>3. CASE FreeFrames(m) # {}
  <2> DEFINE F == FreeFrames(m)
  <2>1. F # {} /\ F \subseteq Nat /\ F \subseteq Frame /\ \A g \in F : g # 0
    BY <1>1, <1>3
  <2>2. find_free_frame(m, p) = FirstOf(F)
    BY <1>3 DEF find_free_frame
  <2> HIDE DEF F
  <2>3. FirstOf(F) \in F /\ \A g \in F : FirstOf(F) <= g
    BY <2>1, First
  <2>4. FirstOf(F) \in Nat \ {0} /\ FirstOf(F) \in Frame
    BY <2>1, <2>3
  <2> QED
    BY <1>3, <2>2, <2>3, <2>4 DEF F
<1>4. CASE FreeFrames(m) = {}
  BY <1>2, <1>4, Victim DEF find_free_frame
<1> QED
  BY <1>3, <1>4

-----------------------------------------------------------------------------
(* Loading a page.                                                          *)

\* The PCB after load_page: one more page, in frame f.
LEMMA LoadedFields ==
  ASSUME NEW m, NEW p \in PCB, p.current_page \in Page, NEW f \in Frame
  PROVE  LET r == LoadedPCB(m, p, f) IN
         /\ r \in PCB
         /\ r.filename = p.filename /\ r.dangling = p.dangling /\ r.PC = p.PC
         /\ r.current_page = p.current_page /\ r.pages_needed = p.pages_needed
         /\ r.num_pages = p.num_pages + 1 /\ r.ran = p.ran /\ r.done = p.done
         /\ r.pagetable[p.current_page] = f
         /\ \A c \in Page : c # p.current_page => r.pagetable[c] = p.pagetable[c]
<1> DEFINE lru == IF f \in FreeFrames(m) THEN p.lru_timer
                  ELSE [p.lru_timer EXCEPT ![f - 1] = 0]
           table == [p.pagetable EXCEPT ![p.current_page] = f]
           n == p.num_pages + 1
<1>1. lru \in [Page -> Nat]
  BY DEF PCB
<1>2. /\ table \in [Page -> {-1} \cup Frame] /\ table[p.current_page] = f
      /\ \A c \in Page : c # p.current_page => table[c] = p.pagetable[c]
  BY DEF PCB
<1>3. n \in Nat
  BY DEF PCB
<1>4. LoadedPCB(m, p, f) = [p EXCEPT !.lru_timer = lru, !.pagetable = table,
                                     !.num_pages = n]
  BY Zenon DEF LoadedPCB
<1> HIDE DEF lru, table
<1> QED
  BY <1>1, <1>2, <1>3, <1>4 DEF PCB

\* A frame that was emptied, or was free, holds nothing.
LEMMA Emptied ==
  ASSUME NEW m, MemOK(m), NEW f \in Frame
  PROVE  /\ MemOK(Evict(m, f))
         /\ \A i \in FrameLines(f) : Evict(m, f)[i] = Free
         /\ \A i \in Index : i \notin FrameLines(f) => Evict(m, f)[i] = m[i]
<1>0. FrameLines(f) \subseteq Index
  BY Frames
<1>1. CASE f \in FreeFrames(m)
  BY <1>1 DEF Evict, MemOK
<1>2. CASE f \notin FreeFrames(m)
  <2> DEFINE e == mem_free_lines_frame(m, f)
  <2>1. Evict(m, f) = e
    BY <1>2 DEF Evict
  <2>2. /\ e = [i \in Index |-> e[i]]
        /\ \A i \in Index : e[i] = IF i \in FrameLines(f) THEN Free ELSE m[i]
    BY DEF mem_free_lines_frame
  <2> HIDE DEF e
  <2>3. Free \in Cell /\ Free.value = None
    BY DEF Free, Cell
  <2>4. \A i \in Index : e[i] = Free \/ e[i] = m[i]
    BY <2>2
  <2>5. e \in [Index -> Cell]
    BY <2>2, <2>3, <2>4 DEF MemOK
  <2>6. ASSUME NEW g \in FreeFrames(e), NEW i \in FrameLines(g)
        PROVE  e[i] = Free
    <3>1. g \in Frame
      BY DEF FreeFrames, Frame
    <3>2. CASE g = f
      BY <3>2, <2>2, <1>0
    <3>3. CASE g # f
      <4>1. FrameStart(g) \in FrameLines(g) /\ FrameLines(g) \subseteq Index
            /\ FrameLines(f) \cap FrameLines(g) = {}
        BY <3>1, <3>3, Frames DEF FrameLines
      <4>2. e[FrameStart(g)] = m[FrameStart(g)] /\ e[i] = m[i]
        BY <4>1, <2>2
      <4>3. g \in FreeFrames(m)
        BY <4>2 DEF FreeFrames
      <4> QED
        BY <4>2, <4>3 DEF MemOK
    <3> QED
      BY <3>2, <3>3
  <2>7. MemOK(e)
    <3>1. \A i \in Index : i < varmemsize => e[i].value \in VarValue \cup {None}
      BY <2>3, <2>4 DEF MemOK
    <3>2. \A i \in Index : i >= varmemsize =>
            e[i] = Free \/ (e[i].value \in Line /\ e[i].var = e[i].value.script)
      BY <2>4 DEF MemOK
    <3> QED
      BY <3>1, <3>2, <2>5, <2>6 DEF MemOK
  <2> QED
    BY <2>1, <2>2, <2>7, <1>0
<1> QED
  BY <1>1, <1>2

\* Loading page c of s into frame f puts it there and changes no other line.
LEMMA Loaded ==
  ASSUME NEW m, MemOK(m), NEW f \in Frame, NEW s \in Script, NEW c \in Nat
  PROVE  LET n == CopyPage(Evict(m, f), s, c, f) IN
         /\ MemOK(n)
         /\ Stands(n, s, c, f)
         /\ \A i \in Index : i \notin FrameLines(f) => n[i] = m[i]
         /\ f \in FreeFrames(n) <=> 3 * c >= Len(Program[s])
         /\ \A g \in Frame : g # f => (g \in FreeFrames(n) <=> g \in FreeFrames(m))
<1> DEFINE e == Evict(m, f)
           n == CopyPage(e, s, c, f)
           L == Len(Program[s])
<1>1. /\ MemOK(e)
      /\ \A i \in FrameLines(f) : e[i] = Free
      /\ \A i \in Index : i \notin FrameLines(f) => e[i] = m[i]
  BY Emptied
<1>2. /\ n = [i \in Index |-> n[i]]
      /\ \A i \in Index :
           n[i] = IF i \in FrameLines(f) /\ 3 * c + (i - FrameStart(f)) < L
                  THEN PageLine(s, c, i - FrameStart(f) + 1) ELSE e[i]
  BY DEF CopyPage
<1> HIDE DEF e, n
<1>3. FrameStart(f) \in Nat /\ FrameLines(f) \subseteq Index
      /\ FrameLines(f) = FrameStart(f) .. FrameStart(f) + 2
      /\ L \in Nat
  BY Frames, PageCount DEF FrameLines
<1> HIDE DEF L
<1>4. ASSUME NEW i \in FrameLines(f)
      PROVE  n[i] = IF 3 * c + (i - FrameStart(f)) < L
                    THEN PageLine(s, c, i - FrameStart(f) + 1) ELSE Free
  BY <1>1, <1>2, <1>3
<1>5. \A i \in Index : i \notin FrameLines(f) => n[i] = m[i]
  BY <1>1, <1>2
<1>6. ASSUME NEW k \in 1 .. 3, 3 * c + k <= L
      PROVE  /\ PageLine(s, c, k) \in Cell /\ PageLine(s, c, k).var = s
             /\ PageLine(s, c, k).value \in Line
             /\ PageLine(s, c, k).value.script = s
  <2> DEFINE l == [script |-> s, line |-> 3 * c + k]
  <2>1. l \in LineOf /\ l.script = s /\ l.line \in 1 .. L
    BY <1>6, <1>3 DEF LineOf
  <2> HIDE DEF l
  <2>2. l \in Line
    BY <2>1 DEF Line, L
  <2>3. PageLine(s, c, k) = [var |-> s, value |-> l]
    BY DEF PageLine, l
  <2> QED
    BY <2>1, <2>2, <2>3 DEF Cell
<1>7. ASSUME NEW i \in FrameLines(f), 3 * c + (i - FrameStart(f)) < L
      PROVE  /\ n[i] \in Cell /\ n[i].var = s /\ n[i].value \in Line
             /\ n[i].value.script = s
  <2>1. i - FrameStart(f) + 1 \in 1 .. 3 /\ 3 * c + (i - FrameStart(f) + 1) <= L
    BY <1>3, <1>7
  <2>2. n[i] = PageLine(s, c, i - FrameStart(f) + 1)
    BY <1>4, <1>7
  <2> QED
    BY <2>1, <2>2, <1>6
<1>8. Free \in Cell /\ Free.value = None /\ Free.var = None
  BY DEF Free, Cell
<1>9. f \in FreeFrames(n) <=> 3 * c >= L
  <2>1. FrameStart(f) \in FrameLines(f) /\ f \in 1 .. TOTAL_FRAMES
    BY <1>3 DEF Frame
  <2>2. 3 * c < L => n[FrameStart(f)].var = s
    BY <2>1, <1>3, <1>7
  <2>3. ~(3 * c < L) => n[FrameStart(f)] = Free
    BY <2>1, <1>3, <1>4
  <2> QED
    BY <2>1, <2>2, <2>3, <1>3, <1>8, NoneAssumption DEF FreeFrames
<1>10. ASSUME NEW g \in Frame, g # f
       PROVE  /\ \A i \in FrameLines(g) : i \in Index /\ i \notin FrameLines(f) /\ n[i] = m[i]
              /\ g \in FreeFrames(n) <=> g \in FreeFrames(m)
  <2>1. FrameStart(g) \in FrameLines(g) /\ FrameLines(g) \subseteq Index
        /\ FrameLines(f) \cap FrameLines(g) = {}
    BY <1>10, Frames DEF FrameLines
  <2>2. \A i \in FrameLines(g) : i \in Index /\ i \notin FrameLines(f) /\ n[i] = m[i]
    BY <2>1, <1>5
  <2> QED
    BY <2>1, <2>2 DEF FreeFrames
<1>11. MemOK(n)
  <2>1. ASSUME NEW i \in Index
        PROVE  /\ n[i] \in Cell
               /\ i < varmemsize => n[i].value \in VarValue \cup {None}
               /\ i >= varmemsize =>
                    n[i] = Free \/ (n[i].value \in Line /\ n[i].var = n[i].value.script)
    <3>1. CASE i \notin FrameLines(f)
      BY <3>1, <1>5 DEF MemOK
    <3>2. CASE i \in FrameLines(f)
      <4>1. i >= varmemsize /\ i \in Nat /\ varmemsize \in Nat
        BY <3>2, <1>3, Frames, SizeAssumption
      <4>2. n[i] = Free \/ 3 * c + (i - FrameStart(f)) < L
        BY <3>2, <1>4
      <4> QED
        BY <3>2, <4>1, <4>2, <1>7, <1>8
    <3> QED
      BY <3>1, <3>2
  <2>2. n \in [Index -> Cell]
    BY <2>1, <1>2
  <2>3. ASSUME NEW g \in FreeFrames(n), NEW i \in FrameLines(g)
        PROVE  n[i] = Free
    <3>1. g \in Frame
      BY DEF FreeFrames, Frame
    <3>2. CASE g = f
      <4>1. 3 * c >= L /\ i \in FrameLines(f) /\ i \in Nat /\ i >= FrameStart(f)
        BY <3>2, <1>9, <1>3
      <4>2. ~(3 * c + (i - FrameStart(f)) < L)
        BY <4>1, <1>3
      <4> QED
        BY <4>1, <4>2, <1>4
    <3>3. CASE g # f
      BY <3>1, <3>3, <1>10 DEF MemOK
    <3> QED
      BY <3>2, <3>3
  <2> QED
    BY <2>1, <2>2, <2>3 DEF MemOK
<1>12. Stands(n, s, c, f)
  <2> SUFFICES ASSUME NEW k \in 1 .. 3
               PROVE  n[FrameStart(f) + k - 1] =
                        IF 3 * c + k <= L THEN PageLine(s, c, k) ELSE Free
    BY DEF Stands, L
  <2> DEFINE i == FrameStart(f) + k - 1
  <2>1. i \in FrameLines(f) /\ i - FrameStart(f) + 1 = k
        /\ (3 * c + (i - FrameStart(f)) < L <=> 3 * c + k <= L)
    BY <1>3
  <2> HIDE DEF i
  <2>2. n[i] = IF 3 * c + k <= L THEN PageLine(s, c, k) ELSE Free
    BY <2>1, <1>4
  <2> QED
    BY <2>2 DEF i
<1> QED
  BY <1>5, <1>9, <1>10, <1>11, <1>12 DEF n, e, L

-----------------------------------------------------------------------------
(* What the steps do to the PCBs.                                           *)

\* Replacing one PCB by another.
LEMMA ReplacedPCB ==
  ASSUME pcb \in Seq(PCB), NEW p \in Pid, NEW r \in PCB,
         pcb' = [pcb EXCEPT ![p] = r]
  PROVE  /\ pcb' \in Seq(PCB) /\ Len(pcb') = Len(pcb) /\ Pid' = Pid
         /\ pcb'[p] = r
         /\ \A q \in Pid : q # p => pcb'[q] = pcb[q]
<1>1. Len(pcb) \in Nat /\ DOMAIN pcb = 1 .. Len(pcb)
  OBVIOUS
<1>2. pcb' \in Seq(PCB) /\ Len(pcb') = Len(pcb)
  BY DEF Pid
<1> QED
  BY <1>1, <1>2 DEF Pid

\* Adding one at the end.
LEMMA AddedPCB ==
  ASSUME pcb \in Seq(PCB), NEW r \in PCB, pcb' = Append(pcb, r)
  PROVE  /\ pcb' \in Seq(PCB) /\ Len(pcb) \in Nat /\ Len(pcb') = Len(pcb) + 1
         /\ Pid' = Pid \cup {Len(pcb) + 1} /\ Len(pcb) + 1 \notin Pid
         /\ pcb'[Len(pcb) + 1] = r
         /\ \A q \in Pid : pcb'[q] = pcb[q]
  BY DEF Pid

\* A line was fetched: the timer of its page, PC, the page PC is in, and the
\* lines the process has run.
LEMMA Fetched ==
  ASSUME pcb \in Seq(PCB), cur \in Pid, pcb[cur].current_page \in Page,
         NEW v \in LineOf \cup {None}, Fetch(v)
  PROVE  /\ pcb' \in Seq(PCB) /\ Len(pcb') = Len(pcb) /\ Pid' = Pid
         /\ \A q \in Pid : q # cur => pcb'[q] = pcb[q]
         /\ pcb'[cur].filename = pcb[cur].filename
         /\ pcb'[cur].dangling = pcb[cur].dangling
         /\ pcb'[cur].PC = pcb[cur].PC + 1
         /\ pcb'[cur].current_page =
              IF EndOfPage THEN pcb[cur].current_page + 1 ELSE pcb[cur].current_page
         /\ pcb'[cur].pages_needed = pcb[cur].pages_needed
         /\ pcb'[cur].num_pages = pcb[cur].num_pages
         /\ pcb'[cur].pagetable = pcb[cur].pagetable
         /\ pcb'[cur].ran = IF v = None THEN pcb[cur].ran ELSE Append(pcb[cur].ran, v)
         /\ pcb'[cur].done = pcb[cur].done
<1> DEFINE p == pcb[cur]
           lru == [p.lru_timer EXCEPT ![p.current_page] = @ + 1]
           pc == p.PC + 1
           page == IF EndOfPage THEN p.current_page + 1 ELSE p.current_page
           ran == IF v = None THEN p.ran ELSE Append(p.ran, v)
           r == [p EXCEPT !.lru_timer = lru, !.PC = pc, !.current_page = page, !.ran = ran]
<1>1. p \in PCB
  BY DEF Pid
<1>2. pcb' = [pcb EXCEPT ![cur] = r]
  <2>1. DOMAIN pcb = 1 .. Len(pcb)
    OBVIOUS
  <2> QED
    BY <2>1, Zenon DEF Fetch, This, NextPage
<1> HIDE DEF p
<1>10. p.lru_timer \in [Page -> Nat] /\ p.PC \in Nat /\ p.current_page \in Nat
  BY <1>1 DEF PCB
<1>3. lru \in [Page -> Nat]
  <2>1. \A t \in [Page -> Nat], c \in Page : [t EXCEPT ![c] = t[c] + 1] \in [Page -> Nat]
    OBVIOUS
  <2>2. p.current_page \in Page
    BY DEF p
  <2> QED
    BY <1>10, <2>1, <2>2, Zenon
<1>4. pc \in Nat /\ page \in Nat
  BY <1>10
<1>5. ran \in Seq(LineOf)
  <2>1. p.ran \in Seq(LineOf)
    BY <1>1 DEF PCB
  <2> QED
    BY <2>1
<1> HIDE DEF lru, pc, page, ran
<1>6. /\ r \in PCB
      /\ r.filename = p.filename /\ r.dangling = p.dangling /\ r.PC = pc
      /\ r.current_page = page /\ r.pages_needed = p.pages_needed
      /\ r.num_pages = p.num_pages /\ r.pagetable = p.pagetable
      /\ r.ran = ran /\ r.done = p.done
  BY <1>1, <1>3, <1>4, <1>5 DEF PCB
<1> HIDE DEF r
<1>7. /\ pcb' \in Seq(PCB) /\ Len(pcb') = Len(pcb) /\ Pid' = Pid
      /\ pcb'[cur] = r
      /\ \A q \in Pid : q # cur => pcb'[q] = pcb[q]
  BY <1>2, <1>6, ReplacedPCB
<1> QED
  BY <1>6, <1>7 DEF p, pc, page, ran

\* The new PCB, before its pages are loaded.
LEMMA Made ==
  ASSUME NEW s \in Script, NEW d \in BOOLEAN
  PROVE  LET r == makePCB(s, d) IN
         /\ r \in PCB
         /\ r.filename = s /\ r.dangling = d /\ r.PC = 0 /\ r.current_page = 0
         /\ r.pages_needed = countPages(s) /\ r.num_pages = 0
         /\ r.ran = <<>> /\ r.done = FALSE
         /\ \A c \in Page : r.pagetable[c] = -1
<1>1. countPages(s) \in Nat
  BY PageCount, SizeAssumption
<1>2. [i \in Page |-> -1] \in [Page -> {-1} \cup Frame]
      /\ [i \in Page |-> 0] \in [Page -> Nat] /\ <<>> \in Seq(LineOf)
  OBVIOUS
<1> QED
  BY <1>1, <1>2 DEF makePCB, PCB

\* PC of a PCB is set.
LEMMA SetPC ==
  ASSUME NEW p \in PCB, NEW n \in Nat
  PROVE  LET r == [p EXCEPT !.PC = n] IN
         /\ r \in PCB
         /\ r.filename = p.filename /\ r.dangling = p.dangling /\ r.PC = n
         /\ r.current_page = p.current_page /\ r.pages_needed = p.pages_needed
         /\ r.num_pages = p.num_pages /\ r.pagetable = p.pagetable
         /\ r.ran = p.ran /\ r.done = p.done
  BY DEF PCB

\* current_page of a PCB is set.
LEMMA SetPage ==
  ASSUME NEW p \in PCB, NEW n \in Nat
  PROVE  LET r == [p EXCEPT !.current_page = n] IN
         /\ r \in PCB
         /\ r.filename = p.filename /\ r.dangling = p.dangling /\ r.PC = p.PC
         /\ r.current_page = n /\ r.pages_needed = p.pages_needed
         /\ r.num_pages = p.num_pages /\ r.pagetable = p.pagetable
         /\ r.ran = p.ran /\ r.done = p.done
  BY DEF PCB

\* done of a PCB is set.
LEMMA SetDone ==
  ASSUME NEW p \in PCB
  PROVE  LET r == [p EXCEPT !.done = TRUE] IN
         /\ r \in PCB
         /\ r.filename = p.filename /\ r.dangling = p.dangling /\ r.PC = p.PC
         /\ r.current_page = p.current_page /\ r.pages_needed = p.pages_needed
         /\ r.num_pages = p.num_pages /\ r.pagetable = p.pagetable
         /\ r.ran = p.ran /\ r.done = TRUE
  BY DEF PCB

\* Frame f is the first free one, if any is.
FirstFree(m, f) ==
  FreeFrames(m) # {} => f \in FreeFrames(m) /\ \A g \in FreeFrames(m) : f <= g

\* The shell memory after page c of s was loaded into frame f.
With(m, s, c, f) == CopyPage(Evict(m, f), s, c, f)

\* q is a process that starts script s with n pages loaded, the first in frame f.
Starts(q, s, d, n, f) ==
  /\ q \in PCB /\ q.filename = s /\ q.dangling = d /\ q.PC = FrameStart(f)
  /\ q.current_page = 0 /\ q.pages_needed = countPages(s) /\ q.num_pages = n
  /\ q.pagetable[0] = f /\ q.ran = <<>> /\ q.done = FALSE
  /\ \A c \in Page : c >= n => q.pagetable[c] = -1

\* A new process has its first page, or its first two pages, in the frames that
\* were found for them, and stands at the tail of the queue.
Created(s, q, f, n, m) ==
  /\ f \in Frame /\ FirstFree(shellmemory, f)
  /\ Starts(q, s, request = "RR" /\ in_background, n, f)
  /\ shellmemory' = m
  /\ pcb' = Append(pcb, q) /\ ready' = Append(ready, Len(pcb) + 1)

OnePage(s, q, f) ==
  /\ countPages(s) = 1 /\ Created(s, q, f, 1, With(shellmemory, s, 0, f))
  /\ evicted' = (evicted \/ f \notin FreeFrames(shellmemory))

TwoPages(s, q, f, g) ==
  LET m == With(shellmemory, s, 0, f) IN
  /\ countPages(s) >= 2 /\ Created(s, q, f, 2, With(m, s, 1, g))
  /\ g \in Frame /\ FirstFree(m, g) /\ q.pagetable[1] = g
  /\ evicted' = (evicted \/ f \notin FreeFrames(shellmemory) \/ g \notin FreeFrames(m))

\* process_initialize makes a process in one of these two ways.
LEMMA Initialized ==
  ASSUME process_initialize, in_background \in BOOLEAN
  PROVE  /\ Head(todo) \in Script
         /\ \E q, f, g : OnePage(Head(todo), q, f) \/ TwoPages(Head(todo), q, f, g)
<1> DEFINE s == Head(todo)
           d == request = "RR" /\ in_background
           p0 == makePCB(s, d)
           f == find_free_frame(shellmemory, p0)
           m == LoadedMemory(shellmemory, s, p0, f)
           l0 == LoadedPCB(shellmemory, p0, f)
           p1 == [l0 EXCEPT !.current_page = 1]
           full == f \notin FreeFrames(shellmemory)
<1>1. s \in Script /\ LoadSecondPage(m, p1, s, full)
  BY DEF process_initialize, LoadFirstPage, Found
<1>2. d \in BOOLEAN
  OBVIOUS
<1> HIDE DEF s, d
<1>3. /\ p0 \in PCB
      /\ p0.filename = s /\ p0.dangling = d /\ p0.PC = 0 /\ p0.current_page = 0
      /\ p0.pages_needed = countPages(s) /\ p0.num_pages = 0
      /\ p0.ran = <<>> /\ p0.done = FALSE
      /\ \A c \in Page : p0.pagetable[c] = -1
  BY <1>1, <1>2, Made
<1> HIDE DEF p0
<1>4. 0 \in Page /\ 1 \in Page /\ PageTableSize \in Nat /\ PageTableSize >= 2
  BY <1>1, PageCount, SizeAssumption DEF Page
<1>5. f \in Frame /\ FirstFree(shellmemory, f)
  <2>1. /\ f \in Nat \ {0}
        /\ FreeFrames(shellmemory) # {} =>
             f \in FreeFrames(shellmemory) /\ f \in Frame
             /\ \A g \in FreeFrames(shellmemory) : f <= g
        /\ FreeFrames(shellmemory) = {} => f <= p0.num_pages \/ f = 1
    BY <1>3, <1>4, FoundFrame
  <2> HIDE DEF f
  <2>2. FreeFrames(shellmemory) = {} => f = 1
    BY <1>3, <2>1
  <2> QED
    BY <2>1, <2>2, SizeAssumption DEF FirstFree, Frame
<1>6. m = With(shellmemory, s, 0, f)
  BY <1>3 DEF LoadedMemory, With
<1> HIDE DEF f, m
<1>7. /\ l0 \in PCB
      /\ l0.filename = s /\ l0.dangling = d /\ l0.PC = 0
      /\ l0.current_page = 0 /\ l0.pages_needed = countPages(s)
      /\ l0.num_pages = 1 /\ l0.ran = <<>> /\ l0.done = FALSE
      /\ l0.pagetable[0] = f
      /\ \A c \in Page : c # 0 => l0.pagetable[c] = -1
  <2>1. p0.current_page \in Page
    BY <1>3, <1>4
  <2>2. /\ l0 \in PCB
        /\ l0.filename = p0.filename /\ l0.dangling = p0.dangling /\ l0.PC = p0.PC
        /\ l0.current_page = p0.current_page /\ l0.pages_needed = p0.pages_needed
        /\ l0.num_pages = p0.num_pages + 1 /\ l0.ran = p0.ran /\ l0.done = p0.done
        /\ l0.pagetable[p0.current_page] = f
        /\ \A c \in Page : c # p0.current_page => l0.pagetable[c] = p0.pagetable[c]
    <3>1. p0 \in PCB /\ f \in Frame
      BY <1>3, <1>5
    <3> HIDE DEF p1, full
    <3> QED
      BY <2>1, <3>1, LoadedFields
  <2> HIDE DEF l0
  <2> QED
    BY <2>2, <1>3
<1> HIDE DEF l0
<1>8. /\ p1 \in PCB
      /\ p1.filename = s /\ p1.dangling = d /\ p1.PC = 0
      /\ p1.current_page = 1 /\ p1.pages_needed = countPages(s)
      /\ p1.num_pages = 1 /\ p1.ran = <<>> /\ p1.done = FALSE
      /\ p1.pagetable[0] = f
      /\ \A c \in Page : c # 0 => p1.pagetable[c] = -1
  BY <1>7, SetPage
<1> HIDE DEF p1
<1>9. ASSUME NEW n, NEW k, NEW p \in PCB, Enqueue(n, [p EXCEPT !.current_page = 0]),
             p.filename = s, p.dangling = d, p.pages_needed = countPages(s),
             p.num_pages = k, p.ran = <<>>, p.done = FALSE, p.pagetable[0] = f,
             \A c \in Page : c >= k => p.pagetable[c] = -1
      PROVE  \E q : Created(s, q, f, k, n) /\ q.pagetable = p.pagetable
  <2> DEFINE p2 == [p EXCEPT !.current_page = 0]
             pc == find_PC(p2)
             q == [p2 EXCEPT !.PC = pc]
  <2>1. /\ p2 \in PCB
        /\ p2.filename = s /\ p2.dangling = d /\ p2.current_page = 0
        /\ p2.pages_needed = countPages(s)
        /\ p2.num_pages = k /\ p2.ran = <<>> /\ p2.done = FALSE
        /\ p2.pagetable = p.pagetable
    BY <1>9, SetPage
  <2>0. shellmemory' = n /\ pcb' = Append(pcb, q) /\ ready' = Append(ready, Len(pcb) + 1)
    BY <1>9, Zenon DEF Enqueue, ready_queue_add_to_tail
  <2> HIDE DEF p2
  <2>2. pc = FrameStart(f)
    BY <2>1, <1>9 DEF find_PC
  <2>3. pc \in Nat
    BY <2>2, <1>5, Frames
  <2> HIDE DEF pc
  <2>4. /\ q \in PCB
        /\ q.filename = s /\ q.dangling = d /\ q.PC = FrameStart(f)
        /\ q.current_page = 0 /\ q.pages_needed = countPages(s)
        /\ q.num_pages = k /\ q.ran = <<>> /\ q.done = FALSE
        /\ q.pagetable = p.pagetable
    BY <2>1, <2>2, <2>3, SetPC
  <2> HIDE DEF q
  <2>5. Starts(q, s, d, k, f)
    BY <2>4, <1>9 DEF Starts
  <2>6. Created(s, q, f, k, n)
    BY <2>0, <2>5, <1>5, Zenon DEF Created, d
  <2> QED
    BY <2>4, <2>6
<1>10. CASE countLines(s) <= 3
  <2>1. Enqueue(m, [p1 EXCEPT !.current_page = 0]) /\ evicted' = (evicted \/ full)
    BY <1>1, <1>10 DEF LoadSecondPage
  <2>2. \A c \in Page : c >= 1 => p1.pagetable[c] = -1
    BY <1>8
  <2>3. PICK q : Created(s, q, f, 1, m)
    BY <2>1, <2>2, <1>8, <1>9
  <2>4. OnePage(s, q, f)
    BY <2>1, <2>3, <1>1, <1>6, <1>10, PageCount DEF OnePage
  <2> QED
    BY <1>1, <2>4 DEF s
<1>11. CASE ~(countLines(s) <= 3)
  <2> DEFINE g == find_free_frame(m, p1)
             l1 == LoadedPCB(m, p1, g)
             n == LoadedMemory(m, s, p1, g)
  <2>1. Enqueue(n, [l1 EXCEPT !.current_page = 0])
        /\ evicted' = (evicted \/ full \/ g \notin FreeFrames(m))
    BY <1>1, <1>11 DEF LoadSecondPage
  <2>2. g \in Frame /\ FirstFree(m, g)
    <3>1. /\ g \in Nat \ {0}
          /\ FreeFrames(m) # {} =>
               g \in FreeFrames(m) /\ g \in Frame
               /\ \A h \in FreeFrames(m) : g <= h
          /\ FreeFrames(m) = {} => g <= p1.num_pages \/ g = 1
      BY <1>4, <1>8, FoundFrame
    <3> HIDE DEF g
    <3>2. FreeFrames(m) = {} => g = 1
      BY <1>8, <3>1
    <3> QED
      BY <3>1, <3>2, SizeAssumption DEF FirstFree, Frame
  <2>3. n = With(m, s, 1, g)
    BY <1>8 DEF LoadedMemory, With
  <2> HIDE DEF g, n
  <2>4. /\ l1 \in PCB
        /\ l1.filename = s /\ l1.dangling = d
        /\ l1.pages_needed = countPages(s)
        /\ l1.num_pages = 2 /\ l1.ran = <<>> /\ l1.done = FALSE
        /\ l1.pagetable[1] = g
        /\ \A c \in Page : c # 1 => l1.pagetable[c] = p1.pagetable[c]
    BY <1>4, <1>8, <2>2, LoadedFields
  <2> HIDE DEF l1
  <2>5. l1.pagetable[0] = f /\ \A c \in Page : c >= 2 => l1.pagetable[c] = -1
    BY <1>4, <1>8, <2>4
  <2>6. PICK q : Created(s, q, f, 2, n) /\ q.pagetable = l1.pagetable
    <3> HIDE DEF full
    <3>1. Enqueue(n, [l1 EXCEPT !.current_page = 0]) /\ l1 \in PCB
      BY <2>1, <2>4
    <3>2. /\ l1.filename = s /\ l1.dangling = d
          /\ l1.pages_needed = countPages(s)
          /\ l1.num_pages = 2 /\ l1.ran = <<>> /\ l1.done = FALSE
      BY <2>4
    <3> QED
      BY <3>1, <3>2, <2>5, <1>9
  <2>7. countPages(s) >= 2
    BY <1>1, <1>11, PageCount, SizeAssumption
  <2>8. TwoPages(s, q, f, g)
    BY <2>1, <2>2, <2>3, <2>4, <2>6, <2>7, <1>6 DEF TwoPages
  <2> QED
    BY <1>1, <2>8 DEF s
<1> QED
  BY <1>10, <1>11

\* A page fault: the process has one more page, in the frame that was found for
\* it, and is at the tail of the queue.
FaultLoaded(s, f) ==
  /\ s \in Script /\ (s = pcb[cur].filename \/ pcb[cur].dangling)
  /\ f = find_free_frame(shellmemory, pcb[cur]) /\ f \in Frame
  /\ shellmemory' = With(shellmemory, s, pcb[cur].current_page, f)
  /\ pcb' \in Seq(PCB) /\ Len(pcb') = Len(pcb) /\ Pid' = Pid
  /\ \A q \in Pid : q # cur => pcb'[q] = pcb[q]
  /\ pcb'[cur].filename = pcb[cur].filename
  /\ pcb'[cur].dangling = pcb[cur].dangling
  /\ pcb'[cur].PC = FrameStart(f)
  /\ pcb'[cur].current_page = pcb[cur].current_page
  /\ pcb'[cur].pages_needed = pcb[cur].pages_needed
  /\ pcb'[cur].num_pages = pcb[cur].num_pages + 1
  /\ pcb'[cur].pagetable[pcb[cur].current_page] = f
  /\ \A c \in Page : c # pcb[cur].current_page =>
       pcb'[cur].pagetable[c] = pcb[cur].pagetable[c]
  /\ pcb'[cur].ran = pcb[cur].ran
  /\ pcb'[cur].done = pcb[cur].done
  /\ ready' = Append(ready, cur)
  /\ evicted' = (evicted \/ f \notin FreeFrames(shellmemory))
  /\ after' = "none" /\ cur' = 0
  /\ UNCHANGED <<in_background, policy, quanta, todo, request, status, commands>>

\* handle_page_fault loads the page or crashes, on a dangling name, on a frame
\* that does not exist or in a directory that has no scripts.
LEMMA FaultHandled ==
  ASSUME handle_page_fault, pcb \in Seq(PCB), cur \in Pid,
         pcb[cur].current_page \in Page, pcb[cur].num_pages <= PageTableSize
  PROVE  \/ /\ Crash
            /\ \/ pcb[cur].dangling \/ cwd # Home
               \/ find_free_frame(shellmemory, pcb[cur]) > TOTAL_FRAMES
         \/ \E s, f : FaultLoaded(s, f)
<1> DEFINE p == pcb[cur]
           f == find_free_frame(shellmemory, p)
<1>1. PICK s \in FaultFile :
        IF s = None \/ Crashes(f) THEN Crash
        ELSE /\ shellmemory' = LoadedMemory(shellmemory, s, p, f)
             /\ pcb' = [pcb EXCEPT ![cur] = [LoadedPCB(shellmemory, p, f) EXCEPT
                                               !.PC = find_PC(LoadedPCB(shellmemory, p, f))]]
             /\ ready' = ready_queue_add_to_tail(ready, cur)
             /\ evicted' = (evicted \/ f \notin FreeFrames(shellmemory))
             /\ after' = "none" /\ cur' = 0
             /\ UNCHANGED <<in_background, policy, quanta, todo, request, status,
                            commands>>
  BY DEF handle_page_fault, This
<1>2. p \in PCB /\ p.filename \in Script
  <2>1. p \in PCB
    BY DEF Pid
  <2> HIDE DEF p, f
  <2> QED
    BY <2>1 DEF PCB
<1>3. /\ s \in Script \cup {None}
      /\ s # None => s = p.filename \/ p.dangling
      /\ s = None => p.dangling \/ cwd # Home
  BY <1>1, <1>2, NoneAssumption DEF FaultFile, This
<1>4. f \in Nat \ {0}
  BY <1>2, FoundFrame
<1>5. p.current_page \in Page
  OBVIOUS
<1> HIDE DEF p
<1>6. CASE s = None \/ Crashes(f)
  BY <1>1, <1>2, <1>3, <1>6, NoneAssumption DEF Crashes, p
<1>7. CASE ~(s = None \/ Crashes(f))
  <2> DEFINE l == LoadedPCB(shellmemory, p, f)
             pc == find_PC(l)
             r == [l EXCEPT !.PC = pc]
  <2> HIDE DEF f
  <2>1. f \in Frame /\ s \in Script
    BY <1>3, <1>4, <1>7, SizeAssumption DEF Crashes, Frame
  <2>2. /\ l \in PCB
        /\ l.filename = p.filename /\ l.dangling = p.dangling /\ l.PC = p.PC
        /\ l.current_page = p.current_page /\ l.pages_needed = p.pages_needed
        /\ l.num_pages = p.num_pages + 1 /\ l.ran = p.ran /\ l.done = p.done
        /\ l.pagetable[p.current_page] = f
        /\ \A c \in Page : c # p.current_page => l.pagetable[c] = p.pagetable[c]
    <3> HIDE DEF pc, r
    <3> QED
      BY <1>2, <1>5, <2>1, LoadedFields
  <2>3. pcb' = [pcb EXCEPT ![cur] = r]
    BY <1>1, <1>7
  <2> HIDE DEF l
  <2>4. pc = FrameStart(f) /\ pc \in Nat
    BY <2>1, <2>2, Frames DEF find_PC
  <2> HIDE DEF pc
  <2>5. /\ r \in PCB
        /\ r.filename = l.filename /\ r.dangling = l.dangling /\ r.PC = pc
        /\ r.current_page = l.current_page /\ r.pages_needed = l.pages_needed
        /\ r.num_pages = l.num_pages /\ r.pagetable = l.pagetable
        /\ r.ran = l.ran /\ r.done = l.done
    BY <2>2, <2>4, SetPC
  <2> HIDE DEF r
  <2>6. /\ pcb' \in Seq(PCB) /\ Len(pcb') = Len(pcb) /\ Pid' = Pid
        /\ pcb'[cur] = r
        /\ \A q \in Pid : q # cur => pcb'[q] = pcb[q]
    BY <2>3, <2>5, ReplacedPCB
  <2>7. /\ r.filename = p.filename /\ r.dangling = p.dangling /\ r.PC = FrameStart(f)
        /\ r.current_page = p.current_page /\ r.pages_needed = p.pages_needed
        /\ r.num_pages = p.num_pages + 1
        /\ r.pagetable[p.current_page] = f
        /\ \A c \in Page : c # p.current_page => r.pagetable[c] = p.pagetable[c]
        /\ r.ran = p.ran /\ r.done = p.done
    BY <2>2, <2>4, <2>5
  <2>8. /\ shellmemory' = With(shellmemory, s, p.current_page, f)
        /\ ready' = Append(ready, cur)
        /\ evicted' = (evicted \/ f \notin FreeFrames(shellmemory))
        /\ after' = "none" /\ cur' = 0
        /\ UNCHANGED <<in_background, policy, quanta, todo, request, status, commands>>
    BY <1>1, <1>7, Zenon DEF LoadedMemory, With, ready_queue_add_to_tail
  <2>9. f = find_free_frame(shellmemory, p)
    BY DEF f
  <2>10. s = p.filename \/ p.dangling
    BY <1>3, <1>7
  <2> QED
    BY <2>1, <2>6, <2>7, <2>8, <2>9, <2>10, Zenon DEF FaultLoaded, p
<1> QED
  BY <1>6, <1>7

-----------------------------------------------------------------------------
(* Lines and commands.                                                      *)

AnyCommand == Command \cup UNION {ScriptLines(s) : s \in Script}

\* A line of a script is a command of the shell.
LEMMA LineIsCommand ==
  ASSUME NEW l \in Line
  PROVE  Program[l.script][l.line] \in AnyCommand
  BY DEF Line, LineOf, AnyCommand, ScriptLines

\* What set stores is no line of a script; all commands are known.
LEMMA Commands ==
  /\ \A c \in AnyCommand : c.op \in Op
  /\ \A c \in AnyCommand : c.op = "set" => c.args[1] \in VarName /\ c.args[2] \in VarValue
  /\ \A x \in VarValue : x \notin LineOf
<1>1. ASSUME NEW c \in AnyCommand
      PROVE  c.op \in Op /\ (c.op = "set" => c.args[2] \notin LineOf)
  <2>1. CASE c \in Command
    BY <2>1, ProgramAssumption
  <2>2. ASSUME NEW s \in Script, NEW i \in 1 .. Len(Program[s]), c = Program[s][i]
        PROVE  c.op \in Op /\ (c.op = "set" => c.args[2] \notin LineOf)
    BY <2>2, ProgramAssumption, Zenon
  <2> QED
    BY <2>1, <2>2 DEF AnyCommand, ScriptLines
<1>2. SetCommand = {c \in AnyCommand : c.op = "set"}
  BY DEF SetCommand, AnyCommand
<1> QED
  BY <1>1, <1>2, Zenon DEF VarName, VarValue

\* set stores a value in the variables and leaves the frames alone.
LEMMA SetValue ==
  ASSUME NEW m, MemOK(m), NEW v \in VarName, NEW x \in VarValue
  PROVE  LET n == mem_set_value(m, v, x) IN
         /\ n \in [Index -> Cell]
         /\ \A i \in Index : i < varmemsize => n[i].value \in VarValue \cup {None}
         /\ \A i \in Index : i >= varmemsize => n[i] = m[i]
<1> DEFINE n == mem_set_value(m, v, x)
<1>1. /\ m \in [Index -> Cell]
      /\ \A i \in Index : i < varmemsize => m[i].value \in VarValue \cup {None}
  BY DEF MemOK
<1>2. \A w : /\ Named(m, w) \subseteq Nat
             /\ \A i \in Named(m, w) : i \in Index /\ i < varmemsize
  BY SizeAssumption DEF Named, Index, SHELL_MEM_LENGTH
<1>3. CASE Named(m, v) # {}
  <2> DEFINE i == FirstOf(Named(m, v))
             r == [m[i] EXCEPT !.value = x]
  <2>1. i \in Named(m, v)
    <3> DEFINE N == Named(m, v)
    <3>1. N \subseteq Nat /\ N # {}
      BY <1>2, <1>3
    <3> HIDE DEF N
    <3>2. FirstOf(N) \in N
      BY <3>1, First
    <3> QED
      BY <3>2 DEF N
  <2>2. n = [m EXCEPT ![i] = r]
    BY <1>3, <1>1, Zenon DEF mem_set_value
  <2> HIDE DEF i, n
  <2>3. i \in Index /\ i < varmemsize /\ m[i] \in Cell
    BY <1>1, <1>2, <2>1
  <2>4. ASSUME NEW y \in Cell
        PROVE  [y EXCEPT !.value = x] \in Cell /\ [y EXCEPT !.value = x].value = x
    BY DEF Cell
  <2>5. r \in Cell /\ r.value = x
    BY <2>3, <2>4
  <2> HIDE DEF r
  <2>6. n \in [Index -> Cell] /\ n[i] = r /\ \A j \in Index : j # i => n[j] = m[j]
    BY <1>1, <2>2, <2>3, <2>5
  <2>7. \A j \in Index : j < varmemsize => n[j].value \in VarValue \cup {None}
    BY <1>1, <2>5, <2>6
  <2>8. \A j \in Index : j >= varmemsize => j # i
    BY <2>3, SizeAssumption DEF Index, SHELL_MEM_LENGTH
  <2> QED
    BY <2>6, <2>7, <2>8 DEF n
<1>4. CASE Named(m, v) = {} /\ Named(m, None) # {}
  <2> DEFINE i == FirstOf(Named(m, None))
             r == [var |-> v, value |-> x]
  <2>1. i \in Named(m, None)
    <3> DEFINE N == Named(m, None)
    <3>1. N \subseteq Nat /\ N # {}
      BY <1>2, <1>4
    <3> HIDE DEF N
    <3>2. FirstOf(N) \in N
      BY <3>1, First
    <3> QED
      BY <3>2 DEF N
  <2>2. n = [m EXCEPT ![i] = r]
    BY <1>4, <1>1, Zenon DEF mem_set_value
  <2> HIDE DEF i, n
  <2>3. i \in Index /\ i < varmemsize
    BY <1>1, <1>2, <2>1
  <2>5. r \in Cell /\ r.value = x
    BY DEF Cell
  <2> HIDE DEF r
  <2>6. n \in [Index -> Cell] /\ n[i] = r /\ \A j \in Index : j # i => n[j] = m[j]
    BY <1>1, <2>2, <2>3, <2>5
  <2>7. \A j \in Index : j < varmemsize => n[j].value \in VarValue \cup {None}
    BY <1>1, <2>5, <2>6
  <2>8. \A j \in Index : j >= varmemsize => j # i
    BY <2>3, SizeAssumption DEF Index, SHELL_MEM_LENGTH
  <2> QED
    BY <2>6, <2>7, <2>8 DEF n
<1>5. CASE Named(m, v) = {} /\ Named(m, None) = {}
  BY <1>1, <1>5 DEF mem_set_value
<1> QED
  BY <1>3, <1>4, <1>5

\* Only the variables differ.
SameFrames(m, n) == \A i \in Index : i >= varmemsize => n[i] = m[i]

\* The frames are what they were when no line of them changed.
LEMMA FramesKept ==
  ASSUME NEW m, NEW n, SameFrames(m, n)
  PROVE  /\ FreeFrames(n) = FreeFrames(m)
         /\ \A f \in Frame : \A i \in FrameLines(f) : i \in Index /\ n[i] = m[i]
<1>1. ASSUME NEW f \in Frame, NEW i \in FrameLines(f)
      PROVE  i \in Index /\ n[i] = m[i]
  BY Frames DEF SameFrames
<1>2. \A f \in Frame : n[FrameStart(f)] = m[FrameStart(f)]
  <2>1. \A f \in Frame : FrameStart(f) \in FrameLines(f)
    BY Frames DEF FrameLines
  <2> QED
    BY <1>1, <2>1
<1> QED
  BY <1>1, <1>2 DEF FreeFrames, Frame

\* What a command does to the shell memory and to the flow of control.
LEMMA Interpreted ==
  ASSUME NEW c \in AnyCommand, interpreter(c), MemoryOK
  PROVE  /\ MemoryOK' /\ SameFrames(shellmemory, shellmemory')
         /\ \/ todo' = <<>> /\ request' = None /\ status' \in {status, "exited"}
            \/ request' \in {"RR", "FCFS"} /\ status' = "running"
<1> DEFINE m == shellmemory
           n == shellmemory'
<1>1. c.op \in Op /\ (c.op = "set" => c.args[1] \in VarName /\ c.args[2] \in VarValue)
  BY Commands
<1>2. MemOK(m)
  BY DEF MemoryOK
<1>3. /\ n \in [Index -> Cell]
      /\ \A i \in Index : i < varmemsize => n[i].value \in VarValue \cup {None}
      /\ \A i \in Index : i >= varmemsize => n[i] = m[i]
  <2>1. CASE c.op = "set"
    <3>1. n = mem_set_value(m, c.args[1], c.args[2])
      BY <2>1 DEF interpreter
    <3> QED
      BY <1>1, <1>2, <2>1, <3>1, SetValue
  <2>2. CASE c.op = "resetmem"
    <3>1. n = [i \in Index |-> IF i < varmemsize THEN Free ELSE m[i]]
      BY <2>2 DEF interpreter, resetvarmem
    <3>2. Free \in Cell /\ Free.value = None /\ m \in [Index -> Cell]
      BY <1>2 DEF Free, Cell, MemOK
    <3>3. \A i \in Index : i >= varmemsize => ~(i < varmemsize)
      BY SizeAssumption DEF Index, SHELL_MEM_LENGTH
    <3> HIDE DEF n, m
    <3> QED
      BY <3>1, <3>2, <3>3
  <2>3. CASE c.op \notin {"set", "resetmem"}
    <3>1. n = m
      BY <1>1, <2>3 DEF interpreter
    <3> QED
      BY <1>2, <3>1 DEF MemOK
  <2> QED
    BY <2>1, <2>2, <2>3
<1>4. SameFrames(m, n)
  BY <1>3 DEF SameFrames
<1>5. /\ FreeFrames(n) = FreeFrames(m)
      /\ \A f \in Frame : \A i \in FrameLines(f) : i \in Index /\ n[i] = m[i]
  <2> HIDE DEF m, n
  <2> QED
    BY <1>4, FramesKept
<1>6. MemOK(n)
  <2> HIDE DEF m, n
  <2>1. \A f \in FreeFrames(n) : \A i \in FrameLines(f) : n[i] = Free
    <3>1. FreeFrames(n) \subseteq Frame
      BY DEF FreeFrames, Frame
    <3> QED
      BY <1>2, <1>5, <3>1 DEF MemOK
  <2>2. \A i \in Index : i >= varmemsize =>
          n[i] = Free \/ (n[i].value \in Line /\ n[i].var = n[i].value.script)
    BY <1>2, <1>3 DEF MemOK
  <2> QED
    BY <1>3, <2>1, <2>2 DEF MemOK
<1>7. \/ todo' = <<>> /\ request' = None /\ status' \in {status, "exited"}
      \/ request' \in {"RR", "FCFS"} /\ status' = "running"
  BY <1>1 DEF interpreter, Op
<1> QED
  BY <1>4, <1>6, <1>7 DEF MemoryOK

\* A line that is fetched is a line of a script, or nothing.
LEMMA LineAt ==
  ASSUME MemoryOK, NEW i \in Index, i >= varmemsize
  PROVE  shellmemory[i].value \in Line \cup {None} /\ shellmemory[i].value \in LineOf \cup {None}
<1>1. shellmemory[i].value \in Line \cup {None}
  BY DEF MemoryOK, MemOK, Free
<1> QED
  BY <1>1 DEF Line

\* The line that execute_process parses.
LEMMA Parsed ==
  ASSUME MemoryOK, NEW v \in Line \cup {None}, parseInput(v), status = "running",
         todo = <<>>, request = None
  PROVE  /\ MemoryOK' /\ SameFrames(shellmemory, shellmemory')
         /\ \/ todo' = <<>> /\ request' = None /\ status' \in {"running", "exited"}
            \/ request' \in {"RR", "FCFS"} /\ status' = "running"
<1>1. CASE v = None
  BY <1>1 DEF parseInput, SameFrames, MemoryOK
<1>2. CASE v # None
  <2>1. v \in Line /\ interpreter(Program[v.script][v.line])
    BY <1>2 DEF parseInput
  <2> DEFINE c == Program[v.script][v.line]
  <2>2. c \in AnyCommand
    BY <2>1, LineIsCommand
  <2>3. interpreter(c)
    BY <2>1
  <2> HIDE DEF c
  <2> QED
    BY <2>2, <2>3, Interpreted
<1> QED
  BY <1>1, <1>2

-----------------------------------------------------------------------------
(* Every state: queue, control, page tables and memory.                     *)

Base == QueueOK /\ ControlOK /\ TablesOK /\ MemoryOK

\* No process, nothing loaded.
LEMMA BaseInit == Init => Base
<1> SUFFICES ASSUME Init PROVE Base
  OBVIOUS
<1>1. QueueOK
  BY DEF Init, QueueOK, Pid
<1>2. ControlOK
  BY DEF Init, ControlOK
<1>3. TablesOK
  BY DEF Init, TablesOK, Pid
<1>4. MemoryOK
  <2>1. Free \in Cell /\ Free.value = None
    BY DEF Free, Cell
  <2>2. \A i \in Index : shellmemory[i] = Free
    BY DEF Init, mem_init
  <2>3. shellmemory \in [Index -> Cell]
    BY <2>1 DEF Init, mem_init
  <2>4. \A f \in FreeFrames(shellmemory) : \A i \in FrameLines(f) : i \in Index
    <3>1. \A f \in FreeFrames(shellmemory) : f \in Frame
      BY DEF FreeFrames, Frame
    <3> QED
      BY <3>1, Frames
  <2> QED
    BY <2>1, <2>2, <2>3, <2>4 DEF MemoryOK, MemOK
<1> QED
  BY <1>1, <1>2, <1>3, <1>4 DEF Base

\* The PCBs that are typed: what other lemmas ask of them.
LEMMA TableBounds ==
  ASSUME QueueOK, TablesOK, NEW p \in Pid
  PROVE  LET q == pcb[p] IN
         /\ q \in PCB /\ q.filename \in Script /\ q.PC \in Nat /\ q.current_page \in Nat
         /\ q.current_page \in Page /\ q.num_pages \in Nat /\ q.num_pages <= PageTableSize
         /\ q.pages_needed \in 1 .. PageTableSize - 1
         /\ \A c \in Page : c < q.num_pages => q.pagetable[c] \in Frame
         /\ \A c \in 0 .. q.num_pages - 1 : c \in Page
<1> DEFINE q == pcb[p]
<1>1. q \in PCB
  BY DEF QueueOK, Pid
<1>2. /\ q.pages_needed = countPages(q.filename)
      /\ q.num_pages \in 1 .. q.pages_needed
      /\ \A c \in Page : q.pagetable[c] = -1 <=> c >= q.num_pages
      /\ q.current_page <= q.pages_needed
  <2>1. TableOK(p)
    BY DEF TablesOK
  <2>2. q.pages_needed \in Nat /\ q.current_page \in Nat /\ q.num_pages \in Nat
    <3> HIDE DEF q
    <3> QED
      BY <1>1 DEF PCB
  <2> QED
    BY <2>1, <2>2 DEF TableOK
<1> HIDE DEF q
<1>3. /\ q.filename \in Script /\ q.PC \in Nat /\ q.current_page \in Nat
      /\ q.num_pages \in Nat /\ q.pagetable \in [Page -> {-1} \cup Frame]
  BY <1>1 DEF PCB
<1>4. q.pages_needed \in 1 .. PageTableSize - 1
  BY <1>2, <1>3, PageCount
<1>5. \A c \in Page : c \in Nat
  BY SizeAssumption DEF Page
<1>6. \A c \in Page : c < q.num_pages => q.pagetable[c] \in Frame
  BY <1>2, <1>3, <1>5
<1>7. q.current_page \in Page /\ q.num_pages <= PageTableSize
      /\ \A c \in 0 .. q.num_pages - 1 : c \in Page
  BY <1>2, <1>3, <1>4, SizeAssumption DEF Page
<1> QED
  BY <1>1, <1>3, <1>4, <1>6, <1>7 DEF q

\* A process that a step leaves alone keeps its page table.
LEMMA SameTable ==
  ASSUME NEW p, TableOK(p), pcb'[p] = pcb[p],
         Faulting(p)' <=> Faulting(p), Ending(p)' <=> Ending(p)
  PROVE  TableOK(p)'
  BY DEF TableOK

\* Steps that change neither PCBs nor queue nor memory.
LEMMA BaseQuiet ==
  ASSUME Base, UNCHANGED <<shellmemory, pcb, ready, cur, after>>, ControlOK'
  PROVE  Base'
<1>1. QueueOK'
  BY DEF Base, QueueOK, Pid
<1>2. TablesOK'
  BY SameTable DEF Base, TablesOK, Pid, Faulting, Ending
<1>3. MemoryOK'
  BY DEF Base, MemoryOK
<1> QED
  BY <1>1, <1>2, <1>3 DEF Base

\* A crash stops everything as it stands.
LEMMA BaseCrash == ASSUME Base, Crash PROVE Base'
<1>1. ControlOK'
  BY DEF Base, ControlOK, Crash, control, command
<1> QED
  BY <1>1, BaseQuiet DEF Crash, control, command

\* run of a file that does not exist goes on to schedule.
LEMMA BaseMissing == ASSUME Base, RunMissing PROVE Base'
<1>1. ControlOK'
  BY DEF Base, ControlOK, RunMissing, Loading, control
<1> QED
  BY <1>1, BaseQuiet DEF RunMissing, control

\* A policy is chosen, or the scheduler that runs already goes on.
LEMMA BaseSchedule == ASSUME Base, schedule_by_policy PROVE Base'
<1>1. ControlOK'
  BY DEF Base, ControlOK, schedule_by_policy, PolicyAfter
<1> QED
  BY <1>1, BaseQuiet DEF schedule_by_policy

\* An empty queue brings the prompt back, with nothing left over: in_background was
\* cleared by the last process to end.
LEMMA BaseSchedulerDone == ASSUME Base, SchedulerDone PROVE Base'
<1>1. ControlOK'
  BY DEF Base, ControlOK, SchedulerDone, Idle, SchedulerOver, command
<1> QED
  BY <1>1, BaseQuiet DEF SchedulerDone, command

\* A command is typed at a clean prompt.
LEMMA BaseType == ASSUME Base, NEW c \in Command, Type(c) PROVE Base'
<1>0. c \in AnyCommand /\ interpreter(c) /\ MemoryOK
  BY DEF AnyCommand, Type, Base
<1>1. /\ MemoryOK'
      /\ \/ todo' = <<>> /\ request' = None /\ status' \in {status, "exited"}
         \/ request' \in {"RR", "FCFS"} /\ status' = "running"
  BY <1>0, Interpreted
<1>2. UNCHANGED <<pcb, ready, in_background, policy, cur, quanta, after, evicted>>
      /\ status = "prompt"
  BY DEF Type, control
<1>3. ControlOK'
  BY <1>1, <1>2, NoneAssumption DEF Base, ControlOK
<1>4. QueueOK'
  BY <1>2 DEF Base, QueueOK, Pid
<1>5. TablesOK'
  BY <1>2, SameTable DEF Base, TablesOK, Pid, Faulting, Ending
<1> QED
  BY <1>1, <1>3, <1>4, <1>5 DEF Base

\* A queue of distinct pids that gets one more at its tail.
LEMMA Queued ==
  ASSUME NEW q \in Seq(Nat), NEW p \in Nat
  PROVE  LET r == Append(q, p) IN
         /\ r \in Seq(Nat) /\ Len(r) = Len(q) + 1 /\ r # <<>>
         /\ r[Len(q) + 1] = p
         /\ \A i \in 1 .. Len(q) : r[i] = q[i]
         /\ \A i \in 1 .. Len(r) : i = Len(q) + 1 \/ i \in 1 .. Len(q)
  OBVIOUS

\* The process that leaves the queue's head, and those that stay.
LEMMA Dequeued ==
  ASSUME NEW q \in Seq(Nat), q # <<>>
  PROVE  /\ Tail(q) \in Seq(Nat) /\ Len(Tail(q)) = Len(q) - 1 /\ Len(q) >= 1
         /\ Head(q) = q[1]
         /\ \A i \in 1 .. Len(Tail(q)) : Tail(q)[i] = q[i + 1]
  OBVIOUS

\* cur goes to the tail of the queue.
LEMMA CurToTail ==
  ASSUME QueueOK, cur # 0, ready' = Append(ready, cur), cur' = 0,
         pcb' \in Seq(PCB), Pid' = Pid, \A p \in Pid : pcb'[p].done = pcb[p].done
  PROVE  QueueOK' /\ ready' # <<>>
<1>1. ready \in Seq(Nat) /\ cur \in Nat /\ cur \in Pid /\ Len(ready) \in Nat
  BY DEF QueueOK, Pid
<1>2. /\ ready' \in Seq(Nat) /\ Len(ready') = Len(ready) + 1 /\ ready' # <<>>
      /\ ready'[Len(ready) + 1] = cur
      /\ \A i \in 1 .. Len(ready) : ready'[i] = ready[i]
      /\ \A i \in 1 .. Len(ready') : i = Len(ready) + 1 \/ i \in 1 .. Len(ready)
  BY <1>1, Queued
<1>3. \A i \in 1 .. Len(ready') :
        ready'[i] \in Pid /\ ready'[i] # 0 /\ ~pcb'[ready'[i]].done
  <2> SUFFICES ASSUME NEW i \in 1 .. Len(ready')
               PROVE  ready'[i] \in Pid /\ ready'[i] # 0 /\ ~pcb'[ready'[i]].done
    OBVIOUS
  <2> DEFINE p == ready'[i]
  <2>1. p \in Pid /\ ~pcb[p].done
    BY <1>1, <1>2 DEF QueueOK
  <2> HIDE DEF p
  <2>2. p # 0 /\ ~pcb'[p].done
    BY <2>1 DEF Pid
  <2> QED
    BY <2>1, <2>2 DEF p
<1>4. \A i, j \in 1 .. Len(ready') : ready'[i] = ready'[j] => i = j
  BY <1>1, <1>2 DEF QueueOK
<1>5. ASSUME NEW p \in Pid
      PROVE  pcb'[p].done \/ p = 0 \/ \E i \in 1 .. Len(ready') : ready'[i] = p
  <2>1. CASE pcb[p].done
    BY <2>1
  <2>2. CASE p = cur
    BY <2>2, <1>1, <1>2
  <2>3. ASSUME NEW i \in 1 .. Len(ready), ready[i] = p
        PROVE  \E j \in 1 .. Len(ready') : ready'[j] = p
    BY <2>3, <1>1, <1>2
  <2> QED
    BY <2>1, <2>2, <2>3 DEF QueueOK
<1> QED
  BY <1>2, <1>3, <1>4, <1>5 DEF QueueOK

\* The head of the queue runs.
LEMMA BaseDispatch == ASSUME Base, Dispatch PROVE Base'
<1>1. /\ Idle /\ cur = 0 /\ ready # <<>> /\ policy # None
      /\ cur' = Head(ready) /\ ready' = Tail(ready)
      /\ UNCHANGED <<shellmemory, pcb, in_background, policy, todo, request, after,
                     status, commands, evicted>>
  BY DEF Dispatch, command
<1>2. ready \in Seq(Nat) /\ Len(ready) \in Nat
  BY DEF Base, QueueOK
<1>3. /\ ready' \in Seq(Nat) /\ Len(ready') = Len(ready) - 1 /\ Len(ready) >= 1
      /\ cur' = ready[1]
      /\ \A i \in 1 .. Len(ready') : ready'[i] = ready[i + 1]
  BY <1>1, <1>2, Dequeued
<1>4. QueueOK'
  <2>1. cur' \in Pid /\ ~pcb[cur'].done
    BY <1>2, <1>3 DEF Base, QueueOK
  <2>2. \A i \in 1 .. Len(ready') : i + 1 \in 1 .. Len(ready) /\ i + 1 # 1
    BY <1>2, <1>3
  <2>3. \A i \in 1 .. Len(ready') :
          ready'[i] \in Pid /\ ready'[i] # cur' /\ ~pcb[ready'[i]].done
    <3> SUFFICES ASSUME NEW i \in 1 .. Len(ready')
                 PROVE  ready'[i] \in Pid /\ ready'[i] # cur' /\ ~pcb[ready'[i]].done
      OBVIOUS
    <3>1. ready'[i] = ready[i + 1] /\ i + 1 \in 1 .. Len(ready) /\ i + 1 # 1
          /\ 1 \in 1 .. Len(ready)
      BY <1>2, <1>3, <2>2
    <3>2. ready[i + 1] \in Pid /\ ~pcb[ready[i + 1]].done /\ ready[i + 1] # ready[1]
      BY <3>1 DEF Base, QueueOK
    <3> QED
      BY <1>3, <3>1, <3>2
  <2>4. \A i, j \in 1 .. Len(ready') : ready'[i] = ready'[j] => i = j
    <3> SUFFICES ASSUME NEW i \in 1 .. Len(ready'), NEW j \in 1 .. Len(ready'),
                        ready'[i] = ready'[j]
                 PROVE  i = j
      OBVIOUS
    <3>1. ready[i + 1] = ready[j + 1]
      BY <1>3
    <3>2. i + 1 = j + 1
      BY <2>2, <3>1 DEF Base, QueueOK
    <3> QED
      BY <3>2
  <2>5. ASSUME NEW p \in Pid
        PROVE  pcb[p].done \/ p = cur' \/ \E i \in 1 .. Len(ready') : ready'[i] = p
    <3>1. pcb[p].done \/ \E i \in 1 .. Len(ready) : ready[i] = p
      BY <1>1 DEF Base, QueueOK, Pid
    <3>2. ASSUME NEW i \in 1 .. Len(ready), ready[i] = p, i # 1
          PROVE  \E j \in 1 .. Len(ready') : ready'[j] = p
      <4>1. i - 1 \in 1 .. Len(ready') /\ (i - 1) + 1 = i
        BY <3>2, <1>2, <1>3
      <4> QED
        BY <4>1, <3>2, <1>3
    <3> QED
      BY <3>1, <3>2, <1>3
  <2> QED
    BY <1>1, <1>3, <2>1, <2>3, <2>4, <2>5 DEF Base, QueueOK, Pid
<1>5. cur' # 0
  BY <1>4, <1>2, <1>3 DEF Base, QueueOK, Pid
<1>6. ControlOK'
  BY <1>1, <1>5 DEF Base, ControlOK, Idle
<1>7. TablesOK'
  <2>1. ASSUME NEW p \in Pid
        PROVE  TableOK(p)'
    <3>1. after = "none"
      BY <1>1 DEF Base, ControlOK
    <3>2. (Faulting(p)' <=> Faulting(p)) /\ (Ending(p)' <=> Ending(p))
      BY <1>1, <3>1 DEF Faulting, Ending
    <3> QED
      BY <1>1, <3>2, SameTable DEF Base, TablesOK
  <2> QED
    BY <1>1, <2>1 DEF TablesOK, Pid
<1>8. MemoryOK'
  BY <1>1 DEF Base, MemoryOK
<1> QED
  BY <1>4, <1>6, <1>7, <1>8 DEF Base

\* A line is over, and perhaps the turn.
LEMMA BaseLineDone == ASSUME Base, LineDone PROVE Base'
<1>1. /\ Idle /\ after = "line" /\ in_background' = FALSE /\ after' = "none"
      /\ \/ cur' = 0 /\ ready' = Append(ready, cur)
         \/ cur' = cur /\ ready' = ready
      /\ UNCHANGED <<shellmemory, pcb, policy, todo, request, status, commands, evicted>>
  BY DEF LineDone, ready_queue_add_to_tail
<1>2. cur # 0
  BY <1>1 DEF Base, ControlOK
<1>3. QueueOK'
  <2>1. CASE cur' = 0 /\ ready' = Append(ready, cur)
    <3>1. QueueOK /\ pcb' \in Seq(PCB) /\ Pid' = Pid /\ \A p \in Pid : pcb'[p].done = pcb[p].done
      BY <1>1 DEF Base, QueueOK, Pid
    <3> QED
      BY <1>2, <2>1, <3>1, CurToTail
  <2>2. CASE cur' = cur /\ ready' = ready
    BY <1>1, <2>2 DEF Base, QueueOK, Pid
  <2> QED
    BY <1>1, <2>1, <2>2
<1>4. ControlOK'
  BY <1>1, <1>2 DEF Base, ControlOK, Idle
<1>5. TablesOK'
  <2>1. ASSUME NEW p \in Pid
        PROVE  TableOK(p)'
    <3>1. (Faulting(p)' <=> Faulting(p)) /\ (Ending(p)' <=> Ending(p))
      BY <1>1 DEF Faulting, Ending
    <3> QED
      BY <1>1, <3>1, SameTable DEF Base, TablesOK
  <2> QED
    BY <1>1, <2>1 DEF TablesOK, Pid
<1>6. MemoryOK'
  BY <1>1 DEF Base, MemoryOK
<1> QED
  BY <1>3, <1>4, <1>5, <1>6 DEF Base

\* The process at the end of its last page has ended, and is in no queue.
LEMMA BaseTerminate == ASSUME Base, terminate_process PROVE Base'
<1>1. /\ Idle /\ after = "end" /\ pcb' = [pcb EXCEPT ![cur].done = TRUE]
      /\ in_background' = FALSE /\ ready' = ready /\ after' = "none" /\ cur' = 0
      /\ UNCHANGED <<shellmemory, policy, quanta, todo, request, status,
                     commands, evicted>>
  BY DEF terminate_process, BackgroundAtEnd, QueueAtEnd
<1>2. cur \in Pid /\ pcb \in Seq(PCB) /\ cur # 0 /\ pcb[cur] \in PCB
  BY <1>1 DEF Base, ControlOK, QueueOK, Pid
<1> DEFINE r == [pcb[cur] EXCEPT !.done = TRUE]
<1>3. pcb' = [pcb EXCEPT ![cur] = r]
  BY <1>1, Zenon
<1>4. /\ r \in PCB
      /\ r.filename = pcb[cur].filename /\ r.PC = pcb[cur].PC
      /\ r.current_page = pcb[cur].current_page /\ r.pages_needed = pcb[cur].pages_needed
      /\ r.num_pages = pcb[cur].num_pages /\ r.pagetable = pcb[cur].pagetable
      /\ r.done = TRUE
  BY <1>2, SetDone
<1> HIDE DEF r
<1>5. /\ pcb' \in Seq(PCB) /\ Len(pcb') = Len(pcb) /\ Pid' = Pid
      /\ pcb'[cur] = r
      /\ \A q \in Pid : q # cur => pcb'[q] = pcb[q]
  BY <1>2, <1>3, <1>4, ReplacedPCB
<1>6. QueueOK'
  <2>1. \A i \in 1 .. Len(ready) : ready[i] \in Pid /\ ready[i] # cur /\ ~pcb[ready[i]].done
    BY DEF Base, QueueOK
  <2>2. \A i \in 1 .. Len(ready) : ready[i] \in Pid /\ ready[i] # 0 /\ ~pcb'[ready[i]].done
    BY <2>1, <1>5 DEF Pid
  <2>3. \A p \in Pid : pcb'[p].done \/ \E i \in 1 .. Len(ready) : ready[i] = p
    BY <1>4, <1>5 DEF Base, QueueOK
  <2> QED
    BY <1>1, <1>5, <2>2, <2>3 DEF Base, QueueOK
<1>7. ControlOK'
  BY <1>1 DEF Base, ControlOK, Idle
<1>8. TablesOK'
  <2>1. ASSUME NEW p \in Pid, p # cur
        PROVE  TableOK(p)'
    <3>1. (Faulting(p)' <=> Faulting(p)) /\ (Ending(p)' <=> Ending(p))
      BY <1>1, <1>5, <2>1 DEF Faulting, Ending
    <3> QED
      BY <1>5, <2>1, <3>1, SameTable DEF Base, TablesOK
  <2>2. TableOK(cur)
    BY <1>2 DEF Base, TablesOK
  <2>3. ASSUME NEW p \in Pid, p = cur
        PROVE  TableOK(p)'
    <3>1. TableOK(p) /\ Ending(p) /\ ~Faulting(p) /\ Ending(p)' /\ ~Faulting(p)'
      BY <1>1, <1>4, <1>5, <2>2, <2>3 DEF Faulting, Ending
    <3> QED
      BY <1>4, <1>5, <2>3, <3>1 DEF TableOK
  <2> QED
    BY <1>5, <2>1, <2>3 DEF TablesOK
<1>9. MemoryOK'
  BY <1>1 DEF Base, MemoryOK
<1> QED
  BY <1>6, <1>7, <1>8, <1>9 DEF Base

\* What fetching and parsing a line leaves: used for every layer.
LineRun(v) ==
  /\ status = "running" /\ todo = <<>> /\ request = None /\ cur \in Pid /\ cur # 0
  /\ after = "none" /\ pcb[cur].PC \in Index /\ v = shellmemory[pcb[cur].PC].value
  /\ v \in Line \cup {None} /\ v \in LineOf \cup {None}
  /\ Fetch(v) /\ in_background' = TRUE /\ after' = WhatFollows
  /\ MemoryOK' /\ SameFrames(shellmemory, shellmemory')
  /\ \/ todo' = <<>> /\ request' = None /\ status' \in {"running", "exited"}
     \/ request' \in {"RR", "FCFS"} /\ status' = "running"
  /\ UNCHANGED <<ready, policy, cur, quanta, commands, evicted>>

\* ExecuteLine does what LineRun says.
LEMMA ExecuteLineRuns ==
  ASSUME Base, ExecuteLine
  PROVE  \E v : LineRun(v)
<1> DEFINE v == shellmemory[pcb[cur].PC].value
<1>1. status = "running" /\ todo = <<>> /\ request = None /\ cur # 0 /\ after = "none"
      /\ pcb[cur].PC \in Index
  BY DEF ExecuteLine, Executing, Idle, This
<1>2. cur \in Pid
  BY <1>1 DEF Base, QueueOK
<1>3. pcb[cur].PC >= varmemsize
  BY <1>2 DEF Base, TablesOK, TableOK
<1>4. v \in Line \cup {None} /\ v \in LineOf \cup {None}
  BY <1>1, <1>3, LineAt DEF Base
<1>5. /\ Fetch(v) /\ in_background' = TRUE /\ after' = WhatFollows /\ parseInput(v)
      /\ UNCHANGED <<ready, policy, cur, quanta, commands, evicted>>
  BY DEF ExecuteLine, This, control
<1> HIDE DEF v
<1>6. /\ MemoryOK' /\ SameFrames(shellmemory, shellmemory')
      /\ \/ todo' = <<>> /\ request' = None /\ status' \in {"running", "exited"}
         \/ request' \in {"RR", "FCFS"} /\ status' = "running"
  BY <1>1, <1>4, <1>5, Parsed DEF Base
<1>7. v = shellmemory[pcb[cur].PC].value
  BY DEF v
<1> QED
  BY <1>1, <1>2, <1>4, <1>5, <1>6, <1>7, Zenon DEF LineRun

\* What follows a line, from the place of its line in the page.
LEMMA Follows ==
  ASSUME Base, cur \in Pid, after = "none"
  PROVE  LET q == pcb[cur] IN
         /\ FrameStart(q.pagetable[q.current_page]) \in Nat
         /\ EndOfPage <=> q.PC >= FrameStart(q.pagetable[q.current_page]) + 2
         /\ q.current_page < q.num_pages
         /\ ~EndOfPage => WhatFollows = "line"
         /\ EndOfPage /\ q.current_page + 1 = q.pages_needed => WhatFollows = "end"
         /\ EndOfPage /\ q.current_page + 1 < q.pages_needed =>
              /\ q.current_page + 1 \in Page
              /\ WhatFollows = IF q.current_page + 1 < q.num_pages THEN "line" ELSE "fault"
<1> DEFINE q == pcb[cur]
           e == FrameStart(q.pagetable[q.current_page]) + 2
<1>1. /\ q \in PCB /\ q.PC \in Nat /\ q.current_page \in Nat
      /\ q.current_page \in Page /\ q.num_pages \in Nat /\ q.num_pages <= PageTableSize
      /\ q.pages_needed \in 1 .. PageTableSize - 1
      /\ \A c \in Page : c < q.num_pages => q.pagetable[c] \in Frame
  BY TableBounds DEF Base
<1>2. /\ q.num_pages \in 1 .. q.pages_needed
      /\ \A c \in Page : q.pagetable[c] = -1 <=> c >= q.num_pages
      /\ q.current_page < q.num_pages
  <2>1. TableOK(cur) /\ ~Faulting(cur) /\ ~Ending(cur)
    BY DEF Base, TablesOK, QueueOK, Faulting, Ending, Pid
  <2> QED
    BY <2>1 DEF TableOK
<1>3. FrameStart(q.pagetable[q.current_page]) \in Nat /\ e \in Nat
  <2>1. q.pagetable[q.current_page] \in Frame
    BY <1>1, <1>2
  <2>2. FrameStart(q.pagetable[q.current_page]) \in Nat
    BY <2>1, Frames
  <2> QED
    BY <2>2
<1>4. EndOfPage <=> q.PC + 1 > e
  BY DEF EndOfPage, end, This
<1>5. WhatFollows = CASE ~EndOfPage -> "line"
        [] EndOfPage /\ (q.current_page + 1) + 1 > q.pages_needed -> "end"
        [] EndOfPage /\ (q.current_page + 1) + 1 <= q.pages_needed
             -> IF q.pagetable[q.current_page + 1] = -1 THEN "fault" ELSE "line"
  BY Zenon DEF WhatFollows, This, NextPage
<1>6. EndOfPage \in BOOLEAN
  BY DEF EndOfPage
<1> HIDE DEF q, e
<1>7. EndOfPage <=> q.PC >= e
  BY <1>1, <1>3, <1>4
<1>8. q.current_page + 1 < q.pages_needed => q.current_page + 1 \in Page
  BY <1>1, SizeAssumption DEF Page
<1>9. /\ ~EndOfPage => WhatFollows = "line"
      /\ EndOfPage /\ q.current_page + 1 = q.pages_needed => WhatFollows = "end"
  BY <1>1, <1>5, <1>6
<1>10. ASSUME EndOfPage, q.current_page + 1 < q.pages_needed
       PROVE  WhatFollows = IF q.current_page + 1 < q.num_pages THEN "line" ELSE "fault"
  <2>1. q.current_page + 1 \in Page
    BY <1>8, <1>10
  <2>2. q.pagetable[q.current_page + 1] = -1 <=> ~(q.current_page + 1 < q.num_pages)
    BY <1>1, <1>2, <2>1
  <2>3. ~((q.current_page + 1) + 1 > q.pages_needed) /\ (q.current_page + 1) + 1 <= q.pages_needed
    BY <1>1, <1>10
  <2> QED
    BY <1>5, <1>10, <2>2, <2>3
<1> QED
  BY <1>2, <1>3, <1>7, <1>8, <1>9, <1>10 DEF q, e

\* A line is run: the page that follows decides what comes after it.
LEMMA BaseExecuteLine == ASSUME Base, ExecuteLine PROVE Base'
<1>1. PICK v : LineRun(v)
  BY ExecuteLineRuns
<1>2. LineRun(v) /\ cur \in Pid /\ after = "none"
  BY <1>1 DEF LineRun
<1> DEFINE q == pcb[cur]
<1>3. /\ q \in PCB /\ q.filename \in Script /\ q.PC \in Nat /\ q.current_page \in Nat
      /\ q.current_page \in Page /\ q.num_pages \in Nat /\ q.num_pages <= PageTableSize
      /\ q.pages_needed \in 1 .. PageTableSize - 1
  BY <1>2, TableBounds DEF Base
<1>4. /\ EndOfPage <=> q.PC >= FrameStart(q.pagetable[q.current_page]) + 2
      /\ q.current_page < q.num_pages
      /\ ~EndOfPage => WhatFollows = "line"
      /\ EndOfPage /\ q.current_page + 1 = q.pages_needed => WhatFollows = "end"
      /\ EndOfPage /\ q.current_page + 1 < q.pages_needed =>
           /\ q.current_page + 1 \in Page
           /\ WhatFollows = IF q.current_page + 1 < q.num_pages THEN "line" ELSE "fault"
  BY <1>2, Follows
<1>5. /\ pcb' \in Seq(PCB) /\ Len(pcb') = Len(pcb) /\ Pid' = Pid
      /\ \A r \in Pid : r # cur => pcb'[r] = pcb[r]
      /\ pcb'[cur].filename = q.filename
      /\ pcb'[cur].PC = q.PC + 1
      /\ pcb'[cur].current_page =
           IF EndOfPage THEN q.current_page + 1 ELSE q.current_page
      /\ pcb'[cur].pages_needed = q.pages_needed
      /\ pcb'[cur].num_pages = q.num_pages
      /\ pcb'[cur].pagetable = q.pagetable
      /\ pcb'[cur].done = q.done
  <2>1. pcb \in Seq(PCB) /\ v \in LineOf \cup {None} /\ Fetch(v)
    BY <1>2, Zenon DEF Base, QueueOK, LineRun
  <2> QED
    BY <1>2, <1>3, <2>1, Fetched
<1>6. /\ TableOK(cur) /\ ~q.done /\ cur # 0 /\ cur' = cur /\ ready' = ready
      /\ after' = WhatFollows
  BY <1>2 DEF Base, TablesOK, QueueOK, LineRun
<1>7. q.num_pages \in 1 .. q.pages_needed
  BY <1>6 DEF TableOK
<1>8. WhatFollows \in {"line", "end", "fault"}
  BY <1>3, <1>4, <1>7
<1>9. ControlOK'
  BY <1>2, <1>6, <1>8, NoneAssumption DEF LineRun, Base, ControlOK
<1>10. QueueOK'
  <2>1. \A p \in Pid : pcb'[p].done = pcb[p].done
    BY <1>5
  <2>2. ready' = ready /\ cur' = cur /\ ready \in Seq(Nat)
    BY <1>6 DEF Base, QueueOK
  <2>3. \A i \in 1 .. Len(ready) :
          ready[i] \in Pid /\ ready[i] # cur /\ ~pcb'[ready[i]].done
    BY <2>1 DEF Base, QueueOK
  <2>4. \A p \in Pid : pcb'[p].done \/ p = cur \/ \E i \in 1 .. Len(ready) : ready[i] = p
    BY <2>1 DEF Base, QueueOK
  <2>5. ~pcb'[cur].done
    BY <1>2, <1>6, <2>1
  <2> QED
    BY <1>5, <2>2, <2>3, <2>4, <2>5 DEF Base, QueueOK
<1>11. TablesOK'
  <2>1. ASSUME NEW p \in Pid, p # cur
        PROVE  TableOK(p)'
    <3>1. (Faulting(p)' <=> Faulting(p)) /\ (Ending(p)' <=> Ending(p))
      BY <1>5, <1>6, <2>1 DEF Faulting, Ending
    <3> QED
      BY <1>5, <2>1, <3>1, SameTable DEF Base, TablesOK
  <2>2. ASSUME NEW p \in Pid, p = cur
        PROVE  TableOK(p)'
    <3>0. pcb'[p] = pcb'[cur]
      BY <2>2
    <3>1. (Faulting(p)' <=> WhatFollows = "fault") /\ (Ending(p)' <=> WhatFollows = "end")
      BY <1>5, <1>6, <2>2 DEF Faulting, Ending
    <3>2. /\ q.PC >= varmemsize
          /\ q.pages_needed = countPages(q.filename)
          /\ q.num_pages >= 2 \/ q.pages_needed = 1
          /\ \A c \in Page : q.pagetable[c] = -1 <=> c >= q.num_pages
      BY <1>6 DEF TableOK
    <3> DEFINE r == pcb'[cur]
    <3>4. /\ r.filename = q.filename /\ r.PC = q.PC + 1
          /\ r.current_page = IF EndOfPage THEN q.current_page + 1 ELSE q.current_page
          /\ r.pages_needed = q.pages_needed /\ r.num_pages = q.num_pages
          /\ r.pagetable = q.pagetable
      BY <1>5
    <3> HIDE DEF q, r
    <3>5. /\ r.PC >= varmemsize
          /\ r.pages_needed = countPages(r.filename)
          /\ r.num_pages \in 1 .. r.pages_needed
          /\ r.num_pages >= 2 \/ r.pages_needed = 1
          /\ \A c \in Page : r.pagetable[c] = -1 <=> c >= r.num_pages
      BY <1>3, <1>7, <3>2, <3>4, SizeAssumption
    <3>6. /\ WhatFollows = "fault" =>
               r.current_page = r.num_pages /\ r.num_pages < r.pages_needed
          /\ WhatFollows = "end" => r.current_page = r.pages_needed
          /\ WhatFollows = "line" => r.current_page < r.num_pages
      BY <1>3, <1>4, <1>7, <3>4
    <3> QED
      BY <1>8, <3>0, <3>1, <3>5, <3>6 DEF TableOK, r
  <2> QED
    BY <1>5, <2>1, <2>2 DEF TablesOK
<1> QED
  BY <1>2, <1>9, <1>10, <1>11 DEF Base, LineRun

\* A page fault is handled when a process faults, which is the one that runs.
LEMMA FaultCases ==
  ASSUME Base, handle_page_fault
  PROVE  /\ cur \in Pid /\ cur # 0 /\ Faulting(cur) /\ status = "running"
         /\ \/ /\ Crash
               /\ \/ pcb[cur].dangling \/ cwd # Home
                  \/ find_free_frame(shellmemory, pcb[cur]) > TOTAL_FRAMES
            \/ \E s, f : FaultLoaded(s, f)
<1>1. cur # 0 /\ after = "fault" /\ status = "running"
  BY DEF handle_page_fault, Base, ControlOK, Idle
<1>2. cur \in Pid /\ pcb \in Seq(PCB)
  BY <1>1 DEF Base, QueueOK
<1>3. pcb[cur].current_page \in Page /\ pcb[cur].num_pages <= PageTableSize
  BY <1>2, TableBounds DEF Base
<1> QED
  BY <1>1, <1>2, <1>3, FaultHandled DEF Faulting

\* The faulting process has its page and is in the queue.
LEMMA BaseFault == ASSUME Base, handle_page_fault PROVE Base'
<1>1. CASE Crash
  BY <1>1, BaseCrash
<1>2. ASSUME NEW s, NEW f, FaultLoaded(s, f)
      PROVE  Base'
  <2> DEFINE q == pcb[cur]
  <2>1. cur \in Pid /\ cur # 0 /\ Faulting(cur) /\ TableOK(cur) /\ ~q.done
    BY FaultCases DEF Base, TablesOK, QueueOK
  <2>2. /\ q \in PCB /\ q.current_page \in Nat
        /\ q.current_page \in Page /\ q.num_pages \in Nat
        /\ q.pages_needed \in 1 .. PageTableSize - 1
    BY <2>1, TableBounds DEF Base
  <2>3. /\ s \in Script /\ f \in Frame
        /\ shellmemory' = With(shellmemory, s, q.current_page, f)
        /\ pcb' \in Seq(PCB) /\ Len(pcb') = Len(pcb) /\ Pid' = Pid
        /\ \A r \in Pid : r # cur => pcb'[r] = pcb[r]
        /\ pcb'[cur].done = q.done
        /\ ready' = Append(ready, cur) /\ after' = "none" /\ cur' = 0
        /\ evicted' = (evicted \/ f \notin FreeFrames(shellmemory))
        /\ UNCHANGED <<in_background, policy, quanta, todo, request, status, commands>>
    BY <1>2 DEF FaultLoaded
  <2>4. MemoryOK'
    BY <2>2, <2>3, Loaded DEF Base, MemoryOK, With
  <2>5. QueueOK' /\ ready' # <<>>
    <3>1. \A p \in Pid : pcb'[p].done = pcb[p].done
      BY <2>3
    <3> QED
      BY <2>1, <2>3, <3>1, CurToTail DEF Base
  <2>6. evicted' \in BOOLEAN
    BY <2>3
  <2>9. status = "running" /\ after = "fault" /\ request = None /\ todo = <<>> /\ in_background
    BY <2>1, FaultCases DEF handle_page_fault, Idle, Base, ControlOK
  <2>7. ControlOK'
    BY <2>1, <2>3, <2>5, <2>6, <2>9 DEF Base, ControlOK
  <2>8. TablesOK'
    <3>1. ASSUME NEW p \in Pid, p # cur
          PROVE  TableOK(p)'
      <4>0. p # 0
        BY DEF Pid
      <4>1. (Faulting(p)' <=> Faulting(p)) /\ (Ending(p)' <=> Ending(p))
        BY <2>3, <3>1, <4>0 DEF Faulting, Ending
      <4> QED
        BY <2>3, <3>1, <4>1, SameTable DEF Base, TablesOK
    <3>2. ASSUME NEW p \in Pid, p = cur
          PROVE  TableOK(p)'
      <4>0. pcb'[p] = pcb'[cur] /\ ~Faulting(p)' /\ ~Ending(p)'
        BY <2>1, <2>3, <3>2 DEF Faulting, Ending
      <4> DEFINE r == pcb'[cur]
      <4>1. /\ r.filename = q.filename /\ r.PC = FrameStart(f)
            /\ r.current_page = q.current_page /\ r.pages_needed = q.pages_needed
            /\ r.num_pages = q.num_pages + 1
            /\ r.pagetable[q.current_page] = f
            /\ \A c \in Page : c # q.current_page => r.pagetable[c] = q.pagetable[c]
        BY <1>2 DEF FaultLoaded
      <4>2. /\ q.pages_needed = countPages(q.filename)
            /\ q.num_pages \in 1 .. q.pages_needed
            /\ \A c \in Page : q.pagetable[c] = -1 <=> c >= q.num_pages
            /\ q.current_page = q.num_pages /\ q.num_pages < q.pages_needed
        BY <2>1 DEF TableOK
      <4> HIDE DEF q, r
      <4>3. r.PC >= varmemsize
        BY <2>3, <4>1, Frames
      <4>4. \A c \in Page : r.pagetable[c] = -1 <=> c >= r.num_pages
        <5>1. f # -1
          BY <2>3, SizeAssumption DEF Frame
        <5>2. \A c \in Page : c \in Nat
          BY SizeAssumption DEF Page
        <5> QED
          BY <2>2, <4>1, <4>2, <5>1, <5>2
      <4>5. /\ r.pages_needed = countPages(r.filename)
            /\ r.num_pages \in 1 .. r.pages_needed /\ r.num_pages >= 2
            /\ r.current_page < r.num_pages
        BY <2>2, <4>1, <4>2
      <4> QED
        BY <4>0, <4>3, <4>4, <4>5 DEF TableOK, r
    <3> QED
      BY <2>3, <3>1, <3>2 DEF TablesOK
  <2> QED
    BY <2>4, <2>5, <2>7, <2>8 DEF Base
<1> QED
  BY <1>1, <1>2, FaultCases

\* A process that was created is typed and its page table is in order.
LEMMA CreatedQueued ==
  ASSUME Base, NEW s \in Script, NEW q, NEW f, NEW n, NEW m, Created(s, q, f, n, m),
         cur' = cur, after' = after, NEW N, N = Len(pcb) + 1
  PROVE  /\ QueueOK' /\ ready' # <<>>
         /\ pcb' \in Seq(PCB) /\ Len(pcb) \in Nat /\ Len(pcb') = N
         /\ Pid' = Pid \cup {N} /\ N \notin Pid
         /\ pcb'[N] = q
         /\ \A p \in Pid : pcb'[p] = pcb[p] /\ TableOK(p)'
         /\ ~Faulting(N)' /\ ~Ending(N)'
<1>1. q \in PCB /\ pcb' = Append(pcb, q) /\ ready' = Append(ready, Len(pcb) + 1) /\ ~q.done
  BY DEF Created, Starts
<1>2. /\ pcb' \in Seq(PCB) /\ Len(pcb) \in Nat /\ Len(pcb') = N
      /\ Pid' = Pid \cup {N} /\ N \notin Pid
      /\ pcb'[N] = q
      /\ \A p \in Pid : pcb'[p] = pcb[p]
  BY <1>1, AddedPCB DEF Base, QueueOK
<1>3. N \in Nat /\ N # 0 /\ ready \in Seq(Nat) /\ Len(ready) \in Nat /\ cur # N
  BY <1>2 DEF Base, QueueOK
<1>4. ready' = Append(ready, N)
  BY <1>1
<1>5. /\ ready' \in Seq(Nat) /\ Len(ready') = Len(ready) + 1 /\ ready' # <<>>
      /\ ready'[Len(ready) + 1] = N
      /\ \A i \in 1 .. Len(ready) : ready'[i] = ready[i]
      /\ \A i \in 1 .. Len(ready') : i = Len(ready) + 1 \/ i \in 1 .. Len(ready)
  BY <1>3, <1>4, Queued
<1>6. \A i \in 1 .. Len(ready) : ready[i] \in Pid /\ ready[i] # cur /\ ~pcb[ready[i]].done
  BY DEF Base, QueueOK
<1>7. QueueOK'
  <2>1. \A i \in 1 .. Len(ready') :
          ready'[i] \in Pid' /\ ready'[i] # cur' /\ ~pcb'[ready'[i]].done
    <3> SUFFICES ASSUME NEW i \in 1 .. Len(ready')
                 PROVE  ready'[i] \in Pid' /\ ready'[i] # cur' /\ ~pcb'[ready'[i]].done
      OBVIOUS
    <3>1. CASE i = Len(ready) + 1
      BY <1>1, <1>2, <1>3, <1>5, <3>1
    <3>2. CASE i \in 1 .. Len(ready)
      BY <1>2, <1>5, <1>6, <3>2
    <3> QED
      BY <1>5, <3>1, <3>2
  <2>2. \A i, j \in 1 .. Len(ready') : ready'[i] = ready'[j] => i = j
    <3>1. \A i, j \in 1 .. Len(ready) : ready[i] = ready[j] => i = j
      BY DEF Base, QueueOK
    <3>2. \A i \in 1 .. Len(ready) : ready[i] # N
      BY <1>2, <1>6
    <3> QED
      BY <1>5, <3>1, <3>2
  <2>3. cur' \in {0} \cup Pid' /\ (cur' # 0 => ~pcb'[cur'].done)
    BY <1>2 DEF Base, QueueOK
  <2>4. ASSUME NEW p \in Pid'
        PROVE  pcb'[p].done \/ p = cur' \/ \E i \in 1 .. Len(ready') : ready'[i] = p
    <3>1. CASE p = N
      BY <1>3, <1>5, <3>1
    <3>2. CASE p \in Pid
      <4>1. pcb'[p].done \/ p = cur' \/ \E i \in 1 .. Len(ready) : ready[i] = p
        BY <1>2, <3>2 DEF Base, QueueOK
      <4>2. \A i \in 1 .. Len(ready) : i \in 1 .. Len(ready')
        BY <1>3, <1>5
      <4> QED
        BY <4>1, <4>2, <1>5
    <3> QED
      BY <1>2, <3>1, <3>2
  <2> QED
    BY <1>2, <1>5, <2>1, <2>2, <2>3, <2>4 DEF QueueOK
<1>8. ASSUME NEW p \in Pid
      PROVE  TableOK(p)'
  <2>1. (Faulting(p)' <=> Faulting(p)) /\ (Ending(p)' <=> Ending(p))
    BY <1>2 DEF Faulting, Ending
  <2> QED
    BY <1>2, <2>1, SameTable DEF Base, TablesOK
<1>9. ~Faulting(N)' /\ ~Ending(N)'
  BY <1>1, <1>2, <1>3 DEF Faulting, Ending
<1> QED
  BY <1>2, <1>5, <1>7, <1>8, <1>9

\* The page table of a new process that has n of its pages.
LEMMA StartsTable ==
  ASSUME NEW s \in Script, NEW q, NEW d, NEW n \in {1, 2}, NEW f \in Frame, Starts(q, s, d, n, f),
         n = 1 <=> countPages(s) = 1, n = 2 => q.pagetable[1] \in Frame,
         NEW N, pcb'[N] = q, ~Faulting(N)', ~Ending(N)'
  PROVE  TableOK(N)'
<1>1. /\ q.PC = FrameStart(f) /\ q.current_page = 0 /\ q.pages_needed = countPages(s)
      /\ q.num_pages = n /\ q.filename = s /\ q.pagetable[0] = f
      /\ \A c \in Page : c >= n => q.pagetable[c] = -1
  BY DEF Starts
<1>2. q.PC >= varmemsize
  BY <1>1, Frames
<1>3. countPages(s) \in Nat /\ countPages(s) >= 1
  BY PageCount, SizeAssumption
<1>4. \A c \in Page : q.pagetable[c] = -1 <=> c >= q.num_pages
  <2>1. \A c \in Page : c >= n \/ c = 0 \/ (n = 2 /\ c = 1)
    BY SizeAssumption DEF Page
  <2>2. -1 \notin Frame
    BY SizeAssumption DEF Frame
  <2>3. ~(0 >= n) /\ (n = 2 => ~(1 >= n))
    OBVIOUS
  <2> QED
    BY <1>1, <2>1, <2>2, <2>3
<1>5. /\ q.num_pages \in 1 .. q.pages_needed
      /\ q.num_pages >= 2 \/ q.pages_needed = 1
      /\ q.current_page < q.num_pages
  BY <1>1, <1>3
<1> QED
  BY <1>1, <1>2, <1>4, <1>5 DEF TableOK

\* A new process has one page or two, and is in the queue.
LEMMA BaseInitialize == ASSUME Base, process_initialize PROVE Base'
<1> DEFINE s == Head(todo)
<1>0. PICK N : N = Len(pcb) + 1
  OBVIOUS
<1>1. /\ cur' = cur /\ after' = after /\ status' = status /\ todo' = Tail(todo)
      /\ in_background' = in_background /\ policy' = policy /\ request' = request
      /\ status = "running" /\ todo # <<>>
  <2>1. status' = status
    BY DEF process_initialize, LoadFirstPage, LoadSecondPage, Enqueue
  <2> QED
    BY <2>1 DEF process_initialize, control, Loading
<1>2. PICK q, f, g : OnePage(s, q, f) \/ TwoPages(s, q, f, g)
  BY Initialized DEF Base, ControlOK
<1>3. s \in Script
  BY Initialized DEF Base, ControlOK
<1> HIDE DEF s
<1>4. MemOK(shellmemory)
  BY DEF Base, MemoryOK
<1>5. ASSUME NEW n \in {1, 2}, NEW m, Created(s, q, f, n, m), MemOK(m),
             n = 1 <=> countPages(s) = 1, n = 2 => q.pagetable[1] \in Frame,
             evicted' \in BOOLEAN
      PROVE  Base'
  <2>1. /\ QueueOK' /\ ready' # <<>>
        /\ Pid' = Pid \cup {N} /\ pcb'[N] = q
        /\ \A p \in Pid : TableOK(p)'
        /\ ~Faulting(N)' /\ ~Ending(N)'
    BY <1>0, <1>1, <1>3, <1>5, CreatedQueued
  <2>2. ControlOK'
    BY <1>1, <1>5, <2>1 DEF Base, ControlOK
  <2>3. MemoryOK'
    BY <1>5 DEF Created, MemoryOK
  <2>4. TablesOK'
    <3>1. f \in Frame /\ Starts(q, s, request = "RR" /\ in_background, n, f)
      BY <1>5 DEF Created
    <3>2. TableOK(N)'
      BY <1>3, <1>5, <2>1, <3>1, StartsTable
    <3> QED
      BY <2>1, <3>2 DEF TablesOK
  <2> QED
    BY <2>1, <2>2, <2>3, <2>4 DEF Base
<1>6. CASE OnePage(s, q, f)
  <2>1. f \in Frame /\ Created(s, q, f, 1, With(shellmemory, s, 0, f)) /\ countPages(s) = 1
        /\ evicted' \in BOOLEAN
    BY <1>6 DEF OnePage, Created
  <2>2. MemOK(With(shellmemory, s, 0, f))
    BY <1>3, <1>4, <2>1, Loaded DEF With
  <2> QED
    BY <1>5, <2>1, <2>2
<1>7. CASE TwoPages(s, q, f, g)
  <2> DEFINE m == With(shellmemory, s, 0, f)
  <2>1. f \in Frame /\ g \in Frame /\ Created(s, q, f, 2, With(m, s, 1, g))
        /\ countPages(s) >= 2 /\ evicted' \in BOOLEAN /\ q.pagetable[1] = g
    BY <1>7 DEF TwoPages, Created
  <2>2. MemOK(m)
    BY <1>3, <1>4, <2>1, Loaded DEF With
  <2> HIDE DEF m
  <2>3. MemOK(With(m, s, 1, g))
    BY <1>3, <2>1, <2>2, Loaded DEF With
  <2>4. countPages(s) # 1
    BY <2>1, <1>3, PageCount, SizeAssumption
  <2> QED
    BY <1>5, <2>1, <2>3, <2>4
<1> QED
  BY <1>2, <1>6, <1>7

\* Every step keeps the queue, the control state, the tables and the memory.
LEMMA BaseNext ==
  ASSUME Base, [Next]_vars
  PROVE  Base'
<1>1. CASE process_initialize
  BY <1>1, BaseInitialize
<1>2. CASE RunMissing
  BY <1>2, BaseMissing
<1>3. CASE ExecMissing
  BY <1>3, BaseCrash DEF ExecMissing
<1>4. CASE schedule_by_policy
  BY <1>4, BaseSchedule
<1>5. CASE Dispatch
  BY <1>5, BaseDispatch
<1>6. CASE ExecuteLine
  BY <1>6, BaseExecuteLine
<1>7. CASE ExecuteBeyond
  BY <1>7, BaseCrash DEF ExecuteBeyond
<1>8. CASE terminate_process
  BY <1>8, BaseTerminate
<1>9. CASE handle_page_fault
  BY <1>9, BaseFault
<1>10. CASE LineDone
  BY <1>10, BaseLineDone
<1>11. CASE SchedulerDone
  BY <1>11, BaseSchedulerDone
<1>12. ASSUME NEW c \in Command, Type(c)
       PROVE  Base'
  BY <1>12, BaseType
<1>13. CASE UNCHANGED vars
  <2>1. ControlOK' /\ UNCHANGED <<shellmemory, pcb, ready, cur, after>>
    BY <1>13 DEF vars, control, command, Base, ControlOK
  <2> QED
    BY <2>1, BaseQuiet
<1> QED
  BY <1>1, <1>2, <1>3, <1>4, <1>5, <1>6, <1>7, <1>8, <1>9, <1>10, <1>11, <1>12, <1>13
     DEF Next, Step

\* The base invariant of every state of the shell.
THEOREM BaseInvariant == Spec => []Base
<1>1. Base /\ [Next]_vars => Base'
  BY BaseNext
<1> QED
  BY BaseInit, <1>1, PTL DEF Spec

\* The shell is in a directory, whatever lines say my_cd.
LEMMA DirectoryNext ==
  ASSUME cwd \in Directory, [Next]_vars
  PROVE  cwd' \in Directory
<1>1. ASSUME NEW c, interpreter(c)
      PROVE  cwd' \in Directory
  BY <1>1 DEF interpreter
<1>2. CASE process_initialize
  BY <1>2 DEF process_initialize
<1>3. CASE RunMissing \/ schedule_by_policy \/ Dispatch \/ LineDone \/ SchedulerDone
  BY <1>3 DEF RunMissing, schedule_by_policy, Dispatch, LineDone, SchedulerDone
<1>4. CASE ExecMissing \/ ExecuteBeyond
  BY <1>4 DEF ExecMissing, ExecuteBeyond, Crash
<1>5. CASE ExecuteLine
  BY <1>1, <1>5 DEF ExecuteLine, parseInput
<1>6. CASE terminate_process
  BY <1>6 DEF terminate_process
<1>7. CASE handle_page_fault
  BY <1>7 DEF handle_page_fault, Crash
<1>8. ASSUME NEW c \in Command, Type(c)
      PROVE  cwd' \in Directory
  BY <1>1, <1>8 DEF Type
<1>9. CASE UNCHANGED vars
  BY <1>9 DEF vars
<1> QED
  BY <1>2, <1>3, <1>4, <1>5, <1>6, <1>7, <1>8, <1>9 DEF Next, Step

\* The base invariant types the state.
LEMMA BaseTyped == Base /\ cwd \in Directory => TypeOK
<1> SUFFICES ASSUME Base, cwd \in Directory PROVE TypeOK
  OBVIOUS
<1>1. DOMAIN shellmemory = Index
  BY DEF Base, MemoryOK, MemOK
<1>2. ASSUME NEW i \in Index, shellmemory[i] # Free
      PROVE  i >= varmemsize <=> shellmemory[i].value \in LineOf
  <2>1. CASE i >= varmemsize
    <3>1. shellmemory[i].value \in Line
      BY <1>2, <2>1 DEF Base, MemoryOK, MemOK
    <3> QED
      BY <2>1, <3>1 DEF Line
  <2>2. CASE i < varmemsize
    <3>1. shellmemory[i].value \in VarValue \cup {None}
      BY <2>2 DEF Base, MemoryOK, MemOK
    <3>2. shellmemory[i].value \notin LineOf
      BY <3>1, Commands, NoneAssumption
    <3>3. ~(i >= varmemsize)
      BY <2>2, SizeAssumption DEF Index, SHELL_MEM_LENGTH
    <3> QED
      BY <3>2, <3>3
  <2> QED
    BY <2>1, <2>2, SizeAssumption DEF Index, SHELL_MEM_LENGTH
<1>3. ASSUME NEW p \in Pid
      PROVE  /\ pcb[p].filename \in Script
             /\ pcb[p].current_page \in Page /\ pcb[p].num_pages \in 0 .. PageTableSize
             /\ pcb[p].pagetable \in [Page -> {-1} \cup 1 .. TOTAL_FRAMES]
             /\ pcb[p].lru_timer \in [Page -> Nat]
  <2> DEFINE q == pcb[p]
  <2>1. /\ q \in PCB /\ q.filename \in Script
        /\ q.current_page \in Page /\ q.num_pages \in Nat /\ q.num_pages <= PageTableSize
    BY TableBounds DEF Base
  <2> HIDE DEF q
  <2>2. q.pagetable \in [Page -> {-1} \cup 1 .. TOTAL_FRAMES] /\ q.lru_timer \in [Page -> Nat]
    BY <2>1 DEF PCB, Frame
  <2>3. q.num_pages \in 0 .. PageTableSize
    BY <2>1, SizeAssumption
  <2> QED
    BY <2>1, <2>2, <2>3 DEF q
<1>4. ready \in Seq(Pid) /\ cur \in {0} \cup Pid
  <2>1. ready \in Seq(Nat) /\ \A i \in 1 .. Len(ready) : ready[i] \in Pid
    BY DEF Base, QueueOK
  <2> QED
    BY <2>1 DEF Base, QueueOK
<1> QED
  BY <1>1, <1>2, <1>3, <1>4 DEF TypeOK, Base, ControlOK

\* TypeOK, for any scripts and sizes: a variable's slot never holds a line of a
\* script nor a frame a variable, and no PCB counts more pages than its table
\* has entries, whatever was evicted (load_page, mem_set_value, resetvarmem).
THEOREM TypeCorrect == Spec => []TypeOK
<1>1. Init => cwd \in Directory
  BY DirectoryAssumption DEF Init
<1>2. cwd \in Directory /\ [Next]_vars => (cwd \in Directory)'
  BY DirectoryNext
<1>3. Spec => [](cwd \in Directory)
  BY <1>1, <1>2, PTL DEF Spec
<1> QED
  BY <1>3, BaseInvariant, BaseTyped, PTL

\* Being in the queue once, running or ended exclude each other.
LEMMA QueuePlaces ==
  ASSUME QueueOK
  PROVE  OnePlace
<1> SUFFICES ASSUME NEW p \in Pid
             PROVE  Cardinality({i \in 1 .. Len(ready) : ready[i] = p})
                      + (IF cur = p THEN 1 ELSE 0) + (IF pcb[p].done THEN 1 ELSE 0) = 1
  BY DEF OnePlace
<1> DEFINE S == {i \in 1 .. Len(ready) : ready[i] = p}
<1>0. p # 0 /\ pcb[p].done \in BOOLEAN
  <2>1. pcb[p] \in PCB
    BY DEF QueueOK, Pid
  <2> QED
    BY <2>1 DEF PCB, Pid
<1>1. CASE S = {}
  <2>1. Cardinality(S) = 0
    BY <1>1, FS_EmptySet
  <2>2. (pcb[p].done \/ p = cur) /\ ~(pcb[p].done /\ p = cur)
    BY <1>0, <1>1 DEF QueueOK
  <2> HIDE DEF S
  <2>3. Cardinality(S) + (IF cur = p THEN 1 ELSE 0) + (IF pcb[p].done THEN 1 ELSE 0) = 1
    BY <2>1, <2>2
  <2> QED
    BY <2>3 DEF S
<1>2. CASE S # {}
  <2>1. PICK i \in 1 .. Len(ready) : ready[i] = p
    BY <1>2
  <2>2. S = {i}
    BY <2>1 DEF QueueOK
  <2>3. Cardinality(S) = 1
    BY <2>2, FS_Singleton
  <2>4. ~pcb[p].done /\ cur # p
    BY <2>1 DEF QueueOK
  <2> HIDE DEF S
  <2>5. Cardinality(S) + (IF cur = p THEN 1 ELSE 0) + (IF pcb[p].done THEN 1 ELSE 0) = 1
    BY <2>3, <2>4
  <2> QED
    BY <2>5 DEF S
<1> QED
  BY <1>1, <1>2

\* OnePlace, for any scripts: no interleaving of turns, page faults, ends and
\* processes started by lines of others puts a process in the queue twice, or
\* loses one (ready_queue_add_to_tail, execute_process, terminate_process).
THEOREM InOnePlace == Spec => []OnePlace
<1>1. Base => OnePlace
  BY QueuePlaces DEF Base
<1> QED
  BY <1>1, BaseInvariant, PTL

\* PromptClean, for any scripts: the prompt comes back only when every process
\* has ended, with in_background clear, so that the next run or exec is scheduled
\* (schedule_by_policy, execute_process).
THEOREM PromptIsClean == Spec => []PromptClean
<1>1. Base => PromptClean
  <2> SUFFICES ASSUME Base, status = "prompt"
               PROVE  ready = <<>> /\ ~in_background /\ \A p \in Pid : pcb[p].done
    BY DEF PromptClean
  <2>1. ready = <<>> /\ ~in_background /\ cur = 0
    BY DEF Base, ControlOK
  <2>2. \A p \in Pid : pcb[p].done
    BY <2>1 DEF Base, QueueOK, Pid
  <2> QED
    BY <2>1, <2>2
<1> QED
  BY <1>1, BaseInvariant, PTL

-----------------------------------------------------------------------------
(* The frames of an undisturbed store.                                      *)

\* A page stands as long as the lines of its frame do not change.
LEMMA StandsKept ==
  ASSUME NEW m, NEW n, NEW s, NEW c, NEW f \in Frame, Stands(m, s, c, f),
         \A i \in FrameLines(f) : n[i] = m[i]
  PROVE  Stands(n, s, c, f)
<1> SUFFICES ASSUME NEW k \in 1 .. 3
             PROVE  n[FrameStart(f) + k - 1] =
                      IF 3 * c + k <= Len(Program[s]) THEN PageLine(s, c, k) ELSE Free
  BY DEF Stands
<1>1. FrameStart(f) + k - 1 \in FrameLines(f)
  BY Frames DEF FrameLines
<1> QED
  BY <1>1 DEF Stands

\* A frame in which a page with a line stands does not look free.
LEMMA StandsNotFree ==
  ASSUME NEW m, NEW s \in Script, NEW c \in Nat, NEW f \in Frame, Stands(m, s, c, f),
         3 * c < Len(Program[s])
  PROVE  f \notin FreeFrames(m)
<1> DEFINE i == FrameStart(f)
<1>1. i \in Nat /\ i + 1 - 1 = i /\ Len(Program[s]) \in Nat
  BY Frames, PageCount
<1>2. m[i + 1 - 1] = IF 3 * c + 1 <= Len(Program[s]) THEN PageLine(s, c, 1) ELSE Free
  BY DEF Stands
<1>3. 3 * c + 1 <= Len(Program[s])
  BY <1>1
<1>4. m[i] = PageLine(s, c, 1)
  BY <1>1, <1>2, <1>3
<1>5. m[i].var = s
  BY <1>4 DEF PageLine
<1> QED
  BY <1>5, NoneAssumption DEF FreeFrames

\* Each page of a script whose last page is not empty has a line.
LEMMA PageHasLine ==
  ASSUME NEW s \in Script, ~EmptyPage(s), NEW c \in Nat, c < countPages(s)
  PROVE  3 * c < Len(Program[s])
  BY PageCount, SizeAssumption DEF EmptyPage

\* A page with a line goes into the first free frame, after every frame in use.
LEMMA LoadInFree ==
  ASSUME NEW m, MemOK(m), Packed(m), NEW f \in FreeFrames(m), \A g \in FreeFrames(m) : f <= g,
         NEW s \in Script, NEW c \in Nat, 3 * c < Len(Program[s])
  PROVE  LET n == With(m, s, c, f) IN
         /\ f \in Frame /\ MemOK(n) /\ Stands(n, s, c, f) /\ Packed(n)
         /\ FreeFrames(n) = FreeFrames(m) \ {f}
         /\ \A g \in FreeFrames(n) : g > f
         /\ \A h \in Frame : h \notin FreeFrames(m) =>
              h < f /\ \A i \in FrameLines(h) : n[i] = m[i]
<1> DEFINE n == With(m, s, c, f)
<1>0. f \in Frame /\ FreeFrames(m) \subseteq Frame /\ \A x : FreeFrames(x) \subseteq Frame
      /\ Frame \subseteq Nat /\ Len(Program[s]) \in Nat
  BY PageCount DEF FreeFrames, Frame
<1>1. /\ MemOK(n)
      /\ Stands(n, s, c, f)
      /\ \A i \in Index : i \notin FrameLines(f) => n[i] = m[i]
      /\ f \in FreeFrames(n) <=> 3 * c >= Len(Program[s])
      /\ \A g \in Frame : g # f => (g \in FreeFrames(n) <=> g \in FreeFrames(m))
  BY <1>0, Loaded DEF With
<1> HIDE DEF n
<1>2. FreeFrames(n) = FreeFrames(m) \ {f}
  BY <1>0, <1>1
<1>3. \A g \in FreeFrames(n) : g > f
  BY <1>0, <1>2
<1>4. Packed(n)
  <2> SUFFICES ASSUME NEW g \in FreeFrames(n), NEW h \in Frame, g <= h
               PROVE  h \in FreeFrames(n)
    BY DEF Packed
  <2>1. g > f /\ g \in FreeFrames(m)
    BY <1>2, <1>3
  <2>2. h \in FreeFrames(m)
    BY <2>1 DEF Packed
  <2> QED
    BY <1>0, <1>2, <2>1, <2>2
<1>5. ASSUME NEW h \in Frame, h \notin FreeFrames(m)
      PROVE  h < f /\ \A i \in FrameLines(h) : n[i] = m[i]
  <2>1. h < f
    BY <1>0, <1>5 DEF Packed
  <2>2. FrameLines(h) \subseteq Index /\ FrameLines(h) \cap FrameLines(f) = {}
    BY <1>0, <1>5, Frames
  <2> QED
    BY <1>1, <2>1, <2>2
<1> QED
  BY <1>0, <1>1, <1>2, <1>3, <1>4, <1>5 DEF n

\* The frame after the first free one is the next.
LEMMA NextFrame ==
  ASSUME NEW m, Packed(m), NEW f \in FreeFrames(m),
         NEW n, FreeFrames(n) = FreeFrames(m) \ {f},
         NEW g \in FreeFrames(n), g > f, \A h \in FreeFrames(n) : g <= h
  PROVE  g = f + 1
<1>1. f \in Frame /\ g \in Frame /\ f \in Nat /\ g \in Nat
  BY DEF FreeFrames, Frame
<1>2. f + 1 \in Frame
  BY <1>1, SizeAssumption DEF Frame
<1>3. f + 1 \in FreeFrames(m)
  BY <1>1, <1>2 DEF Packed
<1>4. f + 1 \in FreeFrames(n)
  BY <1>1, <1>3
<1> QED
  BY <1>1, <1>4

\* Files and evictions once disturbing stay so.
LEMMA StaysDisturbed ==
  ASSUME Undisturbed', evicted => evicted', Pid \subseteq Pid',
         \A p \in Pid : pcb'[p].filename = pcb[p].filename /\ pcb'[p].dangling = pcb[p].dangling
  PROVE  Undisturbed
  BY DEF Undisturbed

\* Steps that load nothing.
LEMMA PlacesQuiet ==
  ASSUME Base, PlacesOK, SameFrames(shellmemory, shellmemory'), evicted' = evicted,
         pcb' \in Seq(PCB), Len(pcb') = Len(pcb), Pid' = Pid,
         \A p \in Pid : /\ pcb'[p].filename = pcb[p].filename
                        /\ pcb'[p].dangling = pcb[p].dangling
                        /\ pcb'[p].num_pages = pcb[p].num_pages
                        /\ pcb'[p].pagetable = pcb[p].pagetable
  PROVE  PlacesOK'
<1>1. /\ FreeFrames(shellmemory') = FreeFrames(shellmemory)
      /\ \A f \in Frame : \A i \in FrameLines(f) : shellmemory'[i] = shellmemory[i]
  BY FramesKept
<1>2. pcb' = <<>> => ~evicted' /\ FreeFrames(shellmemory') = Frame
  <2>1. pcb' = <<>> => pcb = <<>>
    BY DEF Base, QueueOK
  <2> QED
    BY <1>1, <2>1 DEF PlacesOK
<1>3. ASSUME Undisturbed'
      PROVE  /\ Packed(shellmemory')
             /\ \A p \in Pid : \A c \in 0 .. pcb'[p].num_pages - 1 :
                  /\ Stands(shellmemory', pcb'[p].filename, c, pcb'[p].pagetable[c])
                  /\ pcb'[p].pagetable[c] > c
  <2>1. Undisturbed
    BY <1>3, StaysDisturbed
  <2>2. Packed(shellmemory')
    BY <1>1, <2>1 DEF PlacesOK, Packed
  <2>3. ASSUME NEW p \in Pid, NEW c \in 0 .. pcb[p].num_pages - 1
        PROVE  /\ Stands(shellmemory', pcb[p].filename, c, pcb[p].pagetable[c])
               /\ pcb[p].pagetable[c] > c
    <3> DEFINE f == pcb[p].pagetable[c]
    <3>1. f \in Frame
      BY TableBounds DEF Base
    <3>2. Stands(shellmemory, pcb[p].filename, c, f) /\ f > c
      BY <2>1 DEF PlacesOK
    <3> HIDE DEF f
    <3>3. Stands(shellmemory', pcb[p].filename, c, f)
      BY <1>1, <3>1, <3>2, StandsKept
    <3> QED
      BY <3>2, <3>3 DEF f
  <2> QED
    BY <2>2, <2>3
<1> QED
  BY <1>2, <1>3 DEF PlacesOK

\* A process that faults has two pages, at least, and needs a third.
LEMMA FaultingPage ==
  ASSUME Base, NEW p \in Pid, Faulting(p)
  PROVE  LET q == pcb[p] IN
         /\ q.current_page = q.num_pages /\ q.num_pages < q.pages_needed
         /\ q.num_pages \in Nat /\ q.num_pages >= 2
         /\ q.pages_needed = countPages(q.filename)
         /\ Undisturbed => ~q.dangling
<1> DEFINE q == pcb[p]
<1>1. /\ q.pages_needed \in 1 .. PageTableSize - 1 /\ q.num_pages \in Nat
      /\ q \in PCB
  BY TableBounds DEF Base
<1>2. /\ q.pages_needed = countPages(q.filename)
      /\ q.num_pages >= 2 \/ q.pages_needed = 1
      /\ q.num_pages \in 1 .. q.pages_needed
      /\ q.current_page = q.num_pages /\ q.num_pages < q.pages_needed
  BY DEF Base, TablesOK, TableOK
<1>3. Undisturbed => (q.dangling => countPages(q.filename) <= 2)
  BY DEF Undisturbed
<1> HIDE DEF q
<1>4. q.num_pages >= 2 /\ ~(countPages(q.filename) <= 2)
  BY <1>1, <1>2, SizeAssumption
<1> QED
  BY <1>1, <1>2, <1>3, <1>4 DEF q

\* In an undisturbed store each loaded page has a frame of its own that is in use.
LEMMA PageInUse ==
  ASSUME Base, PlacesOK, Undisturbed, NEW p \in Pid, NEW c \in 0 .. pcb[p].num_pages - 1
  PROVE  LET f == pcb[p].pagetable[c] IN
         /\ f \in Frame /\ f \notin FreeFrames(shellmemory) /\ f > c
         /\ Stands(shellmemory, pcb[p].filename, c, f)
<1> DEFINE q == pcb[p]
           f == q.pagetable[c]
<1>1. f \in Frame /\ q.filename \in Script /\ c \in Nat /\ q.num_pages \in Nat
  BY TableBounds DEF Base
<1>2. Stands(shellmemory, q.filename, c, f) /\ f > c /\ ~EmptyPage(q.filename)
  BY DEF PlacesOK, Undisturbed
<1>3. q.num_pages \in 1 .. q.pages_needed /\ q.pages_needed = countPages(q.filename)
  BY DEF Base, TablesOK, TableOK
<1> HIDE DEF q, f
<1>4. c < countPages(q.filename)
  <2>1. c < q.num_pages
    BY <1>1 DEF q
  <2>2. countPages(q.filename) \in Nat
    BY <1>1, PageCount, SizeAssumption
  <2> QED
    BY <1>1, <1>3, <2>1, <2>2
<1>5. f \notin FreeFrames(shellmemory)
  BY <1>1, <1>2, <1>4, PageHasLine, StandsNotFree
<1> QED
  BY <1>1, <1>2, <1>5 DEF q, f

\* A page fault in an undisturbed store takes a free frame after all frames in use.
LEMMA PlacesFault ==
  ASSUME Base, PlacesOK, cur \in Pid, Faulting(cur), NEW s, NEW f, FaultLoaded(s, f)
  PROVE  PlacesOK'
<1> DEFINE q == pcb[cur]
           r == pcb'[cur]
<1>1. /\ s \in Script /\ (s = q.filename \/ q.dangling)
      /\ f = find_free_frame(shellmemory, q) /\ f \in Frame
      /\ shellmemory' = With(shellmemory, s, q.current_page, f)
      /\ pcb' \in Seq(PCB) /\ Len(pcb') = Len(pcb) /\ Pid' = Pid
      /\ \A p \in Pid : p # cur => pcb'[p] = pcb[p]
      /\ r.filename = q.filename /\ r.dangling = q.dangling
      /\ r.num_pages = q.num_pages + 1
      /\ r.pagetable[q.current_page] = f
      /\ \A c \in Page : c # q.current_page => r.pagetable[c] = q.pagetable[c]
      /\ evicted' = (evicted \/ f \notin FreeFrames(shellmemory))
  BY DEF FaultLoaded
<1>2. /\ q.current_page = q.num_pages /\ q.num_pages < q.pages_needed
      /\ q.num_pages \in Nat /\ q.num_pages >= 2
      /\ q.pages_needed = countPages(q.filename)
      /\ Undisturbed => ~q.dangling
  BY FaultingPage
<1>3. pcb' # <<>>
  <2>1. Len(pcb') # 0
    BY <1>1 DEF Pid, Base, QueueOK
  <2> QED
    BY <2>1
<1>4. ASSUME Undisturbed'
      PROVE  /\ Packed(shellmemory')
             /\ \A p \in Pid : \A c \in 0 .. pcb'[p].num_pages - 1 :
                  /\ Stands(shellmemory', pcb'[p].filename, c, pcb'[p].pagetable[c])
                  /\ pcb'[p].pagetable[c] > c
  <2>1. Undisturbed /\ ~evicted'
    <3>1. \A p \in Pid : pcb'[p].filename = pcb[p].filename /\ pcb'[p].dangling = pcb[p].dangling
      BY <1>1
    <3> QED
      BY <1>1, <1>4, <3>1, StaysDisturbed DEF Undisturbed
  <2>2. s = q.filename /\ f \in FreeFrames(shellmemory)
    BY <1>1, <1>2, <2>1
  <2>3. q \in PCB /\ q.num_pages <= PageTableSize /\ q.pages_needed \in Nat
    BY TableBounds, SizeAssumption DEF Base
  <2>4. \A g \in FreeFrames(shellmemory) : f <= g
    <3> HIDE DEF q
    <3> QED
      BY <1>1, <2>2, <2>3, FoundFrame
  <2> DEFINE m == shellmemory
             n == With(m, s, q.current_page, f)
  <2>5. 3 * q.current_page < Len(Program[s])
    <3>1. ~EmptyPage(s)
      BY <2>1, <2>2 DEF Undisturbed
    <3> QED
      BY <1>1, <1>2, <2>2, <3>1, PageHasLine
  <2>6. /\ Stands(n, s, q.current_page, f) /\ Packed(n)
        /\ \A h \in Frame : h \notin FreeFrames(m) =>
             h < f /\ \A i \in FrameLines(h) : n[i] = m[i]
    <3>1. MemOK(m) /\ Packed(m)
      BY <2>1 DEF Base, MemoryOK, PlacesOK
    <3>2. q.current_page \in Nat
      BY <1>2
    <3> HIDE DEF m, q
    <3> QED
      BY <1>1, <2>2, <2>4, <2>5, <3>1, <3>2, LoadInFree DEF m
  <2>7. shellmemory' = n
    BY <1>1
  <2> HIDE DEF n
  <2>8. ASSUME NEW p \in Pid, NEW c \in 0 .. pcb[p].num_pages - 1
        PROVE  /\ Stands(n, pcb[p].filename, c, pcb[p].pagetable[c])
               /\ pcb[p].pagetable[c] > c /\ pcb[p].pagetable[c] < f
    <3> DEFINE h == pcb[p].pagetable[c]
    <3>1. h \in Frame /\ h \notin FreeFrames(m) /\ h > c
          /\ Stands(m, pcb[p].filename, c, h)
      BY <2>1, PageInUse
    <3> HIDE DEF h
    <3>2. h < f /\ Stands(n, pcb[p].filename, c, h)
      BY <2>6, <3>1, StandsKept
    <3> QED
      BY <3>1, <3>2 DEF h
  <2>9. f > q.current_page
    <3>1. q.num_pages - 1 \in 0 .. q.num_pages - 1
      BY <1>2
    <3> DEFINE h == q.pagetable[q.num_pages - 1]
    <3>2. h > q.num_pages - 1 /\ h < f
      BY <2>8, <3>1
    <3>3. h \in Nat /\ f \in Nat
      <4>1. h \in Frame
        BY <2>1, <3>1, PageInUse
      <4> QED
        BY <4>1, <1>1 DEF Frame
    <3> HIDE DEF h
    <3> QED
      BY <1>2, <3>2, <3>3
  <2>10. ASSUME NEW p \in Pid, NEW c \in 0 .. pcb'[p].num_pages - 1
         PROVE  /\ Stands(n, pcb'[p].filename, c, pcb'[p].pagetable[c])
                /\ pcb'[p].pagetable[c] > c
    <3>1. CASE p # cur
      BY <1>1, <2>8, <3>1
    <3>2. CASE p = cur /\ c = q.current_page
      BY <1>1, <2>2, <2>6, <2>9, <3>2
    <3>3. CASE p = cur /\ c # q.current_page
      <4>1. c \in 0 .. q.num_pages - 1
        BY <1>1, <1>2, <3>3
      <4>2. c \in Page
        BY <4>1, TableBounds DEF Base
      <4>3. pcb'[p].pagetable[c] = q.pagetable[c] /\ pcb'[p].filename = q.filename
        BY <1>1, <3>3, <4>2
      <4> QED
        BY <2>8, <4>1, <4>3
    <3> QED
      BY <3>1, <3>2, <3>3
  <2> QED
    BY <2>6, <2>7, <2>10
<1> QED
  BY <1>1, <1>3, <1>4 DEF PlacesOK

\* The first two pages of a script go into neighbouring frames.
LEMMA TwoLoaded ==
  ASSUME NEW m, MemOK(m), Packed(m), NEW f \in FreeFrames(m), \A h \in FreeFrames(m) : f <= h,
         NEW s \in Script, 0 < Len(Program[s]),
         NEW g \in FreeFrames(With(m, s, 0, f)),
         \A h \in FreeFrames(With(m, s, 0, f)) : g <= h
  PROVE  LET n == With(With(m, s, 0, f), s, 1, g) IN
         /\ g = f + 1 /\ f \in Frame /\ g \in Frame
         /\ Stands(n, s, 0, f) /\ Stands(n, s, 1, g)
         /\ 3 < Len(Program[s]) =>
              /\ Packed(n)
              /\ \A h \in Frame : h \notin FreeFrames(m) =>
                   \A i \in FrameLines(h) : n[i] = m[i]
<1> DEFINE l == With(m, s, 0, f)
           n == With(l, s, 1, g)
<1>1. /\ f \in Frame /\ MemOK(l) /\ Stands(l, s, 0, f) /\ Packed(l)
      /\ FreeFrames(l) = FreeFrames(m) \ {f}
      /\ \A h \in FreeFrames(l) : h > f
      /\ \A h \in Frame : h \notin FreeFrames(m) =>
           h < f /\ \A i \in FrameLines(h) : l[i] = m[i]
  <2>1. 0 \in Nat /\ 3 * 0 < Len(Program[s])
    OBVIOUS
  <2> QED
    BY <2>1, LoadInFree
<1>2. g \in FreeFrames(l) /\ \A h \in FreeFrames(l) : g <= h
  OBVIOUS
<1> HIDE DEF l
<1>3. g \in Frame /\ f \in Nat /\ g \in Nat
  BY <1>1, <1>2 DEF FreeFrames, Frame
<1>4. g = f + 1
  BY <1>1, <1>2, NextFrame
<1>5. Stands(n, s, 1, g) /\ \A i \in Index : i \notin FrameLines(g) => n[i] = l[i]
  BY <1>1, <1>3, Loaded DEF With
<1>6. 3 < Len(Program[s]) =>
        /\ Packed(n)
        /\ \A h \in Frame : h \notin FreeFrames(l) =>
             \A i \in FrameLines(h) : n[i] = l[i]
  <2>1. 1 \in Nat /\ (3 < Len(Program[s]) => 3 * 1 < Len(Program[s]))
    OBVIOUS
  <2> QED
    BY <1>1, <1>2, <2>1, LoadInFree
<1> HIDE DEF n
<1>7. Stands(n, s, 0, f)
  <2>1. \A i \in FrameLines(f) : n[i] = l[i]
    <3>1. FrameLines(f) \subseteq Index /\ FrameLines(f) \cap FrameLines(g) = {}
      BY <1>1, <1>3, <1>4, Frames
    <3> QED
      BY <1>5, <3>1
  <2> QED
    BY <1>1, <2>1, StandsKept
<1>8. ASSUME 3 < Len(Program[s]), NEW h \in Frame, h \notin FreeFrames(m)
      PROVE  \A i \in FrameLines(h) : n[i] = m[i]
  BY <1>1, <1>6, <1>8
<1> QED
  BY <1>1, <1>3, <1>4, <1>5, <1>6, <1>7, <1>8 DEF n, l

\* So do the first pages of a new process.
LEMMA PlacesInitialize ==
  ASSUME Base, PlacesOK, process_initialize
  PROVE  PlacesOK'
<1> DEFINE s == Head(todo)
           m == shellmemory
<1>0. PICK N : N = Len(pcb) + 1
  OBVIOUS
<1>1. PICK q, f, g : OnePage(s, q, f) \/ TwoPages(s, q, f, g)
  BY Initialized DEF Base, ControlOK
<1>2. s \in Script /\ cur' = cur /\ after' = after
  BY Initialized DEF Base, ControlOK, process_initialize, control
<1> HIDE DEF s
<1>3. f \in Frame /\ FirstFree(m, f) /\ \E n, x : Created(s, q, f, n, x)
      /\ (evicted \/ f \notin FreeFrames(m) => evicted')
  BY <1>1 DEF OnePage, TwoPages, Created
<1>4. /\ pcb' \in Seq(PCB) /\ Len(pcb) \in Nat /\ Len(pcb') = N
      /\ Pid' = Pid \cup {N} /\ N \notin Pid
      /\ pcb'[N] = q
      /\ \A p \in Pid : pcb'[p] = pcb[p]
  BY <1>0, <1>2, <1>3, CreatedQueued
<1>5. pcb' # <<>>
  BY <1>0, <1>4
<1>6. ASSUME Undisturbed'
      PROVE  /\ Packed(shellmemory')
             /\ \A p \in Pid' : \A c \in 0 .. pcb'[p].num_pages - 1 :
                  /\ Stands(shellmemory', pcb'[p].filename, c, pcb'[p].pagetable[c])
                  /\ pcb'[p].pagetable[c] > c
  <2>1. Undisturbed
    <3>1. \A p \in Pid : pcb'[p].filename = pcb[p].filename /\ pcb'[p].dangling = pcb[p].dangling
      BY <1>4
    <3> QED
      BY <1>3, <1>4, <1>6, <3>1, StaysDisturbed
  <2>2. ~evicted' /\ ~EmptyPage(q.filename)
    BY <1>4, <1>6 DEF Undisturbed
  <2>3. q.filename = s
    BY <1>3 DEF Created, Starts
  <2>4. f \in FreeFrames(m) /\ \A h \in FreeFrames(m) : f <= h
    BY <1>3, <2>2 DEF FirstFree
  <2>5. MemOK(m) /\ Packed(m)
    BY <2>1 DEF Base, MemoryOK, PlacesOK
  <2>6. 3 * 0 < Len(Program[s]) /\ 0 < Len(Program[s]) /\ 0 \in Nat /\ f > 0 /\ f \in Nat
    <3>1. countPages(s) \in Nat /\ countPages(s) >= 1
      BY <1>2, PageCount, SizeAssumption
    <3>2. 3 * 0 < Len(Program[s])
      BY <1>2, <2>2, <2>3, <3>1, PageHasLine
    <3> QED
      BY <3>2, <1>3 DEF Frame
  <2>7. ASSUME NEW x, shellmemory' = x,
               \A h \in Frame : h \notin FreeFrames(m) => \A i \in FrameLines(h) : x[i] = m[i],
               NEW p \in Pid, NEW c \in 0 .. pcb[p].num_pages - 1
        PROVE  /\ Stands(x, pcb[p].filename, c, pcb[p].pagetable[c])
               /\ pcb[p].pagetable[c] > c
    <3> DEFINE h == pcb[p].pagetable[c]
    <3>1. h \in Frame /\ h \notin FreeFrames(m) /\ h > c
          /\ Stands(m, pcb[p].filename, c, h)
      BY <2>1, PageInUse
    <3> HIDE DEF h, m
    <3>2. Stands(x, pcb[p].filename, c, h)
      BY <2>7, <3>1, StandsKept
    <3> QED
      BY <3>1, <3>2 DEF h
  <2>8. ASSUME NEW x, shellmemory' = x, Packed(x),
               \A h \in Frame : h \notin FreeFrames(m) => \A i \in FrameLines(h) : x[i] = m[i],
               \A c \in 0 .. q.num_pages - 1 :
                 Stands(x, s, c, q.pagetable[c]) /\ q.pagetable[c] > c
        PROVE  /\ Packed(shellmemory')
               /\ \A p \in Pid' : \A c \in 0 .. pcb'[p].num_pages - 1 :
                    /\ Stands(shellmemory', pcb'[p].filename, c, pcb'[p].pagetable[c])
                    /\ pcb'[p].pagetable[c] > c
    <3>1. ASSUME NEW p \in Pid', NEW c \in 0 .. pcb'[p].num_pages - 1
          PROVE  /\ Stands(x, pcb'[p].filename, c, pcb'[p].pagetable[c])
                 /\ pcb'[p].pagetable[c] > c
      <4>1. CASE p = N
        BY <1>4, <2>3, <2>8, <4>1
      <4>2. CASE p \in Pid
        BY <1>4, <2>7, <2>8, <4>2
      <4> QED
        BY <1>4, <4>1, <4>2
    <3> QED
      BY <2>8, <3>1
  <2>9. CASE OnePage(s, q, f)
    <3> DEFINE x == With(m, s, 0, f)
    <3>1. shellmemory' = x /\ q.num_pages = 1 /\ q.pagetable[0] = f
      BY <2>9 DEF OnePage, Created, Starts
    <3>2. /\ Stands(x, s, 0, f) /\ Packed(x)
          /\ \A h \in Frame : h \notin FreeFrames(m) => \A i \in FrameLines(h) : x[i] = m[i]
      <4> HIDE DEF m
      <4> QED
        BY <1>2, <2>4, <2>5, <2>6, LoadInFree
    <3> HIDE DEF x
    <3>3. \A c \in 0 .. q.num_pages - 1 : c = 0
      BY <3>1
    <3> QED
      BY <2>6, <2>8, <3>1, <3>2, <3>3
  <2>10. CASE TwoPages(s, q, f, g)
    <3> DEFINE l == With(m, s, 0, f)
               x == With(l, s, 1, g)
    <3>1. /\ shellmemory' = x /\ q.num_pages = 2 /\ q.pagetable[0] = f /\ q.pagetable[1] = g
          /\ countPages(s) >= 2 /\ FirstFree(l, g)
          /\ evicted' = (evicted \/ f \notin FreeFrames(m) \/ g \notin FreeFrames(l))
      BY <2>10 DEF TwoPages, Created, Starts
    <3>2. g \in FreeFrames(l) /\ \A h \in FreeFrames(l) : g <= h
      BY <2>2, <3>1 DEF FirstFree
    <3>3. 3 < Len(Program[s])
      <4>1. countPages(s) \in Nat /\ 1 \in Nat
        BY <1>2, PageCount, SizeAssumption
      <4>2. 3 * 1 < Len(Program[s])
        BY <1>2, <2>2, <2>3, <3>1, <4>1, PageHasLine
      <4> QED
        BY <4>2
    <3>4. /\ g = f + 1 /\ Stands(x, s, 0, f) /\ Stands(x, s, 1, g) /\ Packed(x)
          /\ \A h \in Frame : h \notin FreeFrames(m) => \A i \in FrameLines(h) : x[i] = m[i]
      <4> HIDE DEF m
      <4> QED
        BY <1>2, <2>4, <2>5, <2>6, <3>2, <3>3, TwoLoaded
    <3> HIDE DEF x
    <3>5. \A c \in 0 .. q.num_pages - 1 : c = 0 \/ c = 1
      BY <3>1
    <3>6. g > 1
      BY <2>6, <3>4
    <3> QED
      BY <2>6, <2>8, <3>1, <3>4, <3>5, <3>6
  <2> QED
    BY <1>1, <2>9, <2>10
<1> QED
  BY <1>5, <1>6 DEF PlacesOK

-----------------------------------------------------------------------------
(* The lines a process runs.                                                *)

\* The fields of p that RunOK and PlacesOK read, and where p is, are unchanged.
SameFields(p) ==
  /\ pcb'[p].filename = pcb[p].filename /\ pcb'[p].dangling = pcb[p].dangling
  /\ pcb'[p].PC = pcb[p].PC /\ pcb'[p].current_page = pcb[p].current_page
  /\ pcb'[p].num_pages = pcb[p].num_pages /\ pcb'[p].pagetable = pcb[p].pagetable
  /\ pcb'[p].ran = pcb[p].ran
SameStage(p) == (Faulting(p) \/ Ending(p))' <=> (Faulting(p) \/ Ending(p))

\* A process that a step leaves alone has run the lines it had run.
LEMMA SameRun ==
  ASSUME NEW p, RunOK(p), SameFields(p), SameStage(p),
         \A c \in pcb[p].current_page .. pcb[p].num_pages - 1 :
           Stands(shellmemory', pcb[p].filename, c, pcb[p].pagetable[c])
  PROVE  RunOK(p)'
  BY DEF RunOK, SameFields, SameStage, Count, CountAtStart

\* Pages that stand keep standing when only variables change.
LEMMA StandingKept ==
  ASSUME Base, NEW p \in Pid, SameFrames(shellmemory, shellmemory'),
         NEW c \in 0 .. pcb[p].num_pages - 1,
         Stands(shellmemory, pcb[p].filename, c, pcb[p].pagetable[c])
  PROVE  Stands(shellmemory', pcb[p].filename, c, pcb[p].pagetable[c])
<1>1. pcb[p].pagetable[c] \in Frame
  BY TableBounds DEF Base
<1>2. \A f \in Frame : \A i \in FrameLines(f) : shellmemory'[i] = shellmemory[i]
  BY FramesKept
<1> QED
  BY <1>1, <1>2, StandsKept

\* Steps that neither load a page nor run a line.
LEMMA RunsQuiet ==
  ASSUME Base, RunsOK, SameFrames(shellmemory, shellmemory'), evicted' = evicted,
         Len(pcb') = Len(pcb), Pid' = Pid, \A p \in Pid : SameFields(p) /\ SameStage(p),
         status' = "crashed" => status = "crashed" /\ UNCHANGED <<todo, after, cwd>>
  PROVE  RunsOK'
<1>1. Undisturbed' => Undisturbed
  BY StaysDisturbed DEF SameFields
<1>2. Alone' => Alone
  BY DEF Alone
<1>3. ASSUME (Undisturbed \/ Alone)', NEW p \in Pid
      PROVE  RunOK(p)'
  <2>1. RunOK(p)
    BY <1>1, <1>2, <1>3 DEF RunsOK
  <2>2. ASSUME NEW c \in pcb[p].current_page .. pcb[p].num_pages - 1
        PROVE  Stands(shellmemory', pcb[p].filename, c, pcb[p].pagetable[c])
    <3>1. pcb[p].current_page \in Nat /\ pcb[p].num_pages \in Nat
      BY TableBounds DEF Base
    <3>2. c \in 0 .. pcb[p].num_pages - 1
      BY <3>1
    <3>3. Stands(shellmemory, pcb[p].filename, c, pcb[p].pagetable[c])
      BY <2>1 DEF RunOK
    <3> QED
      BY <3>2, <3>3, StandingKept
  <2> QED
    BY <2>1, <2>2, SameRun
<1>4. Alone' => ~pcb'[1].dangling
  <2> SUFFICES ASSUME Alone' PROVE ~pcb'[1].dangling
    OBVIOUS
  <2>1. Alone /\ 1 \in Pid
    BY <1>2 DEF Alone, Pid
  <2> QED
    BY <2>1 DEF RunsOK, SameFields
<1>5. Undisturbed' /\ status' = "crashed" => FileMissing'
  BY <1>1 DEF RunsOK, FileMissing, Found
<1> QED
  BY <1>3, <1>4, <1>5 DEF RunsOK

\* The line at PC is the next line of the script, until there is none.
LEMMA NextLine ==
  ASSUME Base, NEW v, LineRun(v), RunOK(cur)
  PROVE  LET q == pcb[cur]
             S == FrameStart(q.pagetable[q.current_page])
             L == Len(Program[q.filename])
             n == 3 * q.current_page + (q.PC - S)
         IN  /\ q.pagetable[q.current_page] \in Frame /\ S \in Nat /\ L \in Nat /\ n \in Nat
             /\ q.PC \in S .. S + 2
             /\ Len(q.ran) = IF n <= L THEN n ELSE L
             /\ v = IF n < L THEN [script |-> q.filename, line |-> n + 1] ELSE None
<1> DEFINE q == pcb[cur]
           f == q.pagetable[q.current_page]
           S == FrameStart(f)
           L == Len(Program[q.filename])
           n == 3 * q.current_page + (q.PC - S)
<1>1. cur \in Pid /\ after = "none" /\ cur # 0 /\ v = shellmemory[q.PC].value
  BY DEF LineRun
<1>2. /\ q \in PCB /\ q.filename \in Script /\ q.PC \in Nat /\ q.current_page \in Nat
      /\ q.current_page \in Page /\ q.num_pages \in Nat
      /\ \A c \in Page : c < q.num_pages => q.pagetable[c] \in Frame
  BY <1>1, TableBounds DEF Base
<1>3. q.current_page < q.num_pages
  BY <1>1, Follows
<1>4. ~Faulting(cur) /\ ~Ending(cur)
  BY <1>1 DEF Faulting, Ending, Base, QueueOK
<1>5. /\ q.PC \in FrameLines(f) /\ Len(q.ran) = IF n <= L THEN n ELSE L
      /\ \A c \in q.current_page .. q.num_pages - 1 :
           Stands(shellmemory, q.filename, c, q.pagetable[c])
  BY <1>4 DEF RunOK, Count
<1>6. Stands(shellmemory, q.filename, q.current_page, f)
  BY <1>2, <1>3, <1>5
<1> HIDE DEF q
<1>7. f \in Frame /\ S \in Nat /\ q.PC \in S .. S + 2 /\ L \in Nat
  BY <1>2, <1>3, <1>5, Frames, PageCount DEF FrameLines
<1> HIDE DEF f
<1>8. n \in Nat
  BY <1>2, <1>7
<1>9. v = IF n < L THEN [script |-> q.filename, line |-> n + 1] ELSE None
  <2> DEFINE k == q.PC - S + 1
  <2> HIDE DEF S
  <2>1. k \in 1 .. 3 /\ S + k - 1 = q.PC /\ 3 * q.current_page + k = n + 1
    <3>1. q.PC \in Nat /\ S \in Nat /\ q.PC >= S /\ q.PC <= S + 2 /\ 3 * q.current_page \in Nat
      BY <1>2, <1>7
    <3> QED
      BY <3>1
  <2> HIDE DEF k, n, L
  <2>2. shellmemory[q.PC] =
          IF 3 * q.current_page + k <= L THEN PageLine(q.filename, q.current_page, k) ELSE Free
    <3>1. shellmemory[S + k - 1] =
            IF 3 * q.current_page + k <= L
            THEN PageLine(q.filename, q.current_page, k) ELSE Free
      BY <1>6, <2>1 DEF Stands, S, L
    <3> QED
      BY <2>1, <3>1
  <2>3. n < L <=> n + 1 <= L
    BY <1>7, <1>8
  <2>4. PageLine(q.filename, q.current_page, k) =
          [var |-> q.filename, value |-> [script |-> q.filename, line |-> n + 1]]
    BY <2>1 DEF PageLine
  <2>5. CASE n < L
    BY <1>1, <2>1, <2>2, <2>3, <2>4, <2>5
  <2>6. CASE ~(n < L)
    BY <1>1, <2>1, <2>2, <2>3, <2>6 DEF Free
  <2> QED
    BY <2>5, <2>6
<1> QED
  BY <1>5, <1>7, <1>8, <1>9 DEF n, L, S, f, q

\* The lines run so far, after one more.
LEMMA OneMoreLine ==
  ASSUME NEW s \in Script, NEW ran \in Seq(LineOf), NEW n \in Nat, NEW L \in Nat, NEW v,
         Len(ran) = IF n <= L THEN n ELSE L,
         v = IF n < L THEN [script |-> s, line |-> n + 1] ELSE None,
         \A i \in 1 .. Len(ran) : ran[i] = [script |-> s, line |-> i],
         NEW t, t = IF v = None THEN ran ELSE Append(ran, v)
  PROVE  /\ Len(t) = IF n + 1 <= L THEN n + 1 ELSE L
         /\ \A i \in 1 .. Len(t) : t[i] = [script |-> s, line |-> i]
<1>1. CASE n < L
  <2> DEFINE w == [script |-> s, line |-> n + 1]
  <2>1. w \in LineOf /\ w # None
    <3>1. w \in LineOf
      BY DEF LineOf
    <3> QED
      BY <3>1, NoneAssumption
  <2>2. v = w /\ Len(ran) = n
    BY <1>1
  <2>5. n + 1 <= L
    BY <1>1
  <2> HIDE DEF w
  <2>3. Len(Append(ran, w)) = n + 1 /\ Append(ran, w)[n + 1] = w
        /\ \A i \in 1 .. n : Append(ran, w)[i] = ran[i]
    BY <2>1, <2>2
  <2> DEFINE a == Append(ran, w)
  <2> HIDE DEF a
  <2>7. Len(a) = n + 1 /\ a[n + 1] = w /\ \A i \in 1 .. n : a[i] = ran[i]
    BY <2>3 DEF a
  <2>4. ASSUME NEW i \in 1 .. n + 1
        PROVE  a[i] = [script |-> s, line |-> i]
    <3>1. CASE i = n + 1
      <4>1. w = [script |-> s, line |-> n + 1]
        BY DEF w
      <4> QED
        BY <2>7, <3>1, <4>1
    <3>2. CASE i \in 1 .. n
      BY <2>2, <2>7, <3>2
    <3> QED
      BY <3>1, <3>2
  <2>6. t = a
    BY <2>1, <2>2 DEF a
  <2> QED
    BY <2>4, <2>5, <2>6, <2>7
<1>2. CASE ~(n < L)
  <2>1. v = None /\ Len(ran) = L /\ ~(n + 1 <= L)
    BY <1>2
  <2> QED
    BY <2>1
<1> QED
  BY <1>1, <1>2

\* The process that runs has run one line more.
LEMMA RunsCur ==
  ASSUME Base, NEW v, LineRun(v), RunOK(cur), NEW p, p = cur
  PROVE  RunOK(p)'
<1> DEFINE q == pcb[cur]
           f == q.pagetable[q.current_page]
           S == FrameStart(f)
           L == Len(Program[q.filename])
           n == 3 * q.current_page + (q.PC - S)
           r == pcb'[cur]
<1>1. /\ f \in Frame /\ S \in Nat /\ L \in Nat /\ n \in Nat
      /\ q.PC \in S .. S + 2
      /\ Len(q.ran) = IF n <= L THEN n ELSE L
      /\ v = IF n < L THEN [script |-> q.filename, line |-> n + 1] ELSE None
  BY NextLine
<1>2. /\ q \in PCB /\ q.filename \in Script /\ q.PC \in Nat /\ q.current_page \in Nat
      /\ q.current_page \in Page /\ q.num_pages \in Nat
      /\ q.pages_needed \in 1 .. PageTableSize - 1
      /\ \A c \in 0 .. q.num_pages - 1 : c \in Page
      /\ \A c \in Page : c < q.num_pages => q.pagetable[c] \in Frame
  BY TableBounds DEF Base, LineRun
<1>3. /\ EndOfPage <=> q.PC >= S + 2
      /\ q.current_page < q.num_pages
      /\ ~EndOfPage => WhatFollows = "line"
      /\ EndOfPage /\ q.current_page + 1 = q.pages_needed => WhatFollows = "end"
      /\ EndOfPage /\ q.current_page + 1 < q.pages_needed =>
           WhatFollows = IF q.current_page + 1 < q.num_pages THEN "line" ELSE "fault"
  BY Follows DEF LineRun
<1>4. /\ r.filename = q.filename /\ r.PC = q.PC + 1
      /\ r.current_page = IF EndOfPage THEN q.current_page + 1 ELSE q.current_page
      /\ r.num_pages = q.num_pages /\ r.pagetable = q.pagetable
      /\ r.ran = IF v = None THEN q.ran ELSE Append(q.ran, v)
      /\ r.done = q.done
  <2>1. pcb \in Seq(PCB) /\ v \in LineOf \cup {None} /\ Fetch(v) /\ cur \in Pid
    BY Zenon DEF Base, QueueOK, LineRun
  <2> QED
    BY <1>2, <2>1, Fetched
<1>5. /\ q.num_pages <= 2 \/ q.num_pages <= q.current_page + 1
      /\ q.num_pages >= 2 => q.pagetable[1] = q.pagetable[0] + 1
      /\ \A c \in q.current_page .. q.num_pages - 1 :
           Stands(shellmemory, q.filename, c, q.pagetable[c])
      /\ \A i \in 1 .. Len(q.ran) : q.ran[i] = [script |-> q.filename, line |-> i]
  BY DEF RunOK
<1>6. q.num_pages \in 1 .. q.pages_needed /\ ~q.done
  BY DEF Base, TablesOK, TableOK, QueueOK, LineRun
<1>7. \A c \in q.current_page .. q.num_pages - 1 :
        Stands(shellmemory', q.filename, c, q.pagetable[c])
  <2>1. \A c \in q.current_page .. q.num_pages - 1 : c \in 0 .. q.num_pages - 1
    BY <1>2
  <2> QED
    BY <1>5, <2>1, StandingKept DEF LineRun
<1>8. (Faulting(p) \/ Ending(p))' <=> WhatFollows \in {"fault", "end"}
  BY <1>4, <1>6 DEF Faulting, Ending, LineRun
<1> HIDE DEF q, r
<1>9. /\ Len(r.ran) = IF n + 1 <= L THEN n + 1 ELSE L
      /\ \A i \in 1 .. Len(r.ran) : r.ran[i] = [script |-> r.filename, line |-> i]
  <2>1. q.ran \in Seq(LineOf)
    BY <1>2 DEF PCB
  <2> DEFINE t == IF v = None THEN q.ran ELSE Append(q.ran, v)
  <2> HIDE DEF n, L
  <2>2. /\ Len(t) = IF n + 1 <= L THEN n + 1 ELSE L
        /\ \A i \in 1 .. Len(t) : t[i] = [script |-> q.filename, line |-> i]
    <3> DEFINE u == q.ran
               x == q.filename
    <3>1. /\ u \in Seq(LineOf) /\ x \in Script /\ n \in Nat /\ L \in Nat
          /\ Len(u) = IF n <= L THEN n ELSE L
          /\ v = IF n < L THEN [script |-> x, line |-> n + 1] ELSE None
          /\ \A i \in 1 .. Len(u) : u[i] = [script |-> x, line |-> i]
      <4>1. u \in Seq(LineOf) /\ x \in Script
        BY <1>2, <2>1 DEF PCB
      <4>2. n \in Nat /\ L \in Nat
        BY <1>1, <1>2, <1>5
      <4> QED
        BY <1>1, <1>2, <1>5, <4>1, <4>2
    <3>2. t = IF v = None THEN u ELSE Append(u, v)
      OBVIOUS
    <3>3. x = q.filename
      OBVIOUS
    <3> HIDE DEF u, x, t
    <3>4. /\ Len(t) = IF n + 1 <= L THEN n + 1 ELSE L
          /\ \A i \in 1 .. Len(t) : t[i] = [script |-> x, line |-> i]
      <4>1. x \in Script /\ u \in Seq(LineOf) /\ n \in Nat /\ L \in Nat
        BY <3>1
      <4>2. Len(u) = IF n <= L THEN n ELSE L
        BY <3>1
      <4>3. v = IF n < L THEN [script |-> x, line |-> n + 1] ELSE None
        BY <3>1
      <4>4. \A i \in 1 .. Len(u) : u[i] = [script |-> x, line |-> i]
        BY <3>1
      <4> QED
        BY <3>2, <4>1, <4>2, <4>3, <4>4, OneMoreLine
    <3> QED
      BY <3>3, <3>4
  <2>3. r.ran = t /\ r.filename = q.filename
    BY <1>4
  <2> HIDE DEF t
  <2> QED
    BY <2>2, <2>3
<1>10. /\ r.num_pages <= 2 \/ r.num_pages <= r.current_page + 1
       /\ r.num_pages >= 2 => r.pagetable[1] = r.pagetable[0] + 1
       /\ \A c \in r.current_page .. r.num_pages - 1 :
            Stands(shellmemory', r.filename, c, r.pagetable[c])
  <2>1. r.current_page \in Nat /\ r.current_page >= q.current_page
    BY <1>2, <1>4
  <2>2. \A c \in r.current_page .. r.num_pages - 1 : c \in q.current_page .. q.num_pages - 1
    BY <1>2, <1>4, <2>1
  <2> QED
    BY <1>2, <1>4, <1>5, <1>7, <2>1, <2>2
<1>11. r.filename = q.filename /\ L = Len(Program[r.filename])
  BY <1>4
<1>12. CASE ~EndOfPage
  <2>1. r.current_page = q.current_page /\ r.pagetable[r.current_page] = f
        /\ WhatFollows = "line"
    BY <1>3, <1>4, <1>12
  <2> HIDE DEF f, S, L
  <2>2. r.PC \in S .. S + 2 /\ 3 * r.current_page + (r.PC - S) = n + 1
    <3>1. ~(q.PC >= S + 2) /\ q.PC >= S /\ q.PC \in Nat /\ S \in Nat /\ r.PC = q.PC + 1
      BY <1>1, <1>2, <1>3, <1>4, <1>12
    <3>2. r.PC \in S .. S + 2 /\ r.PC - S = (q.PC - S) + 1 /\ q.PC - S \in Nat
      BY <3>1
    <3>3. 3 * r.current_page = 3 * q.current_page /\ 3 * q.current_page \in Nat
      BY <1>2, <2>1
    <3> QED
      BY <3>2, <3>3
  <2> HIDE DEF n
  <2>3. r.PC \in FrameLines(r.pagetable[r.current_page]) /\ Len(r.ran) = Count(r)
    BY <1>9, <1>11, <2>1, <2>2 DEF FrameLines, S, Count
  <2> QED
    BY <1>8, <1>9, <1>10, <2>1, <2>3 DEF RunOK, r
<1>13. CASE EndOfPage
  <2>1. q.PC = S + 2 /\ r.current_page = q.current_page + 1
    BY <1>1, <1>2, <1>3, <1>4, <1>13
  <2>2. n + 1 = 3 * r.current_page
    <3> HIDE DEF f, S
    <3> QED
      BY <1>1, <1>2, <2>1
  <2>3. CASE WhatFollows \in {"fault", "end"}
    <3>1. Len(r.ran) = CountAtStart(r)
      <4> HIDE DEF n, L
      <4> QED
        BY <1>9, <1>11, <2>2 DEF CountAtStart
    <3> QED
      BY <1>8, <1>9, <1>10, <2>3, <3>1 DEF RunOK, r
  <2>4. CASE WhatFollows \notin {"fault", "end"}
    <3>1. q.current_page + 1 < q.num_pages
      <4>1. q.current_page + 1 = q.pages_needed \/ q.current_page + 1 < q.pages_needed
        BY <1>2, <1>3, <1>6
      <4> QED
        BY <1>3, <1>13, <2>4, <4>1
    <3>2. q.num_pages = 2 /\ q.current_page = 0
      BY <1>2, <1>5, <3>1
    <3>3. f = q.pagetable[0] /\ r.pagetable[r.current_page] = f + 1 /\ r.current_page = 1
      BY <1>4, <1>5, <2>1, <3>2
    <3>4. FrameStart(f + 1) = S + 3
      <4> HIDE DEF f
      <4>1. f \in Nat
        BY <1>1 DEF Frame
      <4> QED
        BY <4>1, SizeAssumption DEF FrameStart
    <3>5. r.PC = S + 3
      <4> HIDE DEF S
      <4> QED
        BY <1>1, <1>4, <2>1
    <3> HIDE DEF f
    <3>6. r.PC = FrameStart(r.pagetable[r.current_page])
      BY <3>3, <3>4, <3>5
    <3>7. r.PC \in Nat
      BY <1>2, <1>4
    <3>8. r.PC \in FrameLines(r.pagetable[r.current_page])
      BY <3>6, <3>7 DEF FrameLines
    <3>9. 3 * r.current_page + (r.PC - FrameStart(r.pagetable[r.current_page])) = n + 1
      <4> HIDE DEF n
      <4> QED
        BY <2>2, <3>3, <3>6, <3>7
    <3>10. Len(r.ran) = Count(r)
      <4> HIDE DEF n, L
      <4> QED
        BY <1>9, <1>11, <3>9 DEF Count
    <3> QED
      BY <1>8, <1>9, <1>10, <2>4, <3>8, <3>10 DEF RunOK, r
  <2> QED
    BY <2>3, <2>4
<1> QED
  BY <1>12, <1>13

\* A line changes no page, frame or file name.
LEMMA PlacesExecuteLine ==
  ASSUME Base, PlacesOK, NEW v, LineRun(v)
  PROVE  /\ PlacesOK' /\ Len(pcb') = Len(pcb) /\ Pid' = Pid /\ evicted' = evicted
         /\ \A p \in Pid : p # cur => pcb'[p] = pcb[p]
         /\ \A p \in Pid : pcb'[p].filename = pcb[p].filename
                           /\ pcb'[p].dangling = pcb[p].dangling
<1>0. pcb \in Seq(PCB) /\ cur \in Pid /\ v \in LineOf \cup {None} /\ Fetch(v)
      /\ evicted' = evicted /\ SameFrames(shellmemory, shellmemory')
  BY Zenon DEF Base, QueueOK, LineRun
<1>1. pcb[cur].current_page \in Page
  BY <1>0, TableBounds DEF Base
<1>2. /\ pcb' \in Seq(PCB) /\ Len(pcb') = Len(pcb) /\ Pid' = Pid
      /\ \A q \in Pid : q # cur => pcb'[q] = pcb[q]
      /\ pcb'[cur].filename = pcb[cur].filename
      /\ pcb'[cur].dangling = pcb[cur].dangling
      /\ pcb'[cur].num_pages = pcb[cur].num_pages
      /\ pcb'[cur].pagetable = pcb[cur].pagetable
  BY <1>0, <1>1, Fetched
<1>3. \A p \in Pid : /\ pcb'[p].filename = pcb[p].filename
                     /\ pcb'[p].dangling = pcb[p].dangling
                     /\ pcb'[p].num_pages = pcb[p].num_pages
                     /\ pcb'[p].pagetable = pcb[p].pagetable
  BY <1>2
<1> QED
  BY <1>0, <1>2, <1>3, PlacesQuiet

\* A line run by one process leaves what the others have run.
LEMMA RunsExecuteLine ==
  ASSUME Base, PlacesOK, RunsOK, NEW v, LineRun(v)
  PROVE  RunsOK'
<1>1. /\ Len(pcb') = Len(pcb) /\ Pid' = Pid /\ evicted' = evicted
      /\ \A p \in Pid : p # cur => pcb'[p] = pcb[p]
      /\ \A p \in Pid : pcb'[p].filename = pcb[p].filename
                        /\ pcb'[p].dangling = pcb[p].dangling
  BY PlacesExecuteLine
<1>2. Undisturbed' => Undisturbed
  BY <1>1, StaysDisturbed
<1>3. Alone' => Alone
  BY <1>1 DEF Alone
<1>4. cur \in Pid /\ cur' = cur /\ SameFrames(shellmemory, shellmemory')
      /\ status' # "crashed"
  BY DEF LineRun
<1>5. ASSUME (Undisturbed \/ Alone)', NEW p \in Pid
      PROVE  RunOK(p)'
  <2>1. \A r \in Pid : RunOK(r)
    BY <1>2, <1>3, <1>5 DEF RunsOK
  <2>2. CASE p = cur
    BY <1>4, <2>1, <2>2, RunsCur
  <2>3. CASE p # cur
    <3>1. SameFields(p) /\ SameStage(p)
      BY <1>1, <1>4, <2>3 DEF SameFields, SameStage, Faulting, Ending
    <3>2. ASSUME NEW c \in pcb[p].current_page .. pcb[p].num_pages - 1
          PROVE  Stands(shellmemory', pcb[p].filename, c, pcb[p].pagetable[c])
      <4>1. pcb[p].current_page \in Nat /\ pcb[p].num_pages \in Nat
        BY TableBounds DEF Base
      <4>2. c \in 0 .. pcb[p].num_pages - 1
        BY <4>1
      <4>3. Stands(shellmemory, pcb[p].filename, c, pcb[p].pagetable[c])
        BY <2>1 DEF RunOK
      <4> QED
        BY <1>4, <4>2, <4>3, StandingKept
    <3> QED
      BY <2>1, <3>1, <3>2, SameRun
  <2> QED
    BY <2>2, <2>3
<1>6. Alone' => ~pcb'[1].dangling
  <2> SUFFICES ASSUME Alone' PROVE ~pcb'[1].dangling
    OBVIOUS
  <2>1. Alone /\ 1 \in Pid
    BY <1>3 DEF Alone, Pid
  <2> QED
    BY <1>1, <2>1 DEF RunsOK
<1> QED
  BY <1>1, <1>4, <1>5, <1>6 DEF RunsOK

\* A page fault puts PC at the first line of its page.
LEMMA RunsFault ==
  ASSUME Base, PlacesOK, PlacesOK', RunsOK, cur \in Pid, cur # 0, Faulting(cur),
         status = "running", NEW s, NEW f, FaultLoaded(s, f)
  PROVE  RunsOK'
<1> DEFINE q == pcb[cur]
           r == pcb'[cur]
<1>1. /\ s \in Script /\ (s = q.filename \/ q.dangling) /\ f \in Frame
      /\ shellmemory' = With(shellmemory, s, q.current_page, f)
      /\ Len(pcb') = Len(pcb) /\ Pid' = Pid
      /\ \A p \in Pid : p # cur => pcb'[p] = pcb[p]
      /\ r.filename = q.filename /\ r.dangling = q.dangling
      /\ r.PC = FrameStart(f) /\ r.current_page = q.current_page
      /\ r.num_pages = q.num_pages + 1
      /\ r.pagetable[q.current_page] = f
      /\ \A c \in Page : c # q.current_page => r.pagetable[c] = q.pagetable[c]
      /\ r.ran = q.ran /\ r.done = q.done /\ cur' = 0 /\ after' = "none"
      /\ evicted' = (evicted \/ f \notin FreeFrames(shellmemory)) /\ status' = status
  BY DEF FaultLoaded
<1>2. /\ q.current_page = q.num_pages /\ q.num_pages < q.pages_needed
      /\ q.num_pages \in Nat /\ q.num_pages >= 2
      /\ Undisturbed => ~q.dangling
  BY FaultingPage
<1>3. Undisturbed' => Undisturbed
  <2>1. \A p \in Pid : pcb'[p].filename = pcb[p].filename /\ pcb'[p].dangling = pcb[p].dangling
    BY <1>1
  <2> QED
    BY <1>1, <2>1, StaysDisturbed
<1>4. Alone' => Alone /\ cur = 1 /\ 1 \in Pid
  BY <1>1 DEF Alone, Pid
<1>5. ASSUME (Undisturbed \/ Alone)'
      PROVE  s = q.filename /\ \A p \in Pid : RunOK(p)
  BY <1>1, <1>2, <1>3, <1>4, <1>5 DEF RunsOK
<1>6. ASSUME (Undisturbed \/ Alone)', NEW p \in Pid, p = cur
      PROVE  RunOK(p)'
  <2>1. /\ q.num_pages >= 2 => q.pagetable[1] = q.pagetable[0] + 1
        /\ \A i \in 1 .. Len(q.ran) : q.ran[i] = [script |-> q.filename, line |-> i]
        /\ Len(q.ran) = CountAtStart(q)
    BY <1>5, <1>6 DEF RunOK
  <2>2. MemOK(shellmemory) /\ q.current_page \in Nat /\ q.current_page >= 2
    BY <1>2 DEF Base, MemoryOK
  <2>3. Stands(shellmemory', q.filename, q.current_page, f)
    <3> HIDE DEF q, r
    <3> QED
      BY <1>1, <1>5, <1>6, <2>2, Loaded DEF With
  <2>4. ~Faulting(p)' /\ ~Ending(p)' /\ pcb'[p] = r
    BY <1>1, <1>6 DEF Faulting, Ending, Base, QueueOK
  <2>5. 0 \in Page /\ 1 \in Page
    <3>1. q.pages_needed \in 1 .. PageTableSize - 1
      BY TableBounds DEF Base
    <3> QED
      BY <1>2, <3>1, SizeAssumption DEF Page
  <2> HIDE DEF q, r
  <2>6. /\ r.num_pages <= r.current_page + 1
        /\ r.pagetable[1] = r.pagetable[0] + 1
        /\ \A c \in r.current_page .. r.num_pages - 1 : c = q.current_page
    BY <1>1, <1>2, <2>1, <2>2, <2>5
  <2>7. \A c \in r.current_page .. r.num_pages - 1 :
          Stands(shellmemory', r.filename, c, r.pagetable[c])
    BY <1>1, <2>3, <2>6
  <2>8. FrameStart(f) \in Nat
    BY <1>1, Frames
  <2>9. r.PC \in FrameLines(r.pagetable[r.current_page])
    BY <1>1, <2>8 DEF FrameLines
  <2>10. Len(r.ran) = Count(r)
    <3>1. 3 * r.current_page + (r.PC - FrameStart(r.pagetable[r.current_page]))
            = 3 * q.current_page
      BY <1>1, <2>2, <2>8
    <3> QED
      BY <1>1, <2>1, <3>1 DEF Count, CountAtStart
  <2>11. \A i \in 1 .. Len(r.ran) : r.ran[i] = [script |-> r.filename, line |-> i]
    BY <1>1, <2>1
  <2> QED
    BY <2>4, <2>6, <2>7, <2>9, <2>10, <2>11 DEF RunOK
<1>7. ASSUME (Undisturbed \/ Alone)', NEW p \in Pid, p # cur
      PROVE  RunOK(p)'
  <2>1. Undisturbed' /\ RunOK(p)
    BY <1>4, <1>5, <1>7 DEF Alone, Pid
  <2>2. SameFields(p) /\ SameStage(p)
    <3>1. p # 0
      BY DEF Pid
    <3> QED
      BY <1>1, <1>7, <3>1 DEF SameFields, SameStage, Faulting, Ending
  <2>3. pcb[p].current_page \in Nat /\ pcb[p].num_pages \in Nat
    BY TableBounds DEF Base
  <2>4. \A c \in pcb[p].current_page .. pcb[p].num_pages - 1 :
          Stands(shellmemory', pcb[p].filename, c, pcb[p].pagetable[c])
    <3>1. \A c \in 0 .. pcb'[p].num_pages - 1 :
            Stands(shellmemory', pcb'[p].filename, c, pcb'[p].pagetable[c])
      BY <1>1, <2>1 DEF PlacesOK
    <3>2. pcb'[p] = pcb[p]
      BY <1>1, <1>7
    <3> QED
      BY <2>3, <3>1, <3>2
  <2> QED
    BY <2>1, <2>2, <2>4, SameRun
<1>8. Alone' => ~pcb'[1].dangling
  BY <1>1, <1>4 DEF RunsOK
<1> QED
  BY <1>1, <1>6, <1>7, <1>8 DEF RunsOK

\* In an undisturbed store neither a page fault nor a PC outside the memory
\* crashes the shell.
LEMMA NoCrashFault ==
  ASSUME Base, PlacesOK, Undisturbed, cur \in Pid, Faulting(cur)
  PROVE  ~pcb[cur].dangling /\ find_free_frame(shellmemory, pcb[cur]) <= TOTAL_FRAMES
<1> DEFINE q == pcb[cur]
           f == find_free_frame(shellmemory, q)
<1>1. /\ q.num_pages \in Nat /\ q.num_pages >= 2 /\ ~q.dangling
  BY FaultingPage
<1>2. q \in PCB /\ q.num_pages <= PageTableSize
  BY TableBounds DEF Base
<1> DEFINE h == q.pagetable[q.num_pages - 1]
<1>3. h \in Frame /\ h > q.num_pages - 1
  <2>1. q.num_pages - 1 \in 0 .. q.num_pages - 1
    BY <1>1
  <2> QED
    BY <2>1, PageInUse
<1>4. q.num_pages <= TOTAL_FRAMES
  <2> HIDE DEF h, q
  <2> QED
    BY <1>1, <1>3, SizeAssumption DEF Frame
<1>5. /\ f \in Nat \ {0}
      /\ FreeFrames(shellmemory) # {} => f \in Frame
      /\ FreeFrames(shellmemory) = {} => f <= q.num_pages \/ f = 1
  <2> HIDE DEF q
  <2> QED
    BY <1>2, FoundFrame
<1> HIDE DEF f, q
<1>6. f <= TOTAL_FRAMES
  BY <1>1, <1>4, <1>5, SizeAssumption DEF Frame
<1> QED
  BY <1>1, <1>6 DEF f, q

\* A crash leaves what was run; it comes from a missing file when the store is
\* undisturbed.
LEMMA RunsCrash ==
  ASSUME Base, PlacesOK, RunsOK, Crash,
         Undisturbed => FileMissing
  PROVE  RunsOK'
<1>1. UNCHANGED <<shellmemory, pcb, ready, cur, after, todo, cwd, evicted>>
  BY DEF Crash, control, command
<1>2. Undisturbed' <=> Undisturbed
  BY <1>1 DEF Undisturbed, Pid
<1>3. Alone' <=> Alone
  BY <1>1 DEF Alone
<1>4. \A p : RunOK(p)' <=> RunOK(p)
  BY <1>1 DEF RunOK, Faulting, Ending
<1>5. (\A p \in Pid : RunOK(p))' <=> (\A p \in Pid : RunOK(p))
  BY <1>1, <1>4 DEF Pid
<1>6. FileMissing' <=> FileMissing
  BY <1>1 DEF FileMissing, Found
<1> QED
  BY <1>1, <1>2, <1>3, <1>5, <1>6 DEF RunsOK

\* PC is in the frame of its page.
LEMMA RunsInside ==
  ASSUME Base, RunsOK, Undisturbed \/ Alone, Executing
  PROVE  pcb[cur].PC \in Index
<1>1. cur \in Pid /\ after = "none" /\ cur # 0
  BY DEF Executing, Base, QueueOK
<1>2. RunOK(cur) /\ ~Faulting(cur) /\ ~Ending(cur)
  BY <1>1 DEF RunsOK, Faulting, Ending, Base, QueueOK
<1> DEFINE q == pcb[cur]
           f == q.pagetable[q.current_page]
<1>3. q.PC \in FrameLines(f)
  BY <1>2 DEF RunOK
<1>4. q.current_page < q.num_pages
  BY <1>1, Follows
<1>5. f \in Frame
  BY <1>1, <1>4, TableBounds DEF Base
<1> QED
  BY <1>3, <1>5, Frames

\* A process begins at the first line of its script.
LEMMA RunsInitialize ==
  ASSUME Base, PlacesOK, PlacesOK', RunsOK, process_initialize
  PROVE  RunsOK'
<1> DEFINE s == Head(todo)
           m == shellmemory
<1>0. PICK N : N = Len(pcb) + 1
  OBVIOUS
<1>1. PICK q, f, g : OnePage(s, q, f) \/ TwoPages(s, q, f, g)
  BY Initialized DEF Base, ControlOK
<1>2. /\ s \in Script /\ cur' = cur /\ after' = after /\ status' = "running"
  <2>1. status' = status
    BY DEF process_initialize, LoadFirstPage, LoadSecondPage, Enqueue
  <2> QED
    BY <2>1, Initialized DEF Base, ControlOK, process_initialize, control, Loading
<1> HIDE DEF s
<1>3. f \in Frame /\ FirstFree(m, f) /\ \E n, x : Created(s, q, f, n, x)
      /\ (evicted \/ f \notin FreeFrames(m) => evicted')
  BY <1>1 DEF OnePage, TwoPages, Created
<1>4. /\ pcb' \in Seq(PCB) /\ Len(pcb) \in Nat /\ Len(pcb') = N
      /\ Pid' = Pid \cup {N} /\ N \notin Pid
      /\ pcb'[N] = q
      /\ \A p \in Pid : pcb'[p] = pcb[p]
      /\ ~Faulting(N)' /\ ~Ending(N)'
  BY <1>0, <1>2, <1>3, CreatedQueued
<1>5. Undisturbed' => Undisturbed
  <2>1. \A p \in Pid : pcb'[p].filename = pcb[p].filename /\ pcb'[p].dangling = pcb[p].dangling
    BY <1>4
  <2> QED
    BY <1>3, <1>4, <2>1, StaysDisturbed
<1>6. Alone' => N = 1 /\ pcb = <<>> /\ Pid = {} /\ TOTAL_FRAMES >= 2
  <2> SUFFICES ASSUME Alone' PROVE N = 1 /\ pcb = <<>> /\ Pid = {} /\ TOTAL_FRAMES >= 2
    OBVIOUS
  <2>0. N = 1 /\ TOTAL_FRAMES >= 2
    BY <1>4 DEF Alone
  <2>1. N = 1 /\ Len(pcb) = 0 /\ TOTAL_FRAMES >= 2
    BY <1>0, <1>4, <2>0
  <2> QED
    BY <2>1 DEF Base, QueueOK, Pid
<1>7. Alone' => ~pcb'[1].dangling
  <2> SUFFICES ASSUME Alone' PROVE ~q.dangling
    BY <1>4, <1>6
  <2>1. q.dangling = (request = "RR" /\ in_background)
    BY <1>3 DEF Created, Starts
  <2>2. ready = <<>> /\ cur = 0
    <3>1. Pid = {} /\ ready \in Seq(Nat) /\ cur = 0
      BY <1>6 DEF Base, QueueOK
    <3>2. \A i \in 1 .. Len(ready) : FALSE
      BY <3>1 DEF Base, QueueOK
    <3>3. Len(ready) = 0
      <4>1. Len(ready) \in Nat
        BY <3>1
      <4> QED
        BY <3>2, <4>1
    <3> QED
      BY <3>1, <3>3
  <2> QED
    BY <2>1, <2>2 DEF Base, ControlOK
<1>8. ASSUME (Undisturbed \/ Alone)', NEW p \in Pid
      PROVE  RunOK(p)'
  <2>1. Undisturbed' /\ Undisturbed
    BY <1>5, <1>6, <1>8
  <2>2. RunOK(p)
    BY <2>1 DEF RunsOK
  <2>3. SameFields(p) /\ SameStage(p)
    BY <1>2, <1>4 DEF SameFields, SameStage, Faulting, Ending
  <2>4. pcb[p].current_page \in Nat /\ pcb[p].num_pages \in Nat
    BY TableBounds DEF Base
  <2>5. \A c \in pcb[p].current_page .. pcb[p].num_pages - 1 :
          Stands(shellmemory', pcb[p].filename, c, pcb[p].pagetable[c])
    <3>1. p \in Pid'
      BY <1>4
    <3>2. \A c \in 0 .. pcb'[p].num_pages - 1 :
            Stands(shellmemory', pcb'[p].filename, c, pcb'[p].pagetable[c])
      BY <2>1, <3>1 DEF PlacesOK
    <3>3. pcb'[p] = pcb[p]
      BY <1>4
    <3> QED
      BY <2>4, <3>2, <3>3
  <2> QED
    BY <2>2, <2>3, <2>5, SameRun
<1>9. ASSUME NEW n \in {1, 2}, q.num_pages = n, n = 2 => q.pagetable[1] = f + 1,
             \A c \in 0 .. n - 1 : Stands(shellmemory', s, c, q.pagetable[c])
      PROVE  RunOK(N)'
  <2>1. /\ q.filename = s /\ q.PC = FrameStart(f) /\ q.current_page = 0
        /\ q.pagetable[0] = f /\ q.ran = <<>>
    BY <1>3 DEF Created, Starts
  <2>2. FrameStart(f) \in Nat /\ Len(Program[s]) \in Nat
    BY <1>2, <1>3, Frames, PageCount
  <2>3. q.PC \in FrameLines(q.pagetable[q.current_page]) /\ Len(q.ran) = 0
    BY <2>1, <2>2 DEF FrameLines
  <2>4. Count(q) = 0
    <3>1. 3 * q.current_page + (q.PC - FrameStart(q.pagetable[q.current_page])) = 0
      BY <2>1, <2>2
    <3> QED
      BY <2>1, <2>2, <3>1 DEF Count
  <2>5. /\ q.num_pages <= 2
        /\ q.num_pages >= 2 => q.pagetable[1] = q.pagetable[0] + 1
        /\ \A c \in q.current_page .. q.num_pages - 1 :
             Stands(shellmemory', q.filename, c, q.pagetable[c])
        /\ \A i \in 1 .. Len(q.ran) : q.ran[i] = [script |-> q.filename, line |-> i]
    BY <1>9, <2>1, <2>3
  <2> QED
    BY <1>4, <2>3, <2>4, <2>5 DEF RunOK
<1>10. ASSUME (Undisturbed \/ Alone)'
       PROVE  RunOK(N)'
  <2>1. MemOK(m) /\ Packed(m) /\ f \in FreeFrames(m) /\ \A h \in FreeFrames(m) : f <= h
    <3>1. Packed(m) /\ f \in FreeFrames(m)
      <4>1. CASE Undisturbed'
        BY <1>3, <1>5, <4>1 DEF PlacesOK, Undisturbed
      <4>2. CASE Alone'
        BY <1>3, <1>6, <4>2 DEF PlacesOK, Packed
      <4> QED
        BY <1>10, <4>1, <4>2
    <3> QED
      BY <1>3, <3>1 DEF Base, MemoryOK, FirstFree
  <2>2. CASE OnePage(s, q, f)
    <3>1. shellmemory' = With(m, s, 0, f) /\ q.num_pages = 1 /\ q.pagetable[0] = f
      BY <2>2 DEF OnePage, Created, Starts
    <3>2. Stands(shellmemory', s, 0, f)
      BY <1>2, <1>3, <2>1, <3>1, Loaded DEF With
    <3>3. \A c \in 0 .. 1 - 1 : c = 0
      OBVIOUS
    <3> QED
      BY <1>9, <3>1, <3>2, <3>3
  <2>3. CASE TwoPages(s, q, f, g)
    <3> DEFINE l == With(m, s, 0, f)
    <3>1. /\ shellmemory' = With(l, s, 1, g) /\ q.num_pages = 2 /\ q.pagetable[0] = f
          /\ q.pagetable[1] = g /\ countPages(s) >= 2 /\ FirstFree(l, g)
          /\ evicted' = (evicted \/ f \notin FreeFrames(m) \/ g \notin FreeFrames(l))
      BY <2>3 DEF TwoPages, Created, Starts
    <3>2. 0 < Len(Program[s]) /\ 3 * 0 < Len(Program[s])
      BY <1>2, <3>1, PageCount, SizeAssumption
    <3>3. FreeFrames(l) = FreeFrames(m) \ {f}
      <4>1. 0 \in Nat
        OBVIOUS
      <4> HIDE DEF m
      <4> QED
        BY <1>2, <2>1, <3>2, <4>1, LoadInFree
    <3> HIDE DEF l
    <3>4. g \in FreeFrames(l) /\ \A h \in FreeFrames(l) : g <= h
      <4>1. CASE Undisturbed'
        BY <3>1, <4>1 DEF Undisturbed, FirstFree
      <4>2. CASE Alone'
        <5>1. FreeFrames(l) = Frame \ {f} /\ TOTAL_FRAMES >= 2
          BY <1>6, <3>3, <4>2 DEF PlacesOK
        <5>2. 1 \in Frame /\ 2 \in Frame
          BY <5>1, SizeAssumption DEF Frame
        <5>3. FreeFrames(l) # {}
          BY <5>1, <5>2
        <5> QED
          BY <3>1, <5>3 DEF FirstFree
      <4> QED
        BY <1>10, <4>1, <4>2
    <3>5. /\ g = f + 1
          /\ Stands(shellmemory', s, 0, f) /\ Stands(shellmemory', s, 1, g)
      <4> HIDE DEF m
      <4> QED
        BY <1>2, <2>1, <3>1, <3>2, <3>4, TwoLoaded DEF l
    <3>6. \A c \in 0 .. 2 - 1 : c = 0 \/ c = 1
      OBVIOUS
    <3> QED
      BY <1>9, <3>1, <3>5, <3>6
  <2> QED
    BY <1>1, <2>2, <2>3
<1> QED
  BY <1>2, <1>4, <1>7, <1>8, <1>10 DEF RunsOK

-----------------------------------------------------------------------------
(* Every step keeps the places and the runs.                                *)

\* The inductive invariant: the layers of any state, and the two of an undisturbed one.
IInv == Base /\ PlacesOK /\ RunsOK

\* Nothing is loaded at the start.
LEMMA IInvInit == Init => IInv
<1> SUFFICES ASSUME Init PROVE IInv
  OBVIOUS
<1>1. Base /\ pcb = <<>> /\ ~evicted /\ Pid = {} /\ status # "crashed"
  BY BaseInit DEF Init, Pid
<1>2. FreeFrames(shellmemory) = Frame
  <2>1. ASSUME NEW f \in Frame
        PROVE  shellmemory[FrameStart(f)].var = None
    <3>1. FrameStart(f) \in Index
      BY Frames DEF FrameLines
    <3> QED
      BY <3>1 DEF Init, mem_init, Free
  <2> QED
    BY <2>1 DEF FreeFrames, Frame
<1>3. PlacesOK
  BY <1>1, <1>2 DEF PlacesOK, Packed
<1>4. ~Alone
  BY <1>1 DEF Alone
<1> QED
  BY <1>1, <1>3, <1>4 DEF IInv, RunsOK

\* Steps that leave pages, frames and lines run alone.
LEMMA IInvQuiet ==
  ASSUME IInv, Base', SameFrames(shellmemory, shellmemory'), evicted' = evicted,
         pcb' \in Seq(PCB), Len(pcb') = Len(pcb), Pid' = Pid,
         \A p \in Pid : SameFields(p) /\ SameStage(p),
         status' = "crashed" => status = "crashed" /\ UNCHANGED <<todo, after, cwd>>
  PROVE  IInv'
<1>1. PlacesOK'
  BY PlacesQuiet DEF SameFields, IInv
<1>2. RunsOK'
  BY RunsQuiet DEF IInv
<1> QED
  BY <1>1, <1>2 DEF IInv

\* Steps that change neither PCBs nor memory, nor which process ends or faults.
LEMMA IInvStill ==
  ASSUME IInv, Base', UNCHANGED <<shellmemory, pcb, evicted>>,
         \/ after \in {"none", "line"} /\ after' \in {"none", "line"}
         \/ UNCHANGED <<cur, after>>,
         status' = "crashed" => status = "crashed" /\ UNCHANGED <<todo, after, cwd>>
  PROVE  IInv'
<1>1. SameFrames(shellmemory, shellmemory') /\ pcb' \in Seq(PCB) /\ Len(pcb') = Len(pcb)
      /\ Pid' = Pid
  BY DEF SameFrames, Pid, IInv, Base, QueueOK
<1>2. \A p \in Pid : SameFields(p) /\ SameStage(p)
  BY DEF SameFields, SameStage, Faulting, Ending
<1> QED
  BY <1>1, <1>2, IInvQuiet

\* Every step keeps the whole invariant.
LEMMA IInvNext ==
  ASSUME IInv, [Next]_vars
  PROVE  IInv'
<1> USE DEF IInv
<1>0. Base'
  BY BaseNext
<1>1. CASE process_initialize
  BY <1>0, <1>1, PlacesInitialize, RunsInitialize
<1>2. CASE RunMissing
  BY <1>0, <1>2, IInvStill DEF RunMissing, control, Loading
<1>20. ASSUME Crash, Undisturbed => FileMissing
       PROVE  IInv'
  <2>1. RunsOK'
    BY <1>20, RunsCrash
  <2>2. PlacesOK'
    <3>1. UNCHANGED <<shellmemory, pcb, evicted>>
      BY <1>20 DEF Crash
    <3> QED
      BY <3>1 DEF PlacesOK, Undisturbed, Pid
  <2> QED
    BY <1>0, <2>1, <2>2
<1>3. CASE ExecMissing
  BY <1>3, <1>20 DEF ExecMissing, Loading, FileMissing
<1>4. CASE schedule_by_policy
  BY <1>0, <1>4, IInvStill DEF schedule_by_policy
<1>5. CASE Dispatch
  <2>1. after = "none" /\ after' = "none"
    BY <1>5 DEF Dispatch, command, Base, ControlOK
  <2> QED
    BY <1>0, <1>5, <2>1, IInvStill DEF Dispatch, Idle
<1>6. CASE ExecuteLine
  <2>1. PICK v : LineRun(v)
    BY <1>6, ExecuteLineRuns
  <2> QED
    BY <1>0, <2>1, PlacesExecuteLine, RunsExecuteLine
<1>7. CASE ExecuteBeyond
  <2>1. ~Undisturbed
    BY <1>7, RunsInside DEF ExecuteBeyond, This
  <2> QED
    BY <1>7, <1>20, <2>1 DEF ExecuteBeyond
<1>8. CASE terminate_process
  <2>1. /\ Idle /\ after = "end" /\ pcb' = [pcb EXCEPT ![cur].done = TRUE]
        /\ after' = "none" /\ cur' = 0
        /\ UNCHANGED <<shellmemory, status, evicted>>
    BY <1>8 DEF terminate_process
  <2>2. cur \in Pid /\ pcb \in Seq(PCB) /\ pcb[cur] \in PCB
    BY <2>1 DEF Base, ControlOK, QueueOK, Pid
  <2> DEFINE r == [pcb[cur] EXCEPT !.done = TRUE]
  <2>3. pcb' = [pcb EXCEPT ![cur] = r]
    BY <2>1, Zenon
  <2>4. /\ r \in PCB
        /\ r.filename = pcb[cur].filename /\ r.dangling = pcb[cur].dangling
        /\ r.PC = pcb[cur].PC /\ r.current_page = pcb[cur].current_page
        /\ r.num_pages = pcb[cur].num_pages /\ r.pagetable = pcb[cur].pagetable
        /\ r.ran = pcb[cur].ran /\ r.done = TRUE
    BY <2>2, SetDone
  <2> HIDE DEF r
  <2>5. /\ pcb' \in Seq(PCB) /\ Len(pcb') = Len(pcb) /\ Pid' = Pid
        /\ pcb'[cur] = r
        /\ \A q \in Pid : q # cur => pcb'[q] = pcb[q]
    BY <2>2, <2>3, <2>4, ReplacedPCB
  <2>6. \A p \in Pid : SameFields(p)
    BY <2>4, <2>5 DEF SameFields
  <2>7. ASSUME NEW p \in Pid
        PROVE  SameStage(p)
    <3>1. CASE p = cur
      BY <2>1, <2>4, <2>5, <3>1 DEF SameStage, Faulting, Ending
    <3>2. CASE p # cur
      BY <2>1, <2>5, <3>2 DEF SameStage, Faulting, Ending
    <3> QED
      BY <3>1, <3>2
  <2>8. SameFrames(shellmemory, shellmemory') /\ status' # "crashed"
    BY <2>1 DEF SameFrames, Idle
  <2> HIDE DEF IInv
  <2> QED
    BY <1>0, <2>1, <2>5, <2>6, <2>7, <2>8, IInvQuiet
<1>9. CASE handle_page_fault
  <2>1. cur \in Pid /\ cur # 0 /\ Faulting(cur) /\ status = "running"
    BY <1>9, FaultCases
  <2>2. ASSUME Crash,
               \/ pcb[cur].dangling \/ cwd # Home
               \/ find_free_frame(shellmemory, pcb[cur]) > TOTAL_FRAMES
        PROVE  IInv'
    <3>1. Undisturbed => cwd # Home
      <4>1. find_free_frame(shellmemory, pcb[cur]) \in Nat
        <5> DEFINE q == pcb[cur]
        <5>1. q \in PCB /\ q.num_pages <= PageTableSize
          BY <2>1, TableBounds DEF Base
        <5> HIDE DEF q
        <5>2. find_free_frame(shellmemory, q) \in Nat
          BY <5>1, FoundFrame
        <5> QED
          BY <5>2 DEF q
      <4> QED
        BY <2>1, <2>2, <4>1, NoCrashFault, SizeAssumption
    <3>2. Undisturbed => FileMissing
      BY <2>1, <3>1 DEF Faulting, FileMissing
    <3> QED
      BY <1>20, <2>2, <3>2
  <2>3. ASSUME NEW s, NEW f, FaultLoaded(s, f)
        PROVE  IInv'
    <3>1. PlacesOK'
      BY <2>1, <2>3, PlacesFault
    <3>2. RunsOK'
      BY <2>1, <2>3, <3>1, RunsFault
    <3> QED
      BY <1>0, <3>1, <3>2
  <2> QED
    BY <1>9, <2>2, <2>3, FaultCases
<1>10. CASE LineDone
  BY <1>0, <1>10, IInvStill DEF LineDone, Idle
<1>11. CASE SchedulerDone
  BY <1>0, <1>11, IInvStill DEF SchedulerDone, command
<1>12. ASSUME NEW c \in Command, Type(c)
       PROVE  IInv'
  <2>1. c \in AnyCommand /\ interpreter(c) /\ MemoryOK
    BY <1>12 DEF AnyCommand, Type, Base
  <2>2. SameFrames(shellmemory, shellmemory') /\ status' # "crashed"
    BY <1>12, <2>1, Interpreted DEF Type
  <2>3. UNCHANGED <<pcb, cur, after, evicted>>
    BY <1>12 DEF Type, control
  <2>4. pcb' \in Seq(PCB) /\ Len(pcb') = Len(pcb) /\ Pid' = Pid
    BY <2>3 DEF Pid, Base, QueueOK
  <2>5. \A p \in Pid : SameFields(p) /\ SameStage(p)
    BY <2>3 DEF SameFields, SameStage, Faulting, Ending
  <2> HIDE DEF IInv
  <2> QED
    BY <1>0, <2>2, <2>3, <2>4, <2>5, IInvQuiet
<1>13. CASE UNCHANGED vars
  BY <1>0, <1>13, IInvStill DEF vars, control, command
<1> QED
  BY <1>1, <1>2, <1>3, <1>4, <1>5, <1>6, <1>7, <1>8, <1>9, <1>10, <1>11, <1>12, <1>13
     DEF Next, Step

\* The whole inductive invariant.
THEOREM Invariant == Spec => []IInv
<1>1. IInv /\ [Next]_vars => IInv'
  BY IInvNext
<1> QED
  BY IInvInit, <1>1, PTL DEF Spec

\* PagesInPlace, for any scripts, sizes and commands: while the store is
\* undisturbed, no load for another process, and no set or resetmem, touches a
\* frame that a page table names (find_free_frame, load_page, mem_set_value).
THEOREM PagesStayInPlace == Spec => []PagesInPlace
<1>1. IInv => PagesInPlace
  <2> SUFFICES ASSUME IInv, Undisturbed, NEW p \in Pid, NEW c \in Page,
                      pcb[p].pagetable[c] # -1, NEW k \in 1 .. 3
               PROVE  shellmemory[FrameStart(pcb[p].pagetable[c]) + k - 1] =
                        IF 3 * c + k <= Len(Program[pcb[p].filename])
                        THEN PageLine(pcb[p].filename, c, k) ELSE Free
    BY DEF PagesInPlace
  <2>1. c \in 0 .. pcb[p].num_pages - 1
    <3>1. pcb[p].num_pages \in Nat /\ c \in Nat
      BY TableBounds, SizeAssumption DEF IInv, Base, Page
    <3>2. ~(c >= pcb[p].num_pages)
      BY DEF IInv, Base, TablesOK, TableOK
    <3> QED
      BY <3>1, <3>2
  <2>2. Stands(shellmemory, pcb[p].filename, c, pcb[p].pagetable[c])
    BY <2>1 DEF IInv, PlacesOK
  <2> QED
    BY <2>2 DEF Stands
<1> QED
  BY <1>1, Invariant, PTL

\* InOrder, for any scripts, sizes and commands: every process runs the lines of
\* its script in order and all of them before it ends, across turns, page faults
\* and nested run and exec lines (execute_process, handle_page_fault).
THEOREM LinesInOrder == Spec => []InOrder
<1>1. IInv => InOrder
  <2> SUFFICES ASSUME IInv, Undisturbed \/ Alone, NEW p \in Pid
               PROVE  /\ pcb[p].ran = [i \in 1 .. Len(pcb[p].ran) |->
                                         [script |-> pcb[p].filename, line |-> i]]
                      /\ pcb[p].done => Len(pcb[p].ran) = Len(Program[pcb[p].filename])
    BY DEF InOrder
  <2> DEFINE q == pcb[p]
  <2>1. RunOK(p) /\ TableOK(p)
    BY DEF IInv, RunsOK, Base, TablesOK
  <2>2. q \in PCB /\ q.filename \in Script
    BY TableBounds DEF IInv, Base
  <2>3. \A i \in 1 .. Len(q.ran) : q.ran[i] = [script |-> q.filename, line |-> i]
    BY <2>1 DEF RunOK
  <2>4. q.done => Len(q.ran) = CountAtStart(q) /\ q.current_page = countPages(q.filename)
    BY <2>1 DEF RunOK, TableOK, Ending
  <2> HIDE DEF q
  <2>5. q.ran \in Seq(LineOf)
    BY <2>2 DEF PCB
  <2>6. q.ran = [i \in 1 .. Len(q.ran) |-> [script |-> q.filename, line |-> i]]
    <3> DEFINE u == q.ran
               w == [i \in 1 .. Len(u) |-> [script |-> q.filename, line |-> i]]
    <3>1. u = [i \in 1 .. Len(u) |-> u[i]]
      BY <2>5
    <3>2. \A i \in 1 .. Len(u) : u[i] = w[i]
      BY <2>3
    <3> QED
      BY <3>1, <3>2, Zenon
  <2>7. q.done => Len(q.ran) = Len(Program[q.filename])
    <3>1. Len(Program[q.filename]) \in Nat /\ countPages(q.filename) \in Nat
          /\ Len(Program[q.filename]) <= 3 * countPages(q.filename)
      BY <2>2, PageCount, SizeAssumption
    <3> QED
      BY <2>4, <3>1 DEF CountAtStart
  <2> QED
    BY <2>6, <2>7 DEF q
<1> QED
  BY <1>1, Invariant, PTL

\* NoCrash, for any scripts, sizes and commands: in an undisturbed store, and unless
\* a file that is opened is not where my_cd left the shell, PC stays in the frame of
\* its page and the victim's number is that of a frame (mem_get_value_at_line,
\* get_victim, handle_page_fault).
THEOREM NeverCrashes == Spec => []NoCrash
<1>1. IInv => NoCrash
  BY DEF IInv, RunsOK, NoCrash, FileMissing
<1> QED
  BY <1>1, Invariant, PTL
=============================================================================
