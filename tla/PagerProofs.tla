---------------------------- MODULE PagerProofs ----------------------------
(***************************************************************************)
(* Proofs about the a3 kernel and its demand paging, for any scripts, any  *)
(* sizes of the frame store and of the variable store, and any commands.   *)
(*                                                                         *)
(* The first part holds for all scripts: types, fair turns, and that no    *)
(* process runs a line twice or one of another script.                     *)
(***************************************************************************)
EXTENDS Pager, NatLemmas, FiniteSetTheorems, SequenceTheorems

\* Every step uses the constants' assumptions.
USE MemoryAssumption, MaxPidAssumption

-----------------------------------------------------------------------------
(* The invariant for all scripts.  Its parts are stated for a memory m and   *)
(* PCBs t, since a page fault goes through states in between.               *)

\* The lines of the scripts, as memory holds them.
LineRef == UNION {{<<s, k>> : k \in 1 .. Len(Program[s])} : s \in DOMAIN Program}

Cell == [var : Var \cup {None} \cup Nat, value : Value \cup {None} \cup LineRef]

MemOK(m) ==
  /\ m \in [Pos -> Cell]
  /\ \A a \in FramePos : m[a].value \in LineRef \cup {None}

PageRec == [index : [Offset -> Nat], valid : [Offset -> BOOLEAN], pc : 0 .. 3]
Table == UNION {[0 .. k - 1 -> PageRec] : k \in Nat}
PCB == [script : DOMAIN Program, size : Nat, pos : Nat, page_table : Table]

TableSize(s) == PAGE_table_size(count_lines(s))

\* Lines that the kernel takes a process to have run, and what they leave in the
\* program counter of page i.
Taken(P) == count_lines(P.script) - P.size
Pc(u, i) == IF u >= 3 * i + 3 THEN 3 ELSE IF u <= 3 * i THEN 0 ELSE u - 3 * i

\* A page is at three lines of the frame store that follow each other, or it has
\* no valid line.
IsLoaded(g) ==
  /\ g.index[0] \in FramePos /\ g.index[0] + 2 \in FramePos
  /\ g.index[1] = g.index[0] + 1 /\ g.index[2] = g.index[0] + 2
Invalid(g) == g.valid = [k \in Offset |-> FALSE]
Everywhere(a) == [k \in Offset |-> a]
NotLoaded(g) ==
  Invalid(g) /\ \E a \in {0, Unmapped} : g.index = Everywhere(a)

ProcOK(P) ==
  /\ P.size <= count_lines(P.script) /\ P.pos <= Len(Program[P.script])
  /\ DOMAIN P.page_table = 0 .. TableSize(P.script) - 1
  /\ \A i \in DOMAIN P.page_table :
       /\ P.page_table[i].pc = Pc(Taken(P), i)
       /\ NotLoaded(P.page_table[i]) \/ IsLoaded(P.page_table[i])

PCBs(t) == t \in [DOMAIN t -> PCB]
ProcsOK(t) == PCBs(t) /\ \A p \in DOMAIN t : ProcOK(t[p])

\* The pages of the processes of t.
PageRefs(t) == UNION {{<<p, i>> : i \in DOMAIN t[p].page_table} : p \in DOMAIN t}

\* The ready queue, the process whose turn it is, and the command under way.
QueueOK ==
  /\ DOMAIN pcb \subseteq 1 .. PID_counter - 1
  /\ PID_counter \in Nat \ {0} /\ todo \in Seq(Script)
  /\ PID_counter + Len(todo) <= MaxPid + 1
  /\ QUEUE \in Seq(DOMAIN pcb) /\ curr \in DOMAIN pcb \cup {0}
  /\ \A k \in 1 .. Len(QUEUE) : QUEUE[k] # curr
  /\ \A k, l \in 1 .. Len(QUEUE) : QUEUE[k] = QUEUE[l] => k = l
  /\ step \in {"none", "first", "second", "only"} /\ mode \in {"shell", "exec", "exited"}
  /\ curr # 0 =>
       /\ mode = "exec" /\ todo = <<>>
       /\ step # "none" /\ pcb[curr].size >= 1
       /\ step = "first" => pcb[curr].size >= 2
  /\ mode = "shell" => pcb = <<>> /\ QUEUE = <<>> /\ LRU_CACHE = <<>> /\ todo = <<>>

HistoryOK ==
  /\ executed \in [DOMAIN pcb -> Seq(LineRef \cup {None})]
  /\ env \in [Var -> Value \cup {None}]
  /\ LRU_CACHE \in Seq(PageRefs(pcb))

\* Since a process had its last turn, those before it in the queue had none and
\* the others at most one.
TurnsOK ==
  /\ turns \in [DOMAIN pcb -> [DOMAIN pcb -> Nat]]
  /\ \A k \in 1 .. Len(QUEUE) : \A q \in DOMAIN pcb : turns[QUEUE[k]][q] <= 1
  /\ \A k, l \in 1 .. Len(QUEUE) : l <= k => turns[QUEUE[k]][QUEUE[l]] = 0
  /\ curr # 0 => \A q \in DOMAIN pcb : turns[curr][q] = 0

Base == MemOK(shellmemory) /\ ProcsOK(pcb) /\ QueueOK /\ HistoryOK
-----------------------------------------------------------------------------
(* Scripts, pages and program counters.                                     *)

\* A script has finitely many lines, each of them a line.
LEMMA Scripts ==
  ASSUME NEW s \in DOMAIN Program
  PROVE  /\ s \in Script /\ Len(Program[s]) \in Nat
         /\ Program[s] \in Seq(Line) /\ \A k \in 1 .. Len(Program[s]) : Program[s][k] \in Line
<1>1. /\ Program[s] = [k \in 1 .. Len(Program[s]) |-> Program[s][k]]
      /\ \A k \in 1 .. Len(Program[s]) : Program[s][k] \in Line
      /\ s \in Script
  BY ProgramAssumption
<1> QED
  BY <1>1

\* A script has at least one line to the kernel, and its pages have room for them.
LEMMA CountLines ==
  ASSUME NEW s \in DOMAIN Program
  PROVE  /\ count_lines(s) \in Nat \ {0} /\ count_lines(s) <= Len(Program[s]) + 1
         /\ TableSize(s) \in Nat \ {0}
         /\ count_lines(s) <= 3 * TableSize(s) /\ 3 * TableSize(s) < count_lines(s) + 3
<1> DEFINE S == {k \in 1 .. Len(Program[s]) :
                   /\ ~Program[s][k].blank
                   /\ k < Len(Program[s]) \/ s \in EndsWithNewline}
<1>1. Len(Program[s]) \in Nat
  BY Scripts
<1>2. IsFiniteSet(1 .. Len(Program[s])) /\ Cardinality(1 .. Len(Program[s])) = Len(Program[s])
  <2> DEFINE L == Len(Program[s])
  <2>1. L \in Nat
    BY <1>1
  <2> HIDE DEF L
  <2>2. IsFiniteSet(1 .. L) /\ Cardinality(1 .. L) = IF 1 > L THEN 0 ELSE L - 1 + 1
    BY <2>1, FS_Interval
  <2>3. Cardinality(1 .. L) = L
    BY <2>1, <2>2
  <2> QED
    BY <2>2, <2>3 DEF L
<1>3. IsFiniteSet(S) /\ Cardinality(S) <= Len(Program[s])
  BY <1>2, FS_Subset
<1>4. Cardinality(S) \in Nat
  BY <1>3, FS_CardinalityType
<1>5. count_lines(s) = 1 + Cardinality(S)
  BY DEF count_lines
<1> HIDE DEF S
<1>6. count_lines(s) \in Nat \ {0} /\ count_lines(s) <= Len(Program[s]) + 1
  BY <1>1, <1>3, <1>4, <1>5
<1> DEFINE c == count_lines(s)
<1> HIDE DEF c
<1>7. TableSize(s) = (c + 2) \div 3
  BY DEF TableSize, PAGE_table_size, c
<1>8. c \in Nat \ {0}
  BY <1>6 DEF c
<1>9. /\ TableSize(s) \in Nat \ {0} /\ c <= 3 * TableSize(s) /\ 3 * TableSize(s) < c + 3
  BY <1>7, <1>8
<1> QED
  BY <1>6, <1>9 DEF c

\* Program counters: how many of the lines taken are in page i.
LEMMA PcFacts ==
  ASSUME NEW u \in Nat, NEW i \in Nat
  PROVE  /\ Pc(u, i) \in 0 .. 3
         /\ Pc(u, i) = 3 <=> u >= 3 * i + 3
         /\ u >= 3 * i /\ u < 3 * i + 3 => Pc(u, i) = u - 3 * i /\ Pc(u + 1, i) = Pc(u, i) + 1
         /\ \A j \in Nat : j # i /\ u >= 3 * i /\ u < 3 * i + 3 => Pc(u + 1, j) = Pc(u, j)
  BY DEF Pc

\* The first of a set of numbers.
LEMMA FirstIn ==
  ASSUME NEW S, S \subseteq Nat, S # {}
  PROVE  First(S) \in S /\ \A a \in S : First(S) <= a
  BY LeastExists, Zenon DEF First

\* The page where a process goes on is the one of its next line.
LEMMA Current ==
  ASSUME NEW P \in PCB, ProcOK(P), P.size >= 1
  PROVE  LET i == CurrentPage(P) IN
         /\ i \in DOMAIN P.page_table /\ i \in Nat
         /\ Taken(P) \in Nat /\ 3 * i <= Taken(P) /\ Taken(P) < 3 * i + 3
         /\ P.page_table[i].pc = Taken(P) - 3 * i
<1> DEFINE S == {i \in DOMAIN P.page_table : P.page_table[i].pc # 3}
           u == Taken(P)
           c == count_lines(P.script)
           n == TableSize(P.script)
<1>1. /\ c \in Nat \ {0} /\ n \in Nat \ {0} /\ c <= 3 * n
      /\ P.size \in Nat /\ P.size <= c /\ u = c - P.size
      /\ DOMAIN P.page_table = 0 .. n - 1
      /\ \A i \in DOMAIN P.page_table : P.page_table[i].pc = Pc(u, i)
  BY CountLines DEF PCB, ProcOK, Taken
<1> HIDE DEF u, c, n
<1>2. u \in Nat /\ u < 3 * n
  BY <1>1
<1>3. u \div 3 \in 0 .. n - 1 /\ u < 3 * (u \div 3) + 3
  <2>1. PICK d, e : d = u \div 3 /\ e = u % 3
    OBVIOUS
  <2>2. d \in Nat /\ e \in 0 .. 2 /\ u = 3 * d + e
    BY <1>2, <2>1, DivMod
  <2>3. d < n
    BY <1>1, <1>2, <2>2
  <2>4. d \in 0 .. n - 1 /\ u < 3 * d + 3
    BY <1>1, <2>2, <2>3
  <2> QED
    BY <2>1, <2>4, Zenon
<1>4. u \div 3 \in S
  <2>1. Pc(u, u \div 3) # 3
    BY <1>2, <1>3, PcFacts
  <2> QED
    BY <1>1, <1>3, <2>1
<1>5. CurrentPage(P) = First(S)
  BY DEF CurrentPage
<1>6. S \subseteq Nat
  BY <1>1
<1> HIDE DEF S
<1> DEFINE i == CurrentPage(P)
<1>7. i \in S /\ \A j \in S : i <= j
  BY <1>4, <1>5, <1>6, FirstIn
<1> HIDE DEF i
<1>8. i \in DOMAIN P.page_table /\ P.page_table[i].pc # 3 /\ i \in Nat
  BY <1>6, <1>7 DEF S
<1>9. u < 3 * i + 3
  <2>1. Pc(u, i) # 3
    BY <1>1, <1>8
  <2> QED
    BY <1>2, <1>8, <2>1, PcFacts
<1>10. 3 * i <= u
  BY <1>2, <1>3, <1>4, <1>7, <1>8
<1>11. P.page_table[i].pc = u - 3 * i
  <2>1. Pc(u, i) = u - 3 * i
    BY <1>2, <1>8, <1>9, <1>10, PcFacts
  <2> QED
    BY <1>1, <1>8, <2>1
<1> QED
  BY <1>2, <1>8, <1>9, <1>10, <1>11 DEF i, u
-----------------------------------------------------------------------------
(* What the updates of a PCB and one of its pages change.                   *)

\* From t to u only process p changes, and of its pages only i.
Changed(t, u, p, i) ==
  /\ u \in [DOMAIN t -> PCB]
  /\ \A q \in DOMAIN t : q # p => u[q] = t[q]
  /\ u[p].script = t[p].script
  /\ DOMAIN u[p].page_table = DOMAIN t[p].page_table
  /\ \A j \in DOMAIN t[p].page_table : j # i => u[p].page_table[j] = t[p].page_table[j]

\* A table with another page, and a PCB with another table.
LEMMA TableSet ==
  ASSUME NEW T \in Table, NEW i \in DOMAIN T, NEW g \in PageRec
  PROVE  [T EXCEPT ![i] = g] \in Table
<1>1. PICK k \in Nat : T \in [0 .. k - 1 -> PageRec]
  BY DEF Table
<1>2. [T EXCEPT ![i] = g] \in [0 .. k - 1 -> PageRec]
  BY <1>1
<1> QED
  BY <1>2 DEF Table

LEMMA PageOf ==
  ASSUME NEW P \in PCB, NEW i \in DOMAIN P.page_table
  PROVE  /\ P.page_table \in Table /\ P.page_table[i] \in PageRec /\ i \in Nat
         /\ P.page_table[i].index \in [Offset -> Nat]
         /\ P.page_table[i].valid \in [Offset -> BOOLEAN]
         /\ P.page_table[i].pc \in 0 .. 3
<1>1. P.page_table \in Table
  BY DEF PCB
<1>2. PICK k \in Nat : P.page_table \in [0 .. k - 1 -> PageRec]
  BY <1>1 DEF Table
<1>3. P.page_table[i] \in PageRec /\ i \in Nat
  BY <1>2
<1> QED
  BY <1>1, <1>3 DEF PageRec

LEMMA SetPos ==
  ASSUME NEW P \in PCB, NEW x \in Nat, NEW Q, Q = [P EXCEPT !.pos = x]
  PROVE  /\ Q \in PCB /\ Q.pos = x /\ Q.script = P.script /\ Q.size = P.size
         /\ Q.page_table = P.page_table
  BY DEF PCB

LEMMA SetSize ==
  ASSUME NEW P \in PCB, NEW x \in Nat, NEW Q, Q = [P EXCEPT !.size = x]
  PROVE  /\ Q \in PCB /\ Q.size = x /\ Q.script = P.script /\ Q.pos = P.pos
         /\ Q.page_table = P.page_table
  BY DEF PCB

LEMMA SetTable ==
  ASSUME NEW P \in PCB, NEW T \in Table, NEW Q, Q = [P EXCEPT !.page_table = T]
  PROVE  /\ Q \in PCB /\ Q.page_table = T /\ Q.script = P.script /\ Q.pos = P.pos
         /\ Q.size = P.size
  BY DEF PCB

\* A page with one field changed.
LEMMA SetIndex ==
  ASSUME NEW h \in PageRec, NEW f \in [Offset -> Nat], NEW g, g = [h EXCEPT !.index = f]
  PROVE  g \in PageRec /\ g.index = f /\ g.valid = h.valid /\ g.pc = h.pc
  BY DEF PageRec

LEMMA SetValid ==
  ASSUME NEW h \in PageRec, NEW v \in [Offset -> BOOLEAN], NEW g, g = [h EXCEPT !.valid = v]
  PROVE  g \in PageRec /\ g.index = h.index /\ g.valid = v /\ g.pc = h.pc
  BY DEF PageRec

LEMMA SetPc ==
  ASSUME NEW h \in PageRec, NEW c \in 0 .. 3, NEW g, g = [h EXCEPT !.pc = c]
  PROVE  g \in PageRec /\ g.index = h.index /\ g.valid = h.valid /\ g.pc = c
  BY DEF PageRec

\* Process p with another PCB that differs in page i only.
With(t, p, Q) == [t EXCEPT ![p] = Q]

LEMMA ChangedBy ==
  ASSUME NEW t, PCBs(t), NEW p \in DOMAIN t,
         NEW i \in DOMAIN t[p].page_table, NEW Q \in PCB, NEW g \in PageRec,
         Q.script = t[p].script, Q.page_table = With(t[p].page_table, i, g),
         NEW u, u = With(t, p, Q)
  PROVE  Changed(t, u, p, i) /\ u[p] = Q /\ u[p].page_table[i] = g
<1>1. PICK k \in Nat : t[p].page_table \in [0 .. k - 1 -> PageRec]
  <2>1. t[p] \in PCB
    BY DEF PCBs
  <2>2. t[p].page_table \in Table
    BY <2>1 DEF PCB
  <2> QED
    BY <2>2 DEF Table
<1>2. /\ DOMAIN Q.page_table = DOMAIN t[p].page_table /\ Q.page_table[i] = g
      /\ \A j \in DOMAIN t[p].page_table : j # i => Q.page_table[j] = t[p].page_table[j]
  BY <1>1 DEF With
<1>3. u \in [DOMAIN t -> PCB] /\ u[p] = Q /\ \A q \in DOMAIN t : q # p => u[q] = t[q]
  BY Zenon DEF PCBs, With
<1> QED
  BY <1>2, <1>3, Zenon DEF Changed

\* An update of three fields at once, as load_PAGE makes it.
LoadUpdate(t, p, i, x, f, v) ==
  [t EXCEPT ![p].pos = x, ![p].page_table[i].index = f, ![p].page_table[i].valid = v]

LEMMA LoadUpdated ==
  ASSUME NEW t, PCBs(t), NEW p \in DOMAIN t,
         NEW i \in DOMAIN t[p].page_table, NEW x \in Nat,
         NEW f \in [Offset -> Nat], NEW v \in [Offset -> BOOLEAN],
         NEW u, u = LoadUpdate(t, p, i, x, f, v)
  PROVE  /\ Changed(t, u, p, i) /\ u[p].size = t[p].size /\ u[p].pos = x
         /\ u[p].page_table[i].index = f /\ u[p].page_table[i].valid = v
         /\ u[p].page_table[i].pc = t[p].page_table[i].pc
<1>0. PICK P \in PCB : P = t[p]
  BY DEF PCBs
<1>1. PICK h \in PageRec : h = P.page_table[i]
  BY <1>0, PageOf
<1>2. PICK g1 : g1 = [h EXCEPT !.index = f]
  OBVIOUS
<1>3. g1 \in PageRec /\ g1.index = f /\ g1.pc = h.pc
  BY <1>2, SetIndex
<1>4. PICK g : g = [g1 EXCEPT !.valid = v]
  OBVIOUS
<1>5. g \in PageRec /\ g.index = f /\ g.valid = v /\ g.pc = h.pc
  BY <1>3, <1>4, SetValid
<1>6. PICK T \in Table : T = [P.page_table EXCEPT ![i] = g]
  BY <1>0, <1>5, TableSet, PageOf
<1>7. PICK Q1 : Q1 = [P EXCEPT !.pos = x]
  OBVIOUS
<1>8. Q1 \in PCB /\ Q1.script = P.script /\ Q1.size = P.size /\ Q1.pos = x
  BY <1>7, SetPos
<1>9. PICK Q : Q = [Q1 EXCEPT !.page_table = T]
  OBVIOUS
<1>10. Q \in PCB /\ Q.script = P.script /\ Q.size = P.size /\ Q.pos = x /\ Q.page_table = T
  BY <1>8, <1>9, SetTable
<1>11. u = With(t, p, Q)
  <2>1. u = [t EXCEPT ![p] =
               [[t[p] EXCEPT !.pos = x] EXCEPT !.page_table =
                  [t[p].page_table EXCEPT ![i] =
                     [[t[p].page_table[i] EXCEPT !.index = f] EXCEPT !.valid = v]]]]
    <3>1. t \in [DOMAIN t -> PCB]
      BY DEF PCBs
    <3> QED
      BY <3>1, ZenonT(40) DEF LoadUpdate, PCB
  <2>2. Q = [[t[p] EXCEPT !.pos = x] EXCEPT !.page_table =
               [t[p].page_table EXCEPT ![i] =
                  [[t[p].page_table[i] EXCEPT !.index = f] EXCEPT !.valid = v]]]
    BY <1>0, <1>1, <1>2, <1>4, <1>6, <1>7, <1>9, Zenon
  <2> QED
    BY <2>1, <2>2, Zenon DEF With
<1>12. Changed(t, u, p, i) /\ u[p] = Q /\ u[p].page_table[i] = g
  <2>1. Q.script = t[p].script /\ Q.page_table = With(t[p].page_table, i, g)
    BY <1>0, <1>6, <1>10, Zenon DEF With
  <2> QED
    BY <1>5, <1>10, <1>11, <2>1, ChangedBy
<1> QED
  BY <1>0, <1>1, <1>5, <1>10, <1>12

\* load_PAGE: how many lines are read, and what becomes of page i and its PCB.
Read(P) ==
  IF Len(Program[P.script]) - P.pos < 3 THEN Len(Program[P.script]) - P.pos ELSE 3

LEMMA LoadChanges ==
  ASSUME NEW t, PCBs(t), NEW p \in DOMAIN t, t[p].pos <= Len(Program[t[p].script]),
         NEW i \in DOMAIN t[p].page_table, NEW b \in Nat, NEW st, st.pcb = t,
         NEW u, u = load_PAGE(st, p, i, b).pcb
  PROVE  /\ Changed(t, u, p, i) /\ Read(t[p]) \in 0 .. 3
         /\ u[p].size = t[p].size /\ u[p].pos = t[p].pos + Read(t[p])
         /\ u[p].pos <= Len(Program[t[p].script])
         /\ u[p].page_table[i].index = [k \in Offset |-> b + k]
         /\ u[p].page_table[i].valid = [k \in Offset |-> k < Read(t[p])]
         /\ u[p].page_table[i].pc = t[p].page_table[i].pc
<1> DEFINE n == Read(t[p])
           L == Len(Program[t[p].script])
           f == [k \in Offset |-> b + k]
           v == [k \in Offset |-> k < n]
           x == t[p].pos + n
           P == t[p]
           h == P.page_table[i]
<1>1. P \in PCB
  BY DEF PCBs
<1>2. /\ P.page_table \in Table /\ h \in PageRec /\ P.script \in DOMAIN Program /\ P.pos \in Nat
  BY <1>1, PageOf DEF PCB
<1>3. L \in Nat
  BY <1>2, Scripts
<1>4. n \in 0 .. 3 /\ x \in Nat /\ x <= L
  BY <1>2, <1>3 DEF Read
<1>5. f \in [Offset -> Nat] /\ v \in [Offset -> BOOLEAN]
  BY DEF Offset
<1>6. u = LoadUpdate(t, p, i, x, f, v)
  BY Zenon DEF load_PAGE, Read, LoadUpdate
<1> HIDE DEF f, v, x, n, L
<1>7. /\ Changed(t, u, p, i) /\ u[p].size = t[p].size /\ u[p].pos = x
      /\ u[p].page_table[i].index = f /\ u[p].page_table[i].valid = v
      /\ u[p].page_table[i].pc = t[p].page_table[i].pc
  BY <1>4, <1>5, <1>6, LoadUpdated
<1> QED
  BY <1>4, <1>7 DEF f, v, x, n, L


\* The update of PAGE_evict.
EvictUpdate(t, p, i, f, v) ==
  [t EXCEPT ![p].page_table[i].index = f, ![p].page_table[i].valid = v]

LEMMA EvictUpdated ==
  ASSUME NEW t, PCBs(t), NEW p \in DOMAIN t, NEW i \in DOMAIN t[p].page_table,
         NEW f \in [Offset -> Nat], NEW v \in [Offset -> BOOLEAN],
         NEW u, u = EvictUpdate(t, p, i, f, v)
  PROVE  /\ Changed(t, u, p, i) /\ u[p].size = t[p].size /\ u[p].pos = t[p].pos
         /\ u[p].page_table[i].index = f /\ u[p].page_table[i].valid = v
         /\ u[p].page_table[i].pc = t[p].page_table[i].pc
<1>0. PICK P \in PCB : P = t[p]
  BY DEF PCBs
<1>1. PICK h \in PageRec : h = P.page_table[i]
  BY <1>0, PageOf
<1>2. PICK g1 : g1 = [h EXCEPT !.index = f]
  OBVIOUS
<1>3. g1 \in PageRec /\ g1.index = f /\ g1.pc = h.pc
  BY <1>2, SetIndex
<1>4. PICK g : g = [g1 EXCEPT !.valid = v]
  OBVIOUS
<1>5. g \in PageRec /\ g.index = f /\ g.valid = v /\ g.pc = h.pc
  BY <1>3, <1>4, SetValid
<1>6. PICK T \in Table : T = [P.page_table EXCEPT ![i] = g]
  BY <1>0, <1>5, TableSet, PageOf
<1>9. PICK Q : Q = [P EXCEPT !.page_table = T]
  OBVIOUS
<1>10. Q \in PCB /\ Q.script = P.script /\ Q.size = P.size /\ Q.pos = P.pos /\ Q.page_table = T
  BY <1>9, SetTable
<1>11. u = With(t, p, Q)
  <2>1. u = [t EXCEPT ![p] =
               [t[p] EXCEPT !.page_table =
                  [t[p].page_table EXCEPT ![i] =
                     [[t[p].page_table[i] EXCEPT !.index = f] EXCEPT !.valid = v]]]]
    <3>1. t \in [DOMAIN t -> PCB]
      BY DEF PCBs
    <3> QED
      BY <3>1, Zenon DEF EvictUpdate, PCB
  <2>2. Q = [t[p] EXCEPT !.page_table =
               [t[p].page_table EXCEPT ![i] =
                  [[t[p].page_table[i] EXCEPT !.index = f] EXCEPT !.valid = v]]]
    BY <1>0, <1>1, <1>2, <1>4, <1>6, <1>9, Zenon
  <2> QED
    BY <2>1, <2>2, Zenon DEF With
<1>12. Changed(t, u, p, i) /\ u[p] = Q /\ u[p].page_table[i] = g
  <2>1. Q.script = t[p].script /\ Q.page_table = With(t[p].page_table, i, g)
    BY <1>0, <1>6, <1>10, Zenon DEF With
  <2> QED
    BY <1>5, <1>10, <1>11, <2>1, ChangedBy
<1> QED
  BY <1>0, <1>1, <1>5, <1>10, <1>12

\* PAGE_evict: the page is not in memory any more.
LEMMA EvictChanges ==
  ASSUME NEW t, PCBs(t), NEW p \in DOMAIN t, NEW i \in DOMAIN t[p].page_table,
         NEW st, st.pcb = t, NEW u, u = PAGE_evict(st, p, i).pcb
  PROVE  /\ Changed(t, u, p, i) /\ u[p].size = t[p].size /\ u[p].pos = t[p].pos
         /\ u[p].page_table[i].index = Everywhere(0) /\ Invalid(u[p].page_table[i])
         /\ u[p].page_table[i].pc = t[p].page_table[i].pc
<1> DEFINE f == [k \in Offset |-> 0]
           v == [k \in Offset |-> FALSE]
<1>1. f \in [Offset -> Nat] /\ v \in [Offset -> BOOLEAN]
  OBVIOUS
<1>2. u = EvictUpdate(t, p, i, f, v)
  BY Zenon DEF PAGE_evict, EvictUpdate
<1> HIDE DEF f, v
<1>3. /\ Changed(t, u, p, i) /\ u[p].size = t[p].size /\ u[p].pos = t[p].pos
      /\ u[p].page_table[i].index = f /\ u[p].page_table[i].valid = v
      /\ u[p].page_table[i].pc = t[p].page_table[i].pc
  BY <1>1, <1>2, EvictUpdated
<1> QED
  BY <1>3 DEF f, v, Everywhere, Invalid

\* A line was run: size goes down, the page's program counter up (cpu_run).
RunUpdate(t, p, i) == [t EXCEPT ![p].size = @ - 1, ![p].page_table[i].pc = @ + 1]

LEMMA RunChanges ==
  ASSUME NEW t, PCBs(t), NEW p \in DOMAIN t, NEW i \in DOMAIN t[p].page_table,
         t[p].size >= 1, t[p].page_table[i].pc # 3, NEW u, u = RunUpdate(t, p, i)
  PROVE  /\ Changed(t, u, p, i) /\ u[p].size = t[p].size - 1 /\ u[p].pos = t[p].pos
         /\ u[p].page_table[i].index = t[p].page_table[i].index
         /\ u[p].page_table[i].valid = t[p].page_table[i].valid
         /\ u[p].page_table[i].pc = t[p].page_table[i].pc + 1
<1>0. PICK P \in PCB : P = t[p]
  BY DEF PCBs
<1>1. PICK h \in PageRec : h = P.page_table[i]
  BY <1>0, PageOf
<1>2. PICK x, c : x = P.size - 1 /\ c = h.pc + 1
  OBVIOUS
<1>3. x \in Nat /\ c \in 0 .. 3
  BY <1>0, <1>1, <1>2 DEF PCB, PageRec
<1>4. PICK g : g = [h EXCEPT !.pc = c]
  OBVIOUS
<1>5. g \in PageRec /\ g.index = h.index /\ g.valid = h.valid /\ g.pc = c
  BY <1>3, <1>4, SetPc
<1>6. PICK T \in Table : T = [P.page_table EXCEPT ![i] = g]
  BY <1>0, <1>5, TableSet, PageOf
<1>7. PICK Q1 : Q1 = [P EXCEPT !.size = x]
  OBVIOUS
<1>8. Q1 \in PCB /\ Q1.script = P.script /\ Q1.size = x /\ Q1.pos = P.pos
  BY <1>3, <1>7, SetSize
<1>9. PICK Q : Q = [Q1 EXCEPT !.page_table = T]
  OBVIOUS
<1>10. Q \in PCB /\ Q.script = P.script /\ Q.size = x /\ Q.pos = P.pos /\ Q.page_table = T
  BY <1>8, <1>9, SetTable
<1>11. u = With(t, p, Q)
  <2>1. u = [t EXCEPT ![p] =
               [[t[p] EXCEPT !.size = t[p].size - 1] EXCEPT !.page_table =
                  [t[p].page_table EXCEPT ![i] =
                     [t[p].page_table[i] EXCEPT !.pc = t[p].page_table[i].pc + 1]]]]
    <3>1. t \in [DOMAIN t -> PCB]
      BY DEF PCBs
    <3> QED
      BY <3>1, Zenon DEF RunUpdate, PCB
  <2>2. Q = [[t[p] EXCEPT !.size = t[p].size - 1] EXCEPT !.page_table =
               [t[p].page_table EXCEPT ![i] =
                  [t[p].page_table[i] EXCEPT !.pc = t[p].page_table[i].pc + 1]]]
    BY <1>0, <1>1, <1>2, <1>4, <1>6, <1>7, <1>9, Zenon
  <2> QED
    BY <2>1, <2>2, Zenon DEF With
<1>12. Changed(t, u, p, i) /\ u[p] = Q /\ u[p].page_table[i] = g
  <2>1. Q.script = t[p].script /\ Q.page_table = With(t[p].page_table, i, g)
    BY <1>0, <1>6, <1>10, Zenon DEF With
  <2> QED
    BY <1>5, <1>10, <1>11, <2>1, ChangedBy
<1> QED
  BY <1>0, <1>1, <1>2, <1>5, <1>10, <1>12
-----------------------------------------------------------------------------
(* Process tables: each update keeps them in order.                         *)

\* A page of one process is loaded, evicted or left.
LEMMA ProcsChanged ==
  ASSUME NEW t, ProcsOK(t), NEW p \in DOMAIN t, NEW i \in DOMAIN t[p].page_table,
         NEW u, Changed(t, u, p, i), u[p].size = t[p].size,
         u[p].pos <= Len(Program[t[p].script]),
         u[p].page_table[i].pc = t[p].page_table[i].pc,
         NotLoaded(u[p].page_table[i]) \/ IsLoaded(u[p].page_table[i])
  PROVE  ProcsOK(u) /\ DOMAIN u = DOMAIN t
<1>1. PCBs(u) /\ DOMAIN u = DOMAIN t
  BY DEF Changed, PCBs
<1>2. ASSUME NEW q \in DOMAIN t, q # p
      PROVE  ProcOK(u[q])
  BY <1>2 DEF Changed, ProcsOK
<1>3. ProcOK(u[p])
  <2>1. ProcOK(t[p])
    BY DEF ProcsOK
  <2>2. u[p].script = t[p].script /\ DOMAIN u[p].page_table = DOMAIN t[p].page_table
    BY DEF Changed
  <2>3. Taken(u[p]) = Taken(t[p])
    BY <2>2 DEF Taken
  <2>4. ASSUME NEW j \in DOMAIN t[p].page_table
        PROVE  /\ u[p].page_table[j].pc = Pc(Taken(u[p]), j)
               /\ NotLoaded(u[p].page_table[j]) \/ IsLoaded(u[p].page_table[j])
    <3>1. CASE j = i
      BY <2>1, <2>3, <3>1 DEF ProcOK
    <3>2. CASE j # i
      <4>1. u[p].page_table[j] = t[p].page_table[j]
        BY <3>2 DEF Changed
      <4> QED
        BY <2>1, <2>3, <4>1 DEF ProcOK
    <3> QED
      BY <3>1, <3>2
  <2> QED
    BY <2>1, <2>2, <2>4 DEF ProcOK
<1> QED
  BY <1>1, <1>2, <1>3 DEF ProcsOK

LEMMA LoadProcs ==
  ASSUME NEW t, ProcsOK(t), NEW p \in DOMAIN t, NEW i \in DOMAIN t[p].page_table,
         NEW b \in FramePos, b + 2 \in FramePos, NEW st, st.pcb = t,
         NEW u, u = load_PAGE(st, p, i, b).pcb
  PROVE  /\ ProcsOK(u) /\ DOMAIN u = DOMAIN t /\ Changed(t, u, p, i)
         /\ Read(t[p]) \in 0 .. 3
         /\ u[p].size = t[p].size /\ u[p].pos = t[p].pos + Read(t[p])
         /\ u[p].page_table[i].index = [k \in Offset |-> b + k]
         /\ u[p].page_table[i].valid = [k \in Offset |-> k < Read(t[p])]
         /\ u[p].page_table[i].pc = t[p].page_table[i].pc
         /\ IsLoaded(u[p].page_table[i])
<1>1. b \in Nat /\ PCBs(t) /\ t[p].pos <= Len(Program[t[p].script])
  BY DEF FramePos, ProcsOK, ProcOK
<1>2. /\ Changed(t, u, p, i) /\ Read(t[p]) \in 0 .. 3
      /\ u[p].size = t[p].size /\ u[p].pos = t[p].pos + Read(t[p])
      /\ u[p].pos <= Len(Program[t[p].script])
      /\ u[p].page_table[i].index = [k \in Offset |-> b + k]
      /\ u[p].page_table[i].valid = [k \in Offset |-> k < Read(t[p])]
      /\ u[p].page_table[i].pc = t[p].page_table[i].pc
  BY <1>1, LoadChanges
<1>3. IsLoaded(u[p].page_table[i])
  <2> DEFINE f == u[p].page_table[i].index
  <2>1. f[0] = b /\ f[1] = b + 1 /\ f[2] = b + 2
    BY <1>1, <1>2 DEF Offset
  <2> QED
    BY <2>1 DEF IsLoaded
<1> QED
  BY <1>2, <1>3, ProcsChanged

LEMMA EvictProcs ==
  ASSUME NEW t, ProcsOK(t), NEW p \in DOMAIN t, NEW i \in DOMAIN t[p].page_table,
         NEW st, st.pcb = t, NEW u, u = PAGE_evict(st, p, i).pcb
  PROVE  /\ ProcsOK(u) /\ DOMAIN u = DOMAIN t /\ Changed(t, u, p, i)
         /\ u[p].size = t[p].size /\ u[p].pos = t[p].pos
         /\ u[p].page_table[i].index = Everywhere(0) /\ Invalid(u[p].page_table[i])
         /\ u[p].page_table[i].pc = t[p].page_table[i].pc
         /\ NotLoaded(u[p].page_table[i])
<1>1. PCBs(t) /\ t[p].pos <= Len(Program[t[p].script])
  BY DEF ProcsOK, ProcOK
<1>2. /\ Changed(t, u, p, i) /\ u[p].size = t[p].size /\ u[p].pos = t[p].pos
      /\ u[p].page_table[i].index = Everywhere(0) /\ Invalid(u[p].page_table[i])
      /\ u[p].page_table[i].pc = t[p].page_table[i].pc
  BY <1>1, EvictChanges
<1>3. NotLoaded(u[p].page_table[i]) /\ Invalid(u[p].page_table[i])
  BY <1>2 DEF NotLoaded
<1> QED
  BY <1>1, <1>2, <1>3, ProcsChanged

LEMMA RunProcs ==
  ASSUME NEW t, ProcsOK(t), NEW p \in DOMAIN t, t[p].size >= 1,
         NEW i, i = CurrentPage(t[p]), NEW u, u = RunUpdate(t, p, i)
  PROVE  /\ ProcsOK(u) /\ DOMAIN u = DOMAIN t /\ Changed(t, u, p, i)
         /\ u[p].size = t[p].size - 1 /\ u[p].pos = t[p].pos
         /\ u[p].page_table[i].index = t[p].page_table[i].index
         /\ u[p].page_table[i].valid = t[p].page_table[i].valid
         /\ u[p].page_table[i].pc = t[p].page_table[i].pc + 1
<1>1. PCBs(t) /\ t[p] \in PCB /\ ProcOK(t[p])
  BY DEF ProcsOK, PCBs
<1>2. /\ i \in DOMAIN t[p].page_table /\ i \in Nat
      /\ Taken(t[p]) \in Nat /\ 3 * i <= Taken(t[p]) /\ Taken(t[p]) < 3 * i + 3
      /\ t[p].page_table[i].pc = Taken(t[p]) - 3 * i
  BY <1>1, Current
<1>3. /\ Changed(t, u, p, i) /\ u[p].size = t[p].size - 1 /\ u[p].pos = t[p].pos
      /\ u[p].page_table[i].index = t[p].page_table[i].index
      /\ u[p].page_table[i].valid = t[p].page_table[i].valid
      /\ u[p].page_table[i].pc = t[p].page_table[i].pc + 1
  <2>1. t[p].page_table[i].pc # 3
    BY <1>2
  <2> QED
    BY <1>1, <1>2, <2>1, RunChanges
<1>4. PCBs(u) /\ DOMAIN u = DOMAIN t
  BY <1>3 DEF Changed, PCBs
<1>5. ASSUME NEW q \in DOMAIN t, q # p
      PROVE  ProcOK(u[q])
  BY <1>3, <1>5 DEF Changed, ProcsOK
<1>6. u[p].script = t[p].script /\ DOMAIN u[p].page_table = DOMAIN t[p].page_table
  BY <1>3 DEF Changed
<1>7. /\ t[p].size \in Nat /\ count_lines(t[p].script) \in Nat /\ t[p].size <= count_lines(t[p].script)
      /\ t[p].pos <= Len(Program[t[p].script])
  BY <1>1, CountLines DEF PCB, ProcOK
<1>8. Taken(u[p]) = Taken(t[p]) + 1
  BY <1>3, <1>6, <1>7 DEF Taken
<1>9. ASSUME NEW j \in DOMAIN t[p].page_table
      PROVE  /\ u[p].page_table[j].pc = Pc(Taken(u[p]), j)
             /\ NotLoaded(u[p].page_table[j]) \/ IsLoaded(u[p].page_table[j])
  <2>1. j \in Nat /\ t[p].page_table[j].pc = Pc(Taken(t[p]), j)
    BY <1>1, PageOf DEF ProcOK
  <2>2. CASE j = i
    <3>1. u[p].page_table[j].pc = Pc(Taken(u[p]), j)
      BY <1>2, <1>3, <1>8, <2>1, <2>2, PcFacts
    <3>2. PICK g, h : g = t[p].page_table[j] /\ h = u[p].page_table[j]
      OBVIOUS
    <3>3. h.index = g.index /\ h.valid = g.valid
      BY <1>3, <2>2, <3>2
    <3>4. NotLoaded(g) => NotLoaded(h)
      BY <3>3 DEF NotLoaded, Invalid
    <3>5. IsLoaded(g) => IsLoaded(h)
      BY <3>3 DEF IsLoaded
    <3>6. NotLoaded(g) \/ IsLoaded(g)
      BY <1>1, <3>2 DEF ProcOK
    <3> QED
      BY <3>1, <3>2, <3>4, <3>5, <3>6
  <2>3. CASE j # i
    <3>1. u[p].page_table[j] = t[p].page_table[j]
      BY <1>3, <2>3 DEF Changed
    <3>2. Pc(Taken(u[p]), j) = Pc(Taken(t[p]), j)
      BY <1>2, <1>8, <2>1, <2>3, PcFacts
    <3> QED
      BY <1>1, <2>1, <3>1, <3>2 DEF ProcOK
  <2> QED
    BY <2>2, <2>3
<1>10. ProcOK(u[p])
  BY <1>1, <1>3, <1>6, <1>7, <1>9 DEF ProcOK
<1> QED
  BY <1>3, <1>4, <1>5, <1>10 DEF ProcsOK
-----------------------------------------------------------------------------
(* Memory: each update keeps lines of scripts in the frame store.           *)

LEMMA Positions ==
  /\ FramePos \subseteq Pos /\ VarPos \subseteq Pos /\ VarPos \subseteq Nat /\ FramePos \subseteq Nat
  /\ \A a \in VarPos : a \notin FramePos
  BY DEF FramePos, VarPos, Pos

\* mem_set_value writes one line of the variable store, if it has room.
LEMMA SetEffect ==
  ASSUME NEW m, MemOK(m), NEW v \in Var, NEW x \in Value \cup {None},
         NEW n, n = mem_set_value(m, v, x)
  PROVE  \/ n = m /\ LinesNamed(m, v) = {} /\ LinesNamed(m, None) = {}
         \/ \E a \in VarPos :
              /\ n = With(m, a, [var |-> v, value |-> x])
              /\ a \in LinesNamed(m, v) \/ (LinesNamed(m, v) = {} /\ a \in LinesNamed(m, None))
              /\ a \in LinesNamed(m, v) => a = First(LinesNamed(m, v))
<1>1. LinesNamed(m, v) \subseteq VarPos /\ LinesNamed(m, None) \subseteq VarPos
  BY DEF LinesNamed
<1>2. LinesNamed(m, v) \subseteq Nat /\ LinesNamed(m, None) \subseteq Nat
  BY <1>1, Positions
<1>3. CASE LinesNamed(m, v) # {}
  <2> DEFINE a == First(LinesNamed(m, v))
  <2>1. a \in LinesNamed(m, v)
    BY <1>2, <1>3, FirstIn
  <2>2. n = [m EXCEPT ![a].value = x]
    BY <1>3 DEF mem_set_value
  <2> HIDE DEF a
  <2>3. a \in VarPos /\ a \in Pos /\ m[a].var = v
    BY <1>1, <2>1, Positions DEF LinesNamed
  <2>4. PICK c \in Cell : c = m[a]
    BY <2>3 DEF MemOK
  <2>5. [c EXCEPT !.value = x] = [var |-> v, value |-> x]
    BY <2>3, <2>4 DEF Cell
  <2>6. n = [m EXCEPT ![a] = [m[a] EXCEPT !.value = x]]
    BY <2>2, Zenon
  <2>7. n = With(m, a, [var |-> v, value |-> x])
    BY <2>4, <2>5, <2>6, Zenon DEF With
  <2> QED
    BY <2>1, <2>3, <2>7 DEF a
<1>4. CASE LinesNamed(m, v) = {} /\ LinesNamed(m, None) # {}
  <2> DEFINE a == First(LinesNamed(m, None))
  <2>1. a \in LinesNamed(m, None)
    BY <1>2, <1>4, FirstIn
  <2>2. n = With(m, a, [var |-> v, value |-> x])
    BY <1>4, Zenon DEF mem_set_value, With
  <2> HIDE DEF a
  <2> QED
    BY <1>1, <1>4, <2>1, <2>2
<1>5. CASE LinesNamed(m, v) = {} /\ LinesNamed(m, None) = {}
  BY <1>5 DEF mem_set_value
<1> QED
  BY <1>3, <1>4, <1>5

LEMMA SetMem ==
  ASSUME NEW m, MemOK(m), NEW v \in Var, NEW x \in Value \cup {None},
         NEW n, n = mem_set_value(m, v, x)
  PROVE  MemOK(n) /\ \A a \in FramePos : n[a] = m[a]
<1>1. CASE n = m
  BY <1>1
<1>2. ASSUME NEW a \in VarPos, n = With(m, a, [var |-> v, value |-> x])
      PROVE  MemOK(n) /\ \A b \in FramePos : n[b] = m[b]
  <2>1. [var |-> v, value |-> x] \in Cell
    BY DEF Cell
  <2>2. n \in [Pos -> Cell]
    BY <1>2, <2>1, Positions DEF MemOK, With
  <2>3. \A b \in FramePos : n[b] = m[b]
    <3>1. \A b \in Pos : b # a => n[b] = m[b]
      BY <1>2 DEF MemOK, With
    <3> QED
      BY <3>1, Positions
  <2> QED
    BY <2>2, <2>3 DEF MemOK
<1> QED
  BY <1>1, <1>2, SetEffect

LEMMA FreeMem ==
  ASSUME NEW m, MemOK(m), NEW A, NEW n, n = mem_free(m, A)
  PROVE  MemOK(n) /\ \A a \in Pos : n[a] = IF a \in A THEN Free ELSE m[a]
<1>1. Free \in Cell /\ Free.value = None
  BY DEF Free, Cell
<1>2. \A a \in Pos : n[a] = IF a \in A THEN Free ELSE m[a]
  BY DEF mem_free
<1>3. n \in [Pos -> Cell]
  BY <1>1 DEF mem_free, MemOK
<1> QED
  BY <1>1, <1>2, <1>3, Positions DEF MemOK

\* load_PAGE writes three lines: the next ones of the script, as far as it goes.
Copied(m, n, P, p, b) ==
  \A k \in Offset :
    n[b + k] = [var |-> p,
                value |-> IF k < Read(P) THEN <<P.script, P.pos + 1 + k>> ELSE m[b + k].value]

LEMMA LoadMem ==
  ASSUME NEW t, ProcsOK(t), NEW p \in DOMAIN t, p \in Nat, NEW i, NEW b \in FramePos,
         b + 2 \in FramePos, NEW m, MemOK(m), NEW st, st.pcb = t, st.mem = m,
         NEW n, n = load_PAGE(st, p, i, b).mem
  PROVE  /\ MemOK(n)
         /\ \A a \in Pos : a \notin b .. b + 2 => n[a] = m[a]
         /\ Copied(m, n, t[p], p, b)
         /\ \A k \in Offset : k < Read(t[p]) => <<t[p].script, t[p].pos + 1 + k>> \in LineRef
<1> DEFINE P == t[p]
           r == Read(P)
           L == Len(Program[P.script])
<1>1. P \in PCB /\ ProcOK(P)
  BY DEF ProcsOK, PCBs
<1>2. /\ P.script \in DOMAIN Program /\ P.pos \in Nat /\ P.pos <= L /\ L \in Nat
  BY <1>1, Scripts DEF PCB, ProcOK
<1>3. r \in 0 .. 3 /\ r <= L - P.pos
  BY <1>2 DEF Read
<1>4. ASSUME NEW k \in Offset, k < r
      PROVE  <<P.script, P.pos + 1 + k>> \in LineRef
  <2>1. P.pos + 1 + k \in 1 .. L
    BY <1>2, <1>3, <1>4 DEF Offset
  <2> QED
    BY <1>2, <2>1 DEF LineRef
<1> DEFINE New(a) == [var |-> p, value |-> IF a < b + r THEN <<P.script, P.pos + 1 + a - b>>
                                           ELSE m[a].value]
<1>5. n = [a \in Pos |-> IF a \notin b .. b + 2 THEN m[a] ELSE New(a)]
  BY Zenon DEF load_PAGE, Read
<1>6. b \in Nat /\ b .. b + 2 \subseteq FramePos /\ b .. b + 2 \subseteq Pos
  BY DEF FramePos, Pos
<1> HIDE DEF r, L, P
<1>7. ASSUME NEW k \in Offset
      PROVE  /\ b + k \in b .. b + 2 /\ b + k \in FramePos /\ b + k \in Pos
             /\ n[b + k] = [var |-> p, value |-> IF k < r THEN <<P.script, P.pos + 1 + k>>
                                                 ELSE m[b + k].value]
  <2>1. b + k \in b .. b + 2 /\ b + k \in Pos
    BY <1>6 DEF Offset
  <2>2. n[b + k] = New(b + k)
    BY <1>5, <2>1
  <2>3. (b + k < b + r <=> k < r) /\ P.pos + 1 + (b + k) - b = P.pos + 1 + k
    BY <1>2, <1>3, <1>6 DEF Offset
  <2> QED
    BY <1>6, <2>1, <2>2, <2>3
<1>8. ASSUME NEW a \in b .. b + 2
      PROVE  n[a] \in Cell /\ n[a].value \in LineRef \cup {None}
  <2>1. PICK k \in Offset : a = b + k
    <3>1. a - b \in Offset /\ a = b + (a - b)
      BY <1>6 DEF Offset
    <3> QED
      BY <3>1
  <2>2. m[a].value \in LineRef \cup {None}
    BY <1>6 DEF MemOK
  <2> DEFINE x == IF k < r THEN <<P.script, P.pos + 1 + k>> ELSE m[b + k].value
  <2>3. x \in LineRef \cup {None}
    BY <1>4, <2>1, <2>2
  <2>4. n[a] = [var |-> p, value |-> x]
    BY <1>7, <2>1
  <2> HIDE DEF x
  <2> QED
    BY <2>3, <2>4 DEF Cell
<1>9. \A a \in Pos : a \notin b .. b + 2 => n[a] = m[a]
  BY <1>5
<1>10. n \in [Pos -> Cell]
  <2>1. \A a \in Pos : n[a] \in Cell
    BY <1>8, <1>9 DEF MemOK
  <2>2. DOMAIN n = Pos /\ n = [a \in Pos |-> n[a]]
    BY <1>5, Zenon
  <2> QED
    BY <2>1, <2>2, Zenon
<1>11. MemOK(n)
  <2>1. \A a \in FramePos : n[a].value \in LineRef \cup {None}
    BY <1>8, <1>9, Positions DEF MemOK
  <2> QED
    BY <1>10, <2>1 DEF MemOK
<1> QED
  BY <1>4, <1>7, <1>9, <1>11 DEF r, P, Copied
-----------------------------------------------------------------------------
(* What the kernel does to the memory and the PCBs of a state st: it loads a *)
(* page, evicts one, or runs a line.                                         *)

StOK(st) == MemOK(st.mem) /\ ProcsOK(st.pcb)

\* A place for a page is a place in the frame store.
LEMMA Place ==
  ASSUME NEW m, NEW b \in FramePos, Fits(m, b)
  PROVE  /\ b \in Nat /\ b + 2 \in FramePos
         /\ m[b].var = None /\ m[b + 1].var = None /\ m[b + 2].var = None
<1>1. \A k \in {0, 1, 2} : b + k \in FramePos /\ m[b + k].var = None
  BY DEF Fits, Offset
<1>2. b \in Nat /\ b + 0 = b
  BY DEF FramePos
<1> QED
  BY <1>1, <1>2

\* load_PAGE gives the page the lines that come next in its script.
LEMMA Loading ==
  ASSUME NEW st, StOK(st), NEW p \in DOMAIN st.pcb, p \in Nat,
         NEW i \in DOMAIN st.pcb[p].page_table, NEW b \in FramePos, Fits(st.mem, b),
         NEW r, r = load_PAGE(st, p, i, b)
  PROVE  /\ StOK(r) /\ DOMAIN r.pcb = DOMAIN st.pcb /\ Changed(st.pcb, r.pcb, p, i)
         /\ Read(st.pcb[p]) \in 0 .. 3
         /\ r.pcb[p].size = st.pcb[p].size /\ r.pcb[p].pos = st.pcb[p].pos + Read(st.pcb[p])
         /\ r.pcb[p].page_table[i].index = [k \in Offset |-> b + k]
         /\ r.pcb[p].page_table[i].valid = [k \in Offset |-> k < Read(st.pcb[p])]
         /\ r.pcb[p].page_table[i].pc = st.pcb[p].page_table[i].pc
         /\ IsLoaded(r.pcb[p].page_table[i])
         /\ \A a \in Pos : a \notin b .. b + 2 => r.mem[a] = st.mem[a]
         /\ Copied(st.mem, r.mem, st.pcb[p], p, b)
<1> DEFINE t == st.pcb
           m == st.mem
           u == r.pcb
           n == r.mem
<1>1. b + 2 \in FramePos /\ ProcsOK(t) /\ MemOK(m)
  BY Place DEF StOK
<1>2. u = load_PAGE(st, p, i, b).pcb /\ n = load_PAGE(st, p, i, b).mem
  OBVIOUS
<1>3. /\ ProcsOK(u) /\ DOMAIN u = DOMAIN t /\ Changed(t, u, p, i)
      /\ Read(t[p]) \in 0 .. 3
      /\ u[p].size = t[p].size /\ u[p].pos = t[p].pos + Read(t[p])
      /\ u[p].page_table[i].index = [k \in Offset |-> b + k]
      /\ u[p].page_table[i].valid = [k \in Offset |-> k < Read(t[p])]
      /\ u[p].page_table[i].pc = t[p].page_table[i].pc
      /\ IsLoaded(u[p].page_table[i])
  <2> HIDE DEF u
  <2> QED
    BY <1>1, <1>2, LoadProcs
<1>4. /\ MemOK(n)
      /\ \A a \in Pos : a \notin b .. b + 2 => n[a] = m[a]
      /\ Copied(m, n, t[p], p, b)
  <2>1. st.pcb = t /\ st.mem = m /\ p \in DOMAIN t /\ ProcsOK(t) /\ MemOK(m)
        /\ n = load_PAGE(st, p, i, b).mem /\ b + 2 \in FramePos
    BY <1>1
  <2> HIDE DEF n, m, t
  <2>2. /\ MemOK(n)
        /\ \A a \in Pos : a \notin b .. b + 2 => n[a] = m[a]
        /\ Copied(m, n, t[p], p, b)
    BY <2>1, LoadMem
  <2> QED
    BY <2>2
<1> QED
  BY <1>3, <1>4 DEF StOK

\* PAGE_evict frees the lines at which the page is taken to be.
LEMMA Evicting ==
  ASSUME NEW st, StOK(st), NEW p \in DOMAIN st.pcb, NEW i \in DOMAIN st.pcb[p].page_table,
         NEW r, r = PAGE_evict(st, p, i)
  PROVE  /\ StOK(r) /\ DOMAIN r.pcb = DOMAIN st.pcb /\ Changed(st.pcb, r.pcb, p, i)
         /\ r.pcb[p].size = st.pcb[p].size /\ r.pcb[p].pos = st.pcb[p].pos
         /\ r.pcb[p].page_table[i].index = Everywhere(0) /\ Invalid(r.pcb[p].page_table[i])
         /\ r.pcb[p].page_table[i].pc = st.pcb[p].page_table[i].pc
         /\ NotLoaded(r.pcb[p].page_table[i])
         /\ \A a \in Pos :
              r.mem[a] = IF \E k \in Offset : a = st.pcb[p].page_table[i].index[k] THEN Free
                         ELSE st.mem[a]
<1> DEFINE A == {st.pcb[p].page_table[i].index[k] : k \in Offset}
<1>1. r.pcb = PAGE_evict(st, p, i).pcb /\ r.mem = mem_free(st.mem, A)
  BY Zenon DEF PAGE_evict
<1>2. /\ ProcsOK(r.pcb) /\ DOMAIN r.pcb = DOMAIN st.pcb /\ Changed(st.pcb, r.pcb, p, i)
      /\ r.pcb[p].size = st.pcb[p].size /\ r.pcb[p].pos = st.pcb[p].pos
      /\ r.pcb[p].page_table[i].index = Everywhere(0) /\ Invalid(r.pcb[p].page_table[i])
      /\ r.pcb[p].page_table[i].pc = st.pcb[p].page_table[i].pc
      /\ NotLoaded(r.pcb[p].page_table[i])
  <2> DEFINE t == st.pcb
             u == r.pcb
  <2>1. st.pcb = t /\ ProcsOK(t) /\ p \in DOMAIN t /\ i \in DOMAIN t[p].page_table
        /\ u = PAGE_evict(st, p, i).pcb
    BY <1>1 DEF StOK
  <2> HIDE DEF t, u
  <2>2. /\ ProcsOK(u) /\ DOMAIN u = DOMAIN t /\ Changed(t, u, p, i)
        /\ u[p].size = t[p].size /\ u[p].pos = t[p].pos
        /\ u[p].page_table[i].index = Everywhere(0) /\ Invalid(u[p].page_table[i])
        /\ u[p].page_table[i].pc = t[p].page_table[i].pc
        /\ NotLoaded(u[p].page_table[i])
    BY <2>1, EvictProcs
  <2> QED
    BY <2>2 DEF t, u
<1>3. MemOK(r.mem) /\ \A a \in Pos : r.mem[a] = IF a \in A THEN Free ELSE st.mem[a]
  <2>1. MemOK(st.mem)
    BY DEF StOK
  <2> HIDE DEF A
  <2> QED
    BY <1>1, <2>1, FreeMem
<1> QED
  BY <1>2, <1>3 DEF StOK

\* The command of a line is a line.
LEMMA CommandIsLine ==
  ASSUME NEW at \in LineRef \cup {None}
  PROVE  /\ Command(at).var \in Var \cup {None} /\ Command(at).value \in Value \cup {None}
         /\ Command(at).ret \in Int
<1>1. CASE at = None
  BY <1>1 DEF Command, BAD_COMMAND
<1>2. CASE at # None
  <2>1. PICK s \in DOMAIN Program : \E k \in 1 .. Len(Program[s]) : at = <<s, k>>
    BY <1>2 DEF LineRef
  <2>2. PICK k \in 1 .. Len(Program[s]) : at = <<s, k>>
    BY <2>1
  <2>3. Command(at) = Program[s][k]
    BY <1>2, <2>2 DEF Command
  <2>4. Program[s][k] \in Line
    BY Scripts
  <2> QED
    BY <2>3, <2>4 DEF Line
<1> QED
  BY <1>1, <1>2

\* The line that process p is at, in page i, and whether it is in memory.
Runs(p, i) == pcb[p].page_table[i].valid[pcb[p].page_table[i].pc]
LineAt(p, i) == shellmemory[pcb[p].page_table[i].index[pcb[p].page_table[i].pc]].value

\* The cpu runs a line only of a page that is in memory.
LEMMA Fetch ==
  ASSUME NEW P \in PCB, ProcOK(P), P.size >= 1, NEW i, i = CurrentPage(P),
         P.page_table[i].valid[P.page_table[i].pc]
  PROVE  /\ i \in DOMAIN P.page_table /\ IsLoaded(P.page_table[i])
         /\ P.page_table[i].pc \in Offset
         /\ P.page_table[i].index[P.page_table[i].pc] = P.page_table[i].index[0] + P.page_table[i].pc
         /\ P.page_table[i].index[P.page_table[i].pc] \in FramePos
<1>1. /\ i \in DOMAIN P.page_table /\ i \in Nat
      /\ Taken(P) \in Nat /\ 3 * i <= Taken(P) /\ Taken(P) < 3 * i + 3
      /\ P.page_table[i].pc = Taken(P) - 3 * i
  BY Current
<1>2. P.page_table[i].pc \in {0, 1, 2}
  BY <1>1
<1>3. PICK g : g = P.page_table[i]
  OBVIOUS
<1>4. ~Invalid(g)
  <2>1. g.pc \in Offset
    BY <1>2, <1>3 DEF Offset
  <2>2. g.valid[g.pc]
    BY <1>3, Zenon
  <2> QED
    BY <2>1, <2>2, Zenon DEF Invalid
<1>5. IsLoaded(g)
  BY <1>1, <1>3, <1>4 DEF ProcOK, NotLoaded
<1>6. g.index[g.pc] = g.index[0] + g.pc /\ g.index[g.pc] \in FramePos
  BY <1>2, <1>3, <1>5 DEF IsLoaded, FramePos
<1> QED
  BY <1>1, <1>2, <1>3, <1>5, <1>6 DEF Offset

LEMMA CpuIdle ==
  ASSUME NEW p, NEW i, ~Runs(p, i), NEW c, c = cpu_run(p, i)
  PROVE  c.mem = shellmemory /\ c.pcb = pcb /\ c.ret = 1 /\ c.ran = <<>> /\ c.env = env
<1>1. c = [mem |-> shellmemory, pcb |-> pcb, ret |-> 1, ran |-> <<>>, env |-> env]
  BY Zenon DEF cpu_run, Runs
<1> QED
  BY <1>1

\* What a line leaves in memory.
Obeys(c, line) ==
  /\ c.ret = line.ret
  /\ c.mem = (IF line.var = None THEN shellmemory
              ELSE mem_set_value(shellmemory, line.var, line.value))
  /\ c.env = (IF line.var = None THEN env ELSE [env EXCEPT ![line.var] = line.value])

\* A line that is run changes the variable store only.
LEMMA CpuRuns ==
  ASSUME MemOK(shellmemory), ProcsOK(pcb), env \in [Var -> Value \cup {None}],
         NEW p \in DOMAIN pcb, pcb[p].size >= 1, NEW i, i = CurrentPage(pcb[p]),
         Runs(p, i), NEW c, c = cpu_run(p, i)
  PROVE  /\ c.pcb = RunUpdate(pcb, p, i) /\ c.ran = <<LineAt(p, i)>>
         /\ LineAt(p, i) \in LineRef \cup {None}
         /\ MemOK(c.mem) /\ \A a \in FramePos : c.mem[a] = shellmemory[a]
         /\ c.env \in [Var -> Value \cup {None}]
         /\ Obeys(c, Command(LineAt(p, i)))
<1>1. pcb[p] \in PCB /\ ProcOK(pcb[p])
  BY DEF ProcsOK, PCBs
<1>2. PICK a \in FramePos : a = pcb[p].page_table[i].index[pcb[p].page_table[i].pc]
  <2>1. pcb[p].page_table[i].valid[pcb[p].page_table[i].pc]
    BY DEF Runs
  <2> QED
    BY <1>1, <2>1, Fetch
<1>3. PICK at \in LineRef \cup {None} : at = LineAt(p, i)
  BY <1>2 DEF MemOK, LineAt
<1>4. PICK x, y : x = Command(at).var /\ y = Command(at).value
  OBVIOUS
<1>5. x \in Var \cup {None} /\ y \in Value \cup {None}
  BY <1>4, CommandIsLine
<1>6. PICK n, u, z, w, e :
        /\ n = (IF x = None THEN shellmemory ELSE mem_set_value(shellmemory, x, y))
        /\ u = RunUpdate(pcb, p, i) /\ z = Command(at).ret /\ w = <<at>>
        /\ e = IF x = None THEN env ELSE [env EXCEPT ![x] = y]
  OBVIOUS
<1>61. c = [mem |-> n, pcb |-> u, ret |-> z, ran |-> w, env |-> e]
  BY <1>3, <1>4, <1>6, Zenon DEF cpu_run, Runs, LineAt, RunUpdate
<1>62. c.mem = n /\ c.pcb = u /\ c.ret = z /\ c.ran = w /\ c.env = e
  BY <1>61
<1>7. /\ c.mem = IF x = None THEN shellmemory ELSE mem_set_value(shellmemory, x, y)
      /\ c.pcb = RunUpdate(pcb, p, i) /\ c.ret = Command(at).ret /\ c.ran = <<at>>
      /\ c.env = IF x = None THEN env ELSE [env EXCEPT ![x] = y]
  BY <1>6, <1>62, Zenon
<1>8. MemOK(c.mem) /\ \A d \in FramePos : c.mem[d] = shellmemory[d]
  <2>1. CASE x = None
    BY <1>7, <2>1
  <2>2. CASE x # None
    BY <1>5, <1>7, <2>2, SetMem
  <2> QED
    BY <2>1, <2>2
<1>9. c.env \in [Var -> Value \cup {None}]
  BY <1>5, <1>7
<1> QED
  BY <1>3, <1>4, <1>7, <1>8, <1>9, Zenon DEF Obeys
-----------------------------------------------------------------------------
(* Lists.                                                                   *)

\* What stays when the head is taken.
LEMMA Dequeued ==
  ASSUME NEW S, NEW q \in Seq(S), q # <<>>, NEW r, r = pop_head(q)
  PROVE  /\ r \in Seq(S) /\ Len(r) = Len(q) - 1 /\ Len(q) \in Nat \ {0}
         /\ Head(q) = q[1] /\ q[1] \in S
         /\ \A k \in 1 .. Len(r) : k + 1 \in 1 .. Len(q) /\ r[k] = q[k + 1]
  BY DEF pop_head

\* A page that is used moves to the front of the LRU list.
LEMMA MovedToFront ==
  ASSUME NEW S, LRU_CACHE \in Seq(S), NEW k \in 1 .. Len(LRU_CACHE),
         NEW r, r = MoveToFront(k)
  PROVE  r \in Seq(S)
<1> DEFINE A == SubSeq(LRU_CACHE, 1, k - 1)
           B == SubSeq(LRU_CACHE, k + 1, Len(LRU_CACHE))
<1>0. LRU_CACHE[k] \in S /\ Len(LRU_CACHE) \in Nat /\ k \in Nat
  OBVIOUS
<1>1. \A j \in 1 .. k - 1 : LRU_CACHE[j] \in S
  OBVIOUS
<1>2. \A j \in k + 1 .. Len(LRU_CACHE) : LRU_CACHE[j] \in S
  OBVIOUS
<1>3. A \in Seq(S)
  BY <1>0, <1>1, SubSeqProperties
<1>4. B \in Seq(S)
  BY <1>0, <1>2, SubSeqProperties
<1>5. r = <<LRU_CACHE[k]>> \o (A \o B)
  BY DEF MoveToFront, add_head, remove_elem
<1> HIDE DEF A, B
<1>6. A \o B \in Seq(S)
  BY <1>3, <1>4, ConcatProperties
<1>7. <<LRU_CACHE[k]>> \in Seq(S)
  BY <1>0
<1> QED
  BY <1>5, <1>6, <1>7, ConcatProperties

\* The least recently used page leaves the LRU list.
LEMMA TailPopped ==
  ASSUME NEW S, NEW q \in Seq(S), q # <<>>, NEW r, r = pop_tail(q)
  PROVE  /\ r \in Seq(S) /\ Len(r) = Len(q) - 1 /\ Len(q) \in Nat \ {0}
         /\ q[Len(q)] \in S /\ \A k \in 1 .. Len(r) : r[k] = q[k]
<1>1. Len(q) \in Nat \ {0} /\ q[Len(q)] \in S /\ \A k \in 1 .. Len(q) - 1 : q[k] \in S
  OBVIOUS
<1>2. r = SubSeq(q, 1, Len(q) - 1)
  BY DEF pop_tail
<1>3. /\ r \in Seq(S)
      /\ Len(r) = IF 1 <= Len(q) - 1 THEN Len(q) - 1 - 1 + 1 ELSE 0
      /\ \A k \in 1 .. Len(q) - 1 - 1 + 1 : r[k] = q[1 + k - 1]
  BY <1>1, <1>2, SubSeqProperties
<1>4. Len(r) = Len(q) - 1
  <2>1. PICK n \in Nat \ {0} : n = Len(q)
    BY <1>1
  <2>2. (IF 1 <= n - 1 THEN n - 1 - 1 + 1 ELSE 0) = n - 1
    OBVIOUS
  <2>3. Len(r) = n - 1
    BY <1>3, <2>1, <2>2, Zenon
  <2> QED
    BY <2>1, <2>3
<1>5. \A k \in 1 .. Len(r) : r[k] = q[k]
  <2> SUFFICES ASSUME NEW k \in 1 .. Len(r)
               PROVE  r[k] = q[k]
    OBVIOUS
  <2>1. k \in 1 .. Len(q) - 1 - 1 + 1 /\ 1 + k - 1 = k
    BY <1>1, <1>4
  <2> QED
    BY <1>3, <2>1
<1> QED
  BY <1>1, <1>3, <1>4, <1>5

\* What is put before the rest.
LEMMA Prepended ==
  ASSUME NEW S, NEW q \in Seq(S), NEW x \in S, NEW r, r = add_head(x, q)
  PROVE  /\ r \in Seq(S) /\ Len(r) = Len(q) + 1 /\ Len(q) \in Nat /\ r[1] = x
         /\ \A k \in 1 .. Len(q) : r[k + 1] = q[k]
<1>1. <<x>> \in Seq(S) /\ Len(<<x>>) = 1 /\ r = <<x>> \o q
  BY DEF add_head
<1>2. Len(q) \in Nat
  OBVIOUS
<1>3. /\ r \in Seq(S) /\ Len(r) = 1 + Len(q)
      /\ \A k \in 1 .. 1 + Len(q) : r[k] = IF k <= 1 THEN <<x>>[k] ELSE q[k - 1]
  BY <1>1, ConcatProperties
<1> QED
  BY <1>2, <1>3

\* Pages of processes.
LEMMA PageRefFacts ==
  ASSUME NEW t, NEW e \in PageRefs(t)
  PROVE  e = <<e[1], e[2]>> /\ e[1] \in DOMAIN t /\ e[2] \in DOMAIN t[e[1]].page_table
<1>1. PICK p \in DOMAIN t : e \in {<<p, i>> : i \in DOMAIN t[p].page_table}
  BY DEF PageRefs
<1>2. PICK i \in DOMAIN t[p].page_table : e = <<p, i>>
  BY <1>1
<1> QED
  BY <1>2

LEMMA IsPageRef ==
  ASSUME NEW t, NEW p \in DOMAIN t, NEW i \in DOMAIN t[p].page_table
  PROVE  <<p, i>> \in PageRefs(t)
  BY DEF PageRefs
-----------------------------------------------------------------------------
(* A run_proc: what the cpu does, then perhaps an eviction and a load.       *)

\* The same processes with the same scripts and as many pages.
SameShape(t, u) ==
  /\ DOMAIN u = DOMAIN t
  /\ \A q \in DOMAIN t :
       u[q].script = t[q].script /\ DOMAIN u[q].page_table = DOMAIN t[q].page_table

LEMMA ShapeKept ==
  ASSUME NEW t, NEW u, NEW p \in DOMAIN t, NEW i, Changed(t, u, p, i)
  PROVE  SameShape(t, u)
  BY DEF Changed, SameShape

LEMMA ShapeTwice ==
  ASSUME NEW t, NEW u, NEW w, SameShape(t, u), SameShape(u, w)
  PROVE  SameShape(t, w)
  BY DEF SameShape

LEMMA ShapePages ==
  ASSUME NEW t, NEW u, SameShape(t, u)
  PROVE  PageRefs(u) = PageRefs(t)
<1>1. \A e \in PageRefs(t) : e \in PageRefs(u)
  <2> SUFFICES ASSUME NEW e \in PageRefs(t)
               PROVE  e \in PageRefs(u)
    OBVIOUS
  <2>1. e = <<e[1], e[2]>> /\ e[1] \in DOMAIN t /\ e[2] \in DOMAIN t[e[1]].page_table
    BY PageRefFacts
  <2>2. e[1] \in DOMAIN u /\ e[2] \in DOMAIN u[e[1]].page_table
    BY <2>1 DEF SameShape
  <2> QED
    BY <2>1, <2>2, IsPageRef
<1>2. \A e \in PageRefs(u) : e \in PageRefs(t)
  <2> SUFFICES ASSUME NEW e \in PageRefs(u)
               PROVE  e \in PageRefs(t)
    OBVIOUS
  <2>1. e = <<e[1], e[2]>> /\ e[1] \in DOMAIN u /\ e[2] \in DOMAIN u[e[1]].page_table
    BY PageRefFacts
  <2>2. e[1] \in DOMAIN t /\ e[2] \in DOMAIN t[e[1]].page_table
    BY <2>1 DEF SameShape
  <2> QED
    BY <2>1, <2>2, IsPageRef
<1> QED
  BY <1>1, <1>2

\* One run of the cpu.
LEMMA Cpu ==
  ASSUME Base, curr # 0, NEW i, i = CurrentPage(pcb[curr]), NEW c, c = cpu_run(curr, i)
  PROVE  /\ curr \in DOMAIN pcb /\ curr \in Nat /\ i \in DOMAIN pcb[curr].page_table
         /\ StOK(c) /\ SameShape(pcb, c.pcb)
         /\ \A a \in FramePos : c.mem[a] = shellmemory[a]
         /\ c.ran \in Seq(LineRef \cup {None}) /\ c.env \in [Var -> Value \cup {None}]
         /\ \A q \in DOMAIN pcb : c.pcb[q].pos = pcb[q].pos /\ (q # curr => c.pcb[q] = pcb[q])
         /\ c.ret # 1 => c.pcb[curr].size = pcb[curr].size - 1
<1>1. /\ curr \in DOMAIN pcb /\ curr \in Nat /\ pcb[curr].size >= 1
      /\ MemOK(shellmemory) /\ ProcsOK(pcb) /\ env \in [Var -> Value \cup {None}]
  BY DEF Base, QueueOK, HistoryOK
<1>2. pcb[curr] \in PCB /\ ProcOK(pcb[curr])
  BY <1>1 DEF ProcsOK, PCBs
<1>3. i \in DOMAIN pcb[curr].page_table
  BY <1>1, <1>2, Current
<1>4. CASE ~Runs(curr, i)
  <2>1. c.mem = shellmemory /\ c.pcb = pcb /\ c.ret = 1 /\ c.ran = <<>> /\ c.env = env
    BY <1>4, CpuIdle
  <2>2. StOK(c) /\ SameShape(pcb, c.pcb)
    BY <1>1, <2>1 DEF StOK, SameShape
  <2> QED
    BY <1>1, <1>3, <2>1, <2>2
<1>5. CASE Runs(curr, i)
  <2>1. /\ c.pcb = RunUpdate(pcb, curr, i) /\ c.ran = <<LineAt(curr, i)>>
        /\ LineAt(curr, i) \in LineRef \cup {None}
        /\ MemOK(c.mem) /\ \A a \in FramePos : c.mem[a] = shellmemory[a]
        /\ c.env \in [Var -> Value \cup {None}]
    BY <1>1, <1>5, CpuRuns
  <2>2. /\ ProcsOK(c.pcb) /\ DOMAIN c.pcb = DOMAIN pcb /\ Changed(pcb, c.pcb, curr, i)
        /\ c.pcb[curr].size = pcb[curr].size - 1 /\ c.pcb[curr].pos = pcb[curr].pos
    BY <1>1, <2>1, RunProcs
  <2>3. StOK(c) /\ SameShape(pcb, c.pcb)
    BY <1>1, <2>1, <2>2, ShapeKept DEF StOK
  <2>4. c.ran \in Seq(LineRef \cup {None})
    BY <2>1
  <2>5. \A q \in DOMAIN pcb : c.pcb[q].pos = pcb[q].pos /\ (q # curr => c.pcb[q] = pcb[q])
    BY <2>2 DEF Changed
  <2> QED
    BY <1>1, <1>3, <2>1, <2>2, <2>3, <2>4, <2>5
<1> QED
  BY <1>4, <1>5

\* What a page fault does after the cpu c has returned: from c to st a page may
\* have been evicted, and from st to r page i of p may have been loaded.
Evicts(c, st, e) ==
  \E d : d.mem = c.mem /\ d.pcb = c.pcb /\ st = PAGE_evict(d, e[1], e[2])
Loads(st, r, p, i) ==
  \E b \in FramePos : Fits(st.mem, b) /\ r = load_PAGE(st, p, i, b)
FaultPath(c, st, r, p, i) ==
  /\ StOK(st) /\ SameShape(pcb, st.pcb) /\ StOK(r) /\ SameShape(pcb, r.pcb)
  /\ (st.mem = c.mem /\ st.pcb = c.pcb) \/ (\E e \in PageRefs(pcb) : Evicts(c, st, e))
  /\ r = st \/ Loads(st, r, p, i)

LEMMA LoadPath ==
  ASSUME NEW st, StOK(st), SameShape(pcb, st.pcb), NEW p \in DOMAIN pcb, p \in Nat,
         NEW i \in DOMAIN pcb[p].page_table, NEW b \in FramePos, frame_alloc(st.mem, b),
         NEW r, r = load_PAGE(st, p, i, b)
  PROVE  StOK(r) /\ SameShape(pcb, r.pcb) /\ Loads(st, r, p, i)
<1>1. Fits(st.mem, b)
  BY DEF frame_alloc
<1>2. p \in DOMAIN st.pcb /\ i \in DOMAIN st.pcb[p].page_table
  BY DEF SameShape
<1>3. StOK(r) /\ Changed(st.pcb, r.pcb, p, i)
  BY <1>1, <1>2, Loading
<1>4. SameShape(st.pcb, r.pcb)
  BY <1>2, <1>3, ShapeKept
<1>5. SameShape(pcb, r.pcb)
  BY <1>4, ShapeTwice
<1> QED
  BY <1>1, <1>3, <1>5 DEF Loads

LEMMA Faulted ==
  ASSUME NEW c, StOK(c), SameShape(pcb, c.pcb), LRU_CACHE \in Seq(PageRefs(pcb)),
         NEW p \in DOMAIN pcb, p \in Nat, NEW i \in DOMAIN pcb[p].page_table,
         run_proc_fault(p, i, c)
  PROVE  /\ \E st, r : FaultPath(c, st, r, p, i) /\ shellmemory' = r.mem /\ pcb' = r.pcb
         /\ LRU_CACHE' \in Seq(PageRefs(pcb))
<1> DEFINE R == PageRefs(pcb)
<1>1. PICK d : d = [mem |-> c.mem, pcb |-> c.pcb]
  OBVIOUS
<1>2. d.mem = c.mem /\ d.pcb = c.pcb
  BY <1>1
<1>3. StOK(d) /\ SameShape(pcb, d.pcb)
  BY <1>2 DEF StOK
<1>4. <<p, i>> \in R
  BY IsPageRef
<1>5. PICK v, ev : v = LRU_CACHE[Len(LRU_CACHE)] /\ ev = PAGE_evict(d, v[1], v[2])
  OBVIOUS
<1>6. \/ \E b \in FramePos :
           frame_alloc(d.mem, b) /\ Becomes(load_PAGE(d, p, i, b), add_head(<<p, i>>, LRU_CACHE))
      \/ /\ LRU_CACHE # <<>>
         /\ \/ \E b \in FramePos :
                 /\ frame_alloc(ev.mem, b)
                 /\ Becomes(load_PAGE(ev, p, i, b), add_head(<<p, i>>, pop_tail(LRU_CACHE)))
            \/ Becomes(ev, add_head(<<p, i>>, pop_tail(LRU_CACHE)))
  BY <1>1, <1>5, Zenon DEF run_proc_fault, requeue
<1>7. ASSUME NEW b \in FramePos, frame_alloc(d.mem, b),
             Becomes(load_PAGE(d, p, i, b), add_head(<<p, i>>, LRU_CACHE))
      PROVE  /\ \E st, r : FaultPath(c, st, r, p, i) /\ shellmemory' = r.mem /\ pcb' = r.pcb
             /\ LRU_CACHE' \in Seq(R)
  <2>1. PICK r : r = load_PAGE(d, p, i, b)
    OBVIOUS
  <2>2. StOK(r) /\ SameShape(pcb, r.pcb) /\ Loads(d, r, p, i)
    BY <1>3, <1>7, <2>1, LoadPath
  <2>3. FaultPath(c, d, r, p, i)
    BY <1>2, <1>3, <2>2 DEF FaultPath
  <2>4. shellmemory' = r.mem /\ pcb' = r.pcb /\ LRU_CACHE' = add_head(<<p, i>>, LRU_CACHE)
    BY <1>7, <2>1 DEF Becomes
  <2>5. LRU_CACHE' \in Seq(R)
    BY <1>4, <2>4, Prepended
  <2> QED
    BY <2>3, <2>4, <2>5
<1>8. ASSUME LRU_CACHE # <<>>
      PROVE  /\ StOK(ev) /\ SameShape(pcb, ev.pcb) /\ v \in R /\ Evicts(c, ev, v)
             /\ add_head(<<p, i>>, pop_tail(LRU_CACHE)) \in Seq(R)
  <2>1. v \in R /\ pop_tail(LRU_CACHE) \in Seq(R)
    BY <1>5, <1>8, TailPopped
  <2>2. v[1] \in DOMAIN d.pcb /\ v[2] \in DOMAIN d.pcb[v[1]].page_table
    BY <1>3, <2>1, PageRefFacts DEF SameShape
  <2>3. StOK(ev) /\ Changed(d.pcb, ev.pcb, v[1], v[2])
    BY <1>3, <1>5, <2>2, Evicting
  <2>4. SameShape(d.pcb, ev.pcb)
    BY <2>2, <2>3, ShapeKept
  <2>5. SameShape(pcb, ev.pcb)
    BY <1>3, <2>4, ShapeTwice
  <2>6. Evicts(c, ev, v)
    BY <1>2, <1>5 DEF Evicts
  <2>7. add_head(<<p, i>>, pop_tail(LRU_CACHE)) \in Seq(R)
    BY <1>4, <2>1, Prepended
  <2> QED
    BY <2>1, <2>3, <2>5, <2>6, <2>7
<1>9. ASSUME LRU_CACHE # <<>>, NEW b \in FramePos, frame_alloc(ev.mem, b),
             Becomes(load_PAGE(ev, p, i, b), add_head(<<p, i>>, pop_tail(LRU_CACHE)))
      PROVE  /\ \E st, r : FaultPath(c, st, r, p, i) /\ shellmemory' = r.mem /\ pcb' = r.pcb
             /\ LRU_CACHE' \in Seq(R)
  <2>1. PICK r : r = load_PAGE(ev, p, i, b)
    OBVIOUS
  <2>2. StOK(r) /\ SameShape(pcb, r.pcb) /\ Loads(ev, r, p, i)
    BY <1>8, <1>9, <2>1, LoadPath
  <2>3. FaultPath(c, ev, r, p, i)
    BY <1>8, <1>9, <2>2 DEF FaultPath
  <2>4. shellmemory' = r.mem /\ pcb' = r.pcb /\ LRU_CACHE' \in Seq(R)
    BY <1>8, <1>9, <2>1 DEF Becomes
  <2> QED
    BY <2>3, <2>4
<1>10. ASSUME LRU_CACHE # <<>>, Becomes(ev, add_head(<<p, i>>, pop_tail(LRU_CACHE)))
       PROVE  /\ \E st, r : FaultPath(c, st, r, p, i) /\ shellmemory' = r.mem /\ pcb' = r.pcb
              /\ LRU_CACHE' \in Seq(R)
  <2>1. FaultPath(c, ev, ev, p, i)
    BY <1>8, <1>10 DEF FaultPath
  <2>2. shellmemory' = ev.mem /\ pcb' = ev.pcb /\ LRU_CACHE' \in Seq(R)
    BY <1>8, <1>10 DEF Becomes
  <2> QED
    BY <2>1, <2>2
<1> QED
  BY <1>6, <1>7, <1>9, <1>10
-----------------------------------------------------------------------------
(* A new process.                                                           *)

\* The PCBs t with process p for script s, no page of it loaded.
IsNew(P, s) ==
  /\ P \in PCB /\ ProcOK(P) /\ P.script = s /\ P.pos = 0 /\ P.size = count_lines(s)
  /\ DOMAIN P.page_table = 0 .. TableSize(s) - 1
  /\ \A i \in DOMAIN P.page_table :
       Invalid(P.page_table[i]) /\ P.page_table[i].index = Everywhere(Unmapped)
Adds(t, u, p, s) ==
  /\ DOMAIN u = DOMAIN t \cup {p} /\ IsNew(u[p], s) /\ \A q \in DOMAIN t : u[q] = t[q]

LEMMA NewPage ==
  PAGE_init \in PageRec /\ Invalid(PAGE_init) /\ PAGE_init.index = Everywhere(Unmapped)
  /\ PAGE_init.pc = 0
<1>1. PICK f, v : f = [k \in Offset |-> Unmapped] /\ v = [k \in Offset |-> FALSE]
  OBVIOUS
<1>2. f \in [Offset -> Nat] /\ v \in [Offset -> BOOLEAN]
  BY <1>1 DEF Unmapped
<1>3. PAGE_init = [index |-> f, valid |-> v, pc |-> 0]
  BY <1>1, Zenon DEF PAGE_init
<1>4. PAGE_init \in PageRec /\ PAGE_init.index = f /\ PAGE_init.valid = v /\ PAGE_init.pc = 0
  BY <1>2, <1>3 DEF PageRec
<1> QED
  BY <1>1, <1>4, Zenon DEF Invalid, Everywhere

LEMMA NewPCB ==
  ASSUME NEW s \in DOMAIN Program, NEW T, T = [i \in 0 .. TableSize(s) - 1 |-> PAGE_init],
         NEW P, P = [script |-> s, size |-> count_lines(s), pos |-> 0, page_table |-> T]
  PROVE  IsNew(P, s)
<1>1. /\ count_lines(s) \in Nat \ {0} /\ TableSize(s) \in Nat \ {0}
  BY CountLines
<1>2. T \in [0 .. TableSize(s) - 1 -> PageRec] /\ \A i \in 0 .. TableSize(s) - 1 : T[i] = PAGE_init
  BY NewPage
<1>3. T \in Table
  BY <1>1, <1>2 DEF Table
<1>4. /\ P \in PCB /\ P.script = s /\ P.pos = 0 /\ P.size = count_lines(s) /\ P.page_table = T
  BY <1>1, <1>3 DEF PCB
<1>5. \A i \in DOMAIN P.page_table :
        /\ Invalid(P.page_table[i]) /\ P.page_table[i].index = Everywhere(Unmapped)
        /\ P.page_table[i].pc = 0 /\ i \in Nat
  BY <1>1, <1>2, <1>4, NewPage
<1>6. Taken(P) = 0 /\ Len(Program[s]) \in Nat
  BY <1>1, <1>4, Scripts DEF Taken
<1>7. \A i \in DOMAIN P.page_table : Pc(Taken(P), i) = 0 /\ NotLoaded(P.page_table[i])
  BY <1>5, <1>6 DEF Pc, NotLoaded
<1>8. ProcOK(P)
  <2>1. P.size <= count_lines(P.script) /\ P.pos <= Len(Program[P.script])
    BY <1>1, <1>4, <1>6
  <2>2. DOMAIN P.page_table = 0 .. TableSize(P.script) - 1
    BY <1>2, <1>4
  <2>3. \A i \in DOMAIN P.page_table :
          P.page_table[i].pc = Pc(Taken(P), i) /\ NotLoaded(P.page_table[i])
    BY <1>5, <1>7
  <2> QED
    BY <2>1, <2>2, <2>3, Zenon DEF ProcOK
<1> QED
  BY <1>2, <1>4, <1>5, <1>8 DEF IsNew

LEMMA Adding ==
  ASSUME ProcsOK(pcb), MemOK(shellmemory), NEW p \in Nat, p \notin DOMAIN pcb,
         NEW s \in DOMAIN Program, NEW st, st = PCB_init(p, s)
  PROVE  StOK(st) /\ st.mem = shellmemory /\ Adds(pcb, st.pcb, p, s)
<1>1. PICK T : T = [i \in 0 .. TableSize(s) - 1 |-> PAGE_init]
  OBVIOUS
<1>2. PICK P : P = [script |-> s, size |-> count_lines(s), pos |-> 0, page_table |-> T]
  OBVIOUS
<1>3. IsNew(P, s)
  BY <1>1, <1>2, NewPCB
<1>4. PICK u : u = [q \in DOMAIN pcb \cup {p} |-> IF q = p THEN P ELSE pcb[q]]
  OBVIOUS
<1>5. st = [mem |-> shellmemory, pcb |-> u]
  BY <1>1, <1>2, <1>4, Zenon DEF PCB_init, TableSize
<1>6. st.mem = shellmemory /\ st.pcb = u
  BY <1>5
<1>7. DOMAIN u = DOMAIN pcb \cup {p} /\ u[p] = P /\ \A q \in DOMAIN pcb : u[q] = pcb[q]
  BY <1>4, Zenon
<1>8. Adds(pcb, u, p, s)
  BY <1>3, <1>7 DEF Adds
<1>9. ProcsOK(u)
  <2>1. \A q \in DOMAIN u : u[q] \in PCB /\ ProcOK(u[q])
    BY <1>3, <1>7 DEF IsNew, ProcsOK, PCBs
  <2>2. u \in [DOMAIN u -> PCB]
    BY <1>4, <2>1
  <2> QED
    BY <2>1, <2>2 DEF ProcsOK, PCBs
<1> QED
  BY <1>6, <1>8, <1>9 DEF StOK

\* The process is created and one or two of its pages are loaded, or the shell exits.
Creates(st, st1, r, p, s) ==
  /\ StOK(st) /\ st.mem = shellmemory /\ Adds(pcb, st.pcb, p, s)
  /\ StOK(st1) /\ Loads(st, st1, p, 0) /\ SameShape(st.pcb, st1.pcb)
  /\ StOK(r) /\ SameShape(st.pcb, r.pcb)
  /\ r = st1 \/ (Loads(st1, r, p, 1) /\ 1 \in DOMAIN st1.pcb[p].page_table)

LEMMA FirstLoad ==
  ASSUME NEW st, StOK(st), NEW p \in DOMAIN st.pcb, p \in Nat,
         NEW i \in DOMAIN st.pcb[p].page_table, NEW b \in FramePos, frame_alloc(st.mem, b),
         NEW r, r = load_PAGE(st, p, i, b)
  PROVE  StOK(r) /\ SameShape(st.pcb, r.pcb) /\ Loads(st, r, p, i)
<1>1. Fits(st.mem, b)
  BY DEF frame_alloc
<1>2. StOK(r) /\ Changed(st.pcb, r.pcb, p, i)
  BY <1>1, Loading
<1> QED
  BY <1>1, <1>2, ShapeKept DEF Loads

LEMMA NewProc ==
  ASSUME Base, new_proc
  PROVE  LET p == PID_counter s == Head(todo) IN
         /\ s \in Script /\ p \in Nat /\ p \in 1 .. MaxPid /\ p \notin DOMAIN pcb /\ mode = "exec"
         /\ todo' = Tail(todo) /\ todo' \in Seq(Script) /\ Len(todo') = Len(todo) - 1
         /\ Len(todo) \in Nat \ {0}
         /\ PID_counter' = PID_counter + 1 /\ UNCHANGED <<curr, step, env>> /\ curr = 0
         /\ \/ exit_99
            \/ \E st, st1, r, pages :
                 /\ Creates(st, st1, r, p, s) /\ Admit(p, r, pages) /\ s \in DOMAIN Program
                 /\ pages \in Seq(PageRefs(r.pcb))
<1> DEFINE p == PID_counter
           s == Head(todo)
<1>1. /\ mode = "exec" /\ todo # <<>> /\ PID_counter' = PID_counter + 1 /\ todo' = Tail(todo)
      /\ UNCHANGED <<curr, step, env>>
  BY DEF new_proc
<1>2. /\ s \in Script /\ Len(todo) \in Nat \ {0}
      /\ todo' \in Seq(Script) /\ Len(todo') = Len(todo) - 1
  BY <1>1 DEF Base, QueueOK
<1>3. p \in Nat /\ p \in 1 .. MaxPid /\ p \notin DOMAIN pcb
  BY <1>2 DEF Base, QueueOK
<1>4. curr = 0
  BY <1>1 DEF Base, QueueOK
<1>5. \/ exit_99
      \/ \E st, st1, r, pages :
           /\ Creates(st, st1, r, p, s) /\ Admit(p, r, pages) /\ s \in DOMAIN Program
           /\ pages \in Seq(PageRefs(r.pcb))
  <2> SUFFICES ASSUME ~exit_99
               PROVE  \E st, st1, r, pages :
                        /\ Creates(st, st1, r, p, s) /\ Admit(p, r, pages) /\ s \in DOMAIN Program
                        /\ pages \in Seq(PageRefs(r.pcb))
    OBVIOUS
  <2>1. PICK st : st = PCB_init(p, s)
    OBVIOUS
  <2>2. s \in DOMAIN Program /\
        \E b \in FramePos :
          /\ frame_alloc(shellmemory, b)
          /\ \E st1 \in {load_PAGE(st, p, 0, b)} :
               \/ /\ PAGE_table_size(count_lines(s)) = 1
                  /\ Admit(p, st1, <<<<p, 0>>>>)
               \/ /\ PAGE_table_size(count_lines(s)) # 1
                  /\ \E c \in FramePos :
                       /\ frame_alloc(st1.mem, c)
                       /\ Admit(p, load_PAGE(st1, p, 1, c), <<<<p, 1>>, <<p, 0>>>>)
    BY <2>1, Zenon DEF new_proc
  <2>3. PICK b, st1 :
          /\ b \in FramePos /\ frame_alloc(shellmemory, b) /\ st1 = load_PAGE(st, p, 0, b)
          /\ \/ /\ PAGE_table_size(count_lines(s)) = 1
                /\ Admit(p, st1, <<<<p, 0>>>>)
             \/ /\ PAGE_table_size(count_lines(s)) # 1
                /\ \E c \in FramePos :
                     /\ frame_alloc(st1.mem, c)
                     /\ Admit(p, load_PAGE(st1, p, 1, c), <<<<p, 1>>, <<p, 0>>>>)
    BY <2>2, Zenon
  <2> HIDE DEF p, s
  <2>4. StOK(st) /\ st.mem = shellmemory /\ Adds(pcb, st.pcb, p, s)
    BY <1>3, <2>1, <2>2, Adding DEF Base
  <2>5. /\ TableSize(s) \in Nat \ {0} /\ p \in DOMAIN st.pcb
        /\ DOMAIN st.pcb[p].page_table = 0 .. TableSize(s) - 1
    BY <2>2, <2>4, CountLines DEF Adds, IsNew
  <2>6. 0 \in DOMAIN st.pcb[p].page_table
    BY <2>5
  <2>7. StOK(st1) /\ SameShape(st.pcb, st1.pcb) /\ Loads(st, st1, p, 0)
    BY <1>3, <2>3, <2>4, <2>5, <2>6, FirstLoad
  <2>8. p \in DOMAIN st1.pcb /\ DOMAIN st1.pcb[p].page_table = 0 .. TableSize(s) - 1
    BY <2>5, <2>7 DEF SameShape
  <2>9. CASE PAGE_table_size(count_lines(s)) = 1 /\ Admit(p, st1, <<<<p, 0>>>>)
    <3>1. Creates(st, st1, st1, p, s)
      BY <2>4, <2>7 DEF Creates
    <3>2. <<p, 0>> \in PageRefs(st1.pcb)
      BY <2>5, <2>8, IsPageRef
    <3>3. <<<<p, 0>>>> \in Seq(PageRefs(st1.pcb))
      BY <3>2
    <3> QED
      BY <2>2, <2>9, <3>1, <3>3
  <2>10. ASSUME PAGE_table_size(count_lines(s)) # 1, NEW c \in FramePos,
                frame_alloc(st1.mem, c),
                Admit(p, load_PAGE(st1, p, 1, c), <<<<p, 1>>, <<p, 0>>>>)
         PROVE  \E r, pages : /\ Creates(st, st1, r, p, s) /\ Admit(p, r, pages)
                              /\ pages \in Seq(PageRefs(r.pcb))
    <3>1. PICK r : r = load_PAGE(st1, p, 1, c)
      OBVIOUS
    <3>2. 1 \in DOMAIN st1.pcb[p].page_table
      BY <2>5, <2>8, <2>10 DEF TableSize
    <3>3. StOK(r) /\ SameShape(st1.pcb, r.pcb) /\ Loads(st1, r, p, 1)
      BY <1>3, <2>7, <2>8, <2>10, <3>1, <3>2, FirstLoad
    <3>4. SameShape(st.pcb, r.pcb)
      BY <2>7, <3>3, ShapeTwice
    <3>5. Creates(st, st1, r, p, s)
      BY <2>4, <2>7, <3>2, <3>3, <3>4 DEF Creates
    <3>6. <<p, 0>> \in PageRefs(r.pcb) /\ <<p, 1>> \in PageRefs(r.pcb)
      <4>1. p \in DOMAIN r.pcb /\ 0 \in DOMAIN r.pcb[p].page_table /\ 1 \in DOMAIN r.pcb[p].page_table
        BY <2>5, <2>6, <2>8, <3>2, <3>3, <3>4 DEF SameShape
      <4> QED
        BY <4>1, IsPageRef
    <3>7. <<<<p, 1>>, <<p, 0>>>> \in Seq(PageRefs(r.pcb))
      BY <3>6
    <3> QED
      BY <2>10, <3>1, <3>5, <3>7
  <2> QED
    BY <2>2, <2>3, <2>9, <2>10
<1> QED
  BY <1>1, <1>2, <1>3, <1>4, <1>5
-----------------------------------------------------------------------------
(* Base is an invariant: one lemma for each action.                          *)

LEMMA BaseInit ==
  ASSUME Init
  PROVE  Base
<1>1. pcb = <<>> /\ DOMAIN pcb = {}
  BY DEF Init
<1>2. MemOK(shellmemory)
  <2>1. Free \in Cell /\ Free.value = None
    BY DEF Free, Cell
  <2> QED
    BY <2>1, Positions DEF Init, mem_init, MemOK
<1>3. ProcsOK(pcb)
  BY <1>1 DEF ProcsOK, PCBs
<1>4. QueueOK
  BY <1>1 DEF Init, QueueOK
<1>5. HistoryOK
  BY <1>1 DEF Init, HistoryOK
<1> QED
  BY <1>2, <1>3, <1>4, <1>5 DEF Base

LEMMA BaseSet ==
  ASSUME Base, NEW v \in Var, NEW x \in Value, set(v, x)
  PROVE  Base' /\ \A a \in FramePos : shellmemory'[a] = shellmemory[a]
<1>1. MemOK(shellmemory') /\ \A a \in FramePos : shellmemory'[a] = shellmemory[a]
  BY SetMem DEF set, Base
<1>2. UNCHANGED <<pcb, QUEUE, LRU_CACHE, PID_counter, todo, curr, step, mode, executed>>
  BY DEF set, kernelVars
<1>3. ProcsOK(pcb)' /\ QueueOK'
  BY <1>2 DEF Base, QueueOK, ProcsOK
<1>4. env' \in [Var -> Value \cup {None}]
  BY DEF set, Base, HistoryOK
<1>5. HistoryOK'
  BY <1>2, <1>4 DEF Base, HistoryOK
<1> QED
  BY <1>1, <1>3, <1>5 DEF Base

LEMMA BaseReset ==
  ASSUME Base, resetmem
  PROVE  Base' /\ \A a \in FramePos : shellmemory'[a] = shellmemory[a]
<1>1. MemOK(shellmemory') /\ \A a \in Pos : shellmemory'[a] = IF a \in VarPos THEN Free ELSE shellmemory[a]
  BY FreeMem DEF resetmem, Base
<1>2. UNCHANGED <<pcb, QUEUE, LRU_CACHE, PID_counter, todo, curr, step, mode, executed>>
  BY DEF resetmem, kernelVars
<1>3. ProcsOK(pcb)' /\ QueueOK'
  BY <1>2 DEF Base, QueueOK, ProcsOK
<1>4. env' \in [Var -> Value \cup {None}]
  BY DEF resetmem, Base, HistoryOK
<1>5. HistoryOK'
  BY <1>2, <1>4 DEF Base, HistoryOK
<1>6. \A a \in FramePos : shellmemory'[a] = shellmemory[a]
  BY <1>1, Positions
<1> QED
  BY <1>1, <1>3, <1>5, <1>6 DEF Base

LEMMA BaseExec ==
  ASSUME Base, NEW n \in 1 .. 3, NEW scripts \in [1 .. n -> Script], exec(scripts)
  PROVE  Base'
<1>1. scripts \in Seq(Script) /\ Len(scripts) = n
  OBVIOUS
<1>2. /\ UNCHANGED <<shellmemory, pcb, QUEUE, LRU_CACHE, PID_counter, curr, step, executed, env>>
      /\ mode' = "exec" /\ todo' = scripts /\ PID_counter + Len(scripts) <= MaxPid + 1
  BY DEF exec, history
<1>3. curr = 0
  BY DEF exec, Base, QueueOK
<1>4. QueueOK'
  BY <1>1, <1>2, <1>3 DEF Base, QueueOK
<1>5. HistoryOK' /\ MemOK(shellmemory)' /\ ProcsOK(pcb)'
  BY <1>2 DEF Base, HistoryOK
<1> QED
  BY <1>4, <1>5 DEF Base

LEMMA BaseDispatch ==
  ASSUME Base, Dispatch
  PROVE  Base'
<1>1. /\ UNCHANGED <<shellmemory, pcb, LRU_CACHE, PID_counter, todo, mode, executed, env>>
      /\ mode = "exec" /\ todo = <<>> /\ curr = 0 /\ QUEUE' = pop_head(QUEUE)
  BY DEF Dispatch, Scheduling
<1>2. QUEUE # <<>> /\ QUEUE \in Seq(DOMAIN pcb)
  BY DEF Dispatch, queue_done, Base, QueueOK
<1>3. /\ QUEUE' \in Seq(DOMAIN pcb) /\ Len(QUEUE') = Len(QUEUE) - 1 /\ Len(QUEUE) \in Nat \ {0}
      /\ Head(QUEUE) = QUEUE[1] /\ QUEUE[1] \in DOMAIN pcb
      /\ \A k \in 1 .. Len(QUEUE') : k + 1 \in 1 .. Len(QUEUE) /\ QUEUE'[k] = QUEUE[k + 1]
  BY <1>1, <1>2, Dequeued
<1>4. PICK p : p = Head(QUEUE)
  OBVIOUS
<1>5. /\ curr' = (IF pcb[p].size >= 1 THEN p ELSE 0)
      /\ step' = IF pcb[p].size > 1 THEN "first"
                 ELSE IF pcb[p].size = 1 THEN "only" ELSE "none"
  BY <1>4, Zenon DEF Dispatch
<1>6. p \in DOMAIN pcb /\ p \in Nat \ {0} /\ pcb[p].size \in Nat
  <2>1. p \in DOMAIN pcb
    BY <1>3, <1>4
  <2>2. p \in Nat \ {0}
    BY <2>1 DEF Base, QueueOK
  <2>3. pcb[p] \in PCB
    BY <2>1 DEF Base, ProcsOK, PCBs
  <2> QED
    BY <2>1, <2>2, <2>3 DEF PCB
<1>7. QueueOK'
  <2>1. \A k \in 1 .. Len(QUEUE') : QUEUE'[k] # p /\ QUEUE'[k] # 0
    <3> SUFFICES ASSUME NEW k \in 1 .. Len(QUEUE')
                 PROVE  QUEUE'[k] # p /\ QUEUE'[k] # 0
      OBVIOUS
    <3>1. QUEUE'[k] = QUEUE[k + 1] /\ k + 1 \in 1 .. Len(QUEUE) /\ k + 1 # 1 /\ 1 \in 1 .. Len(QUEUE)
      BY <1>3
    <3>2. QUEUE[k + 1] # QUEUE[1] /\ QUEUE[k + 1] # 0
      BY <1>1, <3>1 DEF Base, QueueOK
    <3> QED
      BY <1>3, <1>4, <3>1, <3>2
  <2>2. \A k, l \in 1 .. Len(QUEUE') : QUEUE'[k] = QUEUE'[l] => k = l
    <3> SUFFICES ASSUME NEW k \in 1 .. Len(QUEUE'), NEW l \in 1 .. Len(QUEUE'), QUEUE'[k] = QUEUE'[l]
                 PROVE  k = l
      OBVIOUS
    <3>0. /\ k + 1 \in 1 .. Len(QUEUE) /\ l + 1 \in 1 .. Len(QUEUE)
          /\ QUEUE[k + 1] = QUEUE[l + 1]
      BY <1>3
    <3>1. k + 1 = l + 1
      BY <3>0 DEF Base, QueueOK
    <3>2. Len(QUEUE') \in Nat
      BY <1>3
    <3> QED
      BY <3>1, <3>2
  <2>3. \A k \in 1 .. Len(QUEUE') : QUEUE'[k] # curr'
    BY <1>5, <2>1
  <2>4. curr' \in DOMAIN pcb \cup {0} /\ step' \in {"none", "first", "second", "only"}
        /\ (curr' # 0 => step' # "none" /\ pcb[curr'].size >= 1
                         /\ (step' = "first" => pcb[curr'].size >= 2))
    BY <1>5, <1>6
  <2> QED
    BY <1>1, <1>3, <2>2, <2>3, <2>4 DEF Base, QueueOK
<1>8. HistoryOK' /\ MemOK(shellmemory)' /\ ProcsOK(pcb)'
  BY <1>1 DEF Base, HistoryOK
<1> QED
  BY <1>7, <1>8 DEF Base

LEMMA BaseFinish ==
  ASSUME Base, Finish
  PROVE  Base'
<1>1. /\ shellmemory' = mem_free(shellmemory, Cleared)
      /\ pcb' = <<>> /\ QUEUE' = <<>> /\ LRU_CACHE' = <<>> /\ executed' = <<>> /\ mode' = "shell"
      /\ UNCHANGED <<PID_counter, todo, curr, step, env>> /\ curr = 0 /\ todo = <<>>
  BY DEF Finish, Scheduling
<1>2. DOMAIN pcb' = {}
  BY <1>1
<1>3. MemOK(shellmemory')
  <2>1. MemOK(shellmemory)
    BY DEF Base
  <2> QED
    BY <1>1, <2>1, FreeMem
<1>4. ProcsOK(pcb')
  BY <1>1, <1>2 DEF ProcsOK, PCBs
<1>5. QueueOK'
  BY <1>1, <1>2 DEF Base, QueueOK
<1>6. HistoryOK'
  BY <1>1, <1>2 DEF Base, HistoryOK
<1> QED
  BY <1>3, <1>4, <1>5, <1>6 DEF Base

\* A run_proc: the cpu c, then the path of a fault unless the line succeeded.
RunPath(i, c, st, r) ==
  /\ i = CurrentPage(pcb[curr]) /\ c = cpu_run(curr, i)
  /\ shellmemory' = r.mem /\ pcb' = r.pcb
  /\ executed' = [executed EXCEPT ![curr] = @ \o c.ran] /\ env' = c.env
  /\ \/ run_proc_ok(curr, i, c) /\ r = c /\ st = c
     \/ run_proc_fault(curr, i, c) /\ FaultPath(c, st, r, curr, i)

LEMMA RunProc ==
  ASSUME Base, run_proc
  PROVE  /\ curr # 0 /\ mode = "exec" /\ \E i, c, st, r : RunPath(i, c, st, r)
         /\ UNCHANGED <<PID_counter, todo, turns, mode>>
         /\ LRU_CACHE' \in Seq(PageRefs(pcb))
<1>1. PICK i, c : i = CurrentPage(pcb[curr]) /\ c = cpu_run(curr, i)
  OBVIOUS
<1>2. /\ mode = "exec" /\ curr # 0 /\ UNCHANGED <<PID_counter, todo, turns>>
      /\ run_proc_ok(curr, i, c) \/ run_proc_fault(curr, i, c)
      /\ executed' = [executed EXCEPT ![curr] = @ \o c.ran] /\ env' = c.env
  BY <1>1, Zenon DEF run_proc
<1>3. /\ curr \in DOMAIN pcb /\ curr \in Nat /\ i \in DOMAIN pcb[curr].page_table
      /\ StOK(c) /\ SameShape(pcb, c.pcb)
  BY <1>1, <1>2, Cpu
<1>4. LRU_CACHE \in Seq(PageRefs(pcb))
  BY DEF Base, HistoryOK
<1>5. mode' = mode
  BY <1>2, Zenon DEF run_proc_ok, run_proc_fault, requeue
<1>6. CASE run_proc_ok(curr, i, c)
  <2>1. RunPath(i, c, c, c)
    BY <1>1, <1>2, <1>6 DEF RunPath, run_proc_ok
  <2>2. PICK S : S = SamePage(c.pcb, curr, i)
    OBVIOUS
  <2>3. S # {} /\ S \subseteq 1 .. Len(LRU_CACHE) /\ LRU_CACHE' = MoveToFront(First(S))
    BY <1>6, <2>2, Zenon DEF run_proc_ok, SamePage
  <2>31. S \subseteq Nat
    BY <2>3
  <2>32. First(S) \in S
    BY <2>3, <2>31, FirstIn
  <2>4. First(S) \in 1 .. Len(LRU_CACHE)
    BY <2>3, <2>32, Zenon
  <2>5. LRU_CACHE' \in Seq(PageRefs(pcb))
    BY <1>4, <2>3, <2>4, MovedToFront
  <2> QED
    BY <1>2, <1>5, <2>1, <2>5
<1>7. CASE run_proc_fault(curr, i, c)
  <2>1. /\ \E st, r : FaultPath(c, st, r, curr, i) /\ shellmemory' = r.mem /\ pcb' = r.pcb
        /\ LRU_CACHE' \in Seq(PageRefs(pcb))
    BY <1>3, <1>4, <1>7, Faulted
  <2>2. PICK st, r : FaultPath(c, st, r, curr, i) /\ shellmemory' = r.mem /\ pcb' = r.pcb
    BY <2>1
  <2>3. RunPath(i, c, st, r)
    BY <1>1, <1>2, <1>7, <2>2 DEF RunPath
  <2> QED
    BY <1>2, <1>5, <2>1, <2>3
<1> QED
  BY <1>2, <1>6, <1>7

\* The ready queue, and whose turn it is, after a run_proc.
LEMMA RunQueue ==
  ASSUME Base, curr # 0, NEW i, NEW c, NEW st, NEW r, RunPath(i, c, st, r)
  PROVE  /\ \/ QUEUE' = QUEUE
            \/ QUEUE' = add_tail(curr, QUEUE) /\ curr' = 0
         /\ \/ curr' = 0 /\ step' = "none"
            \/ /\ curr' = curr /\ step = "first" /\ step' = "second" /\ QUEUE' = QUEUE
               /\ r.pcb[curr].size = pcb[curr].size - 1
         /\ SameShape(pcb, r.pcb) /\ StOK(r)
<1>0. i = CurrentPage(pcb[curr]) /\ c = cpu_run(curr, i)
  BY DEF RunPath
<1>1. /\ StOK(c) /\ SameShape(pcb, c.pcb)
      /\ c.ret # 1 => c.pcb[curr].size = pcb[curr].size - 1
  BY <1>0, Cpu
<1>2. CASE run_proc_ok(curr, i, c) /\ r = c
  BY <1>1, <1>2 DEF run_proc_ok
<1>3. CASE run_proc_fault(curr, i, c) /\ FaultPath(c, st, r, curr, i)
  <2>1. QUEUE' = add_tail(curr, QUEUE) /\ curr' = 0 /\ step' = "none"
    BY <1>3, Zenon DEF run_proc_fault, requeue
  <2> QED
    BY <1>3, <2>1 DEF FaultPath
<1> QED
  BY <1>2, <1>3 DEF RunPath

LEMMA BaseRun ==
  ASSUME Base, run_proc
  PROVE  Base'
<1>1. /\ curr # 0 /\ mode = "exec" /\ \E i, c, st, r : RunPath(i, c, st, r)
      /\ UNCHANGED <<PID_counter, todo, turns, mode>>
      /\ LRU_CACHE' \in Seq(PageRefs(pcb))
  BY RunProc
<1>2. PICK i, c, st, r : RunPath(i, c, st, r)
  BY <1>1
<1>3. /\ \/ QUEUE' = QUEUE
         \/ QUEUE' = add_tail(curr, QUEUE) /\ curr' = 0
      /\ \/ curr' = 0 /\ step' = "none"
         \/ /\ curr' = curr /\ step = "first" /\ step' = "second" /\ QUEUE' = QUEUE
            /\ r.pcb[curr].size = pcb[curr].size - 1
      /\ SameShape(pcb, r.pcb) /\ StOK(r)
  BY <1>1, <1>2, RunQueue
<1>4. /\ shellmemory' = r.mem /\ pcb' = r.pcb /\ i = CurrentPage(pcb[curr])
      /\ c = cpu_run(curr, i) /\ executed' = [executed EXCEPT ![curr] = @ \o c.ran]
      /\ env' = c.env
  BY <1>2 DEF RunPath
<1>5. /\ curr \in DOMAIN pcb /\ curr \in Nat
      /\ c.ran \in Seq(LineRef \cup {None}) /\ c.env \in [Var -> Value \cup {None}]
  BY <1>1, <1>4, Cpu
<1>6. DOMAIN pcb' = DOMAIN pcb /\ PageRefs(pcb') = PageRefs(pcb)
  BY <1>3, <1>4, ShapePages DEF SameShape
<1>7. executed' \in [DOMAIN pcb' -> Seq(LineRef \cup {None})]
  <2>1. executed[curr] \o c.ran \in Seq(LineRef \cup {None})
    BY <1>5, ConcatProperties DEF Base, HistoryOK
  <2> QED
    BY <1>4, <1>6, <2>1 DEF Base, HistoryOK
<1>8. HistoryOK'
  BY <1>1, <1>4, <1>5, <1>6, <1>7 DEF HistoryOK
<1>9. /\ QUEUE \in Seq(DOMAIN pcb) /\ Len(QUEUE) \in Nat /\ curr # 0 /\ todo = <<>>
      /\ \A k \in 1 .. Len(QUEUE) : QUEUE[k] # curr /\ QUEUE[k] \in DOMAIN pcb /\ QUEUE[k] # 0
      /\ \A k, l \in 1 .. Len(QUEUE) : QUEUE[k] = QUEUE[l] => k = l
      /\ pcb[curr].size \in Nat /\ (step = "first" => pcb[curr].size >= 2)
  <2>1. pcb[curr] \in PCB
    BY <1>5 DEF Base, ProcsOK, PCBs
  <2>2. pcb[curr].size \in Nat
    BY <2>1 DEF PCB
  <2> QED
    BY <1>1, <2>2 DEF Base, QueueOK
<1>10. /\ QUEUE' \in Seq(DOMAIN pcb)
       /\ \A k \in 1 .. Len(QUEUE') : QUEUE'[k] # curr'
       /\ \A k, l \in 1 .. Len(QUEUE') : QUEUE'[k] = QUEUE'[l] => k = l
  <2>1. CASE QUEUE' = QUEUE
    BY <1>3, <1>9, <2>1
  <2>2. CASE QUEUE' = add_tail(curr, QUEUE) /\ curr' = 0
    <3>1. /\ QUEUE' \in Seq(DOMAIN pcb) /\ Len(QUEUE') = Len(QUEUE) + 1 /\ Len(QUEUE) \in Nat
          /\ QUEUE'[Len(QUEUE) + 1] = curr
          /\ \A k \in 1 .. Len(QUEUE) : QUEUE'[k] = QUEUE[k]
          /\ \A k \in 1 .. Len(QUEUE') : k = Len(QUEUE) + 1 \/ k \in 1 .. Len(QUEUE)
      BY <1>5, <1>9, <2>2 DEF add_tail
    <3>2. \A k \in 1 .. Len(QUEUE') : QUEUE'[k] # curr'
      BY <1>9, <2>2, <3>1
    <3>3. \A k, l \in 1 .. Len(QUEUE') : QUEUE'[k] = QUEUE'[l] => k = l
      <4> SUFFICES ASSUME NEW k \in 1 .. Len(QUEUE'), NEW l \in 1 .. Len(QUEUE'), QUEUE'[k] = QUEUE'[l]
                   PROVE  k = l
        OBVIOUS
      <4>1. k = Len(QUEUE) + 1 \/ k \in 1 .. Len(QUEUE)
        BY <3>1
      <4>2. l = Len(QUEUE) + 1 \/ l \in 1 .. Len(QUEUE)
        BY <3>1
      <4> QED
        BY <1>9, <3>1, <4>1, <4>2
    <3> QED
      BY <3>1, <3>2, <3>3
  <2> QED
    BY <1>3, <2>1, <2>2
<1>11. /\ curr' \in DOMAIN pcb \cup {0} /\ step' \in {"none", "first", "second", "only"}
       /\ curr' # 0 => /\ step' # "none" /\ pcb'[curr'].size >= 1
                       /\ step' = "first" => pcb'[curr'].size >= 2
  BY <1>3, <1>4, <1>5, <1>9
<1>12. QueueOK'
  BY <1>1, <1>6, <1>9, <1>10, <1>11 DEF Base, QueueOK
<1> QED
  BY <1>3, <1>4, <1>8, <1>12 DEF Base, StOK

\* A process joins.
LEMMA BaseNew ==
  ASSUME Base, new_proc
  PROVE  Base'
<1>1. PICK p, s : p = PID_counter /\ s = Head(todo)
  OBVIOUS
<1>2. /\ s \in Script /\ p \in Nat /\ p \in 1 .. MaxPid /\ p \notin DOMAIN pcb /\ mode = "exec"
      /\ todo' \in Seq(Script) /\ Len(todo') = Len(todo) - 1 /\ Len(todo) \in Nat \ {0}
      /\ PID_counter' = PID_counter + 1 /\ UNCHANGED <<curr, step, env>> /\ curr = 0
      /\ \/ exit_99
         \/ \E st, st1, r, pages :
              /\ Creates(st, st1, r, p, s) /\ Admit(p, r, pages) /\ s \in DOMAIN Program
              /\ pages \in Seq(PageRefs(r.pcb))
  BY <1>1, NewProc
<1>3. CASE exit_99
  <2>1. mode' = "exited" /\ UNCHANGED <<shellmemory, pcb, QUEUE, LRU_CACHE, executed, turns>>
    BY <1>3 DEF exit_99
  <2>2. QueueOK'
    BY <1>1, <1>2, <2>1 DEF Base, QueueOK
  <2>3. HistoryOK' /\ MemOK(shellmemory)' /\ ProcsOK(pcb)'
    BY <1>2, <2>1 DEF Base, HistoryOK
  <2> QED
    BY <2>2, <2>3 DEF Base
<1>4. ASSUME NEW st, NEW st1, NEW r, NEW pages, Creates(st, st1, r, p, s), Admit(p, r, pages),
             pages \in Seq(PageRefs(r.pcb))
      PROVE  Base'
  <2>1. /\ shellmemory' = r.mem /\ pcb' = r.pcb /\ QUEUE' = add_tail(p, QUEUE)
        /\ LRU_CACHE' = pages \o LRU_CACHE /\ UNCHANGED mode
        /\ executed' = [q \in DOMAIN pcb \cup {p} |-> IF q = p THEN <<>> ELSE executed[q]]
    BY <1>4 DEF Admit
  <2>2. /\ StOK(r) /\ Adds(pcb, st.pcb, p, s) /\ SameShape(st.pcb, r.pcb)
    BY <1>4 DEF Creates
  <2>3. DOMAIN pcb' = DOMAIN pcb \cup {p} /\ DOMAIN st.pcb = DOMAIN pcb \cup {p}
    BY <2>1, <2>2 DEF Adds, SameShape
  <2>4. /\ QUEUE' \in Seq(DOMAIN pcb') /\ Len(QUEUE') = Len(QUEUE) + 1 /\ Len(QUEUE) \in Nat
        /\ QUEUE'[Len(QUEUE) + 1] = p
        /\ \A k \in 1 .. Len(QUEUE) : QUEUE'[k] = QUEUE[k]
        /\ \A k \in 1 .. Len(QUEUE') : k = Len(QUEUE) + 1 \/ k \in 1 .. Len(QUEUE)
    <3>1. QUEUE \in Seq(DOMAIN pcb') /\ p \in DOMAIN pcb'
      BY <2>3 DEF Base, QueueOK
    <3> QED
      BY <2>1, <3>1 DEF add_tail
  <2>5. /\ \A k \in 1 .. Len(QUEUE) : QUEUE[k] # 0 /\ QUEUE[k] \in DOMAIN pcb /\ QUEUE[k] # p
        /\ \A k, l \in 1 .. Len(QUEUE) : QUEUE[k] = QUEUE[l] => k = l
    <3>1. QUEUE \in Seq(DOMAIN pcb) /\ 0 \notin DOMAIN pcb
      BY DEF Base, QueueOK
    <3>2. \A k, l \in 1 .. Len(QUEUE) : QUEUE[k] = QUEUE[l] => k = l
      BY DEF Base, QueueOK
    <3> QED
      BY <1>2, <3>1, <3>2
  <2>6. \A k \in 1 .. Len(QUEUE') : QUEUE'[k] # 0
    BY <1>2, <2>4, <2>5
  <2>7. \A k, l \in 1 .. Len(QUEUE') : QUEUE'[k] = QUEUE'[l] => k = l
    <3> SUFFICES ASSUME NEW k \in 1 .. Len(QUEUE'), NEW l \in 1 .. Len(QUEUE'), QUEUE'[k] = QUEUE'[l]
                 PROVE  k = l
      OBVIOUS
    <3>1. k = Len(QUEUE) + 1 \/ k \in 1 .. Len(QUEUE)
      BY <2>4
    <3>2. l = Len(QUEUE) + 1 \/ l \in 1 .. Len(QUEUE)
      BY <2>4
    <3> QED
      BY <2>4, <2>5, <3>1, <3>2
  <2>8. QueueOK'
    <3>1. DOMAIN pcb' \subseteq 1 .. PID_counter' - 1
      BY <1>1, <1>2, <2>3 DEF Base, QueueOK
    <3>2. PID_counter' + Len(todo') <= MaxPid + 1 /\ PID_counter' \in Nat \ {0}
      BY <1>2 DEF Base, QueueOK
    <3> QED
      BY <1>2, <2>1, <2>4, <2>6, <2>7, <3>1, <3>2 DEF Base, QueueOK
  <2>9. executed' \in [DOMAIN pcb' -> Seq(LineRef \cup {None})]
    BY <2>1, <2>3 DEF Base, HistoryOK
  <2>10. PageRefs(r.pcb) = PageRefs(st.pcb)
    BY <2>2, ShapePages
  <2>11. PageRefs(pcb) \subseteq PageRefs(st.pcb)
    <3> SUFFICES ASSUME NEW e \in PageRefs(pcb)
                 PROVE  e \in PageRefs(st.pcb)
      OBVIOUS
    <3>1. e = <<e[1], e[2]>> /\ e[1] \in DOMAIN pcb /\ e[2] \in DOMAIN pcb[e[1]].page_table
      BY PageRefFacts
    <3>2. e[1] \in DOMAIN st.pcb /\ e[2] \in DOMAIN st.pcb[e[1]].page_table
      BY <2>2, <3>1 DEF Adds
    <3> QED
      BY <3>1, <3>2, IsPageRef
  <2>12. LRU_CACHE' \in Seq(PageRefs(pcb'))
    <3>1. LRU_CACHE \in Seq(PageRefs(r.pcb))
      BY <2>10, <2>11 DEF Base, HistoryOK
    <3>2. pages \o LRU_CACHE \in Seq(PageRefs(r.pcb))
      BY <1>4, <3>1, ConcatProperties
    <3> QED
      BY <2>1, <3>2
  <2>13. HistoryOK'
    BY <1>2, <2>9, <2>12 DEF Base, HistoryOK
  <2> QED
    BY <2>1, <2>2, <2>8, <2>13 DEF Base, StOK
<1> QED
  BY <1>2, <1>3, <1>4

\* Every step keeps Base.
LEMMA BaseStep ==
  ASSUME Base, [Next]_vars
  PROVE  Base'
<1>1. ASSUME NEW v \in Var, NEW x \in Value, set(v, x)
      PROVE  Base'
  BY <1>1, BaseSet
<1>2. CASE resetmem
  BY <1>2, BaseReset
<1>3. ASSUME NEW scripts \in [1 .. 1 -> Script] \cup [1 .. 2 -> Script] \cup [1 .. 3 -> Script],
             exec(scripts)
      PROVE  Base'
  <2>1. PICK n \in 1 .. 3 : scripts \in [1 .. n -> Script]
    OBVIOUS
  <2> QED
    BY <1>3, <2>1, BaseExec
<1>4. CASE new_proc
  BY <1>4, BaseNew
<1>5. CASE run_proc_RR
  BY <1>5, BaseDispatch, BaseRun, BaseFinish DEF run_proc_RR
<1>6. CASE UNCHANGED vars
  BY <1>6 DEF vars, Base, QueueOK, HistoryOK
<1>7. CASE Exited
  BY <1>6, <1>7 DEF Exited
<1> QED
  BY <1>1, <1>2, <1>3, <1>4, <1>5, <1>6, <1>7 DEF Next

\* The memory, the PCBs, the ready queue and the LRU list keep their form, and the
\* program counter of each page counts the lines of it that were run (pcb.c,
\* kernel.c, cpu.c), for any scripts.
THEOREM BaseInvariant == Spec => []Base
<1>1. Init => Base
  BY BaseInit
<1>2. Base /\ [Next]_vars => Base'
  BY BaseStep
<1> QED
  BY <1>1, <1>2, PTL DEF Spec

LEMMA BaseTypes ==
  ASSUME Base
  PROVE  TypeOK
<1>1. DOMAIN shellmemory = Pos
  BY DEF Base, MemOK
<1>2. /\ DOMAIN pcb \subseteq Pid /\ PID_counter \in 1 .. MaxPid + 1
      /\ QUEUE \in Seq(DOMAIN pcb) /\ todo \in Seq(Script) /\ curr \in DOMAIN pcb \cup {0}
      /\ step \in {"none", "first", "second", "only"} /\ mode \in {"shell", "exec", "exited"}
  <2>1. Len(todo) \in Nat
    BY DEF Base, QueueOK
  <2>2. PID_counter \in 1 .. MaxPid + 1
    BY <2>1 DEF Base, QueueOK
  <2> QED
    BY <2>2 DEF Base, QueueOK, Pid
<1>3. ASSUME NEW p \in DOMAIN pcb
      PROVE  /\ pcb[p].size \in 0 .. count_lines(pcb[p].script)
             /\ pcb[p].pos \in 0 .. Len(Program[pcb[p].script])
             /\ \A i \in DOMAIN pcb[p].page_table : pcb[p].page_table[i].pc \in 0 .. 3
  <2>1. pcb[p] \in PCB /\ ProcOK(pcb[p])
    BY DEF Base, ProcsOK, PCBs
  <2>2. \A i \in DOMAIN pcb[p].page_table : pcb[p].page_table[i].pc \in 0 .. 3
    BY <2>1, PageOf
  <2>3. /\ pcb[p].script \in DOMAIN Program /\ pcb[p].size \in Nat /\ pcb[p].pos \in Nat
        /\ pcb[p].size <= count_lines(pcb[p].script) /\ pcb[p].pos <= Len(Program[pcb[p].script])
    BY <2>1 DEF PCB, ProcOK
  <2>4. count_lines(pcb[p].script) \in Nat /\ Len(Program[pcb[p].script]) \in Nat
    BY <2>3, CountLines, Scripts
  <2> QED
    BY <2>2, <2>3, <2>4
<1> QED
  BY <1>1, <1>2, <1>3 DEF TypeOK, Base, HistoryOK

\* Sizes, file positions and program counters stay in their ranges, only PCBs that
\* exist are queued, and no more processes are created than there are pids
\* (pcb.c:20-97, cpu.c:18-26, kernel.c:123-184).
THEOREM TypeCorrect == Spec => []TypeOK
<1>1. Base => TypeOK
  BY BaseTypes
<1> QED
  BY <1>1, BaseInvariant, PTL
-----------------------------------------------------------------------------
(* Fair turns.                                                              *)

LEMMA TurnsDispatch ==
  ASSUME Base, TurnsOK, Dispatch
  PROVE  TurnsOK'
<1>1. PICK p : p = Head(QUEUE)
  OBVIOUS
<1>2. /\ QUEUE' = pop_head(QUEUE) /\ pcb' = pcb /\ curr' \in {0, p}
      /\ turns' = [q \in DOMAIN pcb |->
                     IF q = p THEN [r \in DOMAIN pcb |-> 0]
                     ELSE [turns[q] EXCEPT ![p] = IF @ < 2 THEN @ + 1 ELSE 2]]
  BY <1>1 DEF Dispatch
<1>3. QUEUE # <<>> /\ QUEUE \in Seq(DOMAIN pcb)
  BY DEF Dispatch, queue_done, Base, QueueOK
<1>4. /\ Len(QUEUE') = Len(QUEUE) - 1 /\ Len(QUEUE) \in Nat \ {0}
      /\ p = QUEUE[1] /\ p \in DOMAIN pcb
      /\ \A k \in 1 .. Len(QUEUE') : k + 1 \in 1 .. Len(QUEUE) /\ QUEUE'[k] = QUEUE[k + 1]
  BY <1>1, <1>2, <1>3, Dequeued
<1>5. \A q \in DOMAIN pcb : turns'[p][q] = 0
  BY <1>2, <1>4
<1>6. ASSUME NEW q \in DOMAIN pcb, q # p, NEW r \in DOMAIN pcb
      PROVE  turns'[q][r] = IF r # p THEN turns[q][r]
                            ELSE IF turns[q][p] < 2 THEN turns[q][p] + 1 ELSE 2
  <2>1. turns[q] \in [DOMAIN pcb -> Nat]
    BY DEF TurnsOK
  <2>2. turns'[q] = [turns[q] EXCEPT ![p] = IF turns[q][p] < 2 THEN turns[q][p] + 1 ELSE 2]
    BY <1>2, <1>6, Zenon
  <2> QED
    BY <1>4, <2>1, <2>2
<1>7. \A q, r \in DOMAIN pcb : turns[q][r] \in Nat
  BY DEF TurnsOK
<1>8. turns' \in [DOMAIN pcb -> [DOMAIN pcb -> Nat]]
  <2>1. \A q \in DOMAIN pcb : turns'[q] \in [DOMAIN pcb -> Nat]
    <3> SUFFICES ASSUME NEW q \in DOMAIN pcb
                 PROVE  turns'[q] \in [DOMAIN pcb -> Nat]
      OBVIOUS
    <3>1. CASE q = p
      BY <1>2, <3>1
    <3>2. CASE q # p
      <4>1. turns[q] \in [DOMAIN pcb -> Nat]
        BY DEF TurnsOK
      <4>2. turns'[q] = [turns[q] EXCEPT ![p] = IF turns[q][p] < 2 THEN turns[q][p] + 1 ELSE 2]
        BY <1>2, <3>2, Zenon
      <4> QED
        BY <1>4, <1>7, <4>1, <4>2
    <3> QED
      BY <3>1, <3>2
  <2> QED
    BY <1>2, <2>1
<1>9. ASSUME NEW k \in 1 .. Len(QUEUE'), NEW q \in DOMAIN pcb
      PROVE  turns'[QUEUE'[k]][q] <= 1
  <2>1. PICK a : a = QUEUE[k + 1]
    OBVIOUS
  <2>2. a = QUEUE'[k] /\ a \in DOMAIN pcb /\ k + 1 \in 1 .. Len(QUEUE) /\ 1 \in 1 .. Len(QUEUE)
    BY <1>3, <1>4, <2>1
  <2>3. a # p
    BY <1>4, <2>1, <2>2 DEF Base, QueueOK
  <2>4. turns[a][q] <= 1 /\ turns[a][p] = 0
    <3>1. turns[QUEUE[k + 1]][q] <= 1
      BY <2>2 DEF TurnsOK
    <3>2. 1 <= k + 1
      OBVIOUS
    <3>3. turns[QUEUE[k + 1]][QUEUE[1]] = 0
      BY <2>2, <3>2 DEF TurnsOK
    <3> QED
      BY <1>4, <2>1, <3>1, <3>3
  <2> QED
    BY <1>4, <1>6, <1>7, <2>2, <2>3, <2>4
<1>10. ASSUME NEW k \in 1 .. Len(QUEUE'), NEW l \in 1 .. Len(QUEUE'), l <= k
       PROVE  turns'[QUEUE'[k]][QUEUE'[l]] = 0
  <2>1. PICK a, b : a = QUEUE[k + 1] /\ b = QUEUE[l + 1]
    OBVIOUS
  <2>2. /\ a = QUEUE'[k] /\ a \in DOMAIN pcb /\ k + 1 \in 1 .. Len(QUEUE) /\ 1 \in 1 .. Len(QUEUE)
        /\ b = QUEUE'[l] /\ b \in DOMAIN pcb /\ l + 1 \in 1 .. Len(QUEUE) /\ l + 1 <= k + 1
    BY <1>3, <1>4, <1>10, <2>1
  <2>3. a # p /\ b # p
    <3>1. /\ Len(QUEUE) \in Nat /\ k + 1 # 1 /\ l + 1 # 1
      BY <1>4
    <3>2. \A x, y \in 1 .. Len(QUEUE) : QUEUE[x] = QUEUE[y] => x = y
      BY DEF Base, QueueOK
    <3> QED
      BY <1>4, <2>1, <2>2, <3>1, <3>2
  <2>4. turns[a][b] = 0
    BY <2>1, <2>2 DEF TurnsOK
  <2> QED
    BY <1>6, <2>2, <2>3, <2>4
<1> QED
  BY <1>2, <1>5, <1>8, <1>9, <1>10 DEF TurnsOK

LEMMA TurnsRun ==
  ASSUME Base, TurnsOK, run_proc
  PROVE  TurnsOK'
<1>1. /\ curr # 0 /\ \E i, c, st, r : RunPath(i, c, st, r)
      /\ turns' = turns
  BY RunProc
<1>2. PICK i, c, st, r : RunPath(i, c, st, r)
  BY <1>1
<1>3. /\ \/ QUEUE' = QUEUE
         \/ QUEUE' = add_tail(curr, QUEUE) /\ curr' = 0
      /\ curr' \in {0, curr} /\ SameShape(pcb, r.pcb) /\ pcb' = r.pcb
  <2>1. pcb' = r.pcb
    BY <1>2 DEF RunPath
  <2> QED
    BY <1>1, <1>2, <2>1, RunQueue
<1>4. DOMAIN pcb' = DOMAIN pcb
  BY <1>3 DEF SameShape
<1>5. CASE QUEUE' = QUEUE
  BY <1>1, <1>3, <1>4, <1>5 DEF TurnsOK
<1>6. CASE QUEUE' = add_tail(curr, QUEUE) /\ curr' = 0
  <2>1. QUEUE \in Seq(DOMAIN pcb) /\ curr \in DOMAIN pcb
    BY <1>1 DEF Base, QueueOK
  <2>2. /\ Len(QUEUE') = Len(QUEUE) + 1 /\ Len(QUEUE) \in Nat
        /\ QUEUE'[Len(QUEUE) + 1] = curr
        /\ \A k \in 1 .. Len(QUEUE) : QUEUE'[k] = QUEUE[k] /\ QUEUE[k] \in DOMAIN pcb
        /\ \A k \in 1 .. Len(QUEUE') : k = Len(QUEUE) + 1 \/ k \in 1 .. Len(QUEUE)
    BY <1>6, <2>1 DEF add_tail
  <2>3. \A q \in DOMAIN pcb : turns[curr][q] = 0
    BY <1>1 DEF TurnsOK
  <2>4. \A k \in 1 .. Len(QUEUE') : \A q \in DOMAIN pcb : turns[QUEUE'[k]][q] <= 1
    <3> SUFFICES ASSUME NEW k \in 1 .. Len(QUEUE'), NEW q \in DOMAIN pcb
                 PROVE  turns[QUEUE'[k]][q] <= 1
      OBVIOUS
    <3>1. CASE k = Len(QUEUE) + 1
      BY <2>2, <2>3, <3>1
    <3>2. CASE k \in 1 .. Len(QUEUE)
      BY <2>2, <3>2 DEF TurnsOK
    <3> QED
      BY <2>2, <3>1, <3>2
  <2>5. \A k, l \in 1 .. Len(QUEUE') : l <= k => turns[QUEUE'[k]][QUEUE'[l]] = 0
    <3> SUFFICES ASSUME NEW k \in 1 .. Len(QUEUE'), NEW l \in 1 .. Len(QUEUE'), l <= k
                 PROVE  turns[QUEUE'[k]][QUEUE'[l]] = 0
      OBVIOUS
    <3>1. QUEUE'[l] \in DOMAIN pcb
      BY <2>1, <2>2
    <3>2. CASE k = Len(QUEUE) + 1
      BY <2>2, <2>3, <3>1, <3>2
    <3>3. CASE k \in 1 .. Len(QUEUE)
      <4>1. l \in 1 .. Len(QUEUE)
        BY <2>2, <3>3
      <4>2. turns[QUEUE[k]][QUEUE[l]] = 0
        BY <3>3, <4>1 DEF TurnsOK
      <4> QED
        BY <2>2, <3>3, <4>1, <4>2
    <3> QED
      BY <2>2, <3>2, <3>3
  <2> QED
    BY <1>1, <1>4, <1>6, <2>4, <2>5 DEF TurnsOK
<1> QED
  BY <1>3, <1>5, <1>6

LEMMA TurnsNew ==
  ASSUME Base, TurnsOK, new_proc
  PROVE  TurnsOK'
<1>1. PICK p, s : p = PID_counter /\ s = Head(todo)
  OBVIOUS
<1>2. /\ p \notin DOMAIN pcb /\ curr' = curr /\ curr = 0
      /\ \/ exit_99
         \/ \E st, st1, r, pages : Creates(st, st1, r, p, s) /\ Admit(p, r, pages)
  BY <1>1, NewProc
<1>3. CASE exit_99
  BY <1>2, <1>3 DEF exit_99, TurnsOK
<1>4. ASSUME NEW st, NEW st1, NEW r, NEW pages, Creates(st, st1, r, p, s), Admit(p, r, pages)
      PROVE  TurnsOK'
  <2>1. /\ pcb' = r.pcb /\ QUEUE' = add_tail(p, QUEUE)
        /\ turns' = [q \in DOMAIN pcb \cup {p} |-> [x \in DOMAIN pcb \cup {p} |-> 0]]
    BY <1>4 DEF Admit
  <2>2. DOMAIN pcb' = DOMAIN pcb \cup {p}
    BY <1>4, <2>1 DEF Creates, Adds, SameShape
  <2>3. QUEUE \in Seq(DOMAIN pcb)
    BY DEF Base, QueueOK
  <2>4. \A k \in 1 .. Len(QUEUE') : QUEUE'[k] \in DOMAIN pcb'
    BY <2>1, <2>2, <2>3 DEF add_tail
  <2>5. \A q, x \in DOMAIN pcb' : turns'[q][x] = 0
    BY <2>1, <2>2
  <2>6. turns' \in [DOMAIN pcb' -> [DOMAIN pcb' -> Nat]]
    BY <2>1, <2>2
  <2> QED
    BY <1>2, <2>4, <2>5, <2>6 DEF TurnsOK
<1> QED
  BY <1>2, <1>3, <1>4

LEMMA TurnsStep ==
  ASSUME Base, TurnsOK, [Next]_vars
  PROVE  TurnsOK'
<1>1. CASE UNCHANGED <<pcb, QUEUE, curr, turns>>
  BY <1>1 DEF TurnsOK
<1>2. ASSUME NEW v \in Var, NEW x \in Value, set(v, x)
      PROVE  TurnsOK'
  BY <1>1, <1>2 DEF set, kernelVars
<1>3. CASE resetmem
  BY <1>1, <1>3 DEF resetmem, kernelVars
<1>4. ASSUME NEW scripts, exec(scripts)
      PROVE  TurnsOK'
  BY <1>1, <1>4 DEF exec, history
<1>5. CASE Finish
  <2>1. curr' = 0 /\ pcb' = <<>> /\ QUEUE' = <<>> /\ turns' = <<>>
    BY <1>5 DEF Finish, Scheduling
  <2> QED
    BY <2>1 DEF TurnsOK
<1>6. CASE Exited \/ UNCHANGED vars
  BY <1>1, <1>6 DEF Exited, vars
<1> QED
  BY <1>2, <1>3, <1>4, <1>5, <1>6, TurnsNew, TurnsDispatch, TurnsRun DEF Next, run_proc_RR

\* Between two turns of a process every other one has at most one turn, whatever
\* the number of processes, their scripts and their page faults (kernel.c:61, 126,
\* 155): round robin is fair.
THEOREM TurnsAreFair == Spec => []FairTurns
<1>1. Init => TurnsOK
  BY DEF Init, TurnsOK
<1>2. Base /\ TurnsOK /\ [Next]_vars => TurnsOK'
  BY TurnsStep
<1>3. TurnsOK => FairTurns
  BY DEF TurnsOK, FairTurns
<1> QED
  BY <1>1, <1>2, <1>3, BaseInvariant, PTL DEF Spec
-----------------------------------------------------------------------------
(* No line is run twice, none of another script.                            *)

Page(t, e) == t[e[1]].page_table[e[2]]

\* The lines of a frame are taken, except line 0, which the eviction of a page that
\* is not loaded clears; frames do not overlap.
FramesOK(m, t) ==
  /\ \A e \in PageRefs(t) : IsLoaded(Page(t, e)) =>
       \A k \in Offset :
         Page(t, e).index[0] + k # 0 => m[Page(t, e).index[0] + k].var # None
  /\ \A e, f \in PageRefs(t) : IsLoaded(Page(t, e)) /\ IsLoaded(Page(t, f)) /\ e # f =>
       \/ Page(t, e).index[0] + 3 <= Page(t, f).index[0]
       \/ Page(t, f).index[0] + 3 <= Page(t, e).index[0]

\* Line k of page i is in memory and still to be run; what memory holds for it.
Pends(P, i, k) == P.page_table[i].valid[k] /\ k >= P.page_table[i].pc
Val(m, P, i, k) == m[P.page_table[i].index[k]].value

\* A line of the process's own script that was read, or one that was erased.
OwnLine(P, x) == x = None \/ \E n \in 1 .. P.pos : x = <<P.script, n>>

\* No line is in memory twice for a process.
Alone(m, P) ==
  \A i, j \in DOMAIN P.page_table : \A k, l \in Offset :
    /\ Pends(P, i, k) /\ Pends(P, j, l)
    /\ Val(m, P, i, k) = Val(m, P, j, l) /\ Val(m, P, i, k) # None
    => i = j /\ k = l

\* The lines that a process ran, ex, and those still to be run are its own, and
\* all different, but for the erased ones.
LinesOK(m, P, ex) ==
  /\ \A k \in 1 .. Len(ex) : OwnLine(P, ex[k])
  /\ \A k, l \in 1 .. Len(ex) : ex[k] = ex[l] /\ ex[k] # None => k = l
  /\ \A i \in DOMAIN P.page_table, k \in Offset : Pends(P, i, k) =>
       /\ OwnLine(P, Val(m, P, i, k))
       /\ \A l \in 1 .. Len(ex) : ex[l] = Val(m, P, i, k) => ex[l] = None
  /\ Alone(m, P)

Own(m, t, ex) == FramesOK(m, t) /\ \A p \in DOMAIN t : LinesOK(m, t[p], ex[p])

\* A valid line is in the frame store.
LEMMA ValidIsLoaded ==
  ASSUME NEW P \in PCB, ProcOK(P), NEW i \in DOMAIN P.page_table, NEW k \in Offset,
         P.page_table[i].valid[k]
  PROVE  /\ IsLoaded(P.page_table[i]) /\ P.page_table[i].index[0] \in Nat
         /\ P.page_table[i].index[k] = P.page_table[i].index[0] + k
         /\ P.page_table[i].index[k] \in FramePos
<1>1. PICK g : g = P.page_table[i]
  OBVIOUS
<1>2. ~Invalid(g)
  BY <1>1, Zenon DEF Invalid
<1>3. IsLoaded(g)
  BY <1>1, <1>2 DEF ProcOK, NotLoaded
<1>4. g.index[0] \in Nat /\ g.index[k] = g.index[0] + k /\ g.index[k] \in FramePos
  BY <1>3 DEF IsLoaded, Offset, FramePos
<1> QED
  BY <1>1, <1>3, <1>4

\* Fewer lines to be run, unchanged or erased.
LEMMA LinesKept ==
  ASSUME NEW m, NEW n, NEW P, NEW Q, NEW ex, LinesOK(m, P, ex),
         Q.script = P.script, Q.pos = P.pos, DOMAIN Q.page_table = DOMAIN P.page_table,
         \A i \in DOMAIN P.page_table, k \in Offset : Pends(Q, i, k) =>
           Pends(P, i, k) /\ Val(n, Q, i, k) \in {None, Val(m, P, i, k)}
  PROVE  LinesOK(n, Q, ex)
<1>1. \A x : OwnLine(P, x) => OwnLine(Q, x)
  BY DEF OwnLine
<1>2. \A k \in 1 .. Len(ex) : OwnLine(Q, ex[k])
  BY <1>1 DEF LinesOK
<1>3. ASSUME NEW i \in DOMAIN P.page_table, NEW k \in Offset, Pends(Q, i, k)
      PROVE  /\ OwnLine(Q, Val(n, Q, i, k))
             /\ \A l \in 1 .. Len(ex) : ex[l] = Val(n, Q, i, k) => ex[l] = None
  <2>1. Pends(P, i, k) /\ Val(n, Q, i, k) \in {None, Val(m, P, i, k)}
    BY <1>3
  <2>2. CASE Val(n, Q, i, k) = None
    BY <2>2 DEF OwnLine
  <2>3. CASE Val(n, Q, i, k) = Val(m, P, i, k)
    BY <1>1, <2>1, <2>3 DEF LinesOK
  <2> QED
    BY <2>1, <2>2, <2>3
<1>4. ASSUME NEW i \in DOMAIN P.page_table, NEW j \in DOMAIN P.page_table,
             NEW k \in Offset, NEW l \in Offset, Pends(Q, i, k), Pends(Q, j, l),
             Val(n, Q, i, k) = Val(n, Q, j, l), Val(n, Q, i, k) # None
      PROVE  i = j /\ k = l
  <2>1. /\ Pends(P, i, k) /\ Val(n, Q, i, k) = Val(m, P, i, k)
        /\ Pends(P, j, l) /\ Val(n, Q, j, l) = Val(m, P, j, l)
    BY <1>4
  <2>2. Alone(m, P)
    BY DEF LinesOK
  <2>3. \A y, z \in DOMAIN P.page_table : \A a, b \in Offset :
          Pends(P, y, a) /\ Pends(P, z, b) /\ Val(m, P, y, a) = Val(m, P, z, b)
          /\ Val(m, P, y, a) # None => y = z /\ a = b
    BY <2>2 DEF Alone
  <2>4. Val(m, P, i, k) = Val(m, P, j, l) /\ Val(m, P, i, k) # None => i = j /\ k = l
    BY <2>1, <2>3
  <2> QED
    BY <1>4, <2>1, <2>4
<1>5. Alone(n, Q)
  <2> SUFFICES ASSUME NEW i \in DOMAIN Q.page_table, NEW j \in DOMAIN Q.page_table,
                      NEW k \in Offset, NEW l \in Offset, Pends(Q, i, k), Pends(Q, j, l),
                      Val(n, Q, i, k) = Val(n, Q, j, l), Val(n, Q, i, k) # None
               PROVE  i = j /\ k = l
    BY Zenon DEF Alone
  <2>1. i \in DOMAIN P.page_table /\ j \in DOMAIN P.page_table
    OBVIOUS
  <2> QED
    BY <1>4, <2>1, Zenon
<1> QED
  BY <1>2, <1>3, <1>5 DEF LinesOK

\* A line that is run is not to be run any more.
LEMMA LineTaken ==
  ASSUME NEW m, NEW n, NEW P, NEW Q, NEW S, NEW ex \in Seq(S), LinesOK(m, P, ex),
         Q.script = P.script, Q.pos = P.pos, DOMAIN Q.page_table = DOMAIN P.page_table,
         NEW g \in DOMAIN P.page_table, NEW o \in Offset, Pends(P, g, o), ~Pends(Q, g, o),
         \A i \in DOMAIN P.page_table, k \in Offset : Pends(Q, i, k) =>
           Pends(P, i, k) /\ Val(n, Q, i, k) = Val(m, P, i, k),
         NEW x \in S, x = Val(m, P, g, o), NEW ey, ey = ex \o <<x>>
  PROVE  LinesOK(n, Q, ey)
<1>0. LinesOK(n, Q, ex)
  BY LinesKept
<1>1. /\ Len(ey) = Len(ex) + 1 /\ Len(ex) \in Nat /\ ey[Len(ex) + 1] = x
      /\ \A k \in 1 .. Len(ex) : ey[k] = ex[k]
      /\ \A k \in 1 .. Len(ey) : k = Len(ex) + 1 \/ k \in 1 .. Len(ex)
  OBVIOUS
<1>2. OwnLine(P, x) /\ \A l \in 1 .. Len(ex) : ex[l] = x => ex[l] = None
  BY DEF LinesOK
<1>3. OwnLine(Q, x)
  BY <1>2 DEF OwnLine
<1>4. \A k \in 1 .. Len(ey) : OwnLine(Q, ey[k])
  <2>1. \A k \in 1 .. Len(ex) : OwnLine(Q, ex[k])
    BY <1>0 DEF LinesOK
  <2> QED
    BY <1>1, <1>3, <2>1
<1>5. \A k, l \in 1 .. Len(ey) : ey[k] = ey[l] /\ ey[k] # None => k = l
  <2>1. \A k, l \in 1 .. Len(ex) : ex[k] = ex[l] /\ ex[k] # None => k = l
    BY DEF LinesOK
  <2> SUFFICES ASSUME NEW k \in 1 .. Len(ey), NEW l \in 1 .. Len(ey),
                      ey[k] = ey[l], ey[k] # None
               PROVE  k = l
    OBVIOUS
  <2>2. k = Len(ex) + 1 \/ k \in 1 .. Len(ex)
    BY <1>1
  <2>3. l = Len(ex) + 1 \/ l \in 1 .. Len(ex)
    BY <1>1
  <2>4. CASE k \in 1 .. Len(ex) /\ l \in 1 .. Len(ex)
    BY <1>1, <2>1, <2>4
  <2>5. CASE k \in 1 .. Len(ex) /\ l = Len(ex) + 1
    BY <1>1, <1>2, <2>5
  <2>6. CASE k = Len(ex) + 1 /\ l \in 1 .. Len(ex)
    BY <1>1, <1>2, <2>6
  <2> QED
    BY <2>2, <2>3, <2>4, <2>5, <2>6
<1>6. ASSUME NEW i \in DOMAIN Q.page_table, NEW k \in Offset, Pends(Q, i, k)
      PROVE  /\ OwnLine(Q, Val(n, Q, i, k))
             /\ \A l \in 1 .. Len(ey) : ey[l] = Val(n, Q, i, k) => ey[l] = None
  <2>1. OwnLine(Q, Val(n, Q, i, k)) /\ \A l \in 1 .. Len(ex) : ex[l] = Val(n, Q, i, k) => ex[l] = None
    BY <1>0, <1>6 DEF LinesOK
  <2>2. Pends(P, i, k) /\ Val(n, Q, i, k) = Val(m, P, i, k) /\ ~(i = g /\ k = o)
    BY <1>6
  <2>3. x = Val(n, Q, i, k) => x = None
    <3>1. Alone(m, P)
      BY DEF LinesOK
    <3>2. \A y, z \in DOMAIN P.page_table : \A a, b \in Offset :
            Pends(P, y, a) /\ Pends(P, z, b) /\ Val(m, P, y, a) = Val(m, P, z, b)
            /\ Val(m, P, y, a) # None => y = z /\ a = b
      BY <3>1 DEF Alone
    <3>3. i \in DOMAIN P.page_table
      OBVIOUS
    <3>4. Val(m, P, g, o) = Val(m, P, i, k) /\ Val(m, P, g, o) # None => g = i /\ o = k
      BY <2>2, <3>2, <3>3
    <3> QED
      BY <2>2, <3>4
  <2>4. \A l \in 1 .. Len(ey) : ey[l] = Val(n, Q, i, k) => ey[l] = None
    BY <1>1, <2>1, <2>3
  <2> QED
    BY <2>1, <2>4
<1>7. Alone(n, Q)
  BY <1>0 DEF LinesOK
<1> QED
  BY <1>4, <1>5, <1>6, <1>7 DEF LinesOK

\* The lines that a page is given have not been read before.
LEMMA LinesRead ==
  ASSUME NEW m, NEW n, NEW P, NEW Q, NEW ex, LinesOK(m, P, ex), P.pos \in Nat,
         NEW R \in 0 .. 3, Q.pos = P.pos + R,
         Q.script = P.script, DOMAIN Q.page_table = DOMAIN P.page_table,
         NEW g \in DOMAIN P.page_table,
         \A i \in DOMAIN P.page_table, k \in Offset : i # g /\ Pends(Q, i, k) =>
           Pends(P, i, k) /\ Val(n, Q, i, k) = Val(m, P, i, k),
         \A k \in Offset : Pends(Q, g, k) =>
           k < R /\ Val(n, Q, g, k) = <<P.script, P.pos + 1 + k>>
  PROVE  LinesOK(n, Q, ex)
<1>1. \A x : OwnLine(P, x) => OwnLine(Q, x)
  <2> SUFFICES ASSUME NEW x, OwnLine(P, x), x # None
               PROVE  OwnLine(Q, x)
    BY DEF OwnLine
  <2>1. PICK a \in 1 .. P.pos : x = <<P.script, a>>
    BY DEF OwnLine
  <2>2. a \in 1 .. Q.pos
    BY <2>1
  <2> QED
    BY <2>1, <2>2 DEF OwnLine
<1>2. \A k \in 1 .. Len(ex) : OwnLine(Q, ex[k])
  BY <1>1 DEF LinesOK
<1>3. ASSUME NEW x, OwnLine(P, x), x # None, NEW k \in Offset
      PROVE  x # <<P.script, P.pos + 1 + k>>
  <2>1. PICK a \in 1 .. P.pos : x = <<P.script, a>>
    BY <1>3 DEF OwnLine
  <2>2. a # P.pos + 1 + k
    BY <2>1 DEF Offset
  <2> QED
    BY <2>1, <2>2
<1>4. ASSUME NEW i \in DOMAIN P.page_table, NEW k \in Offset, Pends(Q, i, k)
      PROVE  /\ OwnLine(Q, Val(n, Q, i, k))
             /\ \A l \in 1 .. Len(ex) : ex[l] = Val(n, Q, i, k) => ex[l] = None
  <2>1. CASE i # g
    <3>1. Pends(P, i, k) /\ Val(n, Q, i, k) = Val(m, P, i, k)
      BY <1>4, <2>1
    <3> QED
      BY <1>1, <3>1 DEF LinesOK
  <2>2. CASE i = g
    <3>1. k < R /\ Val(n, Q, i, k) = <<P.script, P.pos + 1 + k>>
      BY <1>4, <2>2
    <3>2. P.pos + 1 + k \in 1 .. Q.pos
      BY <3>1 DEF Offset
    <3>3. OwnLine(Q, Val(n, Q, i, k))
      BY <3>1, <3>2 DEF OwnLine
    <3>4. \A l \in 1 .. Len(ex) : OwnLine(P, ex[l])
      BY DEF LinesOK
    <3> QED
      BY <1>3, <3>1, <3>3, <3>4
  <2> QED
    BY <2>1, <2>2
<1>5. Alone(n, Q)
  <2> SUFFICES ASSUME NEW i \in DOMAIN P.page_table, NEW j \in DOMAIN P.page_table,
                      NEW k \in Offset, NEW l \in Offset, Pends(Q, i, k), Pends(Q, j, l),
                      Val(n, Q, i, k) = Val(n, Q, j, l), Val(n, Q, i, k) # None
               PROVE  i = j /\ k = l
    BY Zenon DEF Alone
  <2>1. \A y \in DOMAIN P.page_table, a \in Offset : y # g /\ Pends(Q, y, a) =>
          Pends(P, y, a) /\ Val(n, Q, y, a) = Val(m, P, y, a) /\ OwnLine(P, Val(m, P, y, a))
    BY DEF LinesOK
  <2>2. CASE i # g /\ j # g
    <3>1. \A y, z \in DOMAIN P.page_table : \A a, b \in Offset :
            Pends(P, y, a) /\ Pends(P, z, b) /\ Val(m, P, y, a) = Val(m, P, z, b)
            /\ Val(m, P, y, a) # None => y = z /\ a = b
      BY DEF LinesOK, Alone
    <3>2. /\ Pends(P, i, k) /\ Val(n, Q, i, k) = Val(m, P, i, k)
          /\ Pends(P, j, l) /\ Val(n, Q, j, l) = Val(m, P, j, l)
      BY <2>1, <2>2
    <3>3. Val(m, P, i, k) = Val(m, P, j, l) /\ Val(m, P, i, k) # None => i = j /\ k = l
      BY <3>1, <3>2
    <3> QED
      BY <3>2, <3>3
  <2>3. CASE i = g /\ j = g
    <3>1. <<P.script, P.pos + 1 + k>> = <<P.script, P.pos + 1 + l>>
      BY <2>3
    <3>2. P.pos + 1 + k = P.pos + 1 + l
      BY <3>1
    <3> QED
      BY <2>3, <3>2 DEF Offset
  <2>4. CASE i # g /\ j = g
    BY <1>3, <2>1, <2>4
  <2>5. CASE i = g /\ j # g
    BY <1>3, <2>1, <2>5
  <2> QED
    BY <2>2, <2>3, <2>4, <2>5
<1>6. \A k, l \in 1 .. Len(ex) : ex[k] = ex[l] /\ ex[k] # None => k = l
  BY DEF LinesOK
<1> QED
  BY <1>2, <1>4, <1>5, <1>6 DEF LinesOK

\* A free place does not overlap a frame.
LEMMA PlaceApart ==
  ASSUME NEW m, NEW t, FramesOK(m, t), NEW b \in FramePos, Fits(m, b),
         NEW e \in PageRefs(t), IsLoaded(Page(t, e))
  PROVE  /\ Page(t, e).index[0] \in Nat
         /\ Page(t, e).index[0] + 3 <= b \/ b + 3 <= Page(t, e).index[0]
<1>1. PICK c : c = Page(t, e).index[0]
  OBVIOUS
<1>2. c \in Nat /\ b \in Nat
  BY <1>1 DEF IsLoaded, FramePos
<1>3. \A k \in Offset : c + k # 0 => m[c + k].var # None
  BY <1>1 DEF FramesOK
<1>4. m[b].var = None /\ m[b + 1].var = None /\ m[b + 2].var = None
  BY Place
<1>5. \A k, l \in Offset : c + k = b + l => c + k = 0
  <2> SUFFICES ASSUME NEW k \in Offset, NEW l \in Offset, c + k = b + l
               PROVE  c + k = 0
    OBVIOUS
  <2>1. m[b + l].var = None
    <3>1. l = 0 \/ l = 1 \/ l = 2
      BY DEF Offset
    <3>2. b + 0 = b
      BY <1>2
    <3> QED
      BY <1>4, <3>1, <3>2
  <2> QED
    BY <1>3, <2>1
<1>6. ~(c = b \/ c = b + 1 \/ c = b + 2 \/ b = c + 1 \/ b = c + 2)
  <2>1. c + 2 # b + 0 /\ c + 1 # b + 0 /\ c + 1 # b + 1 /\ c + 0 # b + 2 /\ c + 0 # b + 1
    <3>1. 0 \in Offset /\ 1 \in Offset /\ 2 \in Offset
      BY DEF Offset
    <3>2. c + 2 # b + 0
      BY <1>2, <1>5, <3>1
    <3>3. c + 1 # b + 0
      BY <1>2, <1>5, <3>1
    <3>4. c + 1 # b + 1
      BY <1>2, <1>5, <3>1
    <3>5. c + 0 # b + 2
      BY <1>2, <1>5, <3>1
    <3>6. c + 0 # b + 1
      BY <1>2, <1>5, <3>1
    <3> QED
      BY <3>2, <3>3, <3>4, <3>5, <3>6
  <2> QED
    BY <1>2, <2>1
<1> QED
  BY <1>1, <1>2, <1>6

\* The pages that an update leaves alone.
LEMMA PageOther ==
  ASSUME NEW t, NEW u, NEW p \in DOMAIN t, NEW i \in DOMAIN t[p].page_table,
         Changed(t, u, p, i), NEW e \in PageRefs(t), e # <<p, i>>
  PROVE  Page(u, e) = Page(t, e)
<1>1. e = <<e[1], e[2]>> /\ e[1] \in DOMAIN t /\ e[2] \in DOMAIN t[e[1]].page_table
  BY PageRefFacts
<1>2. e[1] # p \/ e[2] # i
  BY <1>1
<1>3. CASE e[1] # p
  BY <1>1, <1>3 DEF Changed, Page
<1>4. CASE e[1] = p /\ e[2] # i
  BY <1>1, <1>4 DEF Changed, Page
<1> QED
  BY <1>2, <1>3, <1>4

\* Loading a page keeps the frames apart, and gives it lines never read before.
LEMMA OwnLoad ==
  ASSUME NEW st, StOK(st), NEW p \in DOMAIN st.pcb, p \in Nat,
         NEW i \in DOMAIN st.pcb[p].page_table, NEW r, Loads(st, r, p, i),
         NEW ex, Own(st.mem, st.pcb, ex)
  PROVE  Own(r.mem, r.pcb, ex)
<1>1. PICK b \in FramePos : Fits(st.mem, b) /\ r = load_PAGE(st, p, i, b)
  BY DEF Loads
<1>2. PICK t, m, u, n : t = st.pcb /\ m = st.mem /\ u = r.pcb /\ n = r.mem
  OBVIOUS
<1>3. PICK R : R = Read(t[p])
  OBVIOUS
<1>4. /\ StOK(r) /\ DOMAIN u = DOMAIN t /\ Changed(t, u, p, i) /\ R \in 0 .. 3
      /\ u[p].pos = t[p].pos + R
      /\ u[p].page_table[i].index = [k \in Offset |-> b + k]
      /\ u[p].page_table[i].valid = [k \in Offset |-> k < R]
      /\ IsLoaded(u[p].page_table[i])
      /\ \A a \in Pos : a \notin b .. b + 2 => n[a] = m[a]
      /\ Copied(m, n, t[p], p, b)
  BY <1>1, <1>2, <1>3, Loading
<1>5. /\ p \in DOMAIN t /\ i \in DOMAIN t[p].page_table /\ b \in Nat
      /\ FramesOK(m, t) /\ Fits(m, b) /\ ProcsOK(t) /\ MemOK(m)
      /\ \A q \in DOMAIN t : LinesOK(m, t[q], ex[q])
  BY <1>1, <1>2, Place DEF Own, StOK
<1>6. SameShape(t, u) /\ PageRefs(u) = PageRefs(t)
  BY <1>4, <1>5, ShapeKept, ShapePages
<1>7. PICK me : me = <<p, i>>
  OBVIOUS
<1>8. me \in PageRefs(t) /\ Page(u, me) = u[p].page_table[i]
  BY <1>5, <1>7, IsPageRef DEF Page
<1>9. \A e \in PageRefs(t) : e # me => Page(u, e) = Page(t, e)
  BY <1>4, <1>5, <1>7, PageOther
<1>10. \A e \in PageRefs(t) : IsLoaded(Page(t, e)) =>
         /\ Page(t, e).index[0] \in Nat
         /\ Page(t, e).index[0] + 3 <= b \/ b + 3 <= Page(t, e).index[0]
  BY <1>5, PlaceApart
<1>11. Page(u, me).index[0] = b
  BY <1>4, <1>5, <1>8 DEF Offset
<1>12. \A k \in Offset : n[b + k].var = p
  <2> SUFFICES ASSUME NEW k \in Offset
               PROVE  n[b + k].var = p
    OBVIOUS
  <2>1. PICK x : n[b + k] = [var |-> p, value |-> x]
    BY <1>4, Zenon DEF Copied
  <2> QED
    BY <2>1
<1>13. FramesOK(n, u)
  <2>1. ASSUME NEW e \in PageRefs(t), IsLoaded(Page(u, e)), NEW k \in Offset,
               Page(u, e).index[0] + k # 0
        PROVE  n[Page(u, e).index[0] + k].var # None
    <3>1. CASE e = me
      BY <1>11, <1>12, <3>1, NameAssumption
    <3>2. CASE e # me
      <4>1. Page(u, e) = Page(t, e)
        BY <1>9, <3>2
      <4>2. PICK c : c = Page(t, e).index[0]
        OBVIOUS
      <4>3. m[c + k].var # None
        BY <1>5, <2>1, <4>1, <4>2 DEF FramesOK
      <4>4. c \in Nat /\ (c + 3 <= b \/ b + 3 <= c) /\ c + 2 \in FramePos
        BY <1>10, <2>1, <4>1, <4>2 DEF IsLoaded
      <4>5. c + k \in Pos /\ c + k \notin b .. b + 2
        BY <1>5, <4>4 DEF Offset, FramePos, Pos
      <4>6. n[c + k] = m[c + k]
        BY <1>4, <4>5
      <4> QED
        BY <4>1, <4>2, <4>3, <4>6
    <3> QED
      BY <3>1, <3>2
  <2>2. ASSUME NEW e \in PageRefs(t), NEW f \in PageRefs(t), e # f,
               IsLoaded(Page(u, e)), IsLoaded(Page(u, f))
        PROVE  \/ Page(u, e).index[0] + 3 <= Page(u, f).index[0]
               \/ Page(u, f).index[0] + 3 <= Page(u, e).index[0]
    <3>1. CASE e = me
      <4>1. Page(u, f) = Page(t, f)
        BY <1>9, <2>2, <3>1
      <4> QED
        BY <1>10, <1>11, <2>2, <3>1, <4>1
    <3>2. CASE f = me
      <4>1. Page(u, e) = Page(t, e)
        BY <1>9, <2>2, <3>2
      <4> QED
        BY <1>10, <1>11, <2>2, <3>2, <4>1
    <3>3. CASE e # me /\ f # me
      <4>1. Page(u, e) = Page(t, e) /\ Page(u, f) = Page(t, f)
        BY <1>9, <3>3
      <4> QED
        BY <1>5, <2>2, <4>1 DEF FramesOK
    <3> QED
      BY <3>1, <3>2, <3>3
  <2> QED
    BY <1>6, <2>1, <2>2 DEF FramesOK
<1>14. ASSUME NEW q \in DOMAIN t, NEW j \in DOMAIN t[q].page_table, NEW k \in Offset,
              Pends(t[q], j, k)
       PROVE  n[t[q].page_table[j].index[k]] = m[t[q].page_table[j].index[k]]
  <2>1. t[q] \in PCB /\ ProcOK(t[q])
    BY <1>5 DEF ProcsOK, PCBs
  <2>2. PICK g : g = t[q].page_table[j]
    OBVIOUS
  <2>3. t[q].page_table[j].valid[k]
    BY <1>14 DEF Pends
  <2>4. IsLoaded(g) /\ g.index[k] = g.index[0] + k /\ g.index[k] \in FramePos
    BY <2>1, <2>2, <2>3, ValidIsLoaded
  <2>5. PICK e : e = <<q, j>>
    OBVIOUS
  <2>6. e \in PageRefs(t) /\ Page(t, e) = g
    BY <2>2, <2>5, IsPageRef DEF Page
  <2>7. g.index[0] \in Nat /\ (g.index[0] + 3 <= b \/ b + 3 <= g.index[0])
    BY <1>10, <2>4, <2>6
  <2>8. g.index[k] \notin b .. b + 2 /\ g.index[k] \in Pos
    BY <1>5, <2>4, <2>7, Positions DEF Offset
  <2> QED
    BY <1>4, <2>2, <2>8
<1>15. ASSUME NEW q \in DOMAIN t, q # p
       PROVE  LinesOK(n, u[q], ex[q])
  <2>1. u[q] = t[q]
    BY <1>4, <1>15 DEF Changed
  <2>2. \A j \in DOMAIN t[q].page_table, k \in Offset : Pends(u[q], j, k) =>
          Pends(t[q], j, k) /\ Val(n, u[q], j, k) \in {None, Val(m, t[q], j, k)}
    BY <1>14, <2>1 DEF Val
  <2>3. LinesOK(m, t[q], ex[q])
    BY <1>5
  <2> QED
    BY <2>1, <2>2, <2>3, LinesKept
<1>16. LinesOK(n, u[p], ex[p])
  <2>1. u[p].script = t[p].script /\ DOMAIN u[p].page_table = DOMAIN t[p].page_table
    BY <1>4 DEF Changed
  <2>2. \A j \in DOMAIN t[p].page_table, k \in Offset : j # i /\ Pends(u[p], j, k) =>
          Pends(t[p], j, k) /\ Val(n, u[p], j, k) = Val(m, t[p], j, k)
    <3> SUFFICES ASSUME NEW j \in DOMAIN t[p].page_table, NEW k \in Offset, j # i,
                        Pends(u[p], j, k)
                 PROVE  Pends(t[p], j, k) /\ Val(n, u[p], j, k) = Val(m, t[p], j, k)
      OBVIOUS
    <3>1. u[p].page_table[j] = t[p].page_table[j]
      BY <1>4 DEF Changed
    <3>2. Pends(t[p], j, k)
      BY <3>1 DEF Pends
    <3> QED
      BY <1>5, <1>14, <3>1, <3>2 DEF Val
  <2>3. \A k \in Offset : Pends(u[p], i, k) =>
          k < R /\ Val(n, u[p], i, k) = <<t[p].script, t[p].pos + 1 + k>>
    <3> SUFFICES ASSUME NEW k \in Offset, Pends(u[p], i, k)
                 PROVE  k < R /\ Val(n, u[p], i, k) = <<t[p].script, t[p].pos + 1 + k>>
      OBVIOUS
    <3>1. k < R
      BY <1>4, Zenon DEF Pends
    <3>2. u[p].page_table[i].index[k] = b + k
      BY <1>4
    <3>3. n[b + k] = [var |-> p, value |-> <<t[p].script, t[p].pos + 1 + k>>]
      BY <1>3, <1>4, <3>1, Zenon DEF Copied
    <3> QED
      BY <3>1, <3>2, <3>3 DEF Val
  <2>4. t[p].pos \in Nat /\ LinesOK(m, t[p], ex[p])
    <3>1. t[p] \in PCB
      BY <1>5 DEF ProcsOK, PCBs
    <3> QED
      BY <1>5, <3>1 DEF PCB
  <2>5. u[p].pos = t[p].pos + R /\ R \in 0 .. 3
    BY <1>4
  <2> QED
    BY <1>5, <2>1, <2>2, <2>3, <2>4, <2>5, LinesRead
<1> QED
  BY <1>2, <1>4, <1>13, <1>15, <1>16 DEF Own

\* Evicting a page erases lines of its frame only, or line 0.
LEMMA OwnEvict ==
  ASSUME FRAME_STORE_SIZE <= Unmapped, NEW st, StOK(st), NEW p \in DOMAIN st.pcb,
         NEW i \in DOMAIN st.pcb[p].page_table, NEW r, r = PAGE_evict(st, p, i),
         NEW ex, Own(st.mem, st.pcb, ex)
  PROVE  Own(r.mem, r.pcb, ex)
<1>1. PICK t, m, u, n : t = st.pcb /\ m = st.mem /\ u = r.pcb /\ n = r.mem
  OBVIOUS
<1>2. PICK g, A : g = t[p].page_table[i] /\ A = {a \in Pos : \E k \in Offset : a = g.index[k]}
  OBVIOUS
<1>3. /\ DOMAIN u = DOMAIN t /\ Changed(t, u, p, i) /\ u[p].pos = t[p].pos
      /\ u[p].page_table[i].index = Everywhere(0) /\ Invalid(u[p].page_table[i])
      /\ \A a \in Pos : n[a] = IF a \in A THEN Free ELSE m[a]
  BY <1>1, <1>2, Evicting
<1>4. /\ p \in DOMAIN t /\ i \in DOMAIN t[p].page_table
      /\ FramesOK(m, t) /\ ProcsOK(t) /\ MemOK(m)
      /\ \A q \in DOMAIN t : LinesOK(m, t[q], ex[q])
  BY <1>1 DEF Own, StOK
<1>5. SameShape(t, u) /\ PageRefs(u) = PageRefs(t)
  BY <1>3, <1>4, ShapeKept, ShapePages
<1>6. PICK me : me = <<p, i>>
  OBVIOUS
<1>7. /\ me \in PageRefs(t) /\ Page(u, me) = u[p].page_table[i] /\ Page(t, me) = g
  BY <1>2, <1>4, <1>6, IsPageRef DEF Page
<1>8. \A e \in PageRefs(t) : e # me => Page(u, e) = Page(t, e)
  BY <1>3, <1>4, <1>6, PageOther
<1>9. ~IsLoaded(Page(u, me))
  <2>1. Page(u, me).index[0] = 0 /\ Page(u, me).index[1] = 0
    BY <1>3, <1>7 DEF Everywhere, Offset
  <2> QED
    BY <2>1 DEF IsLoaded
<1>10. g \in PageRec /\ (NotLoaded(g) \/ IsLoaded(g))
  <2>1. t[p] \in PCB /\ ProcOK(t[p])
    BY <1>4 DEF ProcsOK, PCBs
  <2> QED
    BY <1>2, <1>4, <2>1, PageOf DEF ProcOK
<1>11. \A a \in FramePos : n[a] \in {Free, m[a]}
  BY <1>3, Positions
<1>12. ASSUME NEW e \in PageRefs(t), e # me, IsLoaded(Page(t, e)), NEW k \in Offset,
              Page(t, e).index[0] + k # 0
       PROVE  n[Page(t, e).index[0] + k] = m[Page(t, e).index[0] + k]
  <2>1. PICK c : c = Page(t, e).index[0]
    OBVIOUS
  <2>2. c \in Nat /\ c + 2 \in FramePos
    BY <1>12, <2>1 DEF IsLoaded, FramePos
  <2>3. c + k \in FramePos /\ c + k \in Pos /\ c + k < FRAME_STORE_SIZE
    BY <2>2 DEF FramePos, Pos, Offset
  <2>4. c + k \notin A
    <3>1. CASE NotLoaded(g)
      <4>1. PICK z \in {0, Unmapped} : g.index = Everywhere(z)
        BY <3>1 DEF NotLoaded
      <4>2. \A l \in Offset : g.index[l] = z
        BY <4>1 DEF Everywhere
      <4>3. c + k # z
        BY <1>12, <2>1, <2>2, <2>3, <4>1 DEF Unmapped, Offset
      <4> QED
        BY <1>2, <4>2, <4>3
    <3>2. CASE IsLoaded(g)
      <4>1. g.index[0] \in Nat /\ (c + 3 <= g.index[0] \/ g.index[0] + 3 <= c)
        <5>1. g.index[0] \in Nat
          BY <3>2 DEF IsLoaded, FramePos
        <5> QED
          BY <1>4, <1>7, <1>12, <2>1, <3>2, <5>1 DEF FramesOK
      <4>2. \A l \in Offset : g.index[l] = g.index[0] + l
        BY <3>2, <4>1 DEF IsLoaded, Offset
      <4>3. \A l \in Offset : c + k # g.index[0] + l
        BY <2>2, <4>1 DEF Offset
      <4> QED
        BY <1>2, <4>2, <4>3
    <3> QED
      BY <1>10, <3>1, <3>2
  <2> QED
    BY <1>3, <2>1, <2>3, <2>4
<1>13. FramesOK(n, u)
  <2>1. ASSUME NEW e \in PageRefs(t), IsLoaded(Page(u, e)), NEW k \in Offset,
               Page(u, e).index[0] + k # 0
        PROVE  n[Page(u, e).index[0] + k].var # None
    <3>1. e # me /\ Page(u, e) = Page(t, e)
      BY <1>8, <1>9, <2>1
    <3>2. m[Page(t, e).index[0] + k].var # None
      BY <1>4, <2>1, <3>1 DEF FramesOK
    <3>3. n[Page(t, e).index[0] + k] = m[Page(t, e).index[0] + k]
      BY <1>12, <2>1, <3>1
    <3> QED
      BY <3>1, <3>2, <3>3
  <2>2. ASSUME NEW e \in PageRefs(t), NEW f \in PageRefs(t), e # f,
               IsLoaded(Page(u, e)), IsLoaded(Page(u, f))
        PROVE  \/ Page(u, e).index[0] + 3 <= Page(u, f).index[0]
               \/ Page(u, f).index[0] + 3 <= Page(u, e).index[0]
    <3>1. Page(u, e) = Page(t, e) /\ Page(u, f) = Page(t, f)
      BY <1>8, <1>9, <2>2
    <3> QED
      BY <1>4, <2>2, <3>1 DEF FramesOK
  <2> QED
    BY <1>5, <2>1, <2>2 DEF FramesOK
<1>14. ASSUME NEW q \in DOMAIN t
       PROVE  LinesOK(n, u[q], ex[q])
  <2>1. /\ u[q].script = t[q].script /\ u[q].pos = t[q].pos
        /\ DOMAIN u[q].page_table = DOMAIN t[q].page_table
    BY <1>3, <1>5 DEF SameShape, Changed
  <2>2. ASSUME NEW j \in DOMAIN t[q].page_table, NEW k \in Offset, Pends(u[q], j, k)
        PROVE  Pends(t[q], j, k) /\ Val(n, u[q], j, k) \in {None, Val(m, t[q], j, k)}
    <3>1. <<q, j>> # <<p, i>>
      <4> SUFFICES ASSUME q = p, j = i
                   PROVE  FALSE
        OBVIOUS
      <4> QED
        BY <1>3, <2>2, Zenon DEF Invalid, Pends
    <3>2. u[q].page_table[j] = t[q].page_table[j]
      BY <1>3, <3>1 DEF Changed
    <3>3. Pends(t[q], j, k)
      BY <2>2, <3>2 DEF Pends
    <3>4. t[q].page_table[j].index[k] \in FramePos
      <4>1. t[q] \in PCB /\ ProcOK(t[q])
        BY <1>4 DEF ProcsOK, PCBs
      <4>2. t[q].page_table[j].valid[k]
        BY <3>3 DEF Pends
      <4> QED
        BY <4>1, <4>2, ValidIsLoaded
    <3>5. Free.value = None
      BY DEF Free
    <3> QED
      BY <1>11, <3>2, <3>3, <3>4, <3>5 DEF Val
  <2>3. LinesOK(m, t[q], ex[q])
    BY <1>4
  <2> QED
    BY <2>1, <2>2, <2>3, LinesKept
<1> QED
  BY <1>1, <1>3, <1>13, <1>14 DEF Own

\* Memory that changes outside of the frame store only.
LEMMA OwnSame ==
  ASSUME NEW t, ProcsOK(t), NEW m, NEW n, \A a \in FramePos : n[a] = m[a],
         NEW ex, Own(m, t, ex)
  PROVE  Own(n, t, ex)
<1>1. FramesOK(n, t)
  <2>1. ASSUME NEW e \in PageRefs(t), IsLoaded(Page(t, e)), NEW k \in Offset,
               Page(t, e).index[0] + k # 0
        PROVE  n[Page(t, e).index[0] + k].var # None
    <3>1. PICK c : c = Page(t, e).index[0]
      OBVIOUS
    <3>2. c + k \in FramePos
      BY <2>1, <3>1 DEF IsLoaded, FramePos, Offset
    <3>3. m[c + k].var # None
      BY <2>1, <3>1 DEF Own, FramesOK
    <3> QED
      BY <3>1, <3>2, <3>3
  <2> QED
    BY <2>1 DEF Own, FramesOK
<1>2. ASSUME NEW q \in DOMAIN t
      PROVE  LinesOK(n, t[q], ex[q])
  <2>1. t[q] \in PCB /\ ProcOK(t[q]) /\ LinesOK(m, t[q], ex[q])
    BY DEF ProcsOK, PCBs, Own
  <2>2. ASSUME NEW j \in DOMAIN t[q].page_table, NEW k \in Offset, Pends(t[q], j, k)
        PROVE  Val(n, t[q], j, k) = Val(m, t[q], j, k)
    <3>1. t[q].page_table[j].valid[k]
      BY <2>2 DEF Pends
    <3>2. t[q].page_table[j].index[k] \in FramePos
      BY <2>1, <3>1, ValidIsLoaded
    <3> QED
      BY <3>2 DEF Val
  <2> QED
    BY <2>1, <2>2, LinesKept
<1> QED
  BY <1>1, <1>2 DEF Own

\* A line that the cpu runs has not been run before.
LEMMA OwnCpu ==
  ASSUME Base, curr # 0, NEW i, i = CurrentPage(pcb[curr]), NEW c, c = cpu_run(curr, i),
         Own(shellmemory, pcb, executed),
         NEW ex, ex = [executed EXCEPT ![curr] = @ \o c.ran]
  PROVE  Own(c.mem, c.pcb, ex)
<1> DEFINE S == LineRef \cup {None}
<1>1. /\ curr \in DOMAIN pcb /\ i \in DOMAIN pcb[curr].page_table
      /\ StOK(c) /\ SameShape(pcb, c.pcb)
      /\ \A a \in FramePos : c.mem[a] = shellmemory[a]
  BY Cpu
<1>2. executed \in [DOMAIN pcb -> Seq(S)] /\ executed[curr] \in Seq(S)
  BY <1>1 DEF Base, HistoryOK
<1>3. ProcsOK(pcb) /\ MemOK(shellmemory) /\ env \in [Var -> Value \cup {None}]
      /\ pcb[curr] \in PCB /\ ProcOK(pcb[curr]) /\ pcb[curr].size >= 1
  BY <1>1 DEF Base, ProcsOK, PCBs, HistoryOK, QueueOK
<1>4. CASE ~Runs(curr, i)
  <2>1. c.mem = shellmemory /\ c.pcb = pcb /\ c.ran = <<>>
    BY <1>4, CpuIdle
  <2>2. executed[curr] \o <<>> = executed[curr]
    BY <1>2, ConcatEmptySeq
  <2>3. ex = executed
    BY <1>2, <2>1, <2>2
  <2> QED
    BY <2>1, <2>3
<1>5. CASE Runs(curr, i)
  <2>1. PICK at, u : at = LineAt(curr, i) /\ u = c.pcb
    OBVIOUS
  <2>2. u = RunUpdate(pcb, curr, i) /\ c.ran = <<at>> /\ at \in S
    BY <1>1, <1>3, <1>5, <2>1, CpuRuns
  <2>3. /\ ProcsOK(u) /\ DOMAIN u = DOMAIN pcb /\ Changed(pcb, u, curr, i)
        /\ u[curr].pos = pcb[curr].pos
        /\ u[curr].page_table[i].index = pcb[curr].page_table[i].index
        /\ u[curr].page_table[i].valid = pcb[curr].page_table[i].valid
        /\ u[curr].page_table[i].pc = pcb[curr].page_table[i].pc + 1
    BY <1>1, <1>3, <2>2, RunProcs
  <2>4. PICK o : o = pcb[curr].page_table[i].pc
    OBVIOUS
  <2>5. o \in Offset /\ pcb[curr].page_table[i].valid[o]
    <3>1. pcb[curr].page_table[i].valid[pcb[curr].page_table[i].pc]
      BY <1>5 DEF Runs
    <3> QED
      BY <1>3, <2>4, <3>1, Fetch
  <2>6. Own(c.mem, pcb, executed)
    BY <1>1, <1>3, OwnSame
  <2>7. FramesOK(c.mem, u)
    <3>1. PageRefs(u) = PageRefs(pcb)
      BY <1>1, <2>1, ShapePages
    <3>2. \A e \in PageRefs(pcb) : Page(u, e).index = Page(pcb, e).index
      <4> SUFFICES ASSUME NEW e \in PageRefs(pcb)
                   PROVE  Page(u, e).index = Page(pcb, e).index
        OBVIOUS
      <4>1. CASE e = <<curr, i>>
        BY <2>3, <4>1 DEF Page
      <4>2. CASE e # <<curr, i>>
        BY <1>1, <2>3, <4>2, PageOther
      <4> QED
        BY <4>1, <4>2
    <3>3. \A e \in PageRefs(pcb) : IsLoaded(Page(u, e)) <=> IsLoaded(Page(pcb, e))
      BY <3>2 DEF IsLoaded
    <3> QED
      BY <2>6, <3>1, <3>2, <3>3 DEF Own, FramesOK
  <2>8. ASSUME NEW q \in DOMAIN pcb, q # curr
        PROVE  LinesOK(c.mem, u[q], ex[q])
    <3>1. u[q] = pcb[q] /\ ex[q] = executed[q]
      BY <1>2, <2>3, <2>8 DEF Changed
    <3> QED
      BY <2>6, <3>1 DEF Own
  <2>9. LinesOK(c.mem, u[curr], ex[curr])
    <3>1. PICK P, Q : P = pcb[curr] /\ Q = u[curr]
      OBVIOUS
    <3>2. /\ Q.script = P.script /\ Q.pos = P.pos /\ DOMAIN Q.page_table = DOMAIN P.page_table
          /\ i \in DOMAIN P.page_table
      BY <1>1, <2>3, <3>1 DEF Changed
    <3>3. Pends(P, i, o)
      BY <2>4, <2>5, <3>1 DEF Pends, Offset
    <3>4. ~Pends(Q, i, o)
      <4>1. ~(o >= Q.page_table[i].pc)
        BY <2>3, <2>4, <2>5, <3>1 DEF Offset
      <4> QED
        BY <4>1 DEF Pends
    <3>5. \A j \in DOMAIN P.page_table, k \in Offset : Pends(Q, j, k) =>
            Pends(P, j, k) /\ Val(c.mem, Q, j, k) = Val(c.mem, P, j, k)
      <4> SUFFICES ASSUME NEW j \in DOMAIN P.page_table, NEW k \in Offset, Pends(Q, j, k)
                   PROVE  Pends(P, j, k) /\ Val(c.mem, Q, j, k) = Val(c.mem, P, j, k)
        OBVIOUS
      <4>1. CASE j = i
        <5>1. Q.page_table[j].valid[k] /\ k >= Q.page_table[j].pc
          BY DEF Pends
        <5>2. P.page_table[j].valid[k]
          BY <2>3, <3>1, <4>1, <5>1
        <5>3. k >= P.page_table[j].pc
          BY <2>3, <2>4, <2>5, <3>1, <4>1, <5>1 DEF Offset
        <5> QED
          BY <2>3, <3>1, <4>1, <5>2, <5>3 DEF Pends, Val
      <4>2. CASE j # i
        <5>1. Q.page_table[j] = P.page_table[j]
          BY <2>3, <3>1, <4>2 DEF Changed
        <5> QED
          BY <5>1 DEF Pends, Val
      <4> QED
        BY <4>1, <4>2
    <3>6. at = Val(c.mem, P, i, o)
      <4>1. P.page_table[i].index[o] \in FramePos
        BY <1>3, <2>5, <3>1, <3>2, ValidIsLoaded
      <4> QED
        BY <1>1, <2>1, <2>4, <3>1, <4>1 DEF LineAt, Val
    <3>7. ex[curr] = executed[curr] \o <<at>>
      BY <1>1, <1>2, <2>2
    <3>8. LinesOK(c.mem, P, executed[curr])
      BY <1>1, <2>6, <3>1 DEF Own
    <3>9. PICK e1 : e1 = executed[curr] /\ e1 \in Seq(S)
      BY <1>2
    <3>10. PICK e2, n : e2 = ex[curr] /\ n = c.mem
      OBVIOUS
    <3>11. /\ LinesOK(n, P, e1) /\ e1 \in Seq(S) /\ at \in S /\ o \in Offset
           /\ e2 = e1 \o <<at>> /\ at = Val(n, P, i, o)
      BY <2>2, <2>5, <3>6, <3>7, <3>8, <3>9, <3>10
    <3>12. \A j \in DOMAIN P.page_table, k \in Offset : Pends(Q, j, k) =>
             Pends(P, j, k) /\ Val(n, Q, j, k) = Val(n, P, j, k)
      BY <3>5, <3>10
    <3> HIDE DEF S
    <3>13. LinesOK(n, Q, e2)
      BY <3>2, <3>3, <3>4, <3>11, <3>12, LineTaken
    <3> QED
      BY <3>1, <3>10, <3>13
  <2> QED
    BY <1>1, <2>1, <2>3, <2>7, <2>8, <2>9 DEF Own
<1> QED
  BY <1>4, <1>5

LEMMA OwnRun ==
  ASSUME FRAME_STORE_SIZE <= Unmapped, Base, Own(shellmemory, pcb, executed), run_proc
  PROVE  Own(shellmemory, pcb, executed)'
<1>1. PICK i, c, st, r : curr # 0 /\ RunPath(i, c, st, r)
  BY RunProc
<1>2. PICK ex : ex = executed'
  OBVIOUS
<1>3. /\ i = CurrentPage(pcb[curr]) /\ c = cpu_run(curr, i)
      /\ shellmemory' = r.mem /\ pcb' = r.pcb /\ ex = [executed EXCEPT ![curr] = @ \o c.ran]
  BY <1>1, <1>2 DEF RunPath
<1>4. Own(c.mem, c.pcb, ex)
  BY <1>1, <1>3, OwnCpu
<1>5. /\ curr \in DOMAIN pcb /\ curr \in Nat /\ i \in DOMAIN pcb[curr].page_table
      /\ StOK(c) /\ SameShape(pcb, c.pcb)
  BY <1>1, <1>3, Cpu
<1>6. CASE r = c
  BY <1>2, <1>3, <1>4, <1>6
<1>7. CASE FaultPath(c, st, r, curr, i)
  <2>1. Own(st.mem, st.pcb, ex)
    <3>1. CASE st.mem = c.mem /\ st.pcb = c.pcb
      BY <1>4, <3>1
    <3>2. ASSUME NEW e \in PageRefs(pcb), Evicts(c, st, e)
          PROVE  Own(st.mem, st.pcb, ex)
      <4>1. PICK d : d.mem = c.mem /\ d.pcb = c.pcb /\ st = PAGE_evict(d, e[1], e[2])
        BY <3>2 DEF Evicts
      <4>2. StOK(d) /\ Own(d.mem, d.pcb, ex)
        BY <1>4, <1>5, <4>1 DEF StOK
      <4>3. e[1] \in DOMAIN d.pcb /\ e[2] \in DOMAIN d.pcb[e[1]].page_table
        <5>1. e[1] \in DOMAIN pcb /\ e[2] \in DOMAIN pcb[e[1]].page_table
          BY PageRefFacts
        <5> QED
          BY <1>5, <4>1, <5>1 DEF SameShape
      <4> QED
        BY <4>1, <4>2, <4>3, OwnEvict
    <3> QED
      BY <1>7, <3>1, <3>2 DEF FaultPath
  <2>2. CASE r = st
    BY <1>2, <1>3, <2>1, <2>2
  <2>3. CASE Loads(st, r, curr, i)
    <3>1. StOK(st) /\ curr \in DOMAIN st.pcb /\ i \in DOMAIN st.pcb[curr].page_table
      BY <1>5, <1>7 DEF FaultPath, SameShape
    <3>2. Own(r.mem, r.pcb, ex)
      BY <1>5, <2>1, <2>3, <3>1, OwnLoad
    <3> QED
      BY <1>2, <1>3, <3>2
  <2> QED
    BY <1>7, <2>2, <2>3 DEF FaultPath
<1> QED
  BY <1>1, <1>6, <1>7 DEF RunPath

\* A new process has nothing in memory yet.
LEMMA OwnAdd ==
  ASSUME ProcsOK(pcb), Own(shellmemory, pcb, executed), NEW p, NEW s, p \notin DOMAIN pcb,
         NEW u, Adds(pcb, u, p, s),
         NEW ex, ex = [q \in DOMAIN pcb \cup {p} |-> IF q = p THEN <<>> ELSE executed[q]]
  PROVE  Own(shellmemory, u, ex)
<1>1. /\ DOMAIN u = DOMAIN pcb \cup {p} /\ IsNew(u[p], s)
      /\ \A q \in DOMAIN pcb : u[q] = pcb[q] /\ q # p
  BY DEF Adds
<1>2. \A e \in PageRefs(u) : IsLoaded(Page(u, e)) =>
        e \in PageRefs(pcb) /\ Page(u, e) = Page(pcb, e)
  <2> SUFFICES ASSUME NEW e \in PageRefs(u), IsLoaded(Page(u, e))
               PROVE  e \in PageRefs(pcb) /\ Page(u, e) = Page(pcb, e)
    OBVIOUS
  <2>1. e = <<e[1], e[2]>> /\ e[1] \in DOMAIN u /\ e[2] \in DOMAIN u[e[1]].page_table
    BY PageRefFacts
  <2>2. e[1] # p
    <3> SUFFICES ASSUME e[1] = p
                 PROVE  FALSE
      OBVIOUS
    <3>1. Page(u, e).index = Everywhere(Unmapped)
      BY <1>1, <2>1 DEF IsNew, Page
    <3>2. Page(u, e).index[0] = Unmapped /\ Page(u, e).index[1] = Unmapped
      BY <3>1 DEF Everywhere, Offset
    <3> QED
      BY <3>2 DEF IsLoaded, Unmapped
  <2>3. e[1] \in DOMAIN pcb /\ u[e[1]] = pcb[e[1]]
    BY <1>1, <2>1, <2>2
  <2>4. e \in PageRefs(pcb)
    BY <2>1, <2>3, IsPageRef
  <2> QED
    BY <2>3, <2>4 DEF Page
<1>3. FramesOK(shellmemory, u)
  <2>1. ASSUME NEW e \in PageRefs(u), IsLoaded(Page(u, e)), NEW k \in Offset,
               Page(u, e).index[0] + k # 0
        PROVE  shellmemory[Page(u, e).index[0] + k].var # None
    <3>1. e \in PageRefs(pcb) /\ Page(u, e) = Page(pcb, e)
      BY <1>2, <2>1
    <3> QED
      BY <2>1, <3>1 DEF Own, FramesOK
  <2>2. ASSUME NEW e \in PageRefs(u), NEW f \in PageRefs(u), e # f,
               IsLoaded(Page(u, e)), IsLoaded(Page(u, f))
        PROVE  \/ Page(u, e).index[0] + 3 <= Page(u, f).index[0]
               \/ Page(u, f).index[0] + 3 <= Page(u, e).index[0]
    <3>1. /\ e \in PageRefs(pcb) /\ Page(u, e) = Page(pcb, e)
          /\ f \in PageRefs(pcb) /\ Page(u, f) = Page(pcb, f)
      BY <1>2, <2>2
    <3> QED
      BY <2>2, <3>1 DEF Own, FramesOK
  <2> QED
    BY <2>1, <2>2 DEF FramesOK
<1>4. ASSUME NEW q \in DOMAIN pcb
      PROVE  LinesOK(shellmemory, u[q], ex[q])
  <2>1. u[q] = pcb[q] /\ ex[q] = executed[q]
    BY <1>1
  <2> QED
    BY <2>1 DEF Own
<1>5. LinesOK(shellmemory, u[p], ex[p])
  <2>1. ex[p] = <<>> /\ Len(<<>>) = 0
    OBVIOUS
  <2>2. \A i \in DOMAIN u[p].page_table, k \in Offset : ~Pends(u[p], i, k)
    BY <1>1, Zenon DEF IsNew, Invalid, Pends
  <2>3. Alone(shellmemory, u[p])
    BY <2>2 DEF Alone
  <2> QED
    BY <2>1, <2>2, <2>3 DEF LinesOK
<1> QED
  BY <1>1, <1>3, <1>4, <1>5 DEF Own

LEMMA OwnNew ==
  ASSUME Base, Own(shellmemory, pcb, executed), new_proc
  PROVE  Own(shellmemory, pcb, executed)'
<1>1. PICK p, s : p = PID_counter /\ s = Head(todo)
  OBVIOUS
<1>2. /\ p \in Nat /\ p \notin DOMAIN pcb
      /\ \/ exit_99
         \/ \E st, st1, r, pages :
              /\ Creates(st, st1, r, p, s) /\ Admit(p, r, pages) /\ s \in DOMAIN Program
  BY <1>1, NewProc
<1>3. CASE exit_99
  BY <1>3 DEF exit_99
<1>4. ASSUME NEW st, NEW st1, NEW r, NEW pages, Creates(st, st1, r, p, s), Admit(p, r, pages),
             s \in DOMAIN Program
      PROVE  Own(shellmemory, pcb, executed)'
  <2>1. PICK ex : ex = executed'
    OBVIOUS
  <2>2. /\ shellmemory' = r.mem /\ pcb' = r.pcb
        /\ ex = [q \in DOMAIN pcb \cup {p} |-> IF q = p THEN <<>> ELSE executed[q]]
    BY <1>4, <2>1 DEF Admit
  <2>3. /\ StOK(st) /\ st.mem = shellmemory /\ Adds(pcb, st.pcb, p, s)
        /\ StOK(st1) /\ Loads(st, st1, p, 0) /\ SameShape(st.pcb, st1.pcb)
        /\ r = st1 \/ (Loads(st1, r, p, 1) /\ 1 \in DOMAIN st1.pcb[p].page_table)
    BY <1>4 DEF Creates
  <2>4. Own(st.mem, st.pcb, ex)
    BY <1>2, <2>2, <2>3, OwnAdd DEF Base
  <2>5. /\ p \in DOMAIN st.pcb /\ p \in DOMAIN st1.pcb /\ TableSize(s) \in Nat \ {0}
        /\ DOMAIN st.pcb[p].page_table = 0 .. TableSize(s) - 1
        /\ DOMAIN st1.pcb[p].page_table = 0 .. TableSize(s) - 1
    BY <1>4, <2>3, CountLines DEF Adds, IsNew, SameShape
  <2>6. 0 \in DOMAIN st.pcb[p].page_table
    BY <2>5
  <2>7. Own(st1.mem, st1.pcb, ex)
    BY <1>2, <2>3, <2>4, <2>5, <2>6, OwnLoad
  <2>8. CASE r = st1
    BY <2>1, <2>2, <2>7, <2>8
  <2>9. CASE Loads(st1, r, p, 1) /\ 1 \in DOMAIN st1.pcb[p].page_table
    <3>1. Own(r.mem, r.pcb, ex)
      BY <1>2, <2>3, <2>5, <2>7, <2>9, OwnLoad
    <3> QED
      BY <2>1, <2>2, <3>1
  <2> QED
    BY <2>3, <2>8, <2>9
<1> QED
  BY <1>2, <1>3, <1>4

LEMMA OwnStep ==
  ASSUME FRAME_STORE_SIZE <= Unmapped, Base, Own(shellmemory, pcb, executed), [Next]_vars
  PROVE  Own(shellmemory, pcb, executed)'
<1>0. ProcsOK(pcb)
  BY DEF Base
<1>1. CASE UNCHANGED <<shellmemory, pcb, executed>>
  BY <1>1
<1>2. CASE /\ UNCHANGED <<pcb, executed>>
           /\ \A a \in FramePos : shellmemory'[a] = shellmemory[a]
  <2>1. Own(shellmemory', pcb, executed)
    BY <1>0, <1>2, OwnSame
  <2> QED
    BY <1>2, <2>1
<1>3. ASSUME NEW v \in Var, NEW x \in Value, set(v, x)
      PROVE  Own(shellmemory, pcb, executed)'
  <2>1. \A a \in FramePos : shellmemory'[a] = shellmemory[a]
    BY <1>3, BaseSet
  <2> QED
    BY <1>2, <1>3, <2>1 DEF set, kernelVars
<1>4. CASE resetmem
  <2>1. \A a \in FramePos : shellmemory'[a] = shellmemory[a]
    BY <1>4, BaseReset
  <2> QED
    BY <1>2, <1>4, <2>1 DEF resetmem, kernelVars
<1>5. ASSUME NEW scripts, exec(scripts)
      PROVE  Own(shellmemory, pcb, executed)'
  BY <1>1, <1>5 DEF exec, history
<1>6. CASE Dispatch
  BY <1>1, <1>6 DEF Dispatch
<1>7. CASE Finish
  <2>1. pcb' = <<>> /\ DOMAIN pcb' = {}
    BY <1>7 DEF Finish
  <2>2. PageRefs(pcb') = {}
    BY <2>1 DEF PageRefs
  <2> QED
    BY <2>1, <2>2 DEF Own, FramesOK
<1>8. CASE Exited \/ UNCHANGED vars
  BY <1>1, <1>8 DEF Exited, vars
<1> QED
  BY <1>3, <1>4, <1>5, <1>6, <1>7, <1>8, OwnNew, OwnRun DEF Next, run_proc_RR

\* Whatever the scripts do, and however often pages are evicted, loaded again or not
\* loaded at all, a process never runs a line of another script, nor a line of its own
\* twice (pcb.c:86-94, 183-190, shellmemory.c:67-102).  The frame store ends before
\* line 1000, the index that pcb.c gives to pages which were never loaded.
THEOREM LinesAreOwn == FRAME_STORE_SIZE <= Unmapped /\ Spec => []OwnLinesOnce
<1> DEFINE O == Own(shellmemory, pcb, executed)
<1>1. Init => O
  <2> SUFFICES ASSUME Init
               PROVE  O
    OBVIOUS
  <2>1. DOMAIN pcb = {} /\ PageRefs(pcb) = {}
    BY DEF Init, PageRefs
  <2> QED
    BY <2>1 DEF Own, FramesOK
<1>2. FRAME_STORE_SIZE <= Unmapped /\ Base /\ O /\ [Next]_vars => O'
  BY OwnStep
<1>3. Base /\ O => OwnLinesOnce
  <2> SUFFICES ASSUME Base, O, NEW p \in DOMAIN pcb, NEW k \in 1 .. Len(executed[p]),
                      executed[p][k] # None
               PROVE  /\ executed[p][k][1] = pcb[p].script
                      /\ \A l \in 1 .. k - 1 : executed[p][l] # executed[p][k]
    BY DEF OwnLinesOnce
  <2>1. executed[p] \in Seq(LineRef \cup {None})
    BY DEF Base, HistoryOK
  <2>2. /\ OwnLine(pcb[p], executed[p][k])
        /\ \A l, j \in 1 .. Len(executed[p]) :
             executed[p][l] = executed[p][j] /\ executed[p][l] # None => l = j
    BY DEF Own, LinesOK
  <2>3. PICK n : executed[p][k] = <<pcb[p].script, n>>
    BY <2>2 DEF OwnLine
  <2>4. Len(executed[p]) \in Nat
    BY <2>1
  <2>5. \A l \in 1 .. k - 1 : l \in 1 .. Len(executed[p]) /\ l # k
    BY <2>4
  <2> QED
    BY <2>2, <2>3, <2>5
<1> QED
  <2>1. ASSUME FRAME_STORE_SIZE <= Unmapped
        PROVE  Spec => []OwnLinesOnce
    <3>1. Base /\ O /\ [Next]_vars => O'
      BY <1>2, <2>1
    <3> HIDE DEF O
    <3> QED
      BY <1>1, <1>3, <3>1, BaseInvariant, PTL DEF Spec
  <2> QED
    BY <2>1
=============================================================================
