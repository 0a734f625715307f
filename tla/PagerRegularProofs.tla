------------------------- MODULE PagerRegularProofs -------------------------
(***************************************************************************)
(* Proofs about demand paging for scripts without blank lines, without a   *)
(* newline after the last line and without a command that returns 1, the   *)
(* status of a page fault: no line is lost, every script is run to its end *)
(* in order, and the pages of the LRU list own the frame store.            *)
(*                                                                         *)
(* An eviction loses lines when its victim has lines to run.  It never     *)
(* does: round robin keeps the processes in step, so the list is sorted by *)
(* the round in which a page was last used, and a page with lines to run   *)
(* was used in this round or the one before.  Were such a page the last of *)
(* the list, the list would hold recent pages only, of which there are     *)
(* fewer than two for each process with more than one page: but that many  *)
(* pages were loaded when the processes were created.                      *)
(***************************************************************************)
EXTENDS PagerProofs

\* Every step uses the constants' assumptions.
USE MemoryAssumption, MaxPidAssumption

\* The scripts that this module is about.
RegularScripts ==
  \A s \in DOMAIN Program :
    /\ s \notin EndsWithNewline /\ Len(Program[s]) >= 1
    /\ \A k \in 1 .. Len(Program[s]) : ~Program[s][k].blank /\ Program[s][k].ret # 1

Total(P) == Len(Program[P.script])
Aligned(a) == \E x \in Nat : a = 3 * x

-----------------------------------------------------------------------------
(* Where the pages are, for a memory m, PCBs t and a set W of loaded pages. *)

\* Page i has no line to run.
Done(P, i) == Taken(P) = Total(P) \/ Taken(P) >= 3 * i + 3

\* What the frame of page i holds for its line k.
Stored(P, i, k) == IF 3 * i + k + 1 <= P.pos THEN <<P.script, 3 * i + k + 1>> ELSE None

Resident(m, P, p, i) ==
  /\ IsLoaded(P.page_table[i]) /\ Aligned(P.page_table[i].index[0]) /\ 3 * i < P.pos
  /\ \A k \in Offset : P.page_table[i].valid[k] <=> 3 * i + k + 1 <= P.pos
  /\ \A k \in Offset :
       m[P.page_table[i].index[0] + k] = [var |-> p, value |-> Stored(P, i, k)]

\* A page that was evicted has no line to run; the others were never read.
Absent(P, i) ==
  /\ Invalid(P.page_table[i])
  /\ 3 * i < P.pos =>
       P.page_table[i].index = Everywhere(0) /\ Done(P, i) /\ FRAME_STORE_SIZE >= 3
  /\ 3 * i >= P.pos => P.page_table[i].index = Everywhere(Unmapped)

InFrame(a, t, e) == a \in Page(t, e).index[0] .. Page(t, e).index[0] + 2

Layout(m, t, W) ==
  /\ W \subseteq PageRefs(t)
  /\ \A p \in DOMAIN t : Taken(t[p]) <= t[p].pos
  /\ \A p \in DOMAIN t : \A i \in DOMAIN t[p].page_table :
       /\ <<p, i>> \in W => Resident(m, t[p], p, i)
       /\ <<p, i>> \notin W => Absent(t[p], i)
  /\ \A a \in FramePos : m[a] = Free \/ \E e \in W : InFrame(a, t, e)

\* The pages of the LRU list.
Members(q) == {q[k] : k \in 1 .. Len(q)}
Owned == Members(LRU_CACHE)

\* The lines that each process ran.
InTurn(P, ex) == ex = [k \in 1 .. Taken(P) |-> <<P.script, k>>]

-----------------------------------------------------------------------------
(* Rounds.  In a round every process has one turn, from line E on, with the  *)
(* lines of J pages read; processes with fewer lines are at their end.       *)

Least(a, b) == IF a <= b THEN a ELSE b
AtTurn(P, E, J) == Taken(P) = Least(E, Total(P)) /\ P.pos = Least(3 * J, Total(P))

\* Two pages are read at first; then each page takes two turns: two lines, and one
\* line and the fault of the next page.
Phase(E, J) ==
  /\ E \in Nat /\ J \in Nat
  /\ \/ J = 2 /\ E \in {0, 2, 4, 6}
     \/ J >= 3 /\ (E = 3 * J - 3 \/ E = 3 * J - 1)
NextE(E, J) == IF E = 3 * J THEN E ELSE IF E = 3 * J - 1 THEN E + 1 ELSE E + 2
NextJ(E, J) == IF E >= 3 * J - 1 THEN J + 1 ELSE J

\* The round in which page i was last used, and the latest there may be.
Stamp(P, i) ==
  IF i <= 1 THEN 3
  ELSE IF Taken(P) >= 3 * i + 3 THEN 2 * i + 2
  ELSE IF Taken(P) > 3 * i THEN 2 * i + 1 ELSE 2 * i
StampOf(t, e) == Stamp(t[e[1]], e[2])
Cap(E, J) == IF E >= 3 * J - 1 THEN 2 * J ELSE IF E = 3 * J - 3 THEN 2 * J - 1 ELSE 3

\* The first K processes of the queue still have their turn in this round.
Round(E, J, K) ==
  /\ \A k \in 1 .. Len(QUEUE) :
       /\ k <= K => AtTurn(pcb[QUEUE[k]], E, J)
       /\ k > K => AtTurn(pcb[QUEUE[k]], NextE(E, J), NextJ(E, J))
  /\ curr # 0 /\ step # "second" =>
       /\ AtTurn(pcb[curr], E, J) /\ E < Total(pcb[curr])
       /\ step = "only" <=> E + 1 = Total(pcb[curr])
  /\ curr # 0 /\ step = "second" =>
       /\ Taken(pcb[curr]) = E + 1 /\ E + 1 < Total(pcb[curr])
       /\ pcb[curr].pos = Least(3 * J, Total(pcb[curr]))
  /\ \A e \in Owned : StampOf(pcb, e) <= Cap(E, J)

InStep ==
  \E E, J \in Nat : \E K \in 0 .. Len(QUEUE) :
    /\ Phase(E, J) /\ Round(E, J, K)
    /\ todo # <<>> => E = 0 /\ J = 2 /\ K = Len(QUEUE)

\* A process that is not queued and not running is at its end.
Waiting ==
  \A p \in DOMAIN pcb : \/ p = curr \/ (\E k \in 1 .. Len(QUEUE) : QUEUE[k] = p)
                        \/ Taken(pcb[p]) = Total(pcb[p])

\* The processes with more than one page.
Long(t) == {p \in DOMAIN t : Total(t[p]) > 3}

\* The LRU list: no page twice, most recent rounds first, and two pages for each
\* long process.
Distinct(q) == \A k, l \in 1 .. Len(q) : q[k] = q[l] => k = l
Descending(t, q) ==
  \A k, l \in 1 .. Len(q) : k < l => StampOf(t, q[k]) >= StampOf(t, q[l])
Sorted ==
  /\ Distinct(LRU_CACHE) /\ Descending(pcb, LRU_CACHE)
  /\ Len(LRU_CACHE) >= 2 * Cardinality(Long(pcb))

Paging ==
  /\ Layout(shellmemory, pcb, Owned)
  /\ \A p \in DOMAIN pcb : InTurn(pcb[p], executed[p])
  /\ Sorted /\ Waiting /\ InStep
-----------------------------------------------------------------------------
(* Scripts and processes.                                                   *)

\* All lines count.
LEMMA RegularLines ==
  ASSUME RegularScripts, NEW s \in DOMAIN Program
  PROVE  count_lines(s) = Len(Program[s]) /\ Len(Program[s]) \in Nat \ {0}
<1> DEFINE L == Len(Program[s])
           S == {k \in 1 .. L : ~Program[s][k].blank /\ (k < L \/ s \in EndsWithNewline)}
<1>1. L \in Nat \ {0} /\ s \notin EndsWithNewline /\ \A k \in 1 .. L : ~Program[s][k].blank
  BY Scripts DEF RegularScripts
<1>2. S = 1 .. L - 1
  BY <1>1
<1>3. Cardinality(1 .. L - 1) = L - 1
  BY <1>1, FS_Interval
<1>4. count_lines(s) = 1 + Cardinality(S)
  BY DEF count_lines
<1> HIDE DEF S
<1>5. count_lines(s) = L
  BY <1>1, <1>2, <1>3, <1>4
<1> QED
  BY <1>1, <1>5

\* The numbers of a process.
LEMMA Numbers ==
  ASSUME RegularScripts, NEW P \in PCB, ProcOK(P)
  PROVE  /\ P.script \in DOMAIN Program /\ Total(P) \in Nat \ {0} /\ P.size \in Nat
         /\ Taken(P) \in Nat /\ P.size = Total(P) - Taken(P) /\ Taken(P) <= Total(P)
         /\ P.pos \in Nat /\ P.pos <= Total(P)
         /\ \A i \in DOMAIN P.page_table : i \in Nat /\ 3 * i < Total(P)
         /\ \A i \in Nat : 3 * i < Total(P) => i \in DOMAIN P.page_table
<1>1. P.script \in DOMAIN Program /\ P.pos \in Nat /\ P.size \in Nat
  BY DEF PCB
<1>2. /\ count_lines(P.script) = Len(Program[P.script])
      /\ Len(Program[P.script]) \in Nat \ {0}
  BY <1>1, RegularLines
<1>3. PICK n \in Nat \ {0} : /\ n = TableSize(P.script) /\ Total(P) <= 3 * n
                             /\ 3 * n < Total(P) + 3
  BY <1>1, <1>2, CountLines DEF Total
<1>4. /\ P.size <= Total(P) /\ P.pos <= Total(P) /\ Total(P) \in Nat \ {0}
      /\ DOMAIN P.page_table = 0 .. n - 1
  BY <1>2, <1>3 DEF ProcOK, Total
<1>5. Taken(P) = Total(P) - P.size
  BY <1>2 DEF Taken, Total
<1> QED
  BY <1>1, <1>3, <1>4, <1>5
-----------------------------------------------------------------------------
(* Pages in the frame store.                                                *)

\* A page of W is at its frame.
LEMMA InPlace ==
  ASSUME NEW m, NEW t, NEW W, Layout(m, t, W), NEW e \in W
  PROVE  /\ e = <<e[1], e[2]>> /\ e[1] \in DOMAIN t /\ e[2] \in DOMAIN t[e[1]].page_table
         /\ e \in PageRefs(t) /\ Resident(m, t[e[1]], e[1], e[2])
         /\ Page(t, e) = t[e[1]].page_table[e[2]] /\ IsLoaded(Page(t, e))
         /\ Page(t, e).index[0] \in Nat /\ Page(t, e).index[0] \in FramePos
         /\ Page(t, e).index[0] + 2 \in FramePos /\ Aligned(Page(t, e).index[0])
<1>1. e \in PageRefs(t)
  BY DEF Layout
<1>2. e = <<e[1], e[2]>> /\ e[1] \in DOMAIN t /\ e[2] \in DOMAIN t[e[1]].page_table
  BY <1>1, PageRefFacts
<1>3. \A p \in DOMAIN t : \A i \in DOMAIN t[p].page_table :
        <<p, i>> \in W => Resident(m, t[p], p, i)
  BY DEF Layout
<1>4. Resident(m, t[e[1]], e[1], e[2])
  BY <1>2, <1>3
<1>5. IsLoaded(Page(t, e)) /\ Aligned(Page(t, e).index[0])
  BY <1>4 DEF Resident, Page
<1>6. Page(t, e).index[0] \in FramePos /\ Page(t, e).index[0] + 2 \in FramePos
  BY <1>5 DEF IsLoaded
<1>7. Page(t, e).index[0] \in Nat
  BY <1>6, Positions
<1>8. Page(t, e) = t[e[1]].page_table[e[2]]
  BY Zenon DEF Page
<1> QED
  BY <1>1, <1>2, <1>4, <1>5, <1>6, <1>7, <1>8, Zenon

\* What the lines of its frame hold.
LEMMA Holds ==
  ASSUME NEW m, NEW t, NEW W, Layout(m, t, W), NEW e \in W
  PROVE  /\ \A k \in Offset : m[Page(t, e).index[0] + k].var = e[1]
         /\ \A k \in Offset : m[Page(t, e).index[0] + k] =
                                [var |-> e[1], value |-> Stored(t[e[1]], e[2], k)]
         /\ 3 * e[2] < t[e[1]].pos
<1>1. Resident(m, t[e[1]], e[1], e[2])
  BY InPlace
<1>2. \A k \in Offset : m[Page(t, e).index[0] + k] =
                          [var |-> e[1], value |-> Stored(t[e[1]], e[2], k)]
  BY <1>1 DEF Resident, Page
<1>3. ASSUME NEW k \in Offset
      PROVE  m[Page(t, e).index[0] + k].var = e[1]
  <2>1. m[Page(t, e).index[0] + k] = [var |-> e[1], value |-> Stored(t[e[1]], e[2], k)]
    BY <1>2
  <2> QED
    BY <2>1
<1>4. 3 * e[2] < t[e[1]].pos
  BY <1>1 DEF Resident
<1> QED
  BY <1>2, <1>3, <1>4

\* Pages that are different are at different frames.
LEMMA Apart ==
  ASSUME NEW m, NEW t, ProcsOK(t), NEW W, Layout(m, t, W), NEW e \in W, NEW f \in W, e # f
  PROVE  \/ Page(t, e).index[0] + 3 <= Page(t, f).index[0]
         \/ Page(t, f).index[0] + 3 <= Page(t, e).index[0]
<1>1. /\ e = <<e[1], e[2]>> /\ e[1] \in DOMAIN t /\ e[2] \in DOMAIN t[e[1]].page_table
      /\ f = <<f[1], f[2]>> /\ f[1] \in DOMAIN t /\ f[2] \in DOMAIN t[f[1]].page_table
      /\ Page(t, e).index[0] \in Nat /\ Page(t, f).index[0] \in Nat
      /\ Aligned(Page(t, e).index[0]) /\ Aligned(Page(t, f).index[0])
  BY InPlace
<1>2. PICK a, b : a = Page(t, e).index[0] /\ b = Page(t, f).index[0]
  OBVIOUS
<1>3. PICK y \in Nat : a = 3 * y
  BY <1>1, <1>2 DEF Aligned
<1>4. PICK z \in Nat : b = 3 * z
  BY <1>1, <1>2 DEF Aligned
<1>5. a # b
  <2> SUFFICES ASSUME a = b
               PROVE  FALSE
    OBVIOUS
  <2>0. 0 \in Offset
    BY DEF Offset
  <2>1. /\ m[a + 0] = [var |-> e[1], value |-> Stored(t[e[1]], e[2], 0)]
        /\ 3 * e[2] < t[e[1]].pos
    <3>1. /\ \A k \in Offset : m[Page(t, e).index[0] + k] =
                                 [var |-> e[1], value |-> Stored(t[e[1]], e[2], k)]
          /\ 3 * e[2] < t[e[1]].pos
      BY Holds
    <3> QED
      BY <1>2, <2>0, <3>1, Zenon
  <2>2. /\ m[b + 0] = [var |-> f[1], value |-> Stored(t[f[1]], f[2], 0)]
        /\ 3 * f[2] < t[f[1]].pos
    <3>1. /\ \A k \in Offset : m[Page(t, f).index[0] + k] =
                                 [var |-> f[1], value |-> Stored(t[f[1]], f[2], k)]
          /\ 3 * f[2] < t[f[1]].pos
      BY Holds
    <3> QED
      BY <1>2, <2>0, <3>1, Zenon
  <2>3. e[1] = f[1] /\ Stored(t[e[1]], e[2], 0) = Stored(t[f[1]], f[2], 0)
    BY <2>1, <2>2
  <2>4. PICK p, i, j : p = e[1] /\ i = e[2] /\ j = f[2]
    OBVIOUS
  <2>5. t[p] \in PCB /\ i \in DOMAIN t[p].page_table /\ j \in DOMAIN t[p].page_table
    BY <1>1, <2>3, <2>4 DEF ProcsOK, PCBs
  <2>6. i \in Nat /\ j \in Nat /\ t[p].pos \in Nat
    BY <2>5, PageOf DEF PCB
  <2>7. 3 * i + 0 + 1 <= t[p].pos /\ 3 * j + 0 + 1 <= t[p].pos
    BY <2>1, <2>2, <2>3, <2>4, <2>6
  <2>8. <<t[p].script, 3 * i + 0 + 1>> = <<t[p].script, 3 * j + 0 + 1>>
    BY <2>3, <2>4, <2>7 DEF Stored
  <2>9. i = j
    BY <2>6, <2>8
  <2> QED
    BY <1>1, <2>3, <2>4, <2>9
<1> QED
  BY <1>2, <1>3, <1>4, <1>5

\* A frame that frame_alloc yields is aligned, and nobody's.
LEMMA FreePlace ==
  ASSUME NEW m, NEW t, ProcsOK(t), DOMAIN t \subseteq Nat, NEW W, Layout(m, t, W),
         NEW b \in FramePos, frame_alloc(m, b)
  PROVE  /\ Aligned(b) /\ b + 2 \in FramePos /\ \A k \in Offset : m[b + k] = Free
         /\ \A e \in W : \/ Page(t, e).index[0] + 3 <= b
                         \/ b + 3 <= Page(t, e).index[0]
<1>1. Fits(m, b) /\ \A a \in 0 .. b - 1 : ~Fits(m, a)
  BY DEF frame_alloc
<1>2. b \in Nat /\ b + 2 \in FramePos
  BY <1>1, Place
<1>3. \A k \in Offset : b + k \in FramePos /\ m[b + k].var = None
  BY <1>1 DEF Fits
<1>4. ASSUME NEW a \in FramePos, m[a].var = None
      PROVE  m[a] = Free /\ \A e \in W : ~InFrame(a, t, e)
  <2>1. ASSUME NEW e \in W, InFrame(a, t, e)
        PROVE  FALSE
    <3>1. Page(t, e).index[0] \in Nat /\ e[1] \in DOMAIN t
      BY <2>1, InPlace
    <3>2. PICK k \in Offset : a = Page(t, e).index[0] + k
      BY <2>1, <3>1 DEF InFrame, Offset, FramePos
    <3>3. m[a].var = e[1]
      BY <3>2, Holds
    <3> QED
      BY <1>4, <3>1, <3>3, NameAssumption
  <2> QED
    BY <2>1 DEF Layout
<1>5. \A k \in Offset : m[b + k] = Free
  BY <1>3, <1>4
<1>6. ASSUME NEW e \in W
      PROVE  /\ Page(t, e).index[0] \in Nat
             /\ Page(t, e).index[0] + 3 <= b \/ b + 3 <= Page(t, e).index[0]
  <2>1. Page(t, e).index[0] \in Nat
    BY InPlace
  <2>2. \A k \in Offset : ~InFrame(b + k, t, e)
    BY <1>3, <1>4
  <2>3. ~InFrame(b, t, e) /\ ~InFrame(b + 1, t, e) /\ ~InFrame(b + 2, t, e)
    BY <1>2, <2>2 DEF Offset
  <2> QED
    BY <1>2, <2>1, <2>3 DEF InFrame
<1>7. Aligned(b)
  <2>0. b \div 3 \in Nat /\ b % 3 \in 0 .. 2 /\ b = 3 * (b \div 3) + (b % 3)
    BY <1>2
  <2>1. PICK d \in Nat, r \in 0 .. 2 : b = 3 * d + r
    BY <2>0
  <2> SUFFICES ASSUME r # 0
               PROVE  FALSE
    BY <2>1 DEF Aligned
  <2>2. ~Fits(m, 3 * d)
    BY <1>1, <1>2, <2>1
  <2>3. PICK k \in Offset : ~(3 * d + k \in FramePos /\ m[3 * d + k].var = None)
    BY <2>2 DEF Fits
  <2>4. 3 * d + k \in FramePos
    BY <1>2, <2>1 DEF FramePos, Offset
  <2>5. m[3 * d + k] # Free
    BY <2>3, <2>4 DEF Free
  <2>6. PICK e \in W : InFrame(3 * d + k, t, e)
    BY <2>4, <2>5 DEF Layout
  <2>7. PICK y \in Nat : Page(t, e).index[0] = 3 * y
    BY InPlace DEF Aligned
  <2>8. 3 * d + k \in 3 * y .. 3 * y + 2
    BY <2>6, <2>7 DEF InFrame
  <2>9. y = d
    BY <2>8 DEF Offset
  <2> QED
    BY <1>6, <2>1, <2>7, <2>9
<1> QED
  BY <1>2, <1>5, <1>6, <1>7
\* A page stays where it is when its process runs a line or reads another page.
LEMMA StaysResident ==
  ASSUME NEW m, NEW n, NEW P, NEW Q, NEW p, NEW j \in Nat, Resident(m, P, p, j),
         Q.script = P.script, Q.page_table[j].index = P.page_table[j].index,
         Q.page_table[j].valid = P.page_table[j].valid, P.pos \in Nat, Q.pos \in Nat,
         P.pos <= Q.pos, Q.pos = P.pos \/ 3 * j + 3 <= P.pos,
         \A k \in Offset : n[P.page_table[j].index[0] + k] = m[P.page_table[j].index[0] + k]
  PROVE  Resident(n, Q, p, j)
<1>1. \A k \in Offset : 3 * j + k + 1 <= P.pos <=> 3 * j + k + 1 <= Q.pos
  BY DEF Offset
<1>2. \A k \in Offset : Stored(Q, j, k) = Stored(P, j, k)
  BY <1>1 DEF Stored
<1>3. IsLoaded(Q.page_table[j]) /\ Aligned(Q.page_table[j].index[0]) /\ 3 * j < Q.pos
  <2>1. 3 * j < P.pos /\ IsLoaded(P.page_table[j]) /\ Aligned(P.page_table[j].index[0])
    BY DEF Resident
  <2> QED
    BY <2>1 DEF IsLoaded
<1>4. \A k \in Offset : Q.page_table[j].valid[k] <=> 3 * j + k + 1 <= Q.pos
  <2>1. \A k \in Offset : P.page_table[j].valid[k] <=> 3 * j + k + 1 <= P.pos
    BY DEF Resident
  <2> QED
    BY <1>1, <2>1
<1>5. ASSUME NEW k \in Offset
      PROVE  n[Q.page_table[j].index[0] + k] = [var |-> p, value |-> Stored(Q, j, k)]
  <2>1. m[P.page_table[j].index[0] + k] = [var |-> p, value |-> Stored(P, j, k)]
    BY DEF Resident
  <2> QED
    BY <1>2, <2>1
<1> QED
  BY <1>3, <1>4, <1>5 DEF Resident

\* An evicted page stays done, and an unread one unread.
LEMMA StaysAbsent ==
  ASSUME NEW P, NEW Q, NEW j \in Nat, Absent(P, j),
         Q.script = P.script, Q.page_table[j].index = P.page_table[j].index,
         Q.page_table[j].valid = P.page_table[j].valid, P.pos \in Nat, Q.pos \in Nat,
         P.pos <= Q.pos, 3 * j < P.pos \/ 3 * j >= Q.pos,
         Taken(P) \in Nat, Taken(Q) \in Nat, Total(P) \in Nat,
         Taken(P) <= Taken(Q), Taken(Q) <= Total(P)
  PROVE  Absent(Q, j)
<1>1. Total(Q) = Total(P)
  BY DEF Total
<1>2. Done(P, j) => Done(Q, j)
  BY <1>1 DEF Done
<1>3. Invalid(Q.page_table[j])
  BY DEF Absent, Invalid
<1> QED
  BY <1>2, <1>3 DEF Absent

\* Running a line that was read changes nothing.
LEMMA LayoutRun ==
  ASSUME RegularScripts, NEW m, NEW t, NEW n, NEW u, NEW W, ProcsOK(t), ProcsOK(u),
         Layout(m, t, W), NEW p \in DOMAIN t, NEW i \in DOMAIN t[p].page_table,
         Changed(t, u, p, i), u[p].pos = t[p].pos, u[p].size = t[p].size - 1,
         u[p].page_table[i].index = t[p].page_table[i].index,
         u[p].page_table[i].valid = t[p].page_table[i].valid,
         Taken(t[p]) < t[p].pos, \A a \in FramePos : n[a] = m[a]
  PROVE  Layout(n, u, W)
<1>1. /\ DOMAIN u = DOMAIN t /\ u[p].script = t[p].script
      /\ \A q \in DOMAIN t : q # p => u[q] = t[q]
      /\ DOMAIN u[p].page_table = DOMAIN t[p].page_table
      /\ \A j \in DOMAIN t[p].page_table : j # i => u[p].page_table[j] = t[p].page_table[j]
  BY DEF Changed
<1>2. ASSUME NEW q \in DOMAIN t
      PROVE  /\ t[q] \in PCB /\ ProcOK(t[q]) /\ u[q] \in PCB /\ ProcOK(u[q])
             /\ u[q].script = t[q].script /\ u[q].pos = t[q].pos
             /\ DOMAIN u[q].page_table = DOMAIN t[q].page_table
             /\ \A j \in DOMAIN t[q].page_table :
                  /\ u[q].page_table[j].index = t[q].page_table[j].index
                  /\ u[q].page_table[j].valid = t[q].page_table[j].valid
  <2>1. t[q] \in PCB /\ ProcOK(t[q]) /\ u[q] \in PCB /\ ProcOK(u[q])
    BY <1>1 DEF ProcsOK, PCBs
  <2>2. CASE q # p
    BY <1>1, <2>1, <2>2
  <2>3. CASE q = p
    BY <1>1, <2>1, <2>3
  <2> QED
    BY <2>2, <2>3
<1>3. ASSUME NEW q \in DOMAIN t
      PROVE  /\ Taken(t[q]) \in Nat /\ Taken(u[q]) \in Nat /\ Taken(t[q]) <= Taken(u[q])
             /\ Taken(u[q]) <= Total(t[q]) /\ Total(t[q]) \in Nat /\ t[q].pos \in Nat
             /\ Taken(u[q]) <= t[q].pos
  <2>1. /\ Taken(t[q]) \in Nat /\ Total(t[q]) \in Nat /\ t[q].pos \in Nat
        /\ t[q].size \in Nat /\ t[q].size = Total(t[q]) - Taken(t[q])
    BY <1>2, Numbers
  <2>2. /\ Taken(u[q]) \in Nat /\ Taken(u[q]) <= Total(u[q]) /\ Total(u[q]) = Total(t[q])
        /\ u[q].size = Total(u[q]) - Taken(u[q])
    BY <1>2, Numbers DEF Total
  <2>3. CASE q # p
    <3>1. Taken(t[q]) <= t[q].pos
      BY DEF Layout
    <3> QED
      BY <1>1, <2>1, <2>2, <2>3, <3>1
  <2>4. CASE q = p
    BY <2>1, <2>2, <2>4
  <2> QED
    BY <2>3, <2>4
<1>4. ASSUME NEW q \in DOMAIN t, NEW j \in DOMAIN t[q].page_table, <<q, j>> \in W
      PROVE  Resident(n, u[q], q, j)
  <2>1. Resident(m, t[q], q, j)
    BY <1>4 DEF Layout
  <2>2. j \in Nat
    BY <1>2, PageOf
  <2>3. \A k \in Offset : t[q].page_table[j].index[0] + k \in FramePos
    BY <2>1 DEF Resident, IsLoaded, Offset, FramePos
  <2>4. \A k \in Offset : n[t[q].page_table[j].index[0] + k] = m[t[q].page_table[j].index[0] + k]
    BY <2>3
  <2> QED
    BY <1>2, <1>3, <2>1, <2>2, <2>4, StaysResident
<1>5. ASSUME NEW q \in DOMAIN t, NEW j \in DOMAIN t[q].page_table, <<q, j>> \notin W
      PROVE  Absent(u[q], j)
  <2>1. Absent(t[q], j)
    BY <1>5 DEF Layout
  <2>2. j \in Nat
    BY <1>2, PageOf
  <2>3. t[q].pos <= t[q].pos /\ (3 * j < t[q].pos \/ 3 * j >= t[q].pos)
    BY <1>3, <2>2
  <2> QED
    BY <1>2, <1>3, <2>1, <2>2, <2>3, StaysAbsent
<1>6. \A e \in W : Page(u, e).index = Page(t, e).index
  <2> SUFFICES ASSUME NEW e \in W
               PROVE  Page(u, e).index = Page(t, e).index
    OBVIOUS
  <2>1. e[1] \in DOMAIN t /\ e[2] \in DOMAIN t[e[1]].page_table
    BY InPlace
  <2> QED
    BY <1>2, <2>1 DEF Page
<1>7. \A a \in FramePos : n[a] = Free \/ \E e \in W : InFrame(a, u, e)
  BY <1>6 DEF Layout, InFrame
<1>8. PageRefs(u) = PageRefs(t)
  BY ShapeKept, ShapePages
<1>9. W \subseteq PageRefs(u)
  BY <1>8 DEF Layout
<1>10. \A q \in DOMAIN u : Taken(u[q]) <= u[q].pos
  BY <1>1, <1>2, <1>3
<1>11. \A q \in DOMAIN u : \A j \in DOMAIN u[q].page_table :
         /\ <<q, j>> \in W => Resident(n, u[q], q, j)
         /\ <<q, j>> \notin W => Absent(u[q], j)
  BY <1>1, <1>2, <1>4, <1>5
<1> QED
  BY <1>7, <1>9, <1>10, <1>11 DEF Layout
\* Evicting a page with no line to run leaves the others, and frees a frame.
LEMMA LayoutEvict ==
  ASSUME RegularScripts, NEW st, StOK(st), NEW m, m = st.mem, NEW t, t = st.pcb, NEW W,
         Layout(m, t, W), NEW p, NEW i, <<p, i>> \in W, Done(t[p], i),
         NEW r, r = PAGE_evict(st, p, i), NEW n, n = r.mem, NEW u, u = r.pcb
  PROVE  /\ Layout(n, u, W \ {<<p, i>>}) /\ ~NoFrame(n) /\ StOK(r)
         /\ Changed(t, u, p, i) /\ u[p].size = t[p].size /\ u[p].pos = t[p].pos
<1> DEFINE e == <<p, i>>
           a0 == t[p].page_table[i].index[0]
<1>0. MemOK(m) /\ ProcsOK(t)
  BY DEF StOK
<1>1. /\ e[1] = p /\ e[2] = i /\ p \in DOMAIN t /\ i \in DOMAIN t[p].page_table
      /\ Resident(m, t[p], p, i) /\ IsLoaded(t[p].page_table[i]) /\ Page(t, e) = t[p].page_table[i]
      /\ a0 \in Nat /\ a0 \in FramePos /\ a0 + 2 \in FramePos
  BY InPlace
<1>2. /\ StOK(r) /\ DOMAIN u = DOMAIN t /\ Changed(t, u, p, i)
      /\ u[p].size = t[p].size /\ u[p].pos = t[p].pos
      /\ u[p].page_table[i].index = Everywhere(0) /\ Invalid(u[p].page_table[i])
      /\ \A a \in Pos :
           n[a] = IF \E k \in Offset : a = t[p].page_table[i].index[k] THEN Free ELSE m[a]
  <2>1. p \in DOMAIN st.pcb /\ i \in DOMAIN st.pcb[p].page_table
    BY <1>1
  <2>2. /\ StOK(r) /\ DOMAIN r.pcb = DOMAIN st.pcb /\ Changed(st.pcb, r.pcb, p, i)
        /\ r.pcb[p].size = st.pcb[p].size /\ r.pcb[p].pos = st.pcb[p].pos
        /\ r.pcb[p].page_table[i].index = Everywhere(0) /\ Invalid(r.pcb[p].page_table[i])
        /\ \A a \in Pos :
             r.mem[a] = IF \E k \in Offset : a = st.pcb[p].page_table[i].index[k] THEN Free
                        ELSE st.mem[a]
    BY <2>1, Evicting, SMTT(30)
  <2> QED
    BY <2>2
<1>3. \A a \in Pos : /\ a \in a0 .. a0 + 2 => n[a] = Free
                     /\ a \notin a0 .. a0 + 2 => n[a] = m[a]
  <2>1. /\ t[p].page_table[i].index[0] = a0 /\ t[p].page_table[i].index[1] = a0 + 1
        /\ t[p].page_table[i].index[2] = a0 + 2
    BY <1>1 DEF IsLoaded
  <2> HIDE DEF a0
  <2>2. \A a \in Pos : a \in a0 .. a0 + 2 <=> \E k \in Offset : a = t[p].page_table[i].index[k]
    <3>1. PICK f : f = t[p].page_table[i].index
      OBVIOUS
    <3>2. f[0] = a0 /\ f[1] = a0 + 1 /\ f[2] = a0 + 2 /\ Offset = {0, 1, 2}
      BY <2>1, <3>1 DEF Offset
    <3>3. \A a \in Pos : a \in a0 .. a0 + 2 <=> (a = a0 \/ a = a0 + 1 \/ a = a0 + 2)
      BY <1>1 DEF Pos
    <3>4. \A a \in Pos : (\E k \in Offset : a = f[k]) <=> (a = a0 \/ a = a0 + 1 \/ a = a0 + 2)
      BY <3>2, Zenon
    <3> QED
      BY <3>1, <3>3, <3>4, Zenon
  <2> QED
    BY <1>2, <2>2
<1> HIDE DEF a0, e
<1>4. /\ u[p].script = t[p].script /\ \A q \in DOMAIN t : q # p => u[q] = t[q]
      /\ DOMAIN u[p].page_table = DOMAIN t[p].page_table
      /\ \A j \in DOMAIN t[p].page_table : j # i => u[p].page_table[j] = t[p].page_table[j]
      /\ ProcsOK(u)
  BY <1>2 DEF Changed, StOK
<1>5. ASSUME NEW q \in DOMAIN t
      PROVE  /\ t[q] \in PCB /\ ProcOK(t[q]) /\ u[q].script = t[q].script
             /\ u[q].pos = t[q].pos /\ u[q].size = t[q].size
             /\ DOMAIN u[q].page_table = DOMAIN t[q].page_table
             /\ \A j \in DOMAIN t[q].page_table : j \in Nat /\
                  (q # p \/ j # i => u[q].page_table[j] = t[q].page_table[j])
  <2>1. t[q] \in PCB /\ ProcOK(t[q])
    BY <1>0 DEF ProcsOK, PCBs
  <2>2. \A j \in DOMAIN t[q].page_table : j \in Nat
    BY <2>1, PageOf
  <2>3. CASE q # p
    BY <1>4, <2>1, <2>2, <2>3
  <2>4. CASE q = p
    BY <1>2, <1>4, <2>1, <2>2, <2>4
  <2> QED
    BY <2>3, <2>4
<1>6. ASSUME NEW q \in DOMAIN t
      PROVE  /\ Taken(u[q]) = Taken(t[q]) /\ Taken(t[q]) \in Nat /\ Taken(t[q]) <= Total(t[q])
             /\ Total(t[q]) \in Nat /\ t[q].pos \in Nat /\ Taken(t[q]) <= t[q].pos
  <2>1. /\ Taken(t[q]) \in Nat /\ Taken(t[q]) <= Total(t[q])
        /\ Total(t[q]) \in Nat /\ t[q].pos \in Nat
    BY <1>5, Numbers
  <2>2. Taken(t[q]) <= t[q].pos
    BY DEF Layout
  <2>3. Taken(u[q]) = Taken(t[q])
    BY <1>5 DEF Taken
  <2> QED
    BY <2>1, <2>2, <2>3
<1>7. ASSUME NEW q \in DOMAIN t, NEW j \in DOMAIN t[q].page_table, <<q, j>> \in W \ {e}
      PROVE  Resident(n, u[q], q, j)
  <2>1. PICK b : b = t[q].page_table[j].index[0]
    OBVIOUS
  <2>2. Resident(m, t[q], q, j)
    BY <1>7 DEF Layout
  <2>3. b \in Nat /\ b \in FramePos /\ b + 2 \in FramePos
    <3>1. IsLoaded(t[q].page_table[j])
      BY <2>2 DEF Resident
    <3>2. b \in FramePos /\ b + 2 \in FramePos
      BY <2>1, <3>1 DEF IsLoaded
    <3> QED
      BY <3>2 DEF FramePos
  <2>4. b + 3 <= a0 \/ a0 + 3 <= b
    <3>1. PICK f : f = <<q, j>>
      OBVIOUS
    <3>2. f \in W /\ f # e /\ e \in W /\ Page(t, f).index[0] = b
      BY <1>7, <2>1, <3>1 DEF Page, e
    <3> QED
      BY <1>0, <1>1, <3>2, Apart DEF a0
  <2>5. \A k \in Offset : n[b + k] = m[b + k]
    BY <1>1, <1>3, <2>3, <2>4 DEF Offset, Pos, FramePos
  <2>6. q # p \/ j # i
    BY <1>7 DEF e
  <2>7. u[q].page_table[j] = t[q].page_table[j] /\ j \in Nat
    BY <1>5, <2>6
  <2>8. PICK P, Q : P = t[q] /\ Q = u[q]
    OBVIOUS
  <2>9. /\ Q.script = P.script /\ Q.page_table[j] = P.page_table[j] /\ j \in Nat
        /\ P.pos \in Nat /\ Q.pos = P.pos /\ P.pos <= Q.pos /\ Resident(m, P, q, j)
        /\ P.page_table[j].index[0] = b
    BY <1>5, <1>6, <2>1, <2>2, <2>7, <2>8
  <2>10. \A k \in Offset : n[P.page_table[j].index[0] + k] = m[P.page_table[j].index[0] + k]
    BY <2>5, <2>9
  <2>11. Resident(n, Q, q, j)
    BY <2>9, <2>10, StaysResident
  <2> QED
    BY <2>8, <2>11
<1>8. ASSUME NEW q \in DOMAIN t, NEW j \in DOMAIN t[q].page_table, <<q, j>> \notin W \ {e}
      PROVE  Absent(u[q], j)
  <2>1. CASE <<q, j>> = e
    <3>1. q = p /\ j = i
      BY <2>1 DEF e
    <3>2. FRAME_STORE_SIZE >= 3
      BY <1>1 DEF FramePos
    <3>3. Done(u[p], i)
      BY <1>1, <1>5, <1>6 DEF Done, Total
    <3>4. 3 * i < u[p].pos /\ u[p].pos \in Nat /\ i \in Nat
      BY <1>1, <1>5, <1>6 DEF Resident
    <3> QED
      BY <1>2, <3>1, <3>2, <3>3, <3>4 DEF Absent
  <2>2. CASE <<q, j>> # e
    <3>1. Absent(t[q], j) /\ (q # p \/ j # i)
      BY <1>8, <2>2 DEF Layout, e
    <3>2. u[q].page_table[j] = t[q].page_table[j] /\ j \in Nat
      BY <1>5, <3>1
    <3>3. t[q].pos <= t[q].pos /\ (3 * j < t[q].pos \/ 3 * j >= t[q].pos)
      BY <1>6, <3>2
    <3>4. Taken(u[q]) \in Nat /\ Taken(t[q]) <= Taken(u[q]) /\ Taken(u[q]) <= Total(t[q])
      BY <1>6
    <3> QED
      BY <1>5, <1>6, <3>1, <3>2, <3>3, <3>4, StaysAbsent
  <2> QED
    BY <2>1, <2>2
<1>9. ASSUME NEW a \in FramePos
      PROVE  n[a] = Free \/ \E f \in W \ {e} : InFrame(a, u, f)
  <2>1. a \in Pos
    BY DEF FramePos, Pos
  <2>2. CASE a \in a0 .. a0 + 2
    BY <1>3, <2>1, <2>2
  <2>3. CASE a \notin a0 .. a0 + 2 /\ m[a] # Free
    <3>1. PICK f \in W : InFrame(a, t, f)
      BY <2>3 DEF Layout
    <3>2. f # e
      BY <1>1, <2>3, <3>1 DEF InFrame, a0
    <3>3. f = <<f[1], f[2]>> /\ f[1] \in DOMAIN t /\ f[2] \in DOMAIN t[f[1]].page_table
      BY InPlace
    <3>4. f[1] # p \/ f[2] # i
      BY <3>2, <3>3 DEF e
    <3>5. Page(u, f) = Page(t, f)
      BY <1>5, <3>3, <3>4 DEF Page
    <3> QED
      BY <3>1, <3>2, <3>5 DEF InFrame
  <2> QED
    BY <1>3, <2>1, <2>2, <2>3
<1>10. ~NoFrame(n)
  <2>1. \A k \in Offset : a0 + k \in FramePos /\ n[a0 + k] = Free
    BY <1>1, <1>3 DEF Offset, Pos, FramePos
  <2>2. Fits(n, a0)
    BY <2>1 DEF Fits, Free
  <2> QED
    BY <1>1, <2>2 DEF NoFrame
<1>11. PageRefs(u) = PageRefs(t)
  BY <1>1, <1>2, ShapeKept, ShapePages
<1>12. W \ {e} \subseteq PageRefs(u)
  BY <1>11 DEF Layout
<1>13. \A q \in DOMAIN u : Taken(u[q]) <= u[q].pos
  BY <1>2, <1>5, <1>6
<1>14. \A q \in DOMAIN u : \A j \in DOMAIN u[q].page_table :
         /\ <<q, j>> \in W \ {e} => Resident(n, u[q], q, j)
         /\ <<q, j>> \notin W \ {e} => Absent(u[q], j)
  <2> SUFFICES ASSUME NEW q \in DOMAIN u, NEW j \in DOMAIN u[q].page_table
               PROVE  /\ <<q, j>> \in W \ {e} => Resident(n, u[q], q, j)
                      /\ <<q, j>> \notin W \ {e} => Absent(u[q], j)
    OBVIOUS
  <2>1. q \in DOMAIN t /\ j \in DOMAIN t[q].page_table
    BY <1>2, <1>5
  <2> QED
    BY <1>7, <1>8, <2>1, Zenon
<1>15. Layout(n, u, W \ {e})
  BY <1>9, <1>12, <1>13, <1>14 DEF Layout
<1> QED
  BY <1>2, <1>10, <1>15 DEF e
\* Reading the next page into a free frame adds it.
LEMMA LayoutLoad ==
  ASSUME RegularScripts, NEW st, StOK(st), NEW m, m = st.mem, NEW t, t = st.pcb, NEW W,
         Layout(m, t, W), DOMAIN t \subseteq Nat, NEW p \in DOMAIN t,
         NEW i \in DOMAIN t[p].page_table, t[p].pos = 3 * i,
         NEW b \in FramePos, frame_alloc(m, b),
         NEW r, r = load_PAGE(st, p, i, b), NEW n, n = r.mem, NEW u, u = r.pcb
  PROVE  /\ Layout(n, u, W \cup {<<p, i>>}) /\ <<p, i>> \notin W /\ StOK(r)
         /\ Changed(t, u, p, i) /\ u[p].size = t[p].size
         /\ u[p].pos = Least(3 * i + 3, Total(t[p]))
<1> DEFINE e == <<p, i>>
           V == W \cup {e}
<1>0. MemOK(m) /\ ProcsOK(t) /\ p \in Nat /\ Fits(m, b)
  BY DEF StOK, frame_alloc
<1>1. /\ StOK(r) /\ DOMAIN u = DOMAIN t /\ Changed(t, u, p, i)
      /\ Read(t[p]) \in 0 .. 3
      /\ u[p].size = t[p].size /\ u[p].pos = t[p].pos + Read(t[p])
      /\ u[p].page_table[i].index = [k \in Offset |-> b + k]
      /\ u[p].page_table[i].valid = [k \in Offset |-> k < Read(t[p])]
      /\ IsLoaded(u[p].page_table[i])
      /\ \A a \in Pos : a \notin b .. b + 2 => n[a] = m[a]
      /\ Copied(m, n, t[p], p, b)
  BY <1>0, Loading
<1>2. /\ Aligned(b) /\ b + 2 \in FramePos /\ \A k \in Offset : m[b + k] = Free
      /\ \A f \in W : Page(t, f).index[0] + 3 <= b \/ b + 3 <= Page(t, f).index[0]
  BY <1>0, FreePlace
<1>3. /\ u[p].script = t[p].script /\ \A q \in DOMAIN t : q # p => u[q] = t[q]
      /\ DOMAIN u[p].page_table = DOMAIN t[p].page_table
      /\ \A j \in DOMAIN t[p].page_table : j # i => u[p].page_table[j] = t[p].page_table[j]
      /\ ProcsOK(u)
  BY <1>1 DEF Changed, StOK
<1>4. ASSUME NEW q \in DOMAIN t
      PROVE  /\ t[q] \in PCB /\ ProcOK(t[q]) /\ u[q].script = t[q].script
             /\ u[q].size = t[q].size
             /\ DOMAIN u[q].page_table = DOMAIN t[q].page_table
             /\ \A j \in DOMAIN t[q].page_table : j \in Nat /\
                  (q # p \/ j # i => u[q].page_table[j] = t[q].page_table[j])
  <2>1. t[q] \in PCB /\ ProcOK(t[q])
    BY <1>0 DEF ProcsOK, PCBs
  <2>2. \A j \in DOMAIN t[q].page_table : j \in Nat
    BY <2>1, PageOf
  <2>3. CASE q # p
    BY <1>3, <2>1, <2>2, <2>3
  <2>4. CASE q = p
    BY <1>1, <1>3, <2>1, <2>2, <2>4
  <2> QED
    BY <2>3, <2>4
<1>5. i \in Nat /\ Total(t[p]) \in Nat /\ 3 * i < Total(t[p]) /\ b \in Nat /\ t[p].pos \in Nat
  BY <1>4, Numbers DEF FramePos
<1>6. /\ u[p].pos = Least(3 * i + 3, Total(t[p])) /\ u[p].pos \in Nat
      /\ 3 * i < u[p].pos /\ u[p].pos <= 3 * i + 3
      /\ \A k \in Offset : k < Read(t[p]) <=> 3 * i + k + 1 <= u[p].pos
  <2>1. PICK T \in Nat, R \in 0 .. 3, x \in {u[p].pos} : T = Total(t[p]) /\ R = Read(t[p]) /\ x = u[p].pos
    BY <1>1, <1>5
  <2>2. R = IF T - 3 * i < 3 THEN T - 3 * i ELSE 3
    BY <2>1 DEF Read, Total
  <2>3. x = 3 * i + R
    BY <1>1, <2>1
  <2>4. /\ x = Least(3 * i + 3, T) /\ x \in Nat /\ 3 * i < x /\ x <= 3 * i + 3
        /\ \A k \in Offset : k < R <=> 3 * i + k + 1 <= x
    BY <1>5, <2>1, <2>2, <2>3 DEF Least, Offset
  <2> QED
    BY <2>1, <2>4
<1>7. ASSUME NEW q \in DOMAIN t
      PROVE  /\ Taken(u[q]) = Taken(t[q]) /\ Taken(t[q]) \in Nat /\ Taken(t[q]) <= Total(t[q])
             /\ Total(t[q]) \in Nat /\ t[q].pos \in Nat /\ u[q].pos \in Nat
             /\ t[q].pos <= u[q].pos /\ Taken(t[q]) <= t[q].pos
             /\ q # p => u[q].pos = t[q].pos
  <2>1. /\ Taken(t[q]) \in Nat /\ Taken(t[q]) <= Total(t[q])
        /\ Total(t[q]) \in Nat /\ t[q].pos \in Nat
    BY <1>4, Numbers
  <2>2. Taken(t[q]) <= t[q].pos
    BY DEF Layout
  <2>3. Taken(u[q]) = Taken(t[q])
    BY <1>4 DEF Taken
  <2>4. CASE q = p
    BY <1>5, <1>6, <2>1, <2>2, <2>3, <2>4
  <2>5. CASE q # p
    <3>1. u[q].pos = t[q].pos
      BY <1>3, <2>5
    <3> QED
      BY <2>1, <2>2, <2>3, <2>5, <3>1
  <2> QED
    BY <2>4, <2>5
<1>8. e \notin W
  <2> SUFFICES ASSUME e \in W
               PROVE  FALSE
    OBVIOUS
  <2>1. 3 * e[2] < t[e[1]].pos
    BY Holds
  <2>2. 3 * i < t[p].pos
    BY <2>1
  <2> QED
    BY <1>5, <2>2
<1>9. Resident(n, u[p], p, i)
  <2>1. u[p].page_table[i].index[0] = b
    BY <1>1, <1>5 DEF Offset
  <2>2. \A k \in Offset : u[p].page_table[i].valid[k] <=> 3 * i + k + 1 <= u[p].pos
    <3>1. \A k \in Offset : u[p].page_table[i].valid[k] <=> k < Read(t[p])
      BY <1>1, Zenon
    <3> QED
      BY <1>6, <3>1
  <2>3. ASSUME NEW k \in Offset
        PROVE  n[b + k] = [var |-> p, value |-> Stored(u[p], i, k)]
    <3>1. n[b + k] = [var |-> p, value |-> IF k < Read(t[p]) THEN <<t[p].script, t[p].pos + 1 + k>>
                                           ELSE m[b + k].value]
      BY <1>1 DEF Copied
    <3>2. m[b + k].value = None
      BY <1>2 DEF Free
    <3>3. t[p].pos + 1 + k = 3 * i + k + 1
      BY <1>5 DEF Offset
    <3>4. (IF k < Read(t[p]) THEN <<t[p].script, t[p].pos + 1 + k>> ELSE m[b + k].value)
            = Stored(u[p], i, k)
      BY <1>3, <1>6, <3>2, <3>3 DEF Stored
    <3> QED
      BY <3>1, <3>4
  <2> QED
    BY <1>1, <1>2, <1>6, <2>1, <2>2, <2>3 DEF Resident
<1> HIDE DEF e, V
<1>10. ASSUME NEW q \in DOMAIN t, NEW j \in DOMAIN t[q].page_table, <<q, j>> \in V
       PROVE  Resident(n, u[q], q, j)
  <2>1. CASE <<q, j>> = e
    BY <1>9, <2>1 DEF e
  <2>2. CASE <<q, j>> \in W
    <3>1. PICK a : a = t[q].page_table[j].index[0]
      OBVIOUS
    <3>2. Resident(m, t[q], q, j)
      BY <2>2 DEF Layout
    <3>3. IsLoaded(t[q].page_table[j]) /\ 3 * j < t[q].pos
      BY <3>2 DEF Resident
    <3>4. a \in FramePos /\ a + 2 \in FramePos
      BY <3>1, <3>3 DEF IsLoaded
    <3>5. a + 3 <= b \/ b + 3 <= a
      BY <1>2, <2>2, <3>1 DEF Page
    <3>6. \A k \in Offset : n[a + k] = m[a + k]
      BY <1>1, <1>5, <3>4, <3>5 DEF Offset, Pos, FramePos
    <3>7. q # p \/ j # i
      BY <1>8, <2>2 DEF e
    <3>8. u[q].page_table[j] = t[q].page_table[j] /\ j \in Nat
      BY <1>4, <3>7
    <3>9. u[q].pos = t[q].pos \/ 3 * j + 3 <= t[q].pos
      BY <1>5, <1>7, <3>3, <3>7, <3>8
    <3>10. PICK P, Q : P = t[q] /\ Q = u[q]
      OBVIOUS
    <3>11. /\ Q.script = P.script /\ Q.page_table[j] = P.page_table[j] /\ j \in Nat
           /\ P.pos \in Nat /\ Q.pos \in Nat /\ P.pos <= Q.pos /\ Resident(m, P, q, j)
           /\ P.page_table[j].index[0] = a /\ (Q.pos = P.pos \/ 3 * j + 3 <= P.pos)
      BY <1>4, <1>7, <3>1, <3>2, <3>8, <3>9, <3>10
    <3>12. \A k \in Offset : n[P.page_table[j].index[0] + k] = m[P.page_table[j].index[0] + k]
      BY <3>6, <3>11
    <3>13. Resident(n, Q, q, j)
      BY <3>11, <3>12, StaysResident
    <3> QED
      BY <3>10, <3>13
  <2> QED
    BY <1>10, <2>1, <2>2 DEF V
<1>11. ASSUME NEW q \in DOMAIN t, NEW j \in DOMAIN t[q].page_table, <<q, j>> \notin V
       PROVE  Absent(u[q], j)
  <2>1. <<q, j>> \notin W /\ (q # p \/ j # i)
    BY <1>11 DEF V, e
  <2>2. Absent(t[q], j)
    BY <2>1 DEF Layout
  <2>3. u[q].page_table[j] = t[q].page_table[j] /\ j \in Nat
    BY <1>4, <2>1
  <2>4. 3 * j < t[q].pos \/ 3 * j >= u[q].pos
    <3>1. CASE q # p
      BY <1>7, <2>3, <3>1
    <3>2. CASE q = p
      <4>1. PICK x \in Nat, y \in Nat : x = t[q].pos /\ y = u[q].pos
        BY <1>7
      <4>2. x = 3 * i /\ y <= 3 * i + 3 /\ j # i
        BY <1>6, <2>1, <3>2, <4>1
      <4>3. 3 * j < x \/ 3 * j >= y
        BY <1>5, <2>3, <4>1, <4>2
      <4> QED
        BY <4>1, <4>3
    <3> QED
      BY <3>1, <3>2
  <2>5. Taken(u[q]) \in Nat /\ Taken(t[q]) <= Taken(u[q]) /\ Taken(u[q]) <= Total(t[q])
    BY <1>7
  <2> QED
    BY <1>4, <1>7, <2>2, <2>3, <2>4, <2>5, StaysAbsent
<1>12. ASSUME NEW a \in FramePos
       PROVE  n[a] = Free \/ \E f \in V : InFrame(a, u, f)
  <2>1. a \in Pos
    BY DEF FramePos, Pos
  <2>2. CASE a \in b .. b + 2
    <3>1. e \in V /\ Page(u, e).index[0] = b
      BY <1>1, <1>5 DEF e, V, Page, Offset
    <3> QED
      BY <2>2, <3>1 DEF InFrame
  <2>3. CASE a \notin b .. b + 2 /\ m[a] # Free
    <3>1. PICK f \in W : InFrame(a, t, f)
      BY <2>3 DEF Layout
    <3>2. f = <<f[1], f[2]>> /\ f[1] \in DOMAIN t /\ f[2] \in DOMAIN t[f[1]].page_table
      BY InPlace
    <3>3. f[1] # p \/ f[2] # i
      BY <1>8, <3>2 DEF e
    <3>4. Page(u, f) = Page(t, f)
      BY <1>4, <3>2, <3>3 DEF Page
    <3> QED
      BY <3>1, <3>4 DEF InFrame, V
  <2> QED
    BY <1>1, <2>1, <2>2, <2>3
<1>13. PageRefs(u) = PageRefs(t)
  BY <1>1, ShapeKept, ShapePages
<1>14. V \subseteq PageRefs(u)
  BY <1>13, IsPageRef DEF Layout, V, e
<1>15. \A q \in DOMAIN u : Taken(u[q]) <= u[q].pos
  BY <1>1, <1>7
<1>16. \A q \in DOMAIN u : \A j \in DOMAIN u[q].page_table :
         /\ <<q, j>> \in V => Resident(n, u[q], q, j)
         /\ <<q, j>> \notin V => Absent(u[q], j)
  <2> SUFFICES ASSUME NEW q \in DOMAIN u, NEW j \in DOMAIN u[q].page_table
               PROVE  /\ <<q, j>> \in V => Resident(n, u[q], q, j)
                      /\ <<q, j>> \notin V => Absent(u[q], j)
    OBVIOUS
  <2>1. q \in DOMAIN t /\ j \in DOMAIN t[q].page_table
    BY <1>1, <1>4
  <2> QED
    BY <1>10, <1>11, <2>1, Zenon
<1>17. Layout(n, u, V)
  BY <1>12, <1>14, <1>15, <1>16 DEF Layout
<1> QED
  BY <1>1, <1>6, <1>8, <1>17 DEF V, e
\* A process that has read nothing has no page in memory.
LEMMA LayoutAdd ==
  ASSUME NEW m, NEW t, NEW u, NEW W, Layout(m, t, W), NEW p, p \notin DOMAIN t,
         NEW s \in DOMAIN Program, Adds(t, u, p, s)
  PROVE  Layout(m, u, W)
<1>1. /\ DOMAIN u = DOMAIN t \cup {p} /\ IsNew(u[p], s)
      /\ \A q \in DOMAIN t : u[q] = t[q] /\ q # p
  BY DEF Adds
<1>2. /\ u[p] \in PCB /\ u[p].pos = 0 /\ Taken(u[p]) = 0
      /\ \A i \in DOMAIN u[p].page_table :
           Invalid(u[p].page_table[i]) /\ u[p].page_table[i].index = Everywhere(Unmapped)
  BY <1>1, CountLines DEF IsNew, Taken
<1>3. ASSUME NEW i \in DOMAIN u[p].page_table
      PROVE  Absent(u[p], i) /\ <<p, i>> \notin W
  <2>1. i \in Nat
    BY <1>2, PageOf
  <2>2. Absent(u[p], i)
    BY <1>2, <2>1 DEF Absent
  <2>3. ASSUME <<p, i>> \in W
        PROVE  FALSE
    <3>1. <<p, i>>[1] \in DOMAIN t
      BY <2>3, InPlace
    <3> QED
      BY <3>1
  <2> QED
    BY <2>2, <2>3
<1>4. W \subseteq PageRefs(u)
  <2> SUFFICES ASSUME NEW e \in W
               PROVE  e \in PageRefs(u)
    OBVIOUS
  <2>1. e = <<e[1], e[2]>> /\ e[1] \in DOMAIN t /\ e[2] \in DOMAIN t[e[1]].page_table
    BY InPlace
  <2>2. e[1] \in DOMAIN u /\ e[2] \in DOMAIN u[e[1]].page_table
    BY <1>1, <2>1
  <2> QED
    BY <2>1, <2>2, IsPageRef
<1>5. ASSUME NEW q \in DOMAIN u, NEW j \in DOMAIN u[q].page_table
      PROVE  /\ <<q, j>> \in W => Resident(m, u[q], q, j)
             /\ <<q, j>> \notin W => Absent(u[q], j)
  <2>1. CASE q = p
    BY <1>3, <2>1
  <2>2. CASE q \in DOMAIN t
    <3>1. u[q] = t[q] /\ j \in DOMAIN t[q].page_table
      BY <1>1, <2>2
    <3> QED
      BY <2>2, <3>1 DEF Layout
  <2> QED
    BY <1>1, <2>1, <2>2
<1>6. \A q \in DOMAIN u : Taken(u[q]) <= u[q].pos
  <2>1. \A q \in DOMAIN t : Taken(t[q]) <= t[q].pos
    BY DEF Layout
  <2> QED
    BY <1>1, <1>2, <2>1
<1>7. ASSUME NEW a \in FramePos
      PROVE  m[a] = Free \/ \E e \in W : InFrame(a, u, e)
  <2>1. CASE m[a] # Free
    <3>1. PICK e \in W : InFrame(a, t, e)
      BY <2>1 DEF Layout
    <3>2. e[1] \in DOMAIN t
      BY InPlace
    <3>3. Page(u, e) = Page(t, e)
      BY <1>1, <3>2 DEF Page
    <3> QED
      BY <3>1, <3>3 DEF InFrame
  <2> QED
    BY <2>1
<1> QED
  BY <1>4, <1>5, <1>6, <1>7 DEF Layout

-----------------------------------------------------------------------------
(* The LRU list.                                                            *)

\* The list after remove_elem and add_head.
LEMMA FrontMoved ==
  ASSUME NEW S, LRU_CACHE \in Seq(S), NEW k \in 1 .. Len(LRU_CACHE),
         NEW r, r = MoveToFront(k)
  PROVE  /\ Len(r) = Len(LRU_CACHE) /\ r[1] = LRU_CACHE[k]
         /\ \A j \in 2 .. Len(r) : r[j] = IF j <= k THEN LRU_CACHE[j - 1] ELSE LRU_CACHE[j]
<1> DEFINE A == SubSeq(LRU_CACHE, 1, k - 1)
           B == SubSeq(LRU_CACHE, k + 1, Len(LRU_CACHE))
           x == LRU_CACHE[k]
<1>1. LRU_CACHE \in Seq(S) /\ Len(LRU_CACHE) \in Nat /\ k \in Nat /\ x \in S
  OBVIOUS
<1>2. /\ A \in Seq(S) /\ Len(A) = k - 1
      /\ \A j \in 1 .. k - 1 : A[j] = LRU_CACHE[j]
  BY <1>1, SubSeqProperties
<1>3. /\ B \in Seq(S) /\ Len(B) = Len(LRU_CACHE) - k
      /\ \A j \in 1 .. Len(LRU_CACHE) - k : B[j] = LRU_CACHE[k + j]
  BY <1>1, SubSeqProperties
<1>4. r = <<x>> \o (A \o B)
  BY DEF MoveToFront, add_head, remove_elem
<1> HIDE DEF A, B, x
<1>5. /\ A \o B \in Seq(S) /\ Len(A \o B) = Len(LRU_CACHE) - 1
      /\ \A j \in 1 .. k - 1 : (A \o B)[j] = LRU_CACHE[j]
      /\ \A j \in k .. Len(LRU_CACHE) - 1 : (A \o B)[j] = LRU_CACHE[j + 1]
  <2>1. /\ A \o B \in Seq(S) /\ Len(A \o B) = Len(A) + Len(B)
        /\ \A j \in 1 .. Len(A) + Len(B) :
             (A \o B)[j] = IF j <= Len(A) THEN A[j] ELSE B[j - Len(A)]
    BY <1>2, <1>3, ConcatProperties
  <2>2. Len(A \o B) = Len(LRU_CACHE) - 1
    BY <1>1, <1>2, <1>3, <2>1
  <2>3. ASSUME NEW j \in 1 .. k - 1
        PROVE  (A \o B)[j] = LRU_CACHE[j]
    <3>1. j \in 1 .. Len(A) + Len(B) /\ j <= Len(A)
      BY <1>1, <1>2, <1>3
    <3> QED
      BY <1>2, <2>1, <3>1
  <2>4. ASSUME NEW j \in k .. Len(LRU_CACHE) - 1
        PROVE  (A \o B)[j] = LRU_CACHE[j + 1]
    <3>1. /\ j \in 1 .. Len(A) + Len(B) /\ ~(j <= Len(A)) /\ j - Len(A) \in 1 .. Len(LRU_CACHE) - k
          /\ k + (j - Len(A)) = j + 1
      BY <1>1, <1>2, <1>3
    <3> QED
      BY <1>3, <2>1, <3>1
  <2> QED
    BY <2>1, <2>2, <2>3, <2>4
<1>6. /\ Len(r) = Len(LRU_CACHE) /\ r[1] = x
      /\ \A j \in 2 .. Len(LRU_CACHE) : r[j] = (A \o B)[j - 1]
  BY <1>1, <1>4, <1>5
<1>7. ASSUME NEW j \in 2 .. Len(LRU_CACHE)
      PROVE  r[j] = IF j <= k THEN LRU_CACHE[j - 1] ELSE LRU_CACHE[j]
  <2>1. r[j] = (A \o B)[j - 1]
    BY <1>6
  <2>2. CASE j <= k
    <3>1. j - 1 \in 1 .. k - 1
      BY <1>1, <2>2
    <3> QED
      BY <1>5, <2>1, <2>2, <3>1
  <2>3. CASE ~(j <= k)
    <3>1. j - 1 \in k .. Len(LRU_CACHE) - 1 /\ (j - 1) + 1 = j
      BY <1>1, <2>3
    <3> QED
      BY <1>5, <2>1, <2>3, <3>1
  <2> QED
    BY <2>2, <2>3
<1> QED
  BY <1>6, <1>7 DEF x
\* A page that is used, and that no other is more recent than, may go to the front.
LEMMA Hoisted ==
  ASSUME NEW S, LRU_CACHE \in Seq(S), NEW k \in 1 .. Len(LRU_CACHE), NEW r, r = MoveToFront(k),
         NEW t, NEW u, Distinct(LRU_CACHE), Descending(t, LRU_CACHE),
         \A f \in Members(LRU_CACHE) : f # LRU_CACHE[k] => StampOf(u, f) = StampOf(t, f),
         \A f \in Members(LRU_CACHE) : StampOf(u, LRU_CACHE[k]) >= StampOf(u, f)
  PROVE  /\ Distinct(r) /\ Descending(u, r) /\ Members(r) = Members(LRU_CACHE)
         /\ Len(r) = Len(LRU_CACHE)
<1> DEFINE q == LRU_CACHE
           At(j) == IF j = 1 THEN k ELSE IF j <= k THEN j - 1 ELSE j
<1>0. Len(q) \in Nat /\ k \in Nat
  OBVIOUS
<1>1. /\ Len(r) = Len(q) /\ r[1] = q[k]
      /\ \A j \in 2 .. Len(r) : r[j] = IF j <= k THEN q[j - 1] ELSE q[j]
  BY FrontMoved
<1>2. ASSUME NEW j \in 1 .. Len(q)
      PROVE  At(j) \in 1 .. Len(q) /\ r[j] = q[At(j)]
  <2>1. CASE j = 1
    BY <1>0, <1>1, <2>1
  <2>2. CASE j # 1
    <3>1. j \in 2 .. Len(r)
      BY <1>0, <1>1, <2>2
    <3>2. r[j] = IF j <= k THEN q[j - 1] ELSE q[j]
      BY <1>1, <3>1
    <3> QED
      BY <1>0, <2>2, <3>2
  <2> QED
    BY <2>1, <2>2
<1>3. \A j, l \in 1 .. Len(q) : /\ At(j) = At(l) => j = l
                                /\ j < l /\ j # 1 => At(j) < At(l) /\ At(j) # k /\ At(l) # k
  BY <1>0
<1>4. \A j \in 1 .. Len(q) : \E l \in 1 .. Len(q) : At(l) = j
  <2> SUFFICES ASSUME NEW j \in 1 .. Len(q)
               PROVE  \E l \in 1 .. Len(q) : At(l) = j
    OBVIOUS
  <2>1. CASE j = k
    <3>1. 1 \in 1 .. Len(q) /\ At(1) = j
      BY <1>0, <2>1
    <3> QED
      BY <3>1
  <2>2. CASE j < k
    <3>1. j + 1 \in 1 .. Len(q) /\ At(j + 1) = j
      BY <1>0, <2>2
    <3> QED
      BY <3>1
  <2>3. CASE j > k
    <3>1. At(j) = j
      BY <1>0, <2>3
    <3> QED
      BY <3>1
  <2> QED
    BY <1>0, <2>1, <2>2, <2>3
<1> HIDE DEF At
<1>5. Distinct(r)
  <2> SUFFICES ASSUME NEW j \in 1 .. Len(r), NEW l \in 1 .. Len(r), r[j] = r[l]
               PROVE  j = l
    BY DEF Distinct
  <2>1. q[At(j)] = q[At(l)] /\ At(j) \in 1 .. Len(q) /\ At(l) \in 1 .. Len(q)
    BY <1>1, <1>2
  <2>2. At(j) = At(l)
    BY <2>1 DEF Distinct
  <2> QED
    BY <1>1, <1>3, <2>2
<1>6. Members(r) = Members(q)
  <2>1. ASSUME NEW j \in 1 .. Len(r)
        PROVE  r[j] \in Members(q)
    BY <1>1, <1>2 DEF Members
  <2>2. ASSUME NEW j \in 1 .. Len(q)
        PROVE  q[j] \in Members(r)
    <3>1. PICK l \in 1 .. Len(q) : At(l) = j
      BY <1>4
    <3>2. l \in 1 .. Len(r) /\ r[l] = q[j]
      BY <1>1, <1>2, <3>1
    <3> QED
      BY <3>2 DEF Members
  <2> QED
    BY <2>1, <2>2 DEF Members
<1>7. Descending(u, r)
  <2> SUFFICES ASSUME NEW j \in 1 .. Len(r), NEW l \in 1 .. Len(r), j < l
               PROVE  StampOf(u, r[j]) >= StampOf(u, r[l])
    BY DEF Descending
  <2>1. /\ r[j] = q[At(j)] /\ r[l] = q[At(l)] /\ At(j) \in 1 .. Len(q) /\ At(l) \in 1 .. Len(q)
        /\ r[l] \in Members(q) /\ r[j] \in Members(q)
    BY <1>1, <1>2 DEF Members
  <2>2. CASE j = 1
    BY <1>1, <2>1, <2>2
  <2>3. CASE j # 1
    <3>1. At(j) < At(l) /\ At(j) # k /\ At(l) # k
      BY <1>1, <1>3, <2>3
    <3>2. q[At(j)] # q[k] /\ q[At(l)] # q[k]
      BY <2>1, <3>1 DEF Distinct
    <3>3. StampOf(t, q[At(j)]) >= StampOf(t, q[At(l)])
      BY <2>1, <3>1 DEF Descending
    <3>4. StampOf(u, r[j]) = StampOf(t, r[j]) /\ StampOf(u, r[l]) = StampOf(t, r[l])
      BY <2>1, <3>2
    <3> QED
      BY <2>1, <3>3, <3>4
  <2> QED
    BY <2>2, <2>3
<1> QED
  BY <1>1, <1>5, <1>6, <1>7

\* A page that was read goes to the front.
LEMMA Pushed ==
  ASSUME NEW S, NEW q \in Seq(S), NEW x \in S, NEW r, r = add_head(x, q), NEW t, NEW u,
         Distinct(q), Descending(t, q), x \notin Members(q),
         \A f \in Members(q) : StampOf(u, f) = StampOf(t, f),
         \A f \in Members(q) : StampOf(u, x) >= StampOf(u, f)
  PROVE  /\ Distinct(r) /\ Descending(u, r) /\ Members(r) = Members(q) \cup {x}
         /\ Len(r) = Len(q) + 1
<1>1. /\ Len(r) = Len(q) + 1 /\ Len(q) \in Nat /\ r[1] = x
      /\ \A k \in 1 .. Len(q) : r[k + 1] = q[k]
  BY DEF add_head
<1>2. ASSUME NEW j \in 1 .. Len(r), j # 1
      PROVE  j - 1 \in 1 .. Len(q) /\ r[j] = q[j - 1] /\ r[j] \in Members(q) /\ r[j] # x
  <2>1. j - 1 \in 1 .. Len(q) /\ (j - 1) + 1 = j
    BY <1>1, <1>2
  <2>2. r[j] = q[j - 1]
    BY <1>1, <2>1
  <2> QED
    BY <2>1, <2>2 DEF Members
<1>3. Distinct(r)
  <2> SUFFICES ASSUME NEW j \in 1 .. Len(r), NEW l \in 1 .. Len(r), r[j] = r[l]
               PROVE  j = l
    BY DEF Distinct
  <2>1. CASE j = 1 \/ l = 1
    BY <1>1, <1>2, <2>1
  <2>2. CASE j # 1 /\ l # 1
    <3>1. q[j - 1] = q[l - 1] /\ j - 1 \in 1 .. Len(q) /\ l - 1 \in 1 .. Len(q)
      BY <1>2, <2>2
    <3>2. j - 1 = l - 1
      BY <3>1 DEF Distinct
    <3> QED
      BY <1>1, <3>2
  <2> QED
    BY <2>1, <2>2
<1>4. Members(r) = Members(q) \cup {x}
  <2>1. ASSUME NEW j \in 1 .. Len(r)
        PROVE  r[j] \in Members(q) \cup {x}
    BY <1>1, <1>2
  <2>2. ASSUME NEW j \in 1 .. Len(q)
        PROVE  q[j] \in Members(r)
    <3>1. j + 1 \in 1 .. Len(r) /\ r[j + 1] = q[j]
      BY <1>1
    <3> QED
      BY <3>1 DEF Members
  <2>3. x \in Members(r)
    <3>1. 1 \in 1 .. Len(r)
      BY <1>1
    <3> QED
      BY <1>1, <3>1 DEF Members
  <2> QED
    BY <2>1, <2>2, <2>3, SMTT(20) DEF Members
<1>5. Descending(u, r)
  <2> SUFFICES ASSUME NEW j \in 1 .. Len(r), NEW l \in 1 .. Len(r), j < l
               PROVE  StampOf(u, r[j]) >= StampOf(u, r[l])
    BY DEF Descending
  <2>1. l # 1 /\ r[l] \in Members(q) /\ r[l] = q[l - 1] /\ l - 1 \in 1 .. Len(q)
    BY <1>1, <1>2
  <2>2. CASE j = 1
    BY <1>1, <2>1, <2>2
  <2>3. CASE j # 1
    <3>1. r[j] \in Members(q) /\ r[j] = q[j - 1] /\ j - 1 \in 1 .. Len(q) /\ j - 1 < l - 1
      BY <1>1, <1>2, <2>3
    <3>2. StampOf(t, q[j - 1]) >= StampOf(t, q[l - 1])
      BY <2>1, <3>1 DEF Descending
    <3> QED
      BY <2>1, <3>1, <3>2
  <2> QED
    BY <2>2, <2>3
<1> QED
  BY <1>1, <1>3, <1>4, <1>5

\* The last page leaves the list.
LEMMA Popped ==
  ASSUME NEW S, NEW q \in Seq(S), q # <<>>, NEW r, r = pop_tail(q), NEW t,
         Distinct(q), Descending(t, q)
  PROVE  /\ r \in Seq(S) /\ Distinct(r) /\ Descending(t, r) /\ Len(r) = Len(q) - 1
         /\ Members(r) = Members(q) \ {q[Len(q)]} /\ q[Len(q)] \in Members(q)
         /\ \A f \in Members(q) : f # q[Len(q)] => StampOf(t, f) >= StampOf(t, q[Len(q)])
<1>1. /\ r \in Seq(S) /\ Len(r) = Len(q) - 1 /\ Len(q) \in Nat \ {0}
      /\ \A k \in 1 .. Len(r) : r[k] = q[k]
  BY TailPopped
<1>2. \A k \in 1 .. Len(q) : k \in 1 .. Len(r) \/ k = Len(q)
  BY <1>1
<1>3. \A k \in 1 .. Len(r) : k \in 1 .. Len(q) /\ k # Len(q) /\ k < Len(q)
  BY <1>1
<1>4. Len(q) \in 1 .. Len(q)
  BY <1>1
<1>5. Distinct(r) /\ Descending(t, r)
  <2>1. ASSUME NEW k \in 1 .. Len(r), NEW l \in 1 .. Len(r)
        PROVE  /\ r[k] = r[l] => k = l
               /\ k < l => StampOf(t, r[k]) >= StampOf(t, r[l])
    <3>1. /\ k \in 1 .. Len(q) /\ l \in 1 .. Len(q) /\ r[k] = q[k] /\ r[l] = q[l]
      BY <1>1, <1>3
    <3> QED
      BY <3>1 DEF Distinct, Descending
  <2> QED
    BY <2>1 DEF Distinct, Descending
<1>6. Members(r) = Members(q) \ {q[Len(q)]}
  <2>1. ASSUME NEW k \in 1 .. Len(r)
        PROVE  r[k] \in Members(q) \ {q[Len(q)]}
    <3>1. q[k] # q[Len(q)]
      BY <1>3, <1>4 DEF Distinct
    <3> QED
      BY <1>1, <1>3, <3>1 DEF Members
  <2>2. ASSUME NEW k \in 1 .. Len(q), q[k] # q[Len(q)]
        PROVE  q[k] \in Members(r)
    BY <1>1, <1>2, <2>2 DEF Members
  <2> QED
    BY <2>1, <2>2 DEF Members
<1>7. ASSUME NEW k \in 1 .. Len(q), q[k] # q[Len(q)]
      PROVE  StampOf(t, q[k]) >= StampOf(t, q[Len(q)])
  <2>1. k < Len(q)
    BY <1>1, <1>7
  <2> QED
    BY <1>4, <2>1 DEF Descending
<1> QED
  BY <1>1, <1>4, <1>5, <1>6, <1>7 DEF Members
-----------------------------------------------------------------------------
(* Rounds: the arithmetic.                                                  *)

LEMMA PhaseNext ==
  ASSUME NEW E, NEW J, Phase(E, J)
  PROVE  /\ E \in Nat /\ J \in Nat /\ Phase(NextE(E, J), NextJ(E, J))
         /\ Cap(E, J) \in Nat /\ Cap(NextE(E, J), NextJ(E, J)) \in Nat
         /\ Cap(E, J) <= Cap(NextE(E, J), NextJ(E, J))
<1>1. E \in Nat /\ J \in Nat
  BY DEF Phase
<1>2. CASE J = 2 /\ E \in {0, 2, 4, 6}
  BY <1>2 DEF Phase, NextE, NextJ, Cap
<1>3. CASE J >= 3 /\ E = 3 * J - 3
  <2>1. NextE(E, J) = 3 * J - 1 /\ NextJ(E, J) = J
    BY <1>1, <1>3 DEF NextE, NextJ
  <2> QED
    BY <1>1, <1>3, <2>1 DEF Phase, Cap
<1>4. CASE J >= 3 /\ E = 3 * J - 1
  <2>1. NextE(E, J) = 3 * J /\ NextJ(E, J) = J + 1
    BY <1>1, <1>4 DEF NextE, NextJ
  <2> QED
    BY <1>1, <1>4, <2>1 DEF Phase, Cap
<1> QED
  BY <1>2, <1>3, <1>4 DEF Phase

\* A process that differs from another in its pages only.
SameNumbers(P, Q) == Q.script = P.script /\ Q.size = P.size /\ Q.pos = P.pos

LEMMA Alike ==
  ASSUME NEW P, NEW Q, SameNumbers(P, Q)
  PROVE  /\ Taken(Q) = Taken(P) /\ Total(Q) = Total(P)
         /\ \A E, J : AtTurn(Q, E, J) <=> AtTurn(P, E, J)
         /\ \A j : Stamp(Q, j) = Stamp(P, j)
<1>1. Taken(Q) = Taken(P) /\ Total(Q) = Total(P) /\ Q.pos = P.pos
  BY DEF SameNumbers, Taken, Total
<1> QED
  BY <1>1 DEF AtTurn, Stamp

\* The round of a page changes when its lines are run, and no other page's does.
LEMMA StampOther ==
  ASSUME NEW P, NEW Q, NEW i \in Nat, NEW j \in Nat, j # i, Taken(P) \in Nat,
         Taken(Q) = Taken(P) + 1, 3 * i <= Taken(P), Taken(P) < 3 * i + 3
  PROVE  Stamp(Q, j) = Stamp(P, j)
<1>1. /\ Taken(Q) >= 3 * j + 3 <=> Taken(P) >= 3 * j + 3
      /\ Taken(Q) > 3 * j <=> Taken(P) > 3 * j
  OBVIOUS
<1> QED
  BY <1>1 DEF Stamp

LEMMA StampUsed ==
  ASSUME NEW E, NEW J, Phase(E, J), NEW Q, NEW u \in {E, E + 1}, u < 3 * J,
         NEW i \in Nat, 3 * i <= u, u < 3 * i + 3, Taken(Q) = u + 1
  PROVE  Stamp(Q, i) = Cap(E, J)
<1>1. E \in Nat /\ J \in Nat /\ u \in Nat
  BY DEF Phase
<1>2. CASE J = 2
  <2>1. i <= 1 /\ E <= 5
    BY <1>1, <1>2
  <2>2. E \in {0, 2, 4}
    BY <1>2, <2>1 DEF Phase
  <2> QED
    BY <1>2, <2>1, <2>2 DEF Stamp, Cap
<1>3. CASE J >= 3 /\ E = 3 * J - 3
  <2>1. i = J - 1
    BY <1>1, <1>3
  <2> QED
    BY <1>1, <1>3, <2>1 DEF Stamp, Cap
<1>4. CASE J >= 3 /\ E = 3 * J - 1
  <2>1. i = J - 1 /\ u = 3 * J - 1
    BY <1>1, <1>4
  <2> QED
    BY <1>1, <1>4, <2>1 DEF Stamp, Cap
<1> QED
  BY <1>2, <1>3, <1>4 DEF Phase

\* A process with a line read to run.  T is Total, u Taken.
LEMMA TurnRuns ==
  ASSUME NEW E, NEW J, Phase(E, J), NEW T \in Nat, NEW u \in Nat,
         u < T, u < Least(3 * J, T), u = E + 1
  PROVE  u + 1 = Least(NextE(E, J), T) /\ Least(3 * J, T) = Least(3 * NextJ(E, J), T)
<1>1. E \in Nat /\ J \in Nat
  BY DEF Phase
<1>2. u < 3 * J
  BY <1>1 DEF Least
<1>3. E # 3 * J /\ E # 3 * J - 1 /\ E < 3 * J - 1
  BY <1>1, <1>2
<1>4. NextE(E, J) = E + 2 /\ NextJ(E, J) = J
  BY <1>1, <1>3 DEF NextE, NextJ
<1> QED
  BY <1>1, <1>4 DEF Least

\* A process with no line left of those that were read.
LEMMA TurnFaults ==
  ASSUME NEW E, NEW J, Phase(E, J), NEW T \in Nat, NEW u \in Nat,
         u < T, u = Least(3 * J, T), u \in {E, E + 1}
  PROVE  /\ u = 3 * J /\ J >= 2 /\ Cap(E, J) = 2 * J
         /\ NextE(E, J) = u /\ NextJ(E, J) = J + 1
         /\ (E = 3 * J /\ J = 2) \/ (E = 3 * J - 1 /\ J >= 3)
<1>1. E \in Nat /\ J \in Nat
  BY DEF Phase
<1>2. u = 3 * J
  BY <1>1 DEF Least
<1>3. (E = 3 * J /\ J = 2) \/ (E = 3 * J - 1 /\ J >= 3)
  BY <1>1, <1>2 DEF Phase
<1> QED
  BY <1>1, <1>2, <1>3 DEF NextE, NextJ, Cap
-----------------------------------------------------------------------------
(* A turn.                                                                  *)

\* The process whose turn it is and its current page.
LEMMA OnTurn ==
  ASSUME RegularScripts, Base, Paging, curr # 0, NEW P, P = pcb[curr], NEW i, i = CurrentPage(P)
  PROVE  /\ curr \in DOMAIN pcb /\ curr \in Nat /\ P \in PCB /\ ProcOK(P) /\ P.size >= 1
         /\ mode = "exec" /\ todo = <<>> /\ step \in {"first", "second", "only"}
         /\ i \in DOMAIN P.page_table /\ i \in Nat
         /\ 3 * i <= Taken(P) /\ Taken(P) < 3 * i + 3 /\ P.page_table[i].pc = Taken(P) - 3 * i
         /\ Taken(P) \in Nat /\ Total(P) \in Nat /\ P.pos \in Nat
         /\ Taken(P) <= P.pos /\ Taken(P) < Total(P) /\ P.pos <= Total(P)
         /\ DOMAIN pcb \subseteq Nat
<1>1. /\ curr \in DOMAIN pcb /\ DOMAIN pcb \subseteq Nat /\ P.size >= 1
      /\ mode = "exec" /\ todo = <<>> /\ step \in {"first", "second", "only"}
  BY DEF Base, QueueOK
<1>2. P \in PCB /\ ProcOK(P)
  BY <1>1 DEF Base, ProcsOK, PCBs
<1>3. /\ i \in DOMAIN P.page_table /\ i \in Nat
      /\ 3 * i <= Taken(P) /\ Taken(P) < 3 * i + 3 /\ P.page_table[i].pc = Taken(P) - 3 * i
  BY <1>1, <1>2, Current
<1>4. /\ Taken(P) \in Nat /\ Total(P) \in Nat /\ P.pos \in Nat /\ P.size \in Nat
      /\ P.size = Total(P) - Taken(P) /\ P.pos <= Total(P)
  BY <1>2, Numbers
<1>5. Taken(P) <= P.pos
  BY <1>1 DEF Paging, Layout
<1> QED
  BY <1>1, <1>2, <1>3, <1>4, <1>5

\* A line that was read is in memory, and it is the next one of the script.
LEMMA NextLine ==
  ASSUME RegularScripts, Base, Paging, curr # 0, NEW P, P = pcb[curr], NEW i, i = CurrentPage(P),
         Taken(P) < P.pos
  PROVE  /\ <<curr, i>> \in Owned /\ Runs(curr, i)
         /\ LineAt(curr, i) = <<P.script, Taken(P) + 1>> /\ Command(LineAt(curr, i)).ret # 1
<1>1. /\ curr \in DOMAIN pcb /\ P \in PCB
      /\ i \in DOMAIN P.page_table /\ i \in Nat
      /\ 3 * i <= Taken(P) /\ Taken(P) < 3 * i + 3 /\ P.page_table[i].pc = Taken(P) - 3 * i
      /\ Taken(P) \in Nat /\ Total(P) \in Nat /\ P.pos \in Nat
      /\ Taken(P) < Total(P) /\ P.pos <= Total(P)
  BY OnTurn
<1>2. Layout(shellmemory, pcb, Owned)
  BY DEF Paging
<1>3. <<curr, i>> \in Owned
  <2> SUFFICES ASSUME <<curr, i>> \notin Owned
               PROVE  FALSE
    OBVIOUS
  <2>1. Absent(P, i)
    BY <1>1, <1>2 DEF Layout
  <2>2. 3 * i < P.pos
    BY <1>1
  <2>3. Done(P, i)
    BY <2>1, <2>2 DEF Absent
  <2> QED
    BY <1>1, <2>3 DEF Done
<1>4. Resident(shellmemory, P, curr, i)
  BY <1>1, <1>2, <1>3 DEF Layout
<1>5. PICK k : k = Taken(P) - 3 * i
  OBVIOUS
<1>6. k \in Offset /\ 3 * i + k + 1 = Taken(P) + 1 /\ 3 * i + k + 1 <= P.pos
  BY <1>1, <1>5 DEF Offset
<1>7. P.page_table[i].valid[k] <=> 3 * i + k + 1 <= P.pos
  BY <1>4, <1>6 DEF Resident
<1>8. Runs(curr, i)
  <2>1. P.page_table[i].valid[P.page_table[i].pc]
    BY <1>1, <1>5, <1>6, <1>7
  <2> QED
    BY <2>1 DEF Runs
<1>9. P.page_table[i].index[k] = P.page_table[i].index[0] + k
  <2>1. IsLoaded(P.page_table[i])
    BY <1>4 DEF Resident
  <2>2. P.page_table[i].index[0] \in Nat
    BY <2>1 DEF IsLoaded, FramePos
  <2> QED
    BY <1>6, <2>1, <2>2 DEF IsLoaded, Offset
<1>10. shellmemory[P.page_table[i].index[0] + k] = [var |-> curr, value |-> Stored(P, i, k)]
  BY <1>4, <1>6 DEF Resident
<1>11. LineAt(curr, i) = Stored(P, i, k)
  <2>1. shellmemory[P.page_table[i].index[k]].value = Stored(P, i, k)
    BY <1>9, <1>10
  <2> QED
    BY <1>1, <1>5, <2>1 DEF LineAt
<1>12. LineAt(curr, i) = <<P.script, Taken(P) + 1>>
  BY <1>6, <1>11 DEF Stored
<1>13. Command(LineAt(curr, i)).ret # 1
  <2>1. P.script \in DOMAIN Program /\ Taken(P) + 1 \in 1 .. Len(Program[P.script])
    BY <1>1 DEF PCB, Total
  <2>2. None # <<P.script, Taken(P) + 1>>
    BY <2>1, NameAssumption
  <2>3. Command(LineAt(curr, i)) = Program[P.script][Taken(P) + 1]
    BY <1>12, <2>2 DEF Command
  <2> QED
    BY <2>1, <2>3 DEF RegularScripts
<1> QED
  BY <1>3, <1>8, <1>12, <1>13

\* When no line is left the current page was never read.
LEMMA NothingRead ==
  ASSUME RegularScripts, Base, Paging, curr # 0, NEW P, P = pcb[curr], NEW i, i = CurrentPage(P),
         Taken(P) = P.pos, Aligned(P.pos)
  PROVE  P.pos = 3 * i /\ ~Runs(curr, i)
<1>1. /\ curr \in DOMAIN pcb /\ P \in PCB
      /\ i \in DOMAIN P.page_table /\ i \in Nat
      /\ 3 * i <= Taken(P) /\ Taken(P) < 3 * i + 3 /\ P.page_table[i].pc = Taken(P) - 3 * i
      /\ P.pos \in Nat
  BY OnTurn
<1>2. PICK x \in Nat : P.pos = 3 * x
  BY DEF Aligned
<1>3. P.pos = 3 * i /\ P.page_table[i].pc = 0
  BY <1>1, <1>2
<1>4. ~Resident(shellmemory, P, curr, i)
  BY <1>1, <1>3 DEF Resident
<1>5. Absent(P, i)
  BY <1>1, <1>4 DEF Paging, Layout
<1>6. ~P.page_table[i].valid[0]
  <2>1. P.page_table[i].valid = [k \in Offset |-> FALSE] /\ 0 \in Offset
    BY <1>5 DEF Absent, Invalid, Offset
  <2> QED
    BY <2>1, Zenon
<1> QED
  BY <1>3, <1>6 DEF Runs
\* PAGE_equal finds the page itself.
LEMMA OwnPlace ==
  ASSUME ProcsOK(pcb), Layout(shellmemory, pcb, Owned), NEW e \in Owned, LRU_CACHE \in Seq(PageRefs(pcb)),
         NEW u, \A f \in Owned : Page(u, f).index = Page(pcb, f).index,
         NEW k, k = First(SamePage(u, e[1], e[2])), SamePage(u, e[1], e[2]) # {}
  PROVE  k \in 1 .. Len(LRU_CACHE) /\ LRU_CACHE[k] = e
<1>1. SamePage(u, e[1], e[2]) =
        {j \in 1 .. Len(LRU_CACHE) : Page(u, LRU_CACHE[j]).index[0] = Page(u, e).index[0]}
  BY DEF SamePage, Page
<1>2. SamePage(u, e[1], e[2]) \subseteq Nat
  BY <1>1
<1>3. k \in SamePage(u, e[1], e[2])
  BY <1>2, FirstIn
<1>4. k \in 1 .. Len(LRU_CACHE) /\ Page(u, LRU_CACHE[k]).index[0] = Page(u, e).index[0]
  BY <1>1, <1>3
<1>5. PICK f \in Owned : f = LRU_CACHE[k]
  BY <1>4 DEF Owned, Members
<1>6. Page(pcb, f).index[0] = Page(pcb, e).index[0]
  BY <1>4, <1>5
<1>7. Page(pcb, e).index[0] \in Nat
  BY InPlace
<1>8. f = e
  BY <1>6, <1>7, Apart
<1> QED
  BY <1>4, <1>5, <1>8

\* A step of the kernel that runs a line.
LEMMA LineRuns ==
  ASSUME RegularScripts, Base, Paging, run_proc, NEW P, P = pcb[curr], NEW i, i = CurrentPage(P),
         Taken(P) < P.pos, NEW u, u = pcb'
  PROVE  /\ Layout(shellmemory', u, Owned) /\ ProcsOK(u) /\ Changed(pcb, u, curr, i)
         /\ u[curr].size = P.size - 1 /\ u[curr].pos = P.pos
         /\ executed' = [executed EXCEPT ![curr] = @ \o << <<P.script, Taken(P) + 1>> >>]
         /\ \E k \in 1 .. Len(LRU_CACHE) :
              LRU_CACHE[k] = <<curr, i>> /\ LRU_CACHE' = MoveToFront(k)
         /\ QUEUE' = IF step = "second" THEN add_tail(curr, QUEUE) ELSE QUEUE
         /\ curr' = IF step = "first" THEN curr ELSE 0
         /\ step' = IF step = "first" THEN "second" ELSE "none"
         /\ UNCHANGED <<todo, mode>> /\ curr # 0
<1>1. /\ curr # 0 /\ \E j, c, st, r : RunPath(j, c, st, r)
      /\ UNCHANGED <<PID_counter, todo, turns, mode>>
  BY RunProc
<1>2. PICK j, c, st, r : RunPath(j, c, st, r)
  BY <1>1
<1>3. /\ j = i /\ c = cpu_run(curr, i) /\ shellmemory' = r.mem /\ u = r.pcb
      /\ executed' = [executed EXCEPT ![curr] = @ \o c.ran]
      /\ \/ run_proc_ok(curr, i, c) /\ r = c
         \/ run_proc_fault(curr, i, c)
  BY <1>2 DEF RunPath
<1>4. /\ curr \in DOMAIN pcb /\ P \in PCB /\ P.size >= 1 /\ i \in DOMAIN P.page_table
  BY <1>1, OnTurn
<1>5. /\ <<curr, i>> \in Owned /\ Runs(curr, i)
      /\ LineAt(curr, i) = <<P.script, Taken(P) + 1>> /\ Command(LineAt(curr, i)).ret # 1
  BY <1>1, NextLine
<1>6. /\ c.pcb = RunUpdate(pcb, curr, i) /\ c.ran = <<LineAt(curr, i)>>
      /\ \A a \in FramePos : c.mem[a] = shellmemory[a]
      /\ Obeys(c, Command(LineAt(curr, i)))
  <2>1. MemOK(shellmemory) /\ ProcsOK(pcb) /\ env \in [Var -> Value \cup {None}]
    BY DEF Base, HistoryOK
  <2> QED
    BY <1>3, <1>4, <1>5, <2>1, CpuRuns
<1>7. c.ret # 1
  BY <1>5, <1>6 DEF Obeys
<1>8. run_proc_ok(curr, i, c) /\ r = c
  BY <1>3, <1>7 DEF run_proc_fault, requeue
<1>9. ProcsOK(pcb) /\ u = RunUpdate(pcb, curr, i) /\ Layout(shellmemory, pcb, Owned)
  BY <1>3, <1>6, <1>8 DEF Base, Paging
<1>10. /\ ProcsOK(u) /\ DOMAIN u = DOMAIN pcb /\ Changed(pcb, u, curr, i)
       /\ u[curr].size = P.size - 1 /\ u[curr].pos = P.pos
       /\ u[curr].page_table[i].index = P.page_table[i].index
       /\ u[curr].page_table[i].valid = P.page_table[i].valid
  BY <1>4, <1>9, RunProcs
<1>11. PICK n : n = shellmemory' /\ \A a \in FramePos : n[a] = shellmemory[a]
  BY <1>3, <1>6, <1>8
<1>12. Layout(n, u, Owned)
  BY <1>4, <1>9, <1>10, <1>11, LayoutRun
<1>13. \A f \in Owned : Page(u, f).index = Page(pcb, f).index
  <2> SUFFICES ASSUME NEW f \in Owned
               PROVE  Page(u, f).index = Page(pcb, f).index
    OBVIOUS
  <2>1. f = <<f[1], f[2]>> /\ f \in PageRefs(pcb)
    BY <1>9, InPlace
  <2>2. CASE f = <<curr, i>>
    BY <1>10, <2>2 DEF Page
  <2>3. CASE f # <<curr, i>>
    BY <1>4, <1>10, <2>1, <2>3, PageOther
  <2> QED
    BY <2>2, <2>3
<1>14. /\ SamePage(u, curr, i) # {}
       /\ LRU_CACHE' = MoveToFront(First(SamePage(u, curr, i)))
       /\ QUEUE' = IF step = "second" THEN add_tail(curr, QUEUE) ELSE QUEUE
       /\ curr' = IF step = "first" THEN curr ELSE 0
       /\ step' = IF step = "first" THEN "second" ELSE "none"
  BY <1>3, <1>8 DEF run_proc_ok
<1>15. PICK k : k = First(SamePage(u, curr, i))
  OBVIOUS
<1>16. k \in 1 .. Len(LRU_CACHE) /\ LRU_CACHE[k] = <<curr, i>>
  <2>1. PICK e \in Owned : e = <<curr, i>>
    BY <1>5
  <2>2. e[1] = curr /\ e[2] = i
    BY <2>1
  <2>3. LRU_CACHE \in Seq(PageRefs(pcb))
    BY DEF Base, HistoryOK
  <2> QED
    BY <1>9, <1>13, <1>14, <1>15, <2>1, <2>2, <2>3, OwnPlace
<1>17. executed' = [executed EXCEPT ![curr] = @ \o << <<P.script, Taken(P) + 1>> >>]
  BY <1>3, <1>5, <1>6
<1> QED
  BY <1>1, <1>10, <1>11, <1>12, <1>14, <1>15, <1>16, <1>17
\* The other processes do not notice a step of one.
LEMMA RoundOthers ==
  ASSUME Base, NEW E, NEW J, NEW K \in 0 .. Len(QUEUE), Round(E, J, K), NEW u,
         \A q \in DOMAIN pcb : q # curr => SameNumbers(pcb[q], u[q])
  PROVE  \A k \in 1 .. Len(QUEUE) :
           /\ k <= K => AtTurn(u[QUEUE[k]], E, J)
           /\ k > K => AtTurn(u[QUEUE[k]], NextE(E, J), NextJ(E, J))
<1> SUFFICES ASSUME NEW k \in 1 .. Len(QUEUE)
             PROVE  /\ k <= K => AtTurn(u[QUEUE[k]], E, J)
                    /\ k > K => AtTurn(u[QUEUE[k]], NextE(E, J), NextJ(E, J))
  OBVIOUS
<1>1. QUEUE[k] \in DOMAIN pcb /\ QUEUE[k] # curr
  BY DEF Base, QueueOK
<1>2. SameNumbers(pcb[QUEUE[k]], u[QUEUE[k]])
  BY <1>1
<1>3. \A F, I : AtTurn(u[QUEUE[k]], F, I) <=> AtTurn(pcb[QUEUE[k]], F, I)
  BY <1>2, Alike
<1> QED
  BY <1>3 DEF Round

\* The process goes to the tail of the ready queue.
LEMMA RoundRequeued ==
  ASSUME Base, NEW E, NEW J, NEW K \in 0 .. Len(QUEUE), Phase(E, J), Round(E, J, K),
         \A q \in DOMAIN pcb : q # curr => SameNumbers(pcb[q], pcb'[q]),
         AtTurn(pcb'[curr], NextE(E, J), NextJ(E, J)), curr \in DOMAIN pcb,
         QUEUE' = add_tail(curr, QUEUE), curr' = 0, todo' = <<>>,
         \A e \in Owned' : StampOf(pcb', e) <= Cap(E, J)
  PROVE  InStep'
<1>1. PICK u : u = pcb'
  OBVIOUS
<1>2. \A k \in 1 .. Len(QUEUE) :
           /\ k <= K => AtTurn(u[QUEUE[k]], E, J)
           /\ k > K => AtTurn(u[QUEUE[k]], NextE(E, J), NextJ(E, J))
  BY <1>1, RoundOthers
<1>3. /\ Len(QUEUE') = Len(QUEUE) + 1 /\ Len(QUEUE) \in Nat
      /\ QUEUE'[Len(QUEUE) + 1] = curr
      /\ \A k \in 1 .. Len(QUEUE) : QUEUE'[k] = QUEUE[k]
      /\ \A k \in 1 .. Len(QUEUE') : k = Len(QUEUE) + 1 \/ k \in 1 .. Len(QUEUE)
  <2>1. QUEUE \in Seq(DOMAIN pcb)
    BY DEF Base, QueueOK
  <2> QED
    BY <2>1 DEF add_tail
<1>4. ASSUME NEW k \in 1 .. Len(QUEUE')
      PROVE  /\ k <= K => AtTurn(u[QUEUE'[k]], E, J)
             /\ k > K => AtTurn(u[QUEUE'[k]], NextE(E, J), NextJ(E, J))
  <2>1. CASE k \in 1 .. Len(QUEUE)
    BY <1>2, <1>3, <2>1
  <2>2. CASE k = Len(QUEUE) + 1
    <3>1. ~(k <= K) /\ QUEUE'[k] = curr
      BY <1>3, <2>2
    <3> QED
      BY <1>1, <3>1
  <2> QED
    BY <1>3, <2>1, <2>2
<1>5. Round(E, J, K)'
  BY <1>1, <1>4 DEF Round
<1>6. K \in 0 .. Len(QUEUE') /\ E \in Nat /\ J \in Nat
  BY <1>3 DEF Phase
<1> QED
  BY <1>5, <1>6 DEF InStep

\* The process goes on, or it is at its end.
LEMMA RoundKept ==
  ASSUME Base, NEW E, NEW J, NEW K \in 0 .. Len(QUEUE), Phase(E, J), Round(E, J, K),
         \A q \in DOMAIN pcb : q # curr => SameNumbers(pcb[q], pcb'[q]), QUEUE' = QUEUE,
         \/ curr' = 0
         \/ /\ curr' = curr /\ step' = "second"
            /\ Taken(pcb'[curr]) = E + 1 /\ E + 1 < Total(pcb'[curr])
            /\ pcb'[curr].pos = Least(3 * J, Total(pcb'[curr])),
         todo' = <<>>, \A e \in Owned' : StampOf(pcb', e) <= Cap(E, J)
  PROVE  InStep'
<1>1. PICK u : u = pcb'
  OBVIOUS
<1>2. \A k \in 1 .. Len(QUEUE) :
           /\ k <= K => AtTurn(u[QUEUE[k]], E, J)
           /\ k > K => AtTurn(u[QUEUE[k]], NextE(E, J), NextJ(E, J))
  BY <1>1, RoundOthers
<1>3. Round(E, J, K)'
  BY <1>1, <1>2 DEF Round
<1>4. K \in 0 .. Len(QUEUE') /\ E \in Nat /\ J \in Nat
  BY DEF Phase
<1> QED
  BY <1>3, <1>4 DEF InStep

\* One more line was run.
LEMMA OneMore ==
  ASSUME NEW P, NEW Q, Q.script = P.script, Taken(P) \in Nat, Taken(Q) = Taken(P) + 1,
         NEW ex, InTurn(P, ex), NEW ey, ey = ex \o << <<P.script, Taken(P) + 1>> >>
  PROVE  InTurn(Q, ey)
<1>0. PICK n \in Nat : n = Taken(P)
  OBVIOUS
<1> DEFINE s == P.script
           S == {s} \X Nat
           f == [k \in 1 .. n |-> <<s, k>>]
           g == [k \in 1 .. n + 1 |-> <<s, k>>]
           x == << <<s, n + 1>> >>
<1>1. \A k \in Nat : <<s, k>> \in S
  OBVIOUS
<1>2. ey = f \o x
  BY <1>0 DEF InTurn
<1> HIDE DEF S
<1>3. f \in Seq(S) /\ Len(f) = n
  <2>1. f \in [1 .. n -> S]
    BY <1>1
  <2> QED
    BY <2>1
<1>4. x \in Seq(S) /\ Len(x) = 1 /\ x[1] = <<s, n + 1>>
  <2>1. <<s, n + 1>> \in S
    BY <1>1
  <2> QED
    BY <2>1
<1> HIDE DEF f, x
<1>5. /\ ey \in Seq(S) /\ Len(ey) = n + 1
      /\ \A k \in 1 .. n + 1 : ey[k] = IF k <= n THEN f[k] ELSE x[k - n]
  <2>0. f \in Seq(S) /\ x \in Seq(S)
    BY <1>3, <1>4
  <2>1. /\ f \o x \in Seq(S) /\ Len(f \o x) = Len(f) + Len(x)
        /\ \A k \in 1 .. Len(f) + Len(x) :
             (f \o x)[k] = IF k <= Len(f) THEN f[k] ELSE x[k - Len(f)]
    BY <2>0, ConcatProperties, Zenon
  <2> QED
    BY <1>2, <1>3, <1>4, <2>1
<1>6. ASSUME NEW k \in 1 .. n + 1
      PROVE  ey[k] = <<s, k>>
  <2>1. CASE k <= n
    <3>1. f[k] = <<s, k>>
      BY <2>1 DEF f
    <3> QED
      BY <1>5, <2>1, <3>1
  <2>2. CASE ~(k <= n)
    <3>1. k = n + 1 /\ k - n = 1
      BY <2>2
    <3> QED
      BY <1>4, <1>5, <2>2, <3>1
  <2> QED
    BY <2>1, <2>2
<1>7. ey = g
  <2>1. DOMAIN ey = 1 .. n + 1 /\ ey = [k \in 1 .. n + 1 |-> ey[k]]
    BY <1>5
  <2> QED
    BY <1>6, <2>1
<1> QED
  BY <1>0, <1>7 DEF InTurn
\* Where the process whose turn it is stands in the round.
LEMMA InRound ==
  ASSUME RegularScripts, Base, Paging, curr # 0, NEW P, P = pcb[curr],
         NEW E, NEW J, NEW K, Phase(E, J), Round(E, J, K)
  PROVE  /\ step = "second" => Taken(P) = E + 1
         /\ step # "second" => Taken(P) = E /\ (step = "only" <=> E + 1 = Total(P))
         /\ P.pos = Least(3 * J, Total(P))
<1>1. Taken(P) \in Nat /\ Total(P) \in Nat /\ E \in Nat
  BY OnTurn DEF Phase
<1>2. CASE step = "second"
  BY <1>2 DEF Round
<1>3. CASE step # "second"
  <2>1. AtTurn(P, E, J) /\ E < Total(P) /\ (step = "only" <=> E + 1 = Total(P))
    BY <1>3 DEF Round
  <2> QED
    BY <1>1, <1>3, <2>1 DEF AtTurn, Least
<1> QED
  BY <1>2, <1>3

\* Long processes stay long.
LEMMA LongKept ==
  ASSUME NEW t, NEW u, SameShape(t, u)
  PROVE  Long(u) = Long(t)
<1>1. \A p \in DOMAIN t : Total(u[p]) = Total(t[p])
  BY DEF SameShape, Total
<1> QED
  BY <1>1 DEF Long, SameShape

\* Running a line keeps the invariant.
LEMMA PagingRun ==
  ASSUME RegularScripts, Base, Paging, run_proc, Taken(pcb[curr]) < pcb[curr].pos
  PROVE  Paging'
<1>1. PICK P : P = pcb[curr]
  OBVIOUS
<1>2. PICK i : i = CurrentPage(P)
  OBVIOUS
<1>3. PICK u : u = pcb'
  OBVIOUS
<1>4. /\ Layout(shellmemory', u, Owned) /\ ProcsOK(u) /\ Changed(pcb, u, curr, i)
      /\ u[curr].size = P.size - 1 /\ u[curr].pos = P.pos
      /\ executed' = [executed EXCEPT ![curr] = @ \o << <<P.script, Taken(P) + 1>> >>]
      /\ \E k \in 1 .. Len(LRU_CACHE) :
           LRU_CACHE[k] = <<curr, i>> /\ LRU_CACHE' = MoveToFront(k)
      /\ QUEUE' = IF step = "second" THEN add_tail(curr, QUEUE) ELSE QUEUE
      /\ curr' = IF step = "first" THEN curr ELSE 0
      /\ step' = IF step = "first" THEN "second" ELSE "none"
      /\ UNCHANGED <<todo, mode>> /\ curr # 0
  BY <1>1, <1>2, <1>3, LineRuns
<1>5. /\ curr \in DOMAIN pcb /\ curr \in Nat /\ P \in PCB /\ ProcOK(P)
      /\ todo = <<>> /\ step \in {"first", "second", "only"}
      /\ i \in DOMAIN P.page_table /\ i \in Nat
      /\ 3 * i <= Taken(P) /\ Taken(P) < 3 * i + 3
      /\ Taken(P) \in Nat /\ Total(P) \in Nat /\ P.pos \in Nat
      /\ Taken(P) < P.pos /\ Taken(P) < Total(P)
  BY <1>1, <1>2, <1>4, OnTurn
<1>6. PICK E, J, K : /\ K \in 0 .. Len(QUEUE) /\ Phase(E, J) /\ Round(E, J, K)
  BY DEF Paging, InStep
<1>7. PICK Q : Q = u[curr]
  OBVIOUS
<1>8. /\ Q.script = P.script /\ Total(Q) = Total(P) /\ Taken(Q) = Taken(P) + 1
      /\ Q.pos = P.pos /\ DOMAIN u = DOMAIN pcb
  <2>1. Q.script = P.script /\ Total(Q) = Total(P) /\ DOMAIN u = DOMAIN pcb
    BY <1>1, <1>4, <1>7 DEF Changed, Total
  <2>2. P.size \in Nat /\ count_lines(P.script) \in Nat
    BY <1>5, CountLines DEF PCB
  <2> QED
    BY <1>4, <1>7, <2>1, <2>2 DEF Taken
<1>9. \A q \in DOMAIN pcb : q # curr => u[q] = pcb[q] /\ SameNumbers(pcb[q], u[q])
  BY <1>4 DEF Changed, SameNumbers
<1>10. /\ step = "second" => Taken(P) = E + 1
       /\ step # "second" => Taken(P) = E /\ (step = "only" <=> E + 1 = Total(P))
       /\ P.pos = Least(3 * J, Total(P)) /\ E \in Nat /\ J \in Nat
  BY <1>1, <1>4, <1>6, InRound DEF Phase
<1>11. Taken(P) \in {E, E + 1} /\ Taken(P) < 3 * J
  BY <1>5, <1>10 DEF Least
<1>12. Stamp(Q, i) = Cap(E, J) /\ Cap(E, J) \in Nat
  BY <1>5, <1>6, <1>8, <1>11, StampUsed, PhaseNext
<1>13. ASSUME NEW f \in Owned, f # <<curr, i>>
       PROVE  StampOf(u, f) = StampOf(pcb, f)
  <2>1. f = <<f[1], f[2]>> /\ f[1] \in DOMAIN pcb /\ f[2] \in DOMAIN pcb[f[1]].page_table
    BY InPlace DEF Paging
  <2>2. CASE f[1] # curr
    BY <1>9, <2>1, <2>2 DEF StampOf
  <2>3. CASE f[1] = curr
    <3>1. f[2] # i /\ f[2] \in Nat
      BY <1>1, <1>5, <1>13, <2>1, <2>3, PageOf
    <3>2. Stamp(Q, f[2]) = Stamp(P, f[2])
      BY <1>5, <1>8, <3>1, StampOther
    <3> QED
      BY <1>1, <1>7, <2>3, <3>2 DEF StampOf
  <2> QED
    BY <2>2, <2>3
<1>14. \A f \in Owned : StampOf(u, f) <= Cap(E, J)
  <2>1. \A f \in Owned : StampOf(pcb, f) <= Cap(E, J)
    BY <1>6 DEF Round
  <2>2. StampOf(u, <<curr, i>>) = Cap(E, J)
    BY <1>7, <1>12 DEF StampOf
  <2> QED
    BY <1>12, <1>13, <2>1, <2>2
<1>15. PICK k \in 1 .. Len(LRU_CACHE) :
         LRU_CACHE[k] = <<curr, i>> /\ LRU_CACHE' = MoveToFront(k)
  BY <1>4
<1>16. PICK r : r = LRU_CACHE'
  OBVIOUS
<1>17. /\ Distinct(r) /\ Descending(u, r) /\ Members(r) = Members(LRU_CACHE)
       /\ Len(r) = Len(LRU_CACHE)
  <2>1. LRU_CACHE \in Seq(PageRefs(pcb)) /\ Distinct(LRU_CACHE) /\ Descending(pcb, LRU_CACHE)
    BY DEF Base, HistoryOK, Paging, Sorted
  <2>2. \A f \in Members(LRU_CACHE) : f # LRU_CACHE[k] => StampOf(u, f) = StampOf(pcb, f)
    BY <1>13, <1>15 DEF Owned
  <2>3. StampOf(u, LRU_CACHE[k]) = Cap(E, J)
    BY <1>7, <1>12, <1>15 DEF StampOf
  <2>4. \A f \in Members(LRU_CACHE) : StampOf(u, LRU_CACHE[k]) >= StampOf(u, f)
    <3> SUFFICES ASSUME NEW f \in Members(LRU_CACHE)
                 PROVE  StampOf(u, LRU_CACHE[k]) >= StampOf(u, f)
      OBVIOUS
    <3>1. StampOf(u, f) <= Cap(E, J)
      BY <1>14 DEF Owned
    <3> QED
      BY <2>3, <3>1
  <2> QED
    BY <1>15, <1>16, <2>1, <2>2, <2>4, Hoisted
<1>18. Owned' = Owned
  BY <1>16, <1>17 DEF Owned
<1>19. Sorted'
  <2>1. Long(u) = Long(pcb)
    BY <1>4, <1>5, ShapeKept, LongKept
  <2> QED
    BY <1>3, <1>16, <1>17, <2>1 DEF Paging, Sorted
<1>20. Layout(shellmemory, pcb, Owned)'
  BY <1>3, <1>4, <1>18
<1>21. \A p \in DOMAIN pcb' : InTurn(pcb'[p], executed'[p])
  <2> SUFFICES ASSUME NEW p \in DOMAIN pcb
               PROVE  InTurn(u[p], executed'[p])
    BY <1>3, <1>8
  <2>1. InTurn(pcb[p], executed[p]) /\ DOMAIN executed = DOMAIN pcb
    BY DEF Paging, Base, HistoryOK
  <2>2. CASE p # curr
    BY <1>4, <1>9, <2>1, <2>2
  <2>3. CASE p = curr
    <3>1. executed'[curr] = executed[curr] \o << <<P.script, Taken(P) + 1>> >>
      BY <1>4, <1>5, <2>1
    <3>2. InTurn(P, executed[curr])
      BY <1>1, <2>1, <2>3
    <3> QED
      BY <1>5, <1>7, <1>8, <2>3, <3>1, <3>2, OneMore
  <2> QED
    BY <2>2, <2>3
<1>22. Waiting'
  <2> SUFFICES ASSUME NEW p \in DOMAIN pcb
               PROVE  \/ p = curr' \/ (\E j \in 1 .. Len(QUEUE') : QUEUE'[j] = p)
                      \/ Taken(u[p]) = Total(u[p])
    BY <1>3, <1>8 DEF Waiting
  <2>1. QUEUE \in Seq(DOMAIN pcb)
    BY DEF Base, QueueOK
  <2>2. \A j \in 1 .. Len(QUEUE) : j \in 1 .. Len(QUEUE') /\ QUEUE'[j] = QUEUE[j]
    BY <1>4, <2>1 DEF add_tail
  <2>3. CASE p # curr
    <3>1. (\E j \in 1 .. Len(QUEUE) : QUEUE[j] = p) \/ Taken(pcb[p]) = Total(pcb[p])
      BY <2>3 DEF Paging, Waiting
    <3> QED
      BY <1>9, <2>2, <2>3, <3>1
  <2>4. CASE p = curr /\ step = "first"
    BY <1>4, <2>4
  <2>5. CASE p = curr /\ step = "second"
    <3>1. Len(QUEUE) + 1 \in 1 .. Len(QUEUE') /\ QUEUE'[Len(QUEUE) + 1] = p
      BY <1>4, <1>5, <2>1, <2>5, SMTT(20) DEF add_tail
    <3> QED
      BY <3>1
  <2>6. CASE p = curr /\ step = "only"
    BY <1>5, <1>7, <1>8, <1>10, <2>6
  <2> QED
    BY <1>5, <2>3, <2>4, <2>5, <2>6
<1>23. InStep'
  <2>1. \A e \in Owned' : StampOf(pcb', e) <= Cap(E, J)
    BY <1>3, <1>14, <1>18
  <2>2. \A q \in DOMAIN pcb : q # curr => SameNumbers(pcb[q], pcb'[q])
    BY <1>3, <1>9
  <2>3. todo' = <<>>
    BY <1>4, <1>5
  <2>4. CASE step = "second"
    <3>1. /\ Taken(P) + 1 = Least(NextE(E, J), Total(P))
          /\ Least(3 * J, Total(P)) = Least(3 * NextJ(E, J), Total(P))
      BY <1>5, <1>6, <1>10, <2>4, TurnRuns, SMTT(20)
    <3>2. AtTurn(Q, NextE(E, J), NextJ(E, J))
      BY <1>8, <1>10, <3>1 DEF AtTurn
    <3>3. QUEUE' = add_tail(curr, QUEUE) /\ curr' = 0
      BY <1>4, <2>4
    <3> QED
      BY <1>3, <1>5, <1>6, <1>7, <2>1, <2>2, <2>3, <3>2, <3>3, RoundRequeued
  <2>5. CASE step = "first"
    <3>1. QUEUE' = QUEUE /\ curr' = curr /\ step' = "second"
      BY <1>4, <2>5
    <3>2. Taken(Q) = E + 1 /\ E + 1 < Total(Q) /\ Q.pos = Least(3 * J, Total(Q))
      BY <1>5, <1>8, <1>10, <2>5
    <3> QED
      BY <1>3, <1>6, <1>7, <2>1, <2>2, <2>3, <3>1, <3>2, RoundKept
  <2>6. CASE step = "only"
    <3>1. QUEUE' = QUEUE /\ curr' = 0
      BY <1>4, <2>6
    <3> QED
      BY <1>6, <2>1, <2>2, <2>3, <3>1, RoundKept
  <2> QED
    BY <1>5, <2>4, <2>5, <2>6
<1> QED
  BY <1>19, <1>20, <1>21, <1>22, <1>23 DEF Paging
-----------------------------------------------------------------------------
(* A page fault.                                                            *)

\* A list without repetition is no longer than a set that holds its elements.
LEMMA Pigeons ==
  ASSUME NEW S, NEW q \in Seq(S), Distinct(q), NEW X, IsFiniteSet(X), Members(q) \subseteq X
  PROVE  Len(q) <= Cardinality(X)
<1>1. Len(q) \in Nat /\ q = [k \in 1 .. Len(q) |-> q[k]] /\ Cardinality(X) \in Nat
  BY FS_CardinalityType
<1> SUFFICES ASSUME Cardinality(X) < Len(q)
             PROVE  FALSE
  BY <1>1
<1>2. \A k \in 1 .. Len(q) : q[k] \in X
  BY DEF Members
<1>3. q \in [1 .. Len(q) -> X]
  BY <1>1, <1>2
<1>4. IsFiniteSet(1 .. Len(q)) /\ Cardinality(1 .. Len(q)) = Len(q)
  <2>1. PICK n \in Nat : n = Len(q)
    BY <1>1
  <2>2. /\ IsFiniteSet(1 .. n)
        /\ Cardinality(1 .. n) = IF 1 > n THEN 0 ELSE n - 1 + 1
    BY FS_Interval
  <2> QED
    BY <2>1, <2>2
<1>5. \E k, l \in 1 .. Len(q) : k # l /\ q[k] = q[l]
  BY <1>3, <1>4, FS_PigeonHole
<1> QED
  BY <1>5 DEF Distinct

\* Two pages for each of some processes, one page excepted.
LEMMA AllButOne ==
  ASSUME NEW L, IsFiniteSet(L), NEW J \in Nat, NEW p \in L,
         NEW X, X = (L \X {J - 1, J}) \ {<<p, J>>}
  PROVE  /\ IsFiniteSet(X) /\ Cardinality(X) = 2 * Cardinality(L) - 1
         /\ Cardinality(L) \in Nat
<1>1. PICK Z : Z = {J - 1} /\ IsFiniteSet(Z) /\ Cardinality(Z) = 1
  BY FS_Singleton
<1>2. J \notin Z /\ {J - 1, J} = Z \cup {J}
  BY <1>1
<1>3. IsFiniteSet({J - 1, J}) /\ Cardinality({J - 1, J}) = 2
  <2>1. IsFiniteSet(Z \cup {J}) /\ Cardinality(Z \cup {J}) = Cardinality(Z) + 1
    BY <1>1, <1>2, FS_AddElement
  <2> QED
    BY <1>1, <1>2, <2>1
<1>4. PICK Y : Y = {J - 1, J}
  OBVIOUS
<1>5. IsFiniteSet(Y) /\ Cardinality(Y) = 2
  BY <1>3, <1>4
<1>6. IsFiniteSet(L \X Y) /\ Cardinality(L \X Y) = Cardinality(L) * Cardinality(Y)
  BY <1>5, FS_Product
<1>7. Cardinality(L) \in Nat
  BY FS_CardinalityType
<1>8. <<p, J>> \in L \X Y
  BY <1>4
<1>9. /\ IsFiniteSet((L \X Y) \ {<<p, J>>})
      /\ Cardinality((L \X Y) \ {<<p, J>>}) = Cardinality(L \X Y) - 1
  BY <1>6, <1>8, FS_RemoveElement
<1> QED
  BY <1>4, <1>5, <1>6, <1>7, <1>9

\* A page with lines to run was used in this round or the last one.  (The bounds
\* are those of a fault: 3 * J lines were read and run.)
LEMMA RecentlyUsed ==
  ASSUME RegularScripts, NEW P \in PCB, ProcOK(P), NEW j \in Nat, 3 * j < P.pos, ~Done(P, j),
         NEW E, NEW J \in Nat, J >= 2, NextE(E, J) = 3 * J, NextJ(E, J) = J + 1,
         (E = 3 * J /\ J = 2) \/ (E = 3 * J - 1 /\ J >= 3),
         \/ AtTurn(P, E, J)
         \/ AtTurn(P, NextE(E, J), NextJ(E, J))
         \/ P.pos = 3 * J /\ Taken(P) = 3 * J
  PROVE  Stamp(P, j) \in Nat /\ Stamp(P, j) >= 2 * J - 1 /\ (E = 3 * J => Stamp(P, j) >= 2 * J)
<1>1. /\ Taken(P) \in Nat /\ Total(P) \in Nat /\ P.pos \in Nat
      /\ Taken(P) # Total(P) /\ Taken(P) < 3 * j + 3
  BY Numbers DEF Done
<1>2. CASE P.pos = 3 * J /\ Taken(P) = 3 * J
  BY <1>1, <1>2
<1>3. CASE AtTurn(P, E, J)
  <2>1. Taken(P) = E /\ P.pos <= 3 * J
    BY <1>1, <1>3 DEF AtTurn, Least
  <2>2. E = 3 * J - 1 /\ J >= 3 /\ j = J - 1
    BY <1>1, <2>1
  <2> QED
    BY <2>1, <2>2 DEF Stamp
<1>4. CASE AtTurn(P, NextE(E, J), NextJ(E, J))
  <2>1. Taken(P) = 3 * J /\ P.pos <= 3 * J + 3
    BY <1>1, <1>4 DEF AtTurn, Least
  <2>2. j = J
    BY <1>1, <2>1
  <2> QED
    BY <2>1, <2>2 DEF Stamp
<1> QED
  BY <1>2, <1>3, <1>4

\* Which pages were used that recently.
LEMMA OnlyRecent ==
  ASSUME RegularScripts, NEW P \in PCB, ProcOK(P), NEW l \in Nat, 3 * l < P.pos,
         NEW J \in Nat, J >= 2, Stamp(P, l) <= 2 * J, Stamp(P, l) >= 2 * J - 1,
         J = 2 => Stamp(P, l) >= 2 * J
  PROVE  l \in {J - 1, J} /\ Total(P) > 3
<1>1. Taken(P) \in Nat /\ Total(P) \in Nat /\ P.pos \in Nat /\ P.pos <= Total(P)
  BY Numbers
<1>2. l >= 2
  BY DEF Stamp
<1>3. Stamp(P, l) \in 2 * l .. 2 * l + 2
  BY <1>1, <1>2 DEF Stamp
<1>4. l \in {J - 1, J}
  BY <1>3
<1> QED
  BY <1>1, <1>2, <1>4

\* There are finitely many processes.
LEMMA LongFinite ==
  ASSUME Base
  PROVE  IsFiniteSet(Long(pcb))
<1>1. PID_counter \in Nat \ {0} /\ DOMAIN pcb \subseteq 1 .. PID_counter - 1
  BY DEF Base, QueueOK
<1>2. PICK n \in Int : n = PID_counter - 1
  BY <1>1
<1>3. IsFiniteSet(1 .. n)
  BY FS_Interval
<1>4. Long(pcb) \in SUBSET (1 .. n)
  BY <1>1, <1>2 DEF Long
<1> QED
  BY <1>3, <1>4, FS_Subset

\* The victim of an eviction has no line to run.
LEMMA VictimDone ==
  ASSUME RegularScripts, Base, Paging, curr # 0, NEW P, P = pcb[curr], Taken(P) = P.pos,
         LRU_CACHE # <<>>, NEW e, e = LRU_CACHE[Len(LRU_CACHE)]
  PROVE  e \in Owned /\ Done(pcb[e[1]], e[2])
<1>1. PICK E, J, K : /\ K \in 0 .. Len(QUEUE) /\ Phase(E, J) /\ Round(E, J, K)
  BY DEF Paging, InStep
<1>2. /\ curr \in DOMAIN pcb /\ P \in PCB /\ ProcOK(P) /\ step \in {"first", "second", "only"}
      /\ Taken(P) \in Nat /\ Total(P) \in Nat /\ Taken(P) < Total(P) /\ DOMAIN pcb \subseteq Nat
  <2>1. PICK i : i = CurrentPage(P)
    OBVIOUS
  <2> QED
    BY <2>1, OnTurn
<1>3. Taken(P) \in {E, E + 1} /\ P.pos = Least(3 * J, Total(P))
  BY <1>1, <1>2, InRound
<1>4. /\ Taken(P) = 3 * J /\ J >= 2 /\ Cap(E, J) = 2 * J
      /\ NextE(E, J) = Taken(P) /\ NextJ(E, J) = J + 1
      /\ (E = 3 * J /\ J = 2) \/ (E = 3 * J - 1 /\ J >= 3)
  BY <1>1, <1>2, <1>3, TurnFaults
<1>5. E \in Nat /\ J \in Nat
  BY <1>1 DEF Phase
<1>6. /\ LRU_CACHE \in Seq(PageRefs(pcb)) /\ Distinct(LRU_CACHE) /\ Descending(pcb, LRU_CACHE)
      /\ Len(LRU_CACHE) >= 2 * Cardinality(Long(pcb)) /\ Layout(shellmemory, pcb, Owned)
  BY DEF Base, HistoryOK, Paging, Sorted
<1>7. e \in Owned /\ \A f \in Owned : f # e => StampOf(pcb, f) >= StampOf(pcb, e)
  <2>1. PICK r : r = pop_tail(LRU_CACHE)
    OBVIOUS
  <2> QED
    BY <1>6, <2>1, Popped DEF Owned
<1>8. ASSUME NEW f \in Owned
      PROVE  /\ f = <<f[1], f[2]>> /\ f[1] \in DOMAIN pcb /\ f[2] \in Nat
             /\ pcb[f[1]] \in PCB /\ ProcOK(pcb[f[1]]) /\ 3 * f[2] < pcb[f[1]].pos
             /\ StampOf(pcb, f) = Stamp(pcb[f[1]], f[2]) /\ StampOf(pcb, f) <= 2 * J
  <2>1. f = <<f[1], f[2]>> /\ f[1] \in DOMAIN pcb /\ f[2] \in DOMAIN pcb[f[1]].page_table
    BY <1>6, InPlace
  <2>2. pcb[f[1]] \in PCB /\ ProcOK(pcb[f[1]])
    BY <2>1 DEF Base, ProcsOK, PCBs
  <2>3. f[2] \in Nat
    BY <2>1, <2>2, PageOf
  <2>4. 3 * f[2] < pcb[f[1]].pos
    BY <1>6, Holds
  <2>5. StampOf(pcb, f) <= 2 * J
    BY <1>1, <1>4 DEF Round
  <2> QED
    BY <2>1, <2>2, <2>3, <2>4, <2>5 DEF StampOf
<1> SUFFICES ASSUME ~Done(pcb[e[1]], e[2])
             PROVE  FALSE
  BY <1>7
<1>9. PICK q, j : q = e[1] /\ j = e[2]
  OBVIOUS
<1>10. \/ AtTurn(pcb[q], E, J)
       \/ AtTurn(pcb[q], NextE(E, J), NextJ(E, J))
       \/ pcb[q].pos = 3 * J /\ Taken(pcb[q]) = 3 * J
  <2>1. q \in DOMAIN pcb /\ Taken(pcb[q]) # Total(pcb[q])
    BY <1>7, <1>8, <1>9 DEF Done
  <2>2. CASE q = curr
    BY <1>4, <2>2
  <2>3. ASSUME NEW k \in 1 .. Len(QUEUE), QUEUE[k] = q
        PROVE  AtTurn(pcb[q], E, J) \/ AtTurn(pcb[q], NextE(E, J), NextJ(E, J))
    <3>1. k <= K \/ k > K
      BY <1>1
    <3> QED
      BY <1>1, <2>3, <3>1 DEF Round
  <2> QED
    BY <2>1, <2>2, <2>3 DEF Paging, Waiting
<1>11. /\ Stamp(pcb[q], j) \in Nat /\ Stamp(pcb[q], j) >= 2 * J - 1
       /\ E = 3 * J => Stamp(pcb[q], j) >= 2 * J
  <2>1. pcb[q] \in PCB /\ ProcOK(pcb[q]) /\ j \in Nat /\ 3 * j < pcb[q].pos /\ ~Done(pcb[q], j)
    BY <1>7, <1>8, <1>9
  <2>2. NextE(E, J) = 3 * J /\ NextJ(E, J) = J + 1
    BY <1>4
  <2> QED
    BY <1>4, <1>5, <1>10, <2>1, <2>2, RecentlyUsed
<1>12. PICK x : x = StampOf(pcb, e) /\ x \in Nat /\ x >= 2 * J - 1 /\ (J = 2 => x >= 2 * J)
  BY <1>4, <1>5, <1>9, <1>11 DEF StampOf
<1>13. ASSUME NEW f \in Owned
       PROVE  /\ f = <<f[1], f[2]>> /\ f[1] \in Long(pcb) /\ f[2] \in {J - 1, J}
              /\ f # <<curr, J>>
  <2>1. PICK r, l : r = f[1] /\ l = f[2]
    OBVIOUS
  <2>2. PICK y : y = Stamp(pcb[r], l)
    OBVIOUS
  <2>3. /\ f = <<r, l>> /\ r \in DOMAIN pcb /\ l \in Nat /\ pcb[r] \in PCB /\ ProcOK(pcb[r])
        /\ 3 * l < pcb[r].pos /\ y = StampOf(pcb, f) /\ y <= 2 * J
    BY <1>8, <2>1, <2>2
  <2>4. y >= x
    BY <1>7, <1>12, <2>3
  <2>5. y \in Nat
    <3>1. Taken(pcb[r]) \in Nat
      BY <2>3, Numbers
    <3> QED
      BY <2>2, <2>3, <3>1 DEF Stamp
  <2>6. y >= 2 * J - 1 /\ (J = 2 => y >= 2 * J)
    BY <1>5, <1>12, <2>4, <2>5
  <2>7. l \in {J - 1, J} /\ Total(pcb[r]) > 3
    BY <1>4, <1>5, <2>2, <2>3, <2>6, OnlyRecent, ZenonT(30)
  <2>8. f # <<curr, J>>
    <3> SUFFICES ASSUME f = <<curr, J>>
                 PROVE  FALSE
      OBVIOUS
    <3>1. r = curr /\ l = J
      BY <2>3
    <3>2. P.pos = 3 * J /\ 3 * J < P.pos
      BY <1>4, <2>3, <3>1
    <3> QED
      BY <1>5, <3>2
  <2> QED
    BY <2>1, <2>3, <2>7, <2>8 DEF Long
<1>14. PICK X : X = (Long(pcb) \X {J - 1, J}) \ {<<curr, J>>}
  OBVIOUS
<1>15. Members(LRU_CACHE) \subseteq X
  <2> SUFFICES ASSUME NEW f \in Owned
               PROVE  f \in X
    BY DEF Owned
  <2>1. PICK r, l : f = <<r, l>> /\ r \in Long(pcb) /\ l \in {J - 1, J} /\ f # <<curr, J>>
    BY <1>13
  <2> QED
    BY <1>14, <2>1
<1>16. IsFiniteSet(Long(pcb))
  BY LongFinite
<1>17. curr \in Long(pcb)
  BY <1>2, <1>4, <1>5 DEF Long
<1>18. /\ IsFiniteSet(X) /\ Cardinality(X) = 2 * Cardinality(Long(pcb)) - 1
       /\ Cardinality(Long(pcb)) \in Nat
  BY <1>5, <1>14, <1>16, <1>17, AllButOne
<1>19. Len(LRU_CACHE) <= Cardinality(X)
  BY <1>6, <1>15, <1>18, Pigeons
<1> QED
  <2>1. Len(LRU_CACHE) \in Nat
    BY <1>6
  <2> QED
    BY <1>6, <1>18, <1>19, <2>1

\* The state st and the list q in which the page is loaded: there is a frame.
Room(st, q) ==
  /\ StOK(st) /\ Layout(st.mem, st.pcb, Members(q)) /\ SameShape(pcb, st.pcb)
  /\ \A p \in DOMAIN pcb : SameNumbers(pcb[p], st.pcb[p])
  /\ q \in Seq(PageRefs(pcb)) /\ Distinct(q) /\ Descending(pcb, q)
  /\ Members(q) \subseteq Owned /\ Len(q) + 1 >= Len(LRU_CACHE)
  /\ \A a \in VarPos : st.mem[a] = shellmemory[a]

LEMMA RoomBefore ==
  ASSUME Base, Paging, NEW d, d.mem = shellmemory, d.pcb = pcb
  PROVE  Room(d, LRU_CACHE)
<1>1. StOK(d) /\ LRU_CACHE \in Seq(PageRefs(pcb))
  BY DEF Base, HistoryOK, StOK
<1>2. Len(LRU_CACHE) + 1 >= Len(LRU_CACHE)
  BY <1>1
<1>3. SameShape(pcb, d.pcb) /\ \A p \in DOMAIN pcb : SameNumbers(pcb[p], d.pcb[p])
  BY DEF SameShape, SameNumbers
<1> QED
  BY <1>1, <1>2, <1>3 DEF Room, Paging, Sorted, Owned

LEMMA EvictedFrom ==
  ASSUME RegularScripts, NEW st, StOK(st), NEW W, Layout(st.mem, st.pcb, W),
         NEW p, NEW i, <<p, i>> \in W, Done(st.pcb[p], i), NEW r, r = PAGE_evict(st, p, i)
  PROVE  Layout(r.mem, r.pcb, W \ {<<p, i>>}) /\ ~NoFrame(r.mem)
<1>1. PICK m : m = st.mem
  OBVIOUS
<1>2. PICK t : t = st.pcb
  OBVIOUS
<1>3. PICK n : n = r.mem
  OBVIOUS
<1>4. PICK u : u = r.pcb
  OBVIOUS
<1>5. Layout(m, t, W) /\ Done(t[p], i)
  BY <1>1, <1>2
<1>6. Layout(n, u, W \ {<<p, i>>})
  BY <1>1, <1>2, <1>3, <1>4, <1>5, LayoutEvict, Zenon
<1>7. ~NoFrame(n)
  BY <1>1, <1>2, <1>3, <1>4, <1>5, LayoutEvict, Zenon
<1> QED
  BY <1>1, <1>2, <1>3, <1>4, <1>6, <1>7

LEMMA RoomEvicted ==
  ASSUME RegularScripts, Base, Paging, NEW d, d.mem = shellmemory, d.pcb = pcb,
         LRU_CACHE # <<>>, NEW e, e = LRU_CACHE[Len(LRU_CACHE)],
         e \in Owned, Done(pcb[e[1]], e[2]),
         NEW r, r = PAGE_evict(d, e[1], e[2]), NEW q, q = pop_tail(LRU_CACHE)
  PROVE  Room(r, q) /\ ~NoFrame(r.mem)
<1>1. StOK(d) /\ LRU_CACHE \in Seq(PageRefs(pcb)) /\ Layout(shellmemory, pcb, Owned)
  BY DEF Base, HistoryOK, StOK, Paging
<1>2. PICK p, i : p = e[1] /\ i = e[2]
  OBVIOUS
<1>3. e = <<p, i>> /\ p \in DOMAIN pcb
  BY <1>1, <1>2, InPlace
<1>4. PICK n, u : n = r.mem /\ u = r.pcb
  OBVIOUS
<1>5. /\ Layout(n, u, Owned \ {<<p, i>>}) /\ ~NoFrame(n) /\ StOK(r)
      /\ Changed(pcb, u, p, i) /\ u[p].size = pcb[p].size /\ u[p].pos = pcb[p].pos
  <2>1. <<p, i>> \in Owned /\ Done(pcb[p], i) /\ r = PAGE_evict(d, p, i)
    BY <1>2, <1>3
  <2>2. Layout(d.mem, d.pcb, Owned) /\ Done(d.pcb[p], i)
    BY <1>1, <2>1
  <2>3. Layout(r.mem, r.pcb, Owned \ {<<p, i>>})
    BY <1>1, <2>1, <2>2, EvictedFrom, Zenon
  <2>4. ~NoFrame(r.mem)
    BY <1>1, <2>1, <2>2, EvictedFrom, Zenon
  <2>5. i \in DOMAIN pcb[p].page_table
    BY <1>1, <1>2, InPlace
  <2>6. /\ StOK(r) /\ Changed(d.pcb, r.pcb, p, i) /\ r.pcb[p].size = d.pcb[p].size
        /\ r.pcb[p].pos = d.pcb[p].pos
    BY <1>1, <1>3, <2>1, <2>5, Evicting
  <2> QED
    BY <1>4, <2>3, <2>4, <2>6
<1>51. ASSUME NEW a \in VarPos
       PROVE  n[a] = shellmemory[a]
  <2>1. <<p, i>> \in Owned /\ r = PAGE_evict(d, p, i) /\ i \in DOMAIN pcb[p].page_table
    BY <1>1, <1>2, <1>3, InPlace
  <2>2. n[a] = IF \E k \in Offset : a = pcb[p].page_table[i].index[k] THEN Free ELSE shellmemory[a]
    <3>1. \A y \in Pos : r.mem[y] = IF \E k \in Offset : y = d.pcb[p].page_table[i].index[k]
                                    THEN Free ELSE d.mem[y]
      BY <1>1, <1>3, <2>1, Evicting
    <3> QED
      BY <1>4, <3>1, Positions
  <2>3. IsLoaded(pcb[p].page_table[i])
    BY <1>1, <1>2, InPlace
  <2>4. \A k \in Offset : pcb[p].page_table[i].index[k] \in FramePos
    <3>1. PICK f : f = pcb[p].page_table[i].index
      OBVIOUS
    <3>2. f[0] \in FramePos /\ f[0] + 2 \in FramePos /\ f[1] = f[0] + 1 /\ f[2] = f[0] + 2
      BY <2>3, <3>1 DEF IsLoaded
    <3>3. f[1] \in FramePos
      BY <3>2 DEF FramePos
    <3>4. Offset = {0, 1, 2}
      BY DEF Offset
    <3> QED
      BY <3>1, <3>2, <3>3, <3>4, Zenon
  <2> QED
    BY <2>2, <2>4, Positions
<1>6. /\ q \in Seq(PageRefs(pcb)) /\ Distinct(q) /\ Descending(pcb, q)
      /\ Len(q) = Len(LRU_CACHE) - 1 /\ Members(q) = Owned \ {e}
  <2>1. Distinct(LRU_CACHE) /\ Descending(pcb, LRU_CACHE)
    BY DEF Paging, Sorted
  <2> QED
    BY <1>1, <2>1, Popped DEF Owned
<1>7. Layout(r.mem, r.pcb, Members(q))
  BY <1>3, <1>4, <1>5, <1>6
<1>8. SameShape(pcb, r.pcb)
  BY <1>3, <1>4, <1>5, ShapeKept
<1>9. \A x \in DOMAIN pcb : SameNumbers(pcb[x], r.pcb[x])
  BY <1>4, <1>5 DEF Changed, SameNumbers
<1>10. Len(q) + 1 >= Len(LRU_CACHE)
  BY <1>1, <1>6
<1>11. Members(q) \subseteq Owned
  BY <1>6
<1> QED
  BY <1>4, <1>5, <1>51, <1>6, <1>7, <1>8, <1>9, <1>10, <1>11 DEF Room

\* A page fault loads the page, after an eviction if need be.
LEMMA PageFault ==
  ASSUME RegularScripts, Base, Paging, run_proc, NEW P, P = pcb[curr], NEW i, i = CurrentPage(P),
         Taken(P) = P.pos, ~Runs(curr, i)
  PROVE  /\ curr # 0 /\ curr' = 0 /\ QUEUE' = add_tail(curr, QUEUE)
         /\ UNCHANGED <<todo, mode>> /\ executed' = [executed EXCEPT ![curr] = @ \o <<>>]
         /\ \E st, q : \E b \in FramePos :
              /\ Room(st, q) /\ frame_alloc(st.mem, b)
              /\ Becomes(load_PAGE(st, curr, i, b), add_head(<<curr, i>>, q))
<1>1. /\ curr # 0 /\ \E j, c, st, r : RunPath(j, c, st, r)
      /\ UNCHANGED <<PID_counter, todo, turns, mode>>
  BY RunProc
<1>2. PICK j, c, st, r : RunPath(j, c, st, r)
  BY <1>1
<1>3. /\ j = i /\ c = cpu_run(curr, i)
      /\ executed' = [executed EXCEPT ![curr] = @ \o c.ran]
      /\ run_proc_ok(curr, i, c) \/ run_proc_fault(curr, i, c)
  BY <1>2 DEF RunPath
<1>4. c.mem = shellmemory /\ c.pcb = pcb /\ c.ret = 1 /\ c.ran = <<>>
  BY <1>3, CpuIdle
<1>5. run_proc_fault(curr, i, c)
  BY <1>3, <1>4 DEF run_proc_ok
<1>6. PICK d : d = [mem |-> c.mem, pcb |-> c.pcb]
  OBVIOUS
<1>7. d.mem = shellmemory /\ d.pcb = pcb
  BY <1>4, <1>6
<1>8. PICK v, ev, q : /\ v = LRU_CACHE[Len(LRU_CACHE)] /\ ev = PAGE_evict(d, v[1], v[2])
                      /\ q = pop_tail(LRU_CACHE)
  OBVIOUS
<1>9. /\ curr' = 0 /\ QUEUE' = add_tail(curr, QUEUE)
      /\ \/ \E b \in FramePos : /\ frame_alloc(d.mem, b)
                                /\ Becomes(load_PAGE(d, curr, i, b), add_head(<<curr, i>>, LRU_CACHE))
         \/ /\ LRU_CACHE # <<>>
            /\ \/ \E b \in FramePos : /\ frame_alloc(ev.mem, b)
                                      /\ Becomes(load_PAGE(ev, curr, i, b), add_head(<<curr, i>>, q))
               \/ NoFrame(ev.mem)
  BY <1>5, <1>6, <1>8, Zenon DEF run_proc_fault, requeue
<1>10. Room(d, LRU_CACHE)
  BY <1>7, RoomBefore
<1>11. LRU_CACHE # <<>> => Room(ev, q) /\ ~NoFrame(ev.mem)
  <2> SUFFICES ASSUME LRU_CACHE # <<>>
               PROVE  Room(ev, q) /\ ~NoFrame(ev.mem)
    OBVIOUS
  <2>1. v \in Owned /\ Done(pcb[v[1]], v[2])
    BY <1>1, <1>8, VictimDone
  <2> QED
    BY <1>7, <1>8, <2>1, RoomEvicted
<1>12. \E s, x : \E b \in FramePos :
         /\ Room(s, x) /\ frame_alloc(s.mem, b)
         /\ Becomes(load_PAGE(s, curr, i, b), add_head(<<curr, i>>, x))
  BY <1>9, <1>10, <1>11, Zenon
<1> QED
  BY <1>1, <1>3, <1>4, <1>9, <1>12

LEMMA LoadedInto ==
  ASSUME RegularScripts, NEW st, StOK(st), NEW W, Layout(st.mem, st.pcb, W),
         DOMAIN st.pcb \subseteq Nat, NEW p \in DOMAIN st.pcb,
         NEW i \in DOMAIN st.pcb[p].page_table, st.pcb[p].pos = 3 * i,
         NEW b \in FramePos, frame_alloc(st.mem, b), NEW r, r = load_PAGE(st, p, i, b)
  PROVE  Layout(r.mem, r.pcb, W \cup {<<p, i>>})
<1>1. PICK m : m = st.mem
  OBVIOUS
<1>2. PICK t : t = st.pcb
  OBVIOUS
<1>3. PICK n : n = r.mem
  OBVIOUS
<1>4. PICK u : u = r.pcb
  OBVIOUS
<1>5. /\ Layout(m, t, W) /\ DOMAIN t \subseteq Nat /\ p \in DOMAIN t
      /\ i \in DOMAIN t[p].page_table /\ t[p].pos = 3 * i /\ frame_alloc(m, b)
  BY <1>1, <1>2
<1>6. Layout(n, u, W \cup {<<p, i>>})
  BY <1>1, <1>2, <1>3, <1>4, <1>5, LayoutLoad, Zenon
<1> QED
  BY <1>3, <1>4, <1>6

\* Page i of p, which W lacks, is read.
Reads(t, u, p, i, W) ==
  /\ <<p, i>> \notin W /\ Changed(t, u, p, i) /\ u[p].size = t[p].size
  /\ u[p].pos = Least(3 * i + 3, Total(t[p]))

LEMMA LoadedPage ==
  ASSUME RegularScripts, NEW st, StOK(st), NEW t, t = st.pcb, NEW m, m = st.mem,
         NEW W, Layout(m, t, W), DOMAIN t \subseteq Nat, NEW p \in DOMAIN t,
         NEW i \in DOMAIN t[p].page_table, t[p].pos = 3 * i,
         NEW b \in FramePos, frame_alloc(m, b),
         NEW r, r = load_PAGE(st, p, i, b), NEW u, u = r.pcb
  PROVE  Reads(t, u, p, i, W) /\ StOK(r)
<1>1. t[p] \in PCB /\ ProcOK(t[p]) /\ i \in Nat
  BY PageOf DEF StOK, ProcsOK, PCBs
<1>2. <<p, i>> \notin W
  <2> SUFFICES ASSUME <<p, i>> \in W
               PROVE  FALSE
    OBVIOUS
  <2>1. PICK e \in W : e = <<p, i>>
    OBVIOUS
  <2>2. 3 * e[2] < t[e[1]].pos
    BY Holds
  <2> QED
    BY <1>1, <2>1, <2>2
<1>3. /\ StOK(r) /\ Changed(t, u, p, i) /\ u[p].size = t[p].size
      /\ u[p].pos = t[p].pos + Read(t[p])
  <2>1. Fits(m, b) /\ p \in Nat
    BY DEF frame_alloc
  <2>2. PICK n : n = r.mem
    OBVIOUS
  <2>3. /\ StOK(r) /\ DOMAIN u = DOMAIN t /\ Changed(t, u, p, i)
        /\ Read(t[p]) \in 0 .. 3
        /\ u[p].size = t[p].size /\ u[p].pos = t[p].pos + Read(t[p])
        /\ u[p].page_table[i].index = [k \in Offset |-> b + k]
        /\ u[p].page_table[i].valid = [k \in Offset |-> k < Read(t[p])]
        /\ IsLoaded(u[p].page_table[i])
        /\ \A a \in Pos : a \notin b .. b + 2 => n[a] = m[a]
        /\ Copied(m, n, t[p], p, b)
    BY <2>1, <2>2, Loading
  <2> QED
    BY <2>3
<1>4. Total(t[p]) \in Nat
  BY <1>1, Numbers
<1>5. t[p].pos + Read(t[p]) = Least(3 * i + 3, Total(t[p]))
  <2>1. PICK T \in Nat : T = Total(t[p])
    BY <1>4
  <2>2. PICK R : R = Read(t[p])
    OBVIOUS
  <2>3. R = IF T - 3 * i < 3 THEN T - 3 * i ELSE 3
    BY <2>1, <2>2 DEF Read, Total
  <2>4. 3 * i + R = Least(3 * i + 3, T)
    BY <1>1, <2>3 DEF Least
  <2> QED
    BY <2>1, <2>2, <2>4
<1> QED
  BY <1>2, <1>3, <1>5 DEF Reads

\* The page is loaded: it is the most recent one.
LEMMA PageIn ==
  ASSUME RegularScripts, Base, NEW st, NEW q, Room(st, q), NEW p \in DOMAIN pcb,
         NEW i \in DOMAIN pcb[p].page_table, i >= 2, Taken(pcb[p]) = 3 * i, pcb[p].pos = 3 * i,
         NEW b \in FramePos, frame_alloc(st.mem, b), NEW r, r = load_PAGE(st, p, i, b),
         NEW l, l = add_head(<<p, i>>, q), \A e \in Members(q) : StampOf(pcb, e) <= 2 * i
  PROVE  /\ Layout(r.mem, r.pcb, Members(l)) /\ SameShape(pcb, r.pcb)
         /\ \A x \in DOMAIN pcb : x # p => SameNumbers(pcb[x], r.pcb[x])
         /\ r.pcb[p].size = pcb[p].size /\ r.pcb[p].pos = Least(3 * i + 3, Total(pcb[p]))
         /\ Distinct(l) /\ Descending(r.pcb, l) /\ Len(l) >= Len(LRU_CACHE)
         /\ \A e \in Members(l) : StampOf(r.pcb, e) <= 2 * i
<1>1. /\ StOK(st) /\ Layout(st.mem, st.pcb, Members(q)) /\ SameShape(pcb, st.pcb)
      /\ \A x \in DOMAIN pcb : SameNumbers(pcb[x], st.pcb[x])
      /\ q \in Seq(PageRefs(pcb)) /\ Distinct(q) /\ Descending(pcb, q)
      /\ Len(q) + 1 >= Len(LRU_CACHE)
  BY DEF Room
<1>2. PICK t, m : t = st.pcb /\ m = st.mem
  OBVIOUS
<1>3. /\ DOMAIN t = DOMAIN pcb /\ DOMAIN t \subseteq Nat /\ p \in DOMAIN t
      /\ i \in DOMAIN t[p].page_table /\ t[p].pos = 3 * i /\ Total(t[p]) = Total(pcb[p])
  <2>1. DOMAIN pcb \subseteq Nat
    BY DEF Base, QueueOK
  <2> QED
    BY <1>1, <1>2, <2>1 DEF SameShape, SameNumbers, Total
<1>4. PICK u : u = r.pcb
  OBVIOUS
<1>5. /\ Layout(r.mem, r.pcb, Members(q) \cup {<<p, i>>}) /\ <<p, i>> \notin Members(q)
      /\ StOK(r) /\ Changed(t, u, p, i) /\ u[p].size = t[p].size
      /\ u[p].pos = Least(3 * i + 3, Total(t[p]))
  <2>1. /\ DOMAIN st.pcb \subseteq Nat /\ p \in DOMAIN st.pcb
        /\ i \in DOMAIN st.pcb[p].page_table /\ st.pcb[p].pos = 3 * i
    BY <1>2, <1>3
  <2>2. Layout(r.mem, r.pcb, Members(q) \cup {<<p, i>>})
    BY <1>1, <2>1, LoadedInto, Zenon
  <2>3. PICK W : W = Members(q)
    OBVIOUS
  <2>4. Layout(m, t, W) /\ frame_alloc(m, b)
    BY <1>1, <1>2, <2>3
  <2>5. Reads(t, u, p, i, W) /\ StOK(r)
    BY <1>1, <1>2, <1>3, <1>4, <2>4, LoadedPage
  <2> QED
    BY <2>2, <2>3, <2>5 DEF Reads
<1>6. /\ SameShape(pcb, u) /\ \A x \in DOMAIN pcb : x # p => SameNumbers(pcb[x], u[x])
      /\ u[p].size = pcb[p].size /\ u[p].pos = Least(3 * i + 3, Total(pcb[p]))
      /\ \A x \in DOMAIN pcb : u[x].script = pcb[x].script /\ u[x].size = pcb[x].size
  <2>1. SameShape(t, u)
    BY <1>3, <1>5, ShapeKept
  <2>2. SameShape(pcb, u)
    BY <1>1, <1>2, <2>1, ShapeTwice
  <2>3. \A x \in DOMAIN pcb : x # p => SameNumbers(pcb[x], u[x])
    BY <1>1, <1>2, <1>3, <1>4, <1>5 DEF Changed, SameNumbers
  <2>4. u[p].size = pcb[p].size /\ u[p].pos = Least(3 * i + 3, Total(pcb[p]))
    BY <1>1, <1>2, <1>3, <1>4, <1>5 DEF SameNumbers
  <2> QED
    BY <2>2, <2>3, <2>4 DEF SameShape, SameNumbers
<1>7. \A x \in DOMAIN pcb : Taken(u[x]) = Taken(pcb[x])
  BY <1>6 DEF Taken
<1>8. \A f \in Members(q) : StampOf(u, f) = StampOf(pcb, f)
  <2> SUFFICES ASSUME NEW f \in Members(q)
               PROVE  StampOf(u, f) = StampOf(pcb, f)
    OBVIOUS
  <2>1. f[1] \in DOMAIN pcb
    BY <1>1, PageRefFacts DEF Members
  <2> QED
    BY <1>7, <2>1 DEF StampOf, Stamp
<1>9. StampOf(u, <<p, i>>) = 2 * i /\ i \in Nat
  <2>1. i \in Nat
    BY PageOf DEF Base, ProcsOK, PCBs
  <2>2. Taken(u[p]) = 3 * i
    BY <1>7
  <2>3. Stamp(u[p], i) = 2 * i
    BY <2>1, <2>2 DEF Stamp
  <2> QED
    BY <2>1, <2>3 DEF StampOf
<1>10. /\ Distinct(l) /\ Descending(u, l) /\ Members(l) = Members(q) \cup {<<p, i>>}
       /\ Len(l) = Len(q) + 1
  <2>1. PICK x : x = <<p, i>> /\ x \in PageRefs(pcb) /\ x \notin Members(q)
    BY <1>5, IsPageRef
  <2>2. \A f \in Members(q) : StampOf(u, x) >= StampOf(u, f)
    <3> SUFFICES ASSUME NEW f \in Members(q)
                 PROVE  StampOf(u, x) >= StampOf(u, f)
      OBVIOUS
    <3>1. StampOf(u, f) <= 2 * i /\ StampOf(u, x) = 2 * i
      BY <1>8, <1>9, <2>1
    <3> QED
      BY <3>1
  <2>3. l = add_head(x, q)
    BY <2>1
  <2>4. /\ Distinct(l) /\ Descending(u, l) /\ Members(l) = Members(q) \cup {x}
        /\ Len(l) = Len(q) + 1
    BY <1>1, <1>8, <2>1, <2>2, <2>3, Pushed
  <2> QED
    BY <2>1, <2>4
<1>11. \A e \in Members(l) : StampOf(u, e) <= 2 * i
  <2> SUFFICES ASSUME NEW e \in Members(l)
               PROVE  StampOf(u, e) <= 2 * i
    OBVIOUS
  <2>1. CASE e \in Members(q)
    BY <1>8, <2>1
  <2>2. CASE e = <<p, i>>
    BY <1>9, <2>2
  <2> QED
    BY <1>10, <2>1, <2>2
<1> QED
  BY <1>1, <1>4, <1>5, <1>6, <1>10, <1>11

\* A page fault keeps the invariant.
LEMMA PagingFault ==
  ASSUME RegularScripts, Base, Paging, run_proc, Taken(pcb[curr]) = pcb[curr].pos
  PROVE  Paging'
<1>1. PICK P : P = pcb[curr]
  OBVIOUS
<1>2. PICK i : i = CurrentPage(P)
  OBVIOUS
<1>3. curr # 0
  BY DEF run_proc
<1>4. /\ curr \in DOMAIN pcb /\ curr \in Nat /\ P \in PCB /\ ProcOK(P) /\ todo = <<>>
      /\ i \in DOMAIN P.page_table /\ i \in Nat
      /\ Taken(P) \in Nat /\ Total(P) \in Nat /\ Taken(P) < Total(P) /\ Taken(P) = P.pos
      /\ step \in {"first", "second", "only"}
  BY <1>1, <1>2, <1>3, OnTurn
<1>5. PICK E, J, K : /\ K \in 0 .. Len(QUEUE) /\ Phase(E, J) /\ Round(E, J, K)
  BY DEF Paging, InStep
<1>6. Taken(P) \in {E, E + 1} /\ P.pos = Least(3 * J, Total(P)) /\ J \in Nat
  BY <1>1, <1>3, <1>4, <1>5, InRound DEF Phase
<1>7. /\ Taken(P) = 3 * J /\ J >= 2 /\ Cap(E, J) = 2 * J
      /\ NextE(E, J) = Taken(P) /\ NextJ(E, J) = J + 1
  BY <1>4, <1>5, <1>6, TurnFaults
<1>8. P.pos = 3 * i /\ ~Runs(curr, i) /\ i = J
  <2>1. Aligned(P.pos)
    BY <1>4, <1>6, <1>7 DEF Aligned
  <2>2. P.pos = 3 * i /\ ~Runs(curr, i)
    BY <1>1, <1>2, <1>3, <1>4, <2>1, NothingRead
  <2> QED
    BY <1>4, <1>6, <1>7, <2>2
<1>9. /\ curr' = 0 /\ QUEUE' = add_tail(curr, QUEUE)
      /\ UNCHANGED <<todo, mode>> /\ executed' = [executed EXCEPT ![curr] = @ \o <<>>]
      /\ \E st, q : \E b \in FramePos :
           /\ Room(st, q) /\ frame_alloc(st.mem, b)
           /\ Becomes(load_PAGE(st, curr, i, b), add_head(<<curr, i>>, q))
  BY <1>1, <1>2, <1>4, <1>8, PageFault
<1>10. PICK st, q : \E b \in FramePos :
           /\ Room(st, q) /\ frame_alloc(st.mem, b)
           /\ Becomes(load_PAGE(st, curr, i, b), add_head(<<curr, i>>, q))
  BY <1>9
<1>11. PICK b \in FramePos :
           /\ Room(st, q) /\ frame_alloc(st.mem, b)
           /\ Becomes(load_PAGE(st, curr, i, b), add_head(<<curr, i>>, q))
  BY <1>10
<1>12. PICK r, l : r = load_PAGE(st, curr, i, b) /\ l = add_head(<<curr, i>>, q)
  OBVIOUS
<1>13. shellmemory' = r.mem /\ pcb' = r.pcb /\ LRU_CACHE' = l
  BY <1>11, <1>12 DEF Becomes
<1>14. /\ Layout(r.mem, r.pcb, Members(l)) /\ SameShape(pcb, r.pcb)
       /\ \A x \in DOMAIN pcb : x # curr => SameNumbers(pcb[x], r.pcb[x])
       /\ r.pcb[curr].size = P.size /\ r.pcb[curr].pos = Least(3 * i + 3, Total(P))
       /\ Distinct(l) /\ Descending(r.pcb, l) /\ Len(l) >= Len(LRU_CACHE)
       /\ \A e \in Members(l) : StampOf(r.pcb, e) <= 2 * i
  <2>1. /\ i \in DOMAIN pcb[curr].page_table /\ i >= 2 /\ Taken(pcb[curr]) = 3 * i
        /\ pcb[curr].pos = 3 * i
    BY <1>1, <1>4, <1>7, <1>8
  <2>2. \A e \in Owned : StampOf(pcb, e) <= 2 * i
    BY <1>5, <1>7, <1>8 DEF Round
  <2>3. \A e \in Members(q) : StampOf(pcb, e) <= 2 * i
    BY <1>11, <2>2 DEF Room
  <2> QED
    BY <1>1, <1>4, <1>11, <1>12, <2>1, <2>3, PageIn
<1>15. Layout(shellmemory, pcb, Owned)'
  BY <1>13, <1>14 DEF Owned
<1>16. Sorted'
  <2>1. Long(r.pcb) = Long(pcb)
    BY <1>14, LongKept
  <2>2. LRU_CACHE \in Seq(PageRefs(pcb)) /\ q \in Seq(PageRefs(pcb))
    BY <1>11 DEF Base, HistoryOK, Room
  <2>3. Len(l) \in Nat /\ Len(LRU_CACHE) \in Nat
    <3>1. <<curr, i>> \in PageRefs(pcb)
      BY <1>1, <1>4, IsPageRef
    <3> QED
      BY <1>12, <2>2, <3>1, Prepended
  <2>4. PICK N : N = Cardinality(Long(pcb)) /\ Len(LRU_CACHE) >= 2 * N /\ N \in Nat
    <3>1. IsFiniteSet(Long(pcb))
      BY LongFinite
    <3> QED
      BY <3>1, FS_CardinalityType DEF Paging, Sorted
  <2>5. Len(l) >= 2 * N
    BY <1>14, <2>3, <2>4
  <2> QED
    BY <1>13, <1>14, <2>1, <2>4, <2>5 DEF Sorted
<1>17. PICK Q : Q = r.pcb[curr]
  OBVIOUS
<1>18. Q.script = P.script /\ Taken(Q) = Taken(P) /\ Total(Q) = Total(P)
  BY <1>1, <1>4, <1>14, <1>17 DEF SameShape, Taken, Total
<1>19. DOMAIN pcb' = DOMAIN pcb
  BY <1>13, <1>14 DEF SameShape
<1>20. \A p \in DOMAIN pcb' : InTurn(pcb'[p], executed'[p])
  <2> SUFFICES ASSUME NEW p \in DOMAIN pcb
               PROVE  InTurn(r.pcb[p], executed'[p])
    BY <1>13, <1>19
  <2>1. InTurn(pcb[p], executed[p]) /\ executed \in [DOMAIN pcb -> Seq(LineRef \cup {None})]
    BY DEF Paging, Base, HistoryOK
  <2>2. executed'[p] = executed[p]
    BY <1>4, <1>9, <2>1
  <2>3. r.pcb[p].script = pcb[p].script /\ Taken(r.pcb[p]) = Taken(pcb[p])
    BY <1>1, <1>14, <1>17, <1>18, Alike DEF SameNumbers
  <2> QED
    BY <2>1, <2>2, <2>3 DEF InTurn
<1>21. Waiting'
  <2> SUFFICES ASSUME NEW p \in DOMAIN pcb
               PROVE  \/ p = curr' \/ (\E j \in 1 .. Len(QUEUE') : QUEUE'[j] = p)
                      \/ Taken(pcb'[p]) = Total(pcb'[p])
    BY <1>19 DEF Waiting
  <2>1. QUEUE \in Seq(DOMAIN pcb)
    BY DEF Base, QueueOK
  <2>2. \A j \in 1 .. Len(QUEUE) : j \in 1 .. Len(QUEUE') /\ QUEUE'[j] = QUEUE[j]
    BY <1>4, <1>9, <2>1 DEF add_tail
  <2>3. CASE p # curr
    <3>1. (\E j \in 1 .. Len(QUEUE) : QUEUE[j] = p) \/ Taken(pcb[p]) = Total(pcb[p])
      BY <2>3 DEF Paging, Waiting
    <3>2. Taken(pcb'[p]) = Taken(pcb[p]) /\ Total(pcb'[p]) = Total(pcb[p])
      BY <1>13, <1>14, <2>3, Alike
    <3> QED
      BY <2>2, <3>1, <3>2
  <2>4. CASE p = curr
    <3>1. Len(QUEUE) + 1 \in 1 .. Len(QUEUE') /\ QUEUE'[Len(QUEUE) + 1] = p
      BY <1>4, <1>9, <2>1, <2>4 DEF add_tail
    <3> QED
      BY <3>1
  <2> QED
    BY <2>3, <2>4
<1>22. InStep'
  <2>1. AtTurn(Q, NextE(E, J), NextJ(E, J))
    <3>1. Taken(Q) = Least(NextE(E, J), Total(Q))
      BY <1>4, <1>7, <1>18 DEF Least
    <3>2. Q.pos = Least(3 * NextJ(E, J), Total(Q))
      <4>1. 3 * NextJ(E, J) = 3 * i + 3
        BY <1>4, <1>7, <1>8
      <4> QED
        BY <1>14, <1>17, <1>18, <4>1
    <3> QED
      BY <3>1, <3>2 DEF AtTurn
  <2>2. \A e \in Owned' : StampOf(pcb', e) <= Cap(E, J)
    BY <1>7, <1>8, <1>13, <1>14 DEF Owned
  <2>3. \A x \in DOMAIN pcb : x # curr => SameNumbers(pcb[x], pcb'[x])
    BY <1>13, <1>14
  <2>4. AtTurn(pcb'[curr], NextE(E, J), NextJ(E, J))
    BY <1>13, <1>17, <2>1
  <2>5. QUEUE' = add_tail(curr, QUEUE) /\ curr' = 0 /\ todo' = <<>>
    BY <1>4, <1>9
  <2> QED
    BY <1>4, <1>5, <2>2, <2>3, <2>4, <2>5, RoundRequeued
<1> QED
  BY <1>15, <1>16, <1>20, <1>21, <1>22 DEF Paging
-----------------------------------------------------------------------------
(* A new process.                                                           *)

\* The PCBs t with process p for script s, x of its lines read.
Grown(t, u, p, s, x) ==
  /\ DOMAIN u = DOMAIN t \cup {p} /\ \A q \in DOMAIN t : u[q] = t[q]
  /\ u[p].script = s /\ u[p].size = count_lines(s) /\ u[p].pos = x
  /\ DOMAIN u[p].page_table = 0 .. TableSize(s) - 1

LEMMA GrownLoad ==
  ASSUME RegularScripts, NEW t0, NEW st, StOK(st), NEW p \in Nat, p \notin DOMAIN t0,
         DOMAIN t0 \subseteq Nat,
         NEW s \in DOMAIN Program, NEW t, t = st.pcb, NEW m, m = st.mem,
         NEW i \in 0 .. TableSize(s) - 1, Grown(t0, t, p, s, 3 * i),
         NEW W, Layout(m, t, W), NEW b \in FramePos, frame_alloc(m, b),
         NEW r, r = load_PAGE(st, p, i, b), NEW n, n = r.mem, NEW u, u = r.pcb
  PROVE  /\ StOK(r) /\ Layout(n, u, W \cup {<<p, i>>}) /\ <<p, i>> \notin W
         /\ Grown(t0, u, p, s, Least(3 * i + 3, Len(Program[s])))
<1>1. /\ DOMAIN t \subseteq Nat /\ p \in DOMAIN t /\ i \in DOMAIN t[p].page_table
      /\ t[p].pos = 3 * i /\ Total(t[p]) = Len(Program[s])
  BY DEF Grown, Total
<1>2. Reads(t, u, p, i, W) /\ StOK(r)
  BY <1>1, LoadedPage
<1>3. Layout(n, u, W \cup {<<p, i>>})
  <2>1. /\ Layout(st.mem, st.pcb, W) /\ frame_alloc(st.mem, b) /\ DOMAIN st.pcb \subseteq Nat
        /\ p \in DOMAIN st.pcb /\ i \in DOMAIN st.pcb[p].page_table /\ st.pcb[p].pos = 3 * i
    BY <1>1
  <2>2. Layout(r.mem, r.pcb, W \cup {<<p, i>>})
    BY <2>1, LoadedInto, Zenon
  <2> QED
    BY <2>2
<1>4. Grown(t0, u, p, s, Least(3 * i + 3, Len(Program[s])))
  BY <1>1, <1>2 DEF Grown, Reads, Changed
<1> QED
  BY <1>2, <1>3, <1>4 DEF Reads

\* The state and the pages of the process that is created.
Admits(r, p, s, pages) ==
  /\ StOK(r) /\ Grown(pcb, r.pcb, p, s, Least(6, Len(Program[s])))
  /\ \/ /\ Len(Program[s]) <= 3 /\ pages = <<<<p, 0>>>>
        /\ Layout(r.mem, r.pcb, Owned \cup {<<p, 0>>})
     \/ /\ Len(Program[s]) > 3 /\ pages = <<<<p, 1>>, <<p, 0>>>>
        /\ Layout(r.mem, r.pcb, (Owned \cup {<<p, 0>>}) \cup {<<p, 1>>})

LEMMA Admission ==
  ASSUME RegularScripts, Base, Paging, new_proc, ~exit_99,
         NEW p, p = PID_counter, NEW s, s = Head(todo)
  PROVE  /\ s \in DOMAIN Program
         /\ \E r, pages : Admits(r, p, s, pages) /\ Admit(p, r, pages)
<1>1. PICK st : st = PCB_init(p, s)
  OBVIOUS
<1>2. s \in DOMAIN Program /\
      \E b \in FramePos :
        /\ frame_alloc(shellmemory, b)
        /\ \E st1 \in {load_PAGE(st, p, 0, b)} :
             \/ /\ PAGE_table_size(count_lines(s)) = 1
                /\ Admit(p, st1, <<<<p, 0>>>>)
             \/ /\ PAGE_table_size(count_lines(s)) # 1
                /\ \E c \in FramePos :
                     /\ frame_alloc(st1.mem, c)
                     /\ Admit(p, load_PAGE(st1, p, 1, c), <<<<p, 1>>, <<p, 0>>>>)
  BY <1>1, Zenon DEF new_proc
<1>3. PICK b, st1 :
        /\ b \in FramePos /\ frame_alloc(shellmemory, b) /\ st1 = load_PAGE(st, p, 0, b)
        /\ \/ /\ PAGE_table_size(count_lines(s)) = 1
              /\ Admit(p, st1, <<<<p, 0>>>>)
           \/ /\ PAGE_table_size(count_lines(s)) # 1
              /\ \E c \in FramePos :
                   /\ frame_alloc(st1.mem, c)
                   /\ Admit(p, load_PAGE(st1, p, 1, c), <<<<p, 1>>, <<p, 0>>>>)
  BY <1>2, Zenon
<1>4. p \in Nat /\ p \notin DOMAIN pcb /\ DOMAIN pcb \subseteq Nat
  <2>1. PID_counter \in Nat /\ DOMAIN pcb \subseteq 1 .. PID_counter - 1
    BY DEF Base, QueueOK
  <2> QED
    BY <2>1
<1>5. StOK(st) /\ st.mem = shellmemory /\ Adds(pcb, st.pcb, p, s)
  BY <1>1, <1>2, <1>4, Adding DEF Base
<1>6. PICK m, t : m = st.mem /\ t = st.pcb
  OBVIOUS
<1>7. Layout(m, t, Owned) /\ frame_alloc(m, b)
  <2>1. Layout(shellmemory, pcb, Owned)
    BY DEF Paging
  <2>2. Adds(pcb, t, p, s)
    BY <1>5, <1>6
  <2>3. Layout(shellmemory, t, Owned)
    BY <1>2, <1>4, <2>1, <2>2, LayoutAdd
  <2> QED
    BY <1>3, <1>5, <1>6, <2>3
<1>8. Grown(pcb, t, p, s, 3 * 0)
  BY <1>5, <1>6 DEF Adds, IsNew, Grown
<1>9. PICK L \in Nat \ {0}, z \in Nat \ {0} :
        L = Len(Program[s]) /\ z = TableSize(s) /\ L <= 3 * z /\ 3 * z < L + 3
  BY <1>2, RegularLines, CountLines
<1>10. PICK m1, t1 : m1 = st1.mem /\ t1 = st1.pcb
  OBVIOUS
<1>11. /\ StOK(st1) /\ Layout(m1, t1, Owned \cup {<<p, 0>>}) /\ <<p, 0>> \notin Owned
       /\ Grown(pcb, t1, p, s, Least(3 * 0 + 3, Len(Program[s])))
  <2>1. 0 \in 0 .. TableSize(s) - 1
    BY <1>9
  <2> QED
    BY <1>2, <1>3, <1>4, <1>5, <1>6, <1>7, <1>8, <1>10, <2>1, GrownLoad, ZenonT(30)
<1>12. CASE PAGE_table_size(count_lines(s)) = 1 /\ Admit(p, st1, <<<<p, 0>>>>)
  <2>1. L <= 3
    BY <1>9, <1>12 DEF TableSize
  <2>2. Least(3 * 0 + 3, L) = Least(6, L)
    BY <2>1 DEF Least
  <2>3. Admits(st1, p, s, <<<<p, 0>>>>)
    BY <1>9, <1>10, <1>11, <2>1, <2>2 DEF Admits
  <2> QED
    BY <1>2, <1>12, <2>3
<1>13. ASSUME PAGE_table_size(count_lines(s)) # 1, NEW c \in FramePos,
              frame_alloc(st1.mem, c),
              Admit(p, load_PAGE(st1, p, 1, c), <<<<p, 1>>, <<p, 0>>>>)
       PROVE  \E r, pages : Admits(r, p, s, pages) /\ Admit(p, r, pages)
  <2>1. PICK r : r = load_PAGE(st1, p, 1, c)
    OBVIOUS
  <2>2. z # 1 /\ L > 3 /\ 1 \in 0 .. TableSize(s) - 1
    BY <1>9, <1>13 DEF TableSize
  <2>3. Least(3 * 0 + 3, L) = 3 * 1 /\ Least(3 * 1 + 3, L) = Least(6, L)
    BY <2>2 DEF Least
  <2>4. Grown(pcb, t1, p, s, 3 * 1)
    BY <1>9, <1>11, <2>3
  <2>5. PICK n, u : n = r.mem /\ u = r.pcb
    OBVIOUS
  <2>6. PICK W : W = Owned \cup {<<p, 0>>}
    OBVIOUS
  <2>7. Layout(m1, t1, W) /\ frame_alloc(m1, c)
    BY <1>10, <1>11, <1>13, <2>6
  <2>8. /\ StOK(r) /\ Layout(n, u, W \cup {<<p, 1>>}) /\ <<p, 1>> \notin W
        /\ Grown(pcb, u, p, s, Least(3 * 1 + 3, Len(Program[s])))
    <3>1. PICK i \in 0 .. TableSize(s) - 1 : i = 1
      BY <2>2
    <3>2. /\ StOK(st1) /\ Grown(pcb, t1, p, s, 3 * i) /\ r = load_PAGE(st1, p, i, c)
          /\ s \in DOMAIN Program
      BY <1>2, <1>11, <2>1, <2>4, <3>1
    <3>3. StOK(r)
      BY <1>4, <1>10, <2>5, <2>7, <3>2, GrownLoad, Zenon
    <3>4. Layout(n, u, W \cup {<<p, i>>})
      BY <1>4, <1>10, <2>5, <2>7, <3>2, GrownLoad, Zenon
    <3>5. <<p, i>> \notin W
      BY <1>4, <1>10, <2>5, <2>7, <3>2, GrownLoad, Zenon
    <3>6. Grown(pcb, u, p, s, Least(3 * i + 3, Len(Program[s])))
      BY <1>4, <1>10, <2>5, <2>7, <3>2, GrownLoad, Zenon
    <3> QED
      BY <3>1, <3>3, <3>4, <3>5, <3>6
  <2>9. Admits(r, p, s, <<<<p, 1>>, <<p, 0>>>>)
    BY <1>9, <2>2, <2>3, <2>5, <2>6, <2>8 DEF Admits
  <2> QED
    BY <1>13, <2>1, <2>9
<1> QED
  BY <1>2, <1>3, <1>12, <1>13

\* Two elements at the head of a list.
LEMMA HeadTwice ==
  ASSUME NEW S, NEW q \in Seq(S), NEW x \in S, NEW y \in S
  PROVE  <<y, x>> \o q = add_head(y, add_head(x, q))
<1>1. <<y, x>> = <<y>> \o <<x>>
  OBVIOUS
<1>2. <<y>> \in Seq(S) /\ <<x>> \in Seq(S)
  OBVIOUS
<1>3. (<<y>> \o <<x>>) \o q = <<y>> \o (<<x>> \o q)
  BY <1>2, ConcatAssociative
<1> QED
  BY <1>1, <1>3 DEF add_head

\* A new page is the most recent one, no page being more recent than its stamp 3.
LEMMA NewFirst ==
  ASSUME NEW u, NEW q \in Seq(PageRefs(u)), Distinct(q), Descending(u, q),
         NEW p, NEW i \in Nat, i <= 1, <<p, i>> \in PageRefs(u), <<p, i>> \notin Members(q),
         \A f \in Members(q) : StampOf(u, f) <= 3, NEW l, l = add_head(<<p, i>>, q)
  PROVE  /\ l \in Seq(PageRefs(u)) /\ Distinct(l) /\ Descending(u, l)
         /\ Members(l) = Members(q) \cup {<<p, i>>} /\ Len(l) = Len(q) + 1
         /\ \A f \in Members(l) : StampOf(u, f) <= 3
<1>1. PICK x : x = <<p, i>> /\ x \in PageRefs(u) /\ x \notin Members(q)
  OBVIOUS
<1>2. StampOf(u, x) = 3
  BY <1>1 DEF StampOf, Stamp
<1>3. \A f \in Members(q) : StampOf(u, x) >= StampOf(u, f)
  <2> SUFFICES ASSUME NEW f \in Members(q)
               PROVE  StampOf(u, x) >= StampOf(u, f)
    OBVIOUS
  <2> QED
    BY <1>2
<1>4. \A f \in Members(q) : StampOf(u, f) = StampOf(u, f)
  OBVIOUS
<1>5. l = add_head(x, q)
  BY <1>1
<1>6. /\ Distinct(l) /\ Descending(u, l) /\ Members(l) = Members(q) \cup {x}
      /\ Len(l) = Len(q) + 1
  BY <1>1, <1>3, <1>4, <1>5, Pushed
<1>7. l \in Seq(PageRefs(u))
  BY <1>1, <1>5, Prepended
<1>8. \A f \in Members(l) : StampOf(u, f) <= 3
  BY <1>2, <1>6
<1> QED
  BY <1>1, <1>6, <1>7, <1>8

\* The processes with more than one page.
LEMMA LongGrown ==
  ASSUME Base, NEW p, p \notin DOMAIN pcb, NEW s, NEW x, NEW u, Grown(pcb, u, p, s, x)
  PROVE  /\ Len(Program[s]) > 3 => Cardinality(Long(u)) = Cardinality(Long(pcb)) + 1
         /\ ~(Len(Program[s]) > 3) => Long(u) = Long(pcb)
         /\ Cardinality(Long(pcb)) \in Nat
<1>1. PICK L : L = Long(pcb) /\ IsFiniteSet(L) /\ p \notin L
  BY LongFinite DEF Long
<1>2. Cardinality(L) \in Nat
  BY <1>1, FS_CardinalityType
<1>3. \A q \in DOMAIN pcb : Total(u[q]) = Total(pcb[q])
  BY DEF Grown
<1>4. Total(u[p]) = Len(Program[s])
  BY DEF Grown, Total
<1>5. DOMAIN u = DOMAIN pcb \cup {p}
  BY DEF Grown
<1>6. CASE Len(Program[s]) > 3
  <2>1. Long(u) = L \cup {p}
    BY <1>1, <1>3, <1>4, <1>5, <1>6 DEF Long
  <2>2. Cardinality(L \cup {p}) = Cardinality(L) + 1
    BY <1>1, FS_AddElement
  <2> QED
    BY <1>1, <1>2, <1>6, <2>1, <2>2
<1>7. CASE ~(Len(Program[s]) > 3)
  <2>1. Long(u) = L
    BY <1>1, <1>3, <1>4, <1>5, <1>7 DEF Long
  <2> QED
    BY <1>1, <1>2, <1>7, <2>1
<1> QED
  BY <1>6, <1>7

\* The pages of a new process keep the LRU list sorted.
LEMMA SortedNew ==
  ASSUME RegularScripts, Base, Paging, NEW p, p \notin DOMAIN pcb, NEW s \in DOMAIN Program,
         NEW r, NEW pages, Admits(r, p, s, pages), NEW u, u = r.pcb,
         NEW l, l = pages \o LRU_CACHE, \A f \in Owned : StampOf(pcb, f) <= 3
  PROVE  /\ Layout(r.mem, u, Members(l)) /\ Distinct(l) /\ Descending(u, l)
         /\ \A e \in Members(l) : StampOf(u, e) <= 3
         /\ Len(l) >= 2 * Cardinality(Long(u))
<1>1. PICK x : x = Least(6, Len(Program[s])) /\ Grown(pcb, u, p, s, x)
  BY DEF Admits
<1>2. PICK q : q = LRU_CACHE
  OBVIOUS
<1>3. /\ q \in Seq(PageRefs(pcb)) /\ Distinct(q) /\ Descending(pcb, q)
      /\ Len(q) >= 2 * Cardinality(Long(pcb)) /\ Owned = Members(q)
  BY <1>2 DEF Base, HistoryOK, Paging, Sorted, Owned
<1>4. \A e \in PageRefs(pcb) : e[1] # p /\ e \in PageRefs(u) /\ StampOf(u, e) = StampOf(pcb, e)
  <2> SUFFICES ASSUME NEW e \in PageRefs(pcb)
               PROVE  e[1] # p /\ e \in PageRefs(u) /\ StampOf(u, e) = StampOf(pcb, e)
    OBVIOUS
  <2>1. e = <<e[1], e[2]>> /\ e[1] \in DOMAIN pcb /\ e[2] \in DOMAIN pcb[e[1]].page_table
    BY PageRefFacts
  <2>2. u[e[1]] = pcb[e[1]] /\ e[1] \in DOMAIN u /\ e[1] # p
    BY <1>1, <2>1 DEF Grown
  <2>3. e[2] \in DOMAIN u[e[1]].page_table
    BY <2>1, <2>2
  <2>4. e \in PageRefs(u)
    BY <2>1, <2>2, <2>3, IsPageRef
  <2>5. StampOf(u, e) = StampOf(pcb, e)
    BY <2>2 DEF StampOf
  <2> QED
    BY <2>2, <2>4, <2>5
<1>5. q \in Seq(PageRefs(u)) /\ \A k \in 1 .. Len(q) : q[k] \in PageRefs(pcb)
  <2>1. \A k \in 1 .. Len(q) : q[k] \in PageRefs(pcb)
    BY <1>3
  <2>2. PageRefs(pcb) \subseteq PageRefs(u)
    BY <1>4
  <2> QED
    BY <1>3, <2>1, <2>2
<1>6. \A f \in Members(q) : f[1] # p /\ StampOf(u, f) = StampOf(pcb, f) /\ StampOf(u, f) <= 3
  BY <1>3, <1>4, <1>5 DEF Members
<1>7. Descending(u, q)
  BY <1>3, <1>4, <1>5 DEF Descending
<1>8. PICK L \in Nat, z \in Nat : /\ L = Len(Program[s]) /\ L # 0 /\ z = TableSize(s)
                                  /\ L <= 3 * z /\ 3 * z < L + 3
  BY RegularLines, CountLines
<1>9. DOMAIN u[p].page_table = 0 .. z - 1 /\ p \in DOMAIN u
  BY <1>1, <1>8 DEF Grown
<1>10. <<p, 0>> \in PageRefs(u) /\ (L > 3 => <<p, 1>> \in PageRefs(u))
  BY <1>8, <1>9, IsPageRef
<1>11. \A i : <<p, i>> \notin Members(q)
  <2> SUFFICES ASSUME NEW i, NEW f \in Members(q), f = <<p, i>>
               PROVE  FALSE
    OBVIOUS
  <2>1. f[1] = p
    OBVIOUS
  <2> QED
    BY <1>6, <2>1
<1>12. PICK l1 : l1 = add_head(<<p, 0>>, q)
  OBVIOUS
<1>13. /\ l1 \in Seq(PageRefs(u)) /\ Distinct(l1) /\ Descending(u, l1)
       /\ Members(l1) = Members(q) \cup {<<p, 0>>} /\ Len(l1) = Len(q) + 1
       /\ \A f \in Members(l1) : StampOf(u, f) <= 3
  BY <1>3, <1>5, <1>6, <1>7, <1>10, <1>11, <1>12, NewFirst
<1>14. PICK N \in Nat, k \in Nat : /\ N = Cardinality(Long(pcb)) /\ k = Len(q) /\ k >= 2 * N
                                   /\ L > 3 => Cardinality(Long(u)) = N + 1
                                   /\ ~(L > 3) => Cardinality(Long(u)) = N
  BY <1>1, <1>3, <1>8, LongGrown
<1>15. CASE /\ Len(Program[s]) <= 3 /\ pages = <<<<p, 0>>>>
            /\ Layout(r.mem, r.pcb, Owned \cup {<<p, 0>>})
  <2>1. l = l1
    BY <1>2, <1>12, <1>15 DEF add_head
  <2>2. Len(l) >= 2 * Cardinality(Long(u))
    BY <1>8, <1>13, <1>14, <1>15, <2>1
  <2> QED
    BY <1>3, <1>13, <1>15, <2>1, <2>2
<1>16. CASE /\ Len(Program[s]) > 3 /\ pages = <<<<p, 1>>, <<p, 0>>>>
            /\ Layout(r.mem, r.pcb, (Owned \cup {<<p, 0>>}) \cup {<<p, 1>>})
  <2>0. PICK i \in Nat : i <= 1 /\ i = 1
    OBVIOUS
  <2>1. l = add_head(<<p, i>>, l1)
    <3>1. PICK x0 \in PageRefs(u), x1 \in PageRefs(u) : x0 = <<p, 0>> /\ x1 = <<p, 1>>
      BY <1>8, <1>10, <1>16
    <3>2. <<x1, x0>> \o q = add_head(x1, add_head(x0, q))
      BY <1>5, HeadTwice
    <3>3. pages = <<x1, x0>>
      BY <1>16, <3>1
    <3>4. l = add_head(x1, l1)
      BY <1>2, <1>12, <3>1, <3>2, <3>3
    <3> QED
      BY <2>0, <3>1, <3>4
  <2>2. <<p, i>> \in PageRefs(u) /\ <<p, i>> \notin Members(l1)
    <3>1. <<p, i>> # <<p, 0>>
      BY <2>0
    <3> QED
      BY <1>8, <1>10, <1>11, <1>13, <1>16, <2>0, <3>1
  <2>3. /\ Distinct(l) /\ Descending(u, l)
        /\ Members(l) = Members(l1) \cup {<<p, 1>>} /\ Len(l) = Len(l1) + 1
        /\ \A f \in Members(l) : StampOf(u, f) <= 3
    <3>1. /\ l \in Seq(PageRefs(u)) /\ Distinct(l) /\ Descending(u, l)
          /\ Members(l) = Members(l1) \cup {<<p, i>>} /\ Len(l) = Len(l1) + 1
          /\ \A f \in Members(l) : StampOf(u, f) <= 3
      <4>1. /\ l1 \in Seq(PageRefs(u)) /\ Distinct(l1) /\ Descending(u, l1)
            /\ \A f \in Members(l1) : StampOf(u, f) <= 3
        BY <1>13
      <4>2. PICK y : y = add_head(<<p, i>>, l1)
        OBVIOUS
      <4>3. /\ y \in Seq(PageRefs(u)) /\ Distinct(y) /\ Descending(u, y)
            /\ Members(y) = Members(l1) \cup {<<p, i>>} /\ Len(y) = Len(l1) + 1
            /\ \A f \in Members(y) : StampOf(u, f) <= 3
        BY <2>0, <2>2, <4>1, <4>2, NewFirst
      <4> QED
        BY <2>1, <4>2, <4>3
    <3> QED
      BY <2>0, <3>1
  <2>4. Members(l) = (Owned \cup {<<p, 0>>}) \cup {<<p, 1>>}
    BY <1>3, <1>13, <2>3
  <2>5. Len(l) >= 2 * Cardinality(Long(u))
    BY <1>8, <1>13, <1>14, <1>16, <2>3, SMTT(20)
  <2> QED
    BY <1>16, <2>3, <2>4, <2>5
<1> QED
  BY <1>15, <1>16 DEF Admits

\* When a process is created no other has run: round 0.
LEMMA FirstRound ==
  ASSUME Base, Paging, todo # <<>>
  PROVE  /\ \A k \in 1 .. Len(QUEUE) : AtTurn(pcb[QUEUE[k]], 0, 2)
         /\ \A e \in Owned : StampOf(pcb, e) <= 3
         /\ Phase(0, 2) /\ Cap(0, 2) = 3 /\ curr = 0
<1>1. PICK E, J, K : /\ K \in 0 .. Len(QUEUE) /\ Round(E, J, K)
                     /\ E = 0 /\ J = 2 /\ K = Len(QUEUE)
  BY DEF Paging, InStep
<1>2. Phase(0, 2) /\ Cap(0, 2) = 3
  BY DEF Phase, Cap
<1>3. curr = 0
  BY DEF Base, QueueOK
<1>4. \A k \in 1 .. Len(QUEUE) : AtTurn(pcb[QUEUE[k]], E, J)
  <2>1. \A k \in 1 .. Len(QUEUE) : k <= K
    BY <1>1
  <2> QED
    BY <1>1, <2>1 DEF Round
<1>5. \A e \in Owned : StampOf(pcb, e) <= Cap(E, J)
  BY <1>1 DEF Round
<1> QED
  BY <1>1, <1>2, <1>3, <1>4, <1>5

\* Round 0 is the current round.
LEMMA RoundZero ==
  ASSUME NEW S, QUEUE' \in Seq(S), \A k \in 1 .. Len(QUEUE') : AtTurn(pcb'[QUEUE'[k]], 0, 2),
         \A e \in Owned' : StampOf(pcb', e) <= 3, curr' = 0
  PROVE  InStep'
<1>1. PICK K : K = Len(QUEUE') /\ K \in 0 .. Len(QUEUE')
  <2>1. Len(QUEUE') \in Nat
    OBVIOUS
  <2> QED
    BY <2>1
<1>2. Phase(0, 2) /\ Cap(0, 2) = 3
  BY DEF Phase, Cap
<1>3. \A k \in 1 .. Len(QUEUE') : ~(k > K)
  BY <1>1
<1>4. Round(0, 2, K)'
  BY <1>2, <1>3 DEF Round
<1>5. (todo' # <<>>) => 0 = 0 /\ 2 = 2 /\ K = Len(QUEUE')
  BY <1>1
<1> QED
  BY <1>1, <1>2, <1>4, <1>5 DEF InStep

\* The creation of a process keeps the invariant.
LEMMA PagingNew ==
  ASSUME RegularScripts, Base, Base', Paging, new_proc
  PROVE  Paging'
<1>1. PICK p, s : p = PID_counter /\ s = Head(todo)
  OBVIOUS
<1>2. /\ todo # <<>> /\ curr' = curr
  BY DEF new_proc
<1>3. p \in Nat /\ p \notin DOMAIN pcb
  <2>1. PID_counter \in Nat /\ DOMAIN pcb \subseteq 1 .. PID_counter - 1
    BY DEF Base, QueueOK
  <2> QED
    BY <1>1, <2>1
<1>4. /\ \A k \in 1 .. Len(QUEUE) : AtTurn(pcb[QUEUE[k]], 0, 2)
      /\ \A e \in Owned : StampOf(pcb, e) <= 3
      /\ curr = 0
  BY <1>2, FirstRound
<1>5. QUEUE' \in Seq(DOMAIN pcb') /\ QUEUE \in Seq(DOMAIN pcb)
  BY DEF Base, QueueOK
<1>6. CASE exit_99
  <2>1. UNCHANGED <<shellmemory, pcb, QUEUE, LRU_CACHE, executed>> /\ curr' = curr
    BY <1>2, <1>6 DEF exit_99
  <2>2. Owned' = Owned
    BY <2>1 DEF Owned
  <2>3. /\ \A k \in 1 .. Len(QUEUE') : AtTurn(pcb'[QUEUE'[k]], 0, 2)
        /\ \A e \in Owned' : StampOf(pcb', e) <= 3
        /\ curr' = 0
    BY <1>4, <2>1, <2>2
  <2>4. InStep'
    BY <1>5, <2>3, RoundZero
  <2>5. Layout(shellmemory, pcb, Owned)' /\ (\A q \in DOMAIN pcb : InTurn(pcb[q], executed[q]))'
    BY <2>1, <2>2 DEF Paging
  <2>6. Sorted' /\ Waiting'
    BY <2>1 DEF Paging, Sorted, Waiting
  <2> QED
    BY <2>4, <2>5, <2>6 DEF Paging
<1>7. CASE ~exit_99
  <2>1. s \in DOMAIN Program /\ \E r, pages : Admits(r, p, s, pages) /\ Admit(p, r, pages)
    BY <1>1, <1>7, Admission
  <2>2. PICK r, pages : Admits(r, p, s, pages) /\ Admit(p, r, pages)
    BY <2>1
  <2>3. PICK u, l : u = r.pcb /\ l = pages \o LRU_CACHE
    OBVIOUS
  <2>4. /\ shellmemory' = r.mem /\ pcb' = u /\ QUEUE' = add_tail(p, QUEUE) /\ LRU_CACHE' = l
        /\ executed' = [q \in DOMAIN pcb \cup {p} |-> IF q = p THEN <<>> ELSE executed[q]]
    BY <2>2, <2>3 DEF Admit
  <2>5. /\ Layout(r.mem, u, Members(l)) /\ Distinct(l) /\ Descending(u, l)
        /\ \A e \in Members(l) : StampOf(u, e) <= 3
        /\ Len(l) >= 2 * Cardinality(Long(u))
    BY <1>3, <1>4, <2>1, <2>2, <2>3, SortedNew
  <2>6. Layout(shellmemory, pcb, Owned)' /\ Sorted'
    BY <2>4, <2>5 DEF Sorted, Owned
  <2>7. PICK x, P : x = Least(6, Len(Program[s])) /\ Grown(pcb, u, p, s, x) /\ P = u[p]
    BY <2>2, <2>3 DEF Admits
  <2>8. /\ DOMAIN u = DOMAIN pcb \cup {p} /\ \A q \in DOMAIN pcb : u[q] = pcb[q]
        /\ P.script = s /\ P.size = count_lines(s) /\ P.pos = x
    BY <2>7 DEF Grown
  <2>9. Taken(P) = 0 /\ Total(P) = Len(Program[s]) /\ Total(P) \in Nat \ {0}
    <3>1. count_lines(s) = Len(Program[s]) /\ Len(Program[s]) \in Nat \ {0}
      BY <2>1, RegularLines
    <3> QED
      BY <2>8, <3>1 DEF Taken, Total
  <2>10. AtTurn(P, 0, 2)
    BY <2>7, <2>8, <2>9 DEF AtTurn, Least
  <2>11. \A q \in DOMAIN pcb' : InTurn(pcb'[q], executed'[q])
    <3> SUFFICES ASSUME NEW q \in DOMAIN u
                 PROVE  InTurn(u[q], executed'[q])
      BY <2>4
    <3>1. CASE q = p
      <4>1. executed'[p] = <<>>
        BY <2>4
      <4>2. 1 .. Taken(P) = {}
        BY <2>9
      <4>3. [k \in 1 .. Taken(P) |-> <<P.script, k>>] = <<>>
        BY <4>2
      <4> QED
        BY <2>7, <3>1, <4>1, <4>3 DEF InTurn
    <3>2. CASE q \in DOMAIN pcb
      <4>1. executed'[q] = executed[q] /\ u[q] = pcb[q]
        BY <1>3, <2>4, <2>8, <3>2
      <4> QED
        BY <3>2, <4>1 DEF Paging
    <3> QED
      BY <2>8, <3>1, <3>2
  <2>12. \A k \in 1 .. Len(QUEUE) : k \in 1 .. Len(QUEUE') /\ QUEUE'[k] = QUEUE[k]
    BY <1>3, <1>5, <2>4 DEF add_tail
  <2>13. Len(QUEUE) + 1 \in 1 .. Len(QUEUE') /\ QUEUE'[Len(QUEUE) + 1] = p
    BY <1>3, <1>5, <2>4 DEF add_tail
  <2>14. Waiting'
    <3> SUFFICES ASSUME NEW q \in DOMAIN u
                 PROVE  \/ q = curr' \/ (\E j \in 1 .. Len(QUEUE') : QUEUE'[j] = q)
                        \/ Taken(u[q]) = Total(u[q])
      BY <2>4 DEF Waiting
    <3>1. CASE q = p
      BY <2>13, <3>1
    <3>2. CASE q \in DOMAIN pcb
      <4>1. \/ q = curr \/ (\E j \in 1 .. Len(QUEUE) : QUEUE[j] = q)
            \/ Taken(pcb[q]) = Total(pcb[q])
        BY <3>2 DEF Paging, Waiting
      <4> QED
        BY <1>2, <2>8, <2>12, <3>2, <4>1
    <3> QED
      BY <2>8, <3>1, <3>2
  <2>15. InStep'
    <3>1. \A k \in 1 .. Len(QUEUE') : AtTurn(pcb'[QUEUE'[k]], 0, 2)
      <4> SUFFICES ASSUME NEW k \in 1 .. Len(QUEUE')
                   PROVE  AtTurn(u[QUEUE'[k]], 0, 2)
        BY <2>4
      <4>1. k \in 1 .. Len(QUEUE) \/ k = Len(QUEUE) + 1
        BY <1>5, <2>4 DEF add_tail
      <4>2. CASE k \in 1 .. Len(QUEUE)
        <5>1. QUEUE'[k] = QUEUE[k] /\ QUEUE[k] \in DOMAIN pcb
          BY <1>5, <2>12, <4>2
        <5> QED
          BY <1>4, <2>8, <4>2, <5>1
      <4>3. CASE k = Len(QUEUE) + 1
        BY <2>7, <2>10, <2>13, <4>3
      <4> QED
        BY <4>1, <4>2, <4>3
    <3>2. (\A e \in Owned' : StampOf(pcb', e) <= 3) /\ curr' = 0
      BY <1>2, <1>4, <2>4, <2>5 DEF Owned
    <3> QED
      BY <1>5, <3>1, <3>2, RoundZero
  <2> QED
    BY <2>6, <2>11, <2>14, <2>15 DEF Paging
<1> QED
  BY <1>6, <1>7
-----------------------------------------------------------------------------
(* The scheduler.                                                           *)

\* Rounds are numbers.
LEMMA StampNat ==
  ASSUME Base, NEW e \in Owned
  PROVE  StampOf(pcb, e) \in Nat
<1>1. LRU_CACHE \in Seq(PageRefs(pcb))
  BY DEF Base, HistoryOK
<1>2. e \in PageRefs(pcb)
  BY <1>1 DEF Owned, Members
<1>3. e[1] \in DOMAIN pcb /\ e[2] \in DOMAIN pcb[e[1]].page_table
  BY <1>2, PageRefFacts
<1>4. pcb[e[1]] \in PCB
  BY <1>3 DEF Base, ProcsOK, PCBs
<1>5. e[2] \in Nat
  BY <1>3, <1>4, PageOf
<1> QED
  BY <1>5 DEF StampOf, Stamp

\* When all had their turn, the next round begins.
LEMMA SomeoneLeft ==
  ASSUME Base, InStep, curr = 0, QUEUE # <<>>
  PROVE  \E E, J : \E K \in 1 .. Len(QUEUE) : Phase(E, J) /\ Round(E, J, K)
<1>1. PICK E, J, K : /\ K \in 0 .. Len(QUEUE) /\ Phase(E, J) /\ Round(E, J, K)
  BY DEF InStep
<1>2. Len(QUEUE) \in Nat \ {0}
  BY DEF Base, QueueOK
<1>3. CASE K # 0
  <2>1. K \in 1 .. Len(QUEUE)
    BY <1>1, <1>2, <1>3
  <2> QED
    BY <1>1, <2>1
<1>4. CASE K = 0
  <2>1. PICK F, H, N : F = NextE(E, J) /\ H = NextJ(E, J) /\ N = Len(QUEUE)
    OBVIOUS
  <2>2. /\ Phase(F, H) /\ Cap(E, J) \in Nat /\ Cap(F, H) \in Nat /\ Cap(E, J) <= Cap(F, H)
    BY <1>1, <2>1, PhaseNext
  <2>3. \A k \in 1 .. Len(QUEUE) : AtTurn(pcb[QUEUE[k]], F, H)
    <3>1. \A k \in 1 .. Len(QUEUE) : k > K
      BY <1>2, <1>4
    <3> QED
      BY <1>1, <2>1, <3>1 DEF Round
  <2>4. \A e \in Owned : StampOf(pcb, e) <= Cap(F, H)
    <3> SUFFICES ASSUME NEW e \in Owned
                 PROVE  StampOf(pcb, e) <= Cap(F, H)
      OBVIOUS
    <3>1. StampOf(pcb, e) <= Cap(E, J)
      BY <1>1 DEF Round
    <3>2. StampOf(pcb, e) \in Nat
      BY StampNat
    <3> QED
      BY <2>2, <3>1, <3>2
  <2>5. \A k \in 1 .. Len(QUEUE) : ~(k > N)
    BY <1>2, <2>1
  <2>6. Round(F, H, N)
    BY <2>3, <2>4, <2>5 DEF Round
  <2>7. N \in 1 .. Len(QUEUE)
    BY <1>2, <2>1
  <2> QED
    BY <2>2, <2>6, <2>7
<1> QED
  BY <1>3, <1>4

\* A turn that begins keeps the invariant.
LEMMA PagingDispatch ==
  ASSUME RegularScripts, Base, Paging, Dispatch
  PROVE  Paging'
<1>1. PICK p : p = Head(QUEUE)
  OBVIOUS
<1>2. /\ curr = 0 /\ todo = <<>> /\ ~queue_done /\ QUEUE' = pop_head(QUEUE)
      /\ curr' = IF pcb[p].size >= 1 THEN p ELSE 0
      /\ step' = IF pcb[p].size > 1 THEN "first"
                 ELSE IF pcb[p].size = 1 THEN "only" ELSE "none"
      /\ UNCHANGED <<shellmemory, pcb, LRU_CACHE, todo, executed>>
  BY <1>1 DEF Dispatch, Scheduling
<1>3. QUEUE \in Seq(DOMAIN pcb) /\ DOMAIN pcb \subseteq Nat \ {0}
  BY DEF Base, QueueOK
<1>4. QUEUE # <<>>
  BY <1>2, <1>3 DEF queue_done
<1>5. /\ Len(QUEUE') = Len(QUEUE) - 1 /\ Len(QUEUE) \in Nat \ {0}
      /\ p = QUEUE[1] /\ p \in DOMAIN pcb
      /\ \A k \in 1 .. Len(QUEUE') : k + 1 \in 1 .. Len(QUEUE) /\ QUEUE'[k] = QUEUE[k + 1]
  BY <1>1, <1>2, <1>3, <1>4, Dequeued
<1>6. PICK P : P = pcb[p] /\ P \in PCB /\ ProcOK(P)
  BY <1>5 DEF Base, ProcsOK, PCBs
<1>7. /\ Taken(P) \in Nat /\ Total(P) \in Nat /\ P.size \in Nat /\ P.size = Total(P) - Taken(P)
  BY <1>6, Numbers
<1>8. PICK E, J : \E K \in 1 .. Len(QUEUE) : Phase(E, J) /\ Round(E, J, K)
  BY <1>2, <1>4, SomeoneLeft DEF Paging
<1>9. PICK K \in 1 .. Len(QUEUE) : Phase(E, J) /\ Round(E, J, K)
  BY <1>8
<1>10. Owned' = Owned
  BY <1>2 DEF Owned
<1>11. AtTurn(P, E, J) /\ E \in Nat /\ J \in Nat
  <2>1. 1 \in 1 .. Len(QUEUE) /\ 1 <= K
    BY <1>5, <1>9
  <2> QED
    BY <1>5, <1>6, <1>9, <2>1 DEF Round, Phase
<1>12. PICK H : H = K - 1 /\ H \in 0 .. Len(QUEUE')
  BY <1>5, <1>9
<1>13. ASSUME NEW k \in 1 .. Len(QUEUE')
       PROVE  /\ k <= H => AtTurn(pcb'[QUEUE'[k]], E, J)
              /\ k > H => AtTurn(pcb'[QUEUE'[k]], NextE(E, J), NextJ(E, J))
  <2>1. k + 1 \in 1 .. Len(QUEUE) /\ QUEUE'[k] = QUEUE[k + 1]
    BY <1>5
  <2>2. (k <= H => k + 1 <= K) /\ (k > H => k + 1 > K)
    BY <1>9, <1>12
  <2> QED
    BY <1>2, <1>9, <2>1, <2>2 DEF Round
<1>14. curr' # 0 => P.size >= 1 /\ curr' = p /\ step' # "second" /\ (step' = "only" <=> P.size = 1)
  BY <1>2, <1>3, <1>5, <1>6, <1>7
<1>15. curr' # 0 => Taken(P) = E /\ E < Total(P) /\ (P.size = 1 <=> E + 1 = Total(P))
  BY <1>7, <1>11, <1>14 DEF AtTurn, Least
<1>16. Round(E, J, H)'
  <2>1. \A e \in Owned' : StampOf(pcb', e) <= Cap(E, J)
    BY <1>2, <1>9, <1>10 DEF Round
  <2>2. curr' # 0 /\ step' # "second" =>
         /\ AtTurn(pcb'[curr'], E, J) /\ E < Total(pcb'[curr'])
         /\ step' = "only" <=> E + 1 = Total(pcb'[curr'])
    BY <1>2, <1>6, <1>11, <1>14, <1>15
  <2>3. ~(curr' # 0 /\ step' = "second")
    BY <1>14
  <2> QED
    BY <1>13, <2>1, <2>2, <2>3 DEF Round
<1>17. InStep'
  BY <1>2, <1>9, <1>11, <1>12, <1>16 DEF InStep
<1>18. Waiting'
  <2> SUFFICES ASSUME NEW q \in DOMAIN pcb
               PROVE  \/ q = curr' \/ (\E j \in 1 .. Len(QUEUE') : QUEUE'[j] = q)
                      \/ Taken(pcb[q]) = Total(pcb[q])
    BY <1>2 DEF Waiting
  <2>1. q # 0
    BY <1>3
  <2>2. (\E j \in 1 .. Len(QUEUE) : QUEUE[j] = q) \/ Taken(pcb[q]) = Total(pcb[q])
    BY <1>2, <2>1 DEF Paging, Waiting
  <2>3. CASE q = p
    BY <1>2, <1>6, <1>7, <2>3
  <2>4. ASSUME q # p, NEW j \in 1 .. Len(QUEUE), QUEUE[j] = q
        PROVE  \E k \in 1 .. Len(QUEUE') : QUEUE'[k] = q
    <3>1. PICK k : k = j - 1 /\ k \in 1 .. Len(QUEUE') /\ k + 1 = j
      BY <1>5, <2>4
    <3> QED
      BY <1>5, <2>4, <3>1
  <2> QED
    BY <2>2, <2>3, <2>4
<1>19. Layout(shellmemory, pcb, Owned)' /\ (\A q \in DOMAIN pcb : InTurn(pcb[q], executed[q]))'
  BY <1>2, <1>10 DEF Paging
<1>20. Sorted'
  BY <1>2 DEF Paging, Sorted
<1> QED
  BY <1>17, <1>18, <1>19, <1>20 DEF Paging

\* When the ready queue is done every process is at its end.
LEMMA AllAtEnd ==
  ASSUME RegularScripts, Base, Paging, Scheduling, queue_done, NEW p \in DOMAIN pcb
  PROVE  /\ pcb[p] \in PCB /\ ProcOK(pcb[p]) /\ Total(pcb[p]) \in Nat
         /\ Taken(pcb[p]) = Total(pcb[p]) /\ pcb[p].pos = Total(pcb[p])
         /\ \A i \in DOMAIN pcb[p].page_table : 3 * i < pcb[p].pos
<1>1. PICK P : P = pcb[p] /\ P \in PCB /\ ProcOK(P)
  BY DEF Base, ProcsOK, PCBs
<1>2. /\ P.script \in DOMAIN Program /\ Total(P) \in Nat \ {0}
      /\ Taken(P) \in Nat /\ Taken(P) <= Total(P) /\ P.pos \in Nat /\ P.pos <= Total(P)
      /\ \A i \in DOMAIN P.page_table : i \in Nat /\ 3 * i < Total(P)
  BY <1>1, Numbers
<1>3. Taken(P) <= P.pos
  BY <1>1 DEF Paging, Layout
<1>4. Taken(P) = Total(P)
  <2>1. p # curr
    BY DEF Base, QueueOK, Scheduling
  <2>2. (\E k \in 1 .. Len(QUEUE) : QUEUE[k] = p) \/ Taken(P) = Total(P)
    BY <1>1, <2>1 DEF Paging, Waiting
  <2>3. CASE \E k \in 1 .. Len(QUEUE) : QUEUE[k] = p
    <3>1. \A i \in DOMAIN P.page_table : P.page_table[i].pc = 3
      BY <1>1, <2>3 DEF queue_done, PCB_done
    <3>2. PICK n \in Nat \ {0} : n = TableSize(P.script) /\ count_lines(P.script) <= 3 * n
      BY <1>2, CountLines
    <3>3. count_lines(P.script) = Total(P)
      BY <1>2, RegularLines DEF Total
    <3>4. PICK i : i = n - 1 /\ i \in Nat /\ i \in DOMAIN P.page_table
      BY <1>1, <3>2 DEF ProcOK
    <3>5. Pc(Taken(P), i) = 3
      BY <1>1, <3>1, <3>4 DEF ProcOK
    <3>6. Taken(P) >= 3 * i + 3
      BY <1>2, <3>4, <3>5, PcFacts
    <3> QED
      BY <1>2, <3>2, <3>3, <3>4, <3>6
  <2> QED
    BY <2>2, <2>3
<1>5. P.pos = Total(P)
  BY <1>2, <1>3, <1>4
<1> QED
  BY <1>1, <1>2, <1>4, <1>5

\* Without processes the frame store is free.
LEMMA NoProcess ==
  ASSUME pcb' = <<>>, QUEUE' = <<>>, LRU_CACHE' = <<>>, curr' = 0,
         \A a \in FramePos : shellmemory'[a] = Free
  PROVE  Paging'
<1>1. DOMAIN pcb' = {} /\ Len(QUEUE') = 0 /\ Len(LRU_CACHE') = 0
  OBVIOUS
<1>2. Owned' = {} /\ Long(pcb') = {}
  BY <1>1 DEF Owned, Members, Long
<1>3. Layout(shellmemory, pcb, Owned)'
  BY <1>1, <1>2 DEF Layout
<1>4. Sorted'
  <2>1. Cardinality(Long(pcb')) = 0
    BY <1>2, FS_EmptySet
  <2> QED
    BY <1>1, <2>1 DEF Sorted, Distinct, Descending
<1>5. Waiting' /\ \A p \in DOMAIN pcb' : InTurn(pcb'[p], executed'[p])
  BY <1>1 DEF Waiting
<1>6. InStep'
  <2>1. <<>> \in Seq({})
    OBVIOUS
  <2>2. \A k \in 1 .. Len(QUEUE') : AtTurn(pcb'[QUEUE'[k]], 0, 2)
    BY <1>1
  <2>3. \A e \in Owned' : StampOf(pcb', e) <= 3
    BY <1>2
  <2>4. QUEUE' \in Seq({})
    BY <2>1
  <2> QED
    BY <2>2, <2>3, <2>4, RoundZero
<1> QED
  BY <1>3, <1>4, <1>5, <1>6 DEF Paging

\* At the prompt there is no process.
LEMMA AtPrompt ==
  ASSUME Base, Paging, mode = "shell"
  PROVE  /\ pcb = <<>> /\ QUEUE = <<>> /\ LRU_CACHE = <<>> /\ curr = 0
         /\ \A a \in FramePos : shellmemory[a] = Free
<1>1. pcb = <<>> /\ QUEUE = <<>> /\ LRU_CACHE = <<>> /\ curr = 0
  BY DEF Base, QueueOK
<1>2. Owned = {}
  BY <1>1 DEF Owned, Members
<1> QED
  BY <1>1, <1>2 DEF Paging, Layout

\* The end of the exec keeps the invariant: all frames are free again.
LEMMA PagingFinish ==
  ASSUME RegularScripts, Base, Paging, Finish
  PROVE  Paging'
<1>1. /\ Scheduling /\ queue_done /\ shellmemory' = mem_free(shellmemory, Cleared)
      /\ pcb' = <<>> /\ QUEUE' = <<>> /\ LRU_CACHE' = <<>> /\ curr' = curr /\ curr = 0
  BY DEF Finish, Scheduling
<1>2. ASSUME NEW a \in FramePos
      PROVE  shellmemory'[a] = Free
  <2>1. PICK n : n = shellmemory' /\ n = mem_free(shellmemory, Cleared)
    BY <1>1
  <2>2. n[a] = IF a \in Cleared THEN Free ELSE shellmemory[a]
    <3>1. MemOK(shellmemory) /\ a \in Pos
      BY Positions DEF Base
    <3> QED
      BY <2>1, <3>1, FreeMem
  <2>3. shellmemory[a] = Free \/ a \in Cleared
    <3>1. Layout(shellmemory, pcb, Owned)
      BY DEF Paging
    <3>2. CASE shellmemory[a] = Free
      BY <3>2
    <3>3. ASSUME NEW e \in Owned, InFrame(a, pcb, e)
          PROVE  a \in Cleared
      <4>1. /\ e[1] \in DOMAIN pcb /\ e[2] \in DOMAIN pcb[e[1]].page_table
            /\ Page(pcb, e) = pcb[e[1]].page_table[e[2]] /\ Page(pcb, e).index[0] \in Nat
        BY <3>1, InPlace
      <4>2. PICK p, i, x : /\ p = e[1] /\ i = e[2] /\ x = pcb[p].page_table[i].index[0] /\ x \in Nat
                           /\ p \in DOMAIN pcb /\ i \in DOMAIN pcb[p].page_table
        BY <4>1
      <4>3. a \in x .. x + 2
        BY <3>3, <4>1, <4>2 DEF InFrame
      <4>4. PICK d \in Offset : a = x + d
        <5>1. a - x \in Offset /\ a = x + (a - x)
          BY <4>2, <4>3 DEF Offset
        <5> QED
          BY <5>1
      <4>5. 0 \in Offset /\ a \in Pos
        BY Positions DEF Offset
      <4> QED
        BY <4>2, <4>4, <4>5 DEF Cleared
    <3> QED
      BY <3>1, <3>2, <3>3 DEF Layout
  <2> QED
    BY <2>1, <2>2, <2>3
<1> QED
  BY <1>1, <1>2, NoProcess

LEMMA PagingInit ==
  ASSUME Init
  PROVE  Paging
<1>1. /\ pcb = <<>> /\ QUEUE = <<>> /\ LRU_CACHE = <<>> /\ curr = 0 /\ todo = <<>>
      /\ shellmemory = mem_init
  BY DEF Init
<1>2. DOMAIN pcb = {} /\ Len(QUEUE) = 0 /\ Len(LRU_CACHE) = 0
  BY <1>1
<1>3. Owned = {} /\ Long(pcb) = {}
  BY <1>2 DEF Owned, Members, Long
<1>4. Layout(shellmemory, pcb, Owned)
  <2>1. \A a \in FramePos : shellmemory[a] = Free
    BY <1>1, Positions DEF mem_init
  <2> QED
    BY <1>2, <1>3, <2>1 DEF Layout
<1>5. Sorted
  <2>1. Cardinality(Long(pcb)) = 0
    BY <1>3, FS_EmptySet
  <2> QED
    BY <1>2, <2>1 DEF Sorted, Distinct, Descending
<1>6. Waiting /\ \A p \in DOMAIN pcb : InTurn(pcb[p], executed[p])
  BY <1>2 DEF Waiting
<1>7. InStep
  <2>1. Phase(0, 2) /\ 0 \in 0 .. Len(QUEUE)
    BY <1>2 DEF Phase
  <2>2. Round(0, 2, 0)
    BY <1>1, <1>2, <1>3 DEF Round
  <2> QED
    BY <1>1, <2>1, <2>2 DEF InStep
<1> QED
  BY <1>4, <1>5, <1>6, <1>7 DEF Paging
-----------------------------------------------------------------------------
(* The invariant and what it implies.                                       *)

LEMMA PagingStep ==
  ASSUME RegularScripts, Base, Paging, [Next]_vars
  PROVE  Paging'
<1>0. Base'
  BY BaseStep
<1>1. CASE mode = "shell" /\ UNCHANGED <<pcb, QUEUE, LRU_CACHE, curr>>
           /\ \A a \in FramePos : shellmemory'[a] = shellmemory[a]
  <2>1. /\ pcb = <<>> /\ QUEUE = <<>> /\ LRU_CACHE = <<>> /\ curr = 0
        /\ \A a \in FramePos : shellmemory[a] = Free
    BY <1>1, AtPrompt
  <2> QED
    BY <1>1, <2>1, NoProcess
<1>2. ASSUME NEW v \in Var, NEW x \in Value, set(v, x)
      PROVE  Paging'
  <2>1. \A a \in FramePos : shellmemory'[a] = shellmemory[a]
    BY <1>2, BaseSet
  <2> QED
    BY <1>1, <1>2, <2>1 DEF set, kernelVars
<1>3. CASE resetmem
  <2>1. \A a \in FramePos : shellmemory'[a] = shellmemory[a]
    BY <1>3, BaseReset
  <2> QED
    BY <1>1, <1>3, <2>1 DEF resetmem, kernelVars
<1>4. ASSUME NEW scripts, exec(scripts)
      PROVE  Paging'
  BY <1>1, <1>4 DEF exec
<1>5. CASE new_proc
  BY <1>0, <1>5, PagingNew
<1>6. CASE Dispatch
  BY <1>6, PagingDispatch
<1>7. CASE run_proc
  <2>1. PICK P, i : P = pcb[curr] /\ i = CurrentPage(P)
    OBVIOUS
  <2>2. curr # 0
    BY <1>7 DEF run_proc
  <2>3. Taken(P) \in Nat /\ P.pos \in Nat /\ Taken(P) <= P.pos
    BY <2>1, <2>2, OnTurn
  <2>4. Taken(pcb[curr]) < pcb[curr].pos \/ Taken(pcb[curr]) = pcb[curr].pos
    BY <2>1, <2>3
  <2> QED
    BY <1>7, <2>4, PagingRun, PagingFault
<1>8. CASE Finish
  BY <1>8, PagingFinish
<1>9. CASE UNCHANGED vars
  <2>1. /\ UNCHANGED <<shellmemory, pcb, executed, todo, curr, step>>
        /\ UNCHANGED <<QUEUE, LRU_CACHE>>
    BY <1>9 DEF vars
  <2>2. Owned' = Owned
    BY <2>1 DEF Owned
  <2>3. InStep' /\ Waiting' /\ Sorted'
    BY <2>1, <2>2 DEF Paging, InStep, Round, Waiting, Sorted
  <2> QED
    BY <2>1, <2>2, <2>3 DEF Paging
<1>10. CASE Exited
  BY <1>9, <1>10 DEF Exited
<1> QED
  BY <1>2, <1>3, <1>4, <1>5, <1>6, <1>7, <1>8, <1>9, <1>10 DEF Next, run_proc_RR

\* Round robin keeps the processes in step, the LRU list is sorted by the rounds in
\* which its pages were last used, and a page that was evicted has no line left to
\* run (kernel.c:46-61, 123-184, pcb.c:86-94, shellmemory.c:67-102), whatever the
\* number of processes, of their lines and of the frames.
THEOREM PagingInvariant == RegularScripts /\ Spec => []Paging
<1>1. ASSUME RegularScripts
      PROVE  Spec => []Paging
  <2>1. Init => Paging
    BY PagingInit
  <2>2. Base /\ Paging /\ [Next]_vars => Paging'
    BY <1>1, PagingStep
  <2> QED
    BY <2>1, <2>2, BaseInvariant, PTL DEF Spec
<1> QED
  BY <1>1

\* As many lines were run as the kernel counts.
LEMMA RunSoFar ==
  ASSUME RegularScripts, Base, Paging, NEW p \in DOMAIN pcb
  PROVE  /\ pcb[p] \in PCB /\ ProcOK(pcb[p]) /\ Len(executed[p]) = Taken(pcb[p])
         /\ Taken(pcb[p]) \in Nat /\ Total(pcb[p]) \in Nat
         /\ executed[p] = [k \in 1 .. Taken(pcb[p]) |-> <<pcb[p].script, k>>]
<1>1. PICK P : P = pcb[p] /\ P \in PCB /\ ProcOK(P)
  BY DEF Base, ProcsOK, PCBs
<1>2. Taken(P) \in Nat /\ Total(P) \in Nat
  BY <1>1, Numbers
<1>3. PICK ex, n : ex = executed[p] /\ n = Taken(P) /\ n \in Nat
  BY <1>2
<1>4. ex = [k \in 1 .. n |-> <<P.script, k>>]
  BY <1>1, <1>3 DEF Paging, InTurn
<1>5. Len(ex) = n
  BY <1>3, <1>4
<1> QED
  BY <1>1, <1>2, <1>3, <1>4, <1>5

\* Each process runs the lines of its own script, from the first on, none skipped and
\* none twice, whatever is evicted in between (cpu.c:16-26, kernel.c:131-151).
THEOREM ScriptsInOrder == RegularScripts /\ Spec => []InOrder
<1>1. ASSUME RegularScripts
      PROVE  Spec => []InOrder
  <2>1. Base /\ Paging => InOrder
    <3> SUFFICES ASSUME Base, Paging, NEW p \in DOMAIN pcb
                 PROVE  executed[p] = [k \in 1 .. Len(executed[p]) |-> <<pcb[p].script, k>>]
      BY DEF InOrder
    <3>1. /\ Len(executed[p]) = Taken(pcb[p])
          /\ executed[p] = [k \in 1 .. Taken(pcb[p]) |-> <<pcb[p].script, k>>]
      BY <1>1, RunSoFar
    <3> QED
      BY <3>1
  <2> QED
    BY <1>1, <2>1, BaseInvariant, PagingInvariant, PTL
<1> QED
  BY <1>1

\* A line that was read and not yet run is in the frame of its page.
LEMMA LineKept ==
  ASSUME RegularScripts, Base, Paging, NEW p \in DOMAIN pcb,
         NEW k \in Len(executed[p]) + 1 .. pcb[p].pos,
         NEW i, i = (k - 1) \div 3, NEW j, j = (k - 1) % 3,
         NEW g, g = pcb[p].page_table[i]
  PROVE  g.valid[j] /\ shellmemory[g.index[j]] = [var |-> p, value |-> <<pcb[p].script, k>>]
<1>1. PICK P, u : P = pcb[p] /\ u = Taken(P)
  OBVIOUS
<1>2. P \in PCB /\ ProcOK(P) /\ Len(executed[p]) = u /\ u \in Nat
  BY <1>1, RunSoFar
<1>3. /\ Total(P) \in Nat /\ P.pos \in Nat /\ P.pos <= Total(P)
      /\ \A x \in Nat : 3 * x < Total(P) => x \in DOMAIN P.page_table
  BY <1>2, Numbers
<1>4. k \in Nat /\ u < k /\ k <= P.pos
  BY <1>1, <1>2, <1>3
<1>5. i \in Nat /\ j \in Offset /\ k = 3 * i + j + 1
  <2>1. PICK a \in Nat : a = k - 1
    BY <1>2, <1>4
  <2>2. a \div 3 \in Nat /\ a % 3 \in 0 .. 2 /\ a = 3 * (a \div 3) + (a % 3)
    OBVIOUS
  <2>3. i \in Nat /\ j \in 0 .. 2 /\ a = 3 * i + j
    BY <2>1, <2>2
  <2> QED
    BY <1>4, <2>1, <2>3 DEF Offset
<1>6. i \in DOMAIN P.page_table /\ 3 * i < P.pos
  BY <1>3, <1>4, <1>5 DEF Offset
<1>7. Layout(shellmemory, pcb, Owned)
  BY DEF Paging
<1>8. <<p, i>> \in Owned
  <2> SUFFICES ASSUME <<p, i>> \notin Owned
               PROVE  FALSE
    OBVIOUS
  <2>1. Absent(P, i)
    BY <1>1, <1>6, <1>7 DEF Layout
  <2>2. u = Total(P) \/ u >= 3 * i + 3
    BY <1>1, <1>6, <2>1 DEF Absent, Done
  <2> QED
    BY <1>2, <1>3, <1>4, <1>5, <2>2 DEF Offset
<1>9. Resident(shellmemory, P, p, i)
  BY <1>1, <1>6, <1>7, <1>8 DEF Layout
<1>10. /\ IsLoaded(g) /\ (g.valid[j] <=> 3 * i + j + 1 <= P.pos)
       /\ shellmemory[g.index[0] + j] = [var |-> p, value |-> Stored(P, i, j)]
  BY <1>1, <1>5, <1>9 DEF Resident
<1>11. g.valid[j]
  BY <1>4, <1>5, <1>10
<1>12. g.index[j] = g.index[0] + j
  <2>1. PICK x : x = g.index[0] /\ x \in Nat /\ g.index[1] = x + 1 /\ g.index[2] = x + 2
    BY <1>10 DEF IsLoaded, FramePos
  <2>2. j = 0 \/ j = 1 \/ j = 2
    BY <1>5 DEF Offset
  <2>3. x + 0 = x
    BY <2>1
  <2> QED
    BY <2>1, <2>2, <2>3
<1>13. Stored(P, i, j) = <<P.script, k>>
  <2>1. 3 * i + j + 1 <= P.pos /\ 3 * i + j + 1 = k
    BY <1>4, <1>5
  <2> QED
    BY <2>1 DEF Stored
<1> QED
  BY <1>1, <1>10, <1>11, <1>12, <1>13

\* The script is read once, and yet no line is lost: one that was read and not yet run
\* is in memory, at the place its page says, so an eviction never takes a page that is
\* still needed (pcb.c:86-94, kernel.c:46-59).
THEOREM NoLineIsLost == RegularScripts /\ Spec => []NoLostLines
<1>1. ASSUME RegularScripts
      PROVE  Spec => []NoLostLines
  <2>1. Base /\ Paging => NoLostLines
    <3> SUFFICES ASSUME Base, Paging, NEW p \in DOMAIN pcb,
                        NEW k \in Len(executed[p]) + 1 .. pcb[p].pos
                 PROVE  LET page == pcb[p].page_table[(k - 1) \div 3]
                            j == (k - 1) % 3
                        IN /\ page.valid[j]
                           /\ shellmemory[page.index[j]] = [var |-> p, value |-> <<pcb[p].script, k>>]
      BY Zenon DEF NoLostLines
    <3>1. PICK i, j, g : i = (k - 1) \div 3 /\ j = (k - 1) % 3 /\ g = pcb[p].page_table[i]
      OBVIOUS
    <3>2. g.valid[j] /\ shellmemory[g.index[j]] = [var |-> p, value |-> <<pcb[p].script, k>>]
      BY <1>1, <3>1, LineKept
    <3> QED
      BY <3>1, <3>2, Zenon
  <2> QED
    BY <1>1, <2>1, BaseInvariant, PagingInvariant, PTL
<1> QED
  BY <1>1

\* When the kernel frees the processes, each has run its whole script: none is dropped
\* from the ready queue early (kernel.c:125, 158-173), and every page that is cleared
\* was loaded (pcb.c:140-143).
THEOREM ScriptsRunToTheEnd == RegularScripts /\ Spec => []AllLinesRun
<1>1. ASSUME RegularScripts
      PROVE  Spec => []AllLinesRun
  <2>1. Base /\ Paging => AllLinesRun
    <3> SUFFICES ASSUME Base, Paging, Scheduling, queue_done, NEW p \in DOMAIN pcb
                 PROVE  /\ Len(executed[p]) = Len(Program[pcb[p].script])
                        /\ \A i \in DOMAIN pcb[p].page_table :
                             pcb[p].page_table[i].index[0] # Unmapped
      BY DEF AllLinesRun
    <3>1. PICK P : P = pcb[p]
      OBVIOUS
    <3>2. /\ P \in PCB /\ Taken(P) = Total(P)
          /\ \A i \in DOMAIN P.page_table : 3 * i < P.pos
      BY <1>1, <3>1, AllAtEnd
    <3>3. Len(executed[p]) = Total(P)
      BY <1>1, <3>1, <3>2, RunSoFar
    <3>4. ASSUME NEW i \in DOMAIN P.page_table
          PROVE  P.page_table[i].index[0] # Unmapped
      <4>1. Resident(shellmemory, P, p, i) \/ Absent(P, i)
        BY <3>1, <3>4 DEF Paging, Layout
      <4>2. CASE Resident(shellmemory, P, p, i)
        <5>1. PICK x \in Nat : P.page_table[i].index[0] = 3 * x
          BY <4>2 DEF Resident, Aligned
        <5> QED
          BY <5>1 DEF Unmapped
      <4>3. CASE Absent(P, i)
        <5>1. P.page_table[i].index = Everywhere(0)
          BY <3>2, <3>4, <4>3 DEF Absent
        <5> QED
          BY <5>1 DEF Everywhere, Offset, Unmapped
      <4> QED
        BY <4>1, <4>2, <4>3
    <3> QED
      BY <3>1, <3>3, <3>4 DEF Total
  <2> QED
    BY <1>1, <2>1, BaseInvariant, PagingInvariant, PTL
<1> QED
  BY <1>1

\* The pages of the LRU list are distinct, each owns a frame of its own, and no other
\* line of the frame store is taken: an eviction always frees a frame and no frame
\* leaks (kernel.c:46-61, shellmemory.c:67-87).
THEOREM FramesAreOwned == RegularScripts /\ Spec => []FramesAccounted
<1>1. Base /\ Paging => FramesAccounted
  <2> SUFFICES ASSUME Base, Paging
               PROVE  FramesAccounted
    OBVIOUS
  <2> DEFINE Start(k) == pcb[LRU_CACHE[k][1]].page_table[LRU_CACHE[k][2]].index[0]
             Frame(k) == {Start(k) + o : o \in Offset}
             D == 1 .. Len(LRU_CACHE)
  <2>1. Layout(shellmemory, pcb, Owned) /\ ProcsOK(pcb) /\ DOMAIN pcb \subseteq Nat
    BY DEF Base, Paging, QueueOK
  <2>2. ASSUME NEW k \in D
        PROVE  /\ LRU_CACHE[k] \in Owned /\ Start(k) = Page(pcb, LRU_CACHE[k]).index[0]
               /\ Start(k) \in Nat /\ LRU_CACHE[k][1] \in Nat
               /\ \A o \in Offset : shellmemory[Start(k) + o].var = LRU_CACHE[k][1]
    <3>1. PICK e : e = LRU_CACHE[k] /\ e \in Owned
      BY DEF Owned, Members
    <3>2. Page(pcb, e).index[0] \in Nat /\ e[1] \in DOMAIN pcb
      BY <2>1, <3>1, InPlace
    <3>3. \A o \in Offset : shellmemory[Page(pcb, e).index[0] + o].var = e[1]
      BY <2>1, <3>1, Holds
    <3>4. Start(k) = Page(pcb, e).index[0]
      BY <3>1 DEF Page
    <3> HIDE DEF Start
    <3> QED
      BY <2>1, <3>1, <3>2, <3>3, <3>4
  <2>3. \A e \in Owned : \E k \in D : e = LRU_CACHE[k]
    BY DEF Owned, Members
  <2>4. ASSUME NEW k \in D, NEW l \in D, k # l
        PROVE  LRU_CACHE[k] # LRU_CACHE[l] /\ Frame(k) \cap Frame(l) = {}
    <3>1. LRU_CACHE[k] # LRU_CACHE[l]
      BY <2>4 DEF Paging, Sorted, Distinct
    <3>2. PICK e \in Owned, f \in Owned : e = LRU_CACHE[k] /\ f = LRU_CACHE[l] /\ e # f
      BY <2>2, <3>1
    <3>3. \/ Page(pcb, e).index[0] + 3 <= Page(pcb, f).index[0]
          \/ Page(pcb, f).index[0] + 3 <= Page(pcb, e).index[0]
      BY <2>1, <3>2, Apart
    <3>4. PICK a \in Nat, b \in Nat : a = Start(k) /\ b = Start(l) /\ (a + 3 <= b \/ b + 3 <= a)
      BY <2>2, <3>2, <3>3
    <3>5. {a + o : o \in Offset} \cap {b + o : o \in Offset} = {}
      <4>1. ASSUME NEW o \in Offset, NEW q \in Offset
            PROVE  a + o # b + q
        <5>1. a \in Nat /\ b \in Nat /\ (a + 3 <= b \/ b + 3 <= a)
          BY <3>4
        <5>2. o \in Nat /\ q \in Nat /\ o <= 2 /\ q <= 2
          BY <4>1 DEF Offset
        <5> QED
          BY <5>1, <5>2
      <4> QED
        BY <4>1
    <3> QED
      BY <3>1, <3>4, <3>5
  <2>5. ASSUME NEW a \in FramePos
        PROVE  shellmemory[a].var # None <=> \E k \in D : a \in Start(k) .. Start(k) + 2
    <3>1. ASSUME shellmemory[a].var # None
          PROVE  \E k \in D : a \in Start(k) .. Start(k) + 2
      <4>1. shellmemory[a] # Free
        BY <3>1 DEF Free
      <4>2. PICK e \in Owned : InFrame(a, pcb, e)
        BY <2>1, <4>1 DEF Layout
      <4>3. PICK k \in D : e = LRU_CACHE[k]
        BY <2>3
      <4>4. Start(k) = Page(pcb, e).index[0]
        BY <4>3 DEF Page
      <4> HIDE DEF Start
      <4> QED
        BY <4>2, <4>3, <4>4 DEF InFrame
    <3>2. ASSUME NEW k \in D, a \in Start(k) .. Start(k) + 2
          PROVE  shellmemory[a].var # None
      <4>1. PICK x \in Nat : x = Start(k)
        BY <2>2
      <4>2. PICK o \in Offset : a = x + o
        <5> HIDE DEF Start
        <5>1. a \in x .. x + 2
          BY <3>2, <4>1
        <5>2. a \in Nat
          BY Positions
        <5>3. PICK d \in Int : d = a - x
          BY <4>1, <5>2
        <5>4. d \in Offset /\ a = x + d
          BY <4>1, <5>1, <5>2, <5>3 DEF Offset
        <5> QED
          BY <5>4
      <4>3. shellmemory[a].var = LRU_CACHE[k][1] /\ LRU_CACHE[k][1] \in Nat
        BY <2>2, <4>1, <4>2
      <4> QED
        BY <4>3, NameAssumption
    <3> QED
      BY <3>1, <3>2
  <2> QED
    BY <2>2, <2>4, <2>5, Zenon DEF FramesAccounted
<1>2. ASSUME RegularScripts
      PROVE  Spec => []FramesAccounted
  BY <1>1, <1>2, BaseInvariant, PagingInvariant, PTL
<1> QED
  BY <1>2
-----------------------------------------------------------------------------
(* Variables.  The lines that bear a name bear different ones and hold what *)
(* was last set.                                                            *)

VarsOK(m, e) ==
  /\ \A a \in VarPos : m[a].var \in Var \cup {None}
  /\ \A a, b \in VarPos : m[a].var = m[b].var => a = b \/ m[a].var = None
  /\ \A a \in VarPos : m[a].var # None => m[a].value = e[m[a].var]

\* A variable without a line after a step had none before, or its line was
\* cleared by free_PCB.
Lasts(m, e, n, f, v) ==
  LinesNamed(n, v) = {} =>
    \/ f[v] = None
    \/ f[v] = e[v] /\ LinesNamed(m, v) = {}
    \/ /\ mode = "exec" /\ mode' = "shell"
       /\ LinesNamed(m, v) # {} /\ First(LinesNamed(m, v)) <= LastCleared

Carries(m, e, n, f) == VarsOK(n, f) /\ \A v \in Var : Lasts(m, e, n, f, v)

SameVars(m, n) == \A a \in VarPos : n[a] = m[a]

\* Where only frames change, variables do not.
LEMMA VarsSame ==
  ASSUME NEW m, NEW n, NEW e, VarsOK(m, e), SameVars(m, n)
  PROVE  Carries(m, e, n, e)
<1>1. \A v \in Var : LinesNamed(n, v) = LinesNamed(m, v)
  BY DEF LinesNamed, SameVars
<1>2. VarsOK(n, e)
  BY <1>1 DEF VarsOK, SameVars
<1> QED
  BY <1>1, <1>2 DEF Carries, Lasts

\* The store has a line for every variable: when none is free, all have theirs.
LEMMA VarsRoom ==
  ASSUME Cardinality(Var) <= VAR_STORE_SIZE, NEW m, NEW e, VarsOK(m, e), NEW v \in Var,
         LinesNamed(m, v) = {}
  PROVE  LinesNamed(m, None) # {}
<1> SUFFICES ASSUME LinesNamed(m, None) = {}
             PROVE  FALSE
  OBVIOUS
<1>1. \A a \in VarPos : m[a].var \in Var \ {v}
  BY DEF LinesNamed, VarsOK
<1>2. PICK f : f = [a \in VarPos |-> m[a].var]
  OBVIOUS
<1>3. f \in [VarPos -> Var \ {v}]
  BY <1>1, <1>2
<1>4. IsFiniteSet(VarPos) /\ Cardinality(VarPos) = VAR_STORE_SIZE
  <2>1. PICK x \in Nat, y \in Nat : x = FRAME_STORE_SIZE /\ y = FRAME_STORE_SIZE + VAR_STORE_SIZE - 1
                                    /\ x < y
    OBVIOUS
  <2>2. VarPos = x .. y
    BY <2>1 DEF VarPos, Pos, FramePos
  <2>3. IsFiniteSet(x .. y) /\ Cardinality(x .. y) = IF x > y THEN 0 ELSE y - x + 1
    BY <2>1, FS_Interval
  <2> QED
    BY <2>1, <2>2, <2>3
<1>5. IsFiniteSet(Var) /\ Cardinality(Var) \in Nat
  BY NameAssumption, FS_CardinalityType
<1>6. IsFiniteSet(Var \ {v}) /\ Cardinality(Var \ {v}) = Cardinality(Var) - 1
  BY <1>5, FS_RemoveElement
<1>7. Cardinality(Var \ {v}) < Cardinality(VarPos)
  BY <1>4, <1>5, <1>6
<1>8. \E a, b \in VarPos : a # b /\ f[a] = f[b]
  BY <1>3, <1>4, <1>6, <1>7, FS_PigeonHole
<1> QED
  BY <1>1, <1>2, <1>8, NameAssumption DEF VarsOK

\* mem_set_value gives the variable its value.
LEMMA VarsSet ==
  ASSUME Cardinality(Var) <= VAR_STORE_SIZE, NEW m, MemOK(m),
         NEW e \in [Var -> Value \cup {None}], VarsOK(m, e),
         NEW v \in Var, NEW x \in Value \cup {None}, NEW n, n = mem_set_value(m, v, x)
  PROVE  Carries(m, e, n, [e EXCEPT ![v] = x])
<1>1. PICK f : f = [e EXCEPT ![v] = x]
  OBVIOUS
<1>2. f[v] = x /\ \A w \in Var : w # v => f[w] = e[w]
  BY <1>1
<1>3. PICK a \in VarPos :
        /\ n = With(m, a, [var |-> v, value |-> x])
        /\ a \in LinesNamed(m, v) \/ (LinesNamed(m, v) = {} /\ a \in LinesNamed(m, None))
  BY SetEffect, VarsRoom
<1>4. n[a].var = v /\ n[a].value = x /\ \A b \in VarPos : b # a => n[b] = m[b]
  BY <1>3, Positions DEF MemOK, With
<1>5. v # None
  BY NameAssumption
<1>6. \A b \in VarPos : b # a => m[b].var # v
  BY <1>3, <1>5 DEF VarsOK, LinesNamed
<1>7. m[a].var = v \/ m[a].var = None
  BY <1>3 DEF LinesNamed
<1>8. \A b \in VarPos : n[b].var \in Var \cup {None}
  BY <1>4 DEF VarsOK
<1>9. \A b, c \in VarPos : n[b].var = n[c].var => b = c \/ n[b].var = None
  BY <1>4, <1>6 DEF VarsOK
<1>10. \A b \in VarPos : n[b].var # None => n[b].value = f[n[b].var]
  BY <1>2, <1>4, <1>6 DEF VarsOK
<1>11. ASSUME NEW w \in Var, LinesNamed(n, w) = {}
       PROVE  f[w] = e[w] /\ LinesNamed(m, w) = {}
  <2>1. w # v
    BY <1>4, <1>11 DEF LinesNamed
  <2>2. LinesNamed(m, w) = {}
    BY <1>4, <1>5, <1>7, <1>11, <2>1, NameAssumption DEF LinesNamed
  <2> QED
    BY <1>2, <2>1, <2>2
<1>12. Carries(m, e, n, f)
  BY <1>8, <1>9, <1>10, <1>11 DEF VarsOK, Carries, Lasts
<1> QED
  BY <1>1, <1>12

\* A page is loaded into a frame.
LEMMA VarsLoad ==
  ASSUME NEW st, StOK(st), NEW p \in DOMAIN st.pcb, p \in Nat,
         NEW i \in DOMAIN st.pcb[p].page_table, NEW b \in FramePos, Fits(st.mem, b),
         NEW r, r = load_PAGE(st, p, i, b)
  PROVE  SameVars(st.mem, r.mem)
<1>1. \A a \in Pos : a \notin b .. b + 2 => r.mem[a] = st.mem[a]
  <2>1. PICK m, n, t : m = st.mem /\ n = r.mem /\ t = st.pcb
    OBVIOUS
  <2>2. ProcsOK(t) /\ MemOK(m) /\ p \in DOMAIN t /\ b + 2 \in FramePos
        /\ n = load_PAGE(st, p, i, b).mem
    BY <2>1, Place DEF StOK
  <2>3. \A a \in Pos : a \notin b .. b + 2 => n[a] = m[a]
    BY <2>1, <2>2, LoadMem
  <2> QED
    BY <2>1, <2>3
<1>2. b + 2 \in FramePos
  BY Place
<1>3. b .. b + 2 \subseteq FramePos
  BY <1>2 DEF FramePos
<1> QED
  BY <1>1, <1>3, Positions DEF SameVars

LEMMA VarsLoads ==
  ASSUME NEW st, StOK(st), NEW p \in DOMAIN st.pcb, p \in Nat,
         NEW i \in DOMAIN st.pcb[p].page_table, NEW r, Loads(st, r, p, i)
  PROVE  SameVars(st.mem, r.mem)
  BY VarsLoad DEF Loads

\* A line that sets a variable sets it in both.
LEMMA VarsRun ==
  ASSUME RegularScripts, Cardinality(Var) <= VAR_STORE_SIZE, Base, Paging,
         VarsOK(shellmemory, env), run_proc, Taken(pcb[curr]) < pcb[curr].pos
  PROVE  Carries(shellmemory, env, shellmemory', env')
<1>1. PICK P : P = pcb[curr]
  OBVIOUS
<1>2. PICK i : i = CurrentPage(P)
  OBVIOUS
<1>3. curr # 0 /\ \E j, c, st, r : RunPath(j, c, st, r)
  BY RunProc
<1>4. PICK j, c, st, r : RunPath(j, c, st, r)
  BY <1>3
<1>5. /\ j = i /\ c = cpu_run(curr, i) /\ shellmemory' = r.mem /\ env' = c.env
      /\ \/ run_proc_ok(curr, i, c) /\ r = c
         \/ run_proc_fault(curr, i, c)
  BY <1>1, <1>2, <1>4 DEF RunPath
<1>6. Runs(curr, i) /\ Command(LineAt(curr, i)).ret # 1
  BY <1>1, <1>2, <1>3, NextLine
<1>7. /\ MemOK(shellmemory) /\ ProcsOK(pcb) /\ env \in [Var -> Value \cup {None}]
      /\ curr \in DOMAIN pcb /\ pcb[curr].size >= 1
  BY <1>3 DEF Base, QueueOK, HistoryOK
<1>8. LineAt(curr, i) \in LineRef \cup {None} /\ Obeys(c, Command(LineAt(curr, i)))
  BY <1>1, <1>2, <1>5, <1>6, <1>7, CpuRuns
<1>9. PICK line : line = Command(LineAt(curr, i))
  OBVIOUS
<1>10. line.var \in Var \cup {None} /\ line.value \in Value \cup {None} /\ Obeys(c, line)
  BY <1>8, <1>9, CommandIsLine
<1>11. shellmemory' = c.mem /\ env' = c.env
  <2>1. c.ret # 1
    BY <1>6, <1>9, <1>10 DEF Obeys
  <2> QED
    BY <1>5, <2>1 DEF run_proc_fault, requeue
<1>12. CASE line.var = None
  <2>1. shellmemory' = shellmemory /\ env' = env
    BY <1>10, <1>11, <1>12 DEF Obeys
  <2> QED
    BY <2>1, VarsSame DEF SameVars
<1>13. CASE line.var # None
  <2>1. PICK v, x : v = line.var /\ x = line.value /\ v \in Var /\ x \in Value \cup {None}
    BY <1>10, <1>13
  <2>2. shellmemory' = mem_set_value(shellmemory, v, x) /\ env' = [env EXCEPT ![v] = x]
    BY <1>10, <1>11, <1>13, <2>1 DEF Obeys
  <2>3. Carries(shellmemory, env, mem_set_value(shellmemory, v, x), [env EXCEPT ![v] = x])
    BY <1>7, <2>1, VarsSet
  <2> QED
    BY <2>2, <2>3
<1> QED
  BY <1>12, <1>13

LEMMA VarsFault ==
  ASSUME RegularScripts, Base, Paging, VarsOK(shellmemory, env), run_proc,
         Taken(pcb[curr]) = pcb[curr].pos
  PROVE  Carries(shellmemory, env, shellmemory', env')
<1>1. PICK P : P = pcb[curr]
  OBVIOUS
<1>2. PICK i : i = CurrentPage(P)
  OBVIOUS
<1>3. curr # 0 /\ \E j, c, s, r : RunPath(j, c, s, r)
  BY RunProc
<1>4. /\ curr \in DOMAIN pcb /\ curr \in Nat /\ i \in DOMAIN P.page_table
      /\ Taken(P) \in Nat /\ Total(P) \in Nat /\ Taken(P) < Total(P) /\ Taken(P) = P.pos
  BY <1>1, <1>2, <1>3, OnTurn
<1>5. PICK E, J, K : /\ K \in 0 .. Len(QUEUE) /\ Phase(E, J) /\ Round(E, J, K)
  BY DEF Paging, InStep
<1>6. Taken(P) \in {E, E + 1} /\ P.pos = Least(3 * J, Total(P)) /\ J \in Nat
  BY <1>1, <1>3, <1>4, <1>5, InRound DEF Phase
<1>7. P.pos = 3 * J
  <2>1. PICK u, T : u = Taken(P) /\ T = Total(P) /\ u \in Nat /\ T \in Nat
    BY <1>4
  <2>2. u < T /\ u = Least(3 * J, T) /\ u \in {E, E + 1}
    BY <1>4, <1>6, <2>1
  <2>3. u = 3 * J
    BY <1>5, <2>1, <2>2, TurnFaults
  <2> QED
    BY <1>4, <2>1, <2>3
<1>8. ~Runs(curr, i)
  <2>1. Aligned(P.pos)
    BY <1>6, <1>7 DEF Aligned
  <2> QED
    BY <1>1, <1>2, <1>3, <1>4, <2>1, NothingRead
<1>9. PICK st, q : \E b \in FramePos :
        /\ Room(st, q) /\ frame_alloc(st.mem, b)
        /\ Becomes(load_PAGE(st, curr, i, b), add_head(<<curr, i>>, q))
  BY <1>1, <1>2, <1>4, <1>8, PageFault
<1>10. PICK b \in FramePos :
        /\ Room(st, q) /\ frame_alloc(st.mem, b)
        /\ Becomes(load_PAGE(st, curr, i, b), add_head(<<curr, i>>, q))
  BY <1>9
<1>11. PICK r : r = load_PAGE(st, curr, i, b) /\ shellmemory' = r.mem
  BY <1>10 DEF Becomes
<1>12. SameVars(shellmemory, st.mem)
  BY <1>10 DEF Room, SameVars
<1>13. /\ StOK(st) /\ curr \in DOMAIN st.pcb /\ i \in DOMAIN st.pcb[curr].page_table
       /\ Fits(st.mem, b)
  BY <1>1, <1>4, <1>10 DEF Room, SameShape, frame_alloc
<1>14. SameVars(shellmemory, r.mem)
  <2>1. SameVars(st.mem, r.mem)
    BY <1>4, <1>11, <1>13, VarsLoad
  <2> QED
    BY <1>12, <2>1 DEF SameVars
<1>15. env' = env
  <2>1. PICK j, c, s, d : RunPath(j, c, s, d)
    BY <1>3
  <2>2. c = cpu_run(curr, i) /\ env' = c.env
    BY <1>1, <1>2, <2>1 DEF RunPath
  <2> QED
    BY <1>8, <2>2, CpuIdle
<1> QED
  BY <1>11, <1>14, <1>15, VarsSame

LEMMA VarsNew ==
  ASSUME Base, VarsOK(shellmemory, env), new_proc
  PROVE  Carries(shellmemory, env, shellmemory', env')
<1>1. PICK p, s : p = PID_counter /\ s = Head(todo)
  OBVIOUS
<1>2. /\ p \in Nat /\ env' = env
      /\ \/ exit_99
         \/ \E st, st1, r, pages :
              /\ Creates(st, st1, r, p, s) /\ Admit(p, r, pages) /\ s \in DOMAIN Program
  BY <1>1, NewProc
<1>3. CASE exit_99
  BY <1>2, <1>3, VarsSame DEF exit_99, SameVars
<1>4. ASSUME NEW st, NEW st1, NEW r, NEW pages, Creates(st, st1, r, p, s), Admit(p, r, pages),
             s \in DOMAIN Program
      PROVE  Carries(shellmemory, env, shellmemory', env')
  <2>1. /\ StOK(st) /\ st.mem = shellmemory /\ Adds(pcb, st.pcb, p, s) /\ StOK(st1)
        /\ Loads(st, st1, p, 0) /\ SameShape(st.pcb, st1.pcb)
        /\ r = st1 \/ (Loads(st1, r, p, 1) /\ 1 \in DOMAIN st1.pcb[p].page_table)
    BY <1>4 DEF Creates
  <2>2. p \in DOMAIN st.pcb /\ 0 \in DOMAIN st.pcb[p].page_table
    <3>1. TableSize(s) \in Nat \ {0}
      BY <1>4, CountLines
    <3> QED
      BY <2>1, <3>1 DEF Adds, IsNew
  <2>3. SameVars(shellmemory, st1.mem)
    BY <1>2, <2>1, <2>2, VarsLoads
  <2>4. p \in DOMAIN st1.pcb
    BY <2>1, <2>2 DEF SameShape
  <2>5. CASE r = st1
    BY <1>2, <1>4, <2>3, <2>5, VarsSame DEF Admit
  <2>6. CASE Loads(st1, r, p, 1) /\ 1 \in DOMAIN st1.pcb[p].page_table
    <3>1. PICK i : i = 1
      OBVIOUS
    <3>2. SameVars(st1.mem, r.mem)
      BY <1>2, <2>1, <2>4, <2>6, <3>1, VarsLoads
    <3>3. SameVars(shellmemory, r.mem)
      BY <2>3, <3>2 DEF SameVars
    <3> QED
      BY <1>2, <1>4, <3>3, VarsSame DEF Admit
  <2> QED
    BY <2>1, <2>5, <2>6
<1> QED
  BY <1>2, <1>3, <1>4

\* free_PCB clears no line of the variable store that is more than two lines past
\* the last frame.
LEMMA ClearedFrames ==
  ASSUME RegularScripts, Base, Paging, Scheduling, queue_done, NEW a \in VarPos, a \in Cleared
  PROVE  a <= LastCleared
<1>1. PICK p \in DOMAIN pcb : \E i \in DOMAIN pcb[p].page_table :
        \E k, d \in Offset : a = pcb[p].page_table[i].index[k] + d
  BY DEF Cleared
<1>2. PICK i \in DOMAIN pcb[p].page_table :
        \E k, d \in Offset : a = pcb[p].page_table[i].index[k] + d
  BY <1>1
<1>3. PICK k \in Offset, d \in Offset : a = pcb[p].page_table[i].index[k] + d
  BY <1>2
<1>4. PICK P : P = pcb[p]
  OBVIOUS
<1>5. 3 * i < P.pos
  BY <1>4, AllAtEnd
<1>6. PICK g : g = P.page_table[i]
  OBVIOUS
<1>7. FRAME_STORE_SIZE <= a
  BY DEF VarPos, Pos, FramePos
<1>8. Resident(shellmemory, P, p, i) \/ Absent(P, i)
  BY <1>4 DEF Paging, Layout
<1>9. CASE Resident(shellmemory, P, p, i)
  <2>1. PICK x \in Nat : g.index[0] = 3 * x
    BY <1>6, <1>9 DEF Resident, Aligned
  <2>2. /\ g.index[0] + 2 \in FramePos
        /\ g.index[1] = g.index[0] + 1 /\ g.index[2] = g.index[0] + 2
    BY <1>6, <1>9 DEF Resident, IsLoaded
  <2>3. 3 * x + 2 < FRAME_STORE_SIZE
    BY <2>1, <2>2 DEF FramePos
  <2>4. PICK y \in Nat : LastCleared = 3 * y + 1 /\ FRAME_STORE_SIZE <= 3 * y + 2
    <3>1. PICK F \in Nat : F = FRAME_STORE_SIZE
      OBVIOUS
    <3>2. F \div 3 \in Nat /\ F = 3 * (F \div 3) + (F % 3) /\ F % 3 \in 0 .. 2
      OBVIOUS
    <3> QED
      BY <3>1, <3>2 DEF LastCleared
  <2>5. 3 * x + 4 <= LastCleared
    BY <2>3, <2>4
  <2>6. k \in 0 .. 2 /\ d \in 0 .. 2 /\ a = g.index[k] + d
    BY <1>3, <1>4, <1>6 DEF Offset
  <2>7. g.index[k] = 3 * x + k
    BY <2>1, <2>2, <2>6
  <2>8. a = 3 * x + k + d
    BY <2>6, <2>7
  <2> QED
    BY <2>4, <2>5, <2>6, <2>8
<1>10. CASE Absent(P, i)
  <2>1. g.index = Everywhere(0) /\ FRAME_STORE_SIZE >= 3
    BY <1>5, <1>6, <1>10 DEF Absent
  <2>2. a = d
    BY <1>3, <1>4, <1>6, <2>1 DEF Everywhere, Offset
  <2> QED
    BY <1>7, <2>1, <2>2 DEF Offset
<1> QED
  BY <1>8, <1>9, <1>10

LEMMA VarsFinish ==
  ASSUME RegularScripts, Base, Paging, VarsOK(shellmemory, env), Finish
  PROVE  Carries(shellmemory, env, shellmemory', env')
<1>1. /\ Scheduling /\ queue_done /\ shellmemory' = mem_free(shellmemory, Cleared)
      /\ env' = env
  BY DEF Finish
<1>2. PICK n : n = mem_free(shellmemory, Cleared)
  OBVIOUS
<1>3. \A a \in Pos : n[a] = IF a \in Cleared THEN Free ELSE shellmemory[a]
  BY <1>2, FreeMem DEF Base
<1>4. \A a \in VarPos : n[a] = shellmemory[a] \/ (n[a] = Free /\ a <= LastCleared)
  BY <1>1, <1>3, ClearedFrames, Positions
<1>5. VarsOK(n, env)
  <2>1. Free.var = None
    BY DEF Free
  <2>2. \A a \in VarPos : n[a] = shellmemory[a] \/ n[a].var = None
    BY <1>4, <2>1
  <2> QED
    BY <2>2 DEF VarsOK
<1>6. ASSUME NEW v \in Var, LinesNamed(n, v) = {}, LinesNamed(shellmemory, v) # {}
      PROVE  First(LinesNamed(shellmemory, v)) <= LastCleared
  <2>1. PICK a : a = First(LinesNamed(shellmemory, v))
    OBVIOUS
  <2>2. LinesNamed(shellmemory, v) \subseteq Nat
    BY Positions DEF LinesNamed
  <2>3. a \in VarPos /\ shellmemory[a].var = v
    BY <1>6, <2>1, <2>2, FirstIn DEF LinesNamed
  <2>4. n[a] # shellmemory[a]
    BY <1>6, <2>3 DEF LinesNamed
  <2> QED
    BY <1>4, <2>1, <2>3, <2>4
<1>7. mode = "exec" /\ mode' = "shell"
  BY DEF Finish, Scheduling
<1>8. \A v \in Var : Lasts(shellmemory, env, n, env, v)
  BY <1>6, <1>7 DEF Lasts
<1> QED
  BY <1>1, <1>2, <1>5, <1>8 DEF Carries

\* An empty store.
LEMMA VarsEmpty ==
  ASSUME NEW m, \A a \in VarPos : m[a] = Free
  PROVE  VarsOK(m, [v \in Var |-> None])
<1>1. \A a \in VarPos : m[a].var = None
  BY DEF Free
<1> QED
  BY <1>1 DEF VarsOK

LEMMA VarsStep ==
  ASSUME RegularScripts, Cardinality(Var) <= VAR_STORE_SIZE,
         Base, Paging, VarsOK(shellmemory, env), [Next]_vars
  PROVE  Carries(shellmemory, env, shellmemory', env')
<1>1. MemOK(shellmemory) /\ env \in [Var -> Value \cup {None}]
  BY DEF Base, HistoryOK
<1>2. ASSUME NEW v \in Var, NEW x \in Value, set(v, x)
      PROVE  Carries(shellmemory, env, shellmemory', env')
  <2>1. shellmemory' = mem_set_value(shellmemory, v, x) /\ env' = [env EXCEPT ![v] = x]
    BY <1>2 DEF set
  <2>2. Carries(shellmemory, env, mem_set_value(shellmemory, v, x), [env EXCEPT ![v] = x])
    BY <1>1, VarsSet
  <2> QED
    BY <2>1, <2>2
<1>3. CASE resetmem
  <2>1. shellmemory' = mem_free(shellmemory, VarPos) /\ env' = [v \in Var |-> None]
    BY <1>3 DEF resetmem
  <2>2. PICK n : n = mem_free(shellmemory, VarPos)
    OBVIOUS
  <2>3. \A a \in VarPos : n[a] = Free
    BY <1>1, <2>2, FreeMem, Positions
  <2> QED
    BY <2>1, <2>2, <2>3, VarsEmpty DEF Carries, Lasts
<1>4. ASSUME NEW scripts, exec(scripts)
      PROVE  Carries(shellmemory, env, shellmemory', env')
  BY <1>4, VarsSame DEF exec, history, SameVars
<1>5. CASE new_proc
  BY <1>5, VarsNew
<1>6. CASE Dispatch
  BY <1>6, VarsSame DEF Dispatch, SameVars
<1>7. CASE run_proc
  <2>1. PICK P, i : P = pcb[curr] /\ i = CurrentPage(P)
    OBVIOUS
  <2>2. curr # 0
    BY <1>7 DEF run_proc
  <2>3. Taken(P) \in Nat /\ P.pos \in Nat /\ Taken(P) <= P.pos
    BY <2>1, <2>2, OnTurn
  <2>4. Taken(pcb[curr]) < pcb[curr].pos \/ Taken(pcb[curr]) = pcb[curr].pos
    BY <2>1, <2>3
  <2> QED
    BY <1>7, <2>4, VarsRun, VarsFault
<1>8. CASE Finish
  BY <1>8, VarsFinish
<1>9. CASE UNCHANGED vars
  BY <1>9, VarsSame DEF vars, SameVars
<1>10. CASE Exited
  BY <1>9, <1>10 DEF Exited
<1> QED
  BY <1>2, <1>3, <1>4, <1>5, <1>6, <1>7, <1>8, <1>9, <1>10 DEF Next, run_proc_RR

\* What a variable shows.
LEMMA VarsShow ==
  ASSUME NEW m, NEW e, VarsOK(m, e), NEW v \in Var, NEW x,
         x = IF LinesNamed(m, v) # {} THEN m[First(LinesNamed(m, v))].value ELSE None
  PROVE  LinesNamed(m, v) # {} => x = e[v]
<1> SUFFICES ASSUME LinesNamed(m, v) # {}
             PROVE  x = e[v]
  OBVIOUS
<1>1. PICK a : a = First(LinesNamed(m, v))
  OBVIOUS
<1>2. LinesNamed(m, v) \subseteq Nat
  BY Positions DEF LinesNamed
<1>3. a \in VarPos /\ m[a].var = v
  BY <1>1, <1>2, FirstIn DEF LinesNamed
<1>4. m[a].value = e[v]
  BY <1>3, NameAssumption DEF VarsOK
<1> QED
  BY <1>1, <1>4

\* A variable has the value it was last set to until resetmem, although evictions and
\* the end of exec clear lines of the same memory (shellmemory.c:12-13, 67-134,
\* pcb.c:140-143), for a frame store of any size: only free_PCB can lose one, and only
\* from the lines up to LastCleared.
THEOREM VariablesAreKept ==
  RegularScripts /\ Spec => VariablesKept
<1> DEFINE V == VarsOK(shellmemory, env)
           K == Cardinality(Var) <= VAR_STORE_SIZE =>
                  \A v \in Var :
                    \/ mem_get_value(v)' = env'[v]
                    \/ /\ mem_get_value(v)' = None
                       /\ \/ mem_get_value(v) = None /\ env'[v] = env[v]
                          \/ /\ mode = "exec" /\ mode' = "shell"
                             /\ First(LinesNamed(shellmemory, v)) <= LastCleared
<1>1. ASSUME RegularScripts, Cardinality(Var) <= VAR_STORE_SIZE, Base, Paging, V, [Next]_vars
      PROVE  V' /\ K
  <2>1. Carries(shellmemory, env, shellmemory', env')
    BY <1>1, VarsStep
  <2>2. VarsOK(shellmemory', env')
    BY <2>1 DEF Carries
  <2>3. ASSUME NEW v \in Var
        PROVE  \/ mem_get_value(v)' = env'[v]
               \/ /\ mem_get_value(v)' = None
                  /\ \/ mem_get_value(v) = None /\ env'[v] = env[v]
                     \/ /\ mode = "exec" /\ mode' = "shell"
                        /\ First(LinesNamed(shellmemory, v)) <= LastCleared
    <3>1. PICK m, n, e, f : m = shellmemory /\ n = shellmemory' /\ e = env /\ f = env'
      OBVIOUS
    <3>2. PICK x : x = mem_get_value(v)'
      OBVIOUS
    <3>3. x = IF LinesNamed(n, v) # {} THEN n[First(LinesNamed(n, v))].value ELSE None
      BY <3>1, <3>2 DEF mem_get_value, LinesNamed
    <3>4. LinesNamed(n, v) # {} => x = f[v]
      BY <2>2, <3>1, <3>3, VarsShow
    <3>5. Lasts(m, e, n, f, v)
      BY <2>1, <2>3, <3>1 DEF Carries
    <3>6. LinesNamed(m, v) = {} => mem_get_value(v) = None
      BY <3>1 DEF mem_get_value
    <3> QED
      BY <3>1, <3>2, <3>3, <3>4, <3>5, <3>6 DEF Lasts
  <2> QED
    BY <2>2, <2>3
<1>2. ASSUME RegularScripts, Cardinality(Var) <= VAR_STORE_SIZE
      PROVE  Spec => VariablesKept
  <2>1. Init => V
    <3> SUFFICES ASSUME Init
                 PROVE  V
      OBVIOUS
    <3>1. \A a \in VarPos : shellmemory[a] = Free
      BY Positions DEF Init, mem_init
    <3> QED
      BY <3>1, VarsEmpty DEF Init
  <2>2. Base /\ Paging /\ V /\ [Next]_vars => V' /\ [K]_vars
    BY <1>1, <1>2
  <2>3. VariablesKept <=> [][K]_vars
    BY PTL DEF VariablesKept
  <2> HIDE DEF V, K
  <2> QED
    BY <1>2, <2>1, <2>2, <2>3, BaseInvariant, PagingInvariant, PTL DEF Spec
<1>3. ASSUME ~(Cardinality(Var) <= VAR_STORE_SIZE)
      PROVE  Spec => VariablesKept
  <2>1. [Next]_vars => [K]_vars
    BY <1>3
  <2>2. VariablesKept <=> [][K]_vars
    BY PTL DEF VariablesKept
  <2> HIDE DEF K
  <2> QED
    BY <2>1, <2>2, PTL DEF Spec
<1> QED
  BY <1>2, <1>3
=============================================================================
