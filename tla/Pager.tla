------------------------------- MODULE Pager -------------------------------
(***************************************************************************)
(* The process side of the a3 shell: exec/run load scripts into PCBs       *)
(* (a3/pcb.c), the kernel runs them round-robin, two lines a turn          *)
(* (a3/kernel.c, a3/cpu.c), and pages of three lines are loaded on demand  *)
(* into the frames of the shell memory, the least recently used page being *)
(* evicted when no frame is left (a3/shellmemory.c, a3/linked_list.c).     *)
(* The program is single threaded: an action is one shell command, one     *)
(* process creation, one dispatch or one run_proc.                         *)
(***************************************************************************)
EXTENDS Integers, Sequences, FiniteSets

CONSTANTS
  FRAME_STORE_SIZE,   \* lines of shell memory reserved for frames
  VAR_STORE_SIZE,     \* lines of shell memory reserved for variables
  Script,             \* names given to exec
  Program,            \* the lines of each script that exists
  EndsWithNewline,    \* the scripts whose last line ends with a newline
  Var, Value,         \* shell variables and what `set` gives them
  None,               \* the string "none"
  MaxPid              \* bound: processes created in a behaviour

\* A line that sets a variable, or another command and the status that
\* parseInput returns for it; a blank line is an unknown command.
Line == [var : Var \cup {None}, value : Value \cup {None},
         ret : Int, blank : BOOLEAN]

ASSUME MemoryAssumption ==
  FRAME_STORE_SIZE \in Nat /\ VAR_STORE_SIZE \in Nat /\ VAR_STORE_SIZE >= 2
ASSUME ProgramAssumption ==
  /\ DOMAIN Program \subseteq Script
  /\ \A s \in DOMAIN Program :
       Program[s] = [k \in 1 .. Len(Program[s]) |-> Program[s][k]]
       /\ \A k \in 1 .. Len(Program[s]) : Program[s][k] \in Line
ASSUME MaxPidAssumption == MaxPid \in Nat
\* "none" is no process, no variable and no line of a script, and there are
\* finitely many variable names.
ASSUME NameAssumption ==
  /\ None \notin Nat /\ None \notin Var /\ IsFiniteSet(Var)
  /\ \A s \in DOMAIN Program : \A k \in 1 .. Len(Program[s]) : None # <<s, k>>

VARIABLES
  shellmemory,  \* lines of [var, value]: frames first, then variables
  pcb,          \* the PCBs of ALL_PCB, by pid
  QUEUE,        \* ready queue of pids
  LRU_CACHE,    \* <<pid, page>>, most recently used first
  PID_counter,
  todo,         \* scripts of the current exec still to be loaded
  curr,         \* the process whose turn it is, 0 between turns
  step,         \* which run_proc of the turn comes next
  mode,         \* "shell": at the prompt, "exec": in exec, "exited": exit(99)
  executed,     \* history: the lines each process has run, <<script, number>>
  turns,        \* history: turns[p][q], the turns of q since p's last one, up to 2
  env           \* history: what each variable was last set to

kernelVars == <<pcb, QUEUE, LRU_CACHE, PID_counter, todo, curr, step>>
history == <<executed, turns, env>>
vars == <<shellmemory, pcb, QUEUE, LRU_CACHE, PID_counter, todo, curr, step,
          mode, executed, turns, env>>

Pos == 0 .. FRAME_STORE_SIZE + VAR_STORE_SIZE - 1
FramePos == 0 .. FRAME_STORE_SIZE - 1
VarPos == Pos \ FramePos
Unmapped == 1000                    \* index of a page that was never loaded
Offset == 0 .. 2                    \* lines of a page
BAD_COMMAND == 8                    \* status of an unknown command
Free == [var |-> None, value |-> None]
Pid == 1 .. MaxPid

mem_init == [a \in Pos |-> Free]

Init ==
  /\ shellmemory = mem_init
  /\ pcb = <<>> /\ QUEUE = <<>> /\ LRU_CACHE = <<>> /\ PID_counter = 1
  /\ todo = <<>> /\ curr = 0 /\ step = "none" /\ mode = "shell"
  /\ executed = <<>> /\ turns = <<>>
  /\ env = [v \in Var |-> None]

-----------------------------------------------------------------------------
(* Lists (linked_list.c), head first.  An operator named Faulty... is a      *)
(* plausible fault of the definition it precedes; none is part of Spec.      *)

add_tail(x, list) == Append(list, x)
add_head(x, list) == <<x>> \o list
pop_head(list) == Tail(list)
pop_tail(list) == SubSeq(list, 1, Len(list) - 1)

First(S) == CHOOSE a \in S : \A b \in S : a <= b

-----------------------------------------------------------------------------
(* Variables (shellmemory.c).  The first line named v takes the value, else *)
(* the first free one; a full store drops it.                               *)

LinesNamed(m, v) == {a \in VarPos : m[a].var = v}

mem_set_value(m, v, x) ==
  IF LinesNamed(m, v) # {}
  THEN [m EXCEPT ![First(LinesNamed(m, v))].value = x]
  ELSE IF LinesNamed(m, None) # {}
  THEN [m EXCEPT ![First(LinesNamed(m, None))] = [var |-> v, value |-> x]]
  ELSE m

\* None stands for "Variable does not exist".
mem_get_value(v) ==
  IF LinesNamed(shellmemory, v) # {}
  THEN shellmemory[First(LinesNamed(shellmemory, v))].value
  ELSE None

mem_free(m, A) == [a \in Pos |-> IF a \in A THEN Free ELSE m[a]]

set(v, x) ==
  /\ mode = "shell"
  /\ shellmemory' = mem_set_value(shellmemory, v, x)
  /\ env' = [env EXCEPT ![v] = x]
  /\ UNCHANGED <<kernelVars, mode, executed, turns>>

resetmem ==
  /\ mode = "shell"
  /\ shellmemory' = mem_free(shellmemory, VarPos)
  /\ env' = [v \in Var |-> None]
  /\ UNCHANGED <<kernelVars, mode, executed, turns>>

-----------------------------------------------------------------------------
(* Pages (pcb.c).  st is a record of the memory and the PCBs.               *)

\* Non-blank lines that end with a newline, plus one.
count_lines(s) ==
  1 + Cardinality({k \in 1 .. Len(Program[s]) :
                     /\ ~Program[s][k].blank
                     /\ k < Len(Program[s]) \/ s \in EndsWithNewline})

PAGE_table_size(lines) == (lines + 2) \div 3

PAGE_init ==
  [index |-> [k \in Offset |-> Unmapped], valid |-> [k \in Offset |-> FALSE], pc |-> 0]

\* Fault: lines in use count as free.
FaultyFits(m, a) == \A k \in Offset : a + k \in FramePos

\* Three free lines follow each other from a on.
Fits(m, a) == \A k \in Offset : a + k \in FramePos /\ m[a + k].var = None

\* The frame store yields the first such place, if there is one.
frame_alloc(m, b) == Fits(m, b) /\ \A a \in 0 .. b - 1 : ~Fits(m, a)

NoFrame(m) == \A a \in FramePos : ~Fits(m, a)

\* Fault: the page is taken to have three lines.
FaultyWholePage(st, p, i, b) ==
  [mem |-> [a \in Pos |->
              IF a \notin b .. b + 2 THEN st.mem[a]
              ELSE [var |-> p, value |-> <<st.pcb[p].script, st.pcb[p].pos + 1 + a - b>>]],
   pcb |-> [st.pcb EXCEPT
              ![p].pos = @ + 3,
              ![p].page_table[i].index = [k \in Offset |-> b + k],
              ![p].page_table[i].valid = [k \in Offset |-> TRUE]]]

\* Fault: the valid bits are not set.
FaultyInvalid(st, p, i, b) ==
  [mem |-> [a \in Pos |->
              IF a \notin b .. b + 2 THEN st.mem[a]
              ELSE [var |-> p, value |-> st.mem[a].value]],
   pcb |-> [st.pcb EXCEPT ![p].page_table[i].index = [k \in Offset |-> b + k]]]

\* Fault: the script is read again from its start.
FaultyRewind(st, p, i, b) ==
  [mem |-> [a \in Pos |->
              IF a \notin b .. b + 2 THEN st.mem[a]
              ELSE [var |-> p,
                    value |-> IF 1 + a - b <= Len(Program[st.pcb[p].script])
                              THEN <<st.pcb[p].script, 1 + a - b>>
                              ELSE st.mem[a].value]],
   pcb |-> [st.pcb EXCEPT
              ![p].page_table[i].index = [k \in Offset |-> b + k],
              ![p].page_table[i].valid =
                 [k \in Offset |-> k < Len(Program[st.pcb[p].script])]]]

\* The next three lines of the script, or as many as are left, go to the frame
\* at b; the file is never rewound.
load_PAGE(st, p, i, b) ==
  LET P == st.pcb[p]
      left == Len(Program[P.script]) - P.pos
      n == IF left < 3 THEN left ELSE 3
  IN [mem |-> [a \in Pos |->
                 IF a \notin b .. b + 2 THEN st.mem[a]
                 ELSE [var |-> p,
                       value |-> IF a < b + n
                                 THEN <<P.script, P.pos + 1 + a - b>>
                                 ELSE st.mem[a].value]],
      pcb |-> [st.pcb EXCEPT
                 ![p].pos = P.pos + n,
                 ![p].page_table[i].index = [k \in Offset |-> b + k],
                 ![p].page_table[i].valid = [k \in Offset |-> k < n]]]

\* Fault: only the first line of the frame is cleared.
FaultyEvict(st, p, i) ==
  [mem |-> mem_free(st.mem, {st.pcb[p].page_table[i].index[0]}),
   pcb |-> [st.pcb EXCEPT
              ![p].page_table[i].index = [k \in Offset |-> 0],
              ![p].page_table[i].valid = [k \in Offset |-> FALSE]]]

\* Fault: a frame is cleared from each of the three lines, as free_PCB does it.
FaultyClears(st, p, i) ==
  [mem |-> mem_free(st.mem, {a \in Pos : \E k, d \in Offset :
                               a = st.pcb[p].page_table[i].index[k] + d}),
   pcb |-> [st.pcb EXCEPT
              ![p].page_table[i].index = [k \in Offset |-> 0],
              ![p].page_table[i].valid = [k \in Offset |-> FALSE]]]

PAGE_evict(st, p, i) ==
  [mem |-> mem_free(st.mem, {st.pcb[p].page_table[i].index[k] : k \in Offset}),
   pcb |-> [st.pcb EXCEPT
              ![p].page_table[i].index = [k \in Offset |-> 0],
              ![p].page_table[i].valid = [k \in Offset |-> FALSE]]]

\* Fault: one finished page is enough.
FaultyDone(p) ==
  \E i \in DOMAIN pcb[p].page_table : pcb[p].page_table[i].pc = 3

PCB_done(p) ==
  \A i \in DOMAIN pcb[p].page_table : pcb[p].page_table[i].pc = 3

-----------------------------------------------------------------------------
(* exec: load every script, then run the ready queue until it is done.      *)

exec(scripts) ==
  /\ mode = "shell"
  /\ PID_counter + Len(scripts) <= MaxPid + 1
  /\ mode' = "exec"
  /\ todo' = scripts
  /\ UNCHANGED <<shellmemory, pcb, QUEUE, LRU_CACHE, PID_counter, curr, step, history>>

\* The memory and the PCBs with a new process, no page of it loaded yet.
PCB_init(p, s) ==
  LET lines == count_lines(s)
      new == [script |-> s, size |-> lines, pos |-> 0,
              page_table |-> [i \in 0 .. PAGE_table_size(lines) - 1 |-> PAGE_init]]
  IN [mem |-> shellmemory,
      pcb |-> [q \in DOMAIN pcb \cup {p} |-> IF q = p THEN new ELSE pcb[q]]]

\* The process joins the ready queue, its loaded pages the LRU list.
Admit(p, st, pages) ==
  /\ shellmemory' = st.mem
  /\ pcb' = st.pcb
  /\ QUEUE' = add_tail(p, QUEUE)
  /\ LRU_CACHE' = pages \o LRU_CACHE
  /\ executed' = [q \in DOMAIN pcb \cup {p} |-> IF q = p THEN <<>> ELSE executed[q]]
  /\ turns' = [q \in DOMAIN pcb \cup {p} |-> [r \in DOMAIN pcb \cup {p} |-> 0]]
  /\ UNCHANGED mode

exit_99 ==
  /\ mode' = "exited"
  /\ UNCHANGED <<shellmemory, pcb, QUEUE, LRU_CACHE, executed, turns>>

\* At most two pages are loaded at first; the shell exits when the script is
\* missing or a frame cannot be found.
new_proc ==
  /\ mode = "exec" /\ todo # <<>>
  /\ PID_counter' = PID_counter + 1
  /\ todo' = Tail(todo)
  /\ UNCHANGED <<curr, step, env>>
  /\ LET s == Head(todo)
         p == PID_counter
         st == PCB_init(p, s)
         onePage == PAGE_table_size(count_lines(s)) = 1
     IN \/ s \notin DOMAIN Program /\ exit_99
        \/ s \in DOMAIN Program /\ NoFrame(shellmemory) /\ exit_99
        \/ /\ s \in DOMAIN Program
           /\ \E b \in FramePos :
                /\ frame_alloc(shellmemory, b)
                /\ \E st1 \in {load_PAGE(st, p, 0, b)} :
                     \/ onePage /\ Admit(p, st1, <<<<p, 0>>>>)
                     \/ ~onePage /\ NoFrame(st1.mem) /\ exit_99
                     \/ /\ ~onePage
                        /\ \E c \in FramePos :
                             /\ frame_alloc(st1.mem, c)
                             /\ Admit(p, load_PAGE(st1, p, 1, c), <<<<p, 1>>, <<p, 0>>>>)

Scheduling == mode = "exec" /\ todo = <<>> /\ curr = 0

queue_done == \A k \in 1 .. Len(QUEUE) : PCB_done(QUEUE[k])

\* One turn of run_proc_RR begins; a process with no line left is dropped.
Dispatch ==
  /\ Scheduling /\ ~queue_done
  /\ QUEUE' = pop_head(QUEUE)
  /\ LET p == Head(QUEUE)
     IN /\ turns' = [q \in DOMAIN pcb |->
                       IF q = p THEN [r \in DOMAIN pcb |-> 0]
                       ELSE [turns[q] EXCEPT ![p] = IF @ < 2 THEN @ + 1 ELSE 2]]
        /\ curr' = IF pcb[p].size >= 1 THEN p ELSE 0
        /\ step' = IF pcb[p].size > 1 THEN "first"
                   ELSE IF pcb[p].size = 1 THEN "only" ELSE "none"
  /\ UNCHANGED <<shellmemory, pcb, LRU_CACHE, PID_counter, todo, mode, executed, env>>

\* The first page that still has lines to run, and the line in it.
CurrentPage(P) ==
  First({i \in DOMAIN P.page_table : P.page_table[i].pc # 3})

\* The command stored as a value; "none" is an unknown one.
Command(value) ==
  IF value = None THEN [var |-> None, value |-> None, ret |-> BAD_COMMAND, blank |-> FALSE]
  ELSE Program[value[1]][value[2]]

\* The memory, PCBs and status after one line (cpu.c).
cpu_run(p, i) ==
  LET page == pcb[p].page_table[i]
      at == shellmemory[page.index[page.pc]].value
      line == Command(at)
  IN IF ~page.valid[page.pc]
     THEN [mem |-> shellmemory, pcb |-> pcb, ret |-> 1, ran |-> <<>>, env |-> env]
     ELSE [mem |-> IF line.var = None THEN shellmemory
                   ELSE mem_set_value(shellmemory, line.var, line.value),
           pcb |-> [pcb EXCEPT ![p].size = @ - 1, ![p].page_table[i].pc = @ + 1],
           ret |-> line.ret,
           ran |-> <<at>>,
           env |-> IF line.var = None THEN env
                   ELSE [env EXCEPT ![line.var] = line.value]]

\* The position in the LRU list of the first page that PAGE_equal takes for
\* page i of p: it compares where the pages start in memory.
SamePage(table, p, i) ==
  {k \in 1 .. Len(LRU_CACHE) :
     LET e == LRU_CACHE[k]
     IN table[e[1]].page_table[e[2]].index[0] = table[p].page_table[i].index[0]}

remove_elem(k) ==
  SubSeq(LRU_CACHE, 1, k - 1) \o SubSeq(LRU_CACHE, k + 1, Len(LRU_CACHE))

MoveToFront(k) == add_head(LRU_CACHE[k], remove_elem(k))

\* The line ran: the page becomes the most recently used, and the turn goes on.
run_proc_ok(p, i, cpu) ==
  /\ cpu.ret # 1
  /\ shellmemory' = cpu.mem /\ pcb' = cpu.pcb
  /\ SamePage(cpu.pcb, p, i) # {}
  /\ LRU_CACHE' = MoveToFront(First(SamePage(cpu.pcb, p, i)))
  /\ QUEUE' = IF step = "second" THEN add_tail(p, QUEUE) ELSE QUEUE
  /\ curr' = IF step = "first" THEN p ELSE 0
  /\ step' = IF step = "first" THEN "second" ELSE "none"
  /\ UNCHANGED mode

Becomes(st, lru) ==
  /\ shellmemory' = st.mem
  /\ pcb' = st.pcb
  /\ LRU_CACHE' = lru

\* Fault: the process goes to the head, where kernel.c:31 says it goes.
FaultyRequeue(p) == add_head(p, QUEUE)
requeue(p) == add_tail(p, QUEUE)

\* Status 1: the page is loaded, over the tail of the LRU list when no frame
\* is free; when even that yields no frame it is not loaded.  The process
\* goes to the tail of the ready queue.
run_proc_fault(p, i, cpu) ==
  LET st == [mem |-> cpu.mem, pcb |-> cpu.pcb]
      victim == LRU_CACHE[Len(LRU_CACHE)]
      evicted == PAGE_evict(st, victim[1], victim[2])
  IN /\ cpu.ret = 1
     /\ curr' = 0 /\ step' = "none"
     /\ QUEUE' = requeue(p)
     /\ UNCHANGED mode
     /\ \/ \E b \in FramePos :
             frame_alloc(st.mem, b) /\ Becomes(load_PAGE(st, p, i, b), add_head(<<p, i>>, LRU_CACHE))
        \/ /\ NoFrame(st.mem) /\ LRU_CACHE # <<>>
           /\ LET lru == add_head(<<p, i>>, pop_tail(LRU_CACHE))
              IN \/ \E b \in FramePos : /\ frame_alloc(evicted.mem, b)
                                        /\ Becomes(load_PAGE(evicted, p, i, b), lru)
                 \/ NoFrame(evicted.mem) /\ Becomes(evicted, lru)

run_proc ==
  /\ mode = "exec" /\ curr # 0
  /\ LET i == CurrentPage(pcb[curr])
         cpu == cpu_run(curr, i)
     IN /\ run_proc_ok(curr, i, cpu) \/ run_proc_fault(curr, i, cpu)
        /\ executed' = [executed EXCEPT ![curr] = @ \o cpu.ran]
        /\ env' = cpu.env
  /\ UNCHANGED <<PID_counter, todo, turns>>

\* free_PCB clears a whole frame from each of the three lines of every page.
Cleared ==
  {a \in Pos : \E p \in DOMAIN pcb : \E i \in DOMAIN pcb[p].page_table :
     \E k, d \in Offset : a = pcb[p].page_table[i].index[k] + d}

Finish ==
  /\ Scheduling /\ queue_done
  /\ shellmemory' = mem_free(shellmemory, Cleared)
  /\ pcb' = <<>> /\ QUEUE' = <<>> /\ LRU_CACHE' = <<>>
  /\ executed' = <<>> /\ turns' = <<>>
  /\ mode' = "shell"
  /\ UNCHANGED <<PID_counter, todo, curr, step, env>>

\* After exit(99) nothing happens.
Exited == mode = "exited" /\ UNCHANGED vars

run_proc_RR == Dispatch \/ run_proc \/ Finish

Next ==
  \/ \E v \in Var, x \in Value : set(v, x)
  \/ resetmem
  \/ \E scripts \in [1 .. 1 -> Script] \cup [1 .. 2 -> Script] \cup [1 .. 3 -> Script] :
       exec(scripts)
  \/ new_proc
  \/ run_proc_RR
  \/ Exited

\* The shell's only thread keeps executing the command it was given.
Fairness == WF_vars(new_proc) /\ WF_vars(run_proc_RR)

Spec == Init /\ [][Next]_vars /\ Fairness

-----------------------------------------------------------------------------
\* Sizes, file positions and program counters stay in their ranges, and only
\* PCBs that exist are queued (pcb.c:20-97, cpu.c:18-26).
TypeOK ==
  /\ DOMAIN shellmemory = Pos
  /\ DOMAIN pcb \subseteq Pid
  /\ \A p \in DOMAIN pcb :
       /\ pcb[p].size \in 0 .. count_lines(pcb[p].script)
       /\ pcb[p].pos \in 0 .. Len(Program[pcb[p].script])
       /\ \A i \in DOMAIN pcb[p].page_table : pcb[p].page_table[i].pc \in 0 .. 3
  /\ QUEUE \in Seq(DOMAIN pcb)
  /\ PID_counter \in 1 .. MaxPid + 1
  /\ todo \in Seq(Script)
  /\ curr \in DOMAIN pcb \cup {0}
  /\ step \in {"none", "first", "second", "only"}
  /\ mode \in {"shell", "exec", "exited"}
  /\ env \in [Var -> Value \cup {None}]

\* Each process runs the lines of its own script, from the first on, none
\* skipped and none twice, whatever is evicted in between (cpu.c:16-26,
\* kernel.c:131-151).
InOrder ==
  \A p \in DOMAIN pcb :
    executed[p] = [k \in 1 .. Len(executed[p]) |-> <<pcb[p].script, k>>]

\* Whatever the scripts do, a process never runs a line of another script, nor
\* a line of its own twice; what an eviction erased reads as "none"
\* (pcb.c:86-94, 183-190, shellmemory.c:67-102).
OwnLinesOnce ==
  \A p \in DOMAIN pcb : \A k \in 1 .. Len(executed[p]) :
    executed[p][k] # None =>
      /\ executed[p][k][1] = pcb[p].script
      /\ \A l \in 1 .. k - 1 : executed[p][l] # executed[p][k]

\* The script is read once: a line that has been read and not yet run is in
\* memory, at the place its page says (pcb.c:86-94, kernel.c:46-59).
NoLostLines ==
  mode = "exec" =>
  \A p \in DOMAIN pcb : \A k \in Len(executed[p]) + 1 .. pcb[p].pos :
    LET page == pcb[p].page_table[(k - 1) \div 3]
        j == (k - 1) % 3
    IN page.valid[j] /\ shellmemory[page.index[j]] = [var |-> p, value |-> <<pcb[p].script, k>>]

\* When the kernel frees the processes, each has run its whole script, so no
\* process is dropped from the ready queue early (kernel.c:125, 158-173) and
\* every page to be cleared was loaded (pcb.c:140-143).
AllLinesRun ==
  Scheduling /\ queue_done =>
    \A p \in DOMAIN pcb :
      /\ Len(executed[p]) = Len(Program[pcb[p].script])
      /\ \A i \in DOMAIN pcb[p].page_table : pcb[p].page_table[i].index[0] # Unmapped

\* The pages of the LRU list are distinct, each owns a frame of its own, and
\* no other line of the frame store is taken: an eviction always frees a
\* frame and no frame leaks (kernel.c:46-61, shellmemory.c:67-87).
FramesAccounted ==
  mode = "exec" =>
  LET Start(k) == pcb[LRU_CACHE[k][1]].page_table[LRU_CACHE[k][2]].index[0]
  IN /\ \A k, l \in 1 .. Len(LRU_CACHE) :
          k # l => LRU_CACHE[k] # LRU_CACHE[l]
                   /\ {Start(k) + o : o \in Offset} \cap {Start(l) + o : o \in Offset} = {}
     /\ \A a \in FramePos :
          shellmemory[a].var # None
            <=> \E k \in 1 .. Len(LRU_CACHE) : a \in Start(k) .. Start(k) + 2
     /\ \A k \in 1 .. Len(LRU_CACHE) : \A o \in Offset :
          shellmemory[Start(k) + o].var = LRU_CACHE[k][1]

\* Round robin: between two turns of a process every other one has at most one,
\* page faults included, because a process whose line faults goes to the tail
\* like one that has had its turn (kernel.c:61, 126, 155); the head, which
\* kernel.c:31 speaks of, would give it turn after turn (see FaultToHead).
FairTurns ==
  \A k \in 1 .. Len(QUEUE) : \A q \in DOMAIN pcb : turns[QUEUE[k]][q] <= 1

\* kernel.c:30-32: "if a page fault occurs, loads 1 page from the backing store
\* and re-inserts the process to the head of the ready queue".
FaultToHead ==
  [][(run_proc /\ cpu_run(curr, CurrentPage(pcb[curr])).ret = 1)
       => Head(QUEUE') = curr]_vars

\* The last line that free_PCB can clear: two past the last frame, which is in
\* the variable store unless two lines follow the frames in theirs.
LastCleared == 3 * (FRAME_STORE_SIZE \div 3) + 1

\* A variable has the value it was last set to, by the shell or by a script,
\* until resetmem, whatever is loaded and evicted meanwhile: it can be lost
\* only at the end of exec, and only from the first two lines of the variable
\* store, and it then reads as "none" until it is set again
\* (shellmemory.c:67-134, pcb.c:140-143).
VariablesKept ==
  [][Cardinality(Var) <= VAR_STORE_SIZE =>
       \A v \in Var :
         \/ mem_get_value(v)' = env'[v]
         \/ /\ mem_get_value(v)' = None
            /\ \/ mem_get_value(v) = None /\ env'[v] = env[v]
               \/ /\ mode = "exec" /\ mode' = "shell"
                  /\ First(LinesNamed(shellmemory, v)) <= LastCleared]_vars

\* exec and run give the prompt back, or exit (kernel.c:123-184).
ExecTerminates == mode = "exec" ~> mode # "exec"
=============================================================================
