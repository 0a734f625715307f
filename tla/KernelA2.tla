------------------------------ MODULE KernelA2 ------------------------------
(***************************************************************************)
(* The a2 shell: run and exec load scripts into PCBs (a2/kernel.c,         *)
(* a2/pcb.c), a first-come or a round-robin scheduler runs them from the   *)
(* ready queue (a2/ready_queue.c), and pages of three lines are loaded     *)
(* into the frame store when they are needed (a2/shellmemory.c).  A script *)
(* may itself hold run, exec, set, resetmem, my_cd and quit lines.         *)
(*                                                                         *)
(* The program is single threaded.  The steps of a command typed at the     *)
(* prompt, or of an iteration of the loop of execute_process, follow each   *)
(* other as the control variables todo, request and after tell; nothing     *)
(* comes between them.  A Faulty... operator is a plausible fault of the    *)
(* definition after it; none is part of Spec.                                *)
(***************************************************************************)
EXTENDS Integers, Sequences, FiniteSets

CONSTANTS
  Script,             \* names of the scripts that exist
  Program,            \* the lines of each script
  EndsWithNewline,    \* the scripts whose last line ends with a newline
  varmemsize,         \* lines of shell memory reserved for variables
  TOTAL_FRAMES,       \* frames of the frame store; framesize = 3 * TOTAL_FRAMES
  PageTableSize,      \* entries of pagetable and lru_timer, 50 in pcb.h
  Directory,          \* the directories there are, by absolute path
  Home,               \* where the shell starts, with its scripts and backing_store
  Command,            \* what the user may type
  MaxCommands,        \* bound: commands typed in a behaviour
  None                \* the string "none"

\* A command, typed or as a line of a script: its first word and the others.
\* "other" stands for the commands that leave the kernel alone.
Op == {"run", "exec", "set", "resetmem", "my_cd", "quit", "other"}

LineOf == [script : Script, line : Nat]

ASSUME SizeAssumption ==
  /\ varmemsize \in Nat /\ TOTAL_FRAMES \in Nat \ {0} /\ PageTableSize \in Nat
  /\ MaxCommands \in Nat
ASSUME DirectoryAssumption == Home \in Directory
\* A script is a sequence of lines that a page table has room for, and a value
\* given to set is no line of a script.
ASSUME ProgramAssumption ==
  /\ EndsWithNewline \subseteq Script
  /\ \A s \in Script :
       /\ Len(Program[s]) \in 0 .. 3 * (PageTableSize - 1) - 1
       /\ Program[s] = [i \in 1 .. Len(Program[s]) |-> Program[s][i]]
       /\ \A i \in 1 .. Len(Program[s]) :
            /\ Program[s][i].op \in Op
            /\ Program[s][i].op = "set" => Program[s][i].args[2] \notin LineOf
  /\ \A c \in Command : c.op \in Op /\ (c.op = "set" => c.args[2] \notin LineOf)
ASSUME NoneAssumption ==
  None \notin Script /\ None \notin LineOf /\ None \notin {"FCFS", "RR"}

VARIABLES
  shellmemory,    \* lines of [var, value]: variables first, then frames
  pcb,            \* every PCB made, by pid
  ready,          \* the ready queue: the pids of its nodes, head first
  in_background,
  policy,         \* the scheduler that runs, None at the prompt
  cur,            \* pid of the process in execute_process, 0 if none
  quanta,         \* lines left in its turn
  todo,           \* scripts that the current run or exec has yet to load
  request,        \* the policy it asks for, None if there is no such command
  after,          \* what execute_process does after parsing its line
  status,         \* "prompt", "running", "exited" or "crashed"
  commands,       \* how many commands were typed
  cwd,            \* the current directory
  evicted         \* history: some page was loaded into a full frame store

control == <<policy, cur, quanta>>
command == <<todo, request, after>>
vars == <<shellmemory, pcb, ready, in_background, control, command, status,
          commands, cwd, evicted>>

SHELL_MEM_LENGTH == varmemsize + 3 * TOTAL_FRAMES
Index == 0 .. SHELL_MEM_LENGTH - 1
Page == 0 .. PageTableSize - 1
Free == [var |-> None, value |-> None]
FirstOf(S) == CHOOSE i \in S : \A j \in S : i <= j

mem_init == [i \in Index |-> Free]

Init ==
  /\ shellmemory = mem_init
  /\ pcb = <<>> /\ ready = <<>> /\ in_background = FALSE
  /\ policy = None /\ cur = 0 /\ quanta = 0
  /\ todo = <<>> /\ request = None /\ after = "none"
  /\ status = "prompt" /\ commands = 0
  /\ cwd = Home /\ evicted = FALSE

-----------------------------------------------------------------------------
(* Variables: the first line named v takes the value, else the first free  *)
(* line; a full store drops it.                                             *)

\* Fault: the search does not stop at the end of the variables.
FaultyNamed(m, v) == {i \in Index : m[i].var = v}
Named(m, v) == {i \in 0 .. varmemsize - 1 : m[i].var = v}

mem_set_value(m, v, x) ==
  IF Named(m, v) # {} THEN [m EXCEPT ![FirstOf(Named(m, v))].value = x]
  ELSE IF Named(m, None) # {}
  THEN [m EXCEPT ![FirstOf(Named(m, None))] = [var |-> v, value |-> x]]
  ELSE m

\* Fault: the whole shell memory is reset, not only the variables.
FaultyResetvarmem(m) == mem_init
resetvarmem(m) == [i \in Index |-> IF i < varmemsize THEN Free ELSE m[i]]

-----------------------------------------------------------------------------
(* Frames.  Frame f holds the lines FrameStart(f) .. FrameStart(f) + 2.     *)

FrameStart(f) == varmemsize + (f - 1) * 3
FrameLines(f) == FrameStart(f) .. FrameStart(f) + 2

\* feof() is true only after a read has failed, so a final newline counts as
\* one more line; an empty file has one.
countLines(s) ==
  IF s \in EndsWithNewline \/ Program[s] = <<>>
  THEN Len(Program[s]) + 1 ELSE Len(Program[s])

\* Fault: the number of lines is rounded down to pages.
FaultyCountPages(s) == countLines(s) \div 3
countPages(s) == (countLines(s) + 2) \div 3

\* Fault: frames are numbered from 1, the offset is not.
FaultyFindPC(p) == varmemsize + p.pagetable[p.current_page] * 3
find_PC(p) == FrameStart(p.pagetable[p.current_page])

\* The page used least, among the pages the process has loaded.
get_victim(p) ==
  LET Used == {i \in 0 .. p.num_pages - 1 : p.lru_timer[i] < 1000} IN
  FirstOf({i \in Used : \A j \in Used : p.lru_timer[i] <= p.lru_timer[j]} \cup
          (IF Used = {} THEN {0} ELSE {}))

mem_free_lines_frame(m, f) ==
  [i \in Index |-> IF i \in FrameLines(f) THEN Free ELSE m[i]]

\* Fault: the last line of the frame is looked at.
FaultyFreeFrames(m) == {f \in 1 .. TOTAL_FRAMES : m[FrameStart(f) + 2].var = None}
FreeFrames(m) == {f \in 1 .. TOTAL_FRAMES : m[FrameStart(f)].var = None}

\* The frame a page goes to: a free one, else number victim + 1, whatever page
\* of whatever process that frame holds.
find_free_frame(m, p) ==
  IF FreeFrames(m) # {} THEN FirstOf(FreeFrames(m)) ELSE get_victim(p) + 1

\* A frame that is not free is emptied; no page table changes.
Evict(m, f) == IF f \in FreeFrames(m) THEN m ELSE mem_free_lines_frame(m, f)

PageLine(s, page, k) == [var |-> s, value |-> [script |-> s, line |-> 3 * page + k]]

\* Up to three lines of script s; a page after its end leaves the frame as is.
CopyPage(m, s, page, f) ==
  [i \in Index |->
     IF i \in FrameLines(f) /\ 3 * page + (i - FrameStart(f)) < Len(Program[s])
     THEN PageLine(s, page, i - FrameStart(f) + 1) ELSE m[i]]

\* The shell memory and the PCB p after load_page put a page of s in frame f.
\* A victim whose number is no frame's is undefined behaviour: see Crashes.
LoadedMemory(m, s, p, f) == CopyPage(Evict(m, f), s, p.current_page, f)
LoadedPCB(m, p, f) ==
  [p EXCEPT !.lru_timer = IF f \in FreeFrames(m) THEN @ ELSE [@ EXCEPT ![f - 1] = 0],
            !.pagetable[p.current_page] = f,
            !.num_pages = @ + 1]
Crashes(f) == f > TOTAL_FRAMES

-----------------------------------------------------------------------------
(* Processes (kernel.c, pcb.c, ready_queue.c).                              *)

ready_queue_add_to_tail(q, pid) == Append(q, pid)

\* dangling: filename points into a call of exec that has returned by the time
\* of a page fault.  ran and done are history: the lines the process was given
\* to run, and its end.
makePCB(s, dangling) ==
  [filename |-> s, dangling |-> dangling, PC |-> 0, current_page |-> 0,
   pages_needed |-> countPages(s), num_pages |-> 0,
   pagetable |-> [i \in Page |-> -1], lru_timer |-> [i \in Page |-> 0],
   ran |-> <<>>, done |-> FALSE]

\* The process enters the queue with its PC at the first line of page 0.
Enqueue(m, p) ==
  /\ shellmemory' = m
  /\ pcb' = Append(pcb, [p EXCEPT !.PC = find_PC(p)])
  /\ ready' = ready_queue_add_to_tail(ready, Len(pcb) + 1)
  /\ UNCHANGED status

\* The second page, unless the first one reached the end of the file.
LoadSecondPage(m, p, s, full) ==
  IF countLines(s) <= 3
  THEN Enqueue(m, [p EXCEPT !.current_page = 0]) /\ evicted' = (evicted \/ full)
  ELSE \E f \in {find_free_frame(m, p)} :
         /\ Enqueue(LoadedMemory(m, s, p, f),
                    [LoadedPCB(m, p, f) EXCEPT !.current_page = 0])
         /\ evicted' = (evicted \/ full \/ f \notin FreeFrames(m))

LoadFirstPage(s, p) ==
  \E f \in {find_free_frame(shellmemory, p)} :
    LoadSecondPage(LoadedMemory(shellmemory, s, p, f),
                   [LoadedPCB(shellmemory, p, f) EXCEPT !.current_page = 1], s,
                   f \notin FreeFrames(shellmemory))

Crash ==
  /\ status' = "crashed"
  /\ UNCHANGED <<shellmemory, pcb, ready, in_background, control, command,
                 commands, cwd, evicted>>

Loading == status = "running" /\ todo # <<>>

\* Scripts, and the copies in ./backing_store, are named from Home.
Found(name) == name \in Script /\ cwd = Home

\* process_initialize of the next script of a run or exec.  exec's path lies in
\* its stack, and a nested exec returns before its processes run.
process_initialize ==
  /\ Loading /\ Found(Head(todo))
  /\ LoadFirstPage(Head(todo), makePCB(Head(todo), request = "RR" /\ in_background))
  /\ todo' = Tail(todo)
  /\ UNCHANGED <<in_background, control, request, after, commands, cwd>>

\* run's process_initialize fails with FILE_DOES_NOT_EXIST, which is not the 11
\* run compares it with: it goes on to schedule.
RunMissing ==
  /\ Loading /\ ~Found(Head(todo)) /\ request = "FCFS"
  /\ todo' = Tail(todo)
  /\ UNCHANGED <<shellmemory, pcb, ready, in_background, control, request, after,
                 status, commands, cwd, evicted>>

\* copy_file_back reads the file that exec never checks was opened.
ExecMissing ==
  /\ Loading /\ ~Found(Head(todo)) /\ request = "RR"
  /\ Crash

\* Called inside a script it returns at once: the scheduler that runs the
\* script will find the new processes in the queue.
PolicyAfter(asked) == IF in_background THEN policy ELSE asked

schedule_by_policy ==
  /\ status = "running" /\ todo = <<>> /\ request # None
  /\ policy' = PolicyAfter(request) /\ request' = None
  /\ UNCHANGED <<shellmemory, pcb, ready, in_background, cur, quanta, todo, after,
                 status, commands, cwd, evicted>>

\* run and exec have scripts to load; the other commands end here.
interpreter(c) ==
  /\ todo' = IF c.op \in {"run", "exec"} THEN c.args ELSE <<>>
  /\ request' = CASE c.op = "run" -> "FCFS" [] c.op = "exec" -> "RR" [] OTHER -> None
  /\ shellmemory' =
       CASE c.op = "set" -> mem_set_value(shellmemory, c.args[1], c.args[2])
         [] c.op = "resetmem" -> resetvarmem(shellmemory)
         [] OTHER -> shellmemory
  /\ cwd' = IF c.op = "my_cd" /\ c.args[1] \in Directory THEN c.args[1] ELSE cwd
  /\ status' = CASE c.op = "quit" -> "exited"
                 [] c.op \in {"run", "exec"} -> "running"
                 [] OTHER -> status

-----------------------------------------------------------------------------
(* execute_process: the loop's iteration fetches a line, parses it, and then *)
(* does what the place of the line in its page calls for.                    *)

This == pcb[cur]
Idle == status = "running" /\ todo = <<>> /\ request = None
Executing == Idle /\ cur # 0 /\ after = "none"
end == FrameStart(This.pagetable[This.current_page]) + 2
EndOfPage == This.PC + 1 > end
NextPage == This.current_page + 1

\* At the end of the last page the process ends; a page that is not loaded is
\* loaded, and otherwise PC goes on to the next line, as if the next page were
\* in the next frame.
WhatFollows ==
  CASE ~EndOfPage -> "line"
    [] EndOfPage /\ NextPage + 1 > This.pages_needed -> "end"
    [] EndOfPage /\ NextPage + 1 <= This.pages_needed
         -> IF This.pagetable[NextPage] = -1 THEN "fault" ELSE "line"

\* Lines of a frame that nothing was loaded into are skipped.
parseInput(value) ==
  IF value = None
  THEN UNCHANGED <<todo, request, shellmemory, status, cwd>>
  ELSE interpreter(Program[value.script][value.line])

Fetch(value) ==
  pcb' = [pcb EXCEPT
            ![cur].lru_timer[This.current_page] = @ + 1,
            ![cur].PC = @ + 1,
            ![cur].current_page = IF EndOfPage THEN NextPage ELSE @,
            ![cur].ran = IF value = None THEN @ ELSE Append(@, value)]

ExecuteLine ==
  /\ Executing /\ This.PC \in Index
  /\ Fetch(shellmemory[This.PC].value)
  /\ in_background' = TRUE
  /\ after' = WhatFollows
  /\ parseInput(shellmemory[This.PC].value)
  /\ UNCHANGED <<ready, control, commands, evicted>>

\* PC has left the shell memory: an undefined read, then a null pointer.
ExecuteBeyond == Executing /\ This.PC \notin Index /\ Crash

\* Fault: in_background stays set when a process ends.
FaultyBackgroundAtEnd == in_background
BackgroundAtEnd == FALSE

\* Fault: the node is put back in the queue.
FaultyQueueAtEnd == ready_queue_add_to_tail(ready, cur)
QueueAtEnd == ready

\* The node is freed; the frames keep their lines.
terminate_process ==
  /\ Idle /\ after = "end"
  /\ pcb' = [pcb EXCEPT ![cur].done = TRUE]
  /\ in_background' = BackgroundAtEnd /\ ready' = QueueAtEnd
  /\ after' = "none" /\ cur' = 0
  /\ UNCHANGED <<shellmemory, policy, quanta, todo, request, status,
                 commands, cwd, evicted>>

\* The file a page fault reads, None if its name finds none where the shell is
\* by now: a dangling name may still spell a script.
FaultFile ==
  IF cwd # Home THEN {None}
  ELSE IF This.dangling THEN Script \cup {None} ELSE {This.filename}

\* The page is loaded and the process goes to the tail; in_background stays set.
handle_page_fault ==
  /\ Idle /\ after = "fault"
  /\ \E s \in FaultFile, f \in {find_free_frame(shellmemory, This)} :
       IF s = None \/ Crashes(f) THEN Crash
       ELSE /\ shellmemory' = LoadedMemory(shellmemory, s, This, f)
            /\ \E p \in {LoadedPCB(shellmemory, This, f)} :
                 pcb' = [pcb EXCEPT ![cur] = [p EXCEPT !.PC = find_PC(p)]]
            /\ ready' = ready_queue_add_to_tail(ready, cur)
            /\ evicted' = (evicted \/ f \notin FreeFrames(shellmemory))
            /\ after' = "none" /\ cur' = 0
            /\ UNCHANGED <<in_background, policy, quanta, todo, request, status,
                           commands, cwd>>

\* A round-robin turn is over after two lines; a first-come turn goes on.
LineDone ==
  /\ Idle /\ after = "line"
  /\ in_background' = FALSE /\ after' = "none"
  /\ IF policy = "RR" /\ quanta = 1
     THEN cur' = 0 /\ ready' = ready_queue_add_to_tail(ready, cur)
     ELSE UNCHANGED <<cur, ready>>
  /\ quanta' = IF policy = "RR" THEN quanta - 1 ELSE quanta
  /\ UNCHANGED <<shellmemory, pcb, policy, todo, request, status, commands, cwd,
                 evicted>>

-----------------------------------------------------------------------------
(* The schedulers and the prompt.                                           *)

\* scheduler_RR takes turns of two lines, scheduler_FCFS of MAX_INT.
Dispatch ==
  /\ Idle /\ cur = 0 /\ ready # <<>> /\ policy # None
  /\ cur' = Head(ready) /\ ready' = Tail(ready)
  /\ quanta' = IF policy = "RR" THEN 2 ELSE 0
  /\ UNCHANGED <<shellmemory, pcb, in_background, policy, command, status,
                 commands, cwd, evicted>>

\* Fault: an empty queue is waited on, as if active were set.
FaultySchedulerOver == policy = None
\* active is never set; without a policy schedule_by_policy only returned.
SchedulerOver == ready = <<>> \/ policy = None

SchedulerDone ==
  /\ Idle /\ cur = 0 /\ SchedulerOver
  /\ status' = "prompt" /\ policy' = None
  /\ UNCHANGED <<shellmemory, pcb, ready, in_background, cur, quanta, command,
                 commands, cwd, evicted>>

Type(c) ==
  /\ status = "prompt" /\ commands < MaxCommands
  /\ interpreter(c)
  /\ commands' = commands + 1
  /\ UNCHANGED <<pcb, ready, in_background, control, after, evicted>>

Step == \/ process_initialize \/ RunMissing \/ ExecMissing \/ schedule_by_policy
        \/ Dispatch \/ ExecuteLine \/ ExecuteBeyond \/ terminate_process
        \/ handle_page_fault \/ LineDone \/ SchedulerDone

Next == Step \/ \E c \in Command : Type(c)

\* The program never waits once a command is typed.
Spec == Init /\ [][Next]_vars /\ WF_vars(Step)

-----------------------------------------------------------------------------
(* Properties.                                                              *)

Pid == 1 .. Len(pcb)

\* Slots of the variables, frames, PCBs, queue and flags hold what the code
\* can put there: a frame never holds a variable, nor a variable's slot a line
\* of a script (mem_set_value, resetvarmem, load_page, mem_free_lines_frame).
TypeOK ==
  /\ DOMAIN shellmemory = Index
  /\ \A i \in Index :
       shellmemory[i] # Free =>
         (i >= varmemsize <=> shellmemory[i].value \in LineOf)
  /\ \A p \in Pid :
       /\ pcb[p].filename \in Script
       /\ pcb[p].current_page \in Page /\ pcb[p].num_pages \in 0 .. PageTableSize
       /\ pcb[p].pagetable \in [Page -> {-1} \cup 1 .. TOTAL_FRAMES]
       /\ pcb[p].lru_timer \in [Page -> Nat]
  /\ ready \in Seq(Pid) /\ cur \in {0} \cup Pid
  /\ in_background \in BOOLEAN /\ policy \in {None, "RR", "FCFS"}
  /\ status \in {"prompt", "running", "exited", "crashed"}
  /\ after \in {"none", "line", "end", "fault"}
  /\ cwd \in Directory /\ evicted \in BOOLEAN

\* A script whose last page holds no line: it ends with a newline after a
\* multiple of three lines, or is empty.
EmptyPage(s) == 3 * (countPages(s) - 1) >= Len(Program[s])

\* The store has had a frame for every page; no page was loaded empty, so that
\* its frame still looks free; and no page fault goes through a dangling name.
Undisturbed ==
  /\ ~evicted
  /\ \A p \in Pid : /\ ~EmptyPage(pcb[p].filename)
                    /\ pcb[p].dangling => countPages(pcb[p].filename) <= 2

\* Frames belong to one page: as long as the store is undisturbed, each page a
\* live process has loaded still stands in the frame of its page table, whatever
\* was loaded for other processes meanwhile (find_free_frame, load_page).
PagesInPlace ==
  Undisturbed =>
    \A p \in Pid : ~pcb[p].done =>
      \A c \in Page : pcb[p].pagetable[c] # -1 =>
        \A k \in 1 .. 3 :
          shellmemory[FrameStart(pcb[p].pagetable[c]) + k - 1] =
            IF 3 * c + k <= Len(Program[pcb[p].filename])
            THEN PageLine(pcb[p].filename, c, k) ELSE Free

\* One process since the shell started; its evictions are of its own pages.
Alone == Len(pcb) = 1 /\ TOTAL_FRAMES >= 2

\* A process runs the lines of its script, in order, and all of them before it
\* ends: across turns, page faults and processes started meanwhile as long as
\* the store is undisturbed, and with evictions when it is alone
\* (execute_process, handle_page_fault).
InOrder ==
  (Undisturbed \/ Alone) =>
    \A p \in Pid :
      /\ pcb[p].ran = [i \in 1 .. Len(pcb[p].ran) |->
                         [script |-> pcb[p].filename, line |-> i]]
      /\ pcb[p].done => Len(pcb[p].ran) = Len(Program[pcb[p].filename])

\* The shell does not crash as long as the store is undisturbed and every file
\* that exec or a page fault opens is there, in the directory that my_cd lines of
\* any process have left the shell in: PC never leaves the shell memory, no fault
\* finds a frame outside it (execute_process, mem_get_value_at_line, get_victim).
NoCrash ==
  /\ Undisturbed
  /\ todo # <<>> => Found(Head(todo))
  /\ after = "fault" => cwd = Home
  => status # "crashed"

\* A process that has not ended is in the queue once or running, never both,
\* and one that has ended is in neither: its node has been freed
\* (ready_queue_add_to_tail, terminate_process, handle_page_fault).
OnePlace ==
  status \in {"prompt", "running"} =>
    \A p \in Pid :
      Cardinality({i \in 1 .. Len(ready) : ready[i] = p})
        + (IF cur = p THEN 1 ELSE 0) + (IF pcb[p].done THEN 1 ELSE 0) = 1

\* When the prompt comes back every process has ended and in_background is
\* clear: were it left set, schedule_by_policy would return at once and the next
\* run or exec would only be queued (execute_process, kernel.c:114, 133, 152).
PromptClean ==
  status = "prompt" =>
    ready = <<>> /\ ~in_background /\ \A p \in Pid : pcb[p].done

\* The prompt comes back after every command, even when processes run each
\* other's lines, unless the shell exits or crashes (scheduler_RR,
\* scheduler_FCFS).
PromptReturns == (status = "running") ~> (status # "running")

\* pcb.h:10: "start: the first line in shell memory that belongs to this task",
\* and end the last one: the lines from start to end of the process that runs
\* are lines of its script (execute_process, kernel.c:104).
LinesBelongToTask ==
  Executing => \A i \in FrameLines(This.pagetable[This.current_page]) :
                 shellmemory[i].var \in {None, This.filename}
=============================================================================
