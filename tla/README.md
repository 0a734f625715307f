# A TLA+ model of Mock-OS

Mock-OS is a shell with a toy kernel and file system, built in three
assignments: `a1` (shell functions), `a2` (memory management) and `a3` (demand
paging and a file system). `a3` contains the final form of everything and is the
main subject; `a2` has a kernel of its own, different enough to be modelled too.
Each program is one process with one thread: a command runs to completion before
the next is read. What makes it hard to get right is
not parallelism but *state that outlives a command*: scripts interleaved by the
scheduler, a page cache that erases what it cannot read again, a write-back
cache that `exit(99)` may throw away, allocations that fail half way, inodes
shared by handles that are not counted.

## Inventory

| Part (`a3/`) | State | Operations | What makes it correct |
|---|---|---|---|
| Buffer cache `fs/cache.c` | entries with sector, buffer, dirty and access bits; the clock hand | read, write, evict, flush, close | one copy per sector; a clean entry equals the device; reads see the last write; only what was not written back is lost |
| Block device `fs/block.c`, `fs/ide.c` | sectors | read, write | a sector is read and written whole |
| Free map `fs/free-map.c`, `fs/bitmap.c` | bitmap in memory, its file on disk | allocate, release, open, close | what is in use is marked; memory and file agree; only marked sectors are released |
| Inodes `fs/inode.c` | inodes on disk, list of open inodes | create, reserve, write, remove, close | no sector in two files; memory and disk agree on what the file is; removal frees all |
| Root directory `fs/directory.c`, `fs/filesys.c` | entries; the current directory and its count | add, lookup, remove, readdir, format | a name leads to an inode that exists |
| File table `fs/file.c`, `fs/fsutil.c` | names, files, positions | open by name, read, write, seek, rm, cat | an entry's inode is alive |
| Whole-disk commands `fs/fsutil2.c` | none of their own | copy_in, copy_out, find_file, fragmentation_degree, defragment, recover | they leave the file system consistent |
| Processes `pcb.c` | PCBs, page tables, file position of each script | PCB_init, load_PAGE, PAGE_evict, free_PCB | each line is run once, in order |
| Kernel `kernel.c`, `cpu.c` | ready queue, LRU list, all PCBs | new_proc, run_proc, run_proc_RR | fair turns, no process forgotten, the queue empties |
| Shell memory `shellmemory.c` | one array: frames, then variables | frame_alloc, clear_frame, mem_set_value, mem_get_value | frames do not overlap or leak; variables are left alone |
| Interpreter, shell | the command line | dispatch; `quit` | a command's status means what its caller takes it for |
| Lists `linked_list.c`, `fs/list.c` | | | |
| Kernel of `a2`: `kernel.c`, `pcb.c`, `ready_queue.c` | PCBs with page tables and use counts, ready queue, `in_background` | process_initialize, execute_process, handle_page_fault, both schedulers | each process runs its own lines in order; it is in one place at a time; the prompt comes back with nothing left over |
| Shell memory of `a2`: `shellmemory.c` | one array: variables, then frames | find_free_frame, load_page, mem_set_value, resetvarmem | a page stays where its page table says |
| `a1` | variables | set, print, host commands | not modelled |

The parts meet in four places. The interpreter calls the kernel (`exec`, `run`)
and the file system; the kernel calls the interpreter back for every line of a
script (`cpu_run`), and reads its status. Kernel and shell share `shellmemory`.
The file system reads and writes sectors only through the cache. And `exit(99)`
in the kernel ends the process with the cache still dirty.

`PROJECT.json` lists, under `hazards`, what in this code is hard to test, each at
its line with the property that watches it.

## Modules

| Module | Models |
|---|---|
| `SectorStore` | what `cache.h` promises: a map of sectors in front of a device that lags behind |
| `BufferCache` | `cache.c` over the block device; instantiates `SectorStore` |
| `BufferCacheProofs` | the theorems about `BufferCache` |
| `Pager` | `pcb.c`, `kernel.c`, `cpu.c`, `shellmemory.c` and the commands that reach them |
| `FileSys` | space: `free-map.c`, allocation in `inode.c`, the file table and the commands that change them |
| `ByteFile` | what the file commands promise: sequences of bytes with a position |
| `FileIO` | contents: `file.c`, the read and write loops of `inode.c`, `fsutil.c`, defragment; instantiates `ByteFile` |
| `NameMap` | what the root directory promises: a map from names to inodes |
| `RootDirectory` | `directory.c`, `filesys.c` and the loops over the directory; instantiates `NameMap` |
| `KernelA2` | `kernel.c`, `pcb.c`, `ready_queue.c`, `shellmemory.c` and `interpreter.c` of `a2` |
| `RootDirectoryProofs`, `FileIOProofs`, `KernelA2Proofs`, `PagerProofs` | the theorems about these four modules |
| `FileSysProofs` | the theorems about `FileSys` |
| `PagerRegularProofs` | the theorems about `Pager` that need scripts as the kernel expects them |
| `NatLemmas` | facts about numbers the proofs share: least elements, induction, division |
| `MC...` | constants for the model checker |

Operators called `Faulty...` are plausible faults of the definition that follows
them. No specification uses them; a property is believed only when putting such a
fault in place of the definition breaks it (`mutants` in `PROJECT.json`).

### BufferCache

One action per function of `cache.h`, and `Restart`. `buffer_cache_evict(k)` is
the clock loop as a whole: `k` is how far the hand travels, determined by the
reference bits. `target` is what the last read copied out; it makes the result of
a read visible to the refinement. `SectorStore` is reached by mapping `store` to
`Contents` (the entry if the sector is cached, else the device), `durable` to the
device and `result` to `target`. Eviction appears there as the freedom to write
back at any operation, `Restart` as falling back to the device.

### Pager

`exec` starts a command, `new_proc` creates one process of it, `Dispatch` begins
a turn of `run_proc_RR`, `run_proc` runs one line (or faults), `Finish` is the end
of `run_proc_RR` with `free_PCB` of all processes. A line of a script is what it
does: it sets a variable or has a status, and may be blank. Shell memory is one
array, as in the code, so that clearing past the end of a frame reaches the
variables. A memory line holds `<<script, number>>` instead of text. `run` is
`exec` of one script. `exit(99)` leads to `mode = "exited"`, where nothing more
happens. `requeue` is where a process whose line faulted goes: the tail of the
ready queue. `free_PCB` clears three lines from each line of a frame, as in the
code, and so two lines past the last frame. Three history variables (`executed`,
`turns`, `env`) record what ran, who had turns in between, and what was set last;
no action reads them. Lines that
exec or run other scripts are left out: in the code they make the scheduler run
inside itself and free the outer process.

### FileSys

Commands are functions on a record of the state, composed in the order of the
calls in the code, so that a failure half way leaves exactly what the code leaves.
A sector holds an inode, a block of pointers, zeros, or data of a file.
`inode_reserve` follows the code through direct, indirect and doubly indirect
blocks: pointers already set are kept, an index block is written only after all
its pointers were found, and the result of allocating the index block itself is
not looked at. `BlockSlot` and `Slots` describe a file of n blocks by the paths to
its blocks; deallocation and the properties are stated over them.

`map_file` is false when the inode of the free map was overwritten before the last
start: `PANIC` only prints, the map is then nearly empty and each allocation
fails, since saving the map to a file of length 0 needs an allocation itself.
`panicked` records which `ASSERT` or `PANIC` has printed, by the function it stands
in. `status` is what the interpreter returns: a write that the full disk cuts short
prints a warning and returns 0, and `cat` of a file that does not exist returns 0
too, since `fsutil_cat` says -1 where the interpreter looks for 1; `create` also takes
a negative size (one, since `inode_reserve` refuses them all alike). `stale` are the
entries of the file table whose inode has been freed; what a command does with
them is undefined and no action takes them.

`Spec` has the commands on single files and `restart`; `MaintenanceSpec` adds
find_file, fragmentation_degree, recover 0, recover 2 and the files that recover
names. They are apart because they break properties that hold without them.
The cache is not part of this module: `BufferCache` shows that a file system that
is shut down regularly sees it as plain sectors. `restart` is that regular
shutdown.

Left out of `FileSys` are the position of an open file and the bytes of a block
(a write starts and ends anywhere in `Sizes`), which `FileIO` has, and the slots
of the root directory, which `RootDirectory` has.

### FileIO

A file is its blocks and its length; which sectors the blocks are in, and that no
two files share one, is the subject of `FileSys`. A command is its start, one
action per iteration of the sector loop (`WriteChunk`, `ReadChunk`) and its end
(`file_write`, `file_read`), where the position moves. `write_fails` is a write
whose reservation fails: the blocks found so far stay with the inode, and the
position goes back by two, possibly below 0. There `size` and `cat` still run (they
seek back to it), but reading and writing are undefined and not followed. `typed` is
history: the text written since the position was last set, without the bytes that
failed writes took back, and where the last write ended (`end`), which failed writes
leave alone.

`ByteFile` is reached by completing the command under way: the bytes still in
`buffer` are taken as written, the bytes still to be read as read, and the
position as already moved. So a command takes effect at its first action, and
the loop stutters.

`DefragmentSpec` adds `defragment`, which breaks what holds without it. It is one
action: its loops read, remove and recreate all files without a choice in
between, except for what `malloc` returns. A directory with an empty file is left
out, since the code then uses an uninitialized name.

### RootDirectory

The slots of the directory's file by offset, the first of them the parent's; and
`handles`: the two struct dirs that can exist at a time, which of them is `cwd`,
and whether the root's inode is in memory. `valid` tells whether the inode a struct
points to still exists. Commands on one file are single actions, made of what
they do to the slots and what their opening and closing does to the handles.
Commands over the directory are loops: a `dir_readdir`, then a body that does
nothing, opens the file (and thereby opens and closes the directory again) or
removes it. After a removal inside a loop the loop's inode has been freed; the
model stops there. `NameMap` is reached by `lookup` on every name.

### KernelA2

The scripts' lines are commands, so that run, exec, set, resetmem, my_cd and quit
also occur inside scripts. `cwd` is the directory of the shell: scripts and their
copies in `./backing_store` are found from `Home` only, so that a `my_cd` of one
process makes a later page fault of any other open a file that is not there, which
is a crash, as is an `exec` typed elsewhere. The control variables say where the program stands: `todo`
and `request` are the scripts a run or exec has yet to load and the policy it will
ask for, `after` is what `execute_process` has decided before it calls the
interpreter and does afterwards. Actions between two prompts are deterministic,
with one exception: a dangling file name (`exec` in a script returns before its
processes fault) may spell any script, or none. `ran`, `done` and `evicted` are
history; `evicted` is set by the loading of a page that finds no free frame, be it
for the first two pages of a process or in a fault. A crash or exit ends the
behaviour. The assumptions on the scripts are those of the code's fixed sizes: a
script has fewer pages than a page table has entries (the code does not check),
and the value a `set` stores is never taken for a line of a script.

An interesting part of what the code does is wrong once frames run out or a page
is loaded empty, and `Undisturbed` names exactly that: `PagesInPlace`, `InOrder`
and `NoCrash` are stated for undisturbed behaviours, the others for all. `NoCrash`
also assumes that the file which the next step opens is there: nobody but the user
can see to that.

## Runs

| Run | Bounds | Shows |
|---|---|---|
| `cache` | 2 entries, 3 sectors, 2 contents | more sectors than entries, so every read may evict; coherence, second chance, refinement of `SectorStore` |
| `pager` | 12 frame lines (4 frames), scripts of 1, 2, 4, 7, 10 lines and a missing one, 3 processes | two scripts of ten lines need eight pages in four frames: eviction, faults in each other's turns; three long scripts exhaust the frames at once and exit; all safety properties, where variables may be lost, and that exec ends |
| `pager_irregular` | 11 frame lines (3 frames and a remainder), statuses 1, blank lines, final newlines | what is left when the kernel misreads a status or a line count: own lines only, none twice |
| `filesys` | 16 sectors, 2 bytes each, 3 direct blocks, 2 pointers per index block, names a and b, lengths 1 and 11, and -1 for create; at most one sector lost for good | files of one block and of all three levels; the disk fills up with two of them; every point of failure of creation and extension, and the retry of a failed extension |
| `fileio` | sectors of 2 bytes, files of up to 6, texts of one and two bytes, positions 0 and 3 | chunks that start and end inside, at and across sector borders, gaps, failed writes and what follows them; refinement of `ByteFile`; that the loops end |
| `rootdir` | a parent and 2 free slots that grow to 4, 4 names and one too long, 4 inodes | slots freed, reused and appended in every order, loops in between; refinement of `NameMap` |
| `kernel_a2` | 6 frames, 2 variables, 2 directories, 3 commands out of 18, scripts of 1 to 8 pages | nested run and exec, faults, scripts that leave the directory, empty last pages, a page table larger than the frame store; safety, and that the prompt returns |
| `filesys_full` (violation) | 12 sectors, lengths 1 and 7 | the free map's inode is overwritten |
| `filesys_handles` (violation) | 9 sectors, length 1 | listing commands leave dangling entries |
| `kernel_a2_evict` (violation) | 4 frames, two scripts of 3 and 8 pages | a process runs another's lines |
| `fileio_defragment` (violation) | as `fileio` | defragment loses what stands before the position |
| `pager_requeue` (violation) | as `pager` | a process whose line faults goes to the tail, not to the head |

Why the bounds are enough: the sizes in the code (64 cache entries, 123 direct
blocks, 128 pointers, frames of 3 lines) appear as constants, and each run makes
the capacity smaller than the demand, which is where the behaviour changes. The
frame of three lines is the code's. `fileio` has one file: the loops address
blocks through the file's own inode, and that files do not meet is `NoSharing`.
Names and inodes of `rootdir` are symmetric; runs with liveness use no symmetry.

Some statements deserve a remark.

- The scripts of `pager` have no final newline and no command of status 1 (see
  Observations). `FairTurns` holds because a fault requeues at the tail, against the
  comment of `run_proc`, which `pager_requeue` checks. `VariablesKept` is what is left
  of the promise that variables have lines of their own: evictions and loads change
  none, and the end of exec only those in the two lines after the last frame
  (`LastCleared`), which the run loses (see Observations).
- `filesys` states `UsedIsMarked`, `MapSaved` and `SpaceAssertsHold` *as long as the
  free map could be read at startup*; that it always can is what `filesys_full`
  refutes. The two action properties are stated under the same condition;
  `NoSharing`, `ContentsKept` and `OpenInodesAgree` hold even afterwards.
  `SpaceAssertsHold` is about the assertions of `free_map_release` and
  `inode_reserve`. Two others can fail, that of `inode_create` and that of
  `file_seek`, and no property says otherwise (see Observations).
- `LeakBound` of `MCFileSys` ends the exploration of `filesys` where more than one
  sector is marked that neither the disk nor an inode in memory leads to. Nothing
  ever uses such sectors again, and the ways to lose them are many; the steps up to there are all checked, and the
  theorems have no such bound.
- `LostOnlyOnErrorOrFull` excepts writes that took the last free sector, because
  the interpreter reports success for a write that wrote less, or nothing.
- `TextsFollow` is about the text that is left when each failed write has taken back
  the last two bytes: `file_write` gives no more than that (see Observations).
  `ByteFile` says the same of the position (`WriteFails`).

Fairness: `Pager` assumes weak fairness of `new_proc` and `run_proc_RR`, `KernelA2`
of `Step`, `FileIO` of `Loop`: everything that happens between a command being read
and the next prompt. The shell is a single thread that never waits in between, so
its next step always happens. No fairness is assumed of the user. Deadlock is
checked where the system goes on for ever; `kernel_a2` and `rootdir` switch it off,
because a shell that has exited, crashed or used freed memory stops there, and
`KernelA2` because commands are bounded by `MaxCommands`.

## Proofs

All theorems hold for every value of the constants that satisfies the `ASSUME`s of
the modules: sizes are natural numbers (positive where the code divides by them),
scripts are finite sequences of commands, and the values that stand for "absent"
or "none" are not names, sectors or lengths. The inductive invariants were checked
with TLC, for several sizes, before they were proved.

`BufferCacheProofs`:

- `CacheCoherent`: `Coherent` (types, one copy, clean entries equal the device) is
  an invariant. It is inductive as it stands, but none of its parts is: that a
  miss adds no second copy needs the linear search to have seen all entries; that
  a flush leaves the *other* clean entries equal to the device needs that no other
  entry has the same sector, which is `OneCopy`; both need the hand to point into
  the cache.
- `CacheTypeCorrect`, `NeverTwoCopies`, `CleanEntriesMatch`: its parts, each an
  invariant the run `cache` checks.
- `ClockGivesSecondChance`: the action property `SecondChance`.
- `CacheImplementsStore`: the refinement. The lemmas first say what `Contents` is
  when a sector is cached and when it is not; then each operation is shown to be
  the store's, with the set of sectors it wrote back as the witness.

`RootDirectoryProofs`:

- `Invariant`: `IInv` is inductive. Besides types it says that no two used slots
  have the same name (`SlotsOK`); that a loop's struct dir is `cwd`, opened once,
  with a position (`LoopHolds`), and only a loop that removes can lose it; and that
  a listing has shown exactly the names of the used slots before its position
  (`ShownSoFar`). The first is why `dir_add` may look a name up by its first slot,
  the second why the opening and closing of files inside a loop puts the handles
  back, the third why a listing shows every name and none twice.
- `TypeCorrect`, `HandlesBalance`: the invariants of the run `rootdir`.
- `Refinement`: `ImplementsNameMap`. Adding, removing and looking up are the map's
  operations because of unique names; `dir_readdir` is the map's "next name".

`FileIOProofs`:

- `Invariant`: `IInv` is inductive. A file has blocks for its length and zeros
  after it (`FilesOK`); the loop under way is inside its file and its buffer has
  what is left to write, or what has been read (`LoopOK`); and the typed text
  stands before the position in the file *as it will be when the loop has ended*
  (`TextsOK`). Zeros after the end are needed for growth: `inode_reserve` clears
  new blocks only, so the rest of the last sector must be zero already.
- `TypeCorrect`, `NothingHidden`, `TextsReadBack`: the invariants of the run
  `fileio`. The last covers failed writes: `TextsOK` loses the last two bytes with
  them, and the rest still stands before the position.
- `Refinement`: `ImplementsByteFile`. A chunk in a sector is a piece of the byte
  sequence; the arithmetic of sector number and offset is in `NatLemmas`
  (`DivModUnique`, `RoundUp`) and `ByteAt`.

`KernelA2Proofs`:

- `BaseInvariant`: what holds whatever was evicted. Each process is running, queued
  once or done (`QueueOK`); `todo`, `request`, `policy`, `after`, `cur` and
  `in_background` fit together (`ControlOK`), which is where nested run and exec
  lines matter; page tables and frames keep their ranges (`TablesOK`, `MemoryOK`).
- `Invariant`: the base, and two layers for undisturbed behaviours. `PlacesOK`:
  loaded pages stand in the frames of the page table, and the free frames are the
  last ones, so that what `find_free_frame` returns belongs to nobody. `RunsOK`: the
  lines run so far are as many as PC and current page say.
- `TypeCorrect`, `InOnePlace`, `PromptIsClean`, `PagesStayInPlace`, `LinesInOrder`,
  `NeverCrashes`: the invariants of the run `kernel_a2`. The last three are stated
  under `Undisturbed`, as the properties are. A crash that is not one of an undisturbed
  store is one of a missing file (`FileMissing`), whatever `my_cd` lines did before.

`PagerProofs`, for all scripts, regular or not (blank lines, a newline at the end,
commands that return the status of a page fault):

- `BaseInvariant`: `Base` is inductive. It has the types of memory and page tables
  (`MemOK`, `ProcsOK`); that the program counters of the pages are what the number
  of lines taken says (`Pc`), so that the current page is the page of the next line;
  that a page is at three consecutive lines of the frame store or invalid; and how
  ready queue, LRU list, turn and histories fit together (`QueueOK`, `HistoryOK`).
  A fault goes through states in between (after the eviction, before the load), so
  its parts are stated for a memory and a set of PCBs.
- `TypeCorrect`: `TypeOK`.
- `TurnsAreFair`: `FairTurns`. The invariant `TurnsOK` adds that no process in
  front of another in the queue had a turn since the other's last one.
- `LinesAreOwn`: `OwnLinesOnce`. A valid line that is still to be run holds a line of
  its own script that was not run and that stands at no other such place, or "none"
  (`LinesOK`); the frames of loaded pages do not overlap, and their lines are taken,
  except line 0, which the eviction of a page that is not loaded clears (`FramesOK`). It is assumed that the frame store has at most 1000
  lines: the index that stands for "never loaded" must not be a line of it.
  `NameAssumption` says that "none" is no pid and no line.

`PagerRegularProofs`, under the hypothesis `RegularScripts`: scripts have no blank
line, no newline after the last line and no command that returns 1. The run
`pager_irregular` has the other scripts; for them these statements are false, since
`run_proc` takes the status 1 for a page fault and `count_lines` counts other lines
than `load_PAGE` reads.

- `PagingInvariant`: `Paging` is inductive with `Base`. That an eviction loses no
  line cannot be shown from the memory alone: the tail of the LRU list must have no
  line left to run. `Layout` says where pages are: a page of the list is at a frame
  that starts at a multiple of three and holds the lines of the script, a page that
  is not was evicted when done, or never read. `InStep` says that there are E and J
  such that every process has run E lines and read J pages, or all it has, and those
  that had their turn in this round the next E and J. `Stamp` is the round in which a page
  was last used, as its process's line says, and `Sorted` says that the list is in
  descending order of stamps and has at least two pages for each process of more
  than three lines. Were the last page of the list to have a line to run, all stamps
  of the list would be those of this round or the one before, which
  only the two latest pages of a process have, and one of them is the page that is to
  be loaded (`VictimDone`): fewer than the list has (`Pigeons`).
- `ScriptsInOrder`, `NoLineIsLost`, `ScriptsRunToTheEnd`, `FramesAreOwned`: the
  invariants `InOrder`, `NoLostLines`, `AllLinesRun`, `FramesAccounted` of the run
  `pager`.
- `VariablesAreKept`: `VariablesKept`. `VarsOK` says that named lines of the variable
  store have different names and the last value set, and that a variable without a
  line was never set; a variable without a line finds a free one because names are at
  most as many as lines. Evictions clear lines of frames only. `free_PCB` clears up to
  two lines past the last frame, and the theorem, for a frame store of any size, says
  that no variable further up is lost, and that one that is reads as none until it is
  set again.

`FileSysProofs`, for any number of sectors, sector size, direct blocks, pointers per
index block, names and lengths:

- `MapIsSaved`: `MapSaved`. The commands are functions of the record of variables
  they change, so the proof is a lemma for each function: it leaves a state whose
  map was saved (`Synced`) in such a state, however it ends. The loop over the
  second-level blocks is a recursive function; `AfterExists` shows that it exists,
  `SyncedLevel2` goes along it. `CopyInSizeNat` says that the length copy_in computes
  is a whole number of sectors, which needs three direct blocks (`CopyInAssumption`).
- `FilesStay`: `FilesInv` is inductive. It says of every file (`FileIn`, `TreeOK`)
  that its sector and all that is reached from it through its inode *in memory* are
  sectors of the bitmap other than the system's, reached along one path only, with
  pointers where pointers are expected and zeros or data of that file elsewhere; that
  the inode in memory has every pointer of the one on disk and perhaps more
  (`InodeLeq`); that the blocks up to the length are there (`LengthOK`); that the
  sectors of two files are disjoint, and marked in the map while there is one; and of
  the inode of the map that it stands in sector 0, or zeros do (`MapIn`).

  The properties are about the inodes on disk and are not inductive. An extension
  that fails half way leaves new pointers in memory and in index blocks that are
  already on disk, and a later one goes on from them: were these sectors not the
  file's own too, the retry would link a sector that another file has been given.
  Nor may sector 0 be said to hold the map's inode: an index block that could not be
  allocated is written there all the same, and `FilesInv` says that nothing else
  can come of it. Marked sectors that no file reaches are allowed, since
  `filesys_create` leaves some when it fails.

  The argument goes up along the calls. `Alloc` is what any number of allocations do
  to the map and the disk, and which index blocks they may rewrite; `Grow` what they
  do to the pointers: those set stay, new ones are distinct sectors that were free.
  Lemmas give this for `Fill` (a run of pointers), `IndexSector`, `ReserveLevel1`
  and `ReserveLevel2`, the last with `LoopOK` as the invariant of its loop; a file's
  blocks are then the paths of `Slot`, each level changes its own (`Part`), and
  `ReserveEffect` puts the three levels of `inode_reserve` together: a part of the
  blocks, or all of them and no sector too many (`Full`). With `OKFrame` (a command
  that changes one file, and sectors that were free, leaves the others as they
  were), each command keeps the invariant; `StepIs` goes through the actions.
- `FileSysTypes`, `SectorsMarked`, `SectorsApart`, `ContentsStay`, `InodesAgree`:
  the invariants `TypeOK`, `UsedIsMarked`, `NoSharing`, `ContentsKept` and
  `OpenInodesAgree` of the run `filesys`. They follow from `FilesInv`: along the
  blocks up to the length, the inode on disk and the one in memory lead to the same
  sectors.
- `AssertsStay`: `SpaceAssertsHold`, under the hypothesis `LengthsFit` that no length a
  command asks for has more blocks than an inode can point to. The assumption is
  that of the code: `inode_reserve` goes through the levels and then asserts that
  nothing is left over. The lengths of the runs satisfy it.
- `RemovingFrees`: `RemoveFreesAll`. The deallocation in `inode_close` reads the
  inode from disk and releases its blocks one by one; they are distinct and marked,
  and they are all that the file reached.
- `LosingIsFailing`: `LostOnlyOnErrorOrFull`, under `LengthsFit`. A reservation that
  succeeds has put every sector it took into the tree (`Full`), within the length that
  is then written to disk. One that fails does so because no sector is left, and the
  write that asked for it gives none back.

No theorem is about `MaintenanceSpec`: its commands break `FilesInv` (recover 0 brings
back files whose blocks may belong to others, and listings free inodes in use), and
`filesys_handles` shows it.
Liveness (`ExecTerminates`, `PromptReturns`, `CommandsEnd`) stays with TLC because fairness
is out of the prover's reach. Induction over numbers is done with `SetInduction` of `NatLemmas`, which
takes a set instead of a predicate; induction over other data (what an operation
computes for every list or tree) is not available, and no theorem needs it. No
module uses a RECURSIVE operator.

## Findings

`PROJECT.json` lists five places where the code does not do what a comment or
assertion of its own says, each with the run that shows it:

- a full disk can cost the free map (`filesys_full`);
- an inode is freed at its first close (`filesys_handles`);
- the eviction of `a2` takes a page number for a frame number (`kernel_a2_evict`);
- defragment loses the part of a file before its position (`fileio_defragment`);
- a page fault puts the process at the tail of the ready queue, where the comment of
  `run_proc` says head (`pager_requeue`); the tail is what makes turns fair.

The third and the fourth were reproduced with the compiled shells.

### Observations

Met while modelling, and without a run of their own:

- `free_PCB` clears two lines past a frame. When the frame store is a multiple of
  three lines these are lines of `shellmemory.c:13` "reserved for variables", and the
  end of exec unsets the variables there. `VariablesKept` allows exactly this.
- `file_write` adds the bytes written minus two to the position also when nothing was
  written (`file.c:136`): on a full disk the next text overwrites the end of the one
  before, and a write that fails at the start of a file leaves the position -2, on
  which the `file_seek` of a later `size` or `cat` prints
  "ASSERT(new_pos >= 0)" (`file.c:183`). The model does the same; `TextsFollow` says
  what is left of the text.
- `create` with a negative size reaches "ASSERT(length >= 0)" of `inode_create`
  (`inode.c:107`), which prints; `inode_reserve` then refuses the length.
- `run_proc` takes every status 1 for a page fault, also that of a `read` of a
  whole file: the next lines are loaded over the page. `OwnLinesOnce` is what is
  left.
- A script of `a3` whose last line ends with a newline is counted one line too
  long: with four lines, the last page waits for a line that does not exist and
  exec never ends.
- A file that recover 0 brought back cannot be removed without violating the
  ASSERT of `free_map_release`: its blocks were not marked.
- `debug.h` says that `PANIC` halts the OS; it prints and returns, which is why
  the model goes on after it.
- `write` reports success when the disk is full and nothing was written, and `cat`
  when the file does not exist: the interpreter compares with statuses that the
  functions do not return.
- `my_cd` in a script of `a2` makes the next page fault of any process open a file
  that is not there, and `fgets` reads from NULL; `NoCrash` excludes it by name.
- `run` of `a2` compares its error with 11, which is not FILE_DOES_NOT_EXIST: a
  missing script is run silently as nothing.
- Frames of `a2` are never freed: a long session evicts even when one script runs
  at a time.
- `size /` and similar commands on the root leave `cwd` open at the end of the
  directory, and the second `ls` after it shows nothing.

## Plan

Done: `SectorStore`, `BufferCache`, `Pager`, `FileSys`, `ByteFile`, `FileIO`,
`NameMap`, `RootDirectory`, `KernelA2`, and the proofs: every safety invariant and
action property of a passing run is also a theorem, and the three refinements are.

What could follow: an invariant of `MaintenanceSpec` that keeps the files recover 0 brought
back apart from the others, and the hazards
without a property, of which the nested scheduler of exec inside a script of `a3` is
the most rewarding.

## Not modelled

- `a1`: its variable store is that of `a2`, and nothing else of it has state.
- The shortest-job and aging schedulers of `a2` (`scheduler_SJF`, `scheduler_AGING`,
  `sort_ready_queue` and its helpers): no command asks for them.
- `partition.c`, `filesys_chdir`, `inode_deny_write`, `mem_free_lines_between`: never
  called. Subdirectories: no command makes one.
- `fs/list.c`: an intrusive list library; what it stores is modelled as sets.
- Crash consistency of the file system on the device: `BufferCache` shows which
  writes `exit(99)` loses; the file system makes no promise about what is left.
- The text handling of the shells, buffer sizes of C strings, host commands, the
  host files of copy_in and recover 1.
