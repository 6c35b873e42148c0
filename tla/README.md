# A TLA+ model of baSic_

baSic_ is a small 32-bit x86 kernel: one CPU, a shell that runs as kernel code,
a round-robin scheduler, `int 0x80` system calls, a heap, an in-memory file
system, a FAT12 disk behind a sector cache, and a small network stack. This
directory holds TLA+ modules for its parts, TLC configurations that check them on small instances, and
proofs, checked by TLAPS, that hold for every instance.

`PROJECT.json` maps every definition to the lines it models, and lists the runs,
the mutants each property is tried against, the findings, the hazards and the
theorems.

## 1. The system

### Who runs when

* There is one CPU. A timer interrupt (1000 Hz) may come between any two
  instructions that run with interrupts on; `sched_tick` counts ten of them and
  then rewrites the interrupt frame, so that `iret` resumes another process.
* `int 0x80` is an interrupt gate: a system call runs with interrupts off and is
  atomic. The exception is `proc_wait`, which executes `sti; hlt` in its loop and
  runs with interrupts on from there.
* The shell is process 1 but kernel code. It calls `proc_create`, the heap, the
  file system and the disk directly, with interrupts on. Everything it shares
  with system calls (process table, descriptor table, file nodes, the buffer of
  `kprintf`) is shared without a lock.

### Components

| component | state | operations | what makes it correct |
|---|---|---|---|
| process table (`process.c`) | 16 slots: pid, parent, state, context; next and current pid | create, fork, wait/cleanup | a pid names one process; zombies stay dead until reaped; a slot in use is not given away |
| scheduler (`sched.c`) | tick counter | `sched_tick`, `pick_next` | at most the current process is RUNNING; the scan comes to every READY process unless exits and reaps set it back; a switch restores a whole context |
| system calls (`syscall.c`) | user break | 21 calls | each acts on the process that made it |
| shell `spawn` (`shell.c`) | – | `cmd_spawn` | holds beside ticks and system calls |
| heap (`mm/heap.c`) | list of block headers | `kmalloc`, `kfree`, merge walk | the blocks tile the heap; owned blocks are left alone; free neighbours join |
| pipes (`pipe.c`) | ring of 512 bytes | write, read | a bounded FIFO |
| descriptors (`fs/fd.c`) | 16 entries, 8 pipes | open, close, read, write, pipe, dup2 | an entry refers to what it was opened for; offsets stay inside the file |
| disk cache (`disk.c`), ATA (`ata.c`) | 16 slots, drive | read, write, flush | reads see the latest write; acknowledged writes survive; flush writes everything |
| FAT12 (`fat12.c`), disksync | FAT in memory, directory on disk | list, read, write, delete | chains are disjoint; a crash harms at most the file being written, until the disk is used on |
| RAM file system, VFS, `cd`, `mkdir`, `touch`, `write`, `cp`, `mv`, `rm` | tree of nodes, the shell's directory as text | one per command | the tree stays a tree; nothing is lost; the shell stays in a directory |
| signals (`signal.c`) | 16 entries: pending, mask, handlers | send, dispatch, mask | a signal sent to a live process is delivered |
| timer, watchdog | 32-bit ticks | sleep, kick, fired | across wrap-around |
| log, printf | ring of lines, one line buffer | write, dump | the last lines in order |
| pmm, vmm | frame bitmap, page tables | alloc, free, map, unmap | count matches bitmap; no frame twice |
| command line (`shell.c`) | line with cursor, ring of earlier lines, history file, running scripts | every key, Enter, Ctrl-R, Tab, scripts, reboot | the line stays in its buffer; the history is what was entered; scripts end |
| environment (`env.c`), aliases, file metadata | tables of key and value | set, get, unset | a map |
| calculator (`calc.c`) | – | evaluate | its grammar |
| editor (`editor.c`) | lines, cursor, scroll position, file | per key, load, save | a text with a cursor; the cursor is visible; what is saved is what is shown |
| text commands (`head`, `tail`, `sort`, `uniq`, `grep`, `wc`) | line arrays | – | they print what a reading of the whole text gives |
| E1000 driver | two rings of descriptors shared with the card | send, receive | the rings are queues; a reported send was sent |
| network stack (`net.c`) | ARP cache | poll, ARP, ping, UDP send | packets go to the last address announced; every call returns once the network is quiet |
| keyboard, terminal | one-character mailbox | key, read | – |
| boot, gdt/idt/pic/tss, vga, serial, rtc, pci, elf, profiler | hardware set-up | – | not modelled: straight-line hardware I/O |

The interactions that matter: tick and system call on the process table; shell
and system call on the process table, the descriptors and the files; FAT12 on
the cache, the cache on the drive, and power loss under both; the network calls
on the driver's rings while the card moves them; the shell's line, its history
and the scripts that overwrite the line they were started from. The hazards of
each are listed in `PROJECT.json` at their lines.

## 2. The modules

| module | models | composed with |
|---|---|---|
| `Processes` | process table, scheduler, `exit`, `fork`, `exec`, `wait` | – |
| `ShellSpawn` | the shell's `spawn` in four interruptible steps | EXTENDS `Processes` |
| `Heap` | `mm/heap.c` | – |
| `Pipe` | `pipe.c`, byte by byte | refines `BoundedFifo` |
| `BoundedFifo` | abstract queue with atomic calls | – |
| `MCPipe` | the writes TLC tries on `Pipe` | EXTENDS `Pipe` |
| `FileDescriptors` | `fs/fd.c`, its system calls, ramfs lengths | – |
| `DiskCache` | `disk.c` over `ata.c` | – |
| `Fat12` | `fat12.c` over the sectors `disk.c` accepted | refines `FileStore` |
| `FileStore` | abstract flat file store | – |
| `Editor` | `editor.c`, with load and save on a file of limited size | refines `TextBuffer` |
| `TextBuffer` | abstract text with a cursor | – |
| `TextTools` | the commands that read a text, and what they are for | EXTENDS `Editor` |
| `MCEditor` | the files, queries and patterns TLC tries on `Editor` and `TextTools` | EXTENDS `TextTools` |
| `E1000` | `e1000.c` and the card | – |
| `Net` | `net.c` | EXTENDS `E1000` |
| `ShellNet` | `arp`, `ping`, `udpsend` with their parser of addresses | EXTENDS `Net` |
| `MCShellNet` | the hosts and frames TLC tries | EXTENDS `ShellNet` |
| `Files` | the tree of `ramfs.c`, the walk of `vfs.c`, the file commands | – |
| `ShellLine` | `shell_run`, history, search, completion, scripts | – |
| `Calc` | `calc.c`, and its grammar | INSTANCEd by `MCShellLine` |
| `KeyTable` | `env.c`, and the map it should be | INSTANCEd by `ShellEnv` |
| `ShellEnv` | the shell beside the environment | EXTENDS `ShellLine` |
| `MCShellLine` | the words, scripts, expressions and calls TLC tries | EXTENDS `ShellEnv` |
| `*_proofs` | theorems of the modules they extend (`ShellNet_proofs` those of `E1000` and `Net` too) | – |

`Kernel_proofs` extends `Processes`, `Heap` and `FileDescriptors` together, which
share no state; the initial predicate, next-state relation and specification of
these three therefore carry a prefix (`ProcSpec`, `HeapSpec`, `FdSpec`).

**Processes.** `proc_table`, `next_pid`, `current_pid` and `tick_counter` are the
code's variables; `cpu` is the context that is executing. A context is where the
code is (`pc`), what it holds in its locals (`arg`) and which stack `esp` points
into. `sched_tick` is `CountTick \/ EndQuantum`; a system call is one action;
`proc_wait` is one action for its first pass (interrupts off) and, once it has
halted, one for the test of the slots (`WaitScan`) and one for the cleanup
(`WaitReap`). The scan of the slots is one step: only the gap between test and
cleanup matters to what is cleared. `sys_exit` returns to its caller, as the code
does, so a program goes on after its exit. The stack the CPU is left on after a
switch is recorded in `cpu.esp`; apart from the run `processes_stack`, which is
about exactly that, the model lets the resumed code go on as if its stack were
its own, since what code does on a foreign stack is not defined by the source.
Signals change no process: nothing calls `signal_dispatch`, and
`signal_send(SIGCHLD)` returns at its range check.

**ShellSpawn.** `cmd_spawn` and the `proc_create` in it: find a slot, publish it
READY, fill its context, set READY again. The steps are coarser than the
instructions, so every interleaving of the model is one of the code.

**Heap.** `hdr` maps the address of each header in the list to the header; the
walk of `merge_free_blocks` is one step per iteration. `owned` is the callers'
side. Callers free only what they were given and once; the magic number that
`kfree` tests is therefore not kept. Sizes are natural numbers: the sizes that
the kernel passes are small constants.

**Pipe.** A call starts, moves one byte per step, and returns. `Queue` is the
refinement mapping: the bytes in the ring with the effect of the call in progress
taken back, so that a call takes effect when it returns.

**FileDescriptors.** Files are lengths and pipes byte counts (the order of the
bytes is `Pipe`'s subject). `Rewritten` is the environment: `cp` and the editor
set a file's length to 0 and write it anew while it may be open. Calls with a bad
descriptor or a full table change nothing and are stuttering steps.

**DiskCache.** `Faults` says where the drive may report an error: on the reads
and writes that callers ask for, on the write-back of an eviction, on the
write-back of a flush. A write that fails may or may not have reached the platter.
`PowerCycle` may come between any two steps, also inside the flush loop. `latest`
and `acked` are what callers know. `disk_write_sector` without a drive is not
modelled: FAT12, its only caller, is not mounted then.

**Fat12.** `fat_data`, `fat_dirty` and the disk (the copies of the table, the root
directory, the data region) are the state; `op` holds the locals of the call in
progress. A call is one step per sector it writes, with the work in memory up to
the next write: `fat12_write` (unlink the old file, take the clusters), `WriteData`
per data sector, `WriteEntry`, `FlushSector` per sector of each copy of the table,
`FlushReturn`. The error returns are those of the code: a full disk or a full
directory ends the call without `fat_flush`. The table is an array of bytes with
two 12-bit entries in three of them, so `fat12_get` and `fat12_set` are the code's
arithmetic.

`Reboot` may come between any two of these steps, in the middle of a call too, and
reads the table again from the first copy. Two consequences are open in the
properties. Space is lost when the first copy has not followed the directory
(`TableBehind`), in the middle of a call or after one that failed (`NoLeak`). And a
stop between the new entry (`fat12.c:380`) and the end of the first copy of the table
(382) leaves an entry whose chain is missing or half there (`InPieces`): the next
files get its clusters, and files share them. From then on (`torn`) nothing is
claimed; until then everything is (`Whole`).

`fat_data` holds two sectors of the table, 682 entries, and no index is checked. The
disk may have more clusters than that, as that of `DOCS.md:97` has: the first `Held`
of them have an entry, and a call that would go on behind the array ends the model
(`Overrun`). So the properties say what holds as long as every access is inside.

A sector that `disk_write_sector` accepted is on the drive and is read back, which is
what `DiskCache` shows. Reads do not fail here, although those of `DiskCache` may: the
driver ignores the result of `disk_read_sector` (`fat12.c:68, 217, 264, 294, 324, 373,
399`) and goes on with what its stack holds, so nothing would be left to claim; a
hazard records it. A name that is cut to 8.3 is stored as `Cut`, which may be another
file's name; the promises about names are made for `OwnNames`. A cluster of several
sectors is in the model; `clusters_needed` is then rounded down and `IsFileStore` fails,
which a hazard records too.

**Editor.** The buffer is a sequence of lines; each key is one action, with the
`adjust_scroll` that follows it. `Loaded` is what `load_file` makes of a file: only
lines that end in a break count, so text behind the last break is not shown, and
the file that the shell's `write` makes, which has no break, opens as an empty
buffer. A find-next misses the occurrence that the cursor is in.

A file is its bytes, `ABSENT`, or `NOBUF`: a node without a buffer, which is a directory
or was made when the heap had no room. `save_file` reports a file that cannot be
created and nothing else: a node without a buffer takes no byte, a new node may find no
place in its directory, a text is cut at the size of a file, and all of these count as
saved. `UnmodifiedIsSaved` names them. A save whose last line starts behind the end of a
file runs through memory (`crashed`). A file with as many breaks as the buffer has lines
is loaded with one line too many (`overrun`): `num_lines` is then one more than the
arrays have; Ctrl-Q leaves it, and any other key ends the model (`KeyBeyond`), because
what lies behind the arrays is up to the linker. `CursorVisible` says that the arrays are
left in these two ways and in no other.

**TextTools.** The commands are functions from the bytes of a file to the lines
they print, recursive functions over the same loop bodies as the code. The run
evaluates them on every file and every text that the editor reaches and compares
them with definitions over the whole text. A byte is its code, 1 to 255: a text
has no NUL. `tail` is asked for at most as many lines as its ring holds, as in the
code (10 and 32). `strncpy` with 127 does not end a line of 127 characters, and the
arrays of `tail` and `uniq` are on the stack and not cleared: `Kept` is such a line
with `Stale`, whatever is read behind it, so that what these two print is claimed
only of texts in which no line fills its array (`Short`). `sort` copies into a
static array, `head` prints from the array it fills, and neither is affected.

A line is what is between two breaks, and what follows the last one (`AllLines`).
`head`, `tail` and `grep` never look at the latter, which is the whole text of a file
that `write` made, where `DOCS.md:376-379` speaks of the first and the last lines and of
a search of the file. The properties are therefore about these three commands only for
texts whose last line ends in a break (`Ended`); of `sort`, `uniq` and `wc` they are
about all.

**E1000.** The driver's `tx_tail` and `rx_tail`, the card's head and tail registers,
and the descriptors with their status bytes. `e1000_send` is two steps, the handing
over and the end of the wait: between them the card may send, and the wait may end
either way while the status is not set. Frames carry numbers for the properties
only. `CardTransmits` and `CardReceives` are the card; it never has to move, it may
receive for ever, and `mmio` may be unset (no card found), in which case both functions return at once.

**Net and ShellNet.** `cmd`, `phase`, `doing` and `tries` are where the shell's call
stands: in `net_arp_request` or behind it, in a send, in `net_poll`, in
`timer_sleep`. One step of `net_poll` takes one frame through its handler; a
handler that answers goes through `e1000_send` as the code does. Nothing polls
while no call runs, so frames wait, or are dropped when the ring is full. `heard` is
what was announced, for the properties. `ParseIp` is the shell's parser, with its
8-bit octets and its default of 10.0.2.2 for what was not typed.

**Files.** A node is a name, a kind and its children; nodes are never freed, as in
the code. Commands are whole functions, since nothing else changes the tree while the
shell runs one. The code's oddities are kept: `add_child` drops silently what does
not fit, `mv` takes the node out before it knows whether there is room, and the bare
`cd` writes one byte behind `cwd` (`strncpy` of `lib/string.c:89-98` ends what it
copies at index n), where `prev_cwd` may lie. `displaced` records that a directory
was moved or a path damaged.

**ShellLine.** `cmd_buf` is the array with what lies behind the line. Every key of
`shell_run` is an action, Ctrl-R a mode of its own; Enter pushes the line into the
history and dispatches it. Only the lines that change this state are told apart:
`reboot` (which also stands for `halt` and `poweroff`, all three save the history
first), `run` and `!!`. A script is a frame of lines that are left; `Nesting` frames
are what the kernel stack has room for, beyond which the machine is `Crashed`.
`recent` holds the lines as the user saw them. `Alphabet` is the set of characters
that a line may hold.

**Calc and KeyTable.** Pure functions. `Calc` has the recursive descent of the code
beside the grammar of its header comment, said as the set of values of a string
under every way to divide it. `KeyTable` has the loops of `env.c` beside a map;
keys and values are cut off where their arrays end (`Cut`): a value
reads as its first 63 characters, where `DOCS.md:276` speaks of 64. They have no state of their own, so their
comparison is evaluated at the prompt, in `MCShellLine` for `Calc` and in `ShellEnv`
for `KeyTable`.

## 3. The runs

Passing runs:

| run | checks | bounds and why they are enough |
|---|---|---|
| `processes` | PidsUnique, RunningIsCurrent, ZombieOnlyReaped, ScanAdvances | 3 slots, pids up to 4: fork and exec with and without a free slot, reuse of a reaped slot, two waiters, one process that can be passed over |
| `heap` | Tiling, OwnedKept, Coalesced, WalkEnds | 144 bytes: up to six blocks, splits exactly at and one step below the limit, requests that do not fit |
| `pipe` | IsFifo | 3 bytes, writes of up to 4 and reads of up to 4: wrap-around, full, empty, short transfers |
| `fds` | OffsetsInFile, EntriesUsable | 4 entries (0 and 3 are not the screen), one pipe, a file of at most 2 bytes and a directory |
| `disk` | NoAlias, NothingLost, Durable, FlushCompletes | 2 slots, 3 sectors, 2 contents: eviction happens; drive errors on requested reads and writes (the theorems cover every set of faults for NoAlias and Durable) |
| `fat12` | ChainsDisjoint, CrashKeepsOthers, EntriesFound, NoLeak, IsFileStore | 3 clusters, files of up to 2, 2 directory entries and 3 names: full disk, full directory, chains with gaps, a cut name beside its short form; a table of 2 sectors of 4 bytes, so that the two bytes of cluster 2's entry lie in different sectors; one copy of the table (the second one is never read; the proofs cover both). The table fits the disk, so that only a torn chain overruns it |
| `editor` | CursorVisible, UnmodifiedIsSaved, IsTextBuffer, ToolsPrintLines, ToolsFindAndCount | 3 lines of 2 characters, 2 rows on the screen, at most 3 characters (`MaxChars`), files of 4, no file, and a node without a buffer: a full buffer, merges that do not fit, scrolling both ways, a search that wraps, a save that is cut off, one that fails silently and one that crashes, a file with a line too many. Text commands with line arrays of 3 and 4, a ring of 2 and room for 3 lines to sort: lines that are cut, a ring that wraps, a last line without a break |
| `net` | RxIsQueue, CacheIsLatest, AckedIsSent, WireInOrder, SentToLatest, CallsReturn | 3 transmit and 2 receive descriptors, so that both rings come round; 2 calls; frames that arrive without end, of which those that are answered (`Answered`) only until 2 frames have been sent (`MaxSent`); a cache of 2 entries, one of them the gateway's, for two hosts: the cache is full, an entry is updated, an answer comes late; 2 polls for ARP and 1 for ping |
| `files` | TreeShape, CwdIsDirectory, NothingLost | 2 names, directories of 2 entries, 6 nodes of which 4 are there at boot, a `cwd` of at most one name: full directories, no memory, a directory moved into itself or a sibling, `cd -` after anything |
| `console` | LineKept, HistoryIsEntered, RecallShowsEntry, ScriptEnds, CalcFollowsGrammar, EnvironmentIsMap | a buffer of 4 and a ring of 2: full lines, a ring that wraps and is walked past its oldest line; a history file of 3 lines at the first boot; 2 lines entered, so that a `!!` follows a line; scripts that return, that repeat the line that ran them to depth 2, and that reboot. `calc` on every string of up to 5 of 10 characters; the table with 2 slots, 5 keys, one of them too long, values that fit and that are cut, under every sequence of up to 4 calls |

The type invariants of `Processes`, `Heap`, `Pipe`, `DiskCache` and `FileDescriptors`,
`WholeAgain` and `BlocksAligned` are proved and not run separately.

Runs that exhibit a disagreement between the code and what the repository says of
it (`findings` quotes the lines):

| run | what TLC shows |
|---|---|
| `processes_stack` | a switch leaves the CPU on the interrupted process's stack |
| `spawn_slot` | spawn and exec take the same slot |

The models also reach, and the hazards or this list record:

* an exited program that keeps the CPU: `sys_exit` returns to it, and with no other
  READY process the tick finds the shell already current and switches nothing
  (`syscall.c:53`; DOCS.md:324 says the shell restarts);
* a wait that clears a process which moved into the zombie's slot (`process.c:111`);
* a forked child that starts where its parent was last preempted and not at the
  return of fork (`process.c:74`, against DOCS.md:234);
* a spawned process that runs before its entry point is set (`process.c:30`), or is
  made READY again after its exit (`shell.c:656`);
* a file opened in a former pipe's entry that is read and written as the pipe:
  `fd_open` leaves `is_pipe` (`fd.c:66`, against DOCS.md:230);
* a full cache that always evicts slot 0, so that the newest sector goes first
  (`disk.c:52`), where a comment speaks of FIFO;
* `mv` of a directory into itself, or into a full one, which loses the node; `mkdir`
  and `touch` in a full directory, which report success; `rm`, which frees no memory;
* a line accepted from Ctrl-R that enters the history with the end of an earlier line
  behind it, a second Ctrl-R whose result is forgotten at the loop's start, a `!!`
  that finds itself in the history because it is pushed before it is dispatched, and a
  history file without the newest line when all lines are full;
* a last line without a break, which `head`, `tail` and `grep` do not print;
* a save that fails silently, after which Ctrl-Q leaves without a question
  (`editor.c:361-368`), and an editor whose arrays are overrun by a file it saved itself;
* files that share clusters after a loss of power between a new entry and its table
  (`fat12.c:380-382`), and clusters that are lost by a call that failed;
* a network call that polls for as long as frames arrive (`net.c:199`), and a program
  that keeps the CPU from another by exiting again and again (`sched.c:35`);
* a value cut at 63 characters, and a key longer than the table's, which is never
  found again; `calc -(1)`, which the code refuses, as its grammar does.

**Fairness.** `heap` assumes that the merge loop, once entered, is executed to its end.
`net` assumes that the shell's code and the timer go on: the shell makes its network
calls with interrupts on. Nothing is assumed of the card or the user. Of the network
CallsReturn asks that no frame arrives any more from some point on: the loop of
`net_poll` (`net.c:199`) has no bound, and without that premise TLC finds the call that
handles frames for ever. Everything else is left to the code's own timeouts.
`console` assumes that a script that runs is executed.

`processes` assumes nothing. That a READY process gets the CPU cannot be promised: a
program in slot 1 that in each of its quanta exits, waits for its own pid and executes a
program into slot 1 again keeps slot 2 from ever running, since exit makes the shell
current and the scan goes on at slot 1. ScanAdvances says what the scan does do: every
quantum brings it nearer to each READY process, and only exits and a reap of the current
process set it back.

**Deadlock** is checked everywhere but in `net`, where the calls run out and the
receive ring, which nobody polls any more, fills.

**Bounds.** `MaxPid` bounds the pids (an action that would exceed it is not
taken), `MaxWrite` the length of a write to a pipe, `MaxChars` the characters in the
editor, `MaxSent` the frames sent up to which frames arrive that are answered,
`MaxCommands` the network calls,
`MaxDepth` the path in `cwd`, `MaxLines` the lines entered, `MaxQuery` the text of
a search. `MaxNodes` and `Nesting` are the memory that the heap and the kernel stack
have. All others are the code's own sizes made small.

## 4. The proofs

All theorems hold for every value of the constants that satisfies the module's
named assumption.

* **Kernel_proofs** (`ProcessesAssumption`: positive table size and quantum;
  `HeapAssumption`: the size is a multiple of 8 and exceeds a header;
  `FileDescriptorsAssumption`).
  *Processes.* The invariant adds to the types, PidsUnique and RunningIsCurrent
  (`PidsAssigned`) that pids in use are positive and below `next_pid`, that an UNUSED
  slot has pid 0 and that `current_pid` is positive: without it a new process could
  take a pid that is in use, or an emptied slot could be taken for the current
  process. `ZombiesStayDead` is an action property from the same invariant: only a
  READY slot becomes RUNNING, only the RUNNING one READY.
  *Heap.* Tiling, ownership and alignment are inductive together; for Coalesced
  the invariant says that behind the walk (below `cur`) no two free blocks are
  neighbours, and for WholeAgain that a list in which every block is free and no
  two are neighbours has one block.
  *Descriptors.* The invariant says of *every* entry, open or closed, that a set
  `is_pipe` belongs to a pipe in use: `fd_open` takes over a closed entry with its old
  `is_pipe` and `pipe`, so what an open entry needs must hold before it is opened.
  Offsets are bounded by the capacity and not by the length, because the shell may
  truncate a file behind a descriptor.
* **Pipe_proofs** (`PipeAssumption`). The invariant ties `write_pos` to
  `read_pos + count` modulo the size and the bytes of the call in progress to the
  bytes in the ring; under it every step maps to a step of `BoundedFifo` or a
  stutter.
* **DiskCache_proofs** (`DiskCacheAssumption`). NoAlias is needed for everything
  else: with two copies of a sector, the write-back of one could overwrite the
  other. Durable rests on `DirtyUnacked`: a sector that is dirty in the cache was
  refused by the drive, so nobody was told that it is there. Both hold for every
  set of drive faults. `ReadsSeeWrites` and
  `FlushLeavesNothing` assume that write-backs do not fail (`Reliable`); with a fault
  on the flush TLC refutes FlushCompletes, because `disk.c:95` marks the slot clean
  although the drive refused it.
* **ShellNet_proofs** (`RingAssumption`, `NetAssumption`). The proof is about the
  composition: driver, card, ARP cache and the three shell calls. `RxInv` places every
  descriptor relative to `rx_tail`: the first `Len(queued)` are full and hold the
  queue, RDH is behind them and RDT one before the tail. `TxInv` counts the frames
  between TDH and TDT (`Pending`): they carry consecutive numbers that end with the
  last one handed over, all larger than what is on the cable, and a status byte that is
  set just behind the tail means that everything handed over has left. AckedIsSent,
  WireInOrder are steps under it. `CacheInv` adds to CacheIsLatest that a cache that is not full lacks no
  address that was announced, which is what makes an update find its entry. SentToLatest follows
  from `CacheInv` and the hand-over. `NetAssumption` says of the frames only that an
  ARP frame carries a protocol and a hardware address.
* **Files_proofs** (`FilesAssumption`). A command is a composition of four changes to
  the nodes: a new node, a new entry, an entry less, another name; what has to be kept
  is proved for each with the nodes as a parameter. TreeShape is inductive with the
  types of the nodes. CwdIsDirectory needs that, until a directory is moved, a file
  has no entries (`FilesBare`) and that no change hides a directory behind an earlier
  entry of the same name (`KeepsDirs`): `vfs_resolve` takes the first one. From this a
  walk along a path that ends at a directory is the same walk after the command
  (`PathKept`). `vfs_resolve` walks by a recursive function; that such a function
  exists (`Iteration`) is itself proved by induction over a set of numbers
  (`SetInduction`). NothingLost is proved without the bound on its search: `Reach`, as
  many rounds as there are nodes, is the least set with the root that is closed under
  entries of directories (`ReachLeast`), because a round that adds nothing is the last
  and a round that adds something adds a node (`FS_CardinalityType` and its neighbours
  on finite sets).
* **Fat12_proofs** (`Fat12Assumption`: `fat_data` has one or two sectors of at most 512
  bytes, and a table of one sector has an entry for every cluster). The disk may have more
  clusters than the array has entries: the theorems hold until a call indexes past it or
  the power goes while the table is in pieces (`WholeIInv`; `NotWholeStays`). First the
  bytes: an entry of 12 bits reads as `fat12_set` left it, and so do its neighbours
  (`GetSet`). Then the table as a graph: `Sound(f, H)` says that no cluster has two
  predecessors, that what is pointed at is taken and that nothing points at a cluster
  of `H`, where chains begin. From it follows that two walks meet only if they are the
  same walk in the same round (`Meet`) and that a chain ends after no more clusters than
  there are (`ChainIs`). `free_chain` and the loop of `fat12_write` are recursive
  functions; what they leave of every entry is proved by induction over their rounds
  (`FreedIs`, `ChainTake`). The invariant of the driver has `Sound` for the table in
  memory with the first clusters of all files and of the file being written, and for the
  first copy on the disk with those of all files; that copy has the chain of every file
  (`Kept`), which is what a restart finds (`DiskIsSound`), and while it is written, of every file but the call's: the sectors written so
  far are the new table's, the others the old one's, and an entry whose two bytes come
  from two tables that agree on it is the entry they agree on (`Mixed`). That no entry
  lies behind an end mark needs that the end marks come last. `NoStepLeaks` needs in
  addition that a table that is not dirty is the one on the disk. The refinement of
  `FileStore` (`DriverIsFileStore`, for one sector in a cluster, which is what the disk
  of `DOCS.md` has) needs one more invariant, about the loop that writes the data
  (`DataShape`): the chain has room for the file, the loop is at the cluster that its
  count says, and the sectors before it are written. What is read of a file depends on
  its chain and the data on it (`ContentKept`), so each step only has to keep those.
  `AbsentAssumption` says that the mark for no file is no name and no contents.

* **ShellLine_proofs** (`ShellLineAssumption`: a buffer of at least two bytes, NUL is no
  character, words and the lines of the first history file are strings that fit;
  `ShellEnvAssumption`). `LineInv` is LineKept with the type of the array: the last byte
  ends every string, so what `history_push` copies fits an entry of the ring, also when
  Ctrl-R or a script left the end of an earlier line in the buffer. `HistInv` is
  HistoryIsEntered with the type of the ring and a history file of at most two rings.
  Two lines share a slot of the ring only if a whole round is between them (`SlotOnce`,
  `RingPush`, `RingLoaded`), and the buffer that `history_save` fills holds all lines or all but the
  newest (`KeptIs`), which is why the ring is loaded as it was saved or without its last
  line. `RecallInv` bounds `history_idx`; RecallShowsEntry is an action property under
  the three together. The environment is proved over the calls, with no bound on their
  number: the values after each call exist (`Iteration`), and by induction over the calls
  a key that nothing longer is cut to is in at most one slot and reads as it was set, as
  far as the value fits
  (`EnvInv`); if no other keys are used, the slots in use and the keys with values
  correspond one to one (`OwnOnly`, `FullTable`), so a call is refused only when the table
  is full of keys with values.
* **Editor_proofs** (`EditorAssumption`: positive sizes, a break that is a byte and no
  character, files that fit). CursorVisible is inductive with the types of the buffer
  (`CursorInv`): every row is a line without a break that fits, and while a text is edited
  the cursor is in it; a buffer with a line too many is one that `load_file` made, because
  no key adds a line to a full one;
  `adjust_scroll` then finds the row on the screen. UnmodifiedIsSaved is the round trip
  of `save_file` and `load_file`: the bytes of a text are its lines with a break behind
  each (`Image`), the k-th break in them is where the k-th line ends (`Layout`,
  `BreaksOf`), so loading finds the lines again, for every text that fits the file and was
  written to one that has a buffer. The refinement of `TextBuffer` maps the lines to one string and the cursor to a position in
  it; each key is shown to be the string operation of the abstract buffer, with the
  string taken apart at the cursor (`LineIn`, `Halves`, `Regroup`). That a buffer with a
  line too many was not modified is what lets `Quit` leave it without a question. The
  text commands (`TextToolsAssumption`: sizes, codes
  without NUL, no empty pattern, `Count` up to `RING`) are shown right on every text, `head`,
  `tail` and `grep` on every one that ends in a break (`LastLine`). The
  state of each reading loop after n characters is given in closed form over the text
  (`ReadTo`, `GrepTo`, `WcTo`, with the line being read as the part behind the last break
  and the lines ended as the elements at the breaks, `LineTo`, `LinesTo`), and each
  character is shown to lead from one to the next. Two lines share a slot of the ring only
  if RING lines are between them (`SlotOnce`), so the last ones are there (`RingHas`). For
  the bubble sort, `streq` is asymmetric (`HigherOneWay`) and its negation transitive
  (`HigherBetween`); a comparison exchanges two neighbours, which keeps how often each line
  occurs (`SwapKeepsLines`), and leaves the highest line so far behind the others
  (`Topped`), so that after i passes the last i lines are not below any before them
  (`Settled`).

Only model-checked:

* the liveness properties WalkEnds, CallsReturn and ScriptEnds: fairness
  and ENABLED are beyond this prover;
* IsFileStore for clusters of more than one sector, where it does not hold: `fat12.c:330` rounds
  the number of clusters down;
* CalcFollowsGrammar: `Calc` is written with RECURSIVE operators, for which this prover
  has no backend. (Induction over numbers is available where it is stated over a set,
  `SetInduction`, and has been used wherever a recursive function occurs: `Files`,
  `Fat12`, `Editor`, `TextTools`, `ShellLine`, `KeyTable`);
* `ShellSpawn`, whose one run shows what goes wrong there.

## 5. What is not modelled

The components with status `not_modelled` in `PROJECT.json`, with reasons there:

* signals, which nothing delivers (`signal_dispatch` has no caller); aliases and
  permissions, which are stored by loops like those of `KeyTable` and never looked
  up (`alias_resolve`, `filemeta_check` have no caller);
* the kernel log and `kprintf`: text for the screen (`dmesg` prints through the
  function that writes the log, and so changes the lines it prints);
* `pmm` and `vmm`: frames are taken once, in order, at boot, and never freed;
* the keyboard's one-character mailbox: it may lose and reorder keys, and the models
  above it allow any key at any time;
* the timer's 32-bit count and the watchdog. `timer_sleep` from a system call waits
  with interrupts off and does not return (`timer.c:63`);
* the boot loader, descriptor tables, VGA, serial, RTC, PCI, the ELF loader: hardware
  set-up and I/O without a protocol; the shooter game; commands that only print.

Within the modelled parts: names, exit codes and messages; the contents of a
user program's memory (`exec` and `spawn` load every image at 0x400000); 32-bit
wrap-around of pids, sizes and `calc`'s numbers; `sbrk`, `sleep`, `kill`,
`sigaction`, `sigmask`; checksums and lengths of packets; file contents under the
file commands (`cp` of a file onto itself empties it); scripts from the disk, which
share one static buffer.

## 6. What is left

`ShellSpawn` keeps the invariants of `Processes` only if the slot that
`proc_create` found is still free when it takes it; that they hold when `spawn` runs with
interrupts off is worth a theorem once the code does.
