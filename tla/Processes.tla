------------------------------ MODULE Processes ------------------------------
(***************************************************************************)
(* The process table, the round-robin scheduler and the process system     *)
(* calls of the kernel: kernel/process.c, kernel/sched.c and sys_exit,     *)
(* sys_fork, sys_wait and sys_exec of kernel/syscall.c.                    *)
(*                                                                         *)
(* There is one CPU.  int 0x80 is an interrupt gate, so a system call runs *)
(* with interrupts off and is one step; the exception is proc_wait, which  *)
(* executes "sti; hlt" and from then on scans and reaps with interrupts    *)
(* on, so that its test of a slot and its memset of that slot are two      *)
(* steps.  A timer interrupt may come between any two steps.               *)
(*                                                                         *)
(* What the CPU executes next is a context: where in the code (pc), what   *)
(* the code holds in its locals (arg) and which stack esp points into.     *)
(* The same record is what a process slot keeps in its ctx field.          *)
(***************************************************************************)
EXTENDS Integers

CONSTANTS PROC_MAX,     \* slots of proc_table (process.h:13)
          SCHED_TICKS,  \* timer ticks per quantum (sched.c:15)
          Spawned,      \* processes queued by the shell before the model starts
          Calls,        \* the system calls that user programs make
          MaxPid        \* bound: no process is created past this pid

ASSUME ProcessesAssumption ==
    /\ PROC_MAX \in Nat \ {0}
    /\ SCHED_TICKS \in Nat \ {0}
    /\ Spawned \in 0..(PROC_MAX - 1)
    /\ Calls \subseteq {"exit", "fork", "wait", "exec"}
    /\ MaxPid \in Nat

VARIABLES proc_table,    \* process.c:12
          next_pid,      \* process.c:13
          current_pid,   \* process.c:14
          tick_counter,  \* sched.c:18
          cpu            \* the context that is executing

proc_vars == <<proc_table, next_pid, current_pid, tick_counter, cpu>>

Slots == 0..(PROC_MAX - 1)
NO_PROC == -1        \* the null process_t pointer
ANY   == -1          \* wait(-1): any child of the caller
BOOT_STACK == -1     \* the stack kmain runs on
WILD  == -2          \* an address in no process's stack

Status == {"UNUSED", "READY", "RUNNING", "ZOMBIE"}

Pcs == {"null",    \* eip = 0: no code was ever put in this context
        "entry",   \* the first instruction of a user program
        "user",    \* a user program, past a system call
        "shell",   \* the shell at its prompt
        "wait",    \* proc_wait, at sti; hlt (arg: the pid waited for)
        "reap"}    \* proc_wait, before proc_cleanup (arg: the slot)

Context == [pc : Pcs, arg : Int, esp : Int]

Process == [pid : Nat, parent_pid : Nat, state : Status, ctx : Context]

At(pc, arg, esp) == [pc |-> pc, arg |-> arg, esp |-> esp]

\* memset(p, 0, sizeof(process_t)): the state becomes PROC_UNUSED, the pid 0.
Zeroed == [pid |-> 0, parent_pid |-> 0, state |-> "UNUSED",
           ctx |-> At("null", 0, 0)]

-----------------------------------------------------------------------------
(* The helpers of process.c and sched.c.                                    *)

\* The first UNUSED slot, the one proc_create and proc_fork take.
HasSlot == \E i \in Slots : proc_table[i].state = "UNUSED"

FreeSlot ==
    CHOOSE i \in Slots :
        /\ proc_table[i].state = "UNUSED"
        /\ \A j \in Slots : proc_table[j].state = "UNUSED" => i <= j

\* proc_current: the first slot with the current pid, or NULL.
proc_current ==
    IF \E i \in Slots : proc_table[i].pid = current_pid
      THEN CHOOSE i \in Slots :
              /\ proc_table[i].pid = current_pid
              /\ \A j \in Slots : proc_table[j].pid = current_pid => i <= j
      ELSE NO_PROC

\* How far pick_next walks from the slot after cur before it looks at i.
Distance(cur, i) == (i - (cur + 1)) % PROC_MAX

Ready(i) == proc_table[i].state = "READY"

\* Mutant: the scan starts at slot 0 every time.
Mut_pick_next_first(cur) ==
    IF \E i \in Slots : Ready(i)
      THEN CHOOSE i \in Slots : Ready(i) /\ \A j \in Slots : Ready(j) => i <= j
      ELSE cur

\* Mutant: the scan takes any slot in use.
Mut_pick_next_used(cur) ==
    LET Used == {i \in Slots : proc_table[i].state # "UNUSED"}
    IN  IF Used # {}
          THEN CHOOSE i \in Used : \A j \in Used : Distance(cur, i) <= Distance(cur, j)
          ELSE cur

\* pick_next: the first READY slot after cur, around the table and back to
\* cur; cur when there is none.  NULL is -1, so a NULL cur starts at slot 0.
pick_next(cur) ==
    IF \E i \in Slots : Ready(i)
      THEN CHOOSE i \in Slots :
              /\ Ready(i)
              /\ \A j \in Slots : Ready(j) => Distance(cur, i) <= Distance(cur, j)
      ELSE cur

\* What proc_create leaves in the slot it takes; esp is the slot's own stack.
Created(slot, pid, parent) ==
    [pid |-> pid, parent_pid |-> parent, state |-> "READY",
     ctx |-> At("entry", 0, slot)]

\* Mutant: the child keeps the pid that was copied with the struct.
Mut_Forked ==
    LET parent == proc_table[proc_current]
    IN  [parent EXCEPT !.parent_pid = parent.pid, !.state = "READY",
                       !.ctx = At(parent.ctx.pc, parent.ctx.arg, WILD)]

\* What proc_fork leaves in the child's slot: the parent's struct with the
\* context that the scheduler last saved there, and an esp that is the
\* child's stack plus the distance of the caller's esp from a stack that the
\* caller does not run on.
Forked ==
    LET parent == proc_table[proc_current]
    IN  [pid |-> next_pid, parent_pid |-> parent.pid, state |-> "READY",
         ctx |-> At(parent.ctx.pc, parent.ctx.arg, WILD)]

\* The slots whose process proc_wait(pid) takes for a terminated child.
Reapable(pid) ==
    {i \in Slots :
        /\ proc_table[i].state = "ZOMBIE"
        /\ IF pid = ANY
             THEN /\ proc_current # NO_PROC
                  /\ proc_table[i].parent_pid = proc_table[proc_current].pid
             ELSE proc_table[i].pid = pid}

FirstReapable(pid) ==
    CHOOSE i \in Reapable(pid) : \A j \in Reapable(pid) : i <= j

-----------------------------------------------------------------------------
(* kmain has made the shell process and marked it RUNNING; Spawned more     *)
(* processes were queued and have not run yet.                              *)

ProcInit ==
    /\ proc_table = [i \in Slots |->
           IF i = 0
             THEN [pid |-> 1, parent_pid |-> 0, state |-> "RUNNING",
                   ctx |-> At("null", 0, 0)]
             ELSE IF i <= Spawned THEN Created(i, i + 1, 0) ELSE Zeroed]
    /\ next_pid = Spawned + 2
    /\ current_pid = 1
    /\ tick_counter = 0
    /\ cpu = At("shell", 0, BOOT_STACK)

-----------------------------------------------------------------------------
(* The timer interrupt.                                                     *)

\* Mutant: the process that was interrupted is not put back to READY.
Mut_Switch(cur, next) ==
    IF next \in {NO_PROC, cur}
      THEN UNCHANGED <<proc_table, current_pid, cpu>>
      ELSE /\ proc_table' = [proc_table EXCEPT ![next].state = "RUNNING"]
           /\ current_pid' = proc_table[next].pid
           /\ cpu' = [proc_table[next].ctx EXCEPT !.esp = cpu.esp]

\* sched_tick from its test of next on.  popa discards the esp it finds in
\* the frame, so the CPU stays on the stack that was interrupted.
Switch(cur, next) ==
    IF next \in {NO_PROC, cur}
      THEN UNCHANGED <<proc_table, current_pid, cpu>>
      ELSE /\ proc_table' = [i \in Slots |->
                  CASE i = next -> [proc_table[i] EXCEPT !.state = "RUNNING"]
                    [] i = cur /\ i # next /\ proc_table[i].state = "RUNNING" ->
                         [proc_table[i] EXCEPT !.state = "READY", !.ctx = cpu]
                    [] OTHER -> proc_table[i]]
           /\ current_pid' = proc_table[next].pid
           /\ cpu' = [proc_table[next].ctx EXCEPT !.esp = cpu.esp]

\* sched_tick within a quantum.
CountTick ==
    /\ tick_counter + 1 < SCHED_TICKS
    /\ tick_counter' = tick_counter + 1
    /\ UNCHANGED <<proc_table, next_pid, current_pid, cpu>>

\* sched_tick at the end of a quantum.
EndQuantum ==
    /\ tick_counter + 1 >= SCHED_TICKS
    /\ tick_counter' = 0
    /\ Switch(proc_current, pick_next(proc_current))
    /\ UNCHANGED next_pid

sched_tick == CountTick \/ EndQuantum

-----------------------------------------------------------------------------
(* The system calls.                                                        *)

\* User code is on the CPU and makes the call c.
Syscall(c) == c \in Calls /\ cpu.pc \in {"entry", "user"}

\* The code that runs when a system call has returned.
Returned == At("user", 0, cpu.esp)

\* sys_exit: the current process becomes a zombie and pid 1 the current
\* process; the call then returns to the program that made it.  Its
\* signal_send(parent, SIGCHLD) returns at its range check (signal.c:49).
sys_exit ==
    /\ Syscall("exit")
    /\ IF proc_current = NO_PROC
         THEN UNCHANGED proc_table
         ELSE proc_table' = [proc_table EXCEPT ![proc_current].state = "ZOMBIE"]
    /\ current_pid' = 1
    /\ cpu' = Returned
    /\ UNCHANGED <<next_pid, tick_counter>>

\* sys_fork and proc_fork.
sys_fork ==
    /\ Syscall("fork")
    /\ \/ /\ proc_current # NO_PROC /\ HasSlot
          /\ next_pid <= MaxPid
          /\ proc_table' = [proc_table EXCEPT ![FreeSlot] = Forked]
          /\ next_pid' = next_pid + 1
       \/ /\ proc_current = NO_PROC \/ ~ HasSlot
          /\ UNCHANGED <<proc_table, next_pid>>
    /\ cpu' = Returned
    /\ UNCHANGED <<current_pid, tick_counter>>

\* sys_exec and proc_create; a file that is missing or not an ELF image
\* leaves the table alone like a full table does.
sys_exec ==
    /\ Syscall("exec")
    /\ \/ /\ HasSlot
          /\ next_pid <= MaxPid
          /\ proc_table' = [proc_table EXCEPT
                 ![FreeSlot] = Created(FreeSlot, next_pid, current_pid)]
          /\ next_pid' = next_pid + 1
       \/ UNCHANGED <<proc_table, next_pid>>
    /\ cpu' = Returned
    /\ UNCHANGED <<current_pid, tick_counter>>

\* sys_wait(pid): the first pass of proc_wait, still with interrupts off.
sys_wait(pid) ==
    /\ Syscall("wait")
    /\ IF Reapable(pid) # {}
         THEN /\ proc_table' = [proc_table EXCEPT ![FirstReapable(pid)] = Zeroed]
              /\ cpu' = Returned
         ELSE /\ cpu' = At("wait", pid, cpu.esp)
              /\ UNCHANGED proc_table
    /\ UNCHANGED <<next_pid, current_pid, tick_counter>>

\* A later pass of proc_wait, after hlt: the test of the slots ...
WaitScan ==
    /\ cpu.pc = "wait"
    /\ Reapable(cpu.arg) # {}
    /\ cpu' = At("reap", FirstReapable(cpu.arg), cpu.esp)
    /\ UNCHANGED <<proc_table, next_pid, current_pid, tick_counter>>

\* ... and proc_cleanup of the slot that passed it.
WaitReap ==
    /\ cpu.pc = "reap"
    /\ proc_table' = [proc_table EXCEPT ![cpu.arg] = Zeroed]
    /\ cpu' = Returned
    /\ UNCHANGED <<next_pid, current_pid, tick_counter>>

ProcNext ==
    \/ sched_tick
    \/ sys_exit
    \/ sys_fork
    \/ sys_exec
    \/ \E pid \in {ANY} \cup 1..MaxPid : sys_wait(pid)
    \/ WaitScan
    \/ WaitReap

ProcSpec == ProcInit /\ [][ProcNext]_proc_vars

-----------------------------------------------------------------------------
(* Properties.                                                              *)

\* Every variable keeps the values its C type and the code's use give it.
ProcTypeOK ==
    /\ proc_table \in [Slots -> Process]
    /\ next_pid \in Nat
    /\ current_pid \in Nat
    /\ tick_counter \in 0..(SCHED_TICKS - 1)
    /\ cpu \in Context

\* A pid names one process: no two slots in use share a pid, so that wait,
\* kill and proc_current cannot hit another process than the one meant
\* (process.c:29, 76, 106, 127).
PidsUnique ==
    \A i, j \in Slots :
        /\ proc_table[i].state # "UNUSED"
        /\ proc_table[i].pid = proc_table[j].pid
        => i = j

\* A slot that is RUNNING belongs to the current pid, whatever exits, reaps
\* and ticks came before: the scheduler never leaves a second process RUNNING,
\* which pick_next would never choose again (sched.c:58-74, syscall.c:49-53).
RunningIsCurrent ==
    \A i \in Slots : proc_table[i].state = "RUNNING" => proc_table[i].pid = current_pid

\* A zombie leaves that state by being reaped and in no other way: no step
\* makes a terminated process runnable again (process.c:101-111).
ZombieOnlyReaped ==
    [][\A i \in Slots :
          proc_table[i].state = "ZOMBIE" => proc_table'[i].state \in {"ZOMBIE", "UNUSED"}]_proc_vars

\* The scan comes nearer to every READY process that waits for the CPU: each end
\* of a quantum looks at fewer slots before its slot or runs it, and nothing
\* between two quanta moves the scan away, except an exit, which makes pid 1 the
\* current process (syscall.c:53), and a reap of the current process, after which
\* the scan begins at slot 0.  So a process waits for fewer than PROC_MAX quanta
\* after the last of these; programs that go on exiting can starve it
\* (sched.c:23-42).
ScanAdvances ==
    [][\A i \in Slots \ {proc_current} :
          Ready(i) /\ proc_table'[i].state = "READY" =>
              \/ Distance(proc_current', i) < Distance(proc_current, i)
              \/ ~ EndQuantum /\ proc_current' = proc_current
              \/ sys_exit
              \/ proc_current # NO_PROC /\ proc_current' = NO_PROC]_proc_vars

\* sched.c:6: the scheduler "saves current context, picks next READY process,
\* restores its context": the CPU continues with the context of the process
\* that became RUNNING.
SwitchRestoresContext ==
    [][\A i \in Slots :
          (Ready(i) /\ proc_table'[i].state = "RUNNING") => cpu' = proc_table[i].ctx]_proc_vars

=============================================================================
