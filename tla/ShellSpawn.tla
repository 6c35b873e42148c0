------------------------------ MODULE ShellSpawn ------------------------------
(***************************************************************************)
(* The shell's spawn command (cmd_spawn of kernel/shell.c) beside the      *)
(* processes of module Processes.  The shell is kernel code, not a system  *)
(* call: it calls proc_create with interrupts on, so a tick may switch     *)
(* away from it, and other processes may use the table, between any two of *)
(* its steps.  The steps here are coarser than the instructions, so every  *)
(* interleaving of the model is one of the code.                           *)
(***************************************************************************)
EXTENDS Processes

\* proc_create's search for a free slot (process.c:24-26); the command ends
\* here when the file is bad or the table is full.
SpawnScan ==
    /\ cpu.pc = "shell"
    /\ HasSlot
    /\ next_pid <= MaxPid
    /\ cpu' = At("publish", FreeSlot, cpu.esp)
    /\ UNCHANGED <<proc_table, next_pid, current_pid, tick_counter>>

\* The slot is cleared, numbered and made READY (process.c:27-31).
SpawnPublish ==
    /\ cpu.pc = "publish"
    /\ proc_table' = [proc_table EXCEPT
           ![cpu.arg] = [Zeroed EXCEPT !.pid = next_pid, !.state = "READY"]]
    /\ next_pid' = next_pid + 1
    /\ cpu' = At("context", cpu.arg, cpu.esp)
    /\ UNCHANGED <<current_pid, tick_counter>>

\* The slot is given its stack and its entry point (process.c:33-41).
SpawnSetContext ==
    /\ cpu.pc = "context"
    /\ proc_table' = [proc_table EXCEPT ![cpu.arg].ctx = At("entry", 0, cpu.arg)]
    /\ cpu' = At("queue", cpu.arg, cpu.esp)
    /\ UNCHANGED <<next_pid, current_pid, tick_counter>>

\* cmd_spawn marks the process READY once more and is back at the prompt.
SpawnQueue ==
    /\ cpu.pc = "queue"
    /\ proc_table' = [proc_table EXCEPT ![cpu.arg].state = "READY"]
    /\ cpu' = At("shell", 0, cpu.esp)
    /\ UNCHANGED <<next_pid, current_pid, tick_counter>>

cmd_spawn == SpawnScan \/ SpawnPublish \/ SpawnSetContext \/ SpawnQueue

SpawnNext == ProcNext \/ cmd_spawn

SpawnSpec == ProcInit /\ [][SpawnNext]_proc_vars

-----------------------------------------------------------------------------

\* Documentation/DOCS.md:234: "proc_create() finds a free slot": the slot of a
\* process that is READY or RUNNING is not given to another one.
LiveKeepsPid ==
    [][\A i \in Slots :
          proc_table[i].state \in {"READY", "RUNNING"}
              => proc_table'[i].pid \in {0, proc_table[i].pid}]_proc_vars
=============================================================================
