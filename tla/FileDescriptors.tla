--------------------------- MODULE FileDescriptors ---------------------------
(***************************************************************************)
(* The descriptor table of fs/fd.c, the system calls of kernel/syscall.c   *)
(* that use it, and the file nodes of fs/ramfs.c underneath.  There is one *)
(* table for all processes.  A system call runs with interrupts off and is *)
(* one step; between two of them the shell and the editor may truncate and *)
(* rewrite a file that is open.                                            *)
(*                                                                         *)
(* Of a file only its length is kept and of a pipe the number of bytes in  *)
(* it: module Pipe is about the bytes themselves.                          *)
(***************************************************************************)
EXTENDS Integers

CONSTANTS FD_MAX,         \* fd.h:15
          PIPE_MAX,       \* fd.c:16
          PIPE_BUF_SIZE,  \* pipe.h:13
          CAPACITY,       \* RAMFS_MAX_FILESIZE (ramfs.h:16)
          Nodes,          \* the files and directories vfs_resolve finds
          Dirs,           \* those that are directories and have no buffer
          NO_NODE,        \* the null vfs_node_t pointer
          Sizes           \* the counts callers pass to read and write

ASSUME FileDescriptorsAssumption ==
    /\ FD_MAX \in Nat \ {0} /\ PIPE_MAX \in Nat \ {0}
    /\ PIPE_BUF_SIZE \in Nat /\ CAPACITY \in Nat
    /\ Dirs \subseteq Nodes /\ NO_NODE \notin Nodes
    /\ Sizes \subseteq Nat

VARIABLES fd_table,   \* fd.c:13
          pipe_used,  \* fd.c:19
          count,      \* the count field of every pipe_t of pipe_pool (fd.c:18)
          length      \* the length field of every node

fd_vars == <<fd_table, pipe_used, count, length>>

Fds   == 0..(FD_MAX - 1)
Pipes == 0..(PIPE_MAX - 1)
NO_PIPE == -1        \* the null pipe_t pointer
SCREEN  == {1, 2}    \* sys_write prints these

\* fd_init; the pools are zero from the start.
FdInit ==
    /\ fd_table = [fd \in Fds |->
           [node |-> NO_NODE, offset |-> 0, open |-> FALSE,
            is_pipe |-> FALSE, pipe |-> NO_PIPE, pipe_write_end |-> FALSE]]
    /\ pipe_used = [p \in Pipes |-> FALSE]
    /\ count = [p \in Pipes |-> 0]
    /\ length \in [Nodes -> 0..CAPACITY]
    /\ \A n \in Dirs : length[n] = 0

-----------------------------------------------------------------------------
(* fd.c.                                                                    *)

IsOpen(fd) == fd \in Fds /\ fd_table[fd].open

\* The first entry of table t that is not open.
HasFree(t) == \E fd \in Fds : ~ t[fd].open

FirstFree(t) == CHOOSE fd \in Fds : ~ t[fd].open /\ \A i \in Fds : ~ t[i].open => fd <= i

\* fd_open_pipe on table t: the table as it is left.
fd_open_pipe(t, p, write_end) ==
    IF HasFree(t)
      THEN [t EXCEPT ![FirstFree(t)] =
               [node |-> NO_NODE, offset |-> 0, open |-> TRUE,
                is_pipe |-> TRUE, pipe |-> p, pipe_write_end |-> write_end]]
      ELSE t

HasPipe == \E p \in Pipes : ~ pipe_used[p]

FreePipe == CHOOSE p \in Pipes : ~ pipe_used[p] /\ \A q \in Pipes : ~ pipe_used[q] => p <= q

\* fd_open: is_pipe and the pipe's fields stay as the entry's last user left them.
Opened(t, n) ==
    [t EXCEPT ![FirstFree(t)].node = n,
              ![FirstFree(t)].offset = 0,
              ![FirstFree(t)].open = TRUE]

\* Mutant: the pointer to the pipe is cleared, the flag is not.
Mut_fd_close(fd) ==
    [fd_table EXCEPT ![fd].open = FALSE, ![fd].node = NO_NODE, ![fd].offset = 0,
                     ![fd].pipe = NO_PIPE]

\* fd_close of an entry of the table.
fd_close(fd) ==
    [fd_table EXCEPT ![fd].open = FALSE, ![fd].node = NO_NODE, ![fd].offset = 0]

\* fd_dup2: newfd is closed first, also when it is oldfd.
fd_dup2(oldfd, newfd) ==
    LET t == IF fd_table[newfd].open THEN fd_close(newfd) ELSE fd_table
    IN  [t EXCEPT ![newfd] = t[oldfd]]

-----------------------------------------------------------------------------
(* ramfs.c and pipe.c: the bytes one call moves.                            *)

Least(a, b) == IF a < b THEN a ELSE b

\* ramfs_read
FileReads(n, offset, size) ==
    IF n \in Dirs \/ offset >= CAPACITY \/ offset >= length[n] THEN 0
    ELSE IF offset + size > length[n] THEN length[n] - offset
    ELSE size

\* ramfs_write
FileWrites(n, offset, size) ==
    IF n \in Dirs THEN 0
    ELSE IF offset + size > CAPACITY THEN CAPACITY - offset
    ELSE size

pipe_read(p, size) == Least(size, count[p])

pipe_write(p, size) == Least(size, PIPE_BUF_SIZE - count[p])

-----------------------------------------------------------------------------
(* The system calls.  One that fails returns -1 and changes nothing.        *)

sys_open(n) ==
    /\ HasFree(fd_table)
    /\ fd_table' = Opened(fd_table, n)
    /\ UNCHANGED <<pipe_used, count, length>>

sys_close(fd) ==
    /\ fd_table' = fd_close(fd)
    /\ UNCHANGED <<pipe_used, count, length>>

\* pipe_alloc and both ends; with one entry free the read end stays open and
\* the caller is told -1, with none the pipe is taken all the same.
sys_pipe ==
    /\ HasPipe
    /\ pipe_used' = [pipe_used EXCEPT ![FreePipe] = TRUE]
    /\ count' = [count EXCEPT ![FreePipe] = 0]
    /\ fd_table' = fd_open_pipe(fd_open_pipe(fd_table, FreePipe, FALSE), FreePipe, TRUE)
    /\ UNCHANGED length

sys_dup2(oldfd, newfd) ==
    /\ IsOpen(oldfd)
    /\ fd_table' = fd_dup2(oldfd, newfd)
    /\ UNCHANGED <<pipe_used, count, length>>

\* sys_read and fd_read, of a pipe or of a file.
sys_read(fd, size) ==
    /\ IsOpen(fd)
    /\ LET e == fd_table[fd]
       IN  IF e.is_pipe
             THEN /\ count' = [count EXCEPT ![e.pipe] = @ - pipe_read(e.pipe, size)]
                  /\ UNCHANGED fd_table
             ELSE /\ fd_table' = [fd_table EXCEPT
                         ![fd].offset = @ + FileReads(e.node, e.offset, size)]
                  /\ UNCHANGED count
    /\ UNCHANGED <<pipe_used, length>>

\* Mutant: the offset moves by what was asked for, not by what was written.
Mut_fd_write(fd, size) ==
    /\ IsOpen(fd)
    /\ LET e == fd_table[fd]
       IN  IF e.is_pipe
             THEN /\ count' = [count EXCEPT ![e.pipe] = @ + pipe_write(e.pipe, size)]
                  /\ UNCHANGED <<fd_table, length>>
             ELSE /\ fd_table' = [fd_table EXCEPT ![fd].offset = @ + size]
                  /\ UNCHANGED <<count, length>>
    /\ UNCHANGED pipe_used

fd_write(fd, size) ==
    /\ IsOpen(fd)
    /\ LET e == fd_table[fd]
           n == FileWrites(e.node, e.offset, size)
       IN  IF e.is_pipe
             THEN /\ count' = [count EXCEPT ![e.pipe] = @ + pipe_write(e.pipe, size)]
                  /\ UNCHANGED <<fd_table, length>>
             ELSE /\ fd_table' = [fd_table EXCEPT ![fd].offset = @ + n]
                  /\ length' = [length EXCEPT ![e.node] =
                         IF e.offset + n > @ THEN e.offset + n ELSE @]
                  /\ UNCHANGED count
    /\ UNCHANGED pipe_used

\* Descriptors 1 and 2 are the screen, whatever the table says of them.
sys_write(fd, size) ==
    \/ fd \in SCREEN /\ UNCHANGED fd_vars
    \/ fd \notin SCREEN /\ fd_write(fd, size)

\* cp and the editor's save set length to 0 and write the file anew.
Rewritten(n) ==
    /\ \E l \in 0..CAPACITY : length' = [length EXCEPT ![n] = l]
    /\ UNCHANGED <<fd_table, pipe_used, count>>

FdNext ==
    \/ \E n \in Nodes : sys_open(n)
    \/ \E n \in Nodes \ Dirs : Rewritten(n)
    \/ \E fd \in Fds : sys_close(fd)
    \/ sys_pipe
    \/ \E oldfd, newfd \in Fds : sys_dup2(oldfd, newfd)
    \/ \E fd \in Fds, size \in Sizes : sys_read(fd, size) \/ sys_write(fd, size)

FdSpec == FdInit /\ [][FdNext]_fd_vars

-----------------------------------------------------------------------------
(* Properties.                                                              *)

\* No descriptor's offset leaves the file's buffer, though the file may have
\* been truncated behind it: capacity - offset in ramfs_write, which is
\* unsigned, never wraps (fd.c:93, 104, ramfs.c:43-44).
OffsetsInFile == \A fd \in Fds : fd_table[fd].offset <= CAPACITY

\* What fd_read and fd_write follow in an open entry is there: a pipe that
\* pipe_alloc handed out or a node, through every order of open, close, pipe
\* and dup2 that reuses the entry (fd.c:86-105).
EntriesUsable ==
    \A fd \in Fds :
        fd_table[fd].open =>
            IF fd_table[fd].is_pipe
              THEN fd_table[fd].pipe # NO_PIPE /\ pipe_used[fd_table[fd].pipe]
              ELSE fd_table[fd].node # NO_NODE
=============================================================================
