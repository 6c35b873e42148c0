------------------------------- MODULE Files -------------------------------
(***************************************************************************)
(* The RAM file system's tree, fs/ramfs.c, the path walk of fs/vfs.c and   *)
(* the shell's commands on them, kernel/shell.c:678-888.  The shell keeps  *)
(* its directory as text and walks the tree again at every command.        *)
(*                                                                         *)
(* A node is its name, whether it is a directory, and its children; what a *)
(* file contains does not matter here.  Nodes are never freed: the memory  *)
(* of a file that rm removed is lost, and MaxNodes is where kmalloc fails. *)
(***************************************************************************)
EXTENDS Naturals, Sequences, FiniteSets, SequencesExt

CONSTANTS Names,         \* names that are typed
          MAX_CHILDREN,  \* entries of a directory, 32
          MaxNodes,      \* nodes the heap has memory for
          MaxDepth       \* bound on the names of a path

ASSUME FilesAssumption ==
    /\ MAX_CHILDREN \in Nat /\ MAX_CHILDREN >= 2
    /\ MaxNodes \in Nat /\ MaxNodes >= 4
    /\ MaxDepth \in Nat

VARIABLES node,      \* the nodes made since boot
          cwd,       \* the shell's directory: the names of a path
          prev_cwd,  \* the directory that cd - goes back to
          displaced  \* a directory has been moved or renamed, or a path damaged

vars == <<node, cwd, prev_cwd, displaced>>

root == 1
NULL == 0

(* The empty string, which names nothing; the path "/" is <<>>. *)
NoPath == <<"">>

Node(name, dir) == [name |-> name, dir |-> dir, ch |-> <<>>]

-----------------------------------------------------------------------------
(* ramfs_finddir: the first child of that name. *)
finddir(d, name) ==
    LET hits == {i \in 1..Len(node[d].ch) : node[node[d].ch[i]].name = name}
    IN  IF hits = {} THEN NULL ELSE node[d].ch[CHOOSE i \in hits : \A j \in hits : i =< j]

(* vfs_resolve: one finddir for each name, through whatever kind of node. *)
vfs_resolve(path) ==
    LET walk[k \in 0..Len(path)] ==
            IF k = 0 THEN root
            ELSE LET d == walk[k - 1] IN IF d = NULL THEN NULL ELSE finddir(d, path[k])
    IN  IF path = NoPath THEN NULL ELSE walk[Len(path)]

here == vfs_resolve(cwd)

(* make_node: memory for one more node. *)
HasMemory == Len(node) < MaxNodes
Fresh == Len(node) + 1

(* Mutant: the last entry of a directory is not used. *)
Mut_add_child(ch, n) == IF Len(ch) + 1 < MAX_CHILDREN THEN Append(ch, n) ELSE ch

(* An entry for the node if there is room; if not, it is in no directory. *)
add_child(ch, n) == IF Len(ch) < MAX_CHILDREN THEN Append(ch, n) ELSE ch

(* ramfs_mkdir and ramfs_mkfile *)
Make(parent, name, dir) ==
    IF HasMemory
    THEN node' = [Append(node, Node(name, dir)) EXCEPT ![parent].ch = add_child(@, Fresh)]
    ELSE UNCHANGED node

(* ramfs_init and shell_init: the default tree, and the shell at its root. *)
Init ==
    /\ node = << [Node("/", TRUE) EXCEPT !.ch = <<2, 3>>],
                 [Node("etc", TRUE) EXCEPT !.ch = <<4>>],
                 Node("dev", TRUE), Node("motd", FALSE) >>
    /\ cwd = <<>> /\ prev_cwd = <<>> /\ displaced = FALSE

-----------------------------------------------------------------------------
(* make_full of a typed path: an absolute one stands for itself.  With cwd *)
(* empty the byte before the buffer decides whether a slash is put in.     *)
make_full(abs, path) ==
    IF abs THEN {path} ELSE IF cwd = NoPath THEN {path, NoPath} ELSE {cwd \o path}

(* cd with nothing behind the blank: strncpy writes 257 bytes into the 256 *)
(* of cwd, and prev_cwd may be what lies behind it.                        *)
cd_root ==
    /\ cwd' = <<>>
    /\ prev_cwd' \in {prev_cwd, NoPath}
    /\ displaced' = TRUE
    /\ UNCHANGED node

(* cd - *)
cd_back ==
    /\ cwd' = prev_cwd /\ prev_cwd' = cwd
    /\ UNCHANGED <<node, displaced>>

(* cd to a path, refused if it does not end at a directory. *)
cmd_cd(abs, path) ==
    \E full \in make_full(abs, path) :
        /\ Len(full) =< MaxDepth
        /\ vfs_resolve(full) # NULL /\ node[vfs_resolve(full)].dir
        /\ prev_cwd' = cwd /\ cwd' = full
        /\ UNCHANGED <<node, displaced>>

-----------------------------------------------------------------------------
(* The other commands name entries of the shell's directory; they end with *)
(* a message if it is not there any more.                                  *)
cmd_mkdir(name) ==
    /\ here # NULL
    /\ Make(here, name, TRUE)
    /\ UNCHANGED <<cwd, prev_cwd, displaced>>

cmd_touch(name) ==
    /\ here # NULL /\ finddir(here, name) = NULL
    /\ Make(here, name, FALSE)
    /\ UNCHANGED <<cwd, prev_cwd, displaced>>

(* write: the file is made if there is nothing of that name. *)
cmd_write(name) == cmd_touch(name)

(* cp: into a directory under the same name, else under the new one.       *)
cmd_cp(src, dst) ==
    LET to == finddir(here, dst)
        into == to # NULL /\ node[to].dir
    IN  /\ here # NULL
        /\ finddir(here, src) # NULL /\ ~node[finddir(here, src)].dir
        /\ IF into /\ finddir(to, src) = NULL THEN Make(to, src, FALSE)
           ELSE IF to = NULL THEN Make(here, dst, FALSE)
           ELSE UNCHANGED node
        /\ UNCHANGED <<cwd, prev_cwd, displaced>>

(* The entries without the first one that is node n. *)
Without(ch, n) ==
    RemoveAt(ch, CHOOSE i \in 1..Len(ch) : ch[i] = n /\ \A j \in 1..i - 1 : ch[j] # n)

(* Mutant: rm takes anything. *)
Mut_cmd_rm(name) ==
    LET n == finddir(here, name)
    IN  /\ here # NULL
        /\ n # NULL
        /\ node' = [node EXCEPT ![here].ch = Without(@, n)]
        /\ UNCHANGED <<cwd, prev_cwd, displaced>>

(* rm refuses a directory; the entry goes, the memory stays. *)
cmd_rm(name) ==
    LET n == finddir(here, name)
    IN  /\ here # NULL
        /\ n # NULL /\ ~node[n].dir
        /\ node' = [node EXCEPT ![here].ch = Without(@, n)]
        /\ UNCHANGED <<cwd, prev_cwd, displaced>>

(* Mutant: the entry stays in the directory it comes from. *)
Mut_Moved(n, to) == [node EXCEPT ![to].ch = add_child(@, n)]

(* The target directory of mv, as the entries are once n has been taken    *)
(* out: when there is no room, n is in no directory.                       *)
Moved(n, to) ==
    LET out == [node EXCEPT ![here].ch = Without(@, n)]
    IN  [out EXCEPT ![to].ch = add_child(@, n)]

(* mv: into a directory, which may be the one that is moved; otherwise a   *)
(* rename, whatever else has that name.                                    *)
cmd_mv(src, dst) ==
    LET n == finddir(here, src)
        to == finddir(here, dst)
    IN  /\ here # NULL
        /\ n # NULL
        /\ node' = IF to # NULL /\ node[to].dir THEN Moved(n, to) ELSE [node EXCEPT ![n].name = dst]
        /\ displaced' = (displaced \/ node[n].dir)
        /\ UNCHANGED <<cwd, prev_cwd>>

Next ==
    \/ cd_root \/ cd_back
    \/ cmd_cd(TRUE, <<>>)
    \/ \E abs \in BOOLEAN, name \in Names : cmd_cd(abs, <<name>>)
    \/ \E name \in Names : cmd_mkdir(name) \/ cmd_touch(name) \/ cmd_write(name) \/ cmd_rm(name)
    \/ \E src, dst \in Names : cmd_mv(src, dst) \/ cmd_cp(src, dst)

Spec == Init /\ [][Next]_vars

-----------------------------------------------------------------------------
(* The nodes that find_recurse visits from the root. *)
Reach ==
    LET R[k \in 0..Len(node)] ==
            IF k = 0 THEN {root}
            ELSE LET r == R[k - 1]
                 IN  r \cup UNION {Range(node[n].ch) : n \in {m \in r : node[m].dir}}
    IN  R[Len(node)]

(* The tree stays a tree, shell.c:820-829: no node is in two directories   *)
(* or twice in one, and the root is in none, so that no path from the root *)
(* comes back to where it was and find ends (shell.c:886).                 *)
TreeShape ==
    /\ \A n, m \in 1..Len(node) :
          \A i \in 1..Len(node[n].ch), j \in 1..Len(node[m].ch) :
             node[n].ch[i] = node[m].ch[j] => n = m /\ i = j
    /\ \A n \in 1..Len(node) : \A i \in 1..Len(node[n].ch) : node[n].ch[i] # root

(* A step takes something out of the tree only if it is rm, or a mv that   *)
(* moves a directory into itself or finds the target directory full        *)
(* (shell.c:816-829): no other command loses what the user has.            *)
NothingLost ==
    [][ ~(Reach \subseteq Reach')
        => \/ \E name \in Names : cmd_rm(name)
           \/ \E src, dst \in Names :
                /\ cmd_mv(src, dst)
                /\ \/ finddir(here, src) = finddir(here, dst)
                   \/ Len(node[finddir(here, dst)].ch) = MAX_CHILDREN ]_vars

(* The shell's directory and the one cd - goes back to exist and are       *)
(* directories (shell.c:698, 788), until the user moves or renames a       *)
(* directory or the bare cd writes past cwd.                               *)
CwdIsDirectory ==
    ~displaced => \A p \in {cwd, prev_cwd} : vfs_resolve(p) # NULL /\ node[vfs_resolve(p)].dir
=============================================================================
