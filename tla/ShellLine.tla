------------------------------ MODULE ShellLine ------------------------------
(***************************************************************************)
(* The shell's command line, kernel/shell.c: the line and its cursor, the  *)
(* ring of earlier lines with its way to the disk and back, the search in  *)
(* it, completion, scripts, and what shell_run does with every key.        *)
(*                                                                         *)
(* cmd_buf is kept as the array it is, because what lies behind cmd_len is *)
(* not always cleared.  A command is its line; only the lines that change  *)
(* this state, reboot, run and !!, are told apart from the others.         *)
(***************************************************************************)
EXTENDS Integers, Sequences, FiniteSets, SequencesExt, FiniteSetsExt

CONSTANTS CMD_BUF_SIZE, HISTORY_SIZE,
          Alphabet,    \* the characters of a line
          Chars,       \* those that are typed
          NUL, Blank,  \* the end of a string, and what completion adds
          cmds,        \* the words that completion knows
          REBOOT, RUN, BANG,  \* the lines reboot, run <script> and !!
          Scripts,     \* what the script's file may hold when it is run: its lines
          Nesting,     \* scripts within scripts that the kernel stack has room for
          OldFiles,    \* what the history file may hold at the first boot
          MaxLines,    \* bound on the lines entered since the first boot
          MaxQuery     \* bound on the characters of a search

\* What fits cmd_buf, or an entry of the history, together with its NUL.
Strings == {s \in Seq(Alphabet) : Len(s) < CMD_BUF_SIZE}

\* The commands are shorter than cmd_buf, and the history file is one that a
\* shell has saved: history_load stops at twice as many lines as the ring has.
ASSUME ShellLineAssumption ==
    /\ CMD_BUF_SIZE \in Nat /\ CMD_BUF_SIZE >= 2
    /\ HISTORY_SIZE \in Nat \ {0} /\ Nesting \in Nat
    /\ NUL \notin Alphabet /\ Chars \cup {Blank} \subseteq Alphabet
    /\ cmds \subseteq Strings
    /\ \A f \in OldFiles : f \in Seq(Strings \ {<<>>}) /\ Len(f) <= 2 * HISTORY_SIZE

VARIABLES cmd_buf, cmd_len, cursor_pos,
          history, history_count, history_idx,
          query,    \* the text of a search, or NoSearch
          script,   \* the lines that are left of each script that is running
          disk,     \* the lines of the history file
          recent,   \* the lines entered last, as the user saw them
          typed,    \* the number of lines entered
          spliced   \* the line came from a search: the rest of an earlier one may follow it

line_vars == <<cmd_buf, cmd_len, cursor_pos, spliced>>
hist_vars == <<history, history_count, recent, typed>>
vars == <<line_vars, hist_vars, history_idx, query, script, disk>>

NoSearch == <<NUL>>
Crashed  == << << <<NUL>> >> >>

\* The string in an array, an array cleared behind a string (strncpy), and an
\* array overwritten by a string (memcpy and the final NUL).
Str(buf) == SelectInSeq(buf, LAMBDA c : c = NUL)
Text(buf) == IF Str(buf) = 0 THEN buf ELSE SubSeq(buf, 1, Str(buf) - 1)
Filled(s) == [i \in 1..CMD_BUF_SIZE |-> IF i <= Len(s) THEN s[i] ELSE NUL]
Copied(buf, s) ==
    [i \in 1..CMD_BUF_SIZE |-> IF i <= Len(s) THEN s[i] ELSE IF i = Len(s) + 1 THEN NUL ELSE buf[i]]

\* What the prompt shows.
Line == SubSeq(cmd_buf, 1, cmd_len)

\* The line becomes s and the cursor stands behind it.
Replace(s) ==
    /\ cmd_buf' = Filled(s) /\ cmd_len' = Len(s) /\ cursor_pos' = Len(s) /\ spliced' = FALSE

Slot(i) == i % HISTORY_SIZE

\* The last lines of a sequence, as many as the ring holds.
Latest(s) == SubSeq(s, IF Len(s) > HISTORY_SIZE THEN Len(s) - HISTORY_SIZE + 1 ELSE 1, Len(s))

-----------------------------------------------------------------------------
(* The history on the disk.                                                 *)

\* The ring's lines, the oldest first.
Entries ==
    [k \in 1..Min({history_count, HISTORY_SIZE}) |->
        history[Slot(history_count - Min({history_count, HISTORY_SIZE}) + k - 1)]]

\* The bytes of lines, each with its line break.
Bytes(ls) ==
    LET off[k \in 0..Len(ls)] == IF k = 0 THEN 0 ELSE off[k - 1] + Len(ls[k]) + 1
    IN  off[Len(ls)]

\* history_save: the lines up to the first one with which the buffer would be
\* full; with none, or when the disk is full, the file is not what it should be.
Kept(ls) ==
    SubSeq(ls, 1, Max({0} \cup {k \in 1..Len(ls) : Bytes(SubSeq(ls, 1, k)) < HISTORY_SIZE * CMD_BUF_SIZE}))

\* history_load: the first lines of the file, round the ring.
Loaded(ls) ==
    LET n == Min({Len(ls), 2 * HISTORY_SIZE})
    IN  [s \in 0..HISTORY_SIZE - 1 |->
            LET ks == {k \in 1..n : Slot(k - 1) = s} IN IF ks = {} THEN <<>> ELSE ls[Max(ks)]]

\* shell_init on a disk with the history file ls.
shell_init(ls) ==
    /\ Replace(<<>>)
    /\ history' = Loaded(ls) /\ history_count' = Min({Len(ls), 2 * HISTORY_SIZE})
    /\ history_idx' = -1
    /\ query' = NoSearch /\ script' = <<>>

Init ==
    /\ disk \in OldFiles
    /\ cmd_buf = Filled(<<>>) /\ cmd_len = 0 /\ cursor_pos = 0 /\ spliced = FALSE
    /\ history = Loaded(disk) /\ history_count = Min({Len(disk), 2 * HISTORY_SIZE})
    /\ history_idx = -1
    /\ query = NoSearch /\ script = <<>>
    /\ recent = Latest(disk) /\ typed = 0

\* Power is lost, or the machine crashed and is switched off.
PowerLoss ==
    /\ shell_init(disk)
    /\ recent' = Latest(disk)
    /\ UNCHANGED <<disk, typed>>

-----------------------------------------------------------------------------
(* Keys at the prompt.                                                      *)

Prompt == query = NoSearch /\ script = <<>>

KeepHistory == UNCHANGED <<hist_vars, query, script, disk>>

\* Mutant: the ring is left one entry too early.
Mut_history_up ==
    /\ Prompt /\ history_count > 0
    /\ history_idx' = IF history_idx = -1 THEN history_count - 1 ELSE Max({0, history_idx - 1})
    /\ Replace(history[Slot(history_idx' + 1)])
    /\ KeepHistory

history_up ==
    /\ Prompt /\ history_count > 0
    /\ history_idx' = IF history_idx = -1 THEN history_count - 1 ELSE Max({0, history_idx - 1})
    /\ Replace(history[Slot(history_idx')])
    /\ KeepHistory

history_down ==
    /\ Prompt /\ history_idx # -1
    /\ \/ /\ history_idx + 1 >= history_count
          /\ history_idx' = -1 /\ Replace(<<>>)
       \/ /\ history_idx + 1 < history_count
          /\ history_idx' = history_idx + 1 /\ Replace(history[Slot(history_idx + 1)])
    /\ KeepHistory

\* Left, Right, Home and End.
MoveCursor ==
    /\ Prompt
    /\ cursor_pos' \in {Max({0, cursor_pos - 1}), Min({cmd_len, cursor_pos + 1}), 0, cmd_len}
    /\ UNCHANGED <<cmd_buf, cmd_len, spliced, history_idx>> /\ KeepHistory

\* The characters behind position p, counted from 0, move down by one.
Closed(p) ==
    [i \in 1..CMD_BUF_SIZE |->
        IF i = cmd_len THEN NUL ELSE IF p < i /\ i < cmd_len THEN cmd_buf[i + 1] ELSE cmd_buf[i]]

Delete ==
    /\ Prompt /\ cursor_pos < cmd_len
    /\ cmd_buf' = Closed(cursor_pos) /\ cmd_len' = cmd_len - 1
    /\ UNCHANGED <<cursor_pos, spliced, history_idx>> /\ KeepHistory

Backspace ==
    /\ Prompt /\ cursor_pos > 0
    /\ cmd_buf' = Closed(cursor_pos - 1) /\ cmd_len' = cmd_len - 1 /\ cursor_pos' = cursor_pos - 1
    /\ UNCHANGED <<spliced, history_idx>> /\ KeepHistory

\* Mutant: the line may fill the buffer.
Mut_HasRoom == cmd_len < CMD_BUF_SIZE

HasRoom == cmd_len < CMD_BUF_SIZE - 1

\* A printable character; nothing ends the string behind it.
Insert(c) ==
    /\ Prompt /\ HasRoom
    /\ cmd_buf' = [i \in 1..CMD_BUF_SIZE |->
                      IF i = cursor_pos + 1 THEN c
                      ELSE IF cursor_pos + 1 < i /\ i <= cmd_len + 1 THEN cmd_buf[i - 1]
                      ELSE cmd_buf[i]]
    /\ cmd_len' = cmd_len + 1 /\ cursor_pos' = cursor_pos + 1
    /\ UNCHANGED <<spliced, history_idx>> /\ KeepHistory

\* Ctrl-U.
KillLine ==
    /\ Prompt
    /\ Replace(<<>>)
    /\ UNCHANGED history_idx /\ KeepHistory

\* Tab: the one word that begins like the line, and a blank if there is room;
\* with several words, or none, only the string is ended at cmd_len.
tab_complete ==
    LET words == {w \in cmds : IsPrefix(Line, w)}
        word  == CHOOSE w \in words : TRUE
    IN  /\ Prompt
        /\ IF Cardinality(words) = 1
             THEN Replace(IF Len(word) < CMD_BUF_SIZE - 1 THEN Append(word, Blank) ELSE word)
             ELSE /\ cmd_buf' = [cmd_buf EXCEPT ![cmd_len + 1] = NUL]
                  /\ UNCHANGED <<cmd_len, cursor_pos, spliced>>
        /\ UNCHANGED history_idx /\ KeepHistory

-----------------------------------------------------------------------------
(* Ctrl-R.                                                                  *)

Occurs(l, q) == \E j \in 0..Len(l) - Len(q) : SubSeq(l, j + 1, j + Len(q)) = q

\* The entries that contain the query, by their number since boot.  A second
\* Ctrl-R looks for an earlier one and forgets it again at the loop's start.
Matches == {i \in 0..history_count - 1 : query # <<>> /\ Occurs(history[Slot(i)], query)}

Searching == query # NoSearch

SearchStart ==
    /\ Prompt
    /\ query' = <<>>
    /\ UNCHANGED <<line_vars, hist_vars, history_idx, script, disk>>

SearchType(c) ==
    /\ Searching /\ Len(query) < MaxQuery
    /\ query' = Append(query, c)
    /\ UNCHANGED <<line_vars, hist_vars, history_idx, script, disk>>

SearchRubOut ==
    /\ Searching /\ query # <<>>
    /\ query' = Front(query)
    /\ UNCHANGED <<line_vars, hist_vars, history_idx, script, disk>>

\* Enter: the line is overwritten by the latest match, its rest is not cleared.
SearchAccept ==
    LET l == history[Slot(Max(Matches))]
    IN  /\ Searching
        /\ IF Matches = {} THEN UNCHANGED line_vars
           ELSE /\ cmd_buf' = Copied(cmd_buf, l) /\ cmd_len' = Len(l) /\ cursor_pos' = Len(l)
                /\ spliced' = TRUE
        /\ query' = NoSearch
        /\ UNCHANGED <<hist_vars, history_idx, script, disk>>

\* Ctrl-C or Escape.
SearchCancel ==
    /\ Searching
    /\ Replace(<<>>)
    /\ query' = NoSearch
    /\ UNCHANGED <<hist_vars, history_idx, script, disk>>

ctrl_r_search ==
    SearchStart \/ (\E c \in Chars : SearchType(c)) \/ SearchRubOut \/ SearchAccept \/ SearchCancel

-----------------------------------------------------------------------------
(* Entering a line, and scripts.                                            *)

\* Mutant: the slot behind the one the line belongs to.
Mut_Pushed == [history EXCEPT ![Slot(history_count + 1)] = Text(cmd_buf)]

\* history_push: the string that begins at cmd_buf, not the line.
Pushed == [history EXCEPT ![Slot(history_count)] = Text(cmd_buf)]

\* The beginning of dispatch: !! stands for the last line of the history h with n entries.
Meant(l, h, n) == IF l = BANG /\ n > 0 THEN h[Slot(n - 1)] ELSE l

\* Mutant: the script goes on at the line it has just run.
Mut_After(frames) == frames

\* The lines left when the first line of the innermost script has been taken.
After(frames) == [frames EXCEPT ![1] = Tail(@)]

\* cmd_run: one more frame, if the stack has room for it.
cmd_run(frames, lines) ==
    IF Len(frames) >= Nesting THEN Crashed ELSE <<lines>> \o frames

\* dispatch of a command that leaves the machine running: the scripts that run
\* then.  All commands but run leave the line and the history alone.
dispatch(cmd, frames) ==
    IF cmd = RUN THEN {cmd_run(frames, lines) : lines \in Scripts} ELSE {frames}

\* cmd_reboot, cmd_halt and cmd_poweroff, and the next boot: history_save may
\* meet a full disk, which costs the new lines or the file.
cmd_reboot(ls) ==
    \/ /\ disk' = Kept(ls)
       /\ shell_init(Kept(ls))
       /\ recent' = IF Bytes(Latest(ls)) < HISTORY_SIZE * CMD_BUF_SIZE THEN Latest(ls) ELSE Front(Latest(ls))
    \/ \E d \in {disk, <<>>} : disk' = d /\ shell_init(d) /\ recent' = Latest(d)

\* Enter.
Enter ==
    LET shown == Latest(Append(recent, IF spliced THEN Text(cmd_buf) ELSE Line))
        kept  == [k \in 1..Min({history_count + 1, HISTORY_SIZE}) |->
                    Pushed[Slot(history_count + 1 - Min({history_count + 1, HISTORY_SIZE}) + k - 1)]]
        cmd   == Meant(Line, Pushed, history_count + 1)
    IN  /\ Prompt
        /\ \/ /\ cmd_len = 0
              /\ Replace(<<>>)
              /\ UNCHANGED <<hist_vars, history_idx, query, script, disk>>
           \/ /\ cmd_len > 0 /\ typed < MaxLines
              /\ cmd # REBOOT
              /\ history' = Pushed /\ history_count' = history_count + 1 /\ history_idx' = -1
              /\ recent' = shown /\ typed' = typed + 1
              /\ Replace(<<>>)
              /\ script' \in dispatch(cmd, <<>>)
              /\ UNCHANGED <<query, disk>>
           \/ /\ cmd_len > 0 /\ typed < MaxLines
              /\ cmd = REBOOT
              /\ cmd_reboot(kept) /\ typed' = typed + 1

\* cmd_run's loop and shell_exec_line: the next line of the script.
ScriptLine ==
    LET cmd  == Meant(script[1][1], history, history_count)
        rest == After(script)
    IN  /\ script \notin {<<>>, Crashed} /\ script[1] # <<>>
        /\ \/ /\ cmd # REBOOT
              /\ script' \in dispatch(cmd, rest)
              /\ Replace(<<>>)
              /\ UNCHANGED <<hist_vars, history_idx, query, disk>>
           \/ /\ cmd = REBOOT
              /\ cmd_reboot(Entries) /\ UNCHANGED typed

\* The end of the script.
ScriptReturns ==
    /\ script \notin {<<>>, Crashed} /\ script[1] = <<>>
    /\ script' = Tail(script)
    /\ UNCHANGED <<line_vars, hist_vars, history_idx, query, disk>>

Next ==
    \/ history_up \/ history_down \/ MoveCursor \/ Delete \/ Backspace
    \/ \E c \in Chars : Insert(c)
    \/ KillLine \/ tab_complete \/ ctrl_r_search
    \/ Enter \/ ScriptLine \/ ScriptReturns \/ PowerLoss

Spec == Init /\ [][Next]_vars /\ WF_vars(ScriptLine \/ ScriptReturns)

-----------------------------------------------------------------------------
(* Properties.                                                              *)

\* The line keeps to its buffer whatever keys, recalls, completions, searches
\* and scripts came before: the cursor is in it, no string ends inside it, and
\* the last byte of cmd_buf ends every string (shell.c:298-330, 1757-1815).
LineKept ==
    /\ cmd_len \in 0..CMD_BUF_SIZE - 1 /\ cursor_pos \in 0..cmd_len
    /\ \A i \in 1..CMD_BUF_SIZE : i <= cmd_len => cmd_buf[i] # NUL
    /\ Len(cmd_buf) = CMD_BUF_SIZE /\ cmd_buf[CMD_BUF_SIZE] = NUL
    /\ ~spliced => \A i \in cmd_len + 1..CMD_BUF_SIZE : cmd_buf[i] = NUL

\* The ring holds the lines entered last, as they were shown, in their order,
\* through wrap-around, reboots that saved them and power losses that did not
\* (shell.c:190-235, 298-306).  Two exceptions are the code's: a line that came
\* from a search may be recorded with the rest of the line before it, and the
\* newest line is not saved when all lines have their full length.
HistoryIsEntered == Entries = recent

\* Up and Down show the lines in the order they were entered, as far back as
\* the ring goes, wherever the last recall stopped (shell.c:308-330).
RecallShowsEntry ==
    [][ (history_up \/ history_down) /\ history_idx' # -1 /\ history_idx' >= history_count - HISTORY_SIZE
        => SubSeq(cmd_buf', 1, cmd_len') = recent[history_idx' - history_count + Len(recent) + 1] ]_vars

\* A script comes to its end and the prompt is back, unless scripts run each
\* other until the kernel stack is used up (shell.c:1258-1303).
ScriptEnds == (script # <<>>) ~> (script \in {<<>>, Crashed})
=============================================================================
