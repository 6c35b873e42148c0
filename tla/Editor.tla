-------------------------------- MODULE Editor --------------------------------
(***************************************************************************)
(* The text editor, kernel/editor.c, on one file of the RAM file system:   *)
(* the buffer of lines, the cursor and the scroll position, one action per *)
(* key, and the way of the text from the file into the buffer and back.    *)
(*                                                                         *)
(* The lines of the buffer are a sequence of num_lines sequences; what the *)
(* arrays hold behind their lengths is never shown or saved.  cx, cy and   *)
(* scroll_y count from 0, as in the code.                                  *)
(*                                                                         *)
(* Two places leave the arrays they are meant for.  load_file counts one   *)
(* line too many when a file fills all lines: num_lines is then            *)
(* ED_MAX_LINES + 1, and the keys go on indexing behind buf and line_len   *)
(* (mode "overrun").  And save_file goes on behind a file that is full,    *)
(* where the remaining size wraps and the copy runs through memory.  After *)
(* either, nothing more is known until the machine is reset (mode          *)
(* "crashed").                                                             *)
(*                                                                         *)
(* The file is a sequence of bytes, ABSENT, or NOBUF: a node that has no   *)
(* buffer, because it is a directory or because the heap had no room for   *)
(* one (ramfs.c:81).  Such a node reads as empty and takes no write.       *)
(***************************************************************************)
EXTENDS Integers, Sequences, SequencesExt

CONSTANTS ED_MAX_LINES, ED_LINE_MAX, ED_ROWS,
          Capacity,     \* RAMFS_MAX_FILESIZE
          Byte,         \* what a file may hold
          Chars, Break, \* printable characters, and the line break
          Queries,      \* what may be typed at the search prompt
          OtherFiles,   \* what shell commands may put into the file
          MaxChars,     \* bound on the characters in the buffer
          ABSENT, NOBUF

ASSUME EditorAssumption ==
    /\ ED_MAX_LINES \in Nat \ {0} /\ ED_LINE_MAX \in Nat \ {0} /\ ED_ROWS \in Nat \ {0}
    /\ Capacity \in Nat
    /\ Break \in Byte /\ Chars \subseteq Byte \ {Break}
    /\ \A q \in Queries : q \in Seq(Byte) /\ q # <<>>
    /\ ABSENT \notin Seq(Byte) /\ NOBUF \notin Seq(Byte) /\ NOBUF # ABSENT
    /\ \A f \in OtherFiles \ {ABSENT, NOBUF} : f \in Seq(Byte) /\ Len(f) <= Capacity

VARIABLES lines,        \* buf, line_len and num_lines
          cx, cy, scroll_y, modified, search_query,
          file,         \* the contents of the file, ABSENT or NOBUF
          mode          \* where the editor is

vars == <<lines, cx, cy, scroll_y, modified, search_query, file, mode>>

num_lines   == Len(lines)
line_len(i) == Len(lines[i + 1])
Current     == lines[cy + 1]

-----------------------------------------------------------------------------
(* From the file to the buffer and back.                                    *)

Least(a, b) == IF a < b THEN a ELSE b

Breaks(f) == {i \in 1..Len(f) : f[i] = Break}

KthBreak(f, k) == CHOOSE b \in Breaks(f) : Cardinality({a \in Breaks(f) : a <= b}) = k

\* The k-th line that ends in a break, as far as it fits a line of the buffer.
LoadedLine(f, k) ==
    LET start == IF k = 1 THEN 1 ELSE KthBreak(f, k - 1) + 1
        line  == SubSeq(f, start, KthBreak(f, k) - 1)
    IN  SubSeq(line, 1, Least(ED_LINE_MAX, Len(line)))

\* The node can be read and written.
HasText(f) == f \notin {ABSENT, NOBUF}

\* load_file, the lines in the arrays: characters behind the last break are not
\* counted in line_len.
Loaded(f) ==
    IF ~ HasText(f) \/ Breaks(f) = {} THEN << <<>> >>
    ELSE [k \in 1..Least(ED_MAX_LINES, Cardinality(Breaks(f))) |-> LoadedLine(f, k)]

\* load_file counts one line more.
Overruns(f) == HasText(f) /\ Cardinality(Breaks(f)) >= ED_MAX_LINES

\* The text that save_file writes, every line with a break.
Image(ls) == FlattenSeq([k \in 1..Len(ls) |-> Append(ls[k], Break)])

\* Mutant: the last line is saved without its break.
Mut_SavedAs == SubSeq(Image(lines), 1, Least(Capacity, Len(Image(lines)) - 1))

\* What is in the file afterwards: ramfs_write takes what fits.
SavedAs == SubSeq(Image(lines), 1, Least(Capacity, Len(Image(lines))))

\* Where the last line starts; behind Capacity the size that ramfs_write is left
\* with, capacity - offset, wraps.
LastLineAt == Len(Image(Front(lines)))

-----------------------------------------------------------------------------

Init ==
    /\ lines = << <<>> >> /\ cx = 0 /\ cy = 0 /\ scroll_y = 0
    /\ modified = FALSE
    /\ search_query = <<>>
    /\ file \in OtherFiles
    /\ mode = "shell"

\* A command of the shell rewrites or removes the file.
ShellCommand ==
    /\ mode = "shell"
    /\ file' \in OtherFiles
    /\ UNCHANGED <<lines, cx, cy, scroll_y, modified, search_query, mode>>

\* buf_init and load_file.  The line behind the arrays is shown as an empty one,
\* whatever the memory there holds.
editor_open ==
    /\ mode = "shell"
    /\ cx' = 0 /\ cy' = 0 /\ scroll_y' = 0 /\ modified' = FALSE
    /\ IF Overruns(file)
         THEN mode' = "overrun" /\ lines' = Append(Loaded(file), <<>>)
         ELSE mode' = "edit" /\ lines' = Loaded(file)
    /\ UNCHANGED <<search_query, file>>

\* Mutant: one row too few is scrolled.
Mut_adjust_scroll ==
    scroll_y' = IF cy' < scroll_y THEN cy'
                ELSE IF cy' > scroll_y + ED_ROWS THEN cy' - ED_ROWS + 1
                ELSE scroll_y

adjust_scroll ==
    scroll_y' = IF cy' < scroll_y THEN cy'
                ELSE IF cy' >= scroll_y + ED_ROWS THEN cy' - ED_ROWS + 1
                ELSE scroll_y

\* A key that moves the cursor to column x of line y, and redraws.
MoveTo(x, y) ==
    /\ mode = "edit"
    /\ cx' = x /\ cy' = y /\ adjust_scroll
    /\ UNCHANGED <<lines, modified, search_query, file, mode>>

\* A key that changes the text.
Edit(ls, x, y) ==
    /\ mode = "edit"
    /\ lines' = ls /\ cx' = x /\ cy' = y /\ modified' = TRUE /\ adjust_scroll
    /\ UNCHANGED <<search_query, file, mode>>

\* Column x, or the end of line y of the buffer ls.
Clamp(ls, x, y) == Least(x, Len(ls[y + 1]))

KeyUp    == cy > 0 /\ MoveTo(Clamp(lines, cx, cy - 1), cy - 1)
KeyDown  == cy < num_lines - 1 /\ MoveTo(Clamp(lines, cx, cy + 1), cy + 1)
KeyLeft  == \/ cx > 0 /\ MoveTo(cx - 1, cy)
            \/ cx = 0 /\ cy > 0 /\ MoveTo(line_len(cy - 1), cy - 1)
KeyRight == \/ cx < line_len(cy) /\ MoveTo(cx + 1, cy)
            \/ cx = line_len(cy) /\ cy < num_lines - 1 /\ MoveTo(0, cy + 1)
KeyHome  == MoveTo(0, cy)
KeyEnd   == MoveTo(line_len(cy), cy)

Left(l)  == SubSeq(l, 1, cx)
Right(l) == SubSeq(l, cx + 1, Len(l))

\* Mutant: the rest of the line is not shifted.
Mut_Inserted(c) == Left(Current) \o <<c>> \o SubSeq(Current, cx + 2, Len(Current))

Inserted(c) == Left(Current) \o <<c>> \o Right(Current)

buf_insert_char(c) ==
    /\ line_len(cy) < ED_LINE_MAX
    /\ Len(FlattenSeq(lines)) < MaxChars
    /\ Edit([lines EXCEPT ![cy + 1] = Inserted(c)], cx + 1, cy)

\* Backspace in a line, and at the start of one that fits the line above; when
\* it does not fit, the buffer is marked as modified and stays as it is.
RubOut ==
    /\ cx > 0
    /\ Edit([lines EXCEPT ![cy + 1] = SubSeq(@, 1, cx - 1) \o Right(@)], cx - 1, cy)

MergeLines ==
    /\ cx = 0 /\ cy > 0
    /\ IF line_len(cy - 1) + line_len(cy) <= ED_LINE_MAX
         THEN Edit(RemoveAt([lines EXCEPT ![cy] = @ \o Current], cy + 1),
                   line_len(cy - 1), cy - 1)
         ELSE Edit(lines, cx, cy)

buf_delete_char == RubOut \/ MergeLines

buf_newline ==
    /\ num_lines < ED_MAX_LINES
    /\ Edit(InsertAt([lines EXCEPT ![cy + 1] = Left(@)], cy + 2, Right(Current)), 0, cy + 1)

buf_delete_line ==
    IF num_lines = 1 THEN Edit(<< <<>> >>, 0, cy)
    ELSE LET ls == RemoveAt(lines, cy + 1)
             y  == IF cy >= Len(ls) THEN Len(ls) - 1 ELSE cy
         IN  Edit(ls, Clamp(ls, cx, y), y)

-----------------------------------------------------------------------------
(* Searching.                                                               *)

\* The places <<line, column>> where q occurs.
Occurrences(q) ==
    {o \in (0..(num_lines - 1)) \X (0..ED_LINE_MAX) :
        /\ o[2] + Len(q) <= line_len(o[1])
        /\ SubSeq(lines[o[1] + 1], o[2] + 1, o[2] + Len(q)) = q}

Precedes(a, b) == a[1] < b[1] \/ (a[1] = b[1] /\ a[2] <= b[2])

First(S) == CHOOSE a \in S : \A b \in S : Precedes(a, b)

\* The two passes of ed_find: behind the cursor, and from the start up to it.
Ahead(q) == {o \in Occurrences(q) : o[1] > cy \/ (o[1] = cy /\ o[2] > cx)}
Wrapped(q) == {o \in Occurrences(q) : o[1] < cy \/ (o[1] = cy /\ o[2] + Len(q) <= cx)}

ed_find(q) == First(IF Ahead(q) # {} THEN Ahead(q) ELSE Wrapped(q))
Found(q)   == Ahead(q) \cup Wrapped(q) # {}

\* Ctrl-F, a query and Enter.
ed_search_prompt(q) ==
    /\ mode = "edit"
    /\ search_query' = q
    /\ IF Found(q) THEN cy' = ed_find(q)[1] /\ cx' = ed_find(q)[2] /\ adjust_scroll
                   ELSE UNCHANGED <<cx, cy, scroll_y>>
    /\ UNCHANGED <<lines, modified, file, mode>>

\* Ctrl-N.
FindNext ==
    /\ search_query # <<>> /\ Found(search_query)
    /\ MoveTo(ed_find(search_query)[2], ed_find(search_query)[1])

-----------------------------------------------------------------------------
(* Saving and leaving.                                                      *)

\* save_file, then the editor is in mode m.  A file that cannot be created is
\* reported, and nothing else happens.  Everything else counts as saved, for what
\* vfs_write returns is not looked at: also a node without a buffer, found or just
\* made, and a new node that its directory had no place for.
save_file(m) ==
    \/ /\ file = ABSENT
       /\ mode' = m
       /\ UNCHANGED <<file, modified>>
    \/ /\ ~ HasText(file)
       /\ file' = NOBUF
       /\ modified' = FALSE
       /\ mode' = m
    \/ /\ file # NOBUF /\ LastLineAt <= Capacity
       /\ file' = SavedAs \/ (file = ABSENT /\ file' = file)
       /\ modified' = FALSE
       /\ mode' = m
    \/ /\ file # NOBUF /\ LastLineAt > Capacity
       /\ mode' = "crashed"
       /\ UNCHANGED <<file, modified>>

Save ==
    /\ mode = "edit"
    /\ save_file("edit")
    /\ UNCHANGED <<lines, cx, cy, scroll_y, search_query>>

\* Ctrl-Q; unsaved changes are asked about.
Quit ==
    /\ mode \in {"edit", "overrun"}
    /\ mode' = IF modified THEN "ask" ELSE "shell"
    /\ UNCHANGED <<lines, cx, cy, scroll_y, modified, search_query, file>>

Answer ==
    /\ mode = "ask"
    /\ \/ save_file("shell")
       \/ mode' = "shell" /\ UNCHANGED <<file, modified>>
    /\ UNCHANGED <<lines, cx, cy, scroll_y, search_query>>

\* A key in a buffer that counts a line behind its arrays: to move, cut, search,
\* shift or save that line reads and writes what lies behind buf and line_len.
\* (The keys that happen to stay on the lines before it are not told apart.)
KeyBeyond ==
    /\ mode = "overrun"
    /\ mode' = "crashed"
    /\ UNCHANGED <<lines, cx, cy, scroll_y, modified, search_query, file>>

\* The machine is reset; the RAM file system starts anew.
Reset ==
    /\ mode = "crashed"
    /\ lines' = << <<>> >> /\ cx' = 0 /\ cy' = 0 /\ scroll_y' = 0
    /\ modified' = FALSE /\ search_query' = <<>>
    /\ file' \in OtherFiles
    /\ mode' = "shell"

Next ==
    \/ ShellCommand \/ editor_open
    \/ KeyUp \/ KeyDown \/ KeyLeft \/ KeyRight \/ KeyHome \/ KeyEnd
    \/ \E c \in Chars : buf_insert_char(c)
    \/ buf_delete_char \/ buf_newline \/ buf_delete_line
    \/ \E q \in Queries : ed_search_prompt(q)
    \/ FindNext
    \/ Save \/ Quit \/ Answer \/ KeyBeyond \/ Reset

Spec == Init /\ [][Next]_vars

-----------------------------------------------------------------------------
(* Properties.                                                              *)

Editing == mode \in {"edit", "ask"}

\* Whatever keys were pressed, the buffer keeps to its arrays, the cursor is in
\* the text, and its line is on the screen (editor.c:100-190, 476-482, 508-527).
\* The arrays are left in two ways only: by opening a file with as many breaks as
\* the buffer has lines, which the editor itself may have saved (editor.c:306-313),
\* and by saving a text whose last line starts behind the end of a file
\* (editor.c:359-366, ramfs.c:43-45).
CursorVisible ==
    /\ Editing =>
        /\ num_lines \in 1..ED_MAX_LINES
        /\ \A k \in 1..num_lines : Len(lines[k]) <= ED_LINE_MAX
        /\ cy \in 0..(num_lines - 1)
        /\ cx \in 0..line_len(cy)
    /\ mode = "edit" => cy - scroll_y \in 0..(ED_ROWS - 1)
    /\ mode \in {"overrun", "crashed"} => Overruns(file) \/ LastLineAt > Capacity
    /\ HasText(file) => Len(file) <= Capacity

\* A buffer that is not marked as modified, and that Ctrl-Q therefore leaves
\* without a question, is in the file: its lines are those that load_file would
\* read again.  That fails in the ways in which save_file reports a file as saved
\* that is not: the text is larger than a file and was cut; the node has no buffer,
\* being a directory or made when the heap was full; or the directory had no place
\* for the new node, so that there still is no file (editor.c:284-316, 357-371;
\* ramfs.c:42-45, 81, 93).
UnmodifiedIsSaved ==
    (mode = "edit" /\ ~ modified) =>
        \/ Loaded(file) = lines
        \/ Len(Image(lines)) > Capacity
        \/ ~ HasText(file)

\* The text and the place of the cursor in it.
Flat == IF Editing THEN SubSeq(Image(lines), 1, Len(Image(lines)) - 1) ELSE <<>>
Pos  == IF Editing THEN Len(Image(SubSeq(lines, 1, cy))) + cx ELSE 0

Text == INSTANCE TextBuffer WITH open <- Editing, text <- Flat, pos <- Pos

\* Splitting, merging and shifting lines loses, repeats or moves no character:
\* the editor is a text with a cursor (editor.c:100-190).
IsTextBuffer == Text!Spec
=============================================================================
