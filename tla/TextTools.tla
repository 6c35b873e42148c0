------------------------------ MODULE TextTools ------------------------------
(***************************************************************************)
(* The shell's commands that read a text, kernel/shell.c:890-1098, as      *)
(* functions from the bytes of a file to the lines they print, beside the  *)
(* editor that writes such files.  All but wc collect a line in an array   *)
(* of LINE_BUF bytes; the file is read in parts whose size makes no        *)
(* difference to the loops.  A byte is its code, and none of them is NUL.  *)
(***************************************************************************)
EXTENDS Editor

CONSTANTS LINE_BUF,   \* 128
          GREP_BUF,   \* 128, in cmd_grep
          SORT_LINES, \* the lines that sort has room for, 64
          RING,       \* the lines that tail keeps, 32
          Count,      \* the lines that head and tail are asked for, 10
          Blanks,     \* blank and tab
          Stale,      \* what is read behind an array without a NUL, up to the next one
          Patterns    \* what grep looks for

ASSUME TextToolsAssumption ==
    /\ Byte \subseteq 1..255 /\ Stale \in Seq(Byte)
    /\ LINE_BUF \in Nat \ {0} /\ GREP_BUF \in Nat \ {0, 1} /\ SORT_LINES \in Nat
    /\ RING \in Nat \ {0} /\ Count \in 0..RING
    /\ Patterns \subseteq Seq(Byte) \ {<<>>}

-----------------------------------------------------------------------------
(* The loop of head, tail, sort and uniq: a character more. *)
Take(r, c) ==
    IF c = Break THEN [ended |-> Append(r.ended, r.line), line |-> <<>>]
    ELSE IF Len(r.line) < LINE_BUF - 1 THEN [r EXCEPT !.line = Append(@, c)]
    ELSE r

(* The lines that ended, and the one that did not. *)
Read(f) ==
    LET after[n \in 0..Len(f)] ==
            IF n = 0 THEN [ended |-> <<>>, line |-> <<>>] ELSE Take(after[n - 1], f[n])
    IN  after[Len(f)]

cmd_head(f, count) == SubSeq(Read(f).ended, 1, Least(count, Len(Read(f).ended)))

(* strncpy(array, l, LINE_BUF - 1) does not end a line that is as long; the *)
(* arrays of tail and uniq hold there what the stack did.                  *)
Kept(l) == IF Len(l) < LINE_BUF - 1 THEN l ELSE l \o Stale

(* tail keeps the lines in a ring and prints the last ones from it. *)
Ring(ls) ==
    LET ring[n \in 0..Len(ls)] ==
            IF n = 0 THEN [i \in 0..RING - 1 |-> <<>>]
            ELSE [ring[n - 1] EXCEPT ![(n - 1) % RING] = Kept(ls[n])]
    IN  ring[Len(ls)]

cmd_tail(f, count) ==
    LET rcount == Len(Read(f).ended)
        start  == rcount - Least(count, rcount)
    IN  [k \in 1..rcount - start |-> Ring(Read(f).ended)[(start + k - 1) % RING]]

(* streq(l, m) > 0: at the first difference l has the higher code, or m ends. *)
Higher(l, m) ==
    \E k \in 1..Len(l) :
        /\ k > Len(m) \/ (k =< Len(m) /\ l[k] > m[k])
        /\ \A i \in 1..k - 1 : i =< Len(m) /\ l[i] = m[i]

(* The comparison of two neighbours. *)
Ordered(ls, j) ==
    IF Higher(ls[j], ls[j + 1]) THEN [ls EXCEPT ![j] = ls[j + 1], ![j + 1] = ls[j]] ELSE ls

(* Mutant: the pass stops one pair early. *)
Mut_Pass(ls, last) ==
    LET s[j \in 0..last] == IF j = 0 THEN ls ELSE Ordered(s[j - 1], j)
    IN  s[IF last > 0 THEN last - 1 ELSE 0]

(* A pass of the bubble sort over the pairs up to the one that starts at last. *)
Pass(ls, last) ==
    LET s[j \in 0..last] == IF j = 0 THEN ls ELSE Ordered(s[j - 1], j)
    IN  s[last]

(* All lines, of which the last one need not have ended. *)
Collected(f) ==
    LET r == Read(f) IN IF r.line = <<>> THEN r.ended ELSE Append(r.ended, r.line)

(* The lines that sort has room for. *)
Sortable(f) == SubSeq(Collected(f), 1, Least(SORT_LINES, Len(Collected(f))))

Sorted(ls) ==
    LET s[i \in 0..Len(ls)] == IF i = 0 THEN ls ELSE Pass(s[i - 1], Len(ls) - i)
    IN  s[IF ls = <<>> THEN 0 ELSE Len(ls) - 1]

cmd_sort(f) == Sorted(Sortable(f))

(* uniq prints a line that differs from the last one it printed. *)
Differ(out, l) == IF out # <<>> /\ Kept(out[Len(out)]) = l THEN out ELSE Append(out, l)

cmd_uniq(f) ==
    LET out[n \in 0..Len(Collected(f))] ==
            IF n = 0 THEN <<>> ELSE Differ(out[n - 1], Collected(f)[n])
    IN  out[Len(Collected(f))]

(* The pattern occurs in the line. *)
Match(l, p) == \E j \in 0..Len(l) - Len(p) : SubSeq(l, j + 1, j + Len(p)) = p

(* Mutant: the character that ends a line is taken for its last one. *)
Mut_Look(r, c, p) ==
    IF c = Break \/ Len(r.line) >= GREP_BUF - 2
    THEN [out |-> IF Match(Append(r.line, c), p) THEN Append(r.out, r.line) ELSE r.out, line |-> <<c>>]
    ELSE [r EXCEPT !.line = Append(@, c)]

(* grep cuts a line where its array is full, and the character it is at    *)
(* there is lost; it prints the lines that contain the pattern.            *)
Look(r, c, p) ==
    IF c = Break \/ Len(r.line) >= GREP_BUF - 2
    THEN [out |-> IF Match(r.line, p) THEN Append(r.out, r.line) ELSE r.out, line |-> <<>>]
    ELSE [r EXCEPT !.line = Append(@, c)]

cmd_grep(p, f) ==
    LET r[n \in 0..Len(f)] ==
            IF n = 0 THEN [out |-> <<>>, line |-> <<>>] ELSE Look(r[n - 1], f[n], p)
    IN  r[Len(f)].out

Gaps == Blanks \cup {Break}

(* wc, a character more. *)
Tally(r, c) ==
    [lines   |-> IF c = Break THEN r.lines + 1 ELSE r.lines,
     words   |-> IF c \notin Gaps /\ ~r.in_word THEN r.words + 1 ELSE r.words,
     bytes   |-> r.bytes + 1,
     in_word |-> c \notin Gaps]

cmd_wc(f) ==
    LET r[n \in 0..Len(f)] ==
            IF n = 0 THEN [lines |-> 0, words |-> 0, bytes |-> 0, in_word |-> FALSE]
            ELSE Tally(r[n - 1], f[n])
    IN  r[Len(f)]

-----------------------------------------------------------------------------
(* What the commands are for, said of the whole text.                       *)

(* The elements of s at the places S, in their order. *)
Nth(S, k) == CHOOSE i \in S : Cardinality({j \in S : j <= i}) = k
Chosen(s, S) == [k \in 1..Cardinality(S) |-> s[Nth(S, k)]]

(* The last break before e, or 0. *)
Before(f, e) == Max({0} \cup {b \in Breaks(f) : b < e})

(* The line that ends before e, cut to what an array holds. *)
LineTo(f, e, size) == SubSeq(f, Before(f, e) + 1, Least(e - 1, Before(f, e) + size))

(* The lines that end in a break. *)
LinesOf(f, size) == Chosen([e \in 1..Len(f) |-> LineTo(f, e, size)], Breaks(f))

(* All lines, with what follows the last break. *)
AllLines(f, size) ==
    LET open == LineTo(f, Len(f) + 1, size)
    IN  IF open = <<>> THEN LinesOf(f, size) ELSE Append(LinesOf(f, size), open)

(* No line fills its array. *)
Short(ls) == \A i \in 1..Len(ls) : Len(ls[i]) < LINE_BUF - 1

(* The last line ends in a break too.  The texts of write do not, and then   *)
(* head, tail and grep never come to their last line.                      *)
Ended(f) == f = <<>> \/ f[Len(f)] = Break

(* head and tail print the first and the last lines of a text that has     *)
(* ended, head as far as they fit; uniq prints a line unless it equals the *)
(* one before.  tail and uniq are at the mercy of the stack when a line    *)
(* fills its array.                                                        *)
PrintsLines(f, count) ==
    LET ls == AllLines(f, LINE_BUF - 1)
    IN  /\ Ended(f) => cmd_head(f, count) = SubSeq(ls, 1, Least(count, Len(ls)))
        /\ Ended(f) /\ Short(ls) =>
              cmd_tail(f, count) = SubSeq(ls, Len(ls) - Least(count, Len(ls)) + 1, Len(ls))
        /\ Short(ls) =>
              cmd_uniq(f) = Chosen(ls, {i \in 1..Len(ls) : i = 1 \/ ls[i] # ls[i - 1]})

(* sort prints every line it has room for as often as it is there, in order. *)
Sorts(f) ==
    LET all == AllLines(f, LINE_BUF - 1)
        in  == SubSeq(all, 1, Least(SORT_LINES, Len(all)))
        out == cmd_sort(f)
    IN  /\ \A k \in 1..Len(out) - 1 : ~Higher(out[k], out[k + 1])
        /\ Len(out) = Len(in)
        /\ \A i \in 1..Len(in) :
              Cardinality({k \in 1..Len(in) : in[k] = in[i]}) = Cardinality({k \in 1..Len(out) : out[k] = in[i]})

(* grep prints the lines that contain the pattern, of a text that has      *)
(* ended and has no line longer than grep's array.                         *)
Finds(f, p) ==
    LET ls == AllLines(f, Len(f))
    IN  Ended(f) /\ (\A k \in 1..Len(ls) : Len(ls[k]) <= GREP_BUF - 2)
            => cmd_grep(p, f) = Chosen(ls, {k \in 1..Len(ls) : Match(ls[k], p)})

(* wc counts breaks, starts of words, and characters. *)
Counts(f) ==
    LET starts == {i \in 1..Len(f) : f[i] \notin Gaps /\ (i = 1 \/ f[i - 1] \in Gaps)}
    IN  /\ cmd_wc(f).lines = Cardinality(Breaks(f))
        /\ cmd_wc(f).words = Cardinality(starts)
        /\ cmd_wc(f).bytes = Len(f)

-----------------------------------------------------------------------------
(* The texts that the commands may meet at the prompt: the file, and the   *)
(* text that was edited last, as a file with room for it would hold it.    *)
Readable == IF mode = "shell" THEN {file, Image(lines)} \ {ABSENT, NOBUF} ELSE {}

\* sort prints all lines of the text in order, and uniq the new ones if no line
\* fills its array; of a text whose last line ends in a break, head prints the
\* first lines, and tail the last ones if none fills its array (shell.c:935-1065).
\* Of a last line without a break nothing is claimed for head and tail: both leave
\* it out, where Documentation/DOCS.md:378-379 promises the first and the last lines.
ToolsPrintLines == \A f \in Readable : PrintsLines(f, Count) /\ Sorts(f)

\* wc agrees with a count over the whole text; grep prints the lines with the
\* pattern of a text whose last line ends in a break, if every line fits its array
\* (shell.c:890-933, 1076-1098).  Of a last line without a break nothing is claimed
\* for grep: it is not searched, where Documentation/DOCS.md:376 promises a search of the file.
ToolsFindAndCount == \A f \in Readable : Counts(f) /\ \A p \in Patterns : Finds(f, p)
=============================================================================
