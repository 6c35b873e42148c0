------------------------------ MODULE TextBuffer ------------------------------
(***************************************************************************)
(* What a text editor promises: a text, line breaks included, and a cursor *)
(* between two of its characters.  Typing inserts at the cursor, rubout    *)
(* takes the character to the left of it, a line can be deleted, and       *)
(* nothing else changes the text while the editor is open.                 *)
(***************************************************************************)
EXTENDS Integers, Sequences

CONSTANTS Chars, Break

VARIABLES open, text, pos

Before(k) == SubSeq(text, 1, k)
Behind(k) == SubSeq(text, k + 1, Len(text))

Init == open = FALSE /\ text = <<>> /\ pos = 0

\* Any text may be opened.
Open == ~ open /\ open' /\ pos' = 0

Close == open /\ ~ open' /\ text' = <<>> /\ pos' = 0

Type(c) ==
    /\ open /\ UNCHANGED open
    /\ text' = Before(pos) \o <<c>> \o Behind(pos)
    /\ pos' = pos + 1

Rubout ==
    /\ open /\ UNCHANGED open
    /\ pos > 0
    /\ text' = Before(pos - 1) \o Behind(pos)
    /\ pos' = pos - 1

\* The line between the breaks around the cursor goes, with one of the breaks.
DeleteLine ==
    /\ open /\ UNCHANGED open
    /\ \E from \in 0..pos, to \in pos..Len(text) :
          /\ \A k \in (from + 1)..to : text[k] # Break
          /\ from = 0 \/ text[from] = Break
          /\ to = Len(text) \/ text[to + 1] = Break
          /\ text' = IF to < Len(text) THEN Before(from) \o Behind(to + 1)
                     ELSE Before(IF from = 0 THEN 0 ELSE from - 1)
    /\ pos' \in 0..Len(text')

Move == open /\ UNCHANGED <<open, text>> /\ pos' \in 0..Len(text)

Next ==
    \/ Open \/ Close
    \/ \E c \in Chars \cup {Break} : Type(c)
    \/ Rubout \/ DeleteLine \/ Move

Spec == Init /\ [][Next]_<<open, text, pos>>
=============================================================================
