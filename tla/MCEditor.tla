------------------------------- MODULE MCEditor -------------------------------
(***************************************************************************)
(* Editor with two characters, and files as shell commands leave them:     *)
(* none, a node without a buffer, empty (touch), without a break (write),  *)
(* or with a line longer than the buffer's (a program's).  The shell's     *)
(* text commands are run on the file and on what was edited; b is also     *)
(* their blank.                                                            *)
(***************************************************************************)
EXTENDS TextTools

CONSTANTS a, b

MCFiles == {ABSENT, NOBUF, <<>>, <<a, b>>, <<a, b, a, Break>>}

MCQueries == {<<a, b>>}

MCPatterns == {<<a>>}

MCStale == <<b>>
=============================================================================
