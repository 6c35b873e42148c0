----------------------------- MODULE MCShellLine -----------------------------
(***************************************************************************)
(* ShellEnv with one letter to type, a second one that comes from          *)
(* completion, lines of up to three characters and a ring of two entries.  *)
(* Short lines stand for reboot, run and !!.  One script ends by repeating *)
(* the line that started it.  The command calc is evaluated on all short   *)
(* strings of a digit, zero, a blank, parentheses and operators, and the   *)
(* table of export and unset on all short sequences of calls.              *)
(***************************************************************************)
EXTENDS ShellEnv

Calculator == INSTANCE Calc

MCKeys == {<<"a">>, <<"l">>, <<"0">>, <<"a", "l">>, <<"a", "l", "a">>}

\* The second one is too long for its array.
MCValues == {<<"a">>, <<"l", "a">>}

MCCalls == BoundedSeq(Table!Calls, 4)

MCWords == {<<"a", "l">>}

MCReboot == <<"a", "a", "a">>
MCRun    == <<"a", "l">>
MCBang   == <<"a", "a">>

MCScripts == {<< <<"a">>, MCBang >>, <<MCReboot>>, << <<"a">> >>}

MCFiles == {<<>>, << <<"a">>, <<"a", "l">>, <<"l">> >>}

Expressions == BoundedSeq({48, 55, Calculator!Space, Calculator!Open, Calculator!Close,
                           Calculator!Plus, Calculator!Minus, Calculator!Star, Calculator!Slash, Calculator!Percent}, 5)

ExpressionsOK == \A s \in Expressions : Calculator!FollowsGrammar(s)

\* At every prompt calc prints the value of every expression of its grammar,
\* with the usual precedence and from left to right, and refuses all else,
\* division by zero included (calc.c:6-11, 26-96): it keeps no state.
CalcFollowsGrammar == Prompt => ExpressionsOK
=============================================================================
