------------------------------ MODULE ShellEnv ------------------------------
(***************************************************************************)
(* The shell with the environment of kernel/env.c, which export, unset and *)
(* the system calls work on.  The line editor and the table share no       *)
(* state: what the table does with a sequence of calls is a function.      *)
(***************************************************************************)
EXTENDS ShellLine

CONSTANTS ENV_MAX_VARS, ENV_KEY_MAX, ENV_VAL_MAX,  \* env.h
          Keys, Values,  \* what callers export
          NoValue,       \* the null pointer
          EnvCalls       \* the sequences of calls

Table == INSTANCE KeyTable WITH SIZE <- ENV_MAX_VARS, KEY_MAX <- ENV_KEY_MAX, VAL_MAX <- ENV_VAL_MAX

ASSUME ShellEnvAssumption ==
    /\ ENV_MAX_VARS \in Nat /\ ENV_KEY_MAX \in Nat \ {0} /\ ENV_VAL_MAX \in Nat \ {0}
    /\ Values \subseteq Seq(Alphabet) /\ NoValue \notin Seq(Alphabet)
    /\ EnvCalls \subseteq Seq(Table!Calls)

CallsOK == \A calls \in EnvCalls : Table!IsMap(calls)

\* A variable reads as it was last exported, up to the ENV_VAL_MAX - 1 characters
\* that its array holds (env.c:39-40, 48-50), also when slots were freed in front
\* of a key that is set again, or the table is full (env.c:34-71; the loops of
\* disksync.c:34-54 and filemeta.c:23-41 are the same).  A longer value loses its
\* end without a word: Documentation/DOCS.md:276 promises keys of 32 characters
\* and values of 64, and the arrays keep one less of each.
EnvironmentIsMap == Prompt => CallsOK
=============================================================================
