------------------------------ MODULE KeyTable ------------------------------
(***************************************************************************)
(* The environment, kernel/env.c: a table of keys and values that export,  *)
(* unset and a system call work on.  The aliases of INIT.CFG               *)
(* (kernel/disksync.c:34-54) and the permissions of paths                  *)
(* (kernel/filemeta.c:23-41) are searched and filled by the same loops,    *)
(* without an unset.  The functions below take the table and return it as  *)
(* it is afterwards.                                                       *)
(***************************************************************************)
EXTENDS Naturals, Sequences, FiniteSets

CONSTANTS SIZE,     \* ENV_MAX_VARS
          KEY_MAX,  \* ENV_KEY_MAX, the bytes of a key's array
          VAL_MAX,  \* ENV_VAL_MAX, the bytes of a value's array
          Keys,     \* keys as they are typed, sequences of characters
          Values,   \* values as they are typed
          NoValue   \* the null pointer

Slots == 1..SIZE

(* strncpy into an array of size bytes: what does not fit is cut off. *)
Cut(s, size) == IF Len(s) < size THEN s ELSE SubSeq(s, 1, size - 1)

Stored(k) == Cut(k, KEY_MAX)
Held(v)   == Cut(v, VAL_MAX)

Empty == [i \in Slots |-> [used |-> FALSE, key |-> <<>>, val |-> NoValue]]

(* The used slots whose key is k, compared with the key as it was typed. *)
Hits(t, k) == {i \in Slots : t[i].used /\ t[i].key = k}
Free(t) == {i \in Slots : ~t[i].used}
First(is) == CHOOSE i \in is : \A j \in is : i <= j

(* The call finds its key, or a slot for it. *)
Accepted(t, k) == Hits(t, k) \cup Free(t) # {}

(* Mutant: the first slot that is free or has the key. *)
Mut_env_set(t, k, v) ==
    IF Accepted(t, k)
    THEN [t EXCEPT ![First(Hits(t, k) \cup Free(t))] = [used |-> TRUE, key |-> Stored(k), val |-> Held(v)]]
    ELSE t

env_set(t, k, v) ==
    IF Hits(t, k) # {} THEN [t EXCEPT ![First(Hits(t, k))].val = Held(v)]
    ELSE IF Free(t) # {}
         THEN [t EXCEPT ![First(Free(t))] = [used |-> TRUE, key |-> Stored(k), val |-> Held(v)]]
    ELSE t

env_get(t, k) == IF Hits(t, k) = {} THEN NoValue ELSE t[First(Hits(t, k))].val

env_unset(t, k) == [i \in Slots |-> IF i \in Hits(t, k) THEN [t[i] EXCEPT !.used = FALSE] ELSE t[i]]

-----------------------------------------------------------------------------
(* A sequence of calls, with the value that each key was last given.        *)
Calls == [key : Keys, val : Values \cup {NoValue}]

Called(r, c) ==
    IF c.val = NoValue
    THEN [t |-> env_unset(r.t, c.key), map |-> [r.map EXCEPT ![c.key] = NoValue]]
    ELSE [t |-> env_set(r.t, c.key, c.val),
          map |-> IF Accepted(r.t, c.key) THEN [r.map EXCEPT ![c.key] = c.val] ELSE r.map]

After(calls) ==
    LET state[n \in 0..Len(calls)] ==
            IF n = 0 THEN [t |-> Empty, map |-> [k \in Keys |-> NoValue]]
            ELSE Called(state[n - 1], calls[n])
    IN  state[Len(calls)]

(* Keys that fit and that no longer key is cut to. *)
OwnKeys == {k \in Keys : {l \in Keys : Stored(l) = k} = {k}}

(* What a key with this value reads as. *)
Reads(v) == IF v = NoValue THEN NoValue ELSE Held(v)

(* The table is a map: whatever was set and unset before, a key reads as   *)
(* it was last set, as far as the value fits its array, and a call is      *)
(* refused only when SIZE keys have values.  Keys that are cut off break   *)
(* it, for themselves and the keys they are cut to; for all others the     *)
(* first part holds beside them.                                           *)
IsMap(calls) ==
    LET r    == After(calls)
        keys == {calls[i].key : i \in 1..Len(calls)}
    IN  /\ \A k \in OwnKeys : env_get(r.t, k) = Reads(r.map[k])
        /\ keys \subseteq OwnKeys =>
              (Free(r.t) = {} <=> Cardinality({k \in Keys : r.map[k] # NoValue}) = SIZE)
=============================================================================
