------------------------------ MODULE FileStore ------------------------------
(***************************************************************************)
(* What a flat file system promises to its one caller.  A call is about    *)
(* one name; what can be read under any other name does not change.  The   *)
(* old file is gone when the call begins, the new one appears at once and  *)
(* with the contents of the call, or not at all.  A call that is cut short *)
(* ends like one that returns; in one place it is not safe to cut it, and  *)
(* after that nothing is promised of the store.                            *)
(***************************************************************************)
CONSTANTS Names, Contents, ABSENT

VARIABLES store,  \* what can be read under each name
          call,   \* the call in progress: its name and the new contents
          gone    \* the store cannot be relied on any more

NoCall == <<ABSENT, ABSENT>>

Init == store = [n \in Names |-> ABSENT] /\ call = NoCall /\ gone = FALSE

\* A call that fails ends in the step it begins in.
Begin(n, c) ==
    /\ call = NoCall
    /\ store' = [store EXCEPT ![n] = ABSENT]
    /\ call' \in {NoCall, <<n, c>>}

Commit ==
    /\ call # NoCall
    /\ store' = [store EXCEPT ![call[1]] = call[2]]
    /\ UNCHANGED call

Return == call # NoCall /\ call' = NoCall /\ UNCHANGED store

Safe ==
    \/ \E n \in Names, c \in Contents \cup {ABSENT} : Begin(n, c)
    \/ Commit
    \/ Return

Next ==
    \/ ~ gone /\ Safe /\ UNCHANGED gone
    \/ gone'

\* What is lost stays lost, whatever is shown then.
Spec == Init /\ [][Next]_<<store, call, gone>>
=============================================================================
