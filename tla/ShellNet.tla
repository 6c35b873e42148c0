------------------------------ MODULE ShellNet ------------------------------
(***************************************************************************)
(* The shell's commands arp, ping and udpsend, kernel/shell.c:1322-1383,   *)
(* which parse an address and make one call of the network stack.  A typed *)
(* argument is a sequence of digits and dots.                              *)
(***************************************************************************)
EXTENDS Net

CONSTANT Typed  \* arguments the user may type

Dot == 10

(* One round of the parser's loop: the octet in the making is a u8, a dot  *)
(* stores it, and nothing is read after the fourth dot.                    *)
Parsed(acc, c) ==
    IF acc.i = 4 THEN acc
    ELSE IF c = Dot THEN [ip |-> [acc.ip EXCEPT ![acc.i + 1] = acc.v], i |-> acc.i + 1, v |-> 0]
    ELSE [acc EXCEPT !.v = (@ * 10 + c) % 256]

(* The address: what was not typed keeps the gateway's octets. *)
ParseIp(s) ==
    LET step[k \in 0..Len(s)] ==
            IF k = 0 THEN [ip |-> <<10, 0, 2, 2>>, i |-> 0, v |-> 0] ELSE Parsed(step[k - 1], s[k])
        end == step[Len(s)]
    IN  IF end.i < 4 THEN [end.ip EXCEPT ![end.i + 1] = end.v] ELSE end.ip

cmd_arp(s) == Call("arp", ParseIp(s))
cmd_ping(s) == Call("ping", ParseIp(s))
cmd_udpsend(s) == Call("udpsend", ParseIp(s))

Command == \E s \in Typed : cmd_arp(s) \/ cmd_ping(s) \/ cmd_udpsend(s)

Next == Command \/ Stack \/ Card

(* The shell runs with interrupts on, so its code and the timer go on; the *)
(* card and the network owe nothing, neither to send nor to fall quiet.    *)
Spec == Init /\ [][Next]_vars /\ WF_vars(Stack)
=============================================================================
