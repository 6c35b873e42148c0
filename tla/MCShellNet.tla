----------------------------- MODULE MCShellNet -----------------------------
(* A gateway, two hosts of which only one fits the ARP cache, and frames   *)
(* that announce, re-announce, ask and echo, and a datagram.               *)
EXTENDS ShellNet

me == <<10, 0, 2, 15>>
gateway == <<10, 0, 2, 2>>
hostA == <<7, 0, 2, 2>>
hostB == <<10, 0, 2, 3>>

MCIps == {me, gateway, hostA, hostB}
MCMacs == 0..2
MCTyped == {<<2, 6, 6, Dot, 2, 5, 6>>, <<7>>}

Arp(op, spa, sha, tpa) == [type |-> "arp", op |-> op, spa |-> spa, sha |-> sha, tpa |-> tpa]
Ip(proto, sha, dst) == [type |-> "ip", proto |-> proto, sha |-> sha, dst |-> dst]

MCFrames == {Arp("reply", hostA, 1, me), Arp("request", hostA, 2, me),
             Arp("request", hostB, 1, gateway), Ip("echo request", 1, me), Ip("udp", 1, me)}
=============================================================================
