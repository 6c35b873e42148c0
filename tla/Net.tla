-------------------------------- MODULE Net --------------------------------
(***************************************************************************)
(* The network stack, kernel/net.c, on top of the driver: the ARP cache,   *)
(* the handlers of net_poll, and the calls net_arp_request, net_ping and   *)
(* net_udp_send that the shell makes.  There is no interrupt for the card: *)
(* frames are handled only while one of these calls polls.                 *)
(*                                                                         *)
(* A frame that arrives is a record of what the handlers look at; a frame  *)
(* that is sent, of whom it is for.  Checksums and lengths are left out.   *)
(* No code registers a UDP handler, so handle_udp drops every datagram.    *)
(***************************************************************************)
EXTENDS E1000, FiniteSets

CONSTANTS Ips,             \* addresses
          Macs,            \* hardware addresses
          my_ip,           \* 10.0.2.15
          gw_ip, gw_mac,   \* the gateway, entered by net_init
          NoMac,           \* an address nobody has announced
          Frames,          \* frames that may arrive
          ARP_CACHE_SIZE,  \* 8
          ArpTries,        \* 50, the polls of net_arp_request
          PingTries,       \* 100, the polls of net_ping
          MaxCommands,     \* bound on the calls the shell makes
          MaxSent          \* after so many frames sent, none arrives that is answered

ASSUME NetAssumption ==
    /\ my_ip \in Ips /\ gw_ip \in Ips /\ gw_mac \in Macs /\ NoMac \notin Macs
    /\ ARP_CACHE_SIZE \in Nat \ {0} /\ ArpTries \in Nat \ {0} /\ PingTries \in Nat \ {0}
    /\ MaxCommands \in Nat /\ MaxSent \in Nat
    /\ \A f \in Frames : f.type = "arp" => f.spa \in Ips /\ f.sha \in Macs

VARIABLES arp_cache,  \* the valid entries, in the order of the slots
          cmd,        \* the shell's call: which, and for which address
          phase,      \* "arp": net_arp_request runs; "ip": the rest of the call
          doing,      \* what it is at: "idle", "send", "poll" or "sleep"
          tries,      \* the loop counter of the call
          calls,      \* calls made so far
          heard       \* the last hardware address announced for each address

netVars == <<arp_cache, cmd, phase, doing, tries, calls, heard>>
vars == <<netVars, e1000Vars>>

-----------------------------------------------------------------------------
(* arp_cache_get *)
Known(ip) == \E i \in 1..Len(arp_cache) : arp_cache[i].ip = ip

(* Mutant: the newest entry, whomever it is for. *)
Mut_arp_cache_get(ip) == arp_cache[Len(arp_cache)].mac

arp_cache_get(ip) == arp_cache[CHOOSE i \in 1..Len(arp_cache) : arp_cache[i].ip = ip].mac

(* Mutant: an entry that exists is not updated. *)
Mut_arp_cache_set(ip, mac) ==
    IF ~Known(ip) /\ Len(arp_cache) < ARP_CACHE_SIZE
    THEN Append(arp_cache, [ip |-> ip, mac |-> mac])
    ELSE arp_cache

(* The cache after arp_cache_set: an entry is updated, or one is added     *)
(* while there is room; otherwise the pair is dropped.                     *)
arp_cache_set(ip, mac) ==
    IF Known(ip)
    THEN [i \in 1..Len(arp_cache) |->
            IF arp_cache[i].ip = ip THEN [arp_cache[i] EXCEPT !.mac = mac] ELSE arp_cache[i]]
    ELSE IF Len(arp_cache) < ARP_CACHE_SIZE
         THEN Append(arp_cache, [ip |-> ip, mac |-> mac])
         ELSE arp_cache

(* net_init, after e1000_init *)
Init ==
    /\ e1000_init
    /\ arp_cache = <<[ip |-> gw_ip, mac |-> gw_mac]>>
    /\ heard = [ip \in Ips |-> IF ip = gw_ip THEN gw_mac ELSE NoMac]
    /\ cmd = [name |-> "none", ip |-> my_ip]
    /\ phase = "ip" /\ doing = "idle" /\ tries = 0 /\ calls = 0

-----------------------------------------------------------------------------
(* Frames sent: requests are broadcast, replies go back to the sender, and *)
(* the others go to the address in the cache.                              *)
ArpRequest(ip) == [kind |-> "arp", ip |-> ip]
ArpReply(f) == [kind |-> "arp reply", mac |-> f.sha]
EchoReply(f) == [kind |-> "echo reply", mac |-> f.sha]
EchoRequest(ip, mac) == [kind |-> "ping", ip |-> ip, mac |-> mac]
Datagram(ip, mac) == [kind |-> "udpsend", ip |-> ip, mac |-> mac]

(* What the call is for, once the address is known. *)
Packet(ip, mac) == IF cmd'.name = "ping" THEN EchoRequest(ip, mac) ELSE Datagram(ip, mac)

Emit(f) == SendStarts(f) /\ doing' = "send"

(* The shell calls net_arp_request, net_ping or net_udp_send.  The last    *)
(* two look into the cache first.                                          *)
Call(name, ip) ==
    /\ doing = "idle"
    /\ calls < MaxCommands
    /\ calls' = calls + 1
    /\ cmd' = [name |-> name, ip |-> ip]
    /\ tries' = 0
    /\ IF name # "arp" /\ Known(ip)
       THEN phase' = "ip" /\ Emit(Packet(ip, arp_cache_get(ip)))
       ELSE phase' = "arp" /\ Emit(ArpRequest(ip))
    /\ UNCHANGED <<arp_cache, heard, mmio, rxVars, cardVars, acked>>

(* A send is over, whatever it returned: net_udp_send returns, all others  *)
(* go on polling, where a reply was sent from a handler of net_poll too.   *)
SendReturns ==
    /\ doing = "send"
    /\ SendEnds
    /\ doing' = IF phase = "ip" /\ cmd.name = "udpsend" THEN "idle" ELSE "poll"
    /\ UNCHANGED <<arp_cache, cmd, phase, tries, calls, heard, mmio, txVars, rxVars, cardVars>>

-----------------------------------------------------------------------------
(* handle_arp: the sender is learned from every ARP frame, request or      *)
(* reply and for whomever; requests for this machine are answered.         *)
handle_arp(f) ==
    /\ arp_cache' = arp_cache_set(f.spa, f.sha)
    /\ heard' = [heard EXCEPT ![f.spa] = f.sha]
    /\ IF f.op = "request" /\ f.tpa = my_ip
       THEN Emit(ArpReply(f))
       ELSE UNCHANGED <<doing, txVars>>

(* An echo request is answered; nothing waits for an echo reply. *)
handle_icmp(f) ==
    IF f.proto = "echo request" THEN Emit(EchoReply(f)) ELSE UNCHANGED <<doing, txVars>>

(* No port has a handler. *)
handle_udp == UNCHANGED <<doing, txVars>>

(* Packets for others are dropped, as are frames of other types. *)
handle_ip(f) ==
    /\ UNCHANGED <<arp_cache, heard>>
    /\ IF f.type # "ip" \/ f.dst # my_ip THEN UNCHANGED <<doing, txVars>>
       ELSE IF f.proto = "udp" THEN handle_udp
       ELSE handle_icmp(f)

(* One round of net_poll's loop. *)
net_poll ==
    /\ doing = "poll"
    /\ Received
    /\ e1000_recv
    /\ LET f == rx_ring[rx_tail].frame
       IN  IF f.type = "arp" THEN handle_arp(f) ELSE handle_ip(f)
    /\ UNCHANGED <<cmd, phase, tries, calls, mmio, cardVars, acked>>

(* net_poll has returned and the address is now known: net_arp_request     *)
(* returns 1, and net_ping and net_udp_send send their packet.             *)
Resolved ==
    /\ doing = "poll" /\ ~Received
    /\ phase = "arp" /\ Known(cmd.ip)
    /\ UNCHANGED cmd
    /\ IF cmd.name = "arp"
       THEN doing' = "idle" /\ UNCHANGED <<phase, tries, txVars>>
       ELSE phase' = "ip" /\ tries' = 0 /\ Emit(Packet(cmd.ip, arp_cache_get(cmd.ip)))
    /\ UNCHANGED <<arp_cache, calls, heard, mmio, rxVars, cardVars, acked>>

(* net_poll has returned and the loop goes on to timer_sleep. *)
Sleep ==
    /\ doing = "poll" /\ ~Received
    /\ phase = "ip" \/ ~Known(cmd.ip)
    /\ doing' = "sleep"
    /\ UNCHANGED <<arp_cache, cmd, phase, tries, calls, heard, e1000Vars>>

(* timer_sleep returns: the loop polls again or has come to its end, which *)
(* is a timeout of net_arp_request and the normal end of net_ping.         *)
Wake ==
    /\ doing = "sleep"
    /\ tries' = tries + 1
    /\ doing' = IF tries' < (IF phase = "arp" THEN ArpTries ELSE PingTries)
                THEN "poll" ELSE "idle"
    /\ UNCHANGED <<arp_cache, cmd, phase, calls, heard, e1000Vars>>

Stack == SendReturns \/ net_poll \/ Resolved \/ Sleep \/ Wake

(* handle_arp and handle_icmp send something back. *)
Answered(f) == \/ f.type = "arp" /\ f.op = "request" /\ f.tpa = my_ip
               \/ f.type = "ip" /\ f.dst = my_ip /\ f.proto = "echo request"

(* The network may go on forever; what arrives is bounded only where it    *)
(* would make this machine number ever more frames.                        *)
Card == /\ \/ CardTransmits
           \/ \E f \in Frames : (Answered(f) => handed < MaxSent) /\ CardReceives(f)
        /\ UNCHANGED netVars

-----------------------------------------------------------------------------
(* The cache agrees with what was announced, net.c:65-84: no address is in *)
(* it twice, every entry has the last hardware address heard for it, and   *)
(* an address is missing only if nobody announced it or the cache is full. *)
CacheIsLatest ==
    LET announced == {ip \in Ips : heard[ip] # NoMac}
        cached == {arp_cache[i].ip : i \in 1..Len(arp_cache)}
    IN  /\ Cardinality(cached) = Len(arp_cache)
        /\ \A i \in 1..Len(arp_cache) : arp_cache[i].mac = heard[arp_cache[i].ip]
        /\ cached = announced \/ (cached \subseteq announced /\ Len(arp_cache) = ARP_CACHE_SIZE)

(* Every packet of ping and udpsend goes to the last hardware address      *)
(* announced for the address the user gave, net.c:213-218 and 300-305,     *)
(* whatever was learned, refused or changed while the request was waiting. *)
SentToLatest ==
    [][ handed' # handed /\ tx_ring'[tx_tail].frame.kind \in {"ping", "udpsend"}
        => tx_ring'[tx_tail].frame = [kind |-> cmd'.name, ip |-> cmd'.ip, mac |-> heard[cmd'.ip]] ]_vars

(* Every call returns to the shell, e1000.c:182, net.c:284 and 335, once   *)
(* the network falls quiet: with or without a card, whether or not the     *)
(* card ever sends or anyone ever answers.  Without that it need not: the  *)
(* loop of net_poll, net.c:199, counts nothing and goes on for as long as  *)
(* there is a frame to handle.                                             *)
CallsReturn == <>[][RDH' = RDH]_vars => (doing # "idle" ~> doing = "idle")
=============================================================================
