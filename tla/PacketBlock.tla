----------------------------- MODULE PacketBlock -----------------------------
(***************************************************************************)
(* hook_func of packet_block_protocol.c, called on several processors at   *)
(* once.  It keeps the packet and its header in the globals sock_buff and  *)
(* ip_header; each later use reads the global again or uses the register   *)
(* that still holds what this processor stored, as the compiler chose.     *)
(* A load and a store are steps of their own, in the order of the program. *)
(***************************************************************************)
EXTENDS Integers

CONSTANTS
  Cpu,     \* processors that receive packets
  Packet,  \* the packets
  Icmp,    \* those of protocol 1
  None

VARIABLES
  sock_buff, ip_header,  \* the globals: a packet, and the packet of a header
  hook,                  \* per processor: where hook_func is
  skb, header,           \* per processor: its argument, the header it found
  verdict,               \* per packet: none, NF_DROP, NF_ACCEPT, or any
  during,                \* per packet: the packets in the hook at the same time
  released               \* the packets whose memory is freed

vars == <<sock_buff, ip_header, hook, skb, header, verdict, during, released>>

Init ==
  /\ sock_buff = None /\ ip_header = None /\ released = {}
  /\ hook = [c \in Cpu |-> "idle"]
  /\ skb = [c \in Cpu |-> None] /\ header = [c \in Cpu |-> None]
  /\ verdict = [k \in Packet |-> "none"] /\ during = [k \in Packet |-> {}]

InHook == {skb[c] : c \in {d \in Cpu : hook[d] # "idle"}}

\* A packet arrives: sock_buff = skb.
hook_func(c, k) ==
  /\ hook[c] = "idle" /\ during[k] = {}
  /\ sock_buff' = k
  /\ skb' = [skb EXCEPT ![c] = k]
  /\ during' = [j \in Packet |-> IF j = k THEN InHook \cup {k}
                                 ELSE IF j \in InHook THEN during[j] \cup {k} ELSE during[j]]
  /\ hook' = [hook EXCEPT ![c] = "header"]
  /\ UNCHANGED <<ip_header, header, verdict, released>>

\* skb_network_header(sock_buff): the header is found,
hook_func_header(c) ==
  /\ hook[c] = "header"
  /\ \E k \in {skb[c], sock_buff} : header' = [header EXCEPT ![c] = k]
  /\ hook' = [hook EXCEPT ![c] = "store"]
  /\ UNCHANGED <<sock_buff, ip_header, skb, verdict, during, released>>

\* and stored: ip_header = ..., whoever has stored there since.  The test of
\* sock_buff against NULL comes after it and never holds.
hook_func_store(c) ==
  /\ hook[c] = "store"
  /\ ip_header' = header[c]
  /\ hook' = [hook EXCEPT ![c] = "protocol"]
  /\ UNCHANGED <<sock_buff, skb, header, verdict, during, released>>

mut_no_drop(c) ==
  /\ hook[c] = "protocol"
  /\ \E k \in {header[c], ip_header} :
       verdict' = [verdict EXCEPT ![skb[c]] = IF k \in released THEN "any" ELSE "NF_ACCEPT"]
  /\ hook' = [hook EXCEPT ![c] = "idle"]
  /\ UNCHANGED <<sock_buff, ip_header, skb, header, during, released>>

\* ip_header->protocol == 1, and the verdict; a freed header holds anything.
hook_func_verdict(c) ==
  /\ hook[c] = "protocol"
  /\ \E k \in {header[c], ip_header} :
       verdict' = [verdict EXCEPT ![skb[c]] =
         IF k \in released THEN "any" ELSE IF k \in Icmp THEN "NF_DROP" ELSE "NF_ACCEPT"]
  /\ hook' = [hook EXCEPT ![c] = "idle"]
  /\ UNCHANGED <<sock_buff, ip_header, skb, header, during, released>>

\* The network stack is done with a packet.
kfree_skb(k) ==
  /\ verdict[k] # "none" /\ k \notin released
  /\ released' = released \cup {k}
  /\ UNCHANGED <<sock_buff, ip_header, hook, skb, header, verdict, during>>

Next ==
  \/ \E c \in Cpu : \/ \E k \in Packet : hook_func(c, k)
                    \/ hook_func_header(c) \/ hook_func_store(c)
                    \/ hook_func_verdict(c)
  \/ \E k \in Packet : kfree_skb(k)

Spec == Init /\ [][Next]_vars

-----------------------------------------------------------------------------
(* Properties.                                                             *)

\* Every variable stays in its type.
TypeOK ==
  /\ {sock_buff, ip_header} \subseteq Packet \cup {None} /\ released \subseteq Packet
  /\ hook \in [Cpu -> {"idle", "header", "store", "protocol"}]
  /\ skb \in [Cpu -> Packet \cup {None}] /\ header \in [Cpu -> Packet \cup {None}]
  /\ verdict \in [Packet -> {"none", "any", "NF_DROP", "NF_ACCEPT"}]
  /\ during \in [Packet -> SUBSET Packet]

\* The packets in the hook at the same time as one that was there with k: a
\* processor stores the header of a packet that came after its own, and may
\* do so when that packet has left and k has come.
Near(k) == UNION {during[j] : j \in during[k]}

\* An ICMP packet passes hook_func, or another one is dropped, only if a packet
\* of the other kind was in the hook with it, or with a packet that was in the
\* hook with it; a freed header is read for it only if another packet was in
\* the hook with it.  A packet that was there alone gets the right verdict.
VerdictOfOverlap ==
  \A k \in Packet :
    /\ verdict[k] = "NF_DROP" => Near(k) \cap Icmp # {}
    /\ verdict[k] = "NF_ACCEPT" => Near(k) \ Icmp # {}
    /\ verdict[k] = "any" => during[k] # {k}
==============================================================================
