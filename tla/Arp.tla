--------------------------------- MODULE Arp ---------------------------------
(***************************************************************************)
(* Finding hardware addresses: the ARP cache of drivers/rtl8139.c, the     *)
(* ping and udpsend commands that read it on the kernel thread, and the    *)
(* handlers of the receive interrupt that fill it and answer for this      *)
(* machine.  The handlers run with interrupts off, one frame at a time, so *)
(* each is one action; the thread can be interrupted between any two of    *)
(* its steps, and in the middle of copying an address out of the cache.    *)
(*                                                                         *)
(* A hardware address is a pair: the host that has it, and how often that  *)
(* host had changed its address before.  The network loses and reorders    *)
(* frames.                                                                 *)
(***************************************************************************)
EXTENDS Integers, FiniteSets

CONSTANTS
  Hosts,        \* the other machines, by their IP addresses
  CacheSize,    \* ARP_CACHE_SIZE (16)
  Movers,       \* the hosts that change their hardware address
  MaxMoves,     \* bound: how often each of them does
  MaxWire       \* bound: frames on the wire

ASSUME ArpAssumption ==
  /\ CacheSize \in Nat \ {0} /\ Movers \subseteq Hosts /\ MaxMoves \in Nat /\ MaxWire \in Nat

VARIABLES
  arp_cache,   \* slot -> the host's hardware address, or Inactive
  apc,         \* where the thread is
  command,     \* "ping" or "udp"
  target,      \* dest_ip
  slot,        \* the slot that arp_resolve is copying from
  dest,        \* dest_mac: its two halves
  wire,        \* the frames on their way
  mac,         \* host -> which of its addresses it has
  heard        \* host -> the address it last announced here, or Unheard

arpThread == <<apc, command, target, slot, dest>>
arpVars == <<arp_cache, arpThread, wire, mac, heard>>

Slot == 1 .. CacheSize
Mac == Hosts \X (0 .. MaxMoves)
Inactive == <<>>
Unheard == -1
Nobody == "nobody"
Unset == <<>>
Broadcast == <<"broadcast">>

\* What hosts send to this machine.  arp: a request for this machine if it asks, otherwise
\* a reply or a request for another.  echo: an echo request with room for the answer in the
\* reply buffer if it asks, otherwise an echo reply or a request too long.
ToUs == [kind : {"arp", "echo"}, mac : Mac, asks : BOOLEAN]

\* What this machine sends: ARP requests for a host, echo requests, datagrams, and answers
\* to both kinds above.
FromUs ==
  [kind : {"who_has"}, to : Hosts]
    \cup [kind : {"ping", "udp", "answer"}, to : Hosts,
          dest : (Mac \X Mac) \cup {<<Broadcast, Broadcast>>}]

ArpInit ==
  /\ arp_cache = [s \in Slot |-> Inactive]
  /\ apc = "idle" /\ command = "none" /\ target = Nobody /\ slot = 0
  /\ dest = <<Unset, Unset>>
  /\ wire = {} /\ mac = [h \in Hosts |-> 0] /\ heard = [h \in Hosts |-> Unheard]

MacOf(h) == <<h, mac[h]>>

Active(h) == {s \in Slot : arp_cache[s] # Inactive /\ arp_cache[s][1] = h}
Lowest(S) == CHOOSE s \in S : \A t \in S : s <= t

\* rtl8139_send_packet: the frame is on the wire, or lost if the wire is full.
Sends(sent) == wire' = IF Cardinality(wire \cup sent) <= MaxWire THEN wire \cup sent ELSE wire
-----------------------------------------------------------------------------
(* The kernel thread. *)

\* The locals of a command are gone with it.
CommandEnds ==
  apc' = "idle" /\ command' = "none" /\ target' = Nobody /\ slot' = 0
    /\ dest' = <<Unset, Unset>>

\* net_ping and net_udp_send; a message too long for a frame is not sent.
net_ping(h) ==
  /\ apc = "idle"
  /\ apc' = "resolve" /\ command' = "ping" /\ target' = h
  /\ UNCHANGED <<arp_cache, slot, dest, wire, mac, heard>>

net_udp_send(h) ==
  /\ apc = "idle"
  /\ apc' = "resolve" /\ command' = "udp" /\ target' = h
  /\ UNCHANGED <<arp_cache, slot, dest, wire, mac, heard>>

\* arp_resolve finds the target and starts to copy its address.
ResolveHit ==
  /\ apc \in {"resolve", "poll"}
  /\ Active(target) # {}
  /\ slot' = Lowest(Active(target))
  /\ dest' = <<arp_cache[slot'], Unset>>
  /\ apc' = "copy"
  /\ UNCHANGED <<arp_cache, command, target, wire, mac, heard>>

\* The rest of the copy.
ResolveCopy ==
  /\ apc = "copy"
  /\ dest' = <<dest[1], arp_cache[slot]>>
  /\ apc' = "send" /\ slot' = 0
  /\ UNCHANGED <<arp_cache, command, target, wire, mac, heard>>

\* The target is not known: arp_send_request.  A ping then waits, a datagram is broadcast.
ResolveMiss ==
  /\ apc = "resolve"
  /\ Active(target) = {}
  /\ Sends({[kind |-> "who_has", to |-> target]})
  /\ \/ command = "ping" /\ apc' = "poll" /\ UNCHANGED dest
     \/ command = "udp" /\ apc' = "send" /\ dest' = <<Broadcast, Broadcast>>
  /\ UNCHANGED <<arp_cache, command, target, slot, mac, heard>>

\* The wait has counted to its end, and the last look into the cache did not help:
\* "Host unreachable".
PollTimeout ==
  /\ apc = "poll"
  /\ Active(target) = {}
  /\ CommandEnds
  /\ UNCHANGED <<arp_cache, wire, mac, heard>>

\* The echo request or the datagram goes out.
SendOut ==
  /\ apc = "send"
  /\ Sends({[kind |-> command, to |-> target, dest |-> dest]})
  /\ CommandEnds
  /\ UNCHANGED <<arp_cache, mac, heard>>

ArpCommand == \E h \in Hosts : net_ping(h) \/ net_udp_send(h)
ArpThread == ResolveHit \/ ResolveCopy \/ ResolveMiss \/ PollTimeout \/ SendOut
-----------------------------------------------------------------------------
(* The handlers of the receive interrupt. *)

\* Mutants: an unused entry is taken before the host's own; and a full cache gives up its
\* first entry.
SlotForUnusedFirst(h) ==
  LET unused == {s \in Slot : arp_cache[s] = Inactive}
  IN  IF unused # {} THEN {Lowest(unused)}
      ELSE IF Active(h) # {} THEN {Lowest(Active(h))} ELSE {}

SlotForEvicts(h) ==
  IF Active(h) # {} THEN {Lowest(Active(h))}
  ELSE LET unused == {s \in Slot : arp_cache[s] = Inactive}
       IN  IF unused = {} THEN {1} ELSE {Lowest(unused)}

\* arp_cache_add: the host's entry, or else the first that is not in use, or none
SlotFor(h) ==
  IF Active(h) # {} THEN {Lowest(Active(h))}
  ELSE LET unused == {s \in Slot : arp_cache[s] = Inactive}
       IN  IF unused = {} THEN {} ELSE {Lowest(unused)}

arp_cache_add(m) ==
  arp_cache' = [s \in Slot |-> IF s \in SlotFor(m[1]) THEN m ELSE arp_cache[s]]

\* The answer goes back to the address that the frame came from.
AnswerTo(f) ==
  IF f.asks THEN {[kind |-> "answer", to |-> f.mac[1], dest |-> <<f.mac, f.mac>>]} ELSE {}

\* Every ARP frame is learnt from; a request for this machine is answered.
handle_arp_packet ==
  \E f \in wire :
    /\ f.kind = "arp"
    /\ arp_cache_add(f.mac)
    /\ heard' = [heard EXCEPT ![f.mac[1]] = f.mac[2]]
    /\ wire' = (wire \ {f}) \cup AnswerTo(f)
    /\ UNCHANGED <<arpThread, mac>>

\* handle_ipv4_packet, for ICMP.  An echo reply is counted and shown, and changes nothing
\* else: the cache does not learn from it.
handle_ipv4_packet ==
  \E f \in wire :
    /\ f.kind = "echo"
    /\ wire' = (wire \ {f}) \cup AnswerTo(f)
    /\ UNCHANGED <<arp_cache, arpThread, mac, heard>>

handle_ethernet_packet == handle_arp_packet \/ handle_ipv4_packet
-----------------------------------------------------------------------------
(* The other machines and the network. *)

\* A host takes a frame that is for its address or for everybody.  It answers an ARP
\* request for it and a ping.
HostReceives ==
  \E f \in wire :
    /\ f \in FromUs
    /\ LET answer ==
             CASE f.kind = "who_has" ->
                    {[kind |-> "arp", mac |-> MacOf(f.to), asks |-> FALSE]}
               [] f.kind = "ping" /\ f.dest = <<MacOf(f.to), MacOf(f.to)>> ->
                    {[kind |-> "echo", mac |-> MacOf(f.to), asks |-> FALSE]}
               [] OTHER -> {}
       IN  wire' = (wire \ {f}) \cup answer
    /\ UNCHANGED <<arp_cache, arpThread, mac, heard>>

\* A host asks for this machine's address or for another's, or pings it.
HostSends ==
  \E h \in Hosts, b \in BOOLEAN, k \in {"arp", "echo"} :
    /\ k = "echo" => b
    /\ Sends({[kind |-> k, mac |-> MacOf(h), asks |-> b]})
    /\ UNCHANGED <<arp_cache, arpThread, mac, heard>>

HostMoves ==
  \E h \in Movers :
    /\ mac[h] < MaxMoves
    /\ mac' = [mac EXCEPT ![h] = @ + 1]
    /\ UNCHANGED <<arp_cache, arpThread, wire, heard>>

Lose ==
  \E f \in wire :
    /\ wire' = wire \ {f}
    /\ UNCHANGED <<arp_cache, arpThread, mac, heard>>

ArpNext == \/ ArpCommand \/ ArpThread \/ handle_ethernet_packet
           \/ HostReceives \/ HostSends \/ HostMoves \/ Lose

ArpSpec == ArpInit /\ [][ArpNext]_arpVars
-----------------------------------------------------------------------------
\* Cache, thread and wire have their types; nothing goes out without an address.
ArpTypeOK ==
  /\ arp_cache \in [Slot -> Mac \cup {Inactive}]
  /\ apc \in {"idle", "resolve", "poll", "copy", "send"} /\ command \in {"ping", "udp", "none"}
  /\ target \in Hosts \cup {Nobody} /\ slot \in Slot \cup {0}
  /\ dest \in (Mac \cup {Unset, Broadcast}) \X (Mac \cup {Unset, Broadcast})
  /\ wire \subseteq ToUs \cup FromUs
  /\ mac \in [Hosts -> 0 .. MaxMoves] /\ heard \in [Hosts -> (0 .. MaxMoves) \cup {Unheard}]

(* The cache never has two entries for a host, of which one would go stale. *)
OneEntryEach == \A h \in Hosts : Cardinality(Active(h)) <= 1

(* What a host last announced is what the cache has for it, or it was full when the host  *)
(* was first heard: entries are never given up, and the host is never reached by a ping.  *)
HeardIsKept ==
  \A h \in Hosts : heard[h] # Unheard =>
     IF Active(h) = {} THEN \A s \in Slot : arp_cache[s] # Inactive
                       ELSE arp_cache[Lowest(Active(h))] = <<h, heard[h]>>

(* The address that a frame goes out to is the target's, both halves of it, although the *)
(* interrupt may write to the cache between them; they differ only if the target has      *)
(* changed its address.                                                                    *)
AddressedToTarget ==
  apc = "send" /\ dest[1] # Broadcast =>
    /\ \A k \in {1, 2} : dest[k][1] = target /\ dest[k][2] <= mac[target]
    /\ dest[1] # dest[2] => mac[target] > 0

(* The cache is sound whatever is heard in which order: types, one entry for a host, and  *)
(* in it what the host last announced, or no entry because all were taken.                *)
ArpInv == ArpTypeOK /\ OneEntryEach /\ HeardIsKept
=============================================================================
