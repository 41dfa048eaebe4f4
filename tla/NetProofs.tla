------------------------------ MODULE NetProofs ------------------------------
(***************************************************************************)
(* Proofs about the protocols of drivers/rtl8139.c: the ARP cache, the TCP *)
(* responder and the checksum, for every number of hosts, cache entries,   *)
(* connections, segments and bytes.                                        *)
(***************************************************************************)
EXTENDS Arp, Tcp, Checksum, SetInduction, FiniteSetTheorems, SequenceTheorems

-----------------------------------------------------------------------------
(* The ARP cache. *)

\* A host has one entry at most.
OneSlot ==
  \A s, t \in Slot : /\ arp_cache[s] # Inactive /\ arp_cache[t] # Inactive
                     /\ arp_cache[s][1] = arp_cache[t][1]
                     => s = t

\* m is an address that its host has or has had.
Past(m) == m \in Mac /\ m[2] <= mac[m[1]]

\* What the cache has, and what is on the wire, are addresses that the hosts have had.
NoFutureAddress ==
  /\ \A s \in Slot : arp_cache[s] # Inactive => Past(arp_cache[s])
  /\ \A f \in wire : f.kind \in {"arp", "echo"} => Past(f.mac)

\* What the thread has copied so far is an address of its target; and the entry that it
\* copies from stays the target's.
OfTarget(m) == Past(m) /\ m[1] = target
ThreadSound ==
  /\ apc # "idle" => target \in Hosts /\ command \in {"ping", "udp"}
  /\ apc = "copy" => /\ slot \in Slot /\ arp_cache[slot] # Inactive
                     /\ arp_cache[slot][1] = target
                     /\ OfTarget(dest[1])
  /\ apc = "send" => \/ dest = <<Broadcast, Broadcast>>
                     \/ \E m, n \in Mac : dest = <<m, n>> /\ OfTarget(m) /\ OfTarget(n)

ArpIndInv == ArpTypeOK /\ OneSlot /\ NoFutureAddress /\ ThreadSound /\ HeardIsKept

LEMMA MacIsActive ==
  ASSUME NEW m \in Mac
  PROVE  m # Inactive /\ m = <<m[1], m[2]>> /\ m[1] \in Hosts /\ m[2] \in 0 .. MaxMoves
BY DEF Mac, Inactive

LEMMA LowestIsIn ==
  ASSUME NEW S, S \subseteq Slot, S # {}
  PROVE  Lowest(S) \in S
<1>1. S \subseteq Nat
  BY ArpAssumption DEF Slot
<1>2. PICK s \in S : \A t \in S : s <= t
  BY <1>1, LeastElement
<1> QED
  BY <1>2 DEF Lowest

\* The entry of a host is where arp_resolve and arp_cache_add look for it.
LEMMA TheSlot ==
  ASSUME OneSlot, NEW h, NEW s \in Slot, arp_cache[s] # Inactive, arp_cache[s][1] = h
  PROVE  Active(h) = {s} /\ Lowest(Active(h)) = s
<1>1. Active(h) = {s}
  BY DEF OneSlot, Active
<1> QED
  BY <1>1, LowestIsIn

LEMMA ArpInitInv ==
  ASSUME ArpInit
  PROVE  ArpIndInv
<1>1. ArpTypeOK
  BY ArpAssumption DEF ArpInit, ArpTypeOK, Unheard
<1>2. OneSlot /\ NoFutureAddress /\ ThreadSound /\ HeardIsKept
  BY DEF ArpInit, OneSlot, NoFutureAddress, ThreadSound, HeardIsKept
<1> QED
  BY <1>1, <1>2 DEF ArpIndInv

\* What is sent is on the wire or lost.
LEMMA SendsKeeps ==
  ASSUME ArpIndInv, NEW S, Sends(S), S \subseteq ToUs \cup FromUs,
         \A f \in S : f.kind \in {"arp", "echo"} => Past(f.mac)
  PROVE  /\ wire' \subseteq ToUs \cup FromUs
         /\ \A f \in wire' : f.kind \in {"arp", "echo"} => Past(f.mac)
<1>1. wire' \subseteq wire \cup S
  BY DEF Sends
<1> QED
  BY <1>1 DEF ArpIndInv, ArpTypeOK, NoFutureAddress

\* A step that leaves cache and addresses alone
LEMMA QuietCache ==
  ASSUME ArpIndInv, UNCHANGED <<arp_cache, mac, heard>>,
         wire' \subseteq ToUs \cup FromUs,
         \A f \in wire' : f.kind \in {"arp", "echo"} => Past(f.mac)
  PROVE  /\ OneSlot' /\ NoFutureAddress' /\ HeardIsKept'
         /\ arp_cache' \in [Slot -> Mac \cup {Inactive}] /\ mac' \in [Hosts -> 0 .. MaxMoves]
         /\ heard' \in [Hosts -> (0 .. MaxMoves) \cup {Unheard}]
         /\ \A m : Past(m)' <=> Past(m)
<1>1. \A m : Past(m)' <=> Past(m)
  BY DEF Past
<1>2. OneSlot'
  BY DEF ArpIndInv, OneSlot
<1>3. NoFutureAddress'
  BY <1>1 DEF ArpIndInv, NoFutureAddress
<1>4. HeardIsKept'
  BY DEF ArpIndInv, HeardIsKept, Active
<1> QED
  BY <1>1, <1>2, <1>3, <1>4 DEF ArpIndInv, ArpTypeOK

\* A step of the network that the thread does not take part in, and that leaves cache and
\* addresses alone
LEMMA QuietThread ==
  ASSUME ArpIndInv, UNCHANGED <<arp_cache, mac, heard, arpThread>>,
         wire' \subseteq ToUs \cup FromUs,
         \A f \in wire' : f.kind \in {"arp", "echo"} => Past(f.mac)
  PROVE  ArpIndInv'
<1>1. UNCHANGED <<apc, command, target, slot, dest>>
  BY DEF arpThread
<1>2. /\ OneSlot' /\ NoFutureAddress' /\ HeardIsKept'
      /\ \A m : Past(m)' <=> Past(m)
  BY QuietCache
<1>3. ArpTypeOK'
  BY <1>1 DEF ArpIndInv, ArpTypeOK
<1>4. ThreadSound'
  <2>1. \A m : OfTarget(m)' <=> OfTarget(m)
    BY <1>1, <1>2 DEF OfTarget
  <2>2. OfTarget(dest[1])' <=> OfTarget(dest[1])
    BY <1>1, <2>1
  <2> QED
    BY <1>1, <2>1, <2>2 DEF ArpIndInv, ThreadSound
<1> QED
  BY <1>2, <1>3, <1>4 DEF ArpIndInv

LEMMA IdleIsSound ==
  ASSUME CommandEnds
  PROVE  /\ ThreadSound'
         /\ apc' = "idle" /\ command' = "none" /\ target' = Nobody /\ slot' = 0
         /\ dest' \in (Mac \cup {Unset, Broadcast}) \X (Mac \cup {Unset, Broadcast})
BY DEF CommandEnds, ThreadSound

LEMMA ArpCommandStep ==
  ASSUME ArpIndInv, ArpCommand
  PROVE  ArpIndInv'
<1>1. PICK h \in Hosts : net_ping(h) \/ net_udp_send(h)
  BY DEF ArpCommand
<1>2. /\ apc' = "resolve" /\ command' \in {"ping", "udp"} /\ target' = h
      /\ UNCHANGED <<arp_cache, slot, dest, wire, mac, heard>>
  BY <1>1 DEF net_ping, net_udp_send
<1>3. OneSlot' /\ NoFutureAddress' /\ HeardIsKept'
  BY <1>2, QuietCache DEF ArpIndInv, ArpTypeOK, NoFutureAddress
<1>4. ArpTypeOK'
  BY <1>2 DEF ArpIndInv, ArpTypeOK
<1>5. ThreadSound'
  BY <1>2 DEF ThreadSound
<1> QED
  BY <1>3, <1>4, <1>5 DEF ArpIndInv

LEMMA ResolveHitStep ==
  ASSUME ArpIndInv, ResolveHit
  PROVE  ArpIndInv'
<1>1. /\ apc \in {"resolve", "poll"} /\ Active(target) # {}
      /\ slot' = Lowest(Active(target)) /\ dest' = <<arp_cache[slot'], Unset>> /\ apc' = "copy"
      /\ UNCHANGED <<arp_cache, command, target, wire, mac, heard>>
  BY DEF ResolveHit
<1>2. slot' \in Active(target)
  <2>1. Active(target) \subseteq Slot
    BY DEF Active
  <2> QED
    BY <1>1, <2>1, LowestIsIn
<1>3. /\ slot' \in Slot /\ arp_cache[slot'] # Inactive /\ arp_cache[slot'][1] = target
      /\ target \in Hosts /\ command \in {"ping", "udp"} /\ Past(arp_cache[slot'])
  BY <1>1, <1>2 DEF Active, ArpIndInv, ThreadSound, NoFutureAddress
<1>4. /\ OneSlot' /\ NoFutureAddress' /\ HeardIsKept'
      /\ \A m : Past(m)' <=> Past(m)
  BY <1>1, QuietCache DEF ArpIndInv, ArpTypeOK, NoFutureAddress
<1>5. dest'[1] = arp_cache[slot'] /\ arp_cache[slot'] \in Mac
  BY <1>1, <1>3 DEF Past
<1>6. dest' \in (Mac \cup {Unset, Broadcast}) \X (Mac \cup {Unset, Broadcast})
  BY <1>1, <1>5
<1>7. ArpTypeOK'
  BY <1>1, <1>3, <1>6 DEF ArpIndInv, ArpTypeOK
<1>8. OfTarget(dest[1])'
  BY <1>1, <1>3, <1>4, <1>5 DEF OfTarget
<1>9. ThreadSound'
  BY <1>1, <1>3, <1>8 DEF ThreadSound
<1> QED
  BY <1>4, <1>7, <1>9 DEF ArpIndInv

LEMMA ResolveCopyStep ==
  ASSUME ArpIndInv, ResolveCopy
  PROVE  ArpIndInv'
<1>1. /\ apc = "copy" /\ dest' = <<dest[1], arp_cache[slot]>> /\ apc' = "send" /\ slot' = 0
      /\ UNCHANGED <<arp_cache, command, target, wire, mac, heard>>
  BY DEF ResolveCopy
<1>2. PICK m \in Mac, n \in Mac : /\ m = dest[1] /\ n = arp_cache[slot]
                                 /\ OfTarget(m) /\ OfTarget(n)
  BY <1>1 DEF ArpIndInv, ThreadSound, OfTarget, Past, NoFutureAddress
<1>3. /\ OneSlot' /\ NoFutureAddress' /\ HeardIsKept'
      /\ \A a : Past(a)' <=> Past(a)
  BY <1>1, QuietCache DEF ArpIndInv, ArpTypeOK, NoFutureAddress
<1>4. ArpTypeOK'
  BY <1>1, <1>2 DEF ArpIndInv, ArpTypeOK
<1>5. OfTarget(m)' /\ OfTarget(n)'
  BY <1>1, <1>2, <1>3 DEF OfTarget
<1>6. target' \in Hosts /\ command' \in {"ping", "udp"}
  BY <1>1 DEF ArpIndInv, ThreadSound
<1>7. ThreadSound'
  BY <1>1, <1>2, <1>5, <1>6 DEF ThreadSound
<1> QED
  BY <1>3, <1>4, <1>7 DEF ArpIndInv

LEMMA ResolveMissStep ==
  ASSUME ArpIndInv, ResolveMiss
  PROVE  ArpIndInv'
<1> DEFINE S == {[kind |-> "who_has", to |-> target]}
<1>1. /\ apc = "resolve" /\ Sends(S)
      /\ (\/ command = "ping" /\ apc' = "poll" /\ dest' = dest
          \/ command = "udp" /\ apc' = "send" /\ dest' = <<Broadcast, Broadcast>>)
      /\ UNCHANGED <<arp_cache, command, target, slot, mac, heard>>
  BY DEF ResolveMiss
<1>2. target \in Hosts /\ command \in {"ping", "udp"}
  BY <1>1 DEF ArpIndInv, ThreadSound
<1>3. S \subseteq ToUs \cup FromUs /\ \A f \in S : f.kind = "who_has"
  BY <1>2 DEF FromUs
<1>4. /\ wire' \subseteq ToUs \cup FromUs
      /\ \A f \in wire' : f.kind \in {"arp", "echo"} => Past(f.mac)
  BY <1>1, <1>3, SendsKeeps
<1>5. OneSlot' /\ NoFutureAddress' /\ HeardIsKept'
  BY <1>1, <1>4, QuietCache
<1>6. ArpTypeOK'
  BY <1>1, <1>4 DEF ArpIndInv, ArpTypeOK
<1>7. ThreadSound'
  BY <1>1, <1>2 DEF ThreadSound
<1> QED
  BY <1>5, <1>6, <1>7 DEF ArpIndInv

LEMMA CommandEndsStep ==
  ASSUME ArpIndInv, PollTimeout \/ SendOut
  PROVE  ArpIndInv'
<1>1. CommandEnds /\ UNCHANGED <<arp_cache, mac, heard>>
  BY DEF PollTimeout, SendOut
<1>2. /\ wire' \subseteq ToUs \cup FromUs
      /\ \A f \in wire' : f.kind \in {"arp", "echo"} => Past(f.mac)
  <2>1. CASE PollTimeout
    BY <2>1 DEF PollTimeout, ArpIndInv, ArpTypeOK, NoFutureAddress
  <2>2. CASE SendOut
    <3> DEFINE f == [kind |-> command, to |-> target, dest |-> dest]
    <3>1. Sends({f}) /\ command \in {"ping", "udp"} /\ target \in Hosts
      BY <2>2 DEF SendOut, ArpIndInv, ThreadSound
    <3>2. dest \in (Mac \X Mac) \cup {<<Broadcast, Broadcast>>}
      BY <2>2 DEF SendOut, ArpIndInv, ThreadSound
    <3>3. f \in FromUs /\ f.kind \notin {"arp", "echo"}
      BY <3>1, <3>2 DEF FromUs
    <3> HIDE DEF f
    <3> QED
      BY <3>1, <3>3, SendsKeeps
  <2> QED
    BY <2>1, <2>2
<1>3. OneSlot' /\ NoFutureAddress' /\ HeardIsKept'
  BY <1>1, <1>2, QuietCache
<1>4. /\ ThreadSound'
      /\ apc' = "idle" /\ command' = "none" /\ target' = Nobody /\ slot' = 0
      /\ dest' \in (Mac \cup {Unset, Broadcast}) \X (Mac \cup {Unset, Broadcast})
  BY <1>1, IdleIsSound
<1>5. ArpTypeOK'
  BY <1>1, <1>2, <1>4 DEF ArpIndInv, ArpTypeOK
<1> QED
  BY <1>3, <1>4, <1>5 DEF ArpIndInv

\* What a frame to this machine carries
LEMMA FrameToUs ==
  ASSUME ArpIndInv, NEW f \in wire, f.kind \in {"arp", "echo"}
  PROVE  /\ f \in ToUs /\ f.mac \in Mac /\ f.asks \in BOOLEAN /\ Past(f.mac)
         /\ AnswerTo(f) \subseteq FromUs
         /\ \A a \in AnswerTo(f) : a.kind = "answer"
<1>1. f \in ToUs /\ Past(f.mac)
  BY DEF ArpIndInv, ArpTypeOK, NoFutureAddress, FromUs
<1>2. f.mac \in Mac /\ f.asks \in BOOLEAN /\ f.mac[1] \in Hosts
  BY <1>1, MacIsActive DEF ToUs
<1>3. AnswerTo(f) \subseteq FromUs /\ \A a \in AnswerTo(f) : a.kind = "answer"
  BY <1>2 DEF AnswerTo, FromUs
<1> QED
  BY <1>1, <1>2, <1>3

LEMMA WireAfterFrame ==
  ASSUME ArpIndInv, NEW f \in wire, f.kind \in {"arp", "echo"},
         wire' = (wire \ {f}) \cup AnswerTo(f)
  PROVE  /\ wire' \subseteq ToUs \cup FromUs
         /\ \A g \in wire' : g.kind \in {"arp", "echo"} => Past(g.mac)
<1>1. AnswerTo(f) \subseteq FromUs /\ \A a \in AnswerTo(f) : a.kind = "answer"
  BY FrameToUs
<1> QED
  BY <1>1 DEF ArpIndInv, ArpTypeOK, NoFutureAddress

LEMMA IPv4Step ==
  ASSUME ArpIndInv, handle_ipv4_packet
  PROVE  ArpIndInv'
<1>1. PICK f \in wire : /\ f.kind = "echo" /\ wire' = (wire \ {f}) \cup AnswerTo(f)
                        /\ UNCHANGED <<arp_cache, arpThread, mac, heard>>
  BY DEF handle_ipv4_packet
<1>2. /\ wire' \subseteq ToUs \cup FromUs
      /\ \A g \in wire' : g.kind \in {"arp", "echo"} => Past(g.mac)
  BY <1>1, WireAfterFrame
<1> QED
  BY <1>1, <1>2, QuietThread

\* What arp_cache_add does: the host's entry, or an unused one, takes the address; or else
\* there is neither, and nothing changes.
LEMMA CacheAdd ==
  ASSUME ArpIndInv, NEW m \in Mac, arp_cache_add(m)
  PROVE  \/ \E x \in Slot :
              /\ arp_cache[x] = Inactive \/ arp_cache[x][1] = m[1]
              /\ Active(m[1]) \subseteq {x}
              /\ (\E s \in Slot : arp_cache[s] = Inactive) => arp_cache[x] = Inactive \/ Active(m[1]) # {}
              /\ arp_cache' \in [Slot -> Mac \cup {Inactive}]
              /\ \A s \in Slot : arp_cache'[s] = IF s = x THEN m ELSE arp_cache[s]
         \/ /\ Active(m[1]) = {} /\ arp_cache' = arp_cache
            /\ \A s \in Slot : arp_cache[s] # Inactive
<1> DEFINE h == m[1]
           unused == {s \in Slot : arp_cache[s] = Inactive}
<1>1. /\ arp_cache' = [s \in Slot |-> IF s \in SlotFor(h) THEN m ELSE arp_cache[s]]
      /\ arp_cache \in [Slot -> Mac \cup {Inactive}] /\ Active(h) \subseteq Slot
  BY DEF arp_cache_add, ArpIndInv, ArpTypeOK, Active
<1>2. CASE Active(h) # {}
  <2>1. PICK x \in Active(h) : x = Lowest(Active(h))
    BY <1>1, <1>2, LowestIsIn
  <2>2. SlotFor(h) = {x}
    BY <1>2, <2>1 DEF SlotFor
  <2>3. x \in Slot /\ arp_cache[x] # Inactive /\ arp_cache[x][1] = h
    BY <2>1 DEF Active
  <2>4. Active(h) = {x}
    BY <2>3, TheSlot DEF ArpIndInv
  <2> QED
    BY <1>1, <1>2, <2>2, <2>3, <2>4
<1>3. CASE Active(h) = {} /\ unused # {}
  <2>1. PICK x \in unused : x = Lowest(unused)
    BY <1>3, LowestIsIn
  <2>2. SlotFor(h) = {x}
    BY <1>3, <2>1 DEF SlotFor
  <2> QED
    BY <1>1, <1>3, <2>1, <2>2
<1>4. CASE Active(h) = {} /\ unused = {}
  <2>1. SlotFor(h) = {}
    BY <1>4 DEF SlotFor
  <2>2. arp_cache' = arp_cache
    BY <1>1, <2>1
  <2> QED
    BY <1>4, <2>2
<1> QED
  BY <1>2, <1>3, <1>4

LEMMA ArpPacketStep ==
  ASSUME ArpIndInv, handle_arp_packet
  PROVE  ArpIndInv'
<1>1. PICK f \in wire : /\ f.kind = "arp" /\ arp_cache_add(f.mac)
                        /\ heard' = [heard EXCEPT ![f.mac[1]] = f.mac[2]]
                        /\ wire' = (wire \ {f}) \cup AnswerTo(f)
                        /\ UNCHANGED <<arpThread, mac>>
  BY DEF handle_arp_packet
<1>2. PICK m \in Mac : m = f.mac /\ Past(m)
  BY <1>1, FrameToUs
<1>3. m # Inactive /\ m = <<m[1], m[2]>> /\ m[1] \in Hosts /\ m[2] \in 0 .. MaxMoves
  BY MacIsActive
<1>4. /\ wire' \subseteq ToUs \cup FromUs
      /\ \A g \in wire' : g.kind \in {"arp", "echo"} => Past(g.mac)
  BY <1>1, WireAfterFrame
<1>5. \A a : Past(a)' <=> Past(a)
  BY <1>1 DEF Past
<1>6. /\ UNCHANGED <<apc, command, target, slot, dest>>
      /\ heard' = [heard EXCEPT ![m[1]] = m[2]] /\ arp_cache_add(m)
  BY <1>1, <1>2 DEF arpThread
<1>7. /\ heard' \in [Hosts -> (0 .. MaxMoves) \cup {Unheard}]
      /\ heard'[m[1]] = m[2] /\ \A g \in Hosts \ {m[1]} : heard'[g] = heard[g]
  BY <1>3, <1>6 DEF ArpIndInv, ArpTypeOK
<1>8. CASE \E x \in Slot :
             /\ arp_cache[x] = Inactive \/ arp_cache[x][1] = m[1]
             /\ Active(m[1]) \subseteq {x}
             /\ (\E s \in Slot : arp_cache[s] = Inactive) => arp_cache[x] = Inactive \/ Active(m[1]) # {}
             /\ arp_cache' \in [Slot -> Mac \cup {Inactive}]
             /\ \A s \in Slot : arp_cache'[s] = IF s = x THEN m ELSE arp_cache[s]
  <2>1. PICK x \in Slot :
             /\ arp_cache[x] = Inactive \/ arp_cache[x][1] = m[1]
             /\ Active(m[1]) \subseteq {x}
             /\ (\E s \in Slot : arp_cache[s] = Inactive) => arp_cache[x] = Inactive \/ Active(m[1]) # {}
             /\ arp_cache' \in [Slot -> Mac \cup {Inactive}]
             /\ \A s \in Slot : arp_cache'[s] = IF s = x THEN m ELSE arp_cache[s]
    BY <1>8
  <2>2. ArpTypeOK'
    BY <1>1, <1>4, <1>6, <1>7, <2>1 DEF ArpIndInv, ArpTypeOK
  <2>3. OneSlot'
    BY <1>3, <2>1 DEF ArpIndInv, OneSlot, Active
  <2>4. NoFutureAddress'
    BY <1>2, <1>4, <1>5, <2>1 DEF ArpIndInv, NoFutureAddress
  <2>5. ThreadSound'
    <3>1. \A a : OfTarget(a)' <=> OfTarget(a)
      BY <1>5, <1>6 DEF OfTarget
    <3>2. OfTarget(dest[1])' <=> OfTarget(dest[1])
      BY <3>1, <1>6
    <3>3. apc = "copy" => arp_cache'[slot] # Inactive /\ arp_cache'[slot][1] = target
      BY <1>3, <2>1 DEF ArpIndInv, ThreadSound
    <3> QED
      BY <1>6, <3>1, <3>2, <3>3 DEF ArpIndInv, ThreadSound
  <2>6. HeardIsKept'
    <3> SUFFICES ASSUME NEW g \in Hosts, heard'[g] # Unheard
                 PROVE  IF Active(g)' = {} THEN \A s \in Slot : arp_cache'[s] # Inactive
                        ELSE arp_cache'[Lowest(Active(g)')] = <<g, heard'[g]>>
      BY DEF HeardIsKept
    <3>1. CASE g = m[1]
      <4>1. Active(g)' = {x}
        BY <1>3, <2>1, <3>1 DEF Active
      <4>2. Lowest(Active(g)') = x
        BY <4>1, LowestIsIn
      <4> QED
        BY <1>3, <1>7, <2>1, <3>1, <4>1, <4>2
    <3>2. CASE g # m[1]
      <4>1. Active(g)' = Active(g) /\ Active(g) \subseteq Slot /\ x \notin Active(g)
        BY <1>3, <2>1, <3>2 DEF Active
      <4>2. heard[g] # Unheard /\ heard'[g] = heard[g]
        BY <1>7, <3>2
      <4>3. CASE Active(g) = {}
        BY <1>3, <2>1, <4>1, <4>2, <4>3 DEF ArpIndInv, HeardIsKept
      <4>4. CASE Active(g) # {}
        <5>1. Lowest(Active(g)) \in Active(g)
          BY <4>1, <4>4, LowestIsIn
        <5> QED
          BY <2>1, <4>1, <4>2, <4>4, <5>1 DEF ArpIndInv, HeardIsKept
      <4> QED
        BY <4>3, <4>4
    <3> QED
      BY <3>1, <3>2
  <2> QED
    BY <2>2, <2>3, <2>4, <2>5, <2>6 DEF ArpIndInv
<1>9. CASE /\ Active(m[1]) = {} /\ arp_cache' = arp_cache
           /\ \A s \in Slot : arp_cache[s] # Inactive
  <2>1. ArpTypeOK'
    BY <1>1, <1>4, <1>6, <1>7, <1>9 DEF ArpIndInv, ArpTypeOK
  <2>2. OneSlot' /\ NoFutureAddress'
    BY <1>4, <1>5, <1>9 DEF ArpIndInv, OneSlot, NoFutureAddress
  <2>3. ThreadSound'
    <3>1. \A a : OfTarget(a)' <=> OfTarget(a)
      BY <1>5, <1>6 DEF OfTarget
    <3>2. OfTarget(dest[1])' <=> OfTarget(dest[1])
      BY <3>1, <1>6
    <3> QED
      BY <1>6, <1>9, <3>1, <3>2 DEF ArpIndInv, ThreadSound
  <2>4. \A g : Active(g)' = Active(g)
    BY <1>9 DEF Active
  <2>5. HeardIsKept'
    BY <1>7, <1>9, <2>4 DEF ArpIndInv, HeardIsKept
  <2> QED
    BY <2>1, <2>2, <2>3, <2>5 DEF ArpIndInv
<1> QED
  BY <1>6, <1>8, <1>9, CacheAdd

LEMMA CurrentAddress ==
  ASSUME ArpIndInv, NEW h \in Hosts
  PROVE  MacOf(h) \in Mac /\ Past(MacOf(h))
<1>1. mac[h] \in 0 .. MaxMoves
  BY DEF ArpIndInv, ArpTypeOK
<1>2. MacOf(h) \in Mac /\ MacOf(h)[1] = h /\ MacOf(h)[2] = mac[h]
  BY <1>1 DEF MacOf, Mac
<1> QED
  BY <1>1, <1>2, ArpAssumption DEF Past

\* What a host sends carries the address that it has.
LEMMA HostFrame ==
  ASSUME ArpIndInv, NEW h \in Hosts, NEW b \in BOOLEAN, NEW k \in {"arp", "echo"}
  PROVE  \E f \in ToUs : f = [kind |-> k, mac |-> MacOf(h), asks |-> b] /\ Past(f.mac)
<1> DEFINE f == [kind |-> k, mac |-> MacOf(h), asks |-> b]
<1>1. MacOf(h) \in Mac /\ Past(MacOf(h)) /\ f.mac = MacOf(h)
  BY CurrentAddress
<1>2. f \in ToUs
  BY <1>1 DEF ToUs
<1>3. Past(f.mac)
  BY <1>1
<1> HIDE DEF f
<1>4. \E g \in ToUs : g = f /\ Past(g.mac)
  BY <1>2, <1>3
<1> QED
  BY <1>4 DEF f

LEMMA NetworkStep ==
  ASSUME ArpIndInv, HostReceives \/ HostSends \/ Lose
  PROVE  ArpIndInv'
<1>1. UNCHANGED <<arp_cache, arpThread, mac, heard>>
  BY DEF HostReceives, HostSends, Lose
<1>2. /\ wire' \subseteq ToUs \cup FromUs
      /\ \A f \in wire' : f.kind \in {"arp", "echo"} => Past(f.mac)
  <2>1. CASE HostReceives
    <3>1. PICK f \in wire :
             /\ f \in FromUs
             /\ \/ wire' = (wire \ {f}) \cup {[kind |-> "arp", mac |-> MacOf(f.to), asks |-> FALSE]}
                \/ wire' = (wire \ {f}) \cup {[kind |-> "echo", mac |-> MacOf(f.to), asks |-> FALSE]}
                \/ wire' = (wire \ {f}) \cup {}
      BY <2>1 DEF HostReceives
    <3>2. f.to \in Hosts
      BY <3>1 DEF FromUs
    <3>3. PICK a \in ToUs : /\ a = [kind |-> "arp", mac |-> MacOf(f.to), asks |-> FALSE]
                            /\ Past(a.mac)
      BY <3>2, HostFrame
    <3>4. PICK e \in ToUs : /\ e = [kind |-> "echo", mac |-> MacOf(f.to), asks |-> FALSE]
                            /\ Past(e.mac)
      BY <3>2, HostFrame
    <3>5. wire' \subseteq wire \cup {a, e}
      BY <3>1, <3>3, <3>4
    <3> QED
      BY <3>3, <3>4, <3>5 DEF ArpIndInv, ArpTypeOK, NoFutureAddress
  <2>2. CASE HostSends
    <3>1. PICK h \in Hosts, b \in BOOLEAN, k \in {"arp", "echo"} :
             Sends({[kind |-> k, mac |-> MacOf(h), asks |-> b]})
      BY <2>2 DEF HostSends
    <3>2. PICK f \in ToUs : f = [kind |-> k, mac |-> MacOf(h), asks |-> b] /\ Past(f.mac)
      BY HostFrame
    <3>3. Sends({f})
      BY <3>1, <3>2
    <3> QED
      BY <3>2, <3>3, SendsKeeps
  <2>3. CASE Lose
    BY <2>3 DEF Lose, ArpIndInv, ArpTypeOK, NoFutureAddress
  <2> QED
    BY <2>1, <2>2, <2>3
<1> QED
  BY <1>1, <1>2, QuietThread

\* An address that a host gives up stays one that it has had.
LEMMA HostMovesStep ==
  ASSUME ArpIndInv, HostMoves
  PROVE  ArpIndInv'
<1>1. PICK h \in Movers : /\ mac[h] < MaxMoves /\ mac' = [mac EXCEPT ![h] = @ + 1]
                          /\ UNCHANGED <<arp_cache, arpThread, wire, heard>>
  BY DEF HostMoves
<1>2. h \in Hosts /\ MaxMoves \in Nat
  BY ArpAssumption
<1>3. mac' \in [Hosts -> 0 .. MaxMoves] /\ \A g \in Hosts : mac[g] <= mac'[g]
  BY <1>1, <1>2 DEF ArpIndInv, ArpTypeOK
<1>4. \A m : Past(m) => Past(m)'
  BY <1>1, <1>2, <1>3, MacIsActive DEF Past, ArpIndInv, ArpTypeOK
<1>5. UNCHANGED <<arp_cache, apc, command, target, slot, dest, wire, heard>>
  BY <1>1 DEF arpThread
<1>6. ArpTypeOK'
  BY <1>3, <1>5 DEF ArpIndInv, ArpTypeOK
<1>7. OneSlot' /\ NoFutureAddress'
  BY <1>4, <1>5 DEF ArpIndInv, OneSlot, NoFutureAddress
<1>8. ThreadSound'
  <2>1. \A m : OfTarget(m) => OfTarget(m)'
    BY <1>4, <1>5 DEF OfTarget
  <2>2. OfTarget(dest[1]) => OfTarget(dest[1])'
    BY <1>5, <2>1
  <2> QED
    BY <1>5, <2>1, <2>2 DEF ArpIndInv, ThreadSound
<1>9. HeardIsKept'
  BY <1>5 DEF ArpIndInv, HeardIsKept, Active
<1> QED
  BY <1>6, <1>7, <1>8, <1>9 DEF ArpIndInv

\* The conjunction that ArpInv follows from holds in every state.
THEOREM ArpIndInvInvariant == ArpSpec => []ArpIndInv
<1>1. ArpInit => ArpIndInv
  BY ArpInitInv
<1>2. ArpIndInv /\ [ArpNext]_arpVars => ArpIndInv'
  <2> SUFFICES ASSUME ArpIndInv, [ArpNext]_arpVars
               PROVE  ArpIndInv'
    OBVIOUS
  <2>1. CASE UNCHANGED arpVars
    BY <2>1, QuietThread DEF arpVars, ArpIndInv, ArpTypeOK, NoFutureAddress
  <2> QED
    BY <2>1, ArpCommandStep, ResolveHitStep, ResolveCopyStep, ResolveMissStep, CommandEndsStep,
       ArpPacketStep, IPv4Step, NetworkStep, HostMovesStep
       DEF ArpNext, ArpThread, handle_ethernet_packet
<1> QED
  BY <1>1, <1>2, PTL DEF ArpSpec

(* For any number of hosts and cache entries, and whatever the network loses and reorders: *)
(* arp_cache_add never makes two entries for a host, and keeps in the one it has what the  *)
(* host last announced, unless the cache was full when the host was first heard.           *)
THEOREM ArpInvInvariant == ArpSpec => []ArpInv
<1>1. ArpIndInv => ArpInv
  <2> SUFFICES ASSUME ArpIndInv
               PROVE  ArpInv
    OBVIOUS
  <2>1. OneEntryEach
    <3> SUFFICES ASSUME NEW h \in Hosts
                 PROVE  Cardinality(Active(h)) <= 1
      BY DEF OneEntryEach
    <3>1. CASE Active(h) = {}
      BY <3>1, FS_EmptySet
    <3>2. CASE Active(h) # {}
      <4>1. PICK s \in Slot : arp_cache[s] # Inactive /\ arp_cache[s][1] = h
        BY <3>2 DEF Active
      <4>2. Active(h) = {s}
        BY <4>1, TheSlot DEF ArpIndInv
      <4> QED
        BY <4>2, FS_Singleton
    <3> QED
      BY <3>1, <3>2
  <2> QED
    BY <2>1 DEF ArpIndInv, ArpInv
<1> QED
  BY <1>1, ArpIndInvInvariant, PTL

(* The address that net_ping or net_udp_send sends to is the target's, both halves of it,  *)
(* although the receive interrupt may write to the cache in the middle of the copy.         *)
THEOREM AddressedToTargetInvariant == ArpSpec => []AddressedToTarget
<1>1. ArpIndInv => AddressedToTarget
  <2> SUFFICES ASSUME ArpIndInv, apc = "send", dest[1] # Broadcast
               PROVE  /\ \A k \in {1, 2} : dest[k][1] = target /\ dest[k][2] <= mac[target]
                      /\ dest[1] # dest[2] => mac[target] > 0
    BY DEF AddressedToTarget
  <2>1. PICK m, n \in Mac : dest = <<m, n>> /\ OfTarget(m) /\ OfTarget(n)
    BY DEF ArpIndInv, ThreadSound
  <2>2. /\ dest[1] = m /\ dest[2] = n /\ m[1] = target /\ n[1] = target
        /\ m[2] <= mac[target] /\ n[2] <= mac[target]
    BY <2>1 DEF OfTarget, Past
  <2>3. /\ m = <<m[1], m[2]>> /\ n = <<n[1], n[2]>> /\ m[2] \in Nat /\ n[2] \in Nat
        /\ target \in Hosts
    BY <2>2, MacIsActive, ArpAssumption
  <2>4. mac[target] \in Nat
    BY <2>3, ArpAssumption DEF ArpIndInv, ArpTypeOK
  <2>5. mac[target] = 0 => m[2] = n[2]
    BY <2>2, <2>3, <2>4
  <2>6. m # n => mac[target] > 0
    BY <2>2, <2>3, <2>4, <2>5
  <2> QED
    BY <2>2, <2>6
<1> QED
  BY <1>1, ArpIndInvInvariant, PTL
-----------------------------------------------------------------------------
(* The TCP responder. *)

\* The numbers of a connection: of its piece n, and of its FIN
Number(c, n) == Plus(isn[c], 1 + n * DataLen)
FinNumber(c) == Plus(isn[c], MaxItems * DataLen + 1)

Before(c, n) == \A k \in 0 .. (n - 1) : IsPrinted(c, k)

\* Segments under way are of the kinds that the client sends: a client that waits for its
\* acknowledgements sends data when all that precedes it has been printed.
SegmentSound(s) ==
  \/ s.flags = {"SYN"} /\ s.len = 0 /\ s.seq = isn[s.port]
  \/ s.flags = {"ACK"} /\ s.len = 0
  \/ /\ s.flags = {"PSH", "ACK"} /\ s.len = DataLen
     /\ s.item < MaxItems /\ s.seq = Number(s.port, s.item)
     /\ StopAndWait => Before(s.port, s.item)
  \/ s.flags = {"FIN", "ACK"} /\ s.len = 0 /\ s.seq = FinNumber(s.port)

\* An answer: what AcksFollowPrints says of it.  Whose it is, its port does not tell.
ReplySound(r) ==
  \/ "SYN" \in r.flags
  \/ "FIN" \in r.flags /\ \E c \in Conns : r.ack = BehindFin(c)
  \/ \E c \in Conns, n \in 0 .. (MaxItems - 1) : r.ack = Behind(c, n) /\ IsPrinted(c, n)

\* Before the first SYN has come there is nothing but SYNs.
Fresh ==
  IF tcp_seq = 1000
    THEN /\ cstate \in {"closed", "syn_sent"} /\ toClient = {}
         /\ \A s \in toServer : s.flags = {"SYN"}
    ELSE tcp_remote_port \in Conns

ClientSound ==
  /\ cstate # "closed" => conn \in Conns
  /\ cstate # "closed" /\ StopAndWait => Before(conn, item)
  /\ cstate = "syn_sent" => item = 0
  /\ cstate = "established" => item < MaxItems

TcpIndInv ==
  /\ TcpTypeOK /\ ClientSound /\ Fresh /\ LastAckedIsPrinted /\ PrintedWithoutGaps
  /\ \A s \in toServer : SegmentSound(s)
  /\ \A r \in toClient : ReplySound(r)

LEMMA TcpConstants ==
  /\ SeqMod \in Nat /\ SeqMod >= 1 /\ MaxItems \in Nat /\ DataLen \in Nat /\ DataLen >= 1
  /\ MaxItems * DataLen \in Nat /\ MaxFlight \in Nat /\ MaxLosses \in Nat /\ MaxWindow \in Nat
  /\ \A c \in Conns : c \in Nat /\ c >= 1
<1>1. /\ SeqMod \in Nat \ {0} /\ MaxItems \in Nat /\ DataLen \in Nat \ {0}
      /\ MaxFlight \in Nat /\ MaxLosses \in Nat /\ MaxWindow \in Nat
      /\ Conns = 1 .. Cardinality(Conns)
  BY TcpAssumption
<1>2. MaxItems * DataLen \in Nat
  BY <1>1
<1>3. \A c \in Conns : c \in Nat /\ c >= 1
  <2> SUFFICES ASSUME NEW c \in 1 .. Cardinality(Conns)
               PROVE  c \in Nat /\ c >= 1
    BY <1>1
  <2> QED
    OBVIOUS
<1> QED
  BY <1>1, <1>2, <1>3

LEMMA IsnInWord ==
  ASSUME TcpTypeOK
  PROVE  \A c \in Conns : isn[c] \in 0 .. (SeqMod - 1) /\ isn[c] \in Nat
<1>1. isn \in [Conns -> 0 .. (SeqMod - 1)]
  BY TcpAssumption DEF TcpTypeOK
<1> QED
  BY <1>1

LEMMA Division ==
  ASSUME NEW x \in Nat, NEW M \in Nat, M >= 1
  PROVE  x = (x \div M) * M + (x % M) /\ x % M \in 0 .. (M - 1) /\ x \div M \in Int
OBVIOUS

\* A number has one remainder.
LEMMA OneRemainder ==
  ASSUME NEW M \in Nat, NEW p \in Int, NEW q \in Int,
         NEW r \in 0 .. (M - 1), NEW t \in 0 .. (M - 1), p * M + r = q * M + t
  PROVE  r = t
<1>1. CASE p < q
  <2>1. (q - p) * M >= M
    <3>1. q - p \in Nat /\ q - p >= 1
      BY <1>1
    <3> QED
      BY <3>1
  <2>2. (q - p) * M = r - t
    OBVIOUS
  <2> QED
    BY <2>1, <2>2
<1>2. CASE p > q
  <2>1. (p - q) * M >= M
    <3>1. p - q \in Nat /\ p - q >= 1
      BY <1>2
    <3> QED
      BY <3>1
  <2>2. (p - q) * M = t - r
    OBVIOUS
  <2> QED
    BY <2>1, <2>2
<1>3. CASE p = q
  BY <1>3
<1> QED
  BY <1>1, <1>2, <1>3

LEMMA PlusTwice ==
  ASSUME NEW a \in Nat, NEW b \in Nat, NEW c \in Nat
  PROVE  Plus(Plus(a, b), c) = Plus(a, b + c) /\ Plus(a, b) \in 0 .. (SeqMod - 1)
<1> DEFINE M == SeqMod
           r == (a + b) % M
           p == (a + b) \div M
           t == (r + c) % M
           q == (r + c) \div M
           u == (a + (b + c)) % M
           v == (a + (b + c)) \div M
<1>1. M \in Nat /\ M >= 1
  BY TcpConstants
<1> HIDE DEF M
<1>2. a + b = p * M + r /\ r \in 0 .. (M - 1) /\ p \in Int
  BY <1>1, Division
<1>3. r + c = q * M + t /\ t \in 0 .. (M - 1) /\ q \in Int
  <2>1. r + c \in Nat
    BY <1>2
  <2> HIDE DEF r
  <2> QED
    BY <1>1, <2>1, Division
<1>4. a + (b + c) = v * M + u /\ u \in 0 .. (M - 1) /\ v \in Int
  BY <1>1, Division
<1> HIDE DEF r, p, t, q, u, v
<1>5. (p + q) * M + t = v * M + u
  <2>1. (p + q) * M = p * M + q * M
    BY <1>1, <1>2, <1>3
  <2>2. p * M \in Int /\ q * M \in Int /\ v * M \in Int
    BY <1>1, <1>2, <1>3, <1>4
  <2> QED
    BY <1>2, <1>3, <1>4, <2>1, <2>2
<1>6. t = u
  <2>1. p + q \in Int
    BY <1>2, <1>3
  <2> QED
    BY <1>1, <1>3, <1>4, <1>5, <2>1, OneRemainder
<1> QED
  BY <1>2, <1>6 DEF Plus, M, r, t, u

LEMMA ItemSpan ==
  ASSUME NEW n \in 0 .. MaxItems
  PROVE  n * DataLen \in 0 .. (MaxItems * DataLen) /\ (n + 1) * DataLen = n * DataLen + DataLen
<1>1. n * DataLen \in Nat /\ (MaxItems - n) * DataLen \in Nat
  BY TcpConstants
<1>2. MaxItems * DataLen = n * DataLen + (MaxItems - n) * DataLen
  BY TcpConstants
<1>3. (n + 1) * DataLen = n * DataLen + DataLen
  BY TcpConstants
<1> QED
  BY <1>1, <1>2, <1>3, TcpConstants

\* The numbers that are sent, and what they are answered with
LEMMA NumberFacts ==
  ASSUME TcpTypeOK, NEW c \in Conns
  PROVE  /\ Plus(isn[c], 1) \in 0 .. (SeqMod - 1)
         /\ \A n \in 0 .. MaxItems : Number(c, n) \in 0 .. (SeqMod - 1)
         /\ \A n \in 0 .. (MaxItems - 1) : Plus(Number(c, n), DataLen) = Number(c, n + 1)
         /\ FinNumber(c) \in 0 .. (SeqMod - 1)
         /\ Plus(FinNumber(c), 1) = BehindFin(c)
         /\ Plus(FinNumber(c), 1) \in 0 .. (SeqMod - 1)
<1>1. isn[c] \in Nat
  BY IsnInWord
<1>2. Plus(isn[c], 1) \in 0 .. (SeqMod - 1)
  BY <1>1, PlusTwice
<1>3. ASSUME NEW n \in 0 .. MaxItems
      PROVE  Number(c, n) \in 0 .. (SeqMod - 1)
  <2>1. 1 + n * DataLen \in Nat
    BY ItemSpan, TcpConstants
  <2> QED
    BY <1>1, <2>1, PlusTwice DEF Number
<1>4. ASSUME NEW n \in 0 .. (MaxItems - 1)
      PROVE  Plus(Number(c, n), DataLen) = Number(c, n + 1)
  <2>1. n \in 0 .. MaxItems
    BY TcpConstants
  <2>2. 1 + n * DataLen \in Nat /\ DataLen \in Nat
    BY <2>1, ItemSpan, TcpConstants
  <2>3. (1 + n * DataLen) + DataLen = 1 + (n + 1) * DataLen
    BY <2>1, <2>2, ItemSpan
  <2>4. Plus(Plus(isn[c], 1 + n * DataLen), DataLen) = Plus(isn[c], (1 + n * DataLen) + DataLen)
    BY <1>1, <2>2, PlusTwice
  <2> QED
    BY <1>1, <2>4, <2>3 DEF Number
<1>5. /\ FinNumber(c) \in 0 .. (SeqMod - 1)
      /\ Plus(FinNumber(c), 1) = Plus(isn[c], MaxItems * DataLen + 2)
      /\ Plus(isn[c], MaxItems * DataLen + 2) \in 0 .. (SeqMod - 1)
  <2>1. MaxItems * DataLen \in Nat
    BY TcpConstants
  <2> DEFINE x == MaxItems * DataLen
  <2> HIDE DEF x
  <2>2. x \in Nat
    BY <2>1 DEF x
  <2>3. x + 1 \in Nat /\ x + 2 \in Nat /\ (x + 1) + 1 = x + 2
    BY <2>2
  <2>4. /\ Plus(isn[c], x + 1) \in 0 .. (SeqMod - 1)
        /\ Plus(Plus(isn[c], x + 1), 1) = Plus(isn[c], (x + 1) + 1)
    BY <1>1, <2>3, PlusTwice
  <2>5. Plus(isn[c], x + 2) \in 0 .. (SeqMod - 1)
    BY <1>1, <2>3, PlusTwice
  <2> QED
    BY <2>3, <2>4, <2>5 DEF x, FinNumber
<1> QED
  BY <1>2, <1>3, <1>4, <1>5 DEF BehindFin

\* The number behind a piece tells its connection and the piece.
LEMMA AckTellsItem ==
  ASSUME NumbersApart, NEW c \in Conns, NEW d \in Conns,
         NEW n \in 0 .. (MaxItems - 1), NEW k \in 0 .. (MaxItems - 1)
  PROVE  /\ Behind(c, n) = Behind(d, k) => c = d /\ n = k
         /\ BehindFin(c) # Behind(d, k)
<1>2. MaxItems \in Nat /\ DataLen \in Nat /\ DataLen >= 1 /\ MaxItems * DataLen \in Nat
  BY TcpConstants
<1>3. n + 1 \in 0 .. MaxItems /\ k + 1 \in 0 .. MaxItems
  BY <1>2
<1>4. /\ (n + 1) * DataLen \in 0 .. (MaxItems * DataLen)
      /\ (k + 1) * DataLen \in 0 .. (MaxItems * DataLen)
  BY <1>3, ItemSpan
<1> DEFINE x == (n + 1) * DataLen
           y == (k + 1) * DataLen
           z == MaxItems * DataLen
<1>5. x = y => n = k
  <2>1. CASE n < k
    <3>1. k - n \in Nat /\ k - n >= 1
      BY <2>1
    <3>2. (k - n) * DataLen >= DataLen
      BY <1>2, <3>1
    <3>3. y = x + (k - n) * DataLen
      BY <1>2
    <3> HIDE DEF x, y
    <3> QED
      BY <1>2, <1>4, <3>2, <3>3 DEF x, y
  <2>2. CASE k < n
    <3>1. n - k \in Nat /\ n - k >= 1
      BY <2>2
    <3>2. (n - k) * DataLen >= DataLen
      BY <1>2, <3>1
    <3>3. x = y + (n - k) * DataLen
      BY <1>2
    <3> QED
      BY <1>2, <1>4, <3>2, <3>3
  <2> QED
    BY <2>1, <2>2
<1> HIDE DEF x, y, z
<1>6. x \in 0 .. z /\ y \in 0 .. z /\ z \in Nat
  BY <1>2, <1>4 DEF x, y, z
<1>7. 1 + x \in 0 .. (z + 2) /\ 1 + y \in 0 .. (z + 2) /\ z + 2 \in 0 .. (z + 2)
  BY <1>6
<1>8. \A j, l \in 0 .. (z + 2) : /\ Plus(isn[c], j) = Plus(isn[d], l) => c = d /\ j = l
  BY DEF NumbersApart, z
<1>9. Plus(isn[c], 1 + x) = Plus(isn[d], 1 + y) => c = d /\ n = k
  BY <1>5, <1>6, <1>7, <1>8
<1>10. Plus(isn[c], z + 2) # Plus(isn[d], 1 + y)
  BY <1>6, <1>7, <1>8
<1> QED
  BY <1>9, <1>10 DEF Behind, BehindFin, x, y, z

LEMMA TcpInitInv ==
  ASSUME TcpInit
  PROVE  TcpIndInv
<1>1. TcpTypeOK
  BY TcpConstants DEF TcpInit, TcpTypeOK
<1>2. ClientSound /\ Fresh /\ PrintedWithoutGaps /\ LastAckedIsPrinted
  BY DEF TcpInit, ClientSound, Fresh, PrintedWithoutGaps, LastAckedIsPrinted
<1> QED
  BY <1>1, <1>2 DEF TcpInit, TcpIndInv

\* What is said of segments and answers by what has been printed stays true as more is.
LEMMA MorePrinted ==
  ASSUME printed \subseteq printed', UNCHANGED <<isn, window>>
  PROVE  /\ NumbersApart' = NumbersApart /\ StopAndWait' = StopAndWait
         /\ \A c, n : IsPrinted(c, n) => IsPrinted(c, n)'
         /\ \A c, n : Before(c, n) => Before(c, n)'
         /\ \A s : SegmentSound(s) => SegmentSound(s)'
         /\ \A r : ReplySound(r) => ReplySound(r)'
<1>1. NumbersApart' = NumbersApart /\ StopAndWait' = StopAndWait
  BY DEF StopAndWait, NumbersApart
<1>2. \A c, n : IsPrinted(c, n) => IsPrinted(c, n)'
  BY DEF IsPrinted
<1>3. \A c, n : Before(c, n) => Before(c, n)'
  BY <1>2 DEF Before
<1>4. \A c, n : /\ Number(c, n)' = Number(c, n) /\ FinNumber(c)' = FinNumber(c)
                /\ Behind(c, n)' = Behind(c, n) /\ BehindFin(c)' = BehindFin(c)
  BY DEF Number, FinNumber, Behind, BehindFin
<1>5. \A s : SegmentSound(s) => SegmentSound(s)'
  BY <1>1, <1>3, <1>4 DEF SegmentSound
<1>6. \A r : ReplySound(r) => ReplySound(r)'
  BY <1>2, <1>4 DEF ReplySound
<1> QED
  BY <1>1, <1>2, <1>3, <1>5, <1>6

\* What handle_tcp_packet makes of a segment, by its kind
LEMMA SegmentHandled ==
  ASSUME TcpIndInv, NEW s \in toServer
  PROVE  /\ s \in Segment
         /\ NewState(s) \in {"CLOSED", "LISTEN", "SYN_RCVD", "ESTABLISHED"}
         /\ NewAck(s) \in 0 .. (SeqMod - 1)
         /\ ~IsSyn(s) => tcp_seq = ServerIsn + 1 /\ tcp_remote_port \in Conns
         /\ Answers(s) \subseteq Reply
         /\ Delivers(s) => /\ s.item < MaxItems /\ s.len = DataLen
                           /\ StopAndWait => Before(s.port, s.item)
         /\ \A r \in Answers(s) :
              \/ "SYN" \in r.flags
              \/ "FIN" \in r.flags /\ r.ack = BehindFin(s.port)
              \/ Delivers(s) /\ r.ack = Behind(s.port, s.item)
<1>1. s \in Segment /\ SegmentSound(s) /\ TcpTypeOK
  BY DEF TcpIndInv, TcpTypeOK
<1>2. s.port \in Conns /\ s.item \in 0 .. MaxItems
  BY <1>1 DEF Segment
<1>3. /\ Plus(isn[s.port], 1) \in 0 .. (SeqMod - 1)
      /\ \A n \in 0 .. MaxItems : Number(s.port, n) \in 0 .. (SeqMod - 1)
      /\ \A n \in 0 .. (MaxItems - 1) : Plus(Number(s.port, n), DataLen) = Number(s.port, n + 1)
      /\ Plus(FinNumber(s.port), 1) = BehindFin(s.port)
      /\ Plus(FinNumber(s.port), 1) \in 0 .. (SeqMod - 1)
  BY <1>1, <1>2, NumberFacts
<1>4. ASSUME s.flags # {"SYN"}
      PROVE  tcp_seq = ServerIsn + 1 /\ tcp_remote_port \in Conns
  BY <1>1, <1>4 DEF TcpIndInv, TcpTypeOK, Fresh, ServerIsn
<1>5. tcp_ack \in 0 .. (SeqMod - 1) /\ tcp_state \in {"CLOSED", "LISTEN", "SYN_RCVD", "ESTABLISHED"}
  BY <1>1 DEF TcpTypeOK
<1>6. CASE s.flags = {"SYN"} /\ s.len = 0 /\ s.seq = isn[s.port]
  <2>1. IsSyn(s) /\ ~Establishes(s) /\ ~Delivers(s) /\ ~IsFin(s)
    BY <1>6 DEF IsSyn, Establishes, Delivers, IsFin
  <2> DEFINE r == [port |-> s.port, flags |-> {"SYN", "ACK"}, seq |-> ServerIsn,
                   ack |-> Plus(isn[s.port], 1)]
  <2>2. r \in Reply /\ "SYN" \in r.flags
    BY <1>2, <1>3 DEF Reply, Flag
  <2>3. Answers(s) = {r}
    BY <1>6, <2>1 DEF Answers, Out, AckOfBranch
  <2>4. NewState(s) = "SYN_RCVD" /\ NewAck(s) = Plus(isn[s.port], 1)
    BY <1>6, <2>1 DEF NewState, NewAck, AckOfBranch
  <2> HIDE DEF r
  <2> QED
    BY <1>1, <1>3, <2>1, <2>2, <2>3, <2>4
<1>7. CASE s.flags = {"ACK"} /\ s.len = 0
  <2>1. ~IsSyn(s) /\ ~Delivers(s) /\ ~IsFin(s) /\ s.flags # {"SYN"}
    BY <1>7 DEF IsSyn, Delivers, IsFin
  <2>2. Answers(s) = {} /\ NewAck(s) = tcp_ack
    BY <2>1 DEF Answers, NewAck
  <2>3. NewState(s) \in {"ESTABLISHED", tcp_state}
    BY <2>1 DEF NewState
  <2> QED
    BY <1>1, <1>4, <1>5, <2>1, <2>2, <2>3
<1>8. CASE /\ s.flags = {"PSH", "ACK"} /\ s.len = DataLen
           /\ s.item < MaxItems /\ s.seq = Number(s.port, s.item)
           /\ StopAndWait => Before(s.port, s.item)
  <2>1. ~IsSyn(s) /\ ~IsFin(s) /\ s.flags # {"SYN"}
    BY <1>8 DEF IsSyn, IsFin
  <2>2. s.item \in 0 .. (MaxItems - 1) /\ s.item + 1 \in 0 .. MaxItems
    BY <1>2, <1>8, TcpConstants
  <2>3. AckOfBranch(s) = Behind(s.port, s.item) /\ AckOfBranch(s) \in 0 .. (SeqMod - 1)
    <3>1. Behind(s.port, s.item) = Number(s.port, s.item + 1)
      BY DEF Behind, Number
    <3> QED
      BY <1>3, <1>8, <2>1, <2>2, <3>1 DEF AckOfBranch
  <2>4. NewAck(s) \in {tcp_ack, AckOfBranch(s)} /\ NewState(s) \in {"ESTABLISHED", tcp_state}
    BY <2>1 DEF NewAck, NewState
  <2> DEFINE r == [port |-> tcp_remote_port, flags |-> {"ACK"}, seq |-> tcp_seq,
                   ack |-> AckOfBranch(s)]
  <2>5. Answers(s) = IF Delivers(s) THEN {r} ELSE {}
    BY <2>1 DEF Answers, Out
  <2>6. r \in Reply /\ r.ack = Behind(s.port, s.item)
    BY <1>4, <2>1, <2>3 DEF Reply, Flag
  <2> HIDE DEF r
  <2> QED
    BY <1>1, <1>4, <1>5, <1>8, <2>1, <2>3, <2>4, <2>5, <2>6
<1>9. CASE s.flags = {"FIN", "ACK"} /\ s.len = 0 /\ s.seq = FinNumber(s.port)
  <2>1. ~IsSyn(s) /\ ~Delivers(s) /\ IsFin(s) /\ s.flags # {"SYN"}
    <3>1. "FIN" \in s.flags /\ "SYN" \notin s.flags
      BY <1>9
    <3> QED
      BY <1>9, <3>1 DEF IsSyn, Delivers, IsFin
  <2> DEFINE r == [port |-> tcp_remote_port, flags |-> {"FIN", "ACK"}, seq |-> tcp_seq,
                   ack |-> Plus(s.seq, 1)]
  <2>2. Answers(s) = {r}
    BY <2>1 DEF Answers, Out
  <2>3. r \in Reply /\ r.ack = BehindFin(s.port) /\ "FIN" \in r.flags
    BY <1>3, <1>4, <1>9, <2>1 DEF Reply, Flag
  <2>4. NewAck(s) = Plus(s.seq, 1) /\ NewState(s) = "CLOSED"
    BY <2>1 DEF NewAck, NewState
  <2> HIDE DEF r
  <2> QED
    BY <1>1, <1>3, <1>4, <1>9, <2>1, <2>2, <2>3, <2>4
<1> QED
  BY <1>1, <1>6, <1>7, <1>8, <1>9 DEF SegmentSound

LEMMA TcpPacketStep ==
  ASSUME TcpIndInv, handle_tcp_packet
  PROVE  TcpIndInv'
<1>1. PICK s \in toServer :
         /\ tcp_state' = NewState(s)
         /\ tcp_remote_port' = (IF IsSyn(s) THEN s.port ELSE tcp_remote_port)
         /\ tcp_seq' = (IF IsSyn(s) THEN ServerIsn + 1 ELSE tcp_seq)
         /\ tcp_ack' = NewAck(s)
         /\ printed' = (IF Delivers(s) THEN printed \cup Prints(s) ELSE printed)
         /\ toServer' = toServer \ {s}
         /\ toClient' = toClient \cup Answers(s)
         /\ UNCHANGED <<cstate, conn, item, isn, window, losses>>
  BY DEF handle_tcp_packet, client, chosen
<1>2. /\ s \in Segment
      /\ NewState(s) \in {"CLOSED", "LISTEN", "SYN_RCVD", "ESTABLISHED"}
      /\ NewAck(s) \in 0 .. (SeqMod - 1)
      /\ (~IsSyn(s) => tcp_seq = ServerIsn + 1 /\ tcp_remote_port \in Conns)
      /\ Answers(s) \subseteq Reply
      /\ (Delivers(s) => /\ s.item < MaxItems /\ s.len = DataLen
                         /\ (StopAndWait => Before(s.port, s.item)))
      /\ \A r \in Answers(s) :
           \/ "SYN" \in r.flags
           \/ "FIN" \in r.flags /\ r.ack = BehindFin(s.port)
           \/ Delivers(s) /\ r.ack = Behind(s.port, s.item)
  BY SegmentHandled
<1>3. s.port \in Conns /\ s.item \in 0 .. MaxItems
  BY <1>2 DEF Segment
<1>4. printed \subseteq printed' /\ (Delivers(s) => IsPrinted(s.port, s.item)')
  BY <1>1, <1>2 DEF IsPrinted, Prints
<1>5. /\ NumbersApart' = NumbersApart /\ StopAndWait' = StopAndWait
      /\ \A c, n : IsPrinted(c, n) => IsPrinted(c, n)'
      /\ \A c, n : Before(c, n) => Before(c, n)'
      /\ \A x : SegmentSound(x) => SegmentSound(x)'
      /\ \A r : ReplySound(r) => ReplySound(r)'
  BY <1>1, <1>4, MorePrinted
<1>6. TcpTypeOK'
  <2>1. printed' \subseteq Conns \X (0 .. MaxItems) \X (0 .. (DataLen - 1))
    <3>1. Delivers(s) => Prints(s) \subseteq Conns \X (0 .. MaxItems) \X (0 .. (DataLen - 1))
      BY <1>2, <1>3 DEF Prints, Shown
    <3> QED
      BY <1>1, <3>1 DEF TcpIndInv, TcpTypeOK
  <2>2. toServer' \subseteq Segment /\ toClient' \subseteq Reply
    BY <1>1, <1>2 DEF TcpIndInv, TcpTypeOK
  <2> QED
    BY <1>1, <1>2, <1>3, <2>1, <2>2 DEF TcpIndInv, TcpTypeOK
<1>7. ClientSound'
  <2>1. Before(conn, item) => Before(conn, item)'
    BY <1>1, <1>4 DEF Before, IsPrinted
  <2> QED
    BY <1>1, <1>5, <2>1 DEF TcpIndInv, ClientSound
<1>8. Fresh'
  <2>1. tcp_seq' = ServerIsn + 1 /\ tcp_remote_port' \in Conns
    BY <1>1, <1>2, <1>3
  <2> QED
    BY <2>1 DEF Fresh, ServerIsn
<1>9. LastAckedIsPrinted'
  <2>1. IsPrinted(conn, item - 1) => IsPrinted(conn, item - 1)'
    BY <1>1, <1>5 DEF IsPrinted
  <2> QED
    BY <1>1, <1>5, <2>1 DEF TcpIndInv, LastAckedIsPrinted
<1>10. PrintedWithoutGaps'
  <2> SUFFICES ASSUME StopAndWait, NEW p \in printed', NEW n \in 0 .. (p[2] - 1)
               PROVE  IsPrinted(p[1], n)'
    BY <1>5 DEF PrintedWithoutGaps
  <2>1. CASE p \in printed
    BY <2>1, <1>5 DEF TcpIndInv, PrintedWithoutGaps
  <2>2. CASE Delivers(s) /\ p \in Prints(s)
    <3>1. p[1] = s.port /\ p[2] = s.item
      BY <2>2 DEF Prints
    <3>2. IsPrinted(s.port, n)
      BY <1>2, <2>2, <3>1 DEF Before
    <3> QED
      BY <1>5, <3>1, <3>2
  <2> QED
    BY <1>1, <2>1, <2>2
<1>11. \A x \in toServer' : SegmentSound(x)'
  BY <1>1, <1>5 DEF TcpIndInv
<1>12. \A r \in toClient' : ReplySound(r)'
  <2> SUFFICES ASSUME NEW r \in toClient'
               PROVE  ReplySound(r)'
    OBVIOUS
  <2>1. CASE r \in toClient
    BY <2>1, <1>5 DEF TcpIndInv
  <2>2. CASE r \in Answers(s)
    <3>0. Behind(s.port, s.item)' = Behind(s.port, s.item) /\ BehindFin(s.port)' = BehindFin(s.port)
      BY <1>1 DEF Behind, BehindFin
    <3>1. CASE Delivers(s) /\ r.ack = Behind(s.port, s.item)
      <4>1. s.item \in 0 .. (MaxItems - 1)
        BY <1>2, <1>3, <3>1, TcpConstants
      <4>2. Behind(s.port, s.item)' = Behind(s.port, s.item)
        BY <3>0
      <4> QED
        BY <1>3, <1>4, <3>1, <4>1, <4>2 DEF ReplySound
    <3>2. CASE "SYN" \in r.flags \/ ("FIN" \in r.flags /\ r.ack = BehindFin(s.port))
      BY <3>0, <3>2, <1>3 DEF ReplySound
    <3> QED
      BY <2>2, <1>2, <3>1, <3>2
  <2> QED
    BY <1>1, <2>1, <2>2
<1> QED
  BY <1>6, <1>7, <1>8, <1>9, <1>10, <1>11, <1>12 DEF TcpIndInv

\* The segments of the client are of their kinds.
LEMMA ClientSegments ==
  ASSUME TcpIndInv, cstate # "closed"
  PROVE  /\ Current \cup BareAck \subseteq Segment
         /\ \A s \in Current \cup BareAck : SegmentSound(s)
         /\ cstate = "syn_sent" => \A s \in Current : s.flags = {"SYN"}
<1>1. /\ TcpTypeOK /\ conn \in Conns /\ (StopAndWait => Before(conn, item))
      /\ item \in 0 .. MaxItems /\ 0 \in 0 .. MaxItems /\ MaxItems \in 0 .. MaxItems
      /\ DataLen \in {0, DataLen} /\ isn[conn] \in 0 .. (SeqMod - 1)
  BY TcpConstants, IsnInWord DEF TcpIndInv, ClientSound, TcpTypeOK
<1>2. \A n \in 0 .. MaxItems : NumberOf(n) = Number(conn, n) /\ NumberOf(n) \in 0 .. (SeqMod - 1)
  BY <1>1, NumberFacts DEF NumberOf, Number
<1>3. NumberOf(MaxItems) = FinNumber(conn)
  <2>1. 1 + MaxItems * DataLen = MaxItems * DataLen + 1
    BY TcpConstants
  <2> QED
    BY <2>1 DEF NumberOf, FinNumber
<1>4. /\ BareAck \subseteq Segment /\ \A s \in BareAck : SegmentSound(s)
  BY <1>1, <1>2 DEF BareAck, Sent, Segment, Flag, SegmentSound
<1>5. CASE cstate = "syn_sent"
  <2>1. Current = Sent({"SYN"}, isn[conn], 0, 0)
    BY <1>5 DEF Current
  <2>2. /\ Current \subseteq Segment /\ \A s \in Current : SegmentSound(s) /\ s.flags = {"SYN"}
    BY <1>1, <2>1 DEF Sent, Segment, Flag, SegmentSound
  <2> QED
    BY <1>4, <2>2
<1>6. CASE cstate = "established"
  <2> SUFFICES ASSUME NEW s \in Current
               PROVE  s \in Segment /\ SegmentSound(s)
    BY <1>4, <1>6
  <2>1. PICK n \in Window : s \in Sent({"PSH", "ACK"}, NumberOf(n), n, DataLen)
    BY <1>6 DEF Current
  <2>2. n \in 0 .. MaxItems /\ n < MaxItems /\ (window = 1 => n = item)
    BY <1>1, <2>1, TcpConstants DEF Window
  <2>3. StopAndWait => Before(conn, n)
    BY <1>1, <2>2 DEF StopAndWait
  <2>4. NumberOf(n) = Number(conn, n) /\ NumberOf(n) \in 0 .. (SeqMod - 1)
    BY <1>2, <2>2
  <2>5. s = [port |-> conn, flags |-> {"PSH", "ACK"}, seq |-> NumberOf(n), item |-> n,
             len |-> DataLen]
    BY <2>1 DEF Sent
  <2> QED
    BY <1>1, <2>2, <2>3, <2>4, <2>5 DEF Segment, Flag, SegmentSound
<1>7. CASE cstate = "fin_wait"
  <2>1. Current = Sent({"FIN", "ACK"}, NumberOf(MaxItems), MaxItems, 0)
    BY <1>7 DEF Current
  <2>2. /\ Current \subseteq Segment /\ \A s \in Current : SegmentSound(s)
    BY <1>1, <1>2, <1>3, <2>1 DEF Sent, Segment, Flag, SegmentSound
  <2> QED
    BY <1>4, <1>7, <2>2
<1>8. CASE cstate = "done"
  <2>1. Current = {}
    BY <1>8 DEF Current
  <2> QED
    BY <1>4, <1>8, <2>1
<1> QED
  BY <1>5, <1>6, <1>7, <1>8 DEF TcpIndInv, TcpTypeOK

\* A step of the client and the network: what the responder has done stays.
LEMMA ClientFrame ==
  ASSUME TcpIndInv, UNCHANGED <<server, isn, window, printed>>, TcpTypeOK', ClientSound', Fresh',
         LastAckedIsPrinted',
         \A s \in toServer' : s \in toServer \/ SegmentSound(s), toClient' \subseteq toClient
  PROVE  TcpIndInv'
<1>1. /\ StopAndWait' = StopAndWait
      /\ \A c, n : IsPrinted(c, n) => IsPrinted(c, n)'
      /\ \A s : SegmentSound(s) => SegmentSound(s)'
      /\ \A r : ReplySound(r) => ReplySound(r)'
  BY MorePrinted
<1>2. PrintedWithoutGaps'
  BY <1>1 DEF TcpIndInv, PrintedWithoutGaps
<1> QED
  BY <1>1, <1>2 DEF TcpIndInv

\* The client stays where it is in its data, or has given it up.
LEMMA ClientStays ==
  ASSUME TcpIndInv, UNCHANGED <<conn, item, isn, window, printed>>, cstate' \in {cstate, "closed"}
  PROVE  ClientSound' /\ LastAckedIsPrinted'
<1>1. /\ NumbersApart' = NumbersApart /\ StopAndWait' = StopAndWait
  BY MorePrinted
<1>2. ClientSound'
  BY <1>1 DEF TcpIndInv, ClientSound, Before, IsPrinted
<1>3. LastAckedIsPrinted'
  BY <1>1 DEF TcpIndInv, LastAckedIsPrinted, IsPrinted
<1> QED
  BY <1>2, <1>3

LEMMA ConnectStep ==
  ASSUME TcpIndInv, Connect
  PROVE  TcpIndInv'
<1>1. /\ cstate = "closed" /\ conn + 1 \in Conns /\ cstate' = "syn_sent" /\ conn' = conn + 1
      /\ item' = 0
      /\ UNCHANGED <<server, tcp_state, tcp_remote_port, tcp_seq, tcp_ack, isn, window, toServer,
                     toClient, losses, printed>>
  BY DEF Connect, server, chosen
<1>2. TcpTypeOK'
  BY <1>1, TcpConstants DEF TcpIndInv, TcpTypeOK
<1>3. ClientSound' /\ LastAckedIsPrinted'
  BY <1>1 DEF ClientSound, Before, LastAckedIsPrinted
<1>4. Fresh'
  BY <1>1 DEF TcpIndInv, Fresh
<1> QED
  BY <1>1, <1>2, <1>3, <1>4, ClientFrame

LEMMA ClientSendStep ==
  ASSUME TcpIndInv, ClientSend
  PROVE  TcpIndInv'
<1>1. PICK s \in Current :
         /\ toServer' = toServer \cup {s}
         /\ UNCHANGED <<server, tcp_state, tcp_remote_port, tcp_seq, tcp_ack, cstate, conn, item,
                        isn, window, toClient, losses, printed>>
  BY DEF ClientSend, server, client, chosen
<1>2. cstate # "closed"
  BY <1>1 DEF Current
<1>3. s \in Segment /\ SegmentSound(s) /\ (cstate = "syn_sent" => s.flags = {"SYN"})
  BY <1>1, <1>2, ClientSegments
<1>4. TcpTypeOK'
  BY <1>1, <1>3 DEF TcpIndInv, TcpTypeOK
<1>5. ClientSound' /\ LastAckedIsPrinted'
  BY <1>1, ClientStays
<1>6. Fresh'
  BY <1>1, <1>2, <1>3 DEF TcpIndInv, Fresh
<1> QED
  BY <1>1, <1>3, <1>4, <1>5, <1>6, ClientFrame

LEMMA ClientReceiveStep ==
  ASSUME TcpIndInv, ClientReceive
  PROVE  TcpIndInv'
<1>1. PICK r \in toClient, n \in 0 .. MaxItems :
         /\ \/ cstate' = cstate /\ n = item
            \/ cstate = "syn_sent" /\ cstate' = AfterItem(n) /\ n = item
            \/ /\ cstate = "established" /\ cstate' = AfterItem(n) /\ "SYN" \notin r.flags
               /\ n - 1 \in Window /\ r.ack = NumberOf(n - 1 + 1)
            \/ cstate = "fin_wait" /\ cstate' = "done" /\ n = item
         /\ item' = n
         /\ \/ toServer' = toServer
            \/ cstate # "closed" /\ toServer' = toServer \cup BareAck
         /\ toClient' = toClient \ {r}
         /\ UNCHANGED <<server, tcp_state, tcp_remote_port, tcp_seq, tcp_ack, conn, isn, window,
                        losses, printed>>
  BY DEF ClientReceive, server, chosen
<1>2. tcp_seq # 1000
  BY <1>1 DEF TcpIndInv, Fresh
<1>3. toServer' \subseteq Segment /\ \A s \in toServer' : s \in toServer \/ SegmentSound(s)
  <2>1. CASE toServer' = toServer
    BY <2>1 DEF TcpIndInv, TcpTypeOK
  <2>2. CASE cstate # "closed" /\ toServer' = toServer \cup BareAck
    BY <2>2, ClientSegments DEF TcpIndInv, TcpTypeOK
  <2> QED
    BY <1>1, <2>1, <2>2
<1>4. /\ cstate \in {"closed", "syn_sent", "established", "fin_wait", "done"}
      /\ item \in 0 .. MaxItems /\ (cstate = "established" => item < MaxItems)
      /\ MaxItems \in Nat /\ (cstate = "syn_sent" => item = 0)
      /\ (cstate # "closed" => conn \in Conns)
  BY TcpConstants DEF TcpIndInv, TcpTypeOK, ClientSound
<1>5. n # item => /\ cstate = "established" /\ cstate' = AfterItem(n) /\ "SYN" \notin r.flags
                  /\ n - 1 \in Window /\ r.ack = NumberOf(n - 1 + 1)
  BY <1>1
<1>6. ASSUME NumbersApart, n # item
      PROVE  IsPrinted(conn, n - 1)
  <2>1. conn \in Conns /\ n - 1 \in 0 .. (MaxItems - 1)
    BY <1>4, <1>5, <1>6 DEF Window
  <2>2. r.ack = Behind(conn, n - 1)
    BY <1>5, <1>6 DEF NumberOf, Behind
  <2>3. ReplySound(r)
    BY DEF TcpIndInv
  <2>4. ~(\E c \in Conns : r.ack = BehindFin(c))
    BY <1>6, <2>1, <2>2, AckTellsItem
  <2>5. PICK c \in Conns, k \in 0 .. (MaxItems - 1) : r.ack = Behind(c, k) /\ IsPrinted(c, k)
    BY <1>5, <1>6, <2>3, <2>4 DEF ReplySound
  <2>6. c = conn /\ k = n - 1
    BY <1>6, <2>1, <2>2, <2>5, AckTellsItem
  <2> QED
    BY <2>5, <2>6
<1>7. /\ cstate' \in {"closed", "syn_sent", "established", "fin_wait", "done"}
      /\ (cstate' = "established" => n < MaxItems) /\ (cstate' = "syn_sent" => n = 0)
      /\ (cstate' # "closed" => cstate # "closed")
  BY <1>1, <1>4 DEF AfterItem
<1>8. TcpTypeOK'
  BY <1>1, <1>3, <1>7 DEF TcpIndInv, TcpTypeOK
<1>9. /\ NumbersApart' = NumbersApart /\ StopAndWait' = StopAndWait
      /\ \A c, k : IsPrinted(c, k) => IsPrinted(c, k)'
      /\ \A c, k : Before(c, k) => Before(c, k)'
  BY <1>1, MorePrinted
<1>10. LastAckedIsPrinted'
  <2> SUFFICES ASSUME NumbersApart, cstate # "closed", n > 0
               PROVE  IsPrinted(conn, n - 1)
    BY <1>1, <1>7, <1>9 DEF LastAckedIsPrinted, IsPrinted
  <2>1. CASE n = item
    BY <2>1 DEF TcpIndInv, LastAckedIsPrinted
  <2> QED
    BY <1>6, <2>1
<1>11. ClientSound'
  <2>1. ASSUME cstate # "closed", StopAndWait
        PROVE  Before(conn, n)
    <3>1. Before(conn, item)
      BY <2>1 DEF TcpIndInv, ClientSound
    <3>2. CASE n # item
      <4>1. n - 1 = item /\ IsPrinted(conn, n - 1)
        BY <1>4, <1>5, <1>6, <2>1, <3>2 DEF StopAndWait, Window
      <4> QED
        BY <1>4, <3>1, <4>1 DEF Before
    <3> QED
      BY <3>1, <3>2
  <2>2. cstate # "closed" /\ StopAndWait => Before(conn, item)'
    BY <1>1, <1>9, <2>1 DEF Before, IsPrinted
  <2> QED
    BY <1>1, <1>4, <1>7, <1>9, <2>2 DEF ClientSound
<1>12. Fresh'
  BY <1>1, <1>2 DEF TcpIndInv, Fresh
<1> QED
  BY <1>1, <1>3, <1>8, <1>10, <1>11, <1>12, ClientFrame

LEMMA CrashAndLoss ==
  ASSUME TcpIndInv, ClientCrash \/ TcpLose
  PROVE  TcpIndInv'
<1>1. /\ toServer' \subseteq toServer /\ toClient' \subseteq toClient
      /\ cstate' \in {cstate, "closed"} /\ losses' \in 0 .. MaxLosses
      /\ UNCHANGED <<server, tcp_state, tcp_remote_port, tcp_seq, tcp_ack, conn, item, isn, window,
                     printed>>
  BY TcpConstants DEF ClientCrash, TcpLose, server, client, chosen, TcpIndInv, TcpTypeOK
<1>2. TcpTypeOK'
  BY <1>1 DEF TcpIndInv, TcpTypeOK
<1>3. ClientSound' /\ LastAckedIsPrinted'
  BY <1>1, ClientStays
<1>4. Fresh'
  BY <1>1 DEF TcpIndInv, Fresh
<1> QED
  BY <1>1, <1>2, <1>3, <1>4, ClientFrame

\* The conjunction that TcpInv follows from holds in every state.
THEOREM TcpIndInvInvariant == TcpSpec => []TcpIndInv
<1>1. TcpInit => TcpIndInv
  BY TcpInitInv
<1>2. TcpIndInv /\ [TcpNext]_tcpVars => TcpIndInv'
  <2> SUFFICES ASSUME TcpIndInv, [TcpNext]_tcpVars
               PROVE  TcpIndInv'
    OBVIOUS
  <2>1. CASE UNCHANGED tcpVars
    <3>1. UNCHANGED <<server, tcp_state, tcp_remote_port, tcp_seq, tcp_ack, cstate, conn, item,
                      isn, window, toServer, toClient, losses, printed>>
      BY <2>1 DEF tcpVars, server, client, chosen
    <3>2. TcpTypeOK' /\ Fresh'
      BY <3>1 DEF TcpIndInv, TcpTypeOK, Fresh
    <3>3. ClientSound' /\ LastAckedIsPrinted'
      BY <3>1, ClientStays
    <3> QED
      BY <3>1, <3>2, <3>3, ClientFrame
  <2> QED
    BY <2>1, TcpPacketStep, ConnectStep, ClientSendStep, ClientReceiveStep, CrashAndLoss
       DEF TcpNext
<1> QED
  BY <1>1, <1>2, PTL DEF TcpSpec

(* For any number of connections and pieces of data, any sequence numbers, any window of  *)
(* the client, any limit of the print loop, whatever the network loses, repeats and       *)
(* reorders and whenever the client crashes: handle_tcp_packet acknowledges data only by  *)
(* the number behind a piece of which it has printed what it ever prints; a client whose  *)
(* connections have numbers of their own, which the responder does nothing to ensure, had *)
(* its last acknowledged piece printed; and one that also sends one piece at a time had   *)
(* all of them printed, in their order.                                                   *)
THEOREM TcpInvInvariant == TcpSpec => []TcpInv
<1>1. TcpIndInv => TcpInv
  BY DEF TcpIndInv, TcpInv, ClientSound, AckedIsPrinted, Before, AcksFollowPrints, ReplySound
<1> QED
  BY <1>1, TcpIndInvInvariant, PTL
-----------------------------------------------------------------------------
(***************************************************************************)
(* The checksum.  The driver sums words low byte first, the network high   *)
(* byte first.  A byte's weight in the one sum, times the base, is its     *)
(* weight in the other, up to a multiple of WordBase - 1; and folding      *)
(* takes away multiples of WordBase - 1.                                   *)
(***************************************************************************)
Weighed == [k \in DOMAIN data |-> IF k % 2 = 1 THEN ByteBase * data[k] ELSE data[k]]

\* The driver's sum stands for the first n bytes as the network would sum them.
StandsFor(n) ==
  \A g : SumsUp(g, Weighed, DOMAIN data) =>
           /\ sum = 0 <=> g[1 .. n] = 0
           /\ \E q \in Int : ByteBase * sum = g[1 .. n] + q * (WordBase - 1)

IsData == \E n \in Nat : data \in [1 .. n -> 0 .. (ByteBase - 1)]

ChecksumIndInv ==
  /\ IsData
  /\ spc \in {"off", "words", "fold", "done"} /\ word \in Nat /\ sum \in Nat
  /\ spc \in {"off", "words"} => 2 * word <= Len(data) /\ StandsFor(2 * word)
  /\ spc = "fold" => StandsFor(Len(data))
  /\ ChecksumIsRfc

LEMMA Bases ==
  /\ ByteBase \in Nat /\ ByteBase >= 2 /\ WordBase \in Nat /\ WordBase >= 4
  /\ WordBase = ByteBase * ByteBase
<1>1. ByteBase \in Nat /\ ByteBase >= 2
  BY ChecksumAssumption
<1>2. ByteBase * ByteBase >= 4 /\ ByteBase * ByteBase \in Nat
  BY <1>1
<1> QED
  BY <1>1, <1>2 DEF WordBase

\* The terms of the network's sum.
LEMMA Weights ==
  ASSUME NEW N \in Nat, data \in [1 .. N -> 0 .. (ByteBase - 1)]
  PROVE  /\ DOMAIN data = 1 .. N /\ Len(data) = N
         /\ Weighed \in [1 .. N -> Nat]
         /\ \A k \in 1 .. N : /\ data[k] \in Nat
                              /\ k % 2 = 1 => Weighed[k] = ByteBase * data[k]
                              /\ k % 2 # 1 => Weighed[k] = data[k]
<1>1. DOMAIN data = 1 .. N /\ data \in Seq(0 .. (ByteBase - 1))
  BY SeqDef
<1>2. Len(data) = N
  BY <1>1
<1>3. \A k \in 1 .. N : data[k] \in Nat /\ ByteBase * data[k] \in Nat
  BY Bases
<1>4. ASSUME NEW k \in 1 .. N
      PROVE  /\ k % 2 = 1 => Weighed[k] = ByteBase * data[k]
             /\ k % 2 # 1 => Weighed[k] = data[k]
  BY <1>1 DEF Weighed
<1>5. Weighed \in [1 .. N -> Nat]
  <2>1. Weighed = [k \in 1 .. N |-> Weighed[k]]
    BY <1>1 DEF Weighed
  <2>2. \A k \in 1 .. N : Weighed[k] \in Nat
    BY <1>3, <1>4
  <2> HIDE DEF Weighed
  <2> QED
    BY <2>1, <2>2
<1> QED
  BY <1>1, <1>2, <1>3, <1>4, <1>5

\* What FoldFunction makes of them is their sum.
LEMMA BytesSum ==
  ASSUME NEW N \in Nat, data \in [1 .. N -> 0 .. (ByteBase - 1)]
  PROVE  \E g : BigEndianSum = g[1 .. N] /\ SumsUp(g, Weighed, 1 .. N)
<1> DEFINE S == 1 .. N
           Body(g) == [s \in SUBSET S |-> IF s = {} THEN 0
                                          ELSE Weighed[FirstOf(s)] + g[s \ {FirstOf(s)}]]
           fold == CHOOSE g : g = Body(g)
<1>1. IsFiniteSet(S) /\ DOMAIN data = S /\ DOMAIN Weighed = S /\ Weighed \in [S -> Nat]
  <2>1. IsFiniteSet(S)
    BY FS_Interval
  <2>2. DOMAIN data = S /\ Weighed \in [S -> Nat]
    BY Weights
  <2> QED
    BY <2>1, <2>2
<1>2. \A g : FoldsUp(g, Weighed, S) <=> g = Body(g)
  BY DEF FoldsUp
<1>3. \E g : g = Body(g)
  <2> HIDE DEF Body, S
  <2> QED
    BY <1>1, <1>2, FoldExists
<1>4. fold = Body(fold)
  <2> HIDE DEF Body
  <2> QED
    BY <1>3
<1>5. SumsUp(fold, Weighed, S)
  <2> HIDE DEF Body, fold, S
  <2> QED
    BY <1>1, <1>2, <1>4, FoldSums
<1>6. BigEndianSum = fold[S]
  <2>1. BigEndianSum = FoldFunction(LAMBDA a, b : a + b, 0, Weighed)
    BY DEF BigEndianSum, Weighed
  <2>2. FoldFunction(LAMBDA a, b : a + b, 0, Weighed) = fold[S]
    <3> HIDE DEF Weighed
    <3> QED
      BY <1>1 DEF FoldFunction, FoldFunctionOnSet, MapThenFoldSet, FirstOf
  <2> QED
    BY <2>1, <2>2
<1> QED
  BY <1>5, <1>6

LEMMA ChecksumInitInd == ChecksumInit => ChecksumIndInv
<1> SUFFICES ASSUME ChecksumInit PROVE ChecksumIndInv
  OBVIOUS
<1>1. IsData
  BY ChecksumAssumption DEF ChecksumInit, IsData
<1>2. spc = "off" /\ word = 0 /\ sum = 0
  BY DEF ChecksumInit
<1>3. Len(data) \in Nat
  BY <1>1, Weights DEF IsData
<1>4. StandsFor(2 * word)
  <2> SUFFICES ASSUME NEW g, SumsUp(g, Weighed, DOMAIN data)
               PROVE  /\ sum = 0 <=> g[1 .. (2 * word)] = 0
                      /\ \E q \in Int : ByteBase * sum = g[1 .. (2 * word)] + q * (WordBase - 1)
    BY DEF StandsFor
  <2>1. 1 .. (2 * word) = {}
    BY <1>2
  <2>2. g[1 .. (2 * word)] = 0
    BY <2>1 DEF SumsUp
  <2>3. ByteBase * sum = 0 + 0 * (WordBase - 1)
    BY <1>2, Bases
  <2> QED
    BY <1>2, <2>2, <2>3
<1> QED
  BY <1>1, <1>2, <1>3, <1>4 DEF ChecksumIndInv, ChecksumIsRfc

(* Arithmetic of the steps, with B, W and G for the bases and the network's sum. *)

LEMMA TimesLess ==
  ASSUME NEW a \in Int, NEW c \in Int
  PROVE  a * (c - 1) = a * c - a /\ a * c \in Int
OBVIOUS

LEMMA MinusTimes ==
  ASSUME NEW a \in Int, NEW b \in Int, NEW c \in Int
  PROVE  (a - b) * c = a * c - b * c
OBVIOUS

LEMMA TwoBytes ==
  ASSUME NEW B \in Nat, NEW W \in Nat, W = B * B, NEW s \in Nat, NEW G \in Nat,
         NEW a \in Nat, NEW b \in Nat, NEW q \in Int, B * s = G + q * (W - 1)
  PROVE  B * (s + a + B * b) = (b + (B * a + G)) + (q + b) * (W - 1)
<1>1. B * (s + a + B * b) = B * s + B * a + B * (B * b)
  BY SMT
<1>2. B * (B * b) = W * b
  BY SMT
<1>3. (q + b) * (W - 1) = q * (W - 1) + (W * b - b)
  BY SMT
<1>4. PICK x \in Int, y \in Int, z \in Int :
        x = q * (W - 1) /\ y = B * a /\ z = W * b
  OBVIOUS
<1> QED
  BY <1>1, <1>2, <1>3, <1>4

LEMMA LastByte ==
  ASSUME NEW B \in Nat, NEW W \in Nat, NEW s \in Nat, NEW G \in Nat,
         NEW a \in Nat, NEW q \in Int, B * s = G + q * (W - 1)
  PROVE  B * (s + a) = (B * a + G) + q * (W - 1)
<1>1. B * (s + a) = B * s + B * a
  BY SMT
<1>2. PICK x \in Int, y \in Int : x = q * (W - 1) /\ y = B * a
  OBVIOUS
<1> QED
  BY <1>1, <1>2

\* Adding the carries takes away a multiple of W - 1, and leaves something.
LEMMA Carries ==
  ASSUME NEW B \in Nat, NEW W \in Nat, NEW h \in Int, NEW l \in 0 .. (W - 1),
         NEW s \in Nat, s = h * W + l, s >= W, NEW G \in Nat,
         NEW q \in Int, B * s = G + q * (W - 1)
  PROVE  /\ l + h \in Nat /\ l + h > 0
         /\ B * (l + h) = G + (q - B * h) * (W - 1)
<1>1. h \in Int /\ l \in Nat /\ l < W /\ s = h * W + l
  OBVIOUS
<1>2. h >= 1
  <2>1. h <= 0 => h * W <= 0
    BY SMT
  <2> QED
    BY <1>1, <2>1
<1>3. PICK y \in Int : y = h * W /\ h * (W - 1) = y - h
  <2>1. h * (W - 1) = h * W - h /\ h * W \in Int
    BY <1>1, TimesLess
  <2> QED
    BY <2>1
<1>4. PICK x \in Int, z \in Int : x = h * (W - 1) /\ z = q * (W - 1)
  BY <1>1
<1>5. l + h = s - x
  <2>1. s = y + l /\ x = y - h
    BY <1>1, <1>3, <1>4
  <2>2. ASSUME NEW yy \in Int, NEW hh \in Int, NEW ll \in Int, s = yy + ll, x = yy - hh
        PROVE  ll + hh = s - x
    BY <2>2
  <2>3. h \in Int /\ l \in Int /\ y \in Int
    BY <1>1, <1>3
  <2> QED
    BY <2>1, <2>2, <2>3, Zenon
<1>6. B * (s - x) = B * s - B * x
  BY <1>4, SMT
<1>7. B * x = (B * h) * (W - 1)
  BY <1>1, <1>4, SMT
<1>8. (q - B * h) * (W - 1) = q * (W - 1) - (B * h) * (W - 1)
  BY <1>1, SMT
<1>9. B * (l + h) = G + (q - B * h) * (W - 1)
  <2>1. PICK c \in Int : c = (B * h) * (W - 1)
    BY <1>1
  <2>2. B * (l + h) = B * s - c
    BY <1>5, <1>6, <1>7, <2>1
  <2>3. (q - B * h) * (W - 1) = z - c
    BY <1>4, <1>8, <2>1
  <2> QED
    BY <1>4, <2>1, <2>2, <2>3
<1>10. l + h \in Nat /\ l + h > 0
  BY <1>1, <1>2
<1> QED
  BY <1>9, <1>10

\* The digits of a number.
LEMMA Digits ==
  ASSUME NEW B \in Nat, NEW h \in 0 .. (B - 1), NEW l \in 0 .. (B - 1)
  PROVE  /\ h * B + l \in Nat
         /\ (h * B + l) % B = l /\ (h * B + l) \div B = h
<1>1. PICK x \in Nat : x = h * B + l
  BY SMT
<1>2. x = (x \div B) * B + (x % B) /\ x % B \in 0 .. (B - 1) /\ x \div B \in Int
  BY Division
<1>3. x % B = l
  <2>1. PICK d \in Int, r \in 0 .. (B - 1) : d = x \div B /\ r = x % B
    BY <1>2
  <2>2. d * B + r = h * B + l
    BY <1>1, <1>2, <2>1
  <2>3. h \in Int
    OBVIOUS
  <2>4. r = l
    BY <2>2, <2>3, OneRemainder
  <2> QED
    BY <2>1, <2>4
<1>4. x \div B = h
  <2>1. PICK d \in Int : d = x \div B
    BY <1>2
  <2>2. d * B = h * B
    BY <1>1, <1>2, <1>3, <2>1
  <2>3. d < h => d * B < h * B
    BY SMT
  <2>4. d > h => d * B > h * B
    BY SMT
  <2> QED
    BY <2>1, <2>2, <2>3, <2>4
<1> QED
  BY <1>1, <1>3, <1>4

\* Swapping the bytes of the complement gives the complement of the network's sum.
LEMMA SwappedComplement ==
  ASSUME NEW s \in 0 .. (WordBase - 1), NEW G \in Nat, NEW q \in Int,
         ByteBase * s = G + q * (WordBase - 1), s = 0 <=> G = 0
  PROVE  Swapped(WordBase - 1 - s) = WordBase - 1 - OnesComplement(G)
<1>1. PICK B \in Nat, W \in Nat :
        B = ByteBase /\ W = WordBase /\ B >= 2 /\ W >= 4 /\ W = B * B
  BY Bases
<1>2. PICK h \in Int, l \in 0 .. (B - 1) : h = s \div B /\ l = s % B /\ s = h * B + l
  BY <1>1, Division
<1>3. h \in 0 .. (B - 1)
  <2>1. h < 0 => h * B <= -B
    BY <1>1, <1>2, SMT
  <2>2. h >= B => h * B >= B * B
    BY <1>1, <1>2, SMT
  <2> QED
    BY <1>1, <1>2, <2>1, <2>2
<1>4. PICK H \in 0 .. (B - 1), L \in 0 .. (B - 1) : H = B - 1 - h /\ L = B - 1 - l
  BY <1>1, <1>2, <1>3
<1>5. W - 1 - s = H * B + L
  <2>1. H * B = B * B - B - h * B
    BY <1>1, <1>2, <1>4, SMT
  <2> QED
    BY <1>1, <1>2, <1>4, <2>1
<1>6. PICK v \in Nat : v = l * B + h
  BY <1>2, <1>3, Digits
<1>7. Swapped(WordBase - 1 - s) = W - 1 - v
  <2>1. Swapped(WordBase - 1 - s) = L * B + H
    <3>1. (H * B + L) % B = L /\ (H * B + L) \div B = H
      BY Digits
    <3>2. Swapped(WordBase - 1 - s) = ((H * B + L) % B) * B + ((H * B + L) \div B)
      BY <1>1, <1>5 DEF Swapped
    <3> QED
      BY <3>1, <3>2
  <2>2. L * B = B * B - B - l * B
    BY <1>1, <1>2, <1>4, SMT
  <2>3. PICK x \in Int : x = l * B
    BY <1>1, <1>2
  <2>4. L * B + H = W - 1 - v
    <3>1. L * B = W - B - x /\ v = x + h
      BY <1>1, <1>6, <2>2, <2>3
    <3> QED
      BY <1>1, <1>3, <1>4, <2>3, <3>1
  <2> QED
    BY <2>1, <2>4
<1>8. v <= W - 1 /\ (s # 0 => v >= 1)
  <2>1. l * B <= B * B - B
    <3>1. (B - 1) * B = B * B - B
      BY <1>1, SMT
    <3>2. l * B <= (B - 1) * B
      BY <1>1, <1>2, SMT
    <3> QED
      BY <1>1, <1>2, <3>1, <3>2
  <2>2. v <= W - 1
    BY <1>1, <1>2, <1>3, <1>6, <2>1
  <2>3. l >= 1 => l * B >= 1
    BY <1>1, <1>2, SMT
  <2>4. l * B >= 0
    BY <1>1, <1>2, SMT
  <2>5. s # 0 => l # 0 \/ h # 0
    BY <1>1, <1>2
  <2> QED
    BY <1>2, <1>3, <1>6, <2>2, <2>3, <2>4, <2>5
<1>9. v = G + (q - h) * (W - 1)
  <2>1. B * s = B * (h * B) + B * l
    BY <1>1, <1>2, SMT
  <2>2. B * (h * B) = h * (W - 1) + h
    BY <1>1, <1>2, SMT
  <2>3. (q - h) * (W - 1) = q * (W - 1) - h * (W - 1)
    <3>1. W - 1 \in Int
      BY <1>1
    <3> QED
      BY <1>2, <3>1, MinusTimes
  <2>4. B * l = l * B
    BY <1>1, <1>2, SMT
  <2>5. PICK x \in Int, y \in Int, z \in Int :
          x = h * (W - 1) /\ y = q * (W - 1) /\ z = l * B
    BY <1>1, <1>2
  <2>6. B * s = G + y
    BY <1>1, <2>5
  <2>7. G + y = (x + h) + z
    BY <2>1, <2>2, <2>4, <2>5, <2>6
  <2>8. (q - h) * (W - 1) = y - x
    BY <2>3, <2>5
  <2> QED
    BY <1>2, <1>6, <2>5, <2>7, <2>8
<1>10. CASE G = 0
  <2>1. s = 0
    BY <1>10
  <2>2. h = 0 /\ l = 0
    <3>1. h >= 1 => h * B >= B
      BY <1>1, <1>2, SMT
    <3>2. h * B >= 0
      BY <1>1, <1>2, <1>3, SMT
    <3> QED
      BY <1>1, <1>2, <1>3, <2>1, <3>1, <3>2
  <2>3. v = 0
    BY <1>1, <1>6, <2>2
  <2> QED
    BY <1>1, <1>7, <1>10, <2>3 DEF OnesComplement
<1>11. CASE G # 0
  <2>1. PICK M \in Nat, w \in Nat, E \in Nat : M = W - 1 /\ w = v - 1 /\ E = G - 1
    BY <1>1, <1>8, <1>11
  <2>2. w \in 0 .. (M - 1)
    BY <1>1, <1>8, <2>1
  <2>3. PICK d \in Int, r \in 0 .. (M - 1) : d = E \div M /\ r = E % M /\ E = d * M + r
    <3>1. M >= 1
      BY <1>1, <2>1
    <3>2. E = (E \div M) * M + (E % M) /\ E % M \in 0 .. (M - 1) /\ E \div M \in Int
      BY <3>1, Division
    <3> QED
      BY <3>2, Zenon
  <2>4. PICK p \in Int : p = q - h
    BY <1>2
  <2>5. w = E + p * M
    BY <1>9, <2>1, <2>4
  <2>6. (d + p) * M = d * M + p * M
    BY <2>1, <2>3, <2>4, SMT
  <2>7. 0 * M + w = (d + p) * M + r
    BY <2>1, <2>3, <2>4, <2>5, <2>6
  <2>8. w = r
    <3>1. d + p \in Int /\ 0 \in Int
      BY <2>3, <2>4
    <3> QED
      BY <2>1, <2>2, <2>3, <2>7, <3>1, OneRemainder
  <2>9. OnesComplement(G) = r + 1
    BY <1>1, <1>11, <2>1, <2>3 DEF OnesComplement
  <2> QED
    BY <1>1, <1>7, <2>1, <2>8, <2>9
<1> QED
  BY <1>10, <1>11

\* One more byte of the network's sum.
LEMMA ByteMore ==
  ASSUME NEW N \in Nat, data \in [1 .. N -> 0 .. (ByteBase - 1)],
         NEW g, SumsUp(g, Weighed, 1 .. N), NEW n \in 1 .. N
  PROVE  /\ g[1 .. n] = Weighed[n] + g[1 .. (n - 1)]
         /\ g[1 .. (n - 1)] \in Nat /\ g[1 .. n] \in Nat /\ data[n] \in Nat
<1>1. 1 .. n \in SUBSET (1 .. N) /\ n \in 1 .. n
  OBVIOUS
<1>2. 1 .. (n - 1) = (1 .. n) \ {n} /\ 1 .. (n - 1) \in SUBSET (1 .. N)
  OBVIOUS
<1>3. g[1 .. n] = Weighed[n] + g[(1 .. n) \ {n}]
  BY <1>1 DEF SumsUp
<1>4. g[1 .. (n - 1)] \in Nat /\ g[1 .. n] \in Nat
  BY <1>1, <1>2 DEF SumsUp
<1>5. data[n] \in Nat
  BY Weights
<1> QED
  BY <1>2, <1>3, <1>4, <1>5

LEMMA AddWordStep ==
  ASSUME ChecksumIndInv, AddWord
  PROVE  ChecksumIndInv'
<1>1. PICK N \in Nat : data \in [1 .. N -> 0 .. (ByteBase - 1)]
  BY DEF ChecksumIndInv, IsData
<1>2. DOMAIN data = 1 .. N /\ Len(data) = N /\ Weighed \in [1 .. N -> Nat]
  BY <1>1, Weights
<1>3. /\ spc = "words" /\ word \in Nat /\ word < N \div 2 /\ sum \in Nat
      /\ sum' = sum + data[2 * word + 1] + ByteBase * data[2 * word + 2]
      /\ word' = word + 1 /\ data' = data /\ spc' = spc /\ StandsFor(2 * word)
  BY <1>2 DEF ChecksumIndInv, AddWord
<1>4. PICK n \in Nat : n = 2 * word /\ n + 2 <= N /\ 2 * word' = n + 2
  BY <1>3
<1>5. n + 1 \in 1 .. N /\ n + 2 \in 1 .. N /\ (n + 1) % 2 = 1 /\ (n + 2) % 2 # 1
  BY <1>3, <1>4
<1>6. PICK a \in Nat, b \in Nat : a = data[n + 1] /\ b = data[n + 2]
  BY <1>1, <1>5, Weights
<1>7. Weighed[n + 1] = ByteBase * a /\ Weighed[n + 2] = b
  BY <1>1, <1>5, <1>6, Weights
<1>8. sum' = sum + a + ByteBase * b /\ sum' \in Nat
  <2>1. sum' = sum + a + ByteBase * b
    BY <1>3, <1>4, <1>6
  <2>2. ByteBase * b \in Nat
    BY Bases
  <2> QED
    BY <1>3, <2>1, <2>2
<1>9. Weighed' = Weighed
  BY <1>3 DEF Weighed
<1>10. ASSUME NEW g, SumsUp(g, Weighed, 1 .. N)
       PROVE  /\ sum' = 0 <=> g[1 .. (n + 2)] = 0
              /\ \E q \in Int : ByteBase * sum' = g[1 .. (n + 2)] + q * (WordBase - 1)
  <2>1. PICK q \in Int : ByteBase * sum = g[1 .. n] + q * (WordBase - 1)
    BY <1>2, <1>3, <1>4, <1>10 DEF StandsFor
  <2>2. sum = 0 <=> g[1 .. n] = 0
    BY <1>2, <1>3, <1>4, <1>10 DEF StandsFor
  <2>3. g[1 .. (n + 1)] = ByteBase * a + g[1 .. n] /\ g[1 .. n] \in Nat
    <3>1. PICK m \in 1 .. N : m = n + 1 /\ m - 1 = n
      BY <1>5
    <3>2. g[1 .. m] = Weighed[m] + g[1 .. (m - 1)] /\ g[1 .. (m - 1)] \in Nat
      BY <1>1, <1>10, ByteMore
    <3> QED
      BY <1>7, <3>1, <3>2
  <2>4. g[1 .. (n + 2)] = b + g[1 .. (n + 1)] /\ g[1 .. (n + 1)] \in Nat
    <3>1. PICK m \in 1 .. N : m = n + 2 /\ m - 1 = n + 1
      BY <1>5
    <3>2. g[1 .. m] = Weighed[m] + g[1 .. (m - 1)] /\ g[1 .. (m - 1)] \in Nat
      BY <1>1, <1>10, ByteMore
    <3> QED
      BY <1>7, <3>1, <3>2
  <2>5. PICK G \in Nat : G = g[1 .. n] /\ g[1 .. (n + 2)] = b + (ByteBase * a + G)
    BY <2>3, <2>4
  <2>6. ByteBase * sum' = g[1 .. (n + 2)] + (q + b) * (WordBase - 1)
    <3>1. ByteBase * (sum + a + ByteBase * b)
            = (b + (ByteBase * a + G)) + (q + b) * (WordBase - 1)
      <4>1. /\ ByteBase \in Nat /\ WordBase \in Nat /\ WordBase = ByteBase * ByteBase
            /\ ByteBase * sum = G + q * (WordBase - 1) /\ sum \in Nat
        BY <1>3, <2>1, <2>5, Bases
      <4> QED
        BY <4>1, TwoBytes, SMT
    <3> QED
      BY <1>8, <2>5, <3>1
  <2>7. sum' = 0 <=> g[1 .. (n + 2)] = 0
    <3>1. PICK x \in Nat, y \in Nat : x = ByteBase * a /\ y = ByteBase * b
      BY Bases
    <3>2. (x = 0 <=> a = 0) /\ (y = 0 <=> b = 0)
      BY <3>1, Bases
    <3>3. sum' = sum + a + y /\ g[1 .. (n + 2)] = b + (x + G) /\ (sum = 0 <=> G = 0)
      BY <1>8, <2>2, <2>5, <3>1
    <3> QED
      BY <1>3, <3>2, <3>3
  <2> QED
    BY <2>6, <2>7
<1>11. StandsFor(2 * word)'
  BY <1>2, <1>3, <1>4, <1>9, <1>10 DEF StandsFor
<1>12. 2 * word' <= Len(data') /\ word' \in Nat
  BY <1>2, <1>3, <1>4
<1> QED
  BY <1>3, <1>8, <1>11, <1>12 DEF ChecksumIndInv, IsData, ChecksumIsRfc

LEMMA AddOddStep ==
  ASSUME ChecksumIndInv, AddOdd
  PROVE  ChecksumIndInv'
<1>1. PICK N \in Nat : data \in [1 .. N -> 0 .. (ByteBase - 1)]
  BY DEF ChecksumIndInv, IsData
<1>2. DOMAIN data = 1 .. N /\ Len(data) = N /\ Weighed \in [1 .. N -> Nat]
  BY <1>1, Weights
<1>3. /\ spc = "words" /\ word \in Nat /\ word = N \div 2 /\ sum \in Nat
      /\ sum' = IF N % 2 = 1 THEN sum + data[N] ELSE sum
      /\ word' = word /\ data' = data /\ spc' = "fold" /\ StandsFor(2 * word)
  BY <1>2 DEF ChecksumIndInv, AddOdd
<1>4. Weighed' = Weighed
  BY <1>3 DEF Weighed
<1>5. /\ N % 2 # 1 => 2 * word = N
      /\ N % 2 = 1 => 2 * word = N - 1 /\ N \in 1 .. N
  BY <1>3
<1>6. sum' \in Nat
  <2>1. N % 2 = 1 => data[N] \in Nat
    BY <1>1, <1>5, Weights
  <2> QED
    BY <1>3, <2>1
<1>7. StandsFor(Len(data))'
  <2>1. CASE N % 2 # 1
    <3>1. sum' = sum /\ 2 * word = Len(data)
      BY <1>2, <1>3, <1>5, <2>1
    <3> QED
      BY <1>3, <1>4, <3>1 DEF StandsFor
  <2>2. CASE N % 2 = 1
    <3>1. PICK a \in Nat : a = data[N] /\ Weighed[N] = ByteBase * a
      BY <1>1, <1>5, <2>2, Weights
    <3>2. sum' = sum + a
      BY <1>3, <2>2, <3>1
    <3>3. ASSUME NEW g, SumsUp(g, Weighed, 1 .. N)
          PROVE  /\ sum' = 0 <=> g[1 .. N] = 0
                 /\ \E q \in Int : ByteBase * sum' = g[1 .. N] + q * (WordBase - 1)
      <4>1. PICK q \in Int : ByteBase * sum = g[1 .. (N - 1)] + q * (WordBase - 1)
        BY <1>2, <1>3, <1>5, <2>2, <3>3 DEF StandsFor
      <4>2. sum = 0 <=> g[1 .. (N - 1)] = 0
        BY <1>2, <1>3, <1>5, <2>2, <3>3 DEF StandsFor
      <4>3. PICK G \in Nat : G = g[1 .. (N - 1)] /\ g[1 .. N] = ByteBase * a + G
        BY <1>1, <1>5, <2>2, <3>1, <3>3, ByteMore, SMTT(30)
      <4>4. ByteBase * (sum + a) = (ByteBase * a + G) + q * (WordBase - 1)
        <5>1. /\ ByteBase \in Nat /\ WordBase \in Nat /\ sum \in Nat
              /\ ByteBase * sum = G + q * (WordBase - 1)
          BY <1>3, <4>1, <4>3, Bases
        <5> QED
          BY <5>1, LastByte, SMT
      <4>5. ByteBase * sum' = g[1 .. N] + q * (WordBase - 1)
        BY <3>2, <4>3, <4>4
      <4>6. sum' = 0 <=> g[1 .. N] = 0
        <5>1. PICK x \in Nat : x = ByteBase * a /\ (x = 0 <=> a = 0)
          BY Bases
        <5> QED
          BY <1>3, <3>2, <4>2, <4>3, <5>1
      <4> QED
        BY <4>5, <4>6
    <3> QED
      BY <1>2, <1>3, <1>4, <3>3 DEF StandsFor
  <2> QED
    BY <2>1, <2>2
<1> QED
  BY <1>3, <1>6, <1>7 DEF ChecksumIndInv, IsData, ChecksumIsRfc

LEMMA FoldStep ==
  ASSUME ChecksumIndInv, Fold
  PROVE  ChecksumIndInv'
<1>1. /\ spc = "fold" /\ sum \in Nat /\ sum >= WordBase /\ StandsFor(Len(data))
      /\ sum' = (sum % WordBase) + (sum \div WordBase)
      /\ data' = data /\ spc' = spc /\ word' = word
  BY DEF ChecksumIndInv, Fold
<1>2. Weighed' = Weighed
  BY <1>1 DEF Weighed
<1>3. PICK N \in Nat : /\ data \in [1 .. N -> 0 .. (ByteBase - 1)]
                       /\ DOMAIN data = 1 .. N /\ Len(data) = N
  <2>1. PICK N \in Nat : data \in [1 .. N -> 0 .. (ByteBase - 1)]
    BY DEF ChecksumIndInv, IsData
  <2> QED
    BY <2>1, Weights
<1>4. sum' \in Nat
  BY <1>1, Bases
<1>5. ASSUME NEW g, SumsUp(g, Weighed, 1 .. N)
      PROVE  /\ sum' = 0 <=> g[1 .. N] = 0
             /\ \E q \in Int : ByteBase * sum' = g[1 .. N] + q * (WordBase - 1)
  <2>1. PICK q \in Int : ByteBase * sum = g[1 .. N] + q * (WordBase - 1)
    BY <1>1, <1>3, <1>5 DEF StandsFor
  <2>2. sum = 0 <=> g[1 .. N] = 0
    BY <1>1, <1>3, <1>5 DEF StandsFor
  <2>3. PICK G \in Nat : G = g[1 .. N]
    BY <1>5 DEF SumsUp
  <2>4. /\ sum' > 0
        /\ \E p \in Int : ByteBase * sum' = G + p * (WordBase - 1)
    <3>1. PICK B \in Nat, W \in Nat, s \in Nat :
            B = ByteBase /\ W = WordBase /\ s = sum /\ W >= 1 /\ s >= W
      BY <1>1, Bases
    <3>2. PICK h \in Int, l \in 0 .. (W - 1) : h = s \div W /\ l = s % W /\ s = h * W + l
      <4>1. s = (s \div W) * W + (s % W) /\ s % W \in 0 .. (W - 1) /\ s \div W \in Int
        BY <3>1, Division
      <4> QED
        BY <4>1, Zenon
    <3>3. B * s = G + q * (W - 1) /\ s = h * W + l /\ s >= W
      BY <2>1, <2>3, <3>1, <3>2
    <3>4. l + h > 0 /\ B * (l + h) = G + (q - B * h) * (W - 1)
      BY <3>3, Carries
    <3>5. sum' = l + h
      BY <1>1, <3>1, <3>2
    <3>6. q - B * h \in Int
      BY <3>2
    <3> QED
      BY <3>1, <3>4, <3>5, <3>6
  <2>5. sum # 0
    BY <1>1, Bases
  <2> QED
    BY <1>4, <2>2, <2>3, <2>4, <2>5
<1>6. StandsFor(Len(data))'
  BY <1>1, <1>2, <1>3, <1>5 DEF StandsFor
<1> QED
  BY <1>1, <1>4, <1>6 DEF ChecksumIndInv, IsData, ChecksumIsRfc

LEMMA ComplementStep ==
  ASSUME ChecksumIndInv, Complement
  PROVE  ChecksumIndInv'
<1>1. /\ spc = "fold" /\ sum \in Nat /\ sum < WordBase /\ StandsFor(Len(data))
      /\ sum' = WordBase - 1 - sum /\ spc' = "done" /\ data' = data /\ word' = word
  BY DEF ChecksumIndInv, Complement
<1>2. PICK N \in Nat : data \in [1 .. N -> 0 .. (ByteBase - 1)]
  BY DEF ChecksumIndInv, IsData
<1>3. DOMAIN data = 1 .. N /\ Len(data) = N
  BY <1>2, Weights
<1>4. PICK g : BigEndianSum = g[1 .. N] /\ SumsUp(g, Weighed, 1 .. N)
  BY <1>2, BytesSum
<1>5. PICK q \in Int : ByteBase * sum = g[1 .. N] + q * (WordBase - 1)
  BY <1>1, <1>3, <1>4 DEF StandsFor
<1>6. sum = 0 <=> g[1 .. N] = 0
  BY <1>1, <1>3, <1>4 DEF StandsFor
<1>7. g[1 .. N] \in Nat
  BY <1>4 DEF SumsUp
<1>8. sum \in 0 .. (WordBase - 1) /\ sum' \in Nat
  BY <1>1, Bases
<1>9. Swapped(WordBase - 1 - sum) = WordBase - 1 - OnesComplement(g[1 .. N])
  BY <1>5, <1>6, <1>7, <1>8, SwappedComplement
<1>10. BigEndianSum' = BigEndianSum
  BY <1>1 DEF BigEndianSum, FoldFunction, FoldFunctionOnSet, MapThenFoldSet
<1>11. ChecksumIsRfc'
  <2>1. Swapped(sum') = WordBase - 1 - OnesComplement(BigEndianSum)
    BY <1>1, <1>4, <1>9
  <2> QED
    BY <1>10, <2>1 DEF ChecksumIsRfc, Swapped, OnesComplement
<1> QED
  BY <1>1, <1>8, <1>11 DEF ChecksumIndInv, IsData

\* What ip_checksum returns for a string of any length, stored as the machine stores
\* words, is the checksum of RFC 1071 in the byte order of the network: for any base of
\* bytes, any number of carries and an odd byte at the end.
THEOREM ChecksumInvariant == ChecksumSpec => []ChecksumIsRfc
<1>1. ASSUME ChecksumIndInv, [ChecksumNext]_checksumVars PROVE ChecksumIndInv'
  <2>1. CASE ip_checksum
    <3>1. /\ UNCHANGED <<data, word, sum>> /\ spc = "off" /\ spc' = "words"
      BY <2>1 DEF ip_checksum
    <3> QED
      BY <1>1, <3>1 DEF ChecksumIndInv, IsData, StandsFor, Weighed, ChecksumIsRfc
  <2>2. CASE UNCHANGED checksumVars
    <3>1. UNCHANGED <<data, word, sum, spc>>
      BY <2>2 DEF checksumVars
    <3>2. BigEndianSum' = BigEndianSum
      BY <3>1 DEF BigEndianSum, FoldFunction, FoldFunctionOnSet, MapThenFoldSet
    <3> QED
      BY <1>1, <3>1, <3>2
         DEF ChecksumIndInv, IsData, StandsFor, Weighed, ChecksumIsRfc, Swapped, OnesComplement
  <2> QED
    BY <1>1, <2>1, <2>2, AddWordStep, AddOddStep, FoldStep, ComplementStep DEF ChecksumNext
<1>2. ChecksumIndInv => ChecksumIsRfc
  BY DEF ChecksumIndInv
<1> QED
  BY <1>1, <1>2, ChecksumInitInd, PTL DEF ChecksumSpec
=============================================================================
