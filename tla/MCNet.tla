-------------------------------- MODULE MCNet --------------------------------
(* Arp and Tcp for TLC.  They share no state: a run is one of the two. *)
EXTENDS Arp, Tcp

CONSTANT Parts   \* which of them
VARIABLE part

\* The first connection's numbers go across the end; those of the second are apart from them,
\* or overlap with them.
IsnsForTLC == {<<14, 5>>, <<14, 12>>}

Init ==
  /\ part \in Parts
  /\ part # "tcp" => isn = <<14, 5>> /\ window = 1
  /\ ArpInit /\ TcpInit

Next ==
  /\ \/ part = "arp" /\ ArpNext /\ UNCHANGED tcpVars
     \/ part = "tcp" /\ TcpNext /\ UNCHANGED arpVars
  /\ UNCHANGED part

\* Nothing of TcpFairness is enabled in the other part.
Spec == Init /\ [][Next]_<<arpVars, tcpVars, part>> /\ TcpFairness
=============================================================================
