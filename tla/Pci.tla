--------------------------------- MODULE Pci ---------------------------------
(***************************************************************************)
(* drivers/pci.c: which functions on the PCI bus the scan lists, and which *)
(* of them rtl8139_probe takes for the network card.  A bus maps a pair of *)
(* slot and function to the device there; what has no device answers with  *)
(* vendor 0xFFFF.  Bus numbers only extend the slots.                      *)
(***************************************************************************)
EXTENDS Integers, FiniteSets

\* card: vendor and device id are those of the RTL8139;  io: bit 0 of its BAR0;
\* multi: bit 7 of its header type
Device == [card : BOOLEAN, io : BOOLEAN, multi : BOOLEAN]

\* What a bus is: devices at some of its slots and functions
IsBus(bus) == /\ bus \in [DOMAIN bus -> Device]
              /\ DOMAIN bus \subseteq Nat \X Nat /\ IsFiniteSet(DOMAIN bus)

\* The order in which the loops visit functions
Precedes(p, q) == p[1] < q[1] \/ (p[1] = q[1] /\ p[2] < q[2])

\* A slot counts if its function 0 answers.  The loop over the functions skips those
\* that do not answer and ends behind the first that is not marked multi-function.
Visited(bus) ==
  {p \in DOMAIN bus :
     /\ <<p[1], 0>> \in DOMAIN bus
     /\ \A g \in 0 .. (p[2] - 1) : <<p[1], g>> \in DOMAIN bus => bus[<<p[1], g>>].multi}

\* The first max of them fill the list.
pci_scan_devices(bus, max) ==
  {p \in Visited(bus) : Cardinality({q \in Visited(bus) : Precedes(q, p)}) < max}

Cards(bus, max) == {p \in pci_scan_devices(bus, max) : bus[p].card}

\* The first card on the list, whether or not it can be used
FirstCard(bus, max) ==
  CHOOSE p \in Cards(bus, max) : \A q \in Cards(bus, max) \ {p} : Precedes(p, q)

\* rtl8139_probe and rtl8139_enable_io: is there a card, with registers in I/O space?
Usable(bus, max) == Cards(bus, max) # {} /\ bus[FirstCard(bus, max)].io
=============================================================================
