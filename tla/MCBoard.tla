------------------------------- MODULE MCBoard -------------------------------
(* The small parts of the kernel for TLC: the page frames, the clock, the event rings, *)
(* the desktop, the text screen and the checksum.  They share no state: a run is one   *)
(* of them.                                                                            *)
EXTENDS Pmm, Clock, Trace, Desktop, Console, Checksum

CONSTANT Parts   \* which of them
VARIABLE part

Avail(b, l) == [base |-> b, length |-> l, high |-> 0, type |-> "available"]
Taken(b, l) == [base |-> b, length |-> l, high |-> 0, type |-> "reserved"]
Above(b, l) == [base |-> b, length |-> l, high |-> 1, type |-> "available"]

Map(m)  == [kind |-> "map", lower |-> 0, upper |-> 0, map |-> m]
Size(l, u) == [kind |-> "size", lower |-> l, upper |-> u, map |-> <<>>]
None    == [kind |-> "none", lower |-> 0, upper |-> 0, map |-> <<>>]

\* A hole cut out of memory; a reserved region at the very end of the address space,
\* whose end wraps around; memory above 4 GB; more memory than the bitmap covers; less
\* than the reserve; no map, with an odd number of frames, with less than the reserve, with a
\* number of bytes that wraps around, and without any account.
BootInfos ==
  { Map(<<Avail(0, 36), Taken(12, 4), Taken(56, 8)>>),
    Map(<<Taken(0, 8), Avail(8, 12), Taken(20, 4), Avail(24, 24)>>),
    Map(<<Avail(0, 16), Taken(16, 16), Above(16, 12)>>),
    Map(<<Avail(0, 4)>>), Size(1, 12), Size(1, 0), Size(1, 30), None }

\* A point to the left; some to the right and up; one down; and as far up as a packet
\* can say, which the driver takes for one down
SomeMoves == {<<-1, 0>>, <<4, 3>>, <<0, -1>>, <<0, 63>>}

Init ==
  /\ part \in Parts
  /\ part # "frames" => info = None
  /\ part # "clock" => bcd = FALSE /\ twelve = FALSE
  /\ part # "checksum" => data = <<>>
  /\ PmmInit /\ ClockInit /\ TraceInit /\ DesktopInit /\ ConsoleInit /\ ChecksumInit

Next ==
  /\ \/ part = "frames" /\ PmmNext
        /\ UNCHANGED <<clockVars, traceVars, desktopVars, consoleVars, checksumVars>>
     \/ part = "clock" /\ ClockNext
        /\ UNCHANGED <<pmmVars, traceVars, desktopVars, consoleVars, checksumVars>>
     \/ part = "trace" /\ TraceNext
        /\ UNCHANGED <<pmmVars, clockVars, desktopVars, consoleVars, checksumVars>>
     \/ part = "desktop" /\ DesktopNext
        /\ UNCHANGED <<pmmVars, clockVars, traceVars, consoleVars, checksumVars>>
     \/ part = "screen" /\ ConsoleNext
        /\ UNCHANGED <<pmmVars, clockVars, traceVars, desktopVars, checksumVars>>
     \/ part = "checksum" /\ ChecksumNext
        /\ UNCHANGED <<pmmVars, clockVars, traceVars, desktopVars, consoleVars>>
  /\ UNCHANGED part

vars == <<pmmVars, clockVars, traceVars, desktopVars, consoleVars, checksumVars, part>>

Spec == Init /\ [][Next]_vars /\ DesktopFairness
=============================================================================
