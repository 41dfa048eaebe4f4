-------------------------------- MODULE Trace --------------------------------
(***************************************************************************)
(* The two event rings of the kernel, which record in the same way:        *)
(* sys_trace of kernel.c, whose ring the trace command lists, and          *)
(* kernel_trace of trace.c.  (The loop of dump_trace_log in trace.c lists  *)
(* nothing: its call of print_string is a comment.)                        *)
(***************************************************************************)
EXTENDS Integers, Sequences, SequencesExt

CONSTANTS
  TraceMax,   \* TRACE_MAX (12), MAX_TRACE_ENTRIES (32)
  Events

ASSUME TraceAssumption == TraceMax \in Nat \ {0}

VARIABLES
  trace_ring, trace_idx, trace_count,
  recent      \* the last TraceMax events, the oldest first

traceVars == <<trace_ring, trace_idx, trace_count, recent>>

Entries == 0 .. (TraceMax - 1)
Empty == "empty"

TraceInit ==
  /\ trace_ring = [e \in Entries |-> Empty] /\ trace_idx = 0 /\ trace_count = 0
  /\ recent = <<>>

Remember(event) ==
  recent' = IF Len(recent) < TraceMax THEN Append(recent, event)
                                      ELSE Append(Tail(recent), event)

\* Mutant: the index moves before the event is stored.
sys_trace_after(event) ==
  /\ trace_ring' = [trace_ring EXCEPT ![(trace_idx + 1) % TraceMax] = event]
  /\ trace_idx' = (trace_idx + 1) % TraceMax
  /\ trace_count' = IF trace_count < TraceMax THEN trace_count + 1 ELSE trace_count
  /\ Remember(event)

\* sys_trace, kernel_trace
sys_trace(event) ==
  /\ trace_ring' = [trace_ring EXCEPT ![trace_idx] = event]
  /\ trace_idx' = (trace_idx + 1) % TraceMax
  /\ trace_count' = IF trace_count < TraceMax THEN trace_count + 1 ELSE trace_count
  /\ Remember(event)

TraceNext == \E event \in Events : sys_trace(event)

TraceSpec == TraceInit /\ [][TraceNext]_traceVars

\* Where the trace command begins, and what it lists
TraceStart == IF trace_idx < trace_count THEN 0 ELSE trace_idx

Listed == [k \in 1 .. trace_count |-> trace_ring[(TraceStart + k - 1) % TraceMax]]
-----------------------------------------------------------------------------
\* The ring, its index and its count have their types.
TraceTypeOK ==
  /\ trace_ring \in [Entries -> Events \cup {Empty}]
  /\ trace_idx \in Entries /\ trace_count \in 0 .. TraceMax

(* trace_count is the number of events kept, and the entries behind trace_idx are the latest *)
(* events, the newest next to it, before and after the ring has wrapped around.              *)
RingKeepsRecent ==
  /\ Len(recent) = trace_count
  /\ \A j \in 1 .. trace_count :
       trace_ring[(trace_idx + TraceMax - j) % TraceMax] = recent[trace_count + 1 - j]

(* Both rings keep the latest events, as many as fit, before and after they are full. *)
TraceInv == TraceTypeOK /\ RingKeepsRecent

(* The trace command lists the events that the ring keeps, in the order in which they *)
(* happened.                                                                           *)
TraceListsRecent == Listed = recent
=============================================================================
