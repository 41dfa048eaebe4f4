------------------------------ MODULE MCKernel ------------------------------
(* The heap, the tasks and the command line for TLC.  They share no state: a run is one *)
(* of them.                                                                             *)
EXTENDS Heap, Sched, Shell

CONSTANTS
  Parts,       \* which of them
  m, q, nul    \* two keys, and the end of a string
VARIABLE part

\* A request that wraps around when a header is added to it, beside small ones
Asked == {0, 1, 3, Word - 1}

\* A line of the two keys for each command that waits or stops
MonitorText == <<m>>
VgamodeText == <<q, q>>
ExecText == <<m, q>>
PanicText == <<q, m>>

Init ==
  /\ part \in Parts
  /\ part # "sched" => paging = TRUE
  /\ HeapInit /\ SchedInit /\ ShellInit

vars == <<heapVars, schedVars, shellVars, part>>

\* The machine may stop for good in exec or at the prompt, but no call of the heap may.
Next ==
  /\ \/ part = "heap" /\ HeapNext /\ UNCHANGED <<schedVars, shellVars>>
     \/ part = "sched" /\ SchedNext /\ UNCHANGED <<heapVars, shellVars>>
     \/ part = "shell" /\ ShellNext /\ UNCHANGED <<heapVars, schedVars>>
     \/ part # "heap" /\ UNCHANGED <<heapVars, schedVars, shellVars>>
  /\ UNCHANGED part

\* SchedFairness and ShellFairness, each in its own part
Fairness ==
  /\ WF_schedVars(part = "sched" /\ TimerTick) /\ WF_schedVars(part = "sched" /\ ExecStep)
  /\ SF_schedVars(part = "sched" /\ job # Forever /\ UserStep)
  /\ WF_shellVars(part = "shell" /\ Tick) /\ WF_shellVars(part = "shell" /\ MainStep)

Spec == Init /\ [][Next]_vars /\ Fairness
=============================================================================
