----------------------------- MODULE SchedProofs -----------------------------
(***************************************************************************)
(* Proofs about Sched: the queue of tasks is one ring and one task runs,   *)
(* and no task that can be switched to has lost its code.                  *)
(***************************************************************************)
EXTENDS Sched, SetInduction

\* The first m steps along a list: f[i] is the i-th task behind c.
IsWalk(f, c, nx, m) ==
  f = [i \in 0 .. m |-> IF i = 0 THEN c
                        ELSE IF f[i - 1] = Null THEN Null ELSE nx[f[i - 1]]]

\* A list can be walked for any number of steps.
LEMMA WalkExists ==
  ASSUME NEW c, NEW nx, NEW m \in Nat
  PROVE  \E f : IsWalk(f, c, nx, m)
<1> DEFINE Step(f, i) == IF i = 0 THEN c
                         ELSE IF f[i - 1] = Null THEN Null ELSE nx[f[i - 1]]
           T == {n \in 0 .. m : \E f : f = [i \in 0 .. n |-> Step(f, i)]}
<1>1. 0 \in T
  <2> DEFINE f == [i \in 0 .. 0 |-> c]
  <2>1. f = [i \in 0 .. 0 |-> Step(f, i)]
    OBVIOUS
  <2> HIDE DEF f
  <2> QED
    BY <2>1
<1>2. ASSUME NEW n \in 0 .. (m - 1), n \in T
      PROVE  n + 1 \in T
  <2>1. PICK f : f = [i \in 0 .. n |-> Step(f, i)]
    BY <1>2
  <2> DEFINE g == [i \in 0 .. (n + 1) |-> IF i <= n THEN f[i] ELSE Step(f, n + 1)]
  <2>2. \A i \in 0 .. n : g[i] = f[i]
    OBVIOUS
  <2>3. \A i \in 0 .. n : f[i] = Step(f, i)
    BY <2>1
  <2>4. \A i \in 0 .. (n + 1) : g[i] = Step(g, i)
    <3> TAKE i \in 0 .. (n + 1)
    <3>1. CASE i = 0
      BY <3>1, <2>2, <2>3
    <3>2. CASE i \in 1 .. n
      <4>1. g[i] = f[i] /\ g[i - 1] = f[i - 1] /\ f[i] = Step(f, i)
        BY <3>2, <2>2, <2>3
      <4> QED
        BY <4>1, <3>2
    <3>3. CASE i = n + 1
      <4>1. g[i - 1] = f[n] /\ g[i] = Step(f, n + 1) /\ i # 0 /\ i - 1 = n
        BY <3>3, <2>2
      <4> QED
        BY <4>1, <3>3
    <3> QED
      BY <3>1, <3>2, <3>3
  <2>5. g = [i \in 0 .. (n + 1) |-> Step(g, i)]
    BY <2>4
  <2>6. \E h : h = [i \in 0 .. (n + 1) |-> Step(h, i)]
    <3> HIDE DEF g
    <3> QED
      BY <2>5
  <2> QED
    BY <2>6
<1>3. \A n \in 0 .. m : n \in T
  <2> HIDE DEF T
  <2> QED
    BY <1>1, <1>2, Climb
<1> QED
  BY <1>3 DEF IsWalk

\* Behind is the walk that starts at the current task.
LEMMA BehindWalks ==
  Behind = [i \in 0 .. (MaxTasks + 1) |->
              IF i = 0 THEN current
              ELSE IF Behind[i - 1] = Null THEN Null ELSE next[Behind[i - 1]]]
<1>1. MaxTasks + 1 \in Nat
  BY SchedAssumption
<1>2. \E f : IsWalk(f, current, next, MaxTasks + 1)
  BY <1>1, WalkExists
<1> QED
  BY <1>2, Zenon DEF Behind, IsWalk

-----------------------------------------------------------------------------
(* The inductive invariant. *)

\* The first n tasks are a ring in the order of creation, as next has them.
Ring(n) == \A t \in Tasks : t < n => next[t] = IF t + 1 = n THEN Main ELSE t + 1

\* Before the scheduler is there, there are no tasks.
Unborn ==
  ~active => next_pid = 0 /\ current = Main /\ stage \in {"prompt", "loaded"}

\* Tasks have a state from when they are built, and no place in the list before.
Created ==
  /\ active => next_pid >= 1
  /\ \A t \in Tasks : state[t] = "none" <=> t >= next_pid
  /\ \A t \in Tasks : t >= next_pid => next[t] = Null

\* The list in each part of task_create: without the new task, with it at the open end,
\* and closed.
Listed ==
  /\ stage \in {"link", "close", "wait"} => next_pid >= 2
  /\ stage = "link" => Ring(NewTask) /\ next[NewTask] = Null
  /\ stage = "close" => /\ \A t \in Tasks : t < NewTask => next[t] = t + 1
                     /\ next[NewTask] = Null
  /\ stage \notin {"link", "close"} => Ring(next_pid)

\* The program that exec waits for is the only one that is not suspended, and its code is
\* the one in the buffer.
OneProgram ==
  /\ code = IF stage \in {"link", "close", "wait"} THEN NewTask ELSE Null
  /\ stage \in {"link", "close", "wait"} => job # NotNEX
  /\ \A t \in Tasks \ {Main} : t < next_pid /\ t # code => state[t] = "SUSPENDED"

\* What exec still needs is there: a pid, and room for what it gives back.
Provided ==
  /\ stage = "loaded" => next_pid <= MaxTasks
  /\ stage # "prompt" => mem < MemUnits

IndInv == SchedTypeOK /\ OneRunning /\ Unborn /\ Created /\ Listed /\ OneProgram /\ Provided

-----------------------------------------------------------------------------
(* The walk of task_switch. *)

\* The least element of a set of natural numbers is one of it.
LEMMA MinIsElement ==
  ASSUME NEW T \in SUBSET Nat, T # {}
  PROVE  Min(T) \in T
<1>1. \E x \in T : \A y \in T : x =< y
  BY LeastElement
<1> QED
  BY <1>1 DEF Min

\* Every task points at the one behind it, at the kernel thread, or at nothing.
LEMMA NextInOrder ==
  ASSUME IndInv, NEW t \in Tasks
  PROVE  next[t] \in {t + 1, Main, Null}
BY SchedAssumption
   DEF IndInv, SchedTypeOK, Unborn, Created, Listed, Ring, NewTask, Tasks, Null, Main

\* task_switch ends at a null pointer, at the task that it leaves, or at one that can run:
\* the kernel thread always can, and the list leads to it or breaks off.
LEMMA ChosenCanRun ==
  ASSUME IndInv, NEW st \in [Tasks -> States], st[Main] \in Runnable
  PROVE  \/ Chosen(st) = Null
         \/ Chosen(st) \in Tasks /\ (Chosen(st) = current \/ st[Chosen(st)] \in Runnable)
<1> DEFINE N == MaxTasks + 1
           T == {i \in 1 .. N : Stops(Behind[i], st)}
<1>1. /\ N \in Nat /\ N >= 1
      /\ current \in Tasks /\ next \in [Tasks -> Tasks \cup {Null}]
  BY SchedAssumption DEF IndInv, SchedTypeOK
<1>2. /\ Behind[0] = current
      /\ \A i \in 1 .. N : Behind[i] = IF Behind[i - 1] = Null THEN Null
                                       ELSE next[Behind[i - 1]]
  BY <1>1, BehindWalks
<1>3. \A i \in 0 .. N : Behind[i] \in Tasks \cup {Null}
  <2> DEFINE U == {i \in 0 .. N : Behind[i] \in Tasks \cup {Null}}
  <2>1. 0 \in U
    BY <1>1, <1>2
  <2>2. ASSUME NEW n \in 0 .. (N - 1), n \in U
        PROVE  n + 1 \in U
    <3>1. n + 1 \in 1 .. N /\ (n + 1) - 1 = n
      BY <1>1
    <3>2. Behind[n + 1] = IF Behind[n] = Null THEN Null ELSE next[Behind[n]]
      BY <3>1, <1>2
    <3> QED
      BY <3>1, <3>2, <2>2, <1>1
  <2>3. \A n \in 0 .. N : n \in U
    <3> HIDE DEF U, N
    <3> QED
      BY <1>1, <2>1, <2>2, Climb
  <2> QED
    BY <2>3
<1>4. T # {}
  <2> SUFFICES ASSUME T = {}
               PROVE  FALSE
    OBVIOUS
  <2>1. \A i \in 1 .. N : /\ Behind[i] \in Tasks /\ Behind[i] # Null /\ Behind[i] # current
                          /\ Behind[i] # Main
    BY <1>1, <1>3 DEF Stops
  <2> DEFINE U == {i \in 0 .. N : Behind[i] = current + i}
  <2>2. 0 \in U
    BY <1>1, <1>2 DEF Tasks
  <2>3. ASSUME NEW n \in 0 .. (N - 1), n \in U
        PROVE  n + 1 \in U
    <3>1. n + 1 \in 1 .. N /\ (n + 1) - 1 = n
      BY <1>1
    <3>2. Behind[n] \in Tasks /\ Behind[n] # Null
      <4>1. CASE n = 0
        BY <4>1, <1>1, <1>2 DEF Tasks, Null
      <4>2. CASE n # 0
        BY <4>2, <2>1, <1>1
      <4> QED
        BY <4>1, <4>2
    <3>3. Behind[n + 1] = next[Behind[n]]
      BY <3>1, <3>2, <1>2
    <3>4. Behind[n + 1] # Main /\ Behind[n + 1] # Null
      BY <3>1, <2>1
    <3>5. Behind[n + 1] = Behind[n] + 1
      BY <3>2, <3>3, <3>4, NextInOrder
    <3> QED
      BY <3>1, <3>5, <2>3, <1>1 DEF Tasks
  <2>4. \A n \in 0 .. N : n \in U
    <3> HIDE DEF U, N
    <3> QED
      BY <1>1, <2>2, <2>3, Climb
  <2>5. Behind[N] = current + N /\ Behind[N] \in Tasks
    BY <2>1, <2>4, <1>1
  <2> QED
    BY <2>5, <1>1, SchedAssumption DEF Tasks
<1>5. Min(T) \in T
  BY <1>1, <1>4, MinIsElement
<1>6. Chosen(st) = Behind[Min(T)]
  BY DEF Chosen
<1>7. Stops(Chosen(st), st) /\ Chosen(st) \in Tasks \cup {Null}
  <2> HIDE DEF N
  <2> QED
    BY <1>1, <1>3, <1>5, <1>6
<1> QED
  BY <1>7 DEF Stops

-----------------------------------------------------------------------------
(* One step per action. *)

\* The initial state satisfies the inductive invariant.
LEMMA InitIndInv ==
  ASSUME SchedInit
  PROVE  IndInv
<1>1. SchedTypeOK
  <2>1. /\ paging \in BOOLEAN /\ machine \in {"up", "locked", "wild"} /\ active \in BOOLEAN
        /\ (active => state[Main] \in Runnable)
    BY DEF SchedInit
  <2>2. next \in [Tasks -> Tasks \cup {Null}] /\ state \in [Tasks -> States]
    BY DEF SchedInit, States
  <2>3. /\ current \in Tasks /\ next_pid \in 0 .. (MaxTasks + 1) /\ mem \in 0 .. MemUnits
        /\ job \in Files /\ code \in Tasks \cup {Null} /\ stage = "prompt"
    BY SchedAssumption DEF SchedInit, Tasks, Main, Files
  <2> QED
    BY <2>1, <2>2, <2>3 DEF SchedTypeOK
<1>2. OneRunning /\ Unborn /\ Created /\ Provided
  BY DEF SchedInit, OneRunning, Unborn, Created, Provided, Tasks
<1>3. Listed /\ OneProgram
  BY DEF SchedInit, Listed, Ring, OneProgram, Tasks
<1> QED
  BY <1>1, <1>2, <1>3 DEF IndInv

\* A switch, whether the task it leaves goes on running or has ended, leaves the tasks as
\* the invariant wants them.
LEMMA SwitchKeeps ==
  ASSUME IndInv, active,
         NEW st \in [Tasks -> States], st[Main] \in Runnable,
         st[current] \in {"RUNNING", "SUSPENDED"},
         \A t \in Tasks : t # current => st[t] = state[t],
         task_switch(st), UNCHANGED <<active, next, next_pid, stage, code>>
  PROVE  /\ machine' \in {"up", "locked", "wild"} /\ current' \in Tasks
         /\ state' \in [Tasks -> States] /\ state'[Main] \in Runnable
         /\ OneRunning' /\ Unborn' /\ Created' /\ Listed'
         /\ \A t \in Tasks \ {Main} : t < next_pid /\ t # code => state'[t] = "SUSPENDED"
<1> DEFINE n == Chosen(st)
<1>1. n = Null \/ (n \in Tasks /\ (n = current \/ st[n] \in Runnable))
  BY ChosenCanRun
<1>2. Unborn' /\ Listed' /\ machine' \in {"up", "locked", "wild"}
  BY DEF IndInv, SchedTypeOK, Unborn, Listed, Ring, NewTask, task_switch
<1>3. Main \in Tasks
  BY SchedAssumption DEF Main, Tasks
<1> HIDE DEF n
<1>4. CASE n = Null
  <2>1. current' = current /\ state' = state
    BY <1>4 DEF task_switch, n
  <2> QED
    BY <1>2, <1>3, <2>1 DEF IndInv, SchedTypeOK, OneRunning, Created, OneProgram
<1>5. CASE n # Null
  <2>1. current' = n /\ state' = Switched(st, n) /\ n \in Tasks
    BY <1>1, <1>5 DEF task_switch, n
  <2>2. \A t \in Tasks : state'[t] = IF t = n THEN "RUNNING"
                                     ELSE IF t = current /\ st[t] = "RUNNING" THEN "READY"
                                     ELSE st[t]
    BY <2>1 DEF Switched
  <2>3. state' \in [Tasks -> States]
    BY <2>1 DEF Switched, States
  <2>4. state'[Main] \in Runnable
    BY <1>3, <2>2 DEF Runnable
  <2>5. \A t \in Tasks : state[t] = "RUNNING" <=> t = current
    BY DEF IndInv, OneRunning
  <2>6. OneRunning'
    <3>1. \A t \in Tasks : state'[t] = "RUNNING" <=> t = n
      BY <2>2, <2>5
    <3> QED
      BY <3>1, <2>1 DEF OneRunning
  <2>7. Created'
    <3>1. \A t \in Tasks : state'[t] = "none" <=> state[t] = "none"
      BY <1>1, <1>5, <2>2, <2>5 DEF Runnable
    <3> QED
      BY <3>1 DEF IndInv, Created
  <2>8. ASSUME NEW t \in Tasks \ {Main}, t < next_pid, t # code
        PROVE  state'[t] = "SUSPENDED"
    <3>1. state[t] = "SUSPENDED"
      BY <2>8 DEF IndInv, OneProgram
    <3>2. t # current /\ st[t] = "SUSPENDED"
      BY <3>1, <2>5
    <3>3. t # n
      BY <3>2, <1>1, <1>5 DEF Runnable
    <3> QED
      BY <2>2, <3>2, <3>3
  <2> QED
    BY <1>2, <2>1, <2>3, <2>4, <2>6, <2>7, <2>8
<1> QED
  BY <1>4, <1>5

\* Only the program that is in the buffer runs, beside the kernel thread.
LEMMA ProgramRuns ==
  ASSUME IndInv, current # Main
  PROVE  /\ active /\ current = code /\ current \in Tasks
         /\ stage \in {"link", "close", "wait"} /\ job # NotNEX
<1>1. active /\ current \in Tasks \ {Main}
  BY DEF IndInv, SchedTypeOK, Unborn
<1>2. state[current] = "RUNNING"
  BY <1>1 DEF IndInv, SchedTypeOK, OneRunning
<1>3. current < next_pid
  BY <1>1, <1>2, SchedAssumption DEF IndInv, SchedTypeOK, Created, Tasks
<1>4. current = code
  BY <1>1, <1>2, <1>3 DEF IndInv, OneProgram
<1>5. code # Null
  BY <1>1, <1>4 DEF Tasks, Null
<1> QED
  BY <1>1, <1>4, <1>5 DEF IndInv, OneProgram

\* Work that is done leaves a program that is still one.
LEMMA WorkLeftIsWork ==
  ASSUME job \in Files, job # NotNEX, job # 0
  PROVE  WorkLeft \in Files /\ WorkLeft # NotNEX
BY SchedAssumption DEF WorkLeft, Files, NotNEX, Forever

\* Where the kernel thread is while it builds a task
LEMMA MainTypes ==
  ASSUME IndInv
  PROVE  /\ MaxTasks \in Nat \ {0} /\ Main \in Tasks /\ Null \notin Tasks
         /\ next_pid \in Nat /\ next_pid <= MaxTasks + 1 /\ current \in Tasks
BY SchedAssumption DEF IndInv, SchedTypeOK, Tasks, Main, Null

\* The end of the ring is the youngest task before the new one.
LEMMA LastTaskIsLast ==
  ASSUME IndInv, stage = "link"
  PROVE  LastTask = NewTask - 1 /\ NewTask - 1 \in Tasks
<1>1. /\ next_pid >= 2 /\ next_pid \in Nat /\ next_pid <= MaxTasks + 1
      /\ Ring(NewTask) /\ next[NewTask] = Null
  BY MainTypes DEF IndInv, Listed
<1>2. NewTask - 1 \in Tasks /\ next[NewTask - 1] = Main
  BY <1>1, MainTypes DEF NewTask, Tasks, Ring
<1>3. ASSUME NEW t \in Tasks, next[t] = Main
      PROVE  t = NewTask - 1
  <2>1. CASE t < NewTask
    BY <1>1, <1>3, <2>1 DEF NewTask, Tasks, Ring, Main
  <2>2. CASE t = NewTask
    BY <1>1, <1>3, <2>2 DEF Main, Null
  <2>3. CASE t > NewTask
    <3>1. t >= next_pid
      BY <1>1, <2>3 DEF NewTask, Tasks
    <3>2. next[t] = Null
      BY <3>1 DEF IndInv, Created
    <3> QED
      BY <3>2, <1>3 DEF Main, Null
  <2> QED
    BY <1>1, <2>1, <2>2, <2>3 DEF NewTask, Tasks
<1> QED
  BY <1>2, <1>3 DEF LastTask

\* exec before it looks at the scheduler
LEMMA LoadKeeps ==
  ASSUME IndInv, NEW f \in Files, Load(f)
  PROVE  IndInv'
<1> USE DEF Load, MainAt, Up, sched
<1>1. SchedTypeOK'
  BY SchedAssumption DEF IndInv, SchedTypeOK
<1>2. OneRunning' /\ Unborn' /\ Created'
  BY DEF IndInv, OneRunning, Unborn, Created
<1>3. Listed'
  BY DEF IndInv, Listed, Ring
<1>4. OneProgram'
  BY DEF IndInv, OneProgram
<1>5. Provided'
  BY SchedAssumption DEF IndInv, SchedTypeOK, Provided
<1> QED
  BY <1>1, <1>2, <1>3, <1>4, <1>5 DEF IndInv

LEMMA RejectKeeps ==
  ASSUME IndInv, Reject
  PROVE  IndInv'
<1> USE DEF Reject, MainAt, Up, sched
<1>1. SchedTypeOK'
  BY SchedAssumption DEF IndInv, SchedTypeOK, Provided, Files
<1>2. OneRunning' /\ Unborn' /\ Created'
  BY DEF IndInv, OneRunning, Unborn, Created
<1>3. Listed'
  BY DEF IndInv, Listed, Ring
<1>4. OneProgram'
  BY DEF IndInv, OneProgram
<1>5. Provided'
  BY DEF Provided
<1> QED
  BY <1>1, <1>2, <1>3, <1>4, <1>5 DEF IndInv

\* Nothing but the machine stops.
LEMMA StopKeeps ==
  ASSUME IndInv, machine' \in {"up", "locked", "wild"},
         UNCHANGED <<paging, sched, mem, stage, job, code>>
  PROVE  IndInv'
BY DEF sched, IndInv, SchedTypeOK, OneRunning, Unborn, Created, Listed, Ring, OneProgram, Provided,
       NewTask

LEMMA InitSchedulerKeeps ==
  ASSUME IndInv, init_scheduler
  PROVE  IndInv'
<1>1. CASE mem = 0
  BY <1>1, StopKeeps DEF init_scheduler, NullWrite
<1>2. CASE mem # 0
  <2> USE DEF MainAt, Up
  <2>1. /\ next_pid = 0 /\ current = Main /\ stage = "loaded" /\ next_pid' = 1 /\ active'
        /\ state' = [state EXCEPT ![Main] = "RUNNING"]
        /\ next' = [next EXCEPT ![Main] = Main] /\ mem' = mem - 1
        /\ UNCHANGED <<paging, machine, current, stage, job, code>>
    BY <1>2 DEF init_scheduler, IndInv, Unborn
  <2>2. /\ Main \in Tasks /\ Main = 0 /\ state \in [Tasks -> States]
        /\ next \in [Tasks -> Tasks \cup {Null}]
    BY MainTypes DEF IndInv, SchedTypeOK, Main
  <2>3. /\ \A t \in Tasks : state'[t] = IF t = Main THEN "RUNNING" ELSE "none"
        /\ \A t \in Tasks : next'[t] = IF t = Main THEN Main ELSE Null
    BY <2>1, <2>2 DEF IndInv, Created, Tasks
  <2>4. SchedTypeOK'
    <3>1. state' \in [Tasks -> States] /\ next' \in [Tasks -> Tasks \cup {Null}]
      BY <2>1, <2>2 DEF States
    <3>2. mem' \in 0 .. MemUnits /\ next_pid' \in 0 .. (MaxTasks + 1) /\ active' \in BOOLEAN
      BY <1>2, <2>1, SchedAssumption DEF IndInv, SchedTypeOK
    <3>3. state'[Main] \in Runnable
      BY <2>2, <2>3 DEF Runnable
    <3> QED
      BY <2>1, <3>1, <3>2, <3>3 DEF IndInv, SchedTypeOK
  <2>5. OneRunning' /\ Unborn'
    BY <2>1, <2>3 DEF OneRunning, Unborn
  <2>6. Created'
    BY <2>1, <2>2, <2>3 DEF Created, Tasks
  <2>7. Listed'
    BY <2>1, <2>2, <2>3 DEF Listed, Ring, Tasks
  <2>8. OneProgram'
    BY <2>1, <2>2 DEF IndInv, OneProgram, Tasks
  <2>9. Provided'
    BY <1>2, <2>1, SchedAssumption DEF IndInv, SchedTypeOK, Provided
  <2> QED
    BY <2>4, <2>5, <2>6, <2>7, <2>8, <2>9 DEF IndInv
<1> QED
  BY <1>1, <1>2

LEMMA BuildTaskKeeps ==
  ASSUME IndInv, BuildTask
  PROVE  IndInv'
<1>1. CASE mem < 3
  BY <1>1, StopKeeps DEF BuildTask, NullWrite
<1>2. CASE ~(mem < 3)
  <2> USE DEF MainAt, Up
  <2>1. /\ current = Main /\ stage = "loaded" /\ stage' = "link" /\ active
        /\ next_pid' = next_pid + 1 /\ code' = next_pid /\ mem' = mem - 3 /\ job # NotNEX
        /\ state' = [state EXCEPT ![next_pid] = "READY"]
        /\ UNCHANGED <<paging, machine, active, current, next, job>>
    BY <1>2 DEF BuildTask
  <2>2. /\ next_pid \in Tasks /\ next_pid # Main /\ next_pid >= 1
        /\ Main \in Tasks /\ next_pid \in Nat /\ MaxTasks \in Nat
        /\ state \in [Tasks -> States] /\ state[Main] \in Runnable
    BY <2>1, MainTypes DEF IndInv, SchedTypeOK, Created, Provided, Tasks, Main
  <2>3. \A t \in Tasks : state'[t] = IF t = next_pid THEN "READY" ELSE state[t]
    BY <2>1, <2>2
  <2>4. SchedTypeOK'
    <3>1. state' \in [Tasks -> States]
      BY <2>1, <2>2 DEF States
    <3>2. mem' \in 0 .. MemUnits /\ next_pid' \in 0 .. (MaxTasks + 1)
      BY <1>2, <2>1, <2>2, SchedAssumption DEF IndInv, SchedTypeOK, Tasks
    <3>3. state'[Main] \in Runnable
      BY <2>2, <2>3
    <3> QED
      BY <2>1, <2>2, <3>1, <3>2, <3>3 DEF IndInv, SchedTypeOK
  <2>5. OneRunning' /\ Unborn'
    BY <2>1, <2>2, <2>3 DEF IndInv, OneRunning, Unborn
  <2>6. Created'
    <3>1. \A t \in Tasks : state'[t] = "none" <=> t >= next_pid + 1
      <4> TAKE t \in Tasks
      <4>1. t \in Nat /\ (state[t] = "none" <=> t >= next_pid)
        BY DEF IndInv, Created, Tasks
      <4> QED
        BY <4>1, <2>2, <2>3
    <3>2. \A t \in Tasks : t >= next_pid + 1 => next[t] = Null
      BY <2>2 DEF IndInv, Created, Tasks
    <3> QED
      BY <2>1, <2>2, <3>1, <3>2 DEF Created
  <2>7. Listed'
    <3>1. Ring(next_pid) /\ next[next_pid] = Null
      BY <2>1, <2>2 DEF IndInv, Listed, Created
    <3>2. NewTask' = next_pid
      BY <2>1, <2>2 DEF NewTask
    <3> QED
      BY <2>1, <2>2, <3>1, <3>2 DEF Listed, Ring
  <2>8. OneProgram'
    <3>1. NewTask' = next_pid
      BY <2>1, <2>2 DEF NewTask
    <3>2. code = Null
      BY <2>1 DEF IndInv, OneProgram
    <3>3. ASSUME NEW t \in Tasks \ {Main}, t < next_pid + 1, t # next_pid
          PROVE  state'[t] = "SUSPENDED"
      <4>1. t < next_pid /\ t # code
        BY <3>2, <3>3, <2>2 DEF Tasks, Null
      <4>2. state[t] = "SUSPENDED"
        BY <4>1 DEF IndInv, OneProgram
      <4> QED
        BY <4>2, <3>3, <2>3
    <3> QED
      BY <2>1, <3>1, <3>3 DEF OneProgram
  <2>9. Provided'
    BY <1>2, <2>1, SchedAssumption DEF IndInv, SchedTypeOK, Provided
  <2> QED
    BY <2>4, <2>5, <2>6, <2>7, <2>8, <2>9 DEF IndInv
<1> QED
  BY <1>1, <1>2

LEMMA LinkTaskKeeps ==
  ASSUME IndInv, LinkTask
  PROVE  IndInv'
<1> USE DEF MainAt, Up
<1>1. /\ stage = "link" /\ stage' = "close" /\ next' = [next EXCEPT ![NewTask - 1] = NewTask]
      /\ UNCHANGED <<paging, machine, active, current, state, next_pid, mem, job, code>>
  BY LastTaskIsLast DEF LinkTask
<1>2. /\ NewTask \in Tasks /\ NewTask - 1 \in Tasks /\ next_pid \in Nat /\ next_pid >= 2
      /\ next \in [Tasks -> Tasks \cup {Null}] /\ NewTask = next_pid - 1
      /\ Ring(NewTask) /\ next[NewTask] = Null
  BY <1>1, MainTypes DEF IndInv, SchedTypeOK, Listed, NewTask, Tasks
<1>3. \A t \in Tasks : next'[t] = IF t = NewTask - 1 THEN NewTask ELSE next[t]
  BY <1>1, <1>2
<1>4. SchedTypeOK'
  BY <1>1, <1>2 DEF IndInv, SchedTypeOK
<1>5. OneRunning' /\ Unborn' /\ OneProgram' /\ Provided'
  BY <1>1 DEF IndInv, OneRunning, Unborn, OneProgram, Provided, NewTask
<1>6. Created'
  BY <1>1, <1>2, <1>3 DEF IndInv, Created, Tasks
<1>7. Listed'
  <2>1. \A t \in Tasks : t < NewTask => next'[t] = t + 1
    BY <1>2, <1>3 DEF Ring, Tasks
  <2>2. next'[NewTask] = Null
    BY <1>2, <1>3
  <2> QED
    BY <1>1, <1>2, <2>1, <2>2 DEF Listed, NewTask
<1> QED
  BY <1>4, <1>5, <1>6, <1>7 DEF IndInv

LEMMA CloseRingKeeps ==
  ASSUME IndInv, CloseRing
  PROVE  IndInv'
<1> USE DEF MainAt, Up
<1>1. /\ stage = "close" /\ stage' = "wait" /\ next' = [next EXCEPT ![NewTask] = Main]
      /\ UNCHANGED <<paging, machine, active, current, state, next_pid, mem, job, code>>
  BY DEF CloseRing
<1>2. /\ NewTask \in Tasks /\ Main \in Tasks /\ next_pid \in Nat /\ next_pid >= 2
      /\ next \in [Tasks -> Tasks \cup {Null}] /\ NewTask = next_pid - 1
      /\ \A t \in Tasks : t < NewTask => next[t] = t + 1
  BY <1>1, MainTypes DEF IndInv, SchedTypeOK, Listed, NewTask, Tasks
<1>3. \A t \in Tasks : next'[t] = IF t = NewTask THEN Main ELSE next[t]
  BY <1>1, <1>2
<1>4. SchedTypeOK'
  BY <1>1, <1>2 DEF IndInv, SchedTypeOK
<1>5. OneRunning' /\ Unborn' /\ OneProgram' /\ Provided'
  BY <1>1 DEF IndInv, OneRunning, Unborn, OneProgram, Provided, NewTask
<1>6. Created'
  BY <1>1, <1>2, <1>3 DEF IndInv, Created, Tasks
<1>7. Listed'
  <2>1. \A t \in Tasks : t < next_pid => next'[t] = IF t + 1 = next_pid THEN Main ELSE t + 1
    BY <1>2, <1>3 DEF Tasks
  <2> QED
    BY <1>1, <1>2, <2>1 DEF Listed, Ring
<1> QED
  BY <1>4, <1>5, <1>6, <1>7 DEF IndInv

LEMMA ExecReturnKeeps ==
  ASSUME IndInv, ExecReturn
  PROVE  IndInv'
<1> USE DEF MainAt, Up, ExecReturn, sched
<1>1. SchedTypeOK'
  BY SchedAssumption DEF IndInv, SchedTypeOK, Provided, Files
<1>2. OneRunning' /\ Unborn' /\ Created' /\ Provided'
  BY DEF IndInv, OneRunning, Unborn, Created, Provided
<1>3. Listed'
  BY DEF IndInv, Listed, Ring
<1>4. OneProgram'
  BY DEF IndInv, OneProgram
<1> QED
  BY <1>1, <1>2, <1>3, <1>4 DEF IndInv
-----------------------------------------------------------------------------

LEMMA TickKeeps ==
  ASSUME IndInv, TimerTick
  PROVE  IndInv'
<1>1. /\ active /\ task_switch(state) /\ state \in [Tasks -> States] /\ state[Main] \in Runnable
      /\ UNCHANGED <<paging, active, next, next_pid, mem, stage, job, code>>
  BY DEF TimerTick, IndInv, SchedTypeOK
<1>2. state[current] = "RUNNING"
  BY <1>1 DEF IndInv, SchedTypeOK, OneRunning
<1> USE <1>1, <1>2, SwitchKeeps
<1>3. SchedTypeOK'
  BY DEF IndInv, SchedTypeOK
<1>4. OneRunning' /\ Unborn' /\ Created' /\ Listed'
  OBVIOUS
<1>5. OneProgram' /\ Provided'
  BY DEF IndInv, OneProgram, Provided, NewTask
<1> QED
  BY <1>3, <1>4, <1>5 DEF IndInv

LEMMA ComputeKeeps ==
  ASSUME IndInv, Compute
  PROVE  IndInv'
<1> USE DEF Compute, InProgram, sched
<1>1. job' \in Files /\ job' # NotNEX
  BY ProgramRuns, WorkLeftIsWork, SchedAssumption DEF IndInv, SchedTypeOK, Files, NotNEX, Forever
<1>2. SchedTypeOK'
  BY <1>1 DEF IndInv, SchedTypeOK
<1>3. OneRunning' /\ Unborn' /\ Created' /\ Provided'
  BY DEF IndInv, OneRunning, Unborn, Created, Provided
<1>4. Listed' /\ OneProgram'
  BY <1>1 DEF IndInv, Listed, Ring, OneProgram, NewTask
<1> QED
  BY <1>2, <1>3, <1>4 DEF IndInv

LEMMA YieldKeeps ==
  ASSUME IndInv, Yield
  PROVE  IndInv'
<1>1. /\ active /\ task_switch(state) /\ state \in [Tasks -> States] /\ state[Main] \in Runnable
      /\ UNCHANGED <<paging, active, next, next_pid, mem, stage, code>>
  BY ProgramRuns DEF Yield, InProgram, IndInv, SchedTypeOK
<1>2. state[current] = "RUNNING"
  BY <1>1 DEF IndInv, SchedTypeOK, OneRunning
<1>3. job' \in Files /\ job' # NotNEX
  BY ProgramRuns, WorkLeftIsWork DEF Yield, InProgram, IndInv, SchedTypeOK
<1> USE <1>1, <1>2, SwitchKeeps
<1>4. SchedTypeOK'
  BY <1>3 DEF IndInv, SchedTypeOK
<1>5. OneRunning' /\ Unborn' /\ Created' /\ Listed'
  OBVIOUS
<1>6. OneProgram' /\ Provided'
  BY <1>3 DEF IndInv, OneProgram, Provided, NewTask
<1> QED
  BY <1>4, <1>5, <1>6 DEF IndInv

LEMMA ExitKeeps ==
  ASSUME IndInv, Exit
  PROVE  IndInv'
<1> DEFINE st == [state EXCEPT ![current] = "SUSPENDED"]
<1>1. /\ active /\ task_switch(st) /\ current # Main /\ current \in Tasks
      /\ UNCHANGED <<paging, active, next, next_pid, mem, stage, job, code>>
  BY ProgramRuns DEF Exit, InProgram
<1>2. /\ st \in [Tasks -> States] /\ st[Main] \in Runnable /\ st[current] = "SUSPENDED"
      /\ \A t \in Tasks : t # current => st[t] = state[t]
  BY <1>1, MainTypes DEF IndInv, SchedTypeOK, States
<1> HIDE DEF st
<1> USE <1>1, <1>2, SwitchKeeps
<1>3. SchedTypeOK'
  BY DEF IndInv, SchedTypeOK
<1>4. OneRunning' /\ Unborn' /\ Created' /\ Listed'
  OBVIOUS
<1>5. OneProgram' /\ Provided'
  BY DEF IndInv, OneProgram, Provided, NewTask
<1> QED
  BY <1>3, <1>4, <1>5 DEF IndInv

-----------------------------------------------------------------------------
(* The theorems. *)

\* Every step keeps the inductive invariant.
LEMMA NextKeepsIndInv ==
  ASSUME IndInv, [SchedNext]_schedVars
  PROVE  IndInv'
<1>1. CASE \E f \in Files : Load(f)
  BY <1>1, LoadKeeps
<1>2. CASE ExecStep
  BY <1>2, RejectKeeps, InitSchedulerKeeps, BuildTaskKeeps, LinkTaskKeeps, CloseRingKeeps,
     ExecReturnKeeps DEF ExecStep
<1>3. CASE PageFault
  BY <1>3, StopKeeps DEF PageFault
<1>4. CASE UserStep
  BY <1>3, <1>4, ComputeKeeps, YieldKeeps, ExitKeeps DEF UserStep
<1>5. CASE TimerTick
  BY <1>5, TickKeeps
<1>6. CASE UNCHANGED schedVars
  <2>1. UNCHANGED <<paging, sched, mem, stage, job, code>> /\ machine' \in {"up", "locked", "wild"}
    BY <1>6 DEF schedVars, sched, IndInv, SchedTypeOK
  <2> QED
    BY <2>1, StopKeeps
<1> QED
  BY <1>1, <1>2, <1>4, <1>5, <1>6 DEF SchedNext

\* The inductive invariant holds whatever is executed, and whenever the timer strikes.
THEOREM IndInvInvariant == SchedSpec => []IndInv
<1>1. SchedInit => IndInv
  BY InitIndInv
<1>2. IndInv /\ [SchedNext]_schedVars => IndInv'
  BY NextKeepsIndInv
<1> QED
  BY <1>1, <1>2, PTL DEF SchedSpec

\* It says of the ring what the scheduler relies on.
LEMMA RingIsClosed ==
  ASSUME IndInv
  PROVE  RingClosed
<1> SUFFICES ASSUME active, stage \notin {"link", "close"}, NEW t \in 0 .. (next_pid - 1)
             PROVE  next[t] = (t + 1) % next_pid
  BY DEF RingClosed
<1>1. next_pid \in Nat /\ next_pid >= 1 /\ t \in Tasks /\ t < next_pid /\ t \in Nat
  BY MainTypes DEF IndInv, Created, Tasks
<1>2. next[t] = IF t + 1 = next_pid THEN Main ELSE t + 1
  BY <1>1 DEF IndInv, Listed, Ring
<1>3. (t + 1) % next_pid = IF t + 1 = next_pid THEN 0 ELSE t + 1
  BY <1>1
<1> QED
  BY <1>2, <1>3 DEF Main

\* Between the steps of task_create the queue is one ring through every task, and exactly
\* the current task is RUNNING, for any number of programs, however they end, yield or are
\* preempted: the tick may come between any two steps of exec.
THEOREM SchedInvInvariant == SchedSpec => []SchedInv
<1>1. IndInv => SchedInv
  BY RingIsClosed DEF SchedInv, IndInv
<1> QED
  BY <1>1, IndInvInvariant, PTL

\* A task that a switch can go to has its code: exec frees the buffer only when the last
\* program that ran from it is suspended for good.
THEOREM RunnableHasCodeInvariant == SchedSpec => []RunnableHasCode
<1>1. ASSUME IndInv
      PROVE  RunnableHasCode
  <2> SUFFICES ASSUME NEW t \in Tasks \ {Main}, state[t] \in Runnable
               PROVE  code = t
    BY DEF RunnableHasCode
  <2>1. t < next_pid
    BY <1>1, MainTypes DEF IndInv, Created, Runnable, Tasks
  <2> QED
    BY <1>1, <2>1 DEF IndInv, OneProgram, Runnable
<1> QED
  BY <1>1, IndInvInvariant, PTL
=============================================================================
