-------------------------- MODULE TaskSchedProofs --------------------------
(***************************************************************************)
(* Proofs about TaskSched for any number of CPUs and tasks, any process    *)
(* tree and any set of system calls.                                       *)
(***************************************************************************)
EXTENDS TaskSched, SequenceTheorems, TLAPS

(* The prover of the steps that name none. *)
USE ZenonT(60)

-----------------------------------------------------------------------------
(***************************************************************************)
(* What list_add() and list_del() do to the task list.                     *)
(***************************************************************************)
(* list_add() puts one task in front and keeps the rest. *)
LEMMA ListAdd ==
  ASSUME NEW S, NEW s \in Seq(S), NEW x \in S
  PROVE  LET r == <<x>> \o s
         IN /\ r \in Seq(S)
            /\ Len(r) = Len(s) + 1
            /\ r[1] = x
            /\ \A i \in 1 .. Len(s) : r[i + 1] = s[i]
  BY SMT, Z3T(30), ConcatProperties

(* list_del() of the entry at position i keeps the others, in order. *)
LEMMA ListDel ==
  ASSUME NEW S, NEW s \in Seq(S), NEW i \in DOMAIN s
  PROVE  LET r == [j \in 1 .. Len(s) - 1 |-> s[IF j < i THEN j ELSE j + 1]]
         IN /\ r \in Seq(S)
            /\ Len(r) = Len(s) - 1
            /\ DOMAIN r = 1 .. Len(s) - 1
<1> DEFINE r == [j \in 1 .. Len(s) - 1 |-> s[IF j < i THEN j ELSE j + 1]]
<1>1. Len(s) \in Nat /\ DOMAIN s = 1 .. Len(s) /\ i \in 1 .. Len(s)
  BY LenProperties
<1>2. \A j \in 1 .. Len(s) : s[j] \in S
  BY ElementOfSeq
<1>3. r \in [1 .. Len(s) - 1 -> S]
  BY SMT, Z3T(30), <1>1, <1>2
<1>4. Len(s) - 1 \in Nat
  BY SMT, Z3T(30), <1>1
<1>5. r \in Seq(S)
  BY SMT, Z3T(30), <1>3, <1>4, SeqDef
<1> QED
  BY SMT, Z3T(30), <1>3, <1>4, <1>5, LenProperties

-----------------------------------------------------------------------------
(* TypeOK is inductive. *)
LEMMA TypeOKInit == Init => TypeOK
<1> SUFFICES ASSUME Init PROVE TypeOK
  OBVIOUS
<1>1. <<init_task>> \in Seq(Tasks)
  BY SMT, Z3T(30), TasksAssumption DEF TasksAssumption
<1>2. /\ schedule \in [Cpus -> BOOLEAN]
      /\ handle_events \in [Cpus -> BOOLEAN]
      /\ ipi \in [Cpus -> BOOLEAN]
      /\ bug \in BOOLEAN
  BY DEF Init
<1>3. /\ pc \in [Cpus -> Places]
      /\ local \in [Cpus -> Tasks \cup {NULL}]
      /\ current_task \in [Cpus -> Tasks \cup {NULL}]
  BY TasksAssumption DEF TasksAssumption, Init, Places
<1>4. \A c \in Cpus : pc[c] \in {"enqueue", "kick"} => local[c] # NULL
  BY TasksAssumption DEF TasksAssumption, Init
<1>5. /\ state \in [Tasks -> States]
      /\ on_cpu \in [Tasks -> Cpus \cup {TASK_NO_CPU}]
      /\ wfe \in [Tasks -> WfeTypes]
      /\ wfe_pid \in [Tasks -> Tasks \cup {ANY}]
      /\ parent \in [Tasks -> Tasks \cup {NULL}]
      /\ timer \in [Tasks -> TimerStates]
      /\ reader \in Tasks \cup {NULL}
  BY DEF Init, States, WfeTypes, TimerStates
<1> QED
  BY <1>1, <1>2, <1>3, <1>4, <1>5 DEF Init, TypeOK

LEMMA TypeOKCalling ==
  ASSUME TypeOK, NEW c \in Cpus, NEW t \in Tasks, Calling(c, t)
  PROVE  TypeOK'
<1> USE DEF TypeOK, States, WfeTypes, TimerStates, Places, Bug, Goto, Resched,
            Syscall, taskVars, cpuVars
<1>1. CASE SysOther(c, t)
  BY <1>1 DEF SysOther
<1>2. CASE SysSchedYield(c, t)
  BY <1>2 DEF SysSchedYield
<1>3. ASSUME NEW new \in Tasks, SysFork(c, t, new) PROVE TypeOK'
  BY <1>3, TasksAssumption DEF SysFork, TasksAssumption
<1>4. CASE SysNanosleep(c, t)
  BY <1>4 DEF SysNanosleep
<1>5. CASE SysReadBlocks(c, t)
  BY <1>5 DEF SysReadBlocks
<1>6. ASSUME NEW pid \in Tasks \cup {ANY}, SysWaitNoChild(c, t, pid)
      PROVE  TypeOK'
  BY <1>6 DEF SysWaitNoChild
<1>7. ASSUME NEW pid \in Tasks \cup {ANY}, NEW child \in Tasks,
             SysWaitReaps(c, t, pid, child)
      PROVE  TypeOK'
  BY <1>7 DEF SysWaitReaps
<1>8. ASSUME NEW pid \in Tasks \cup {ANY}, SysWaitBlocks(c, t, pid)
      PROVE  TypeOK'
  BY <1>8 DEF SysWaitBlocks, TaskReleaseCpu
<1>9. CASE TaskExit(c, t)
  <2>1. PICK i \in DOMAIN task_list :
          task_list' = [j \in 1 .. Len(task_list) - 1 |->
                          task_list[IF j < i THEN j ELSE j + 1]]
    BY <1>9 DEF TaskExit, TaskDequeue
  <2>2. task_list' \in Seq(Tasks)
    BY SMT, Z3T(30), <2>1, ListDel
  <2> QED
    BY <1>9, <2>2 DEF TaskExit
<1> QED
  BY <1>1, <1>2, <1>3, <1>4, <1>5, <1>6, <1>7, <1>8, <1>9 DEF Calling

LEMMA TypeOKKernel ==
  ASSUME TypeOK, NEW c \in Cpus, Kernel(c)
  PROVE  TypeOK'
<1> USE TasksAssumption
    DEF TypeOK, States, WfeTypes, TimerStates, Places, Bug, Goto, Resched,
        taskVars, cpuVars, TasksAssumption
<1>1. CASE TaskEnqueue(c)
  BY SMT, Z3T(30), <1>1 DEF TaskEnqueue
<1>2. CASE SchedAll(c)
  BY <1>2 DEF SchedAll
<1>3. CASE TaskExitDead(c)
  <2>1. Reparented(current_task[c]) \in [Tasks -> Tasks \cup {NULL}]
    BY DEF Reparented
  <2>2. parent' \in [Tasks -> Tasks \cup {NULL}]
    BY <1>3, <2>1 DEF TaskExitDead
  <2>3. state' \in [Tasks -> States]
    BY SMT, Z3T(30), <1>3 DEF TaskExitDead
  <2>4. wfe' \in [Tasks -> WfeTypes]
    BY <1>3 DEF TaskExitDead
  <2>5. on_cpu' \in [Tasks -> Cpus \cup {TASK_NO_CPU}]
    BY <1>3 DEF TaskExitDead, TaskReleaseCpu
  <2> QED
    BY <1>3, <2>2, <2>3, <2>4, <2>5 DEF TaskExitDead
<1>4. CASE NoEvents(c)
  BY <1>4 DEF NoEvents
<1>5. CASE TaskHandleEvents(c)
  BY <1>5 DEF TaskHandleEvents
<1>6. CASE NoSchedule(c)
  BY <1>6 DEF NoSchedule
<1>7. CASE Schedule(c)
  <2>1. PICK task \in Tasks \cup {NULL} : TaskActivate(c, task)
    BY <1>7 DEF Schedule
  <2>2. state' \in [Tasks -> States]
    BY SMT, Z3T(30), <2>1 DEF TaskActivate
  <2>3. on_cpu' \in [Tasks -> Cpus \cup {TASK_NO_CPU}]
    BY SMT, Z3T(30), <2>1 DEF TaskActivate
  <2>4. current_task' \in [Cpus -> Tasks \cup {NULL}]
    BY SMT, Z3T(30), <2>1 DEF TaskActivate
  <2>5. bug' \in BOOLEAN
    BY <2>1 DEF TaskActivate
  <2> QED
    BY <1>7, <2>2, <2>3, <2>4, <2>5 DEF Schedule
<1>8. CASE DoIdle(c)
  BY <1>8 DEF DoIdle
<1>9. CASE WaitForInterrupt(c)
  BY <1>9 DEF WaitForInterrupt
<1>10. CASE ReturnToUser(c)
  BY <1>10 DEF ReturnToUser
<1> QED
  BY Kernel(c), <1>1, <1>2, <1>3, <1>4, <1>5, <1>6, <1>7, <1>8, <1>9, <1>10
  DEF Kernel

(* TypeOK is an invariant. *)
THEOREM TypeCorrect == Spec => []TypeOK
<1>1. TypeOK /\ [Next]_vars => TypeOK'
  <2> SUFFICES ASSUME TypeOK, [Next]_vars PROVE TypeOK'
    OBVIOUS
  <2> USE TasksAssumption
      DEF TypeOK, States, WfeTypes, TimerStates, Places, Goto, Resched,
          taskVars, cpuVars, TasksAssumption
  <2>1. ASSUME NEW c \in Cpus, NEW t \in Tasks, Calling(c, t) PROVE TypeOK'
    BY <2>1, TypeOKCalling
  <2>2. ASSUME NEW c \in Cpus, Kernel(c) PROVE TypeOK'
    BY <2>2, TypeOKKernel
  <2>3. ASSUME NEW c \in Cpus, IrqSoft(c) PROVE TypeOK'
    BY <2>3 DEF IrqSoft, AfterIrq
  <2>4. ASSUME NEW c \in Cpus, IrqTimer(c) PROVE TypeOK'
    BY <2>4 DEF IrqTimer, AfterIrq
  <2>5. ASSUME NEW c \in Cpus, IrqExt(c) PROVE TypeOK'
    BY <2>5 DEF IrqExt
  <2>6. ASSUME NEW t \in Tasks, TimeExpire(t) PROVE TypeOK'
    BY <2>6 DEF TimeExpire
  <2>7. CASE UNCHANGED vars
    BY <2>7 DEF vars
  <2> QED
    BY <2>1, <2>2, <2>3, <2>4, <2>5, <2>6, <2>7 DEF Next
<1> QED
  BY <1>1, TypeOKInit, PTL DEF Spec

-----------------------------------------------------------------------------
(***************************************************************************)
(* Ownership.  OneOwner is not inductive: that fork() hands out a slot     *)
(* that no CPU owns, and that nobody but its owner changes the state of a  *)
(* running task, needs the facts below.                                    *)
(***************************************************************************)
DeadIsUnowned ==
  \A t \in Tasks : state[t] \in {"FREE", "EXIT_DEAD"} => on_cpu[t] = TASK_NO_CPU

RunningHasCpu ==
  \A t \in Tasks : state[t] = "RUNNING" => on_cpu[t] # TASK_NO_CPU

(* The two fields that say that a task sleeps agree. *)
WfeMatchesState ==
  \A t \in Tasks : (wfe[t] # "NONE") <=> (state[t] = "WFE")

QueuedSleeps ==
  /\ \A t \in Tasks : timer[t] # "off" => wfe[t] = "TIMER"
  /\ \A t \in Tasks : reader = t => wfe[t] = "READ"

(* What a CPU knows of its current task at each place. *)
CurrentRuns ==
  \A c \in Cpus :
    /\ pc[c] \in {"user", "enqueue", "exit"} => current_task[c] # NULL
    /\ pc[c] \in {"idle", "wfi"} => current_task[c] = NULL
    /\ current_task[c] # NULL =>
         \/ state[current_task[c]] = "RUNNING"
         \/ pc[c] \in {"events", "sched"} /\ schedule[c]

OwnInv ==
  /\ OneOwner
  /\ DeadIsUnowned
  /\ RunningHasCpu
  /\ WfeMatchesState
  /\ QueuedSleeps
  /\ CurrentRuns

LEMMA OwnInit == Init => OwnInv
  BY SMT, Z3T(30), CpusAssumption, TasksAssumption
  DEF CpusAssumption, TasksAssumption, Init, OwnInv, OneOwner, DeadIsUnowned,
      RunningHasCpu, WfeMatchesState, QueuedSleeps, CurrentRuns

LEMMA OwnCalling ==
  ASSUME TypeOK, OwnInv, NEW c \in Cpus, NEW t \in Tasks, Calling(c, t)
  PROVE  OwnInv'
<1> USE CpusAssumption, TasksAssumption
    DEF CpusAssumption, TasksAssumption, TypeOK, OwnInv, OneOwner,
        DeadIsUnowned, RunningHasCpu, WfeMatchesState, QueuedSleeps,
        CurrentRuns, Goto, Resched, Syscall, taskVars
<1>1. CASE SysOther(c, t)
  BY SMT, Z3T(30), <1>1 DEF SysOther
<1>2. CASE SysSchedYield(c, t)
  BY SMT, Z3T(30), <1>2 DEF SysSchedYield
<1>3. ASSUME NEW new \in Tasks, SysFork(c, t, new) PROVE OwnInv'
  <2>1. on_cpu[new] = TASK_NO_CPU /\ wfe[new] = "NONE"
    BY <1>3 DEF SysFork
  <2>2. \A d \in Cpus : current_task[d] # new
    BY SMT, Z3T(30), <2>1
  <2>3. reader # new /\ timer[new] = "off"
    BY <2>1
  <2>4. OneOwner' /\ DeadIsUnowned' /\ RunningHasCpu'
    BY SMT, Z3T(30), <1>3, <2>1 DEF SysFork
  <2>5. WfeMatchesState' /\ QueuedSleeps'
    BY SMT, Z3T(30), <1>3, <2>1, <2>3 DEF SysFork
  <2>6. CurrentRuns'
    BY SMT, Z3T(30), <1>3, <2>2 DEF SysFork
  <2> QED
    BY <2>4, <2>5, <2>6
<1>4. CASE SysNanosleep(c, t)
  BY SMTT(20), Z3T(40), <1>4 DEF SysNanosleep
<1>5. CASE SysReadBlocks(c, t)
  BY SMT, Z3T(30), <1>5 DEF SysReadBlocks
<1>6. ASSUME NEW pid \in Tasks \cup {ANY}, SysWaitNoChild(c, t, pid)
      PROVE  OwnInv'
  BY SMT, Z3T(30), <1>6 DEF SysWaitNoChild
<1>7. ASSUME NEW pid \in Tasks \cup {ANY}, NEW child \in Tasks,
             SysWaitReaps(c, t, pid, child)
      PROVE  OwnInv'
  BY SMT, Z3T(30), <1>7 DEF SysWaitReaps, Dead
<1>8. ASSUME NEW pid \in Tasks \cup {ANY}, SysWaitBlocks(c, t, pid)
      PROVE  OwnInv'
  BY SMT, Z3T(30), <1>8 DEF SysWaitBlocks, TaskReleaseCpu
<1>9. CASE TaskExit(c, t)
  BY SMT, Z3T(30), <1>9 DEF TaskExit
<1> QED
  BY <1>1, <1>2, <1>3, <1>4, <1>5, <1>6, <1>7, <1>8, <1>9 DEF Calling

LEMMA OwnKernel ==
  ASSUME TypeOK, OwnInv, NEW c \in Cpus, Kernel(c)
  PROVE  OwnInv'
<1> USE CpusAssumption, TasksAssumption
    DEF CpusAssumption, TasksAssumption, TypeOK, OwnInv, OneOwner,
        DeadIsUnowned, RunningHasCpu, WfeMatchesState, QueuedSleeps,
        CurrentRuns, Goto, Resched, taskVars
<1>1. CASE TaskEnqueue(c)
  BY SMT, Z3T(30), <1>1 DEF TaskEnqueue
<1>2. CASE SchedAll(c)
  BY SMTT(20), Z3T(40), <1>2 DEF SchedAll
<1>3. CASE TaskExitDead(c)
  BY SMTT(20), Z3T(40), <1>3 DEF TaskExitDead, TaskReleaseCpu, WaitsFor
<1>4. CASE NoEvents(c)
  BY SMT, Z3T(30), <1>4 DEF NoEvents
<1>5. CASE TaskHandleEvents(c)
  BY SMT, Z3T(30), <1>5 DEF TaskHandleEvents
<1>6. CASE NoSchedule(c)
  BY SMT, Z3T(30), <1>6 DEF NoSchedule
<1>7. CASE Schedule(c)
  <2>1. PICK task \in Tasks \cup {NULL} : Picks(c, task) /\ TaskActivate(c, task)
    BY <1>7 DEF Schedule
  <2>2. task \in Tasks => \/ on_cpu[task] \in {TASK_NO_CPU, c}
                          \/ task = current_task[c]
    BY SMTT(20), Z3T(40), <2>1 DEF Picks, Eligible, TaskClaimable
  <2>3. task \in Tasks => state[task] # "WFE" /\ wfe[task] = "NONE"
    BY SMT, Z3T(30), <2>1 DEF Picks, Eligible
  <2>4. CASE task = current_task[c]
    <3>1. /\ state' = [t \in Tasks |-> IF t = task THEN "RUNNING" ELSE state[t]]
          /\ UNCHANGED <<on_cpu, current_task, wfe, timer, reader>>
      BY <1>7, <2>1, <2>4 DEF Schedule, TaskActivate
    <3>2. OneOwner' /\ DeadIsUnowned' /\ RunningHasCpu'
      BY SMT, Z3T(30), <2>4, <3>1
    <3>3. WfeMatchesState' /\ QueuedSleeps'
      BY SMTT(20), Z3T(40), <2>3, <3>1
    <3>4. CurrentRuns'
      BY SMT, Z3T(30), <1>7, <2>4, <3>1 DEF Schedule
    <3> QED
      BY <3>2, <3>3, <3>4
  <2>5. CASE task # current_task[c]
    <3>1. /\ state' = [t \in Tasks |->
               IF t = task THEN "RUNNING"
               ELSE IF t = current_task[c] /\ state[t] = "RUNNING" /\ on_cpu[t] = c
                 THEN "RUNNABLE"
               ELSE state[t]]
          /\ on_cpu' = [t \in Tasks |->
               IF t = task THEN c
               ELSE IF t = current_task[c] THEN TASK_NO_CPU
               ELSE on_cpu[t]]
          /\ current_task' = [current_task EXCEPT ![c] = task]
          /\ UNCHANGED <<wfe, timer, reader>>
      BY <1>7, <2>1, <2>5 DEF Schedule, TaskActivate
    <3>2. task \in Tasks => on_cpu[task] = TASK_NO_CPU
      BY SMT, Z3T(30), <2>2, <2>5
    <3>3. OneOwner'
      BY SMT, Z3T(30), <2>5, <3>1, <3>2
    <3>4. DeadIsUnowned' /\ RunningHasCpu'
      BY SMT, Z3T(30), <3>1
    <3>5. WfeMatchesState' /\ QueuedSleeps'
      BY SMTT(20), Z3T(40), <2>3, <3>1
    <3>6. CurrentRuns'
      BY SMT, Z3T(30), <1>7, <3>1, <3>2 DEF Schedule
    <3> QED
      BY <3>3, <3>4, <3>5, <3>6
  <2> QED
    BY <2>4, <2>5
<1>8. CASE DoIdle(c)
  BY SMT, Z3T(30), <1>8 DEF DoIdle
<1>9. CASE WaitForInterrupt(c)
  BY SMT, Z3T(30), <1>9 DEF WaitForInterrupt
<1>10. CASE ReturnToUser(c)
  BY SMT, Z3T(30), <1>10 DEF ReturnToUser
<1> QED
  BY Kernel(c), <1>1, <1>2, <1>3, <1>4, <1>5, <1>6, <1>7, <1>8, <1>9, <1>10
  DEF Kernel

LEMMA OwnStep == TypeOK /\ OwnInv /\ [Next]_vars => OwnInv'
<1> SUFFICES ASSUME TypeOK, OwnInv, [Next]_vars PROVE OwnInv'
  OBVIOUS
<1> USE CpusAssumption, TasksAssumption
    DEF CpusAssumption, TasksAssumption, TypeOK, OwnInv, OneOwner,
        DeadIsUnowned, RunningHasCpu, WfeMatchesState, QueuedSleeps,
        CurrentRuns, Goto, Resched, taskVars, cpuVars
<1>1. ASSUME NEW c \in Cpus, NEW t \in Tasks, Calling(c, t) PROVE OwnInv'
  BY <1>1, OwnCalling
<1>2. ASSUME NEW c \in Cpus, Kernel(c) PROVE OwnInv'
  BY <1>2, OwnKernel
<1>3. ASSUME NEW c \in Cpus, IrqSoft(c) PROVE OwnInv'
  BY SMT, Z3T(30), <1>3 DEF IrqSoft, AfterIrq, InterruptsOn
<1>4. ASSUME NEW c \in Cpus, IrqTimer(c) PROVE OwnInv'
  BY SMT, Z3T(30), <1>4 DEF IrqTimer, AfterIrq, InterruptsOn
<1>5. ASSUME NEW c \in Cpus, IrqExt(c) PROVE OwnInv'
  <2>1. CASE reader = NULL
    BY SMT, Z3T(30), <1>5, <2>1 DEF IrqExt, InterruptsOn
  <2>2. CASE reader # NULL
    <3>1. reader \in Tasks /\ wfe[reader] = "READ" /\ state[reader] = "WFE"
      BY <2>2
    <3>2. /\ state' = [state EXCEPT ![reader] = "RUNNABLE"]
          /\ wfe' = [wfe EXCEPT ![reader] = "NONE"]
          /\ reader' = NULL
          /\ schedule' = [schedule EXCEPT ![c] = TRUE]
          /\ UNCHANGED <<on_cpu, current_task, timer>>
      BY <1>5, <2>2 DEF IrqExt
    <3>3. OneOwner' /\ DeadIsUnowned' /\ RunningHasCpu'
      BY SMT, Z3T(30), <3>1, <3>2
    <3>4. WfeMatchesState' /\ QueuedSleeps'
      BY SMTT(20), Z3T(40), <3>1, <3>2
    <3>5. CurrentRuns'
      BY SMTT(20), Z3T(40), <1>5, <3>1, <3>2 DEF IrqExt, InterruptsOn
    <3> QED
      BY <3>3, <3>4, <3>5
  <2> QED
    BY <2>1, <2>2
<1>6. ASSUME NEW t \in Tasks, TimeExpire(t) PROVE OwnInv'
  BY SMT, Z3T(30), <1>6 DEF TimeExpire
<1>7. CASE UNCHANGED vars
  BY SMT, Z3T(30), <1>7 DEF vars
<1> QED
  BY <1>1, <1>2, <1>3, <1>4, <1>5, <1>6, <1>7 DEF Next

LEMMA OwnInvariant == Spec => []OwnInv
  BY TypeCorrect, OwnInit, OwnStep, PTL DEF Spec

(* No task is current on two CPUs: the on_cpu protocol of task_claimable() *)
(* and task_release_cpu() works for any number of CPUs and tasks.          *)
THEOREM OwnershipSafe == Spec => []OneOwner
<1>1. OwnInv => OneOwner
  BY DEF OwnInv
<1> QED
  BY <1>1, OwnInvariant, PTL

(* A CPU in user mode runs a RUNNING task, and every RUNNING task has a    *)
(* CPU: task_activate() and the sleeping calls keep state and owner in     *)
(* step.                                                                   *)
THEOREM RunningSafe == Spec => []RunningIsOwned
<1>1. OwnInv => RunningIsOwned
  BY DEF OwnInv, RunningHasCpu, CurrentRuns, RunningIsOwned
<1> QED
  BY <1>1, OwnInvariant, PTL

-----------------------------------------------------------------------------
(***************************************************************************)
(* The task list.                                                          *)
(***************************************************************************)
Live == {"RUNNABLE", "RUNNING", "WFE"}

Listed(t) == \E i \in DOMAIN task_list : task_list[i] = t

Pending(t) == \E c \in Cpus : pc[c] = "enqueue" /\ local[c] = t

Leaving(t) == \E c \in Cpus : pc[c] = "exit" /\ current_task[c] = t

ListUnique ==
  \A i, j \in DOMAIN task_list : task_list[i] = task_list[j] => i = j

(* A task is in the list, or on its way into it, or on its way out. *)
ListComplete ==
  \A t \in Tasks :
    (state[t] \in Live) <=> (Listed(t) \/ Pending(t) \/ Leaving(t))

(* A task that fork() made and has not enqueued is out of everybody's      *)
(* reach.                                                                  *)
PendingHidden ==
  \A c \in Cpus : pc[c] = "enqueue" =>
    /\ state[local[c]] = "RUNNABLE"
    /\ on_cpu[local[c]] = TASK_NO_CPU
    /\ ~Listed(local[c])
    /\ \A d \in Cpus : pc[d] = "enqueue" /\ local[d] = local[c] => d = c

LeavingUnlisted ==
  \A c \in Cpus : pc[c] = "exit" => ~Listed(current_task[c])

ListInv == ListUnique /\ ListComplete /\ PendingHidden /\ LeavingUnlisted

(* What most steps have in common: they change neither the list nor who    *)
(* belongs in it.                                                          *)
ListQuiet ==
  /\ task_list' = task_list
  /\ \A c \in Cpus : (pc'[c] = "enqueue") <=> (pc[c] = "enqueue")
  /\ \A c \in Cpus : (pc'[c] = "exit") <=> (pc[c] = "exit")
  /\ \A c \in Cpus : pc[c] = "enqueue" =>
       /\ local'[c] = local[c]
       /\ state'[local[c]] = "RUNNABLE"
       /\ on_cpu'[local[c]] = TASK_NO_CPU
  /\ \A c \in Cpus : pc[c] = "exit" => current_task'[c] = current_task[c]
  /\ \A t \in Tasks : (state'[t] \in Live) <=> (state[t] \in Live)

LEMMA QuietKeepsList == ListInv /\ ListQuiet => ListInv'
<1> SUFFICES ASSUME ListInv, ListQuiet PROVE ListInv'
  OBVIOUS
<1>1. \A t : Listed(t)' <=> Listed(t)
  BY DEF ListQuiet, Listed
<1>2. \A t : Pending(t)' <=> Pending(t)
  BY DEF ListQuiet, Pending
<1>3. \A t : Leaving(t)' <=> Leaving(t)
  BY DEF ListQuiet, Leaving
<1>4. ListUnique'
  BY DEF ListInv, ListQuiet, ListUnique
<1>5. ListComplete'
  BY <1>1, <1>2, <1>3 DEF ListInv, ListQuiet, ListComplete
<1>6. PendingHidden'
  BY SMT, Z3T(30), <1>1 DEF ListInv, ListQuiet, PendingHidden
<1>7. LeavingUnlisted'
  BY <1>1 DEF ListInv, ListQuiet, LeavingUnlisted
<1> QED
  BY <1>4, <1>5, <1>6, <1>7 DEF ListInv

LEMMA ListInit == Init => ListInv
<1> SUFFICES ASSUME Init PROVE ListInv
  OBVIOUS
<1>1. DOMAIN task_list = {1} /\ task_list[1] = init_task
  BY SMT, Z3T(30) DEF Init
<1>2. \A c \in Cpus : pc[c] \notin {"enqueue", "exit"}
  BY DEF Init
<1> QED
  BY <1>1, <1>2, TasksAssumption
  DEF TasksAssumption, Init, ListInv, ListUnique, ListComplete, PendingHidden,
      LeavingUnlisted, Listed, Pending, Leaving, Live

(* schedule() looks at listed tasks only. *)
LEMMA ScanOrderListed ==
  ASSUME TypeOK, NEW c \in Cpus, NEW i \in DOMAIN ScanOrder(c)
  PROVE  Listed(ScanOrder(c)[i])
<1>1. /\ task_list \in Seq(Tasks) /\ Len(task_list) \in Nat
      /\ DOMAIN task_list = 1 .. Len(task_list)
      /\ \A k \in 1 .. Len(task_list) : task_list[k] \in Tasks
  BY LenProperties, ElementOfSeq DEF TypeOK
<1>2. CASE \E k \in DOMAIN task_list : task_list[k] = current_task[c]
  <2> DEFINE k == CHOOSE k \in DOMAIN task_list : task_list[k] = current_task[c]
             a == SubSeq(task_list, k, Len(task_list))
             b == SubSeq(task_list, 1, k - 1)
  <2>1. k \in 1 .. Len(task_list)
    BY <1>1, <1>2
  <2> HIDE DEF k
  <2>2. /\ a \in Seq(Tasks) /\ Len(a) = Len(task_list) - k + 1
        /\ \A n \in 1 .. Len(a) : a[n] = task_list[k + n - 1]
    BY SMT, Z3T(30), <1>1, <2>1, SubSeqProperties
  <2>3. /\ b \in Seq(Tasks) /\ Len(b) = k - 1
        /\ \A n \in 1 .. Len(b) : b[n] = task_list[n]
    BY SMT, Z3T(30), <1>1, <2>1, SubSeqProperties
  <2>4. ScanOrder(c) = a \o b
    BY <1>2 DEF ScanOrder, k
  <2> HIDE DEF a, b
  <2>5. /\ a \o b \in Seq(Tasks) /\ Len(a \o b) = Len(a) + Len(b)
        /\ \A n \in 1 .. Len(a) + Len(b) :
             (a \o b)[n] = IF n <= Len(a) THEN a[n] ELSE b[n - Len(a)]
    BY <2>2, <2>3, ConcatProperties
  <2>6. i \in 1 .. Len(a) + Len(b)
    BY <2>4, <2>5, LenProperties
  <2>7. Len(a) \in Nat /\ Len(b) \in Nat
    BY <2>2, <2>3, LenProperties
  <2>8. CASE i <= Len(a)
    <3>1. i \in 1 .. Len(a)
      BY SMT, Z3T(30), <2>6, <2>7, <2>8
    <3>2. k + i - 1 \in 1 .. Len(task_list)
      BY SMT, Z3T(30), <1>1, <2>1, <2>2, <3>1
    <3>3. ScanOrder(c)[i] = a[i]
      BY <2>4, <2>5, <2>6, <2>8
    <3> QED
      BY <1>1, <2>2, <3>1, <3>2, <3>3 DEF Listed
  <2>9. CASE i > Len(a)
    <3>1. /\ ScanOrder(c)[i] = task_list[i - Len(a)]
          /\ i - Len(a) \in 1 .. Len(task_list)
      <4>1. ~(i <= Len(a))
        BY SMT, Z3T(30), <2>6, <2>7, <2>9
      <4>2. i - Len(a) \in 1 .. Len(b)
        BY SMT, Z3T(30), <2>6, <2>7, <2>9
      <4>3. ScanOrder(c)[i] = b[i - Len(a)]
        BY <2>4, <2>5, <2>6, <4>1
      <4>4. i - Len(a) \in 1 .. Len(task_list)
        BY SMT, Z3T(30), <1>1, <2>1, <2>3, <4>2
      <4> QED
        BY <2>3, <4>2, <4>3, <4>4
    <3> QED
      BY <1>1, <3>1 DEF Listed
  <2>10. i <= Len(a) \/ i > Len(a)
    BY SMT, Z3T(30), <2>6, <2>7
  <2> QED
    BY <2>8, <2>9, <2>10
<1>3. CASE ~\E k \in DOMAIN task_list : task_list[k] = current_task[c]
  BY <1>3 DEF ScanOrder, Listed
<1> QED
  BY <1>2, <1>3

LEMMA ListCalling ==
  ASSUME TypeOK, OwnInv, ListInv, NEW c \in Cpus, NEW t \in Tasks, Calling(c, t)
  PROVE  ListInv'
<1>1. state[t] = "RUNNING" /\ pc[c] = "user" /\ current_task[c] = t
  BY DEF Calling, SysOther, SysSchedYield, SysFork, SysNanosleep, SysReadBlocks,
         SysWaitNoChild, SysWaitReaps, SysWaitBlocks, TaskExit, Syscall, OwnInv,
         CurrentRuns
<1>2. \A d \in Cpus : pc[d] = "enqueue" =>
        /\ local[d] \in Tasks /\ local[d] # t
        /\ state[local[d]] = "RUNNABLE" /\ on_cpu[local[d]] = TASK_NO_CPU
  BY <1>1 DEF ListInv, PendingHidden, TypeOK
<1>3. SysOther(c, t) => ListQuiet
  BY <1>1, <1>2 DEF SysOther, ListQuiet, TypeOK, Goto, taskVars
<1>4. SysSchedYield(c, t) => ListQuiet
  BY <1>1, <1>2 DEF SysSchedYield, ListQuiet, TypeOK, Goto, taskVars
<1>5. SysNanosleep(c, t) => ListQuiet
  BY SMTT(20), Z3T(40), <1>1, <1>2 DEF SysNanosleep, ListQuiet, TypeOK, Goto, Live
<1>6. SysReadBlocks(c, t) => ListQuiet
  BY SMT, Z3T(30), <1>1, <1>2 DEF SysReadBlocks, ListQuiet, TypeOK, Goto, Live
<1>7. \A pid \in Tasks \cup {ANY} : SysWaitNoChild(c, t, pid) => ListQuiet
  BY <1>1, <1>2 DEF SysWaitNoChild, ListQuiet, TypeOK, Goto, taskVars
<1>8. \A pid \in Tasks \cup {ANY}, child \in Tasks :
        SysWaitReaps(c, t, pid, child) => ListQuiet
  BY SMT, Z3T(30), <1>1, <1>2 DEF SysWaitReaps, Dead, ListQuiet, TypeOK, Goto, Live
<1>9. \A pid \in Tasks \cup {ANY} : SysWaitBlocks(c, t, pid) => ListQuiet
  BY SMT, Z3T(30), <1>1, <1>2
  DEF SysWaitBlocks, TaskReleaseCpu, ListQuiet, TypeOK, Goto, Live
<1>10. ASSUME NEW new \in Tasks, SysFork(c, t, new) PROVE ListInv'
  <2>1. state[new] = "FREE" /\ ~Listed(new) /\ ~Pending(new) /\ ~Leaving(new)
    BY <1>10 DEF SysFork, ListInv, ListComplete, Live
  <2>2. /\ task_list' = task_list /\ current_task' = current_task
        /\ pc' = [pc EXCEPT ![c] = "enqueue"]
        /\ local' = [local EXCEPT ![c] = new]
        /\ state' = [state EXCEPT ![new] = "RUNNABLE"]
        /\ on_cpu' = [on_cpu EXCEPT ![new] = TASK_NO_CPU]
    BY <1>10 DEF SysFork, Goto
  <2>3. ListUnique'
    BY <2>2 DEF ListInv, ListUnique
  <2>4. LeavingUnlisted'
    BY <1>1, <2>2 DEF ListInv, LeavingUnlisted, Listed, TypeOK
  <2>5. PendingHidden'
    BY SMT, Z3T(30), <1>1, <1>2, <2>1, <2>2
    DEF ListInv, PendingHidden, Listed, Pending, TypeOK
  <2>6. \A x \in Tasks : /\ Listed(x)' <=> Listed(x)
                         /\ Leaving(x)' <=> Leaving(x)
                         /\ Pending(x)' <=> Pending(x) \/ x = new
    BY <1>1, <2>2 DEF Listed, Leaving, Pending, TypeOK
  <2>7. ListComplete'
    BY <2>1, <2>2, <2>6 DEF ListInv, ListComplete, TypeOK, Live
  <2> QED
    BY <2>3, <2>4, <2>5, <2>7 DEF ListInv
<1>11. CASE TaskExit(c, t)
  <2>1. PICK i \in DOMAIN task_list :
          /\ task_list[i] = t
          /\ task_list' = [j \in 1 .. Len(task_list) - 1 |->
                             task_list[IF j < i THEN j ELSE j + 1]]
    BY <1>11 DEF TaskExit, TaskDequeue
  <2>2. /\ Len(task_list) \in Nat /\ DOMAIN task_list = 1 .. Len(task_list)
        /\ DOMAIN task_list' = 1 .. Len(task_list) - 1
    BY <2>1, LenProperties DEF TypeOK
  <2>3. /\ state' = state /\ on_cpu' = on_cpu /\ current_task' = current_task
        /\ pc' = [pc EXCEPT ![c] = "exit"]
        /\ local' = [local EXCEPT ![c] = parent[t]]
    BY <1>11 DEF TaskExit, Goto
  <2>4. ListUnique'
    BY SMTT(20), Z3T(40), <2>1, <2>2 DEF ListInv, ListUnique
  <2>5. \A x \in Tasks : Listed(x)' <=> Listed(x) /\ x # t
    <3> SUFFICES ASSUME NEW x \in Tasks PROVE Listed(x)' <=> Listed(x) /\ x # t
      OBVIOUS
    <3>1. Listed(x)' => Listed(x) /\ x # t
      BY SMT, Z3T(30), <2>1, <2>2 DEF Listed, ListInv, ListUnique
    <3>2. ASSUME Listed(x), x # t PROVE Listed(x)'
      <4>1. PICK k \in DOMAIN task_list : task_list[k] = x
        BY <3>2 DEF Listed
      <4>2. CASE k < i
        <5>1. k \in DOMAIN task_list' /\ task_list'[k] = x
          BY SMT, Z3T(30), <2>1, <2>2, <4>1, <4>2
        <5> QED
          BY <5>1 DEF Listed
      <4>3. CASE k > i
        <5>1. k - 1 \in DOMAIN task_list' /\ task_list'[k - 1] = x
          BY SMT, Z3T(30), <2>1, <2>2, <4>1, <4>3
        <5> QED
          BY <5>1 DEF Listed
      <4> QED
        BY SMT, Z3T(30), <2>1, <2>2, <3>2, <4>1, <4>2, <4>3
    <3> QED
      BY <3>1, <3>2
  <2>6. \A x \in Tasks : /\ Leaving(x)' <=> Leaving(x) \/ x = t
                         /\ Pending(x)' <=> Pending(x)
    BY <1>1, <2>3 DEF Leaving, Pending, TypeOK
  <2>7. LeavingUnlisted'
    BY <1>1, <2>3, <2>5 DEF ListInv, LeavingUnlisted, TypeOK, OwnInv, CurrentRuns
  <2>8. PendingHidden'
    BY <1>1, <1>2, <2>3, <2>5 DEF ListInv, PendingHidden, TypeOK
  <2>9. ListComplete'
    BY <1>1, <2>3, <2>5, <2>6 DEF ListInv, ListComplete, TypeOK, Live
  <2> QED
    BY <2>4, <2>7, <2>8, <2>9 DEF ListInv
<1> QED
  BY <1>3, <1>4, <1>5, <1>6, <1>7, <1>8, <1>9, <1>10, <1>11, QuietKeepsList
  DEF Calling

(* schedule() settles on no task, on a listed one, or on the current one. *)
LEMMA PickIsListed ==
  ASSUME TypeOK, NEW c \in Cpus, NEW task \in Tasks \cup {NULL}, Picks(c, task)
  PROVE  \/ task = NULL
         \/ Listed(task)
         \/ task = current_task[c] /\ state[task] = "RUNNING"
<1>1. CASE current_task[c] # NULL /\ Len(task_list) = 1
  <2>1. 1 \in DOMAIN task_list
    BY SMT, Z3T(30), <1>1, LenProperties DEF TypeOK
  <2> QED
    BY <1>1, <2>1 DEF Picks, Listed
<1>2. CASE ~(current_task[c] # NULL /\ Len(task_list) = 1)
  BY <1>2, ScanOrderListed DEF Picks
<1> QED
  BY <1>1, <1>2

LEMMA ListKernel ==
  ASSUME TypeOK, OwnInv, ListInv, NEW c \in Cpus, Kernel(c)
  PROVE  ListInv'
<1>1. \A d \in Cpus : pc[d] = "enqueue" =>
        /\ local[d] \in Tasks
        /\ state[local[d]] = "RUNNABLE" /\ on_cpu[local[d]] = TASK_NO_CPU
        /\ wfe[local[d]] = "NONE" /\ timer[local[d]] = "off"
        /\ \A e \in Cpus : current_task[e] # local[d]
  BY SMT, Z3T(30), CpusAssumption DEF CpusAssumption, ListInv, PendingHidden, TypeOK, OwnInv,
     OneOwner, WfeMatchesState, QueuedSleeps
<1>2. SchedAll(c) => ListQuiet
  BY <1>1 DEF SchedAll, ListQuiet, TypeOK, Goto, taskVars
<1>3. NoEvents(c) => ListQuiet
  BY <1>1 DEF NoEvents, ListQuiet, TypeOK, Goto, taskVars
<1>4. TaskHandleEvents(c) => ListQuiet
  BY SMT, Z3T(30), <1>1 DEF TaskHandleEvents, ListQuiet, TypeOK, Goto, Live, OwnInv,
     WfeMatchesState, QueuedSleeps
<1>5. NoSchedule(c) => ListQuiet
  BY <1>1 DEF NoSchedule, ListQuiet, TypeOK, Goto, taskVars
<1>6. ASSUME Schedule(c) PROVE ListQuiet
  <2>1. PICK task \in Tasks \cup {NULL} : Picks(c, task) /\ TaskActivate(c, task)
    BY <1>6 DEF Schedule
  <2>2. task \in Tasks => Listed(task) \/ task = current_task[c]
    BY <2>1, PickIsListed, TasksAssumption DEF TasksAssumption
  <2>3. task \in Tasks => state[task] \in Live
    BY <2>1, PickIsListed, TasksAssumption
    DEF TasksAssumption, ListInv, ListComplete, Live
  <2>4. \A d \in Cpus : pc[d] = "enqueue" => local[d] # task
    BY SMT, Z3T(30), <1>1, <2>2 DEF ListInv, PendingHidden
  <2>5. /\ task_list' = task_list /\ local' = local
        /\ pc[c] = "sched" /\ pc' = [pc EXCEPT ![c] = "leave"]
    BY <1>6 DEF Schedule, Goto
  <2>6. \A t \in Tasks : (state'[t] \in Live) <=> (state[t] \in Live)
    BY SMTT(20), Z3T(40), <2>1, <2>3 DEF TaskActivate, TypeOK, Live
  <2>7. \A d \in Cpus : pc[d] = "enqueue" =>
          state'[local[d]] = "RUNNABLE" /\ on_cpu'[local[d]] = TASK_NO_CPU
    BY SMT, Z3T(30), <1>1, <2>1, <2>4 DEF TaskActivate, TypeOK
  <2>8. \A d \in Cpus : d # c => current_task'[d] = current_task[d]
    BY <2>1 DEF TaskActivate, TypeOK
  <2> QED
    BY <2>5, <2>6, <2>7, <2>8 DEF ListQuiet, TypeOK
<1>7. DoIdle(c) => ListQuiet
  BY <1>1 DEF DoIdle, ListQuiet, TypeOK, Goto, taskVars
<1>8. WaitForInterrupt(c) => ListQuiet
  BY <1>1 DEF WaitForInterrupt, ListQuiet, TypeOK, Goto, taskVars
<1>9. ReturnToUser(c) => ListQuiet
  BY <1>1 DEF ReturnToUser, ListQuiet, TypeOK, Goto, taskVars
<1>10. CASE TaskEnqueue(c)
  <2> DEFINE new == local[c]
  <2>1. /\ pc[c] = "enqueue" /\ pc' = [pc EXCEPT ![c] = "kick"]
        /\ task_list' = <<new>> \o task_list
        /\ state' = state /\ on_cpu' = on_cpu /\ local' = local
        /\ current_task' = current_task
    BY <1>10 DEF TaskEnqueue, Goto, taskVars
  <2>2. new \in Tasks /\ ~Listed(new)
    BY <1>1, <2>1 DEF ListInv, PendingHidden
  <2>3. /\ Len(task_list) \in Nat /\ DOMAIN task_list = 1 .. Len(task_list)
        /\ DOMAIN task_list' = 1 .. Len(task_list) + 1
        /\ task_list'[1] = new
        /\ \A i \in 1 .. Len(task_list) : task_list'[i + 1] = task_list[i]
    <3>1. task_list \in Seq(Tasks)
      BY DEF TypeOK
    <3>2. task_list' \in Seq(Tasks) /\ Len(task_list') = Len(task_list) + 1
      BY <2>1, <2>2, <3>1, ListAdd
    <3> QED
      BY SMT, Z3T(30), <2>1, <2>2, <3>1, <3>2, ListAdd, LenProperties
  <2>4. \A i \in DOMAIN task_list' : i # 1 =>
          i - 1 \in DOMAIN task_list /\ task_list'[i] = task_list[i - 1]
    BY SMT, Z3T(30), <2>3
  <2>5. ListUnique'
    BY SMT, Z3T(30), <2>2, <2>3, <2>4 DEF ListInv, ListUnique, Listed
  <2>6. \A x \in Tasks : Listed(x)' <=> Listed(x) \/ x = new
    <3> SUFFICES ASSUME NEW x \in Tasks PROVE Listed(x)' <=> Listed(x) \/ x = new
      OBVIOUS
    <3>1. Listed(x)' => Listed(x) \/ x = new
      BY <2>3, <2>4 DEF Listed
    <3>2. x = new => Listed(x)'
      BY SMT, Z3T(30), <2>3 DEF Listed
    <3>3. ASSUME Listed(x) PROVE Listed(x)'
      <4>1. PICK k \in 1 .. Len(task_list) : task_list[k] = x
        BY <2>3, <3>3 DEF Listed
      <4>2. k + 1 \in DOMAIN task_list' /\ task_list'[k + 1] = x
        BY SMTT(20), Z3T(40), <2>3, <4>1
      <4> QED
        BY <4>2 DEF Listed
    <3> QED
      BY <3>1, <3>2, <3>3
  <2>7. \A x \in Tasks : /\ Leaving(x)' <=> Leaving(x)
                         /\ Pending(x)' <=> Pending(x) /\ x # new
    BY SMTT(20), Z3T(40), <2>1, <2>2 DEF Leaving, Pending, TypeOK, ListInv, PendingHidden
  <2>8. LeavingUnlisted'
    BY SMTT(20), Z3T(40), <1>1, <2>1, <2>6
    DEF ListInv, LeavingUnlisted, TypeOK, OwnInv, CurrentRuns
  <2>9. PendingHidden'
    BY SMT, Z3T(30), <1>1, <2>1, <2>6 DEF ListInv, PendingHidden, TypeOK
  <2>10. ListComplete'
    BY <1>1, <2>1, <2>2, <2>6, <2>7 DEF ListInv, ListComplete, TypeOK, Live
  <2> QED
    BY <2>5, <2>8, <2>9, <2>10 DEF ListInv
<1>11. CASE TaskExitDead(c)
  <2> DEFINE t == current_task[c]
  <2>1. t \in Tasks /\ state[t] = "RUNNING" /\ on_cpu[t] = c /\ ~Listed(t)
    BY SMTT(20), Z3T(40), <1>11
    DEF TaskExitDead, TypeOK, OwnInv, CurrentRuns, OneOwner, ListInv,
       LeavingUnlisted
  <2>2. /\ pc[c] = "exit" /\ pc' = [pc EXCEPT ![c] = "events"]
        /\ task_list' = task_list
        /\ local' = [local EXCEPT ![c] = NULL]
        /\ on_cpu' = [on_cpu EXCEPT ![t] = TASK_NO_CPU]
        /\ current_task' = [current_task EXCEPT ![c] = NULL]
    BY <1>11 DEF TaskExitDead, Goto, TaskReleaseCpu
  <2>3. /\ state'[t] \in {"FREE", "EXIT_DEAD"}
        /\ \A x \in Tasks : x # t =>
             \/ state'[x] = state[x]
             \/ state[x] = "WFE" /\ state'[x] = "RUNNABLE"
    BY SMT, Z3T(30), <1>11, <2>1 DEF TaskExitDead, TypeOK
  <2>4. \A d \in Cpus : current_task[d] = t => d = c
    BY <2>1 DEF OwnInv, OneOwner
  <2>5. \A x \in Tasks : /\ Listed(x)' <=> Listed(x)
                         /\ Pending(x)' <=> Pending(x)
                         /\ Leaving(x)' <=> Leaving(x) /\ x # t
    BY <2>1, <2>2, <2>4 DEF Listed, Pending, Leaving, TypeOK
  <2>6. ListUnique'
    BY <2>2 DEF ListInv, ListUnique
  <2>7. LeavingUnlisted'
    BY <2>2 DEF ListInv, LeavingUnlisted, Listed, TypeOK
  <2>8. PendingHidden'
    <3>1. \A d \in Cpus : pc'[d] = "enqueue" => pc[d] = "enqueue" /\ local'[d] = local[d]
      BY <2>2 DEF TypeOK
    <3>2. \A d \in Cpus : pc[d] = "enqueue" => local[d] # t
      BY <1>1
    <3>3. \A d \in Cpus : pc[d] = "enqueue" =>
            state'[local[d]] = "RUNNABLE" /\ on_cpu'[local[d]] = TASK_NO_CPU
      BY <1>1, <2>2, <2>3, <3>2 DEF TypeOK
    <3>4. ASSUME NEW d \in Cpus, pc'[d] = "enqueue"
          PROVE  /\ state'[local'[d]] = "RUNNABLE" /\ on_cpu'[local'[d]] = TASK_NO_CPU
                 /\ ~Listed(local'[d])
      BY <3>1, <3>3, <3>4 DEF ListInv, PendingHidden
    <3>5. ASSUME NEW d \in Cpus, pc'[d] = "enqueue" PROVE (~Listed(local[d]))'
      BY <2>2, <3>4, <3>5 DEF Listed
    <3>6. ASSUME NEW d \in Cpus, NEW e \in Cpus, pc'[d] = "enqueue", pc'[e] = "enqueue",
                 local'[d] = local'[e]
          PROVE  d = e
      <4>1. pc[d] = "enqueue" /\ pc[e] = "enqueue" /\ local[e] = local[d]
        BY <3>1, <3>6
      <4> QED
        BY <4>1 DEF ListInv, PendingHidden
    <3> QED
      BY <3>4, <3>5, <3>6 DEF PendingHidden
  <2>9. ~Pending(t)
    BY <1>1, <2>1 DEF Pending
  <2>10. ListComplete'
    BY <2>1, <2>3, <2>5, <2>9 DEF ListInv, ListComplete, TypeOK, Live
  <2> QED
    BY <2>6, <2>7, <2>8, <2>10 DEF ListInv
<1> QED
  BY Kernel(c), <1>2, <1>3, <1>4, <1>5, <1>6, <1>7, <1>8, <1>9, <1>10, <1>11,
     QuietKeepsList
  DEF Kernel

LEMMA ListStep == TypeOK /\ OwnInv /\ ListInv /\ [Next]_vars => ListInv'
<1> SUFFICES ASSUME TypeOK, OwnInv, ListInv, [Next]_vars PROVE ListInv'
  OBVIOUS
<1>1. \A d \in Cpus : pc[d] = "enqueue" =>
        /\ local[d] \in Tasks
        /\ state[local[d]] = "RUNNABLE" /\ on_cpu[local[d]] = TASK_NO_CPU
  BY DEF ListInv, PendingHidden, TypeOK
<1>2. ASSUME NEW c \in Cpus, NEW t \in Tasks, Calling(c, t) PROVE ListInv'
  BY <1>2, ListCalling
<1>3. ASSUME NEW c \in Cpus, Kernel(c) PROVE ListInv'
  BY <1>3, ListKernel
<1>4. ASSUME NEW c \in Cpus, IrqSoft(c) PROVE ListQuiet
  BY <1>1, <1>4
  DEF IrqSoft, AfterIrq, InterruptsOn, ListQuiet, TypeOK, Goto, taskVars
<1>5. ASSUME NEW c \in Cpus, IrqTimer(c) PROVE ListQuiet
  BY <1>1, <1>5
  DEF IrqTimer, AfterIrq, InterruptsOn, ListQuiet, TypeOK, Goto, taskVars
<1>6. ASSUME NEW c \in Cpus, IrqExt(c) PROVE ListQuiet
  <2>1. reader # NULL => reader \in Tasks /\ state[reader] = "WFE"
    BY DEF TypeOK, OwnInv, QueuedSleeps, WfeMatchesState
  <2> QED
    BY <1>1, <1>6, <2>1 DEF IrqExt, InterruptsOn, ListQuiet, TypeOK, Goto, Live
<1>7. ASSUME NEW t \in Tasks, TimeExpire(t) PROVE ListQuiet
  BY <1>1, <1>7 DEF TimeExpire, ListQuiet, cpuVars
<1>8. CASE UNCHANGED vars
  <2>1. ListQuiet
    BY <1>1, <1>8 DEF vars, ListQuiet
  <2> QED
    BY <2>1, QuietKeepsList
<1> QED
  BY <1>2, <1>3, <1>4, <1>5, <1>6, <1>7, <1>8, QuietKeepsList DEF Next

LEMMA ListInvariant == Spec => []ListInv
  BY TypeCorrect, OwnInvariant, ListInit, ListStep, PTL DEF Spec

(* The scheduler's list holds exactly the live tasks, each once: for any   *)
(* interleaving of fork(), task_exit() and wait() on any number of CPUs.   *)
THEOREM ListSafe == Spec => []ListHoldsLiveTasks
<1>1. TypeOK /\ OwnInv /\ ListInv => ListHoldsLiveTasks
  <2> SUFFICES ASSUME TypeOK, OwnInv, ListInv PROVE ListHoldsLiveTasks
    OBVIOUS
  <2> DEFINE listed == {task_list[i] : i \in DOMAIN task_list}
             pending == {local[c] : c \in {d \in Cpus : pc[d] = "enqueue"}}
             leaving == {current_task[c] : c \in {d \in Cpus : pc[d] = "exit"}}
  <2>1. listed \subseteq Tasks
    BY SMTT(20), Z3T(40), LenProperties, ElementOfSeq DEF TypeOK
  <2>2. pending \subseteq Tasks /\ leaving \subseteq Tasks
    BY SMT, Z3T(30) DEF TypeOK, OwnInv, CurrentRuns
  <2>3. \A t \in Tasks : /\ t \in listed <=> Listed(t)
                         /\ t \in pending <=> Pending(t)
                         /\ t \in leaving <=> Leaving(t)
    BY DEF Listed, Pending, Leaving
  <2>4. listed \cup pending \cup leaving =
          {t \in Tasks : state[t] \in {"RUNNABLE", "RUNNING", "WFE"}}
    <3> HIDE DEF listed, pending, leaving
    <3> QED
      BY <2>1, <2>2, <2>3 DEF ListInv, ListComplete, Live
  <2>5. listed \cap (pending \cup leaving) = {}
    <3>1. \A t \in Tasks : Pending(t) => ~Listed(t)
      BY DEF ListInv, PendingHidden, Pending
    <3>2. \A t \in Tasks : Leaving(t) => ~Listed(t)
      BY DEF ListInv, LeavingUnlisted, Leaving
    <3> QED
      BY <2>1, <2>3, <3>1, <3>2
  <2> QED
    BY <2>4, <2>5 DEF ListHoldsLiveTasks, ListInv, ListUnique
<1> QED
  BY <1>1, TypeCorrect, OwnInvariant, ListInvariant, PTL

-----------------------------------------------------------------------------
(***************************************************************************)
(* The sanity checks.                                                      *)
(***************************************************************************)
LEMMA NoBugCalling ==
  ASSUME TypeOK, OwnInv, NoBug, NEW c \in Cpus, NEW t \in Tasks, Calling(c, t)
  PROVE  NoBug'
<1>1. state[t] = "RUNNING" /\ wfe[t] = "NONE"
  BY DEF Calling, SysOther, SysSchedYield, SysFork, SysNanosleep, SysReadBlocks,
         SysWaitNoChild, SysWaitReaps, SysWaitBlocks, TaskExit, Syscall, OwnInv,
         CurrentRuns, WfeMatchesState
<1> QED
  BY <1>1
  DEF Calling, SysOther, SysSchedYield, SysFork, SysNanosleep, SysReadBlocks,
      SysWaitNoChild, SysWaitReaps, SysWaitBlocks, TaskExit, Bug, NoBug, TypeOK

LEMMA NoBugKernel ==
  ASSUME TypeOK, OwnInv, ListInv, NoBug, NEW c \in Cpus, Kernel(c)
  PROVE  NoBug'
<1> USE DEF NoBug, Bug
<1>1. CASE TaskEnqueue(c) \/ SchedAll(c) \/ TaskExitDead(c) \/ NoEvents(c)
           \/ NoSchedule(c) \/ DoIdle(c) \/ WaitForInterrupt(c)
  BY <1>1
  DEF TaskEnqueue, SchedAll, TaskExitDead, NoEvents, NoSchedule, DoIdle,
      WaitForInterrupt
<1>2. CASE TaskHandleEvents(c)
  BY <1>2 DEF TaskHandleEvents, OwnInv, QueuedSleeps, WfeMatchesState
<1>3. CASE Schedule(c)
  <2>1. PICK task \in Tasks \cup {NULL} : Picks(c, task) /\ TaskActivate(c, task)
    BY <1>3 DEF Schedule
  <2>2. task \in Tasks => state[task] \in {"RUNNABLE", "RUNNING"}
    <3>1. task \in Tasks => state[task] # "WFE"
      BY <2>1, TasksAssumption DEF TasksAssumption, Picks, Eligible
    <3>2. task \in Tasks => state[task] \in Live
      BY <2>1, PickIsListed, TasksAssumption
      DEF TasksAssumption, ListInv, ListComplete, Live
    <3> QED
      BY <3>1, <3>2 DEF Live
  <2>3. task \in Tasks /\ task # current_task[c] => state[task] = "RUNNABLE"
    <3>1. task \in Tasks => \/ on_cpu[task] \in {TASK_NO_CPU, c}
                            \/ task = current_task[c]
      BY <2>1, TasksAssumption DEF TasksAssumption, Picks, Eligible, TaskClaimable
    <3> QED
      BY <2>2, <3>1 DEF OwnInv, OneOwner, RunningHasCpu
  <2> QED
    BY <2>1, <2>2, <2>3 DEF TaskActivate
<1>4. CASE ReturnToUser(c)
  BY <1>4 DEF ReturnToUser, OwnInv, CurrentRuns
<1> QED
  BY Kernel(c), <1>1, <1>2, <1>3, <1>4 DEF Kernel

(* None of the BUG() and panic() checks of syscall(), wait(),              *)
(* task_sleep_until(), task_handle_events(), task_activate() and           *)
(* prepare_user_return() is ever hit, on any number of CPUs and tasks.     *)
THEOREM SanityChecksHold == Spec => []NoBug
<1>1. Init => NoBug
  BY DEF Init, NoBug
<1>2. TypeOK /\ OwnInv /\ ListInv /\ NoBug /\ [Next]_vars => NoBug'
  <2> SUFFICES ASSUME TypeOK, OwnInv, ListInv, NoBug, [Next]_vars PROVE NoBug'
    OBVIOUS
  <2>1. CASE \/ \E c \in Cpus : IrqSoft(c) \/ IrqTimer(c) \/ IrqExt(c)
             \/ \E t \in Tasks : TimeExpire(t)
             \/ UNCHANGED vars
    BY <2>1 DEF IrqSoft, IrqTimer, IrqExt, TimeExpire, vars, NoBug
  <2> QED
    BY <2>1, NoBugCalling, NoBugKernel DEF Next
<1> QED
  BY <1>1, <1>2, TypeCorrect, OwnInvariant, ListInvariant, PTL DEF Spec

-----------------------------------------------------------------------------
(***************************************************************************)
(* The process tree.                                                       *)
(***************************************************************************)
Forking == {"enqueue", "kick"}

(* PID 1 is there for ever. *)
PidOneLives ==
  /\ state[init_task] \notin {"FREE", "EXIT_DEAD"}
  /\ \A c \in Cpus : pc[c] = "exit" => current_task[c] # init_task

(* The task that fork() has in hand is a child of the task that called it, *)
(* and if it is exiting, then it will notify that task.  (The first task   *)
(* in hand is PID 1.)                                                      *)
InHand(c) ==
  \/ local[c] = init_task
  \/ /\ current_task[c] # NULL
     /\ state[local[c]] # "FREE"
     /\ parent[local[c]] = current_task[c]
     /\ \A d \in Cpus : pc[d] = "exit" /\ current_task[d] = local[c] =>
          local[d] = current_task[c]

ForkInv == PidOneLives /\ \A c \in Cpus : pc[c] \in Forking => InHand(c)

(* What most steps have in common: nobody comes, dies or goes, and nobody  *)
(* gets another parent.                                                    *)
TreeQuiet ==
  /\ parent' = parent
  /\ \A c \in Cpus : pc'[c] \in Forking \cup {"exit"} =>
       /\ pc'[c] = "exit" <=> pc[c] = "exit"
       /\ pc'[c] # "exit" => pc[c] \in Forking
       /\ local'[c] = local[c] /\ current_task'[c] = current_task[c]
  /\ \A t \in Tasks : /\ state'[t] = "FREE" <=> state[t] = "FREE"
                      /\ state'[t] = "EXIT_DEAD" <=> state[t] = "EXIT_DEAD"

LEMMA TreeQuietCalling ==
  ASSUME TypeOK, OwnInv, NEW c \in Cpus, NEW t \in Tasks,
         \/ SysOther(c, t) \/ SysSchedYield(c, t) \/ SysNanosleep(c, t)
         \/ SysReadBlocks(c, t)
         \/ \E pid \in Tasks \cup {ANY} : SysWaitNoChild(c, t, pid) \/ SysWaitBlocks(c, t, pid)
  PROVE  TreeQuiet
<1>0. state[t] = "RUNNING"
  BY DEF SysOther, SysSchedYield, SysNanosleep, SysReadBlocks, SysWaitNoChild,
         SysWaitBlocks, Syscall, OwnInv, CurrentRuns
<1>1. parent' = parent
  BY DEF SysOther, SysSchedYield, SysNanosleep, SysReadBlocks, SysWaitNoChild,
         SysWaitBlocks, taskVars
<1>2. pc' = [pc EXCEPT ![c] = "events"]
  BY DEF SysOther, SysSchedYield, SysNanosleep, SysReadBlocks, SysWaitNoChild,
         SysWaitBlocks, Goto
<1>3. local' = local /\ \A d \in Cpus : d # c => current_task'[d] = current_task[d]
  BY DEF SysOther, SysSchedYield, SysNanosleep, SysReadBlocks, SysWaitNoChild,
         SysWaitBlocks, TypeOK
<1>4. state' = state \/ state' = [state EXCEPT ![t] = "WFE"]
  BY DEF SysOther, SysSchedYield, SysNanosleep, SysReadBlocks, SysWaitNoChild,
         SysWaitBlocks, taskVars
<1> QED
  BY <1>0, <1>1, <1>2, <1>3, <1>4 DEF TreeQuiet, Forking, TypeOK

LEMMA TreeQuietKernel ==
  ASSUME TypeOK, OwnInv, ListInv, NEW c \in Cpus, Kernel(c), ~TaskExitDead(c)
  PROVE  TreeQuiet
<1> USE DEF TreeQuiet, Forking, TypeOK, Goto, taskVars
<1>1. CASE TaskEnqueue(c)
  BY <1>1 DEF TaskEnqueue
<1>2. CASE SchedAll(c)
  BY <1>2 DEF SchedAll
<1>3. CASE NoEvents(c) \/ NoSchedule(c) \/ DoIdle(c) \/ WaitForInterrupt(c) \/ ReturnToUser(c)
  BY <1>3 DEF NoEvents, NoSchedule, DoIdle, WaitForInterrupt, ReturnToUser
<1>4. CASE TaskHandleEvents(c)
  <2>1. \A t \in Tasks : timer[t] = "expired" => state[t] = "WFE"
    BY DEF OwnInv, QueuedSleeps, WfeMatchesState
  <2> QED
    BY <1>4, <2>1 DEF TaskHandleEvents
<1>5. CASE Schedule(c)
  <2>1. PICK task \in Tasks \cup {NULL} : Picks(c, task) /\ TaskActivate(c, task)
    BY <1>5 DEF Schedule
  <2>2. task \in Tasks => state[task] \in Live
    <3> HIDE DEF TypeOK
    <3> QED
      BY <2>1, PickIsListed, TasksAssumption
      DEF TasksAssumption, ListInv, ListComplete, Live
  <2>3. \A t \in Tasks : \/ state'[t] = state[t]
                         \/ state[t] \in Live /\ state'[t] \in Live
    BY SMT, Z3T(30), <2>1, <2>2 DEF TaskActivate, Live
  <2>4. /\ parent' = parent /\ local' = local /\ pc' = [pc EXCEPT ![c] = "leave"]
        /\ \A d \in Cpus : d # c => current_task'[d] = current_task[d]
    BY <1>5, <2>1 DEF Schedule, TaskActivate
  <2> QED
    BY <2>3, <2>4 DEF Live
<1> QED
  BY <1>1, <1>2, <1>3, <1>4, <1>5 DEF Kernel

LEMMA TreeQuietIrq ==
  ASSUME TypeOK, OwnInv,
         \/ \E c \in Cpus : IrqSoft(c) \/ IrqTimer(c) \/ IrqExt(c)
         \/ \E t \in Tasks : TimeExpire(t)
         \/ UNCHANGED vars
  PROVE  TreeQuiet
<1> USE DEF TreeQuiet, Forking, TypeOK, Goto, taskVars
<1>1. CASE \E c \in Cpus : IrqSoft(c) \/ IrqTimer(c)
  BY <1>1 DEF IrqSoft, IrqTimer, AfterIrq
<1>2. ASSUME NEW c \in Cpus, IrqExt(c) PROVE TreeQuiet
  <2>1. reader \in Tasks => state[reader] = "WFE"
    BY DEF OwnInv, QueuedSleeps, WfeMatchesState
  <2>2. /\ parent' = parent /\ local' = local /\ current_task' = current_task
        /\ pc' = [pc EXCEPT ![c] = IF pc[c] = "wfi" THEN "events" ELSE pc[c]]
        /\ pc[c] \in {"user", "idle", "wfi"}
        /\ state' = state \/ (reader \in Tasks /\ state' = [state EXCEPT ![reader] = "RUNNABLE"])
    BY <1>2 DEF IrqExt, InterruptsOn
  <2> QED
    BY <2>1, <2>2
<1>3. CASE \E t \in Tasks : TimeExpire(t)
  BY <1>3 DEF TimeExpire, cpuVars
<1>4. CASE UNCHANGED vars
  BY <1>4 DEF vars
<1> QED
  BY <1>1, <1>2, <1>3, <1>4

LEMMA QuietKeepsFork == TypeOK /\ ForkInv /\ TreeQuiet => ForkInv'
<1> SUFFICES ASSUME TypeOK, ForkInv, TreeQuiet PROVE ForkInv'
  OBVIOUS
<1>1. PidOneLives'
  BY TasksAssumption DEF TasksAssumption, ForkInv, PidOneLives, TreeQuiet
<1>2. ASSUME NEW c \in Cpus, pc'[c] \in Forking PROVE InHand(c)'
  <2>1. /\ pc[c] \in Forking /\ InHand(c) /\ local[c] \in Tasks
        /\ local'[c] = local[c] /\ current_task'[c] = current_task[c]
    BY <1>2 DEF TreeQuiet, Forking, ForkInv, TypeOK
  <2>2. \A d \in Cpus : pc'[d] = "exit" =>
          pc[d] = "exit" /\ local'[d] = local[d] /\ current_task'[d] = current_task[d]
    BY DEF TreeQuiet
  <2> QED
    BY <2>1, <2>2 DEF InHand, TreeQuiet
<1> QED
  BY <1>1, <1>2 DEF ForkInv

(* Nobody but the forking task itself could free the task in its hand. *)
LEMMA InHandIsSafe ==
  ASSUME TypeOK, OwnInv, ForkInv, NEW c \in Cpus, pc[c] \in Forking, local[c] # init_task
  PROVE  /\ local[c] \in Tasks /\ current_task[c] \in Tasks
         /\ state[local[c]] # "FREE" /\ parent[local[c]] = current_task[c]
         /\ wfe[current_task[c]] = "NONE"
         /\ \A d \in Cpus : d # c => current_task[d] # current_task[c]
<1>1. InHand(c)
  BY DEF ForkInv
<1>2. local[c] \in Tasks /\ current_task[c] \in Tasks
  BY <1>1 DEF InHand, TypeOK, Forking
<1>3. state[current_task[c]] = "RUNNING"
  BY <1>2, TasksAssumption DEF TasksAssumption, OwnInv, CurrentRuns, Forking
<1>4. wfe[current_task[c]] = "NONE"
  BY <1>2, <1>3 DEF OwnInv, WfeMatchesState
<1> QED
  BY SMT, Z3T(30), <1>1, <1>2, <1>4 DEF InHand, OwnInv, OneOwner

LEMMA ForkCalling ==
  ASSUME TypeOK, OwnInv, ForkInv, NEW c \in Cpus, NEW t \in Tasks, Calling(c, t)
  PROVE  ForkInv'
<1>1. ASSUME NEW new \in Tasks, SysFork(c, t, new) PROVE ForkInv'
  <2>1. /\ pc[c] = "user" /\ current_task[c] = t /\ state[new] = "FREE"
        /\ state' = [state EXCEPT ![new] = "RUNNABLE"]
        /\ parent' = [parent EXCEPT ![new] = t]
        /\ local' = [local EXCEPT ![c] = new]
        /\ pc' = [pc EXCEPT ![c] = "enqueue"]
        /\ current_task' = current_task
    BY <1>1 DEF SysFork, Syscall, Goto
  <2>2. \A d \in Cpus : current_task[d] # new
    BY SMT, Z3T(30), <2>1, CpusAssumption DEF CpusAssumption, OwnInv, DeadIsUnowned, OneOwner
  <2>3. PidOneLives'
    BY <2>1, TasksAssumption DEF TasksAssumption, ForkInv, PidOneLives, TypeOK
  <2>4. InHand(c)'
    BY <2>1, <2>2, TasksAssumption DEF TasksAssumption, InHand, TypeOK
  <2>5. ASSUME NEW d \in Cpus, d # c, pc'[d] \in Forking PROVE InHand(d)'
    <3>1. pc[d] \in Forking /\ local'[d] = local[d] /\ local[d] \in Tasks /\ InHand(d)
      BY <2>1, <2>5 DEF TypeOK, Forking, ForkInv
    <3>2. local[d] # new
      BY <2>1, <3>1 DEF InHand, ForkInv, PidOneLives
    <3>3. \A e \in Cpus : pc'[e] = "exit" => pc[e] = "exit" /\ local'[e] = local[e]
      BY <2>1 DEF TypeOK
    <3> QED
      BY <2>1, <3>1, <3>2, <3>3 DEF InHand, TypeOK
  <2> QED
    BY <2>3, <2>4, <2>5 DEF ForkInv
<1>2. ASSUME NEW pid \in Tasks \cup {ANY}, NEW child \in Tasks,
             SysWaitReaps(c, t, pid, child)
      PROVE  ForkInv'
  <2>1. /\ pc[c] = "user" /\ current_task[c] = t
        /\ state[child] = "EXIT_DEAD" /\ parent[child] = t
        /\ state' = [state EXCEPT ![child] = "FREE"]
        /\ parent' = [parent EXCEPT ![child] = NULL]
        /\ pc' = [pc EXCEPT ![c] = "events"]
        /\ local' = local /\ current_task' = current_task
    BY <1>2 DEF SysWaitReaps, Syscall, Goto, Dead, WaitedFor, Children
  <2>2. PidOneLives'
    BY <2>1, TasksAssumption DEF TasksAssumption, ForkInv, PidOneLives, TypeOK
  <2>3. ASSUME NEW d \in Cpus, pc'[d] \in Forking PROVE InHand(d)'
    <3>1. d # c /\ pc[d] \in Forking /\ local[d] \in Tasks /\ InHand(d)
      BY <2>1, <2>3 DEF TypeOK, Forking, ForkInv
    <3>2. local[d] # child
      <4>1. child # init_task
        BY <2>1 DEF ForkInv, PidOneLives
      <4>2. ASSUME local[d] # init_task
            PROVE  parent[local[d]] = current_task[d] /\ current_task[c] # current_task[d]
        BY <3>1, <4>2, InHandIsSafe
      <4> QED
        BY <2>1, <4>1, <4>2
    <3>3. \A e \in Cpus : pc'[e] = "exit" => pc[e] = "exit"
      BY <2>1 DEF TypeOK
    <3> QED
      BY <2>1, <3>1, <3>2, <3>3 DEF InHand, TypeOK
  <2> QED
    BY <2>2, <2>3 DEF ForkInv
<1>3. ASSUME TaskExit(c, t) PROVE ForkInv'
  <2>1. /\ pc[c] = "user" /\ current_task[c] = t /\ t # init_task
        /\ state' = state /\ parent' = parent /\ current_task' = current_task
        /\ pc' = [pc EXCEPT ![c] = "exit"]
        /\ local' = [local EXCEPT ![c] = parent[t]]
    BY <1>3 DEF TaskExit, Syscall, Goto
  <2>2. PidOneLives'
    BY <2>1, TasksAssumption DEF TasksAssumption, ForkInv, PidOneLives, TypeOK
  <2>3. ASSUME NEW d \in Cpus, pc'[d] \in Forking PROVE InHand(d)'
    <3>1. /\ d # c /\ pc[d] \in Forking /\ local[d] \in Tasks /\ InHand(d)
          /\ local'[d] = local[d]
      BY <2>1, <2>3 DEF TypeOK, Forking, ForkInv
    <3>2. \A e \in Cpus : pc'[e] = "exit" =>
            \/ pc[e] = "exit" /\ local'[e] = local[e]
            \/ current_task[e] = t /\ local'[e] = parent[t]
      BY <2>1 DEF TypeOK
    <3> QED
      BY <2>1, <3>1, <3>2 DEF InHand
  <2> QED
    BY <2>2, <2>3 DEF ForkInv
<1> QED
  BY <1>1, <1>2, <1>3, TreeQuietCalling, QuietKeepsFork DEF Calling

(* What the end of task_exit() does to the tasks: t, the current one of c, *)
(* dies.                                                                   *)
ExitsAs(c, t) ==
  /\ t = current_task[c] /\ t # init_task /\ pc[c] = "exit"
  /\ state[t] \notin {"FREE", "EXIT_DEAD"}
  /\ pc' = [pc EXCEPT ![c] = "events"] /\ local' = [local EXCEPT ![c] = NULL]
  /\ current_task' = [current_task EXCEPT ![c] = NULL]
  /\ \A x \in Tasks : x # t =>
       /\ state'[x] = "FREE" <=> state[x] = "FREE"
       /\ state'[x] = "EXIT_DEAD" <=> state[x] = "EXIT_DEAD"
       /\ parent'[x] = IF x \in Children(t) THEN init_task ELSE parent[x]
  /\ \/ state'[t] = "FREE" /\ WaitsFor(local[c], t)
     \/ /\ state'[t] = "EXIT_DEAD" /\ ~WaitsFor(local[c], t)
        /\ parent' = Reparented(t)

LEMMA ExitDeadEffect ==
  ASSUME TypeOK, OwnInv, PidOneLives, NEW c \in Cpus, TaskExitDead(c)
  PROVE  \E t \in Tasks : ExitsAs(c, t)
<1>1. PICK t \in Tasks : t = current_task[c]
  BY DEF TaskExitDead, OwnInv, CurrentRuns, TypeOK
<1>2. /\ pc[c] = "exit" /\ t # init_task
      /\ pc' = [pc EXCEPT ![c] = "events"] /\ local' = [local EXCEPT ![c] = NULL]
      /\ current_task' = [current_task EXCEPT ![c] = NULL]
  BY <1>1 DEF TaskExitDead, Goto, PidOneLives
<1>3. \A x \in Tasks : x # t =>
        /\ state'[x] = "FREE" <=> state[x] = "FREE"
        /\ state'[x] = "EXIT_DEAD" <=> state[x] = "EXIT_DEAD"
        /\ parent'[x] = IF x \in Children(t) THEN init_task ELSE parent[x]
  <2>1. parent' = Reparented(t) \/ parent' = [Reparented(t) EXCEPT ![t] = NULL]
    BY <1>1 DEF TaskExitDead
  <2>2. \/ state' = [state EXCEPT ![t] = "EXIT_DEAD"]
        \/ \E p : state' = [x \in Tasks |->
             IF x = t THEN "FREE"
             ELSE IF x = p /\ state[p] = "WFE" THEN "RUNNABLE" ELSE state[x]]
    <3>1. CASE WaitsFor(local[c], current_task[c])
      <4>1. state' = [x \in Tasks |->
              IF x = t THEN "FREE"
              ELSE IF x = local[c] /\ state[local[c]] = "WFE" THEN "RUNNABLE" ELSE state[x]]
        BY <1>1, <3>1 DEF TaskExitDead
      <4> QED
        BY <4>1
    <3>2. CASE ~WaitsFor(local[c], current_task[c])
      BY <1>1, <3>2 DEF TaskExitDead
    <3> QED
      BY <3>1, <3>2
  <2>3. ASSUME NEW x \in Tasks, x # t
        PROVE  parent'[x] = IF x \in Children(t) THEN init_task ELSE parent[x]
    BY <2>1, <2>3 DEF Reparented
  <2>4. ASSUME NEW x \in Tasks, x # t
        PROVE  /\ state'[x] = "FREE" <=> state[x] = "FREE"
               /\ state'[x] = "EXIT_DEAD" <=> state[x] = "EXIT_DEAD"
    BY <2>2, <2>4 DEF TypeOK
  <2> QED
    BY <2>3, <2>4
<1>4. \/ state'[t] = "FREE" /\ WaitsFor(local[c], t)
      \/ /\ state'[t] = "EXIT_DEAD" /\ ~WaitsFor(local[c], t)
         /\ parent' = Reparented(t)
  BY <1>1 DEF TaskExitDead, TypeOK
<1>5. state[t] \notin {"FREE", "EXIT_DEAD"}
  BY <1>1, <1>2, TasksAssumption DEF TasksAssumption, OwnInv, CurrentRuns
<1> QED
  BY <1>1, <1>2, <1>3, <1>4, <1>5 DEF ExitsAs

LEMMA ForkExitDead ==
  ASSUME TypeOK, OwnInv, ForkInv, NEW c \in Cpus, TaskExitDead(c)
  PROVE  ForkInv'
<1>0. PICK t \in Tasks : ExitsAs(c, t)
  BY ExitDeadEffect DEF ForkInv
<1>1. t = current_task[c]
  BY <1>0 DEF ExitsAs
<1>2. /\ pc[c] = "exit" /\ t # init_task
      /\ pc' = [pc EXCEPT ![c] = "events"] /\ local' = [local EXCEPT ![c] = NULL]
      /\ current_task' = [current_task EXCEPT ![c] = NULL]
  BY <1>0, <1>1 DEF ExitsAs
<1>3. \A x \in Tasks : x # t =>
        /\ state'[x] = "FREE" <=> state[x] = "FREE"
        /\ state'[x] = "EXIT_DEAD" <=> state[x] = "EXIT_DEAD"
        /\ parent'[x] = IF x \in Children(t) THEN init_task ELSE parent[x]
  BY <1>0, <1>1 DEF ExitsAs
<1>4. PidOneLives'
  <2>1. state'[init_task] \notin {"FREE", "EXIT_DEAD"}
    BY <1>2, <1>3, TasksAssumption DEF TasksAssumption, ForkInv, PidOneLives
  <2>2. ASSUME NEW d \in Cpus, pc'[d] = "exit" PROVE current_task'[d] # init_task
    BY <1>2, <2>2 DEF ForkInv, PidOneLives, TypeOK
  <2> QED
    BY <2>1, <2>2 DEF PidOneLives
<1>5. ASSUME NEW d \in Cpus, pc'[d] \in Forking PROVE InHand(d)'
  <2>1. /\ d # c /\ pc[d] \in Forking /\ local[d] \in Tasks /\ InHand(d)
        /\ local'[d] = local[d] /\ current_task'[d] = current_task[d]
    BY <1>2, <1>5 DEF TypeOK, Forking, ForkInv
  <2>2. CASE local[d] = init_task
    BY <2>1, <2>2 DEF InHand
  <2>3. CASE local[d] # init_task
    <3>1. /\ current_task[d] \in Tasks /\ current_task[d] # t
          /\ state[local[d]] # "FREE" /\ parent[local[d]] = current_task[d]
          /\ wfe[current_task[d]] = "NONE"
      BY <1>1, <2>1, <2>3, InHandIsSafe
    <3>2. local[d] \notin Children(t)
      BY <3>1 DEF Children
    <3>3. state'[local[d]] # "FREE" /\ parent'[local[d]] = current_task[d]
      <4>1. CASE local[d] = t
        <5>1. local[c] = current_task[d]
          BY <1>1, <1>2, <2>1, <2>3, <4>1 DEF InHand
        <5>2. ~WaitsFor(local[c], t)
          BY <3>1, <5>1 DEF WaitsFor
        <5>3. state' = [state EXCEPT ![t] = "EXIT_DEAD"] /\ parent' = Reparented(t)
          BY <1>1, <5>2 DEF TaskExitDead
        <5> QED
          BY <3>1, <3>2, <4>1, <5>3 DEF Reparented, TypeOK
      <4>2. CASE local[d] # t
        BY <1>3, <2>1, <3>1, <3>2, <4>2
      <4> QED
        BY <4>1, <4>2
    <3>4. \A e \in Cpus : pc'[e] = "exit" =>
            pc[e] = "exit" /\ local'[e] = local[e] /\ current_task'[e] = current_task[e]
      BY <1>2 DEF TypeOK
    <3> QED
      BY <2>1, <2>3, <3>1, <3>3, <3>4, TasksAssumption DEF TasksAssumption, InHand
  <2> QED
    BY <2>2, <2>3
<1> QED
  BY <1>4, <1>5 DEF ForkInv

LEMMA ForkInit == Init => ForkInv
  BY TasksAssumption DEF TasksAssumption, Init, ForkInv, PidOneLives, InHand, Forking

LEMMA ForkStep == TypeOK /\ OwnInv /\ ListInv /\ ForkInv /\ [Next]_vars => ForkInv'
<1> SUFFICES ASSUME TypeOK, OwnInv, ListInv, ForkInv, [Next]_vars PROVE ForkInv'
  OBVIOUS
<1>1. ASSUME NEW c \in Cpus, NEW t \in Tasks, Calling(c, t) PROVE ForkInv'
  BY <1>1, ForkCalling
<1>2. ASSUME NEW c \in Cpus, Kernel(c) PROVE ForkInv'
  BY <1>2, ForkExitDead, TreeQuietKernel, QuietKeepsFork
<1>3. CASE \/ \E c \in Cpus : IrqSoft(c) \/ IrqTimer(c) \/ IrqExt(c)
           \/ \E t \in Tasks : TimeExpire(t)
           \/ UNCHANGED vars
  BY <1>3, TreeQuietIrq, QuietKeepsFork
<1> QED
  BY <1>1, <1>2, <1>3 DEF Next

LEMMA ForkInvariant == Spec => []ForkInv
  BY TypeCorrect, OwnInvariant, ListInvariant, ForkInit, ForkStep, PTL DEF Spec

(* fork() may read the PID of the child after it made the child            *)
(* schedulable, for any process tree on any number of CPUs: the child may  *)
(* have run and died meanwhile, but only its parent, which is still in     *)
(* fork(), could have it freed.                                            *)
THEOREM ForkSafe == Spec => []ForkedChildAllocated
<1>1. TypeOK /\ OwnInv /\ ForkInv => ForkedChildAllocated
  <2> SUFFICES ASSUME TypeOK, OwnInv, ForkInv, NEW c \in Cpus, pc[c] \in Forking
               PROVE  state[local[c]] # "FREE"
    BY DEF ForkedChildAllocated, Forking
  <2>1. CASE local[c] = init_task
    BY <2>1 DEF ForkInv, PidOneLives
  <2>2. CASE local[c] # init_task
    BY <2>2, InHandIsSafe
  <2> QED
    BY <2>1, <2>2
<1> QED
  BY <1>1, TypeCorrect, OwnInvariant, ForkInvariant, PTL

(* The parent of a task is neither free nor dead, and so are the children  *)
(* of the dead and of the freed with PID 1.                                *)
ParentsLive ==
  \A x \in Tasks : state[x] # "FREE" /\ x # init_task =>
    parent[x] \in Tasks /\ state[parent[x]] \notin {"FREE", "EXIT_DEAD"}

LEMMA ParentsInit == Init => ParentsLive
  BY SMT, Z3T(30) DEF Init, ParentsLive

LEMMA ParentsQuiet == ParentsLive /\ TreeQuiet => ParentsLive'
<1> SUFFICES ASSUME ParentsLive, TreeQuiet, NEW x \in Tasks, state'[x] # "FREE", x # init_task
             PROVE  parent'[x] \in Tasks /\ state'[parent'[x]] \notin {"FREE", "EXIT_DEAD"}
  BY DEF ParentsLive
<1>1. parent[x] \in Tasks /\ state[parent[x]] \notin {"FREE", "EXIT_DEAD"}
  BY DEF ParentsLive, TreeQuiet
<1> QED
  BY <1>1 DEF TreeQuiet

LEMMA ParentsCalling ==
  ASSUME TypeOK, OwnInv, ParentsLive, NEW c \in Cpus, NEW t \in Tasks, Calling(c, t)
  PROVE  ParentsLive'
<1>1. ASSUME NEW new \in Tasks, SysFork(c, t, new) PROVE ParentsLive'
  <2>1. /\ current_task[c] = t /\ state[t] = "RUNNING" /\ state[new] = "FREE"
        /\ state' = [state EXCEPT ![new] = "RUNNABLE"]
        /\ parent' = [parent EXCEPT ![new] = t]
    BY <1>1 DEF SysFork, Syscall, OwnInv, CurrentRuns
  <2> QED
    BY <2>1 DEF ParentsLive, TypeOK
<1>2. ASSUME NEW pid \in Tasks \cup {ANY}, NEW child \in Tasks,
             SysWaitReaps(c, t, pid, child)
      PROVE  ParentsLive'
  <2>1. /\ state[child] = "EXIT_DEAD"
        /\ state' = [state EXCEPT ![child] = "FREE"]
        /\ parent' = [parent EXCEPT ![child] = NULL]
    BY <1>2 DEF SysWaitReaps, Dead
  <2> QED
    BY <2>1 DEF ParentsLive, TypeOK
<1>3. ASSUME TaskExit(c, t) PROVE ParentsLive'
  BY <1>3 DEF TaskExit, ParentsLive
<1> QED
  BY <1>1, <1>2, <1>3, TreeQuietCalling, ParentsQuiet DEF Calling

LEMMA ParentsExitDead ==
  ASSUME TypeOK, OwnInv, PidOneLives, ParentsLive, NEW c \in Cpus, TaskExitDead(c)
  PROVE  ParentsLive'
<1>0. PICK t \in Tasks : ExitsAs(c, t)
  BY ExitDeadEffect
<1>1. /\ t # init_task /\ state[t] \notin {"FREE", "EXIT_DEAD"}
      /\ \A x \in Tasks : x # t =>
           /\ state'[x] = "FREE" <=> state[x] = "FREE"
           /\ state'[x] = "EXIT_DEAD" <=> state[x] = "EXIT_DEAD"
           /\ parent'[x] = IF x \in Children(t) THEN init_task ELSE parent[x]
      /\ state'[t] = "FREE" \/ parent' = Reparented(t)
  BY <1>0 DEF ExitsAs
<1>2. state'[init_task] \notin {"FREE", "EXIT_DEAD"}
  BY <1>1, TasksAssumption DEF TasksAssumption, PidOneLives
<1>3. ASSUME NEW x \in Tasks, state'[x] # "FREE", x # init_task
      PROVE  parent'[x] \in Tasks /\ state'[parent'[x]] \notin {"FREE", "EXIT_DEAD"}
  <2>1. /\ state[x] # "FREE"
        /\ parent'[x] = IF x \in Children(t) THEN init_task ELSE parent[x]
    BY <1>1, <1>3 DEF Reparented
  <2>2. CASE parent[x] = t
    BY <1>2, <2>1, <2>2, TasksAssumption DEF TasksAssumption, Children
  <2>3. CASE parent[x] # t
    <3>1. parent[x] \in Tasks /\ state[parent[x]] \notin {"FREE", "EXIT_DEAD"}
      BY <1>3, <2>1 DEF ParentsLive
    <3>2. parent'[x] = parent[x]
      BY <2>1, <2>3 DEF Children
    <3> QED
      BY <1>1, <2>3, <3>1, <3>2
  <2> QED
    BY <2>2, <2>3
<1> QED
  BY <1>3 DEF ParentsLive

LEMMA ParentsStep ==
  TypeOK /\ OwnInv /\ ListInv /\ ForkInv /\ ParentsLive /\ [Next]_vars => ParentsLive'
<1> SUFFICES ASSUME TypeOK, OwnInv, ListInv, ForkInv, ParentsLive, [Next]_vars
             PROVE  ParentsLive'
  OBVIOUS
<1>1. ASSUME NEW c \in Cpus, NEW t \in Tasks, Calling(c, t) PROVE ParentsLive'
  BY <1>1, ParentsCalling
<1>2. ASSUME NEW c \in Cpus, Kernel(c) PROVE ParentsLive'
  <2>1. PidOneLives
    BY DEF ForkInv
  <2> QED
    BY <1>2, <2>1, ParentsExitDead, TreeQuietKernel, ParentsQuiet
<1>3. CASE \/ \E c \in Cpus : IrqSoft(c) \/ IrqTimer(c) \/ IrqExt(c)
           \/ \E t \in Tasks : TimeExpire(t)
           \/ UNCHANGED vars
  BY <1>3, TreeQuietIrq, ParentsQuiet
<1> QED
  BY <1>1, <1>2, <1>3 DEF Next

LEMMA ParentsInvariant == Spec => []ParentsLive
  BY TypeCorrect, OwnInvariant, ListInvariant, ForkInvariant, ParentsInit, ParentsStep,
     PTL DEF Spec

(* The parent pointer of a task in use never points to a freed one, for    *)
(* any process tree: task_exit() gives the children to PID 1 before it, or *)
(* a wait() of its parent, frees the task.                                 *)
THEOREM ParentsSafe == Spec => []ParentAllocated
<1>1. ParentsLive => ParentAllocated
  BY TasksAssumption DEF TasksAssumption, ParentsLive, ParentAllocated
<1> QED
  BY <1>1, ParentsInvariant, PTL

-----------------------------------------------------------------------------
(***************************************************************************)
(* Who is told of an exit.  task_exit() reads its parent before it takes   *)
(* the parent's lock.  On one CPU nothing comes between the two; if only   *)
(* PID 1 forks, then nobody's parent ever changes.  In a deeper tree on    *)
(* several CPUs the parent may exit in between, and NotifiesItsParent is   *)
(* false.                                                                  *)
(***************************************************************************)
FlatTree == Forkers \subseteq {init_task}

StableParents == FlatTree \/ \A c, d \in Cpus : c = d

ParentsArePidOne ==
  FlatTree => /\ parent[init_task] = NULL
              /\ \A x \in Tasks : state[x] # "FREE" /\ x # init_task => parent[x] = init_task

ExitInv ==
  /\ StableParents
  /\ ParentsArePidOne
  /\ \A c \in Cpus : pc[c] = "exit" => local[c] = parent[current_task[c]]

LEMMA ExitInit == StableParents /\ Init => ExitInv
<1> SUFFICES ASSUME StableParents, Init PROVE ExitInv
  OBVIOUS
<1>1. parent[init_task] = NULL /\ \A x \in Tasks : x # init_task => state[x] = "FREE"
  BY TasksAssumption DEF TasksAssumption, Init
<1>2. \A c \in Cpus : pc[c] # "exit"
  BY DEF Init
<1> QED
  BY <1>1, <1>2 DEF ExitInv, ParentsArePidOne

LEMMA ExitQuiet == ExitInv /\ TreeQuiet => ExitInv'
<1> SUFFICES ASSUME ExitInv, TreeQuiet PROVE ExitInv'
  OBVIOUS
<1>1. ParentsArePidOne'
  BY DEF ExitInv, ParentsArePidOne, TreeQuiet
<1>2. ASSUME NEW c \in Cpus, pc'[c] = "exit" PROVE local'[c] = parent'[current_task'[c]]
  BY <1>2 DEF ExitInv, TreeQuiet
<1>3. StableParents'
  BY DEF ExitInv, StableParents, FlatTree
<1> QED
  BY <1>1, <1>2, <1>3 DEF ExitInv

LEMMA ExitCalling ==
  ASSUME TypeOK, OwnInv, PidOneLives, ExitInv, NEW c \in Cpus, NEW t \in Tasks, Calling(c, t)
  PROVE  ExitInv'
<1>0. StableParents'
  BY DEF ExitInv, StableParents, FlatTree
<1>1. ASSUME NEW new \in Tasks, SysFork(c, t, new) PROVE ExitInv'
  <2>1. /\ pc[c] = "user" /\ t \in Forkers /\ state[new] = "FREE"
        /\ state' = [state EXCEPT ![new] = "RUNNABLE"]
        /\ parent' = [parent EXCEPT ![new] = t]
        /\ local' = [local EXCEPT ![c] = new]
        /\ pc' = [pc EXCEPT ![c] = "enqueue"]
        /\ current_task' = current_task
    BY <1>1 DEF SysFork, Syscall, Goto
  <2>2. \A d \in Cpus : current_task[d] # new
    BY SMT, Z3T(30), <2>1, CpusAssumption DEF CpusAssumption, OwnInv, DeadIsUnowned, OneOwner
  <2>3. ParentsArePidOne'
    <3>1. new # init_task
      BY <2>1 DEF PidOneLives
    <3>2. FlatTree => t = init_task
      BY <2>1 DEF FlatTree
    <3> QED
      BY <2>1, <3>1, <3>2, TasksAssumption
      DEF TasksAssumption, ExitInv, ParentsArePidOne, FlatTree, TypeOK
  <2>4. ASSUME NEW d \in Cpus, pc'[d] = "exit" PROVE local'[d] = parent'[current_task'[d]]
    <3>1. d # c /\ pc[d] = "exit" /\ local'[d] = local[d]
      BY <2>1, <2>4 DEF TypeOK
    <3>2. current_task[d] \in Tasks
      BY <3>1 DEF OwnInv, CurrentRuns, TypeOK
    <3> QED
      BY <2>1, <2>2, <3>1, <3>2 DEF ExitInv, TypeOK
  <2> QED
    BY <1>0, <2>3, <2>4 DEF ExitInv
<1>2. ASSUME NEW pid \in Tasks \cup {ANY}, NEW child \in Tasks,
             SysWaitReaps(c, t, pid, child)
      PROVE  ExitInv'
  <2>1. /\ state[child] = "EXIT_DEAD"
        /\ state' = [state EXCEPT ![child] = "FREE"]
        /\ parent' = [parent EXCEPT ![child] = NULL]
        /\ pc' = [pc EXCEPT ![c] = "events"]
        /\ local' = local /\ current_task' = current_task
    BY <1>2 DEF SysWaitReaps, Goto, Dead
  <2>2. \A d \in Cpus : current_task[d] # child
    BY SMT, Z3T(30), <2>1, CpusAssumption DEF CpusAssumption, OwnInv, DeadIsUnowned, OneOwner
  <2>3. ParentsArePidOne'
    BY <2>1, TasksAssumption
    DEF TasksAssumption, ExitInv, ParentsArePidOne, TypeOK
  <2>4. ASSUME NEW d \in Cpus, pc'[d] = "exit" PROVE local'[d] = parent'[current_task'[d]]
    <3>1. pc[d] = "exit"
      BY <2>1, <2>4 DEF TypeOK
    <3>2. current_task[d] \in Tasks
      BY <3>1 DEF OwnInv, CurrentRuns, TypeOK
    <3> QED
      BY <2>1, <2>2, <3>1, <3>2 DEF ExitInv, TypeOK
  <2> QED
    BY <1>0, <2>3, <2>4 DEF ExitInv
<1>3. ASSUME TaskExit(c, t) PROVE ExitInv'
  <2>1. /\ current_task[c] = t
        /\ state' = state /\ parent' = parent /\ current_task' = current_task
        /\ pc' = [pc EXCEPT ![c] = "exit"]
        /\ local' = [local EXCEPT ![c] = parent[t]]
    BY <1>3 DEF TaskExit, Syscall, Goto
  <2>2. ParentsArePidOne'
    BY <2>1 DEF ExitInv, ParentsArePidOne
  <2>3. ASSUME NEW d \in Cpus, pc'[d] = "exit" PROVE local'[d] = parent'[current_task'[d]]
    BY <2>1, <2>3 DEF ExitInv, TypeOK
  <2> QED
    BY <1>0, <2>2, <2>3 DEF ExitInv
<1> QED
  BY <1>1, <1>2, <1>3, TreeQuietCalling, ExitQuiet DEF Calling

LEMMA ExitExitDead ==
  ASSUME TypeOK, OwnInv, PidOneLives, ExitInv, NEW c \in Cpus, TaskExitDead(c)
  PROVE  ExitInv'
<1>0. PICK t \in Tasks : ExitsAs(c, t)
  BY ExitDeadEffect
<1>1. /\ t = current_task[c] /\ t # init_task
      /\ state[t] \notin {"FREE", "EXIT_DEAD"}
      /\ pc' = [pc EXCEPT ![c] = "events"] /\ local' = [local EXCEPT ![c] = NULL]
      /\ current_task' = [current_task EXCEPT ![c] = NULL]
      /\ \A x \in Tasks : x # t =>
           /\ state'[x] = "FREE" <=> state[x] = "FREE"
           /\ state'[x] = "EXIT_DEAD" <=> state[x] = "EXIT_DEAD"
           /\ parent'[x] = IF x \in Children(t) THEN init_task ELSE parent[x]
      /\ state'[t] = "FREE" \/ parent' = Reparented(t)
  BY <1>0 DEF ExitsAs
<1>2. FlatTree => Children(t) = {}
  <2>1. FlatTree => \A x \in Tasks : ~(state[x] # "FREE" /\ parent[x] = t)
    <3>1. t # init_task /\ t # NULL
      BY <1>1, TasksAssumption DEF TasksAssumption
    <3>2. ParentsArePidOne
      BY DEF ExitInv
    <3> QED
      BY <3>1, <3>2 DEF ParentsArePidOne
  <2> QED
    BY <2>1 DEF Children
<1>3. ParentsArePidOne'
  <2> SUFFICES ASSUME FlatTree
               PROVE  /\ parent'[init_task] = NULL
                      /\ \A x \in Tasks : state'[x] # "FREE" /\ x # init_task =>
                           parent'[x] = init_task
    BY DEF ParentsArePidOne, FlatTree
  <2>1. \A x \in Tasks : x # t => parent'[x] = parent[x]
    BY <1>1, <1>2
  <2>2. state'[t] # "FREE" => parent'[t] = parent[t]
    BY <1>1, <1>2 DEF Reparented
  <2> QED
    BY <1>1, <2>1, <2>2, TasksAssumption DEF TasksAssumption, ExitInv, ParentsArePidOne
<1>4. ASSUME NEW d \in Cpus, pc'[d] = "exit" PROVE local'[d] = parent'[current_task'[d]]
  <2>1. /\ d # c /\ pc[d] = "exit" /\ local'[d] = local[d]
        /\ current_task'[d] = current_task[d]
    BY <1>1, <1>4 DEF TypeOK
  <2>2. current_task[d] \in Tasks /\ current_task[d] # t
    <3>1. current_task[d] \in Tasks
      BY <2>1 DEF OwnInv, CurrentRuns, TypeOK
    <3> QED
      BY SMT, Z3T(30), <1>1, <2>1, <3>1 DEF OwnInv, OneOwner
  <2>3. FlatTree
    BY <2>1 DEF ExitInv, StableParents
  <2> QED
    BY <1>1, <1>2, <2>1, <2>2, <2>3 DEF ExitInv
<1>5. StableParents'
  BY DEF ExitInv, StableParents, FlatTree
<1> QED
  BY <1>3, <1>4, <1>5 DEF ExitInv

LEMMA ExitStep ==
  TypeOK /\ OwnInv /\ ListInv /\ ForkInv /\ ExitInv /\ [Next]_vars => ExitInv'
<1> SUFFICES ASSUME TypeOK, OwnInv, ListInv, ForkInv, ExitInv, [Next]_vars
             PROVE  ExitInv'
  OBVIOUS
<1>0. PidOneLives
  BY DEF ForkInv
<1>1. ASSUME NEW c \in Cpus, NEW t \in Tasks, Calling(c, t) PROVE ExitInv'
  BY <1>0, <1>1, ExitCalling
<1>2. ASSUME NEW c \in Cpus, Kernel(c) PROVE ExitInv'
  BY <1>0, <1>2, ExitExitDead, TreeQuietKernel, ExitQuiet
<1>3. CASE \/ \E c \in Cpus : IrqSoft(c) \/ IrqTimer(c) \/ IrqExt(c)
           \/ \E t \in Tasks : TimeExpire(t)
           \/ UNCHANGED vars
  BY <1>3, TreeQuietIrq, ExitQuiet
<1> QED
  BY <1>1, <1>2, <1>3 DEF Next

LEMMA ExitInvariant == StableParents /\ Spec => []ExitInv
  BY TypeCorrect, OwnInvariant, ListInvariant, ForkInvariant, ExitInit, ExitStep,
     PTL DEF Spec

(* The parent that task_exit() locks and notifies is the parent of the     *)
(* exiting task ("must hold the parent's lock", task.c:82 and 264): on one *)
(* CPU for any process tree, and on any number of CPUs if only PID 1       *)
(* forks.                                                                  *)
THEOREM ExitsNotifyParent == StableParents /\ Spec => NotifiesItsParent
<1>1. ExitInv /\ [Next]_vars =>
        [\A c \in Cpus : TaskExitDead(c) => local[c] = parent[current_task[c]]]_vars
  BY DEF ExitInv, TaskExitDead
<1> QED
  BY <1>1, ExitInvariant, PTL DEF Spec, NotifiesItsParent

(* wait() and task_exit() free a task only when its parent learns of it:   *)
(* the parent is in wait(), or sleeps there and goes on with the exit      *)
(* status.  Under the same assumption.                                     *)
THEOREM ReapsTellParent == StableParents /\ Spec => ReapTellsParent
<1> DEFINE Told(t, p) ==
      /\ p # NULL
      /\ \/ state[p] = "RUNNING" /\ state'[p] = "RUNNING"
         \/ /\ wfe[p] = "CHILD" /\ wfe_pid[p] \in {ANY, t}
            /\ wfe'[p] = "NONE" /\ state'[p] = "RUNNABLE"
<1>1. ASSUME TypeOK, OwnInv, ListInv, ForkInv, ParentsLive, ExitInv, Next,
             NEW x \in Tasks, state[x] # "FREE", state'[x] = "FREE"
      PROVE  Told(x, parent[x])
  <2>1. ASSUME NEW c \in Cpus, NEW t \in Tasks, Calling(c, t) PROVE Told(x, parent[x])
    <3>1. ASSUME NEW new \in Tasks, SysFork(c, t, new) PROVE FALSE
      <4>1. state' = [state EXCEPT ![new] = "RUNNABLE"]
        BY <3>1 DEF SysFork
      <4> QED
        BY <1>1, <4>1 DEF TypeOK
    <3>2. ~TaskExit(c, t)
      BY <1>1 DEF TaskExit
    <3>3. ASSUME NEW pid \in Tasks \cup {ANY}, NEW child \in Tasks,
                 SysWaitReaps(c, t, pid, child)
          PROVE  Told(x, parent[x])
      <4>1. /\ current_task[c] = t /\ parent[child] = t /\ state[child] = "EXIT_DEAD"
            /\ state' = [state EXCEPT ![child] = "FREE"]
        BY <3>3 DEF SysWaitReaps, Syscall, Dead, WaitedFor, Children
      <4>2. x = child
        BY <1>1, <4>1 DEF TypeOK
      <4>3. state[t] = "RUNNING"
        BY <1>1, <3>3 DEF SysWaitReaps, Syscall, OwnInv, CurrentRuns
      <4> QED
        BY <1>1, <4>1, <4>2, <4>3, TasksAssumption DEF TasksAssumption, TypeOK
    <3> QED
      BY <1>1, <2>1, <3>1, <3>2, <3>3, TreeQuietCalling DEF Calling, TreeQuiet
  <2>2. ASSUME NEW c \in Cpus, TaskExitDead(c) PROVE Told(x, parent[x])
    <3>1. x = current_task[c] /\ x # init_task /\ WaitsFor(local[c], x)
      BY <1>1, <2>2, ExitDeadEffect DEF ForkInv, ExitsAs
    <3>2. local[c] = parent[x] /\ parent[x] \in Tasks
      BY <1>1, <2>2, <3>1 DEF TaskExitDead, ExitInv, ParentsLive
    <3>3. state[parent[x]] = "WFE" /\ parent[x] # x
      <4>1. state[parent[x]] = "WFE"
        BY <1>1, <3>1, <3>2 DEF WaitsFor, OwnInv, WfeMatchesState
      <4>2. state[x] = "RUNNING"
        BY <1>1, <2>2, <3>1, TasksAssumption
        DEF TasksAssumption, TaskExitDead, OwnInv, CurrentRuns
      <4> QED
        BY <4>1, <4>2
    <3>4. state'[parent[x]] = "RUNNABLE" /\ wfe'[parent[x]] = "NONE"
      BY <1>1, <2>2, <3>1, <3>2, <3>3 DEF TaskExitDead, TypeOK
    <3> QED
      BY <3>1, <3>2, <3>4, TasksAssumption DEF TasksAssumption, WaitsFor
  <2>3. ~TreeQuiet
    BY <1>1 DEF TreeQuiet
  <2> QED
    BY <1>1, <2>1, <2>2, <2>3, TreeQuietKernel, TreeQuietIrq DEF Next
<1>2. TypeOK /\ OwnInv /\ ListInv /\ ForkInv /\ ParentsLive /\ ExitInv /\ [Next]_vars =>
        [\A t \in Tasks : state[t] # "FREE" /\ state'[t] = "FREE" => Told(t, parent[t])]_vars
  BY <1>1
<1> QED
  BY <1>2, TypeCorrect, OwnInvariant, ListInvariant, ForkInvariant, ParentsInvariant,
     ExitInvariant, PTL DEF Spec, ReapTellsParent

-----------------------------------------------------------------------------
(***************************************************************************)
(* No lost wakeup.  If only PID 1 forks, then only PID 1 has children to   *)
(* wait for, and nobody else's exit hands it a child that is dead already. *)
(***************************************************************************)
ChildOf(child, x, pid) ==
  state[child] # "FREE" /\ parent[child] = x /\ pid \in {ANY, child}

Waker(x) ==
  \/ wfe[x] = "TIMER" /\ timer[x] # "off"
  \/ wfe[x] = "READ" /\ reader = x
  \/ /\ wfe[x] = "CHILD"
     /\ \E child \in Tasks : ChildOf(child, x, wfe_pid[x])
     /\ \A child \in Tasks : ChildOf(child, x, wfe_pid[x]) => state[child] # "EXIT_DEAD"

Wakers == \A x \in Tasks : state[x] = "WFE" => Waker(x)

(* A sleeper that the step leaves asleep, with its timer and its place as  *)
(* the reader of the device.                                               *)
SleepsOn(x) ==
  /\ state[x] = "WFE"
  /\ wfe'[x] = wfe[x] /\ wfe_pid'[x] = wfe_pid[x]
  /\ timer[x] # "off" => timer'[x] # "off"
  /\ reader = x => reader' = x

(* Nobody's children change: those who slept sleep on, and who falls       *)
(* asleep is queued for its event.                                         *)
SleepQuiet ==
  /\ TreeQuiet
  /\ \A x \in Tasks : state'[x] = "WFE" => SleepsOn(x) \/ Waker(x)'

LEMMA WakersAreSleepers == SleepersHaveWaker <=> Wakers
<1>1. ASSUME NEW x \in Tasks
      PROVE  /\ WaitedFor(x, wfe_pid[x]) # {} <=>
                  \E child \in Tasks : ChildOf(child, x, wfe_pid[x])
             /\ Dead(WaitedFor(x, wfe_pid[x])) = {} <=>
                  \A child \in Tasks : ChildOf(child, x, wfe_pid[x]) =>
                    state[child] # "EXIT_DEAD"
  BY DEF WaitedFor, Dead, Children, ChildOf
<1> QED
  BY <1>1 DEF SleepersHaveWaker, Wakers, Waker

LEMMA QuietKeepsWakers ==
  ASSUME Wakers, SleepQuiet
  PROVE  Wakers'
<1>1. ASSUME NEW x \in Tasks, state'[x] = "WFE", SleepsOn(x) PROVE Waker(x)'
  <2>1. Waker(x)
    BY <1>1 DEF Wakers, SleepsOn
  <2>2. ASSUME NEW child \in Tasks
        PROVE  /\ ChildOf(child, x, wfe_pid[x])' <=> ChildOf(child, x, wfe_pid[x])
               /\ state'[child] = "EXIT_DEAD" <=> state[child] = "EXIT_DEAD"
    BY <1>1 DEF ChildOf, SleepQuiet, TreeQuiet, SleepsOn
  <2> QED
    BY <1>1, <2>1, <2>2 DEF Waker, SleepsOn
<1> QED
  BY <1>1 DEF Wakers, SleepQuiet

(* Who has children to wait for is PID 1. *)
LEMMA ParentIsPidOne ==
  ASSUME TypeOK, FlatTree, ParentsArePidOne, NEW x \in Tasks, NEW child \in Tasks,
         state[child] # "FREE", parent[child] = x
  PROVE  x = init_task /\ child # init_task
  BY TasksAssumption DEF TasksAssumption, ParentsArePidOne

LEMMA WakersCalling ==
  ASSUME TypeOK, OwnInv, PidOneLives, FlatTree, ParentsArePidOne, Wakers,
         NEW c \in Cpus, NEW t \in Tasks, Calling(c, t)
  PROVE  Wakers'
<1>0. current_task[c] = t /\ state[t] = "RUNNING" /\ wfe[t] = "NONE"
  <2>1. pc[c] = "user" /\ current_task[c] = t
    BY DEF Calling, SysOther, SysSchedYield, SysFork, SysNanosleep, SysReadBlocks,
           SysWaitNoChild, SysWaitReaps, SysWaitBlocks, TaskExit, Syscall
  <2>2. state[t] = "RUNNING"
    BY <2>1 DEF OwnInv, CurrentRuns
  <2> QED
    BY <2>1, <2>2 DEF OwnInv, WfeMatchesState
<1>1. ASSUME NEW new \in Tasks, SysFork(c, t, new) PROVE Wakers'
  <2>1. /\ t = init_task /\ state[new] = "FREE" /\ reader' = reader
        /\ state' = [state EXCEPT ![new] = "RUNNABLE"]
        /\ parent' = [parent EXCEPT ![new] = t]
        /\ wfe' = [wfe EXCEPT ![new] = "NONE"]
        /\ wfe_pid' = [wfe_pid EXCEPT ![new] = ANY]
        /\ timer' = [timer EXCEPT ![new] = "off"]
    BY <1>1 DEF SysFork, FlatTree
  <2>2. ASSUME NEW x \in Tasks, state'[x] = "WFE" PROVE Waker(x)'
    <3>1. x # new /\ x # t /\ state[x] = "WFE"
      BY <1>0, <2>1, <2>2 DEF TypeOK
    <3>2. Waker(x)
      BY <3>1 DEF Wakers
    <3>3. wfe[x] # "CHILD"
      BY <2>1, <3>1, <3>2, ParentIsPidOne DEF Waker, ChildOf
    <3> QED
      BY <2>1, <3>1, <3>2, <3>3 DEF Waker, TypeOK
  <2> QED
    BY <2>2 DEF Wakers
<1>2. ASSUME NEW pid \in Tasks \cup {ANY}, NEW child \in Tasks,
             SysWaitReaps(c, t, pid, child)
      PROVE  Wakers'
  <2>1. /\ state[child] = "EXIT_DEAD" /\ parent[child] = t
        /\ state' = [state EXCEPT ![child] = "FREE"]
        /\ wfe' = wfe /\ timer' = timer /\ reader' = reader
    BY <1>2 DEF SysWaitReaps, Dead, WaitedFor, Children
  <2>2. ASSUME NEW x \in Tasks, state'[x] = "WFE" PROVE Waker(x)'
    <3>1. x # t /\ state[x] = "WFE"
      BY <1>0, <2>1, <2>2 DEF TypeOK
    <3>2. Waker(x)
      BY <3>1 DEF Wakers
    <3>3. wfe[x] # "CHILD"
      <4>1. t = init_task
        BY <2>1, ParentIsPidOne
      <4> QED
        BY <3>1, <3>2, <4>1, ParentIsPidOne DEF Waker, ChildOf
    <3> QED
      BY <2>1, <3>2, <3>3 DEF Waker
  <2> QED
    BY <2>2 DEF Wakers
<1>3. ASSUME TaskExit(c, t) PROVE Wakers'
  <2>1. /\ state' = state /\ parent' = parent /\ wfe_pid' = wfe_pid /\ reader' = reader
        /\ timer' = [timer EXCEPT ![t] = "off"]
        /\ wfe' = [wfe EXCEPT ![t] = IF @ = "TIMER" THEN "NONE" ELSE @]
    BY <1>3 DEF TaskExit
  <2>2. ASSUME NEW x \in Tasks, state'[x] = "WFE" PROVE Waker(x)'
    <3>1. x # t /\ state[x] = "WFE"
      BY <1>0, <2>1, <2>2
    <3>2. Waker(x) /\ wfe'[x] = wfe[x] /\ timer'[x] = timer[x]
      BY <2>1, <3>1 DEF Wakers, TypeOK
    <3> QED
      BY <2>1, <3>2 DEF Waker, ChildOf
  <2> QED
    BY <2>2 DEF Wakers
<1>4. ASSUME SysOther(c, t) \/ SysSchedYield(c, t) \/ SysNanosleep(c, t) \/ SysReadBlocks(c, t)
      PROVE  Wakers'
  <2>1. ASSUME NEW x \in Tasks, state'[x] = "WFE" PROVE SleepsOn(x) \/ Waker(x)'
    <3>1. CASE SysOther(c, t) \/ SysSchedYield(c, t)
      BY <2>1, <3>1 DEF SysOther, SysSchedYield, taskVars, SleepsOn
    <3>2. CASE SysNanosleep(c, t)
      BY <2>1, <3>2 DEF SysNanosleep, SleepsOn, Waker, TypeOK
    <3>3. CASE SysReadBlocks(c, t)
      BY <2>1, <3>3, TasksAssumption
      DEF TasksAssumption, SysReadBlocks, SleepsOn, Waker, TypeOK
    <3> QED
      BY <1>4, <3>1, <3>2, <3>3
  <2>2. TreeQuiet
    BY <1>4, TreeQuietCalling
  <2> QED
    BY <2>1, <2>2, QuietKeepsWakers DEF SleepQuiet
<1>5. ASSUME NEW pid \in Tasks \cup {ANY}, SysWaitNoChild(c, t, pid) \/ SysWaitBlocks(c, t, pid)
      PROVE  Wakers'
  <2>1. TreeQuiet
    BY <1>5, TreeQuietCalling
  <2>2. CASE SysWaitNoChild(c, t, pid)
    BY <2>1, <2>2, QuietKeepsWakers DEF SleepQuiet, SleepsOn, SysWaitNoChild, taskVars
  <2>3. CASE SysWaitBlocks(c, t, pid)
    <3>1. /\ WaitedFor(t, pid) # {} /\ Dead(WaitedFor(t, pid)) = {}
          /\ wfe' = [wfe EXCEPT ![t] = "CHILD"]
          /\ wfe_pid' = [wfe_pid EXCEPT ![t] = pid]
          /\ state' = [state EXCEPT ![t] = "WFE"]
          /\ parent' = parent /\ timer' = timer /\ reader' = reader
      BY <2>3 DEF SysWaitBlocks
    <3>2. Waker(t)'
      <4>1. wfe'[t] = "CHILD" /\ wfe_pid'[t] = pid
        BY <3>1 DEF TypeOK
      <4>2. ASSUME NEW child \in Tasks
            PROVE  /\ ChildOf(child, t, wfe_pid[t])' <=> child \in WaitedFor(t, pid)
                   /\ state'[child] = "EXIT_DEAD" <=> state[child] = "EXIT_DEAD"
        BY <2>1, <3>1, <4>1 DEF ChildOf, WaitedFor, Children, TreeQuiet
      <4>3. WaitedFor(t, pid) \subseteq Tasks
        BY DEF WaitedFor, Children
      <4> QED
        BY <3>1, <4>1, <4>2, <4>3 DEF Waker, Dead
    <3>3. ASSUME NEW x \in Tasks, x # t, state'[x] = "WFE" PROVE SleepsOn(x)
      BY <3>1, <3>3 DEF SleepsOn, TypeOK
    <3> QED
      BY <2>1, <3>2, <3>3, QuietKeepsWakers DEF SleepQuiet
  <2> QED
    BY <1>5, <2>2, <2>3
<1> QED
  BY <1>1, <1>2, <1>3, <1>4, <1>5 DEF Calling

LEMMA WakersExitDead ==
  ASSUME TypeOK, OwnInv, PidOneLives, FlatTree, ExitInv, Wakers,
         NEW c \in Cpus, TaskExitDead(c)
  PROVE  Wakers'
<1>1. PICK t \in Tasks : ExitsAs(c, t)
  BY ExitDeadEffect
<1>2. ParentsArePidOne /\ state[t] # "FREE" /\ t # init_task /\ local[c] = init_task
  BY <1>1 DEF ExitsAs, ExitInv, ParentsArePidOne
<1>3. /\ wfe_pid' = wfe_pid /\ timer' = timer /\ reader' = reader
      /\ \A x \in Tasks : state'[x] = "WFE" => state[x] = "WFE" /\ x # t
    BY SMT, Z3T(30), <1>1 DEF ExitsAs, TaskExitDead, TypeOK
<1>4. CASE WaitsFor(init_task, t)
  <2>1. /\ state'[init_task] # "WFE"
        /\ wfe' = [wfe EXCEPT ![init_task] = "NONE"]
    <3>1. t = current_task[c]
      BY <1>1 DEF ExitsAs
    <3>2. /\ state' = [x \in Tasks |->
               IF x = t THEN "FREE"
               ELSE IF x = init_task /\ state[init_task] = "WFE" THEN "RUNNABLE"
               ELSE state[x]]
          /\ wfe' = [wfe EXCEPT ![init_task] = "NONE"]
      BY <1>2, <1>4, <3>1 DEF TaskExitDead
    <3> QED
      BY <1>2, <3>2, TasksAssumption DEF TasksAssumption
  <2>2. ASSUME NEW x \in Tasks, state'[x] = "WFE" PROVE Waker(x)'
    <3>1. x # init_task /\ Waker(x)
      BY <1>3, <2>1, <2>2 DEF Wakers
    <3>2. wfe[x] # "CHILD"
      BY <1>2, <3>1, ParentIsPidOne DEF Waker, ChildOf
    <3>3. wfe'[x] = wfe[x]
      BY <2>1, <3>1 DEF TypeOK
    <3> QED
      BY <1>3, <3>1, <3>2, <3>3 DEF Waker
  <2> QED
    BY <2>2 DEF Wakers
<1>5. CASE ~WaitsFor(init_task, t)
  <2>1. wfe' = wfe /\ state' = [state EXCEPT ![t] = "EXIT_DEAD"] /\ parent' = Reparented(t)
    BY <1>1, <1>2, <1>5 DEF TaskExitDead, ExitsAs
  <2>2. parent' = parent
    <3>1. \A x \in Tasks : x \notin Children(t)
      BY <1>2, ParentIsPidOne DEF Children
    <3> QED
      BY <2>1, <3>1 DEF Reparented, TypeOK
  <2>3. ASSUME NEW x \in Tasks, state'[x] = "WFE" PROVE Waker(x)'
    <3>1. Waker(x)
      BY <1>3, <2>3 DEF Wakers
    <3>2. CASE wfe[x] # "CHILD"
      BY <1>3, <2>1, <3>1, <3>2 DEF Waker
    <3>3. CASE wfe[x] = "CHILD"
      <4>1. x = init_task
        BY <1>2, <3>1, <3>3, ParentIsPidOne DEF Waker, ChildOf
      <4>2. wfe_pid[x] \notin {ANY, t}
        BY <1>5, <3>3, <4>1 DEF WaitsFor
      <4>3. ASSUME NEW child \in Tasks
            PROVE  /\ ChildOf(child, x, wfe_pid[x])' <=> ChildOf(child, x, wfe_pid[x])
                   /\ child # t => state'[child] = state[child]
        BY <1>2, <1>3, <2>1, <2>2 DEF ChildOf, TypeOK
      <4>4. ~ChildOf(t, x, wfe_pid[x])
        BY <4>2 DEF ChildOf
      <4> QED
        BY <1>3, <2>1, <3>1, <3>3, <4>3, <4>4 DEF Waker
    <3> QED
      BY <3>2, <3>3
  <2> QED
    BY <2>3 DEF Wakers
<1> QED
  BY <1>4, <1>5

LEMMA WakersKernel ==
  ASSUME TypeOK, OwnInv, ListInv, Wakers, NEW c \in Cpus, Kernel(c), ~TaskExitDead(c)
  PROVE  Wakers'
<1>1. TreeQuiet
  BY TreeQuietKernel
<1>2. ASSUME NEW x \in Tasks, state'[x] = "WFE" PROVE SleepsOn(x)
  <2>1. CASE TaskHandleEvents(c)
    <3>1. timer[x] # "expired" /\ state[x] = "WFE"
      BY <1>2, <2>1 DEF TaskHandleEvents
    <3> QED
      BY <2>1, <3>1 DEF TaskHandleEvents, SleepsOn
  <2>2. CASE Schedule(c)
    <3>1. PICK task : TaskActivate(c, task)
      BY <2>2 DEF Schedule
    <3>2. state[x] = "WFE"
      BY SMT, Z3T(30), <1>2, <3>1 DEF TaskActivate
    <3> QED
      BY <2>2, <3>2 DEF Schedule, SleepsOn
  <2>3. CASE TaskEnqueue(c) \/ SchedAll(c) \/ NoEvents(c) \/ NoSchedule(c) \/ DoIdle(c)
             \/ WaitForInterrupt(c) \/ ReturnToUser(c)
    BY <1>2, <2>3 DEF TaskEnqueue, SchedAll, NoEvents, NoSchedule, DoIdle, WaitForInterrupt,
                      ReturnToUser, taskVars, SleepsOn
  <2> QED
    BY <2>1, <2>2, <2>3 DEF Kernel
<1> QED
  BY <1>1, <1>2, QuietKeepsWakers DEF SleepQuiet

LEMMA WakersIrq ==
  ASSUME TypeOK, OwnInv, Wakers,
         \/ \E c \in Cpus : IrqSoft(c) \/ IrqTimer(c) \/ IrqExt(c)
         \/ \E t \in Tasks : TimeExpire(t)
         \/ UNCHANGED vars
  PROVE  Wakers'
<1>1. TreeQuiet
  BY TreeQuietIrq
<1>2. ASSUME NEW x \in Tasks, state'[x] = "WFE" PROVE SleepsOn(x)
  <2>1. ASSUME NEW c \in Cpus, IrqExt(c) PROVE SleepsOn(x)
    <3>1. CASE reader = NULL
      BY <1>2, <2>1, <3>1 DEF IrqExt, SleepsOn
    <3>2. CASE reader # NULL
      <4>1. x # reader
        BY <1>2, <2>1, <3>2 DEF IrqExt, TypeOK
      <4> QED
        BY <1>2, <2>1, <3>2, <4>1 DEF IrqExt, SleepsOn, TypeOK
    <3> QED
      BY <3>1, <3>2
  <2>2. ASSUME NEW t \in Tasks, TimeExpire(t) PROVE SleepsOn(x)
    BY <1>2, <2>2 DEF TimeExpire, SleepsOn, TypeOK
  <2>3. CASE (\E c \in Cpus : IrqSoft(c) \/ IrqTimer(c)) \/ UNCHANGED vars
    BY <1>2, <2>3 DEF IrqSoft, IrqTimer, vars, taskVars, SleepsOn
  <2> QED
    BY <2>1, <2>2, <2>3
<1> QED
  BY <1>1, <1>2, QuietKeepsWakers DEF SleepQuiet

(* The invariant with the assumption that it rests on. *)
WakeInv == FlatTree /\ Wakers

LEMMA WakeStep ==
  TypeOK /\ OwnInv /\ ListInv /\ ForkInv /\ ExitInv /\ WakeInv /\ [Next]_vars => WakeInv'
<1> SUFFICES ASSUME TypeOK, OwnInv, ListInv, ForkInv, ExitInv, WakeInv, [Next]_vars
             PROVE  Wakers'
  BY DEF WakeInv, FlatTree
<1>0. PidOneLives /\ FlatTree /\ ParentsArePidOne /\ Wakers
  BY DEF ForkInv, ExitInv, WakeInv
<1>1. ASSUME NEW c \in Cpus, NEW t \in Tasks, Calling(c, t) PROVE Wakers'
  BY <1>0, <1>1, WakersCalling
<1>2. ASSUME NEW c \in Cpus, Kernel(c) PROVE Wakers'
  BY <1>0, <1>2, WakersExitDead, WakersKernel
<1>3. CASE \/ \E c \in Cpus : IrqSoft(c) \/ IrqTimer(c) \/ IrqExt(c)
           \/ \E t \in Tasks : TimeExpire(t)
           \/ UNCHANGED vars
  BY <1>0, <1>3, WakersIrq
<1> QED
  BY <1>1, <1>2, <1>3 DEF Next

(* No wakeup is lost, on any number of CPUs, if only PID 1 forks: whoever  *)
(* sleeps in nanosleep(), read() or wait() still has the timer, the device *)
(* or the living child that will wake it.  (In a deeper tree task_exit()   *)
(* may hand a dead grandchild to a PID 1 that sleeps in wait() and does    *)
(* not look at it before another child dies.)                              *)
THEOREM NoWakeupIsLost == FlatTree /\ Spec => []SleepersHaveWaker
<1>1. Init => Wakers
  BY SMT, Z3T(30) DEF Init, Wakers
<1>2. WakeInv => SleepersHaveWaker
  BY WakersAreSleepers DEF WakeInv
<1>3. FlatTree => StableParents
  BY DEF StableParents
<1>4. FlatTree /\ Init => WakeInv
  BY <1>1 DEF WakeInv
<1> QED
  BY <1>2, <1>3, <1>4, WakeStep, TypeCorrect, OwnInvariant, ListInvariant, ForkInvariant,
     ExitInvariant, PTL DEF Spec

=============================================================================
