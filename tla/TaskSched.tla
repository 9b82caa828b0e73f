----------------------------- MODULE TaskSched -----------------------------
(***************************************************************************)
(* The task scheduler of the kernel (kernel/task.c): the task list, the    *)
(* states of the tasks, the CPU that owns each task, and the way a CPU     *)
(* goes from a trap back to user mode through prepare_user_return().       *)
(*                                                                         *)
(* The kernel runs with interrupts disabled, so a CPU takes an interrupt   *)
(* only in user mode or in do_idle(), and CPUs interleave at their         *)
(* critical sections.  Each action below is one critical section (of       *)
(* task_lock, or of the locks of the tasks it works on) or one step        *)
(* between two of them.  The order in which task_exit() takes its locks is *)
(* the subject of module ExitLocks; here its critical section is atomic.   *)
(*                                                                         *)
(* A member of Tasks is a memory slot for a struct task: kfree() makes the *)
(* slot FREE and a later fork() may get the same slot again.  Process      *)
(* IDs never repeat in the code; a slot stands for the ID of the task that *)
(* is in it, which is unambiguous while the task is not freed.             *)
(***************************************************************************)
EXTENDS Naturals, Sequences, FiniteSets, TLC

CONSTANTS
  Cpus,          \* the online CPUs
  boot_cpu,      \* the CPU that runs cmain()
  Tasks,         \* the memory slots for tasks
  init_task,     \* the slot of PID 1
  TASK_NO_CPU,   \* on_cpu of a task that no CPU owns
  NULL,          \* the null pointer
  ANY,           \* pid -1 of wait()
  Calls,         \* the system calls the programs use
  Forkers        \* the slots whose programs call fork()

ASSUME CpusAssumption == boot_cpu \in Cpus /\ TASK_NO_CPU \notin Cpus
ASSUME TasksAssumption ==
  /\ init_task \in Tasks
  /\ NULL \notin Tasks
  /\ ANY \notin Tasks
  /\ Forkers \subseteq Tasks

VARIABLES
  task_list,      \* the list of schedulable tasks, head first
  state,          \* state[t]: enum task_state, or "FREE" for an unused slot
  on_cpu,         \* on_cpu[t]: the CPU that owns t
  wfe,            \* wfe[t]: enum task_wfe
  wfe_pid,        \* wfe_pid[t]: wfe.child.pid, what wait() waits for
  parent,         \* parent[t]
  timer,          \* timer[t]: whether t is in timer_list, and expired
  reader,         \* the task whose wfe.read the character device points to
  current_task,   \* per CPU
  schedule,       \* per CPU: the reschedule request
  handle_events,  \* per CPU: the request to walk the timer list
  ipi,            \* per CPU: a software interrupt is pending
  pc,             \* per CPU: where the CPU is
  local,          \* per CPU: fork()'s new, task_exit()'s parent
  bug             \* a BUG() or panic() of the task code was hit

taskVars == <<state, on_cpu, wfe, wfe_pid, parent, timer, reader>>
cpuVars == <<current_task, schedule, handle_events, ipi, pc, local>>
vars == <<task_list, state, on_cpu, wfe, wfe_pid, parent, timer, reader,
          current_task, schedule, handle_events, ipi, pc, local, bug>>

States == {"FREE", "RUNNABLE", "WFE", "RUNNING", "EXIT_DEAD"}
WfeTypes == {"NONE", "CHILD", "TIMER", "READ"}
TimerStates == {"off", "armed", "expired"}

(* user: in user mode.  events, sched, leave: the three tests of           *)
(* prepare_user_return().  idle, wfi: do_idle() before and in the wait     *)
(* instruction, with interrupts enabled.  enqueue, kick: task_enqueue()    *)
(* and sched_all() at the end of fork().  exit: task_exit() after it       *)
(* dropped task_lock.                                                      *)
Places == {"user", "events", "sched", "leave", "idle", "wfi",
           "enqueue", "kick", "exit"}

InterruptsOn == {"user", "idle", "wfi"}

(* Definitions whose name says what is missing (Dropped, Unchecked, Always *)
(* and so on) are faulty variants of the definition that follows them.     *)
(* No specification uses them: they show that the properties would notice. *)
Bug(condition) == bug' = (bug \/ condition)

Children(t) == {c \in Tasks : state[c] # "FREE" /\ parent[c] = t}

(***************************************************************************)
(* init() has queued PID 1, and the boot CPU is about to call sched_all()  *)
(* and prepare_user_return() in cmain().  The other CPUs idle since        *)
(* secondary_cmain(), and already receive ticks.                           *)
(***************************************************************************)
Init ==
  /\ task_list = <<init_task>>
  /\ state = [t \in Tasks |-> IF t = init_task THEN "RUNNABLE" ELSE "FREE"]
  /\ on_cpu = [t \in Tasks |-> TASK_NO_CPU]
  /\ wfe = [t \in Tasks |-> "NONE"]
  /\ wfe_pid = [t \in Tasks |-> ANY]
  /\ parent = [t \in Tasks |-> NULL]
  /\ timer = [t \in Tasks |-> "off"]
  /\ reader = NULL
  /\ current_task = [c \in Cpus |-> NULL]
  /\ schedule = [c \in Cpus |-> FALSE]
  /\ handle_events = [c \in Cpus |-> FALSE]
  /\ ipi = [c \in Cpus |-> FALSE]
  /\ pc = [c \in Cpus |-> IF c = boot_cpu THEN "kick" ELSE "wfi"]
  /\ local = [c \in Cpus |-> IF c = boot_cpu THEN init_task ELSE NULL]
  /\ bug = FALSE

-----------------------------------------------------------------------------
(***************************************************************************)
(* System calls of the current task t of CPU c.                            *)
(***************************************************************************)
Syscall(c, t, call) ==
  /\ call \in Calls
  /\ pc[c] = "user"
  /\ current_task[c] = t

Goto(c, place) == pc' = [pc EXCEPT ![c] = place]

ReschedDropped(c) == UNCHANGED schedule
Resched(c) == schedule' = [schedule EXCEPT ![c] = TRUE]

(* A system call, or a fault that is resolved, that leaves the task        *)
(* machinery alone; also every early error return of the calls below.      *)
SysOther(c, t) ==
  /\ Syscall(c, t, "other")
  /\ Goto(c, "events")
  /\ Bug(state[t] # "RUNNING")
  /\ UNCHANGED <<task_list, taskVars, current_task, schedule, handle_events,
                 ipi, local>>

SysSchedYield(c, t) ==
  /\ Syscall(c, t, "yield")
  /\ Resched(c)
  /\ Goto(c, "events")
  /\ Bug(state[t] # "RUNNING")
  /\ UNCHANGED <<task_list, taskVars, current_task, handle_events, ipi, local>>

(* fork() up to the release of both task locks: the new task is complete,  *)
(* runnable and a child of t, but in no list of the scheduler yet.         *)
SysFork(c, t, new) ==
  /\ Syscall(c, t, "fork")
  /\ t \in Forkers
  /\ state[new] = "FREE"
  /\ state' = [state EXCEPT ![new] = "RUNNABLE"]
  /\ on_cpu' = [on_cpu EXCEPT ![new] = TASK_NO_CPU]
  /\ wfe' = [wfe EXCEPT ![new] = "NONE"]
  /\ wfe_pid' = [wfe_pid EXCEPT ![new] = ANY]
  /\ timer' = [timer EXCEPT ![new] = "off"]
  /\ parent' = [parent EXCEPT ![new] = t]
  /\ local' = [local EXCEPT ![c] = new]
  /\ Goto(c, "enqueue")
  /\ Bug(state[t] # "RUNNING")
  /\ UNCHANGED <<task_list, reader, current_task, schedule, handle_events, ipi>>

(* task_enqueue(new): list_add() puts it at the head. *)
TaskEnqueue(c) ==
  /\ pc[c] = "enqueue"
  /\ task_list' = <<local[c]>> \o task_list
  /\ Goto(c, "kick")
  /\ UNCHANGED <<taskVars, current_task, schedule, handle_events, ipi, local,
                 bug>>

SchedAll(c) ==
  /\ pc[c] = "kick"
  /\ schedule' = [d \in Cpus |-> TRUE]
  /\ ipi' = [d \in Cpus |-> ipi[d] \/ d # c]
  /\ local' = [local EXCEPT ![c] = NULL]
  /\ Goto(c, "events")
  /\ UNCHANGED <<task_list, taskVars, current_task, handle_events, bug>>

(* nanosleep(): task_sleep_until() and the reschedule request. *)
SysNanosleep(c, t) ==
  /\ Syscall(c, t, "sleep")
  /\ Bug(wfe[t] # "NONE" \/ state[t] # "RUNNING")
  /\ wfe' = [wfe EXCEPT ![t] = "TIMER"]
  /\ state' = [state EXCEPT ![t] = "WFE"]
  /\ timer' = [timer EXCEPT ![t] = "armed"]
  /\ handle_events' = [handle_events EXCEPT ![c] = TRUE]
  /\ Resched(c)
  /\ Goto(c, "events")
  /\ UNCHANGED <<task_list, on_cpu, wfe_pid, parent, reader, current_task, ipi,
                 local>>

(* A read() that found the character device empty: devfs_register_reader() *)
(* makes the task the device's reader, unless there is one already.        *)
SysReadBlocks(c, t) ==
  /\ Syscall(c, t, "read")
  /\ reader = NULL
  /\ Bug(wfe[t] # "NONE" \/ state[t] # "RUNNING")
  /\ wfe' = [wfe EXCEPT ![t] = "READ"]
  /\ reader' = t
  /\ state' = [state EXCEPT ![t] = "WFE"]
  /\ Resched(c)
  /\ Goto(c, "events")
  /\ UNCHANGED <<task_list, on_cpu, wfe_pid, parent, timer, current_task,
                 handle_events, ipi, local>>

-----------------------------------------------------------------------------
(***************************************************************************)
(* wait() and task_exit().                                                 *)
(***************************************************************************)
(* task_notify_wait(p, child) finds p waiting for child: it makes p        *)
(* runnable and frees child.                                               *)
WaitsForPidOnly(p, child) == wfe[p] = "CHILD" /\ wfe_pid[p] = child
WaitsForUnchecked(p, child) == wfe_pid[p] \in {ANY, child}
WaitsFor(p, child) == wfe[p] = "CHILD" /\ wfe_pid[p] \in {ANY, child}

(* Children of t that wait(pid) looks at. *)
WaitedFor(t, pid) == {child \in Children(t) : pid \in {ANY, child}}

Dead(children) == {child \in children : state[child] = "EXIT_DEAD"}

SysWaitNoChild(c, t, pid) ==
  /\ Syscall(c, t, "wait")
  /\ WaitedFor(t, pid) = {}
  /\ Goto(c, "events")
  /\ Bug(state[t] # "RUNNING")
  /\ UNCHANGED <<task_list, taskVars, current_task, schedule, handle_events,
                 ipi, local>>

(* A dead child is there: direct notification, task_put() frees it.  Which *)
(* one of several is taken depends on the order of the children list,      *)
(* which is not modelled.                                                  *)
SysWaitReaps(c, t, pid, child) ==
  /\ Syscall(c, t, "wait")
  /\ child \in Dead(WaitedFor(t, pid))
  /\ state' = [state EXCEPT ![child] = "FREE"]
  /\ parent' = [parent EXCEPT ![child] = NULL]
  /\ Goto(c, "events")
  /\ Bug(wfe[t] # "NONE" \/ state[t] # "RUNNING")
  /\ UNCHANGED <<task_list, on_cpu, wfe, wfe_pid, timer, reader, current_task,
                 schedule, handle_events, ipi, local>>

(* No dead child: the task sleeps and gives up its CPU at once. *)
ReleaseToNull(t) == on_cpu' = [on_cpu EXCEPT ![t] = NULL]
TaskReleaseCpu(t) == on_cpu' = [on_cpu EXCEPT ![t] = TASK_NO_CPU]

SysWaitBlocks(c, t, pid) ==
  /\ Syscall(c, t, "wait")
  /\ WaitedFor(t, pid) # {}
  /\ Dead(WaitedFor(t, pid)) = {}
  /\ Bug(wfe[t] # "NONE" \/ state[t] # "RUNNING")
  /\ wfe' = [wfe EXCEPT ![t] = "CHILD"]
  /\ wfe_pid' = [wfe_pid EXCEPT ![t] = pid]
  /\ state' = [state EXCEPT ![t] = "WFE"]
  /\ TaskReleaseCpu(t)
  /\ current_task' = [current_task EXCEPT ![c] = NULL]
  /\ Resched(c)
  /\ Goto(c, "events")
  /\ UNCHANGED <<task_list, parent, timer, reader, handle_events, ipi, local>>

DequeueDropped(t) == UNCHANGED task_list
TaskDequeue(t) ==
  \E i \in DOMAIN task_list :
    /\ task_list[i] = t
    /\ task_list' = [j \in 1 .. Len(task_list) - 1 |->
                       task_list[IF j < i THEN j ELSE j + 1]]

(* task_exit() up to its first task lock: it reads the parent pointer,     *)
(* cancels the timer and leaves the task list.  The exit of PID 1 is a     *)
(* BUG() by design, so no program of PID 1 exits.                          *)
TaskExit(c, t) ==
  /\ Syscall(c, t, "exit")
  /\ t # init_task
  /\ Bug(state[t] # "RUNNING")
  /\ local' = [local EXCEPT ![c] = parent[t]]
  /\ timer' = [timer EXCEPT ![t] = "off"]
  /\ wfe' = [wfe EXCEPT ![t] = IF @ = "TIMER" THEN "NONE" ELSE @]
  /\ TaskDequeue(t)
  /\ Goto(c, "exit")
  /\ UNCHANGED <<state, on_cpu, wfe_pid, parent, reader, current_task, schedule,
                 handle_events, ipi>>

(* The children of t go to PID 1. *)
KeepOrphans(t) == parent
Reparented(t) ==
  [x \in Tasks |-> IF x \in Children(t) THEN init_task ELSE parent[x]]

(* The rest of task_exit() under the lock of the parent it read before:    *)
(* the children go to PID 1, and the parent is notified if it waits.       *)
TaskExitDead(c) ==
  LET t == current_task[c]
      p == local[c]
  IN /\ pc[c] = "exit"
     /\ IF WaitsFor(p, t)
          THEN /\ state' = [x \in Tasks |->
                     IF x = t THEN "FREE"
                     ELSE IF x = p /\ state[p] = "WFE" THEN "RUNNABLE"
                     ELSE state[x]]
               /\ wfe' = [wfe EXCEPT ![p] = "NONE"]
               /\ parent' = [Reparented(t) EXCEPT ![t] = NULL]
          ELSE /\ state' = [state EXCEPT ![t] = "EXIT_DEAD"]
               /\ parent' = Reparented(t)
               /\ UNCHANGED wfe
     /\ TaskReleaseCpu(t)
     /\ current_task' = [current_task EXCEPT ![c] = NULL]
     /\ local' = [local EXCEPT ![c] = NULL]
     /\ Resched(c)
     /\ Goto(c, "events")
     /\ UNCHANGED <<task_list, wfe_pid, timer, reader, handle_events, ipi, bug>>

-----------------------------------------------------------------------------
(***************************************************************************)
(* prepare_user_return(): walk the timers, reschedule, idle or return.     *)
(***************************************************************************)
NoEvents(c) ==
  /\ pc[c] = "events"
  /\ ~handle_events[c]
  /\ Goto(c, "sched")
  /\ UNCHANGED <<task_list, taskVars, current_task, schedule, handle_events,
                 ipi, local, bug>>

(* task_handle_events(): the timer list is sorted, so the walk reaches     *)
(* every expired entry before the first one that is not.                   *)
TaskHandleEvents(c) ==
  LET queued == {t \in Tasks : timer[t] # "off"}
      expired == {t \in Tasks : timer[t] = "expired"}
  IN /\ pc[c] = "events"
     /\ handle_events[c]
     /\ handle_events' = [handle_events EXCEPT ![c] = FALSE]
     /\ Bug(\E t \in queued : state[t] # "WFE" \/ wfe[t] # "TIMER")
     /\ state' = [t \in Tasks |->
                    IF t \in expired THEN "RUNNABLE" ELSE state[t]]
     /\ wfe' = [t \in Tasks |-> IF t \in expired THEN "NONE" ELSE wfe[t]]
     /\ timer' = [t \in Tasks |-> IF t \in expired THEN "off" ELSE timer[t]]
     /\ Goto(c, "sched")
     /\ UNCHANGED <<task_list, on_cpu, wfe_pid, parent, reader, current_task,
                    schedule, ipi, local>>

ClaimableAlways(c, t) == TRUE
TaskClaimable(c, t) == on_cpu[t] \in {TASK_NO_CPU, c}

Eligible(c, t) == state[t] = "RUNNABLE" /\ TaskClaimable(c, t)

(* The list in the order in which schedule() looks at it: from the current *)
(* task to the end, then from the head up to the current task; the whole   *)
(* list if there is no current task.                                       *)
ScanOrder(c) ==
  IF \E i \in DOMAIN task_list : task_list[i] = current_task[c]
    THEN LET i == CHOOSE i \in DOMAIN task_list :
                    task_list[i] = current_task[c]
         IN SubSeq(task_list, i, Len(task_list)) \o SubSeq(task_list, 1, i - 1)
    ELSE task_list

(* schedule() settles on task: the only task of the list unless it waits,  *)
(* or the first eligible one, or the current one if it may go on running.  *)
Picks(c, task) ==
  LET order == ScanOrder(c)
      cur == current_task[c]
      first == task_list[1]
  IN IF cur # NULL /\ Len(task_list) = 1
       THEN task = IF state[first] = "WFE" \/ ~TaskClaimable(c, first)
                     THEN NULL ELSE first
       ELSE \/ \E i \in DOMAIN order :
                 /\ task = order[i]
                 /\ Eligible(c, task)
                 /\ \A j \in 1 .. i - 1 : ~Eligible(c, order[j])
            \/ /\ \A i \in DOMAIN order : ~Eligible(c, order[i])
               /\ task = IF cur # NULL /\ state[cur] = "RUNNING"
                           THEN cur ELSE NULL

ActivateKeepsRunning(c, task) ==
  /\ Bug(FALSE)
  /\ state' = [t \in Tasks |-> IF t = task THEN "RUNNING" ELSE state[t]]
  /\ on_cpu' = [t \in Tasks |-> IF t = task THEN c
                                ELSE IF t = current_task[c] THEN TASK_NO_CPU
                                ELSE on_cpu[t]]
  /\ current_task' = [current_task EXCEPT ![c] = task]

TaskActivate(c, task) ==
  LET old == current_task[c]
  IN IF old = task
       THEN /\ Bug(task # NULL /\ state[task] \notin {"RUNNING", "RUNNABLE"})
            /\ state' = [t \in Tasks |->
                           IF t = task THEN "RUNNING" ELSE state[t]]
            /\ UNCHANGED <<on_cpu, current_task>>
       ELSE /\ Bug(task # NULL /\ state[task] # "RUNNABLE")
            /\ state' = [t \in Tasks |->
                 IF t = task THEN "RUNNING"
                 ELSE IF t = old /\ state[t] = "RUNNING" /\ on_cpu[t] = c
                   THEN "RUNNABLE"
                 ELSE state[t]]
            /\ on_cpu' = [t \in Tasks |->
                 IF t = task THEN c
                 ELSE IF t = old THEN TASK_NO_CPU
                 ELSE on_cpu[t]]
            /\ current_task' = [current_task EXCEPT ![c] = task]

NoSchedule(c) ==
  /\ pc[c] = "sched"
  /\ ~schedule[c]
  /\ Goto(c, "leave")
  /\ UNCHANGED <<task_list, taskVars, current_task, schedule, handle_events,
                 ipi, local, bug>>

Schedule(c) ==
  /\ pc[c] = "sched"
  /\ schedule[c]
  /\ schedule' = [schedule EXCEPT ![c] = FALSE]
  /\ \E task \in Tasks \cup {NULL} : Picks(c, task) /\ TaskActivate(c, task)
  /\ Goto(c, "leave")
  /\ UNCHANGED <<task_list, wfe, wfe_pid, parent, timer, reader, handle_events,
                 ipi, local>>

(* Nothing to run: do_idle() enables interrupts.  The task list is never   *)
(* empty here because PID 1 never leaves it.                               *)
DoIdle(c) ==
  /\ pc[c] = "leave"
  /\ current_task[c] = NULL
  /\ Goto(c, "idle")
  /\ UNCHANGED <<task_list, taskVars, current_task, schedule, handle_events,
                 ipi, local, bug>>

WaitForInterrupt(c) ==
  /\ pc[c] = "idle"
  /\ Goto(c, "wfi")
  /\ UNCHANGED <<task_list, taskVars, current_task, schedule, handle_events,
                 ipi, local, bug>>

ReturnToUser(c) ==
  /\ pc[c] = "leave"
  /\ current_task[c] # NULL
  /\ Bug(state[current_task[c]] # "RUNNING")
  /\ Goto(c, "user")
  /\ UNCHANGED <<task_list, taskVars, current_task, schedule, handle_events,
                 ipi, local>>

-----------------------------------------------------------------------------
(***************************************************************************)
(* Interrupts.  In do_idle() the handler only records what it has to say;  *)
(* the retry loop of prepare_user_return() acts on it once the wait        *)
(* instruction returns.                                                    *)
(***************************************************************************)
(* Where the CPU goes after an interrupt that asks for                     *)
(* prepare_user_return().                                                  *)
AfterIrq(c) == IF pc[c] = "idle" THEN "idle" ELSE "events"

(* IRQ_S_SOFT: another CPU called ipi_send(). *)
IrqSoft(c) ==
  /\ pc[c] \in InterruptsOn
  /\ ipi[c]
  /\ ipi' = [ipi EXCEPT ![c] = FALSE]
  /\ handle_events' = [handle_events EXCEPT ![c] = TRUE]
  /\ Goto(c, AfterIrq(c))
  /\ UNCHANGED <<task_list, taskVars, current_task, schedule, local, bug>>

(* IRQ_S_TIMER: the tick of handle_timer(). *)
IrqTimer(c) ==
  /\ pc[c] \in InterruptsOn
  /\ handle_events' = [handle_events EXCEPT ![c] = TRUE]
  /\ Resched(c)
  /\ Goto(c, AfterIrq(c))
  /\ UNCHANGED <<task_list, taskVars, current_task, ipi, local, bug>>

(* IRQ_S_EXT: a character arrives, devfs_chardev_write() serves the reader *)
(* of the device.  This interrupt does not enter prepare_user_return().    *)
IrqExt(c) ==
  /\ pc[c] \in InterruptsOn
  /\ "read" \in Calls
  /\ IF reader = NULL
       THEN UNCHANGED <<state, wfe, reader, schedule>>
       ELSE /\ state' = [state EXCEPT ![reader] = "RUNNABLE"]
            /\ wfe' = [wfe EXCEPT ![reader] = "NONE"]
            /\ reader' = NULL
            /\ Resched(c)
  /\ Goto(c, IF pc[c] = "wfi" THEN "events" ELSE pc[c])
  /\ UNCHANGED <<task_list, on_cpu, wfe_pid, parent, timer, current_task,
                 handle_events, ipi, local, bug>>

(* The wall clock reaches the expiration time of a queued timer. *)
TimeExpire(t) ==
  /\ timer[t] = "armed"
  /\ timer' = [timer EXCEPT ![t] = "expired"]
  /\ UNCHANGED <<task_list, state, on_cpu, wfe, wfe_pid, parent, reader,
                 cpuVars, bug>>

-----------------------------------------------------------------------------
Calling(c, t) ==
  \/ SysOther(c, t)
  \/ SysSchedYield(c, t)
  \/ \E new \in Tasks : SysFork(c, t, new)
  \/ SysNanosleep(c, t)
  \/ SysReadBlocks(c, t)
  \/ \E pid \in Tasks \cup {ANY} :
       \/ SysWaitNoChild(c, t, pid)
       \/ \E child \in Tasks : SysWaitReaps(c, t, pid, child)
       \/ SysWaitBlocks(c, t, pid)
  \/ TaskExit(c, t)

(* The steps a CPU takes on its own once it is in the kernel. *)
Kernel(c) ==
  \/ TaskEnqueue(c)
  \/ SchedAll(c)
  \/ TaskExitDead(c)
  \/ NoEvents(c)
  \/ TaskHandleEvents(c)
  \/ NoSchedule(c)
  \/ Schedule(c)
  \/ DoIdle(c)
  \/ WaitForInterrupt(c)
  \/ ReturnToUser(c)

Next ==
  \/ \E c \in Cpus :
       \/ \E t \in Tasks : Calling(c, t)
       \/ Kernel(c)
       \/ IrqSoft(c)
       \/ IrqTimer(c)
       \/ IrqExt(c)
  \/ \E t \in Tasks : TimeExpire(t)

Spec == Init /\ [][Next]_vars

-----------------------------------------------------------------------------
(***************************************************************************)
(* Properties.                                                             *)
(***************************************************************************)
(* Type invariant of the variables that stand for struct task, struct      *)
(* per_cpu and the lists; fork() has a task in hand when it enqueues it.   *)
TypeOK ==
  /\ task_list \in Seq(Tasks)
  /\ state \in [Tasks -> States]
  /\ on_cpu \in [Tasks -> Cpus \cup {TASK_NO_CPU}]
  /\ wfe \in [Tasks -> WfeTypes]
  /\ wfe_pid \in [Tasks -> Tasks \cup {ANY}]
  /\ parent \in [Tasks -> Tasks \cup {NULL}]
  /\ timer \in [Tasks -> TimerStates]
  /\ reader \in Tasks \cup {NULL}
  /\ current_task \in [Cpus -> Tasks \cup {NULL}]
  /\ schedule \in [Cpus -> BOOLEAN]
  /\ handle_events \in [Cpus -> BOOLEAN]
  /\ ipi \in [Cpus -> BOOLEAN]
  /\ pc \in [Cpus -> Places]
  /\ local \in [Cpus -> Tasks \cup {NULL}]
  /\ \A c \in Cpus : pc[c] \in {"enqueue", "kick"} => local[c] # NULL
  /\ bug \in BOOLEAN

(* The ownership protocol of on_cpu: a task is the current task of exactly *)
(* the CPU that on_cpu names, and of none if it names none.  So no task    *)
(* runs on two CPUs, whatever the order in which the CPUs sleep, wake,     *)
(* claim and release it.                                                   *)
OneOwner ==
  \A t \in Tasks, c \in Cpus : (current_task[c] = t) <=> (on_cpu[t] = c)

(* A CPU in user mode runs a task that is RUNNING, and a RUNNING task is   *)
(* owned by some CPU.                                                      *)
RunningIsOwned ==
  /\ \A t \in Tasks : state[t] = "RUNNING" => on_cpu[t] # TASK_NO_CPU
  /\ \A c \in Cpus : pc[c] = "user" =>
       current_task[c] # NULL /\ state[current_task[c]] = "RUNNING"

(* The scheduler's list holds every task that can run or be woken, once,   *)
(* and no dead or freed one.  The exceptions are a task whose fork() has   *)
(* not reached task_enqueue() and one inside task_exit().                  *)
ListHoldsLiveTasks ==
  LET listed == {task_list[i] : i \in DOMAIN task_list}
      pending == {local[c] : c \in {d \in Cpus : pc[d] = "enqueue"}}
      leaving == {current_task[c] : c \in {d \in Cpus : pc[d] = "exit"}}
  IN /\ \A i, j \in DOMAIN task_list : task_list[i] = task_list[j] => i = j
     /\ listed \cup pending \cup leaving =
          {t \in Tasks : state[t] \in {"RUNNABLE", "RUNNING", "WFE"}}
     /\ listed \cap (pending \cup leaving) = {}

(* No wakeup is lost: a task that sleeps still has the event source that   *)
(* will wake it: its timer in timer_list, the device's reader pointer, or  *)
(* a child that is not dead yet.                                           *)
SleepersHaveWaker ==
  \A t \in Tasks : state[t] = "WFE" =>
    \/ wfe[t] = "TIMER" /\ timer[t] # "off"
    \/ wfe[t] = "READ" /\ reader = t
    \/ /\ wfe[t] = "CHILD"
       /\ WaitedFor(t, wfe_pid[t]) # {}
       /\ Dead(WaitedFor(t, wfe_pid[t])) = {}

(* parent never points to freed memory: who frees a task has first given   *)
(* its children to PID 1.                                                  *)
ParentAllocated ==
  \A t \in Tasks : state[t] # "FREE" /\ t # init_task =>
    parent[t] # NULL /\ state[parent[t]] # "FREE"

(* fork() reads new->pid after it made the child schedulable.  The child   *)
(* may have run and died on another CPU by then, but it is not freed.      *)
ForkedChildAllocated ==
  \A c \in Cpus : pc[c] \in {"enqueue", "kick"} => state[local[c]] # "FREE"

(* None of the sanity checks of the task code ever fires. *)
NoBug == ~bug

(* A task is freed only when its parent learns of it: the parent is in     *)
(* wait() or sleeps in it, and goes on with the child's exit status.       *)
ReapTellsParent ==
  [][\A t \in Tasks : state[t] # "FREE" /\ state'[t] = "FREE" =>
       LET p == parent[t]
       IN /\ p # NULL
          /\ \/ state[p] = "RUNNING" /\ state'[p] = "RUNNING"
             \/ /\ wfe[p] = "CHILD" /\ wfe_pid[p] \in {ANY, t}
                /\ wfe'[p] = "NONE" /\ state'[p] = "RUNNABLE"]_vars

(* "must hold the parent's lock" (task.c:82 and 264): the parent that      *)
(* task_exit() locked and notifies is the parent of the exiting task.      *)
NotifiesItsParent ==
  [][\A c \in Cpus : TaskExitDead(c) =>
       local[c] = parent[current_task[c]]]_vars

-----------------------------------------------------------------------------
(* For TLC: the tasks other than PID 1 are interchangeable. *)
Symmetry == Permutations(Tasks \ {init_task})

=============================================================================
