----------------------------- MODULE ExitLocks -----------------------------
(***************************************************************************)
(* The locks that wait(), fork() and task_exit() of kernel/task.c take, one *)
(* lock at a time.  TaskSched runs these system calls as one step each;    *)
(* here every spin_lock() is a step of its own, so that the order of the   *)
(* locks and what other CPUs do in between become visible.                 *)
(*                                                                         *)
(* A task that is in the kernel occupies a CPU, also while it spins.  The  *)
(* scheduler itself is left out: a task that can run may enter the kernel  *)
(* whenever a CPU is free.                                                 *)
(***************************************************************************)
EXTENDS Naturals, FiniteSets

CONSTANTS
  Tasks,       \* the memory slots for tasks
  init_task,   \* the slot of PID 1
  Machines,    \* cpus: how many tasks can be in the kernel at a time;
               \* forkers: the slots whose programs call fork()
  NULL,
  ANY          \* pid -1 of wait()

ASSUME ConstantsAssumption ==
  /\ init_task \in Tasks /\ NULL \notin Tasks /\ ANY \notin Tasks \cup {NULL}
  /\ Machines \subseteq [cpus : Nat \ {0}, forkers : SUBSET Tasks]

VARIABLES
  machine,  \* the CPUs and the programs of this run
  state,    \* state[t]: as in TaskSched; a task that can run is "RUNNING"
  parent,   \* parent[t]
  wfe_pid,  \* wfe_pid[t]: what t waits for in wait(), NULL if it does not
  lock,     \* lock[t]: the task whose CPU holds t->lock
  pc,       \* pc[t]: where t is in the kernel
  want,     \* want[t]: the lock that t spins on or takes next
  mine,     \* mine[t]: task_exit()'s parent variable, or wait()'s pid
  todo      \* todo[t]: the children the running loop has not visited

vars == <<machine, state, parent, wfe_pid, lock, pc, want, mine, todo>>

States == {"FREE", "RUNNING", "WFE", "EXIT_DEAD"}

(* wait: before its own lock.  scan: the loop over the children.           *)
(* exit_parent, exit_self, exit_init: the three locks of task_exit().      *)
(* orphans: the reparenting loop.  notify: after it.                       *)
Places == {"user", "wait", "scan", "exit_parent", "exit_self", "exit_init",
           "orphans", "notify"}

Children(t) == {c \in Tasks : state[c] # "FREE" /\ parent[c] = t}

Init ==
  /\ machine \in Machines
  /\ state = [t \in Tasks |-> IF t = init_task THEN "RUNNING" ELSE "FREE"]
  /\ parent = [t \in Tasks |-> NULL]
  /\ wfe_pid = [t \in Tasks |-> NULL]
  /\ lock = [t \in Tasks |-> NULL]
  /\ pc = [t \in Tasks |-> "user"]
  /\ want = [t \in Tasks |-> NULL]
  /\ mine = [t \in Tasks |-> NULL]
  /\ todo = [t \in Tasks |-> {}]

(* Small machines: three CPUs where only PID 1 forks, and one CPU where a   *)
(* child of it does, too.                                                   *)
SafeMachines ==
  {[cpus |-> 3, forkers |-> {init_task}]} \cup
  {[cpus |-> 1, forkers |-> {init_task, CHOOSE t \in Tasks : t # init_task}]}

(* Two CPUs where a child of PID 1 forks. *)
TreeMachines == {[cpus |-> 2, forkers |-> {init_task, CHOOSE t \in Tasks : t # init_task}]}

-----------------------------------------------------------------------------
Goto(t, place) == pc' = [pc EXCEPT ![t] = place]

CpuFree == Cardinality({t \in Tasks : pc[t] # "user"}) < machine.cpus

Enter(t) == state[t] = "RUNNING" /\ pc[t] = "user" /\ CpuFree

(* spin_lock(): t gets the lock it wants. *)
SpinLock(t) == lock[want[t]] = NULL /\ lock' = [lock EXCEPT ![want[t]] = t]

(* The lock t wants is free; taken and released within the step. *)
LockFree(t) == lock[want[t]] = NULL

(* Definitions whose name says what is wrong (Unmoved, TakesHead, Locked,  *)
(* SelfFirst, ForPid) are faulty variants of the definition that follows   *)
(* them.  The specification does not use them.                             *)
Released(t) == [l \in Tasks |-> IF lock[l] = t THEN NULL ELSE lock[l]]

(* The children that the loop has not visited after this one. *)
RestUnmoved(t) == todo[t]
Rest(t) == todo[t] \ {want[t]}

LoopTakesHead(t, list, body, after) ==
  /\ todo' = [todo EXCEPT ![t] = list]
  /\ Goto(t, body)
  /\ want' = [want EXCEPT ![t] = list]

(* A loop over list: go to body and want the lock of some entry, or go to  *)
(* after if there is none left.  The order of the list is not modelled.    *)
Loop(t, list, body, after) ==
  /\ todo' = [todo EXCEPT ![t] = list]
  /\ IF list = {}
       THEN Goto(t, after) /\ want' = [want EXCEPT ![t] = NULL]
       ELSE Goto(t, body) /\ \E c \in list : want' = [want EXCEPT ![t] = c]

(* fork() holds the locks of the parent and of the new task, which nobody  *)
(* else knows yet, and takes no other lock meanwhile.                      *)
Fork(t, new) ==
  /\ Enter(t)
  /\ t \in machine.forkers
  /\ lock[t] = NULL
  /\ state[new] = "FREE"
  /\ state' = [state EXCEPT ![new] = "RUNNING"]
  /\ parent' = [parent EXCEPT ![new] = t]
  /\ lock' = [lock EXCEPT ![new] = NULL]
  /\ UNCHANGED <<wfe_pid, pc, want, mine, todo>>

-----------------------------------------------------------------------------
WaitEnter(t, pid) ==
  /\ Enter(t)
  /\ mine' = [mine EXCEPT ![t] = pid]
  /\ want' = [want EXCEPT ![t] = t]
  /\ Goto(t, "wait")
  /\ UNCHANGED <<state, parent, wfe_pid, lock, todo>>

WaitReturnLocked(t) ==
  /\ want' = [want EXCEPT ![t] = NULL]
  /\ mine' = [mine EXCEPT ![t] = NULL]
  /\ todo' = [todo EXCEPT ![t] = {}]
  /\ Goto(t, "user")
  /\ UNCHANGED lock

(* Back to user mode with the locks released, waiting or not. *)
WaitReturn(t) ==
  /\ lock' = Released(t)
  /\ want' = [want EXCEPT ![t] = NULL]
  /\ mine' = [mine EXCEPT ![t] = NULL]
  /\ todo' = [todo EXCEPT ![t] = {}]
  /\ Goto(t, "user")

WaitLock(t) ==
  /\ pc[t] = "wait"
  /\ IF Children(t) = {}
       THEN LockFree(t) /\ WaitReturn(t)
       ELSE SpinLock(t) /\ Loop(t, Children(t), "scan", "user") /\ UNCHANGED mine
  /\ UNCHANGED <<state, parent, wfe_pid>>

(* One round of the loop of wait(): lock a child, look at it, unlock it. *)
WaitScan(t) ==
  LET child == want[t]
      pid == mine[t]
      dead == state[child] = "EXIT_DEAD"
      rest == Rest(t)
      found == IF pid = ANY THEN dead ELSE child = pid
  IN /\ pc[t] = "scan"
     /\ LockFree(t)
     /\ \/ /\ found /\ dead
           /\ state' = [state EXCEPT ![child] = "FREE"]
           /\ parent' = [parent EXCEPT ![child] = NULL]
           /\ WaitReturn(t)
           /\ UNCHANGED wfe_pid
        \/ /\ \/ found /\ ~dead
              \/ ~found /\ rest = {} /\ pid = ANY
           /\ state' = [state EXCEPT ![t] = "WFE"]
           /\ wfe_pid' = [wfe_pid EXCEPT ![t] = pid]
           /\ WaitReturn(t)
           /\ UNCHANGED parent
        \/ /\ ~found /\ rest = {} /\ pid # ANY
           /\ WaitReturn(t)
           /\ UNCHANGED <<state, parent, wfe_pid>>
        \/ /\ ~found /\ rest # {}
           /\ Loop(t, rest, "scan", "scan")
           /\ UNCHANGED <<state, parent, wfe_pid, lock, mine>>

-----------------------------------------------------------------------------
ExitLocksSelfFirst(t) ==
  /\ Enter(t)
  /\ lock[t] = NULL
  /\ t # init_task
  /\ lock' = [lock EXCEPT ![t] = t]
  /\ mine' = [mine EXCEPT ![t] = parent[t]]
  /\ want' = [want EXCEPT ![t] = parent[t]]
  /\ Goto(t, "exit_parent")
  /\ UNCHANGED <<state, parent, wfe_pid, todo>>

ExitEnter(t) ==
  /\ Enter(t)
  /\ t # init_task
  /\ mine' = [mine EXCEPT ![t] = parent[t]]
  /\ want' = [want EXCEPT ![t] = parent[t]]
  /\ Goto(t, "exit_parent")
  /\ UNCHANGED <<state, parent, wfe_pid, lock, todo>>

ExitLockParent(t) ==
  /\ pc[t] = "exit_parent"
  /\ SpinLock(t)
  /\ want' = [want EXCEPT ![t] = t]
  /\ Goto(t, "exit_self")
  /\ UNCHANGED <<state, parent, wfe_pid, mine, todo>>

(* The task is dead from here on; PID 1's lock is needed for reparenting   *)
(* and is held already if PID 1 is the parent.                             *)
ExitLockSelf(t) ==
  /\ pc[t] = "exit_self"
  /\ SpinLock(t)
  /\ state' = [state EXCEPT ![t] = "EXIT_DEAD"]
  /\ IF mine[t] # init_task
       THEN /\ want' = [want EXCEPT ![t] = init_task]
            /\ Goto(t, "exit_init")
            /\ UNCHANGED todo
       ELSE Loop(t, Children(t), "orphans", "notify")
  /\ UNCHANGED <<parent, wfe_pid, mine>>

ExitLockInit(t) ==
  /\ pc[t] = "exit_init"
  /\ IF Children(t) = {} THEN LockFree(t) /\ UNCHANGED lock ELSE SpinLock(t)
  /\ Loop(t, Children(t), "orphans", "notify")
  /\ UNCHANGED <<state, parent, wfe_pid, mine>>

(* One round of the reparenting loop; after the last one, PID 1's lock is  *)
(* released if it is not that of the parent.                               *)
ExitOrphan(t) ==
  /\ pc[t] = "orphans"
  /\ LockFree(t)
  /\ parent' = [parent EXCEPT ![want[t]] = init_task]
  /\ lock' = [lock EXCEPT ![init_task] =
                IF Rest(t) = {} /\ mine[t] # init_task THEN NULL ELSE @]
  /\ Loop(t, Rest(t), "orphans", "notify")
  /\ UNCHANGED <<state, wfe_pid, mine>>

(* task_notify_wait() finds p waiting for t. *)
WaitsForPid(p, t) == wfe_pid[p] = t
Waits(p, t) == wfe_pid[p] \in {ANY, t}

(* task_notify_wait() and the unlocks. *)
ExitNotify(t) ==
  LET p == mine[t]
      waits == Waits(p, t)
  IN /\ pc[t] = "notify"
     /\ state' = [x \in Tasks |-> IF ~waits THEN state[x]
                                  ELSE IF x = t THEN "FREE"
                                  ELSE IF x = p THEN "RUNNING"
                                  ELSE state[x]]
     /\ wfe_pid' = [wfe_pid EXCEPT ![p] = IF waits THEN NULL ELSE @]
     /\ parent' = [parent EXCEPT ![t] = IF waits THEN NULL ELSE @]
     /\ lock' = Released(t)
     /\ mine' = [mine EXCEPT ![t] = NULL]
     /\ Goto(t, "user")
     /\ UNCHANGED <<want, todo>>

Kernel(t) ==
  \/ WaitLock(t)
  \/ WaitScan(t)
  \/ ExitLockParent(t)
  \/ ExitLockSelf(t)
  \/ ExitLockInit(t)
  \/ ExitOrphan(t)
  \/ ExitNotify(t)

Next ==
  \E t \in Tasks :
    /\ UNCHANGED machine
    /\ \/ \E new \in Tasks : Fork(t, new)
       \/ \E pid \in Tasks \cup {ANY} : WaitEnter(t, pid)
       \/ ExitEnter(t)
       \/ Kernel(t)

Spec == Init /\ [][Next]_vars

(* A spinning task goes on once the lock is free often enough: the ticket  *)
(* lock of the ARM64 port serves its waiters in order.                     *)
FairSpec == Spec /\ \A t \in Tasks : SF_vars(UNCHANGED machine /\ Kernel(t))

-----------------------------------------------------------------------------
(* Type invariant of the tasks, their locks and the tasks in the kernel. *)
TypeOK ==
  /\ machine \in Machines
  /\ state \in [Tasks -> States]
  /\ parent \in [Tasks -> Tasks \cup {NULL}]
  /\ wfe_pid \in [Tasks -> Tasks \cup {ANY, NULL}]
  /\ lock \in [Tasks -> Tasks \cup {NULL}]
  /\ pc \in [Tasks -> Places]
  /\ want \in [Tasks -> Tasks \cup {NULL}]
  /\ mine \in [Tasks -> Tasks \cup {ANY, NULL}]
  /\ todo \in [Tasks -> SUBSET Tasks]

(* "Take the parent's lock first to prevent deadlock situations"           *)
(* (task.c:209): there are no tasks each of which spins on a lock that one *)
(* of them holds.                                                          *)
NoDeadlock ==
  \A D \in (SUBSET Tasks) \ {{}} :
    \E t \in D : want[t] = NULL \/ lock[want[t]] \notin D

(* No exit is missed: when a task sleeps in wait() and nobody holds its    *)
(* lock, no child that it waits for is dead.                               *)
ZombieIsReported ==
  \A t \in Tasks : state[t] = "WFE" /\ lock[t] = NULL =>
    \A c \in Children(t) : wfe_pid[t] \in {ANY, c} => state[c] # "EXIT_DEAD"

(* Every way out of wait() and task_exit() releases what it locked. *)
LocksReleased == \A l \in Tasks : lock[l] # NULL => pc[lock[l]] # "user"

(* Whatever the interleaving of the locks of wait() and task_exit(), no exit *)
(* is missed by a parent that sleeps, and no lock is left behind.            *)
ExitsReported == TypeOK /\ ZombieIsReported /\ LocksReleased

(* Every wait() and every task_exit() comes to its end. *)
KernelReturns == \A t \in Tasks : (pc[t] # "user") ~> (pc[t] = "user")

=============================================================================
