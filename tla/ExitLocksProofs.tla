-------------------------- MODULE ExitLocksProofs --------------------------
(***************************************************************************)
(* Proofs about ExitLocks for any number of tasks and CPUs, where PID 1 is *)
(* the only task that forks.  (With deeper trees the properties do not     *)
(* hold: a parent can exit, and be gone, between the look of task_exit()   *)
(* at task->parent and the lock of that parent.)                           *)
(***************************************************************************)
EXTENDS ExitLocks, TLAPS

(* The prover of the steps that name none. *)
USE ZenonT(60)

(* PID 1 is the only task whose program calls fork(). *)
FlatTree == machine.forkers \subseteq {init_task}

-----------------------------------------------------------------------------
(***************************************************************************)
(* The inductive invariant.                                                *)
(***************************************************************************)
(* Every task but PID 1 is a child of PID 1, who does not exit. *)
TreeIsFlat ==
  /\ FlatTree
  /\ parent[init_task] = NULL
  /\ state[init_task] \in {"RUNNING", "WFE"}
  /\ \A t \in Tasks : parent[t] \in {init_task, NULL}
  /\ \A t \in Tasks \ {init_task} : state[t] # "FREE" => parent[t] = init_task

(* Only PID 1 sleeps in wait(), and it has left the kernel then. *)
SleeperIsInit ==
  \A t \in Tasks :
    /\ (wfe_pid[t] # NULL) <=> (state[t] = "WFE")
    /\ state[t] = "WFE" => t = init_task /\ pc[t] = "user"

(* What a task in the kernel wants and holds, and what wait() has seen *)
UserPlace(t) == pc[t] = "user" => want[t] = NULL
KernelPlace(t) ==
  /\ pc[t] \notin {"exit_init", "orphans"}
  /\ pc[t] \notin {"user", "notify"} => state[t] = "RUNNING"
WaitPlace(t) == pc[t] = "wait" => want[t] = t /\ mine[t] \in Tasks \cup {ANY}
ScanPlace(t) ==
  pc[t] = "scan" =>
    /\ t = init_task /\ lock[t] = t
    /\ todo[t] \subseteq Children(t) /\ want[t] \in todo[t]
    /\ mine[t] \in Tasks \cup {ANY}
    /\ mine[t] = ANY => \A c \in Children(t) \ todo[t] : state[c] # "EXIT_DEAD"
ParentPlace(t) ==
  pc[t] = "exit_parent" => t # init_task /\ want[t] = init_task /\ mine[t] = init_task
SelfPlace(t) ==
  pc[t] = "exit_self" =>
    t # init_task /\ want[t] = t /\ mine[t] = init_task /\ lock[init_task] = t
NotifyPlace(t) ==
  pc[t] = "notify" =>
    /\ t # init_task /\ want[t] = NULL /\ mine[t] = init_task
    /\ state[t] = "EXIT_DEAD" /\ lock[init_task] = t /\ lock[t] = t

PlacesKept ==
  \A t \in Tasks :
    /\ UserPlace(t) /\ KernelPlace(t) /\ WaitPlace(t) /\ ScanPlace(t)
    /\ ParentPlace(t) /\ SelfPlace(t) /\ NotifyPlace(t)

(* Who holds a lock: a task its own while it reports its end, and someone    *)
(* that of PID 1.                                                            *)
HoldersKnown ==
  \A l \in Tasks : lock[l] # NULL =>
    \/ l # init_task /\ lock[l] = l /\ pc[l] = "notify"
    \/ l = init_task /\ lock[l] = l /\ pc[l] = "scan"
    \/ l = init_task /\ pc[lock[l]] \in {"exit_self", "notify"}

(* A dead child that a sleeping PID 1 waits for is about to tell it. *)
DeadIsAboutToTell ==
  state[init_task] = "WFE" =>
    \A c \in Children(init_task) :
      wfe_pid[init_task] \in {ANY, c} /\ state[c] = "EXIT_DEAD" => pc[c] = "notify"

IInv ==
  /\ TypeOK
  /\ TreeIsFlat
  /\ SleeperIsInit
  /\ PlacesKept
  /\ HoldersKnown
  /\ DeadIsAboutToTell
-----------------------------------------------------------------------------
(* A task other than PID 1 has no children, and PID 1 is no child. *)
LEMMA OnlyInitHasChildren ==
  ASSUME IInv
  PROVE  /\ \A t \in Tasks : t # init_task => Children(t) = {}
         /\ \A c \in Children(init_task) : c \in Tasks \ {init_task} /\ state[c] # "FREE"
         /\ \A c \in Tasks \ {init_task} : state[c] # "FREE" => c \in Children(init_task)
  BY ConstantsAssumption DEF ConstantsAssumption, IInv, TreeIsFlat, Children

(* The initial state. *)
LEMMA IInvInit == Init /\ FlatTree => IInv
  BY SMT, Z3T(30), ConstantsAssumption
  DEF ConstantsAssumption, Init, IInv, TypeOK, TreeIsFlat, SleeperIsInit, PlacesKept,
      UserPlace, KernelPlace, WaitPlace, ScanPlace, ParentPlace, SelfPlace, NotifyPlace,
      HoldersKnown, DeadIsAboutToTell, States, Places, Children

LEMMA ForkKeeps ==
  ASSUME IInv, UNCHANGED machine, NEW t \in Tasks, NEW new \in Tasks, Fork(t, new)
  PROVE  IInv'
<1> USE ConstantsAssumption DEF ConstantsAssumption, IInv, Fork, Enter
<1>1. TypeOK'
  BY OnlyInitHasChildren DEF TypeOK, Places, States, Children
<1>2. TreeIsFlat'
  BY OnlyInitHasChildren DEF TypeOK, TreeIsFlat, FlatTree
<1>3. SleeperIsInit'
  BY OnlyInitHasChildren DEF TypeOK, SleeperIsInit, PlacesKept
<1>4. PlacesKept'
  BY SMT, Z3T(30), OnlyInitHasChildren
  DEF TypeOK, PlacesKept, UserPlace, KernelPlace, WaitPlace, ScanPlace, ParentPlace, SelfPlace,
      NotifyPlace, HoldersKnown, TreeIsFlat, SleeperIsInit, Children
<1>5. HoldersKnown'
  BY SMT, Z3T(30), OnlyInitHasChildren
  DEF TypeOK, HoldersKnown, PlacesKept, UserPlace, KernelPlace, WaitPlace, ScanPlace, ParentPlace, SelfPlace,
      NotifyPlace
<1>6. DeadIsAboutToTell'
  BY SMT, Z3T(30), OnlyInitHasChildren
  DEF TypeOK, DeadIsAboutToTell, SleeperIsInit, PlacesKept, KernelPlace, ScanPlace, NotifyPlace,
      SelfPlace, TreeIsFlat, Children
<1> QED
  BY <1>1, <1>2, <1>3, <1>4, <1>5, <1>6

LEMMA WaitEnterKeeps ==
  ASSUME IInv, UNCHANGED machine, NEW t \in Tasks, NEW pid \in Tasks \cup {ANY}, WaitEnter(t, pid)
  PROVE  IInv'
<1> USE ConstantsAssumption DEF ConstantsAssumption, IInv, WaitEnter, Enter, Goto
<1>1. TypeOK'
  BY OnlyInitHasChildren DEF TypeOK, Places, States, Children
<1>2. TreeIsFlat'
  BY OnlyInitHasChildren DEF TypeOK, TreeIsFlat, FlatTree
<1>3. SleeperIsInit'
  BY OnlyInitHasChildren DEF TypeOK, SleeperIsInit, PlacesKept
<1>4. PlacesKept'
  BY SMT, Z3T(30), OnlyInitHasChildren
  DEF TypeOK, PlacesKept, UserPlace, KernelPlace, WaitPlace, ScanPlace, ParentPlace, SelfPlace,
      NotifyPlace, HoldersKnown, TreeIsFlat, SleeperIsInit, Children
<1>5. HoldersKnown'
  BY SMT, Z3T(30), OnlyInitHasChildren
  DEF TypeOK, HoldersKnown, PlacesKept, UserPlace, KernelPlace, WaitPlace, ScanPlace, ParentPlace, SelfPlace,
      NotifyPlace
<1>6. DeadIsAboutToTell'
  BY SMT, Z3T(30), OnlyInitHasChildren
  DEF TypeOK, DeadIsAboutToTell, SleeperIsInit, PlacesKept, KernelPlace, ScanPlace, NotifyPlace,
      SelfPlace, TreeIsFlat, Children
<1> QED
  BY <1>1, <1>2, <1>3, <1>4, <1>5, <1>6

LEMMA WaitLockKeeps ==
  ASSUME IInv, UNCHANGED machine, NEW t \in Tasks, WaitLock(t)
  PROVE  IInv'
<1> USE ConstantsAssumption DEF ConstantsAssumption, IInv, WaitLock, WaitReturn, Released, LockFree, SpinLock, Loop, Goto
<1>1. TypeOK'
  BY SMTT(20), Z3T(40), OnlyInitHasChildren DEF TypeOK, Places, States, Children
<1>2. TreeIsFlat'
  BY OnlyInitHasChildren DEF TypeOK, TreeIsFlat, FlatTree
<1>3. SleeperIsInit'
  BY SMT, Z3T(30), OnlyInitHasChildren DEF TypeOK, SleeperIsInit, PlacesKept
<1>4. PlacesKept'
  BY SMT, Z3T(30), OnlyInitHasChildren
  DEF TypeOK, PlacesKept, UserPlace, KernelPlace, WaitPlace, ScanPlace, ParentPlace, SelfPlace,
      NotifyPlace, HoldersKnown, TreeIsFlat, SleeperIsInit, Children
<1>5. HoldersKnown'
  BY SMTT(20), Z3T(40), OnlyInitHasChildren
  DEF TypeOK, HoldersKnown, PlacesKept, UserPlace, KernelPlace, WaitPlace, ScanPlace, ParentPlace, SelfPlace,
      NotifyPlace
<1>6. DeadIsAboutToTell'
  BY SMT, Z3T(30), OnlyInitHasChildren
  DEF TypeOK, DeadIsAboutToTell, SleeperIsInit, PlacesKept, KernelPlace, ScanPlace, NotifyPlace,
      SelfPlace, TreeIsFlat, Children
<1> QED
  BY <1>1, <1>2, <1>3, <1>4, <1>5, <1>6

LEMMA WaitScanKeeps ==
  ASSUME IInv, UNCHANGED machine, NEW t \in Tasks, WaitScan(t)
  PROVE  IInv'
<1> USE ConstantsAssumption DEF ConstantsAssumption, IInv
<1>1. pc[t] = "scan" /\ t = init_task /\ state[t] = "RUNNING" /\ want[t] \in Children(t)
      /\ todo[t] \subseteq Children(t)
  BY DEF WaitScan, PlacesKept, ScanPlace, KernelPlace
<1> PICK child \in Tasks \ {init_task}: child = want[t] /\ state[child] # "FREE"
  BY <1>1, OnlyInitHasChildren
<1>2. \/ /\ state[child] = "EXIT_DEAD" /\ state' = [state EXCEPT ![child] = "FREE"]
         /\ parent' = [parent EXCEPT ![child] = NULL] /\ WaitReturn(t) /\ UNCHANGED wfe_pid
      \/ /\ \/ mine[t] # ANY /\ child = mine[t] /\ state[child] # "EXIT_DEAD"
            \/ mine[t] = ANY /\ state[child] # "EXIT_DEAD" /\ Rest(t) = {}
         /\ state' = [state EXCEPT ![t] = "WFE"] /\ wfe_pid' = [wfe_pid EXCEPT ![t] = mine[t]]
         /\ WaitReturn(t) /\ UNCHANGED parent
      \/ WaitReturn(t) /\ UNCHANGED <<state, parent, wfe_pid>>
      \/ /\ mine[t] = ANY => state[child] # "EXIT_DEAD"
         /\ Rest(t) # {} /\ Loop(t, Rest(t), "scan", "scan")
         /\ UNCHANGED <<state, parent, wfe_pid, lock, mine>>
  BY DEF WaitScan
<1> USE DEF WaitReturn, Released, Loop, Rest, Goto
<1>3. TypeOK'
  <2>1. /\ state' \in [Tasks -> States] /\ parent' \in [Tasks -> Tasks \cup {NULL}]
        /\ wfe_pid' \in [Tasks -> Tasks \cup {ANY, NULL}]
    BY SMTT(20), Z3T(40), <1>1, <1>2 DEF TypeOK, States, PlacesKept, ScanPlace
  <2>2. /\ lock' \in [Tasks -> Tasks \cup {NULL}] /\ pc' \in [Tasks -> Places]
        /\ mine' \in [Tasks -> Tasks \cup {ANY, NULL}]
    BY SMT, Z3T(30), <1>1, <1>2 DEF TypeOK, Places
  <2>3. want' \in [Tasks -> Tasks \cup {NULL}] /\ todo' \in [Tasks -> SUBSET Tasks]
    BY SMT, Z3T(30), <1>1, <1>2 DEF TypeOK
  <2> QED
    BY <2>1, <2>2, <2>3 DEF TypeOK
<1>4. TreeIsFlat'
  BY SMT, Z3T(30), <1>1, <1>2 DEF TypeOK, TreeIsFlat, FlatTree
<1>5. SleeperIsInit'
  BY SMTT(20), Z3T(40), <1>1, <1>2 DEF TypeOK, SleeperIsInit, PlacesKept, ScanPlace
<1>6. PlacesKept'
  BY SMT, Z3T(30), <1>1, <1>2, OnlyInitHasChildren
  DEF TypeOK, PlacesKept, UserPlace, KernelPlace, WaitPlace, ScanPlace, ParentPlace, SelfPlace,
      NotifyPlace, HoldersKnown, TreeIsFlat, SleeperIsInit, Children
<1>7. HoldersKnown'
  BY SMTT(20), Z3T(40), <1>1, <1>2 DEF TypeOK, HoldersKnown, PlacesKept, ScanPlace
<1>8. DeadIsAboutToTell'
  BY SMT, Z3T(30), <1>1, <1>2, OnlyInitHasChildren
  DEF TypeOK, DeadIsAboutToTell, SleeperIsInit, PlacesKept, KernelPlace, ScanPlace, NotifyPlace,
      SelfPlace, TreeIsFlat, Children
<1> QED
  BY <1>3, <1>4, <1>5, <1>6, <1>7, <1>8

LEMMA ExitEnterKeeps ==
  ASSUME IInv, UNCHANGED machine, NEW t \in Tasks, ExitEnter(t)
  PROVE  IInv'
<1> USE ConstantsAssumption DEF ConstantsAssumption, IInv, ExitEnter, Enter, Goto
<1>1. TypeOK'
  BY SMT, Z3T(30), OnlyInitHasChildren DEF TypeOK, Places, States, Children
<1>2. TreeIsFlat'
  BY OnlyInitHasChildren DEF TypeOK, TreeIsFlat, FlatTree
<1>3. SleeperIsInit'
  BY OnlyInitHasChildren DEF TypeOK, SleeperIsInit, PlacesKept
<1>4. PlacesKept'
  BY SMT, Z3T(30), OnlyInitHasChildren
  DEF TypeOK, PlacesKept, UserPlace, KernelPlace, WaitPlace, ScanPlace, ParentPlace, SelfPlace,
      NotifyPlace, HoldersKnown, TreeIsFlat, SleeperIsInit, Children
<1>5. HoldersKnown'
  BY SMT, Z3T(30), OnlyInitHasChildren
  DEF TypeOK, HoldersKnown, PlacesKept, UserPlace, KernelPlace, WaitPlace, ScanPlace, ParentPlace, SelfPlace,
      NotifyPlace
<1>6. DeadIsAboutToTell'
  BY SMT, Z3T(30), OnlyInitHasChildren
  DEF TypeOK, DeadIsAboutToTell, SleeperIsInit, PlacesKept, KernelPlace, ScanPlace, NotifyPlace,
      SelfPlace, TreeIsFlat, Children
<1> QED
  BY <1>1, <1>2, <1>3, <1>4, <1>5, <1>6

LEMMA ExitLockParentKeeps ==
  ASSUME IInv, UNCHANGED machine, NEW t \in Tasks, ExitLockParent(t)
  PROVE  IInv'
<1> USE ConstantsAssumption DEF ConstantsAssumption, IInv, ExitLockParent, SpinLock, Goto
<1>1. TypeOK'
  BY OnlyInitHasChildren DEF TypeOK, Places, States, Children
<1>2. TreeIsFlat'
  BY OnlyInitHasChildren DEF TypeOK, TreeIsFlat, FlatTree
<1>3. SleeperIsInit'
  BY SMTT(20), Z3T(40), OnlyInitHasChildren DEF TypeOK, SleeperIsInit, PlacesKept
<1>4. PlacesKept'
  BY SMTT(20), Z3T(40), OnlyInitHasChildren
  DEF TypeOK, PlacesKept, UserPlace, KernelPlace, WaitPlace, ScanPlace, ParentPlace, SelfPlace,
      NotifyPlace, HoldersKnown, TreeIsFlat, SleeperIsInit, Children
<1>5. HoldersKnown'
  BY SMT, Z3T(30), OnlyInitHasChildren
  DEF TypeOK, HoldersKnown, PlacesKept, UserPlace, KernelPlace, WaitPlace, ScanPlace, ParentPlace, SelfPlace,
      NotifyPlace
<1>6. DeadIsAboutToTell'
  BY SMT, Z3T(30), OnlyInitHasChildren
  DEF TypeOK, DeadIsAboutToTell, SleeperIsInit, PlacesKept, KernelPlace, ScanPlace, NotifyPlace,
      SelfPlace, TreeIsFlat, Children
<1> QED
  BY <1>1, <1>2, <1>3, <1>4, <1>5, <1>6

LEMMA ExitLockSelfKeeps ==
  ASSUME IInv, UNCHANGED machine, NEW t \in Tasks, ExitLockSelf(t)
  PROVE  IInv'
<1> USE ConstantsAssumption DEF ConstantsAssumption, IInv
<1>1. /\ pc[t] = "exit_self" /\ t # init_task /\ want[t] = t /\ mine[t] = init_task
      /\ state[t] = "RUNNING" /\ lock[init_task] = t /\ lock[t] = NULL
  BY DEF ExitLockSelf, SpinLock, PlacesKept, SelfPlace, KernelPlace
<1>2. Children(t) = {}
  BY <1>1, OnlyInitHasChildren
<1>3. /\ lock' = [lock EXCEPT ![t] = t] /\ state' = [state EXCEPT ![t] = "EXIT_DEAD"]
      /\ todo' = [todo EXCEPT ![t] = {}] /\ pc' = [pc EXCEPT ![t] = "notify"]
      /\ want' = [want EXCEPT ![t] = NULL] /\ UNCHANGED <<parent, wfe_pid, mine>>
  BY <1>1, <1>2 DEF ExitLockSelf, SpinLock, Loop, Goto
<1>4. TypeOK'
  BY <1>3 DEF TypeOK, Places, States
<1>5. TreeIsFlat'
  BY <1>1, <1>3 DEF TypeOK, TreeIsFlat, FlatTree
<1>6. SleeperIsInit'
  BY <1>1, <1>3 DEF TypeOK, SleeperIsInit
<1>7. PlacesKept'
  BY SMT, Z3T(30), <1>1, <1>3, OnlyInitHasChildren
  DEF TypeOK, PlacesKept, UserPlace, KernelPlace, WaitPlace, ScanPlace, ParentPlace, SelfPlace,
      NotifyPlace, HoldersKnown, TreeIsFlat, SleeperIsInit, Children
<1>8. HoldersKnown'
  BY SMT, Z3T(30), <1>1, <1>3 DEF TypeOK, HoldersKnown
<1>9. DeadIsAboutToTell'
  BY <1>1, <1>3 DEF TypeOK, DeadIsAboutToTell, Children
<1> QED
  BY <1>4, <1>5, <1>6, <1>7, <1>8, <1>9

(* task_notify_wait() takes the dead child away, or leaves it to a later   *)
(* wait(): PID 1 then does not sleep, or waits for another one.            *)
LEMMA ExitNotifyKeeps ==
  ASSUME IInv, UNCHANGED machine, NEW t \in Tasks, ExitNotify(t)
  PROVE  IInv'
<1> USE ConstantsAssumption DEF ConstantsAssumption, IInv
<1>1. /\ pc[t] = "notify" /\ t # init_task /\ mine[t] = init_task /\ want[t] = NULL
      /\ lock[init_task] = t /\ lock[t] = t /\ state[t] = "EXIT_DEAD"
  BY DEF ExitNotify, PlacesKept, NotifyPlace
<1>2. /\ pc' = [pc EXCEPT ![t] = "user"] /\ mine' = [mine EXCEPT ![t] = NULL]
      /\ lock' = [l \in Tasks |-> IF lock[l] = t THEN NULL ELSE lock[l]]
      /\ UNCHANGED <<want, todo>>
      /\ \/ /\ wfe_pid[init_task] \in {ANY, t}
            /\ state' = [x \in Tasks |-> IF x = t THEN "FREE"
                                         ELSE IF x = init_task THEN "RUNNING" ELSE state[x]]
            /\ wfe_pid' = [wfe_pid EXCEPT ![init_task] = NULL]
            /\ parent' = [parent EXCEPT ![t] = NULL]
         \/ wfe_pid[init_task] \notin {ANY, t} /\ UNCHANGED <<state, wfe_pid, parent>>
  BY <1>1 DEF ExitNotify, Waits, Released, Goto, TypeOK
<1>3. TypeOK'
  BY SMT, Z3T(30), <1>2 DEF TypeOK, Places, States
<1>4. TreeIsFlat'
  BY SMT, Z3T(30), <1>1, <1>2 DEF TypeOK, TreeIsFlat, FlatTree
<1>5. SleeperIsInit'
  BY SMTT(20), Z3T(40), <1>1, <1>2 DEF TypeOK, SleeperIsInit
<1>6. PlacesKept'
  BY SMT, Z3T(30), <1>1, <1>2, OnlyInitHasChildren
  DEF TypeOK, PlacesKept, UserPlace, KernelPlace, WaitPlace, ScanPlace, ParentPlace, SelfPlace,
      NotifyPlace, HoldersKnown, TreeIsFlat, SleeperIsInit, Children
<1>7. HoldersKnown'
  BY SMT, Z3T(30), <1>1, <1>2 DEF TypeOK, HoldersKnown, PlacesKept, NotifyPlace, SelfPlace
<1>8. DeadIsAboutToTell'
  BY <1>1, <1>2 DEF TypeOK, DeadIsAboutToTell, Children
<1> QED
  BY <1>3, <1>4, <1>5, <1>6, <1>7, <1>8

LEMMA Stutter == IInv /\ UNCHANGED vars => IInv'
  BY SMT, Z3T(30)
  DEF vars, IInv, TypeOK, TreeIsFlat, FlatTree, SleeperIsInit, PlacesKept, UserPlace,
         KernelPlace, WaitPlace, ScanPlace, ParentPlace, SelfPlace, NotifyPlace, HoldersKnown,
         DeadIsAboutToTell, Children

LEMMA IInvStep == IInv /\ [Next]_vars => IInv'
<1> SUFFICES ASSUME IInv, [Next]_vars PROVE IInv'
  OBVIOUS
<1>1. ASSUME NEW t \in Tasks PROVE ~ ExitLockInit(t) /\ ~ ExitOrphan(t)
  BY DEF ExitLockInit, ExitOrphan, IInv, PlacesKept, KernelPlace
<1> QED
  BY <1>1, Stutter, ForkKeeps, WaitEnterKeeps, WaitLockKeeps, WaitScanKeeps, ExitEnterKeeps,
     ExitLockParentKeeps, ExitLockSelfKeeps, ExitNotifyKeeps
  DEF Next, Kernel

LEMMA IInvariant == Spec /\ FlatTree => []IInv
  BY IInvInit, IInvStep, PTL DEF Spec

-----------------------------------------------------------------------------
(* Whatever the interleaving of the locks of wait() and task_exit(), for     *)
(* any number of children on any number of CPUs: when PID 1 sleeps in        *)
(* wait() and nobody holds its lock, no child that it waits for is dead, and *)
(* no way out of the kernel leaves a lock behind (task.c:209-267).           *)
THEOREM NoExitIsMissed == Spec /\ FlatTree => []ExitsReported
<1>1. IInv => ZombieIsReported
  <2> SUFFICES ASSUME IInv, NEW t \in Tasks, state[t] = "WFE", lock[t] = NULL,
                      NEW c \in Children(t), wfe_pid[t] \in {ANY, c}, state[c] = "EXIT_DEAD"
               PROVE  FALSE
    BY DEF ZombieIsReported
  <2>1. t = init_task /\ c \in Tasks
    BY DEF IInv, SleeperIsInit, Children
  <2>2. pc[c] = "notify"
    BY <2>1 DEF IInv, DeadIsAboutToTell
  <2>3. lock[init_task] = c
    BY <2>1, <2>2 DEF IInv, PlacesKept, NotifyPlace
  <2> QED
    BY <2>1, <2>3, ConstantsAssumption DEF ConstantsAssumption
<1>2. IInv => LocksReleased
  BY DEF IInv, HoldersKnown, LocksReleased
<1>3. IInv => ExitsReported
  BY <1>1, <1>2 DEF ExitsReported, IInv
<1> QED
  BY <1>3, IInvariant, PTL

(* "Take the parent's lock first to prevent deadlock situations"           *)
(* (task.c:209): among the tasks that spin there is always one that spins  *)
(* on a lock whose holder does not spin, or on a free one.                 *)
THEOREM LocksAreOrdered == Spec /\ FlatTree => []NoDeadlock
<1>1. ASSUME IInv, NEW D \in (SUBSET Tasks) \ {{}},
             \A t \in D : want[t] # NULL /\ lock[want[t]] \in D
      PROVE  FALSE
  <2>1. PICK t \in D : t \in Tasks
    OBVIOUS
  <2>2. want[t] \in Tasks /\ lock[want[t]] \in D
    BY <1>1, <2>1 DEF IInv, TypeOK
  <2>3. PICK h \in Tasks : h = lock[want[t]] /\ h \in D
    BY <2>2
  <2>4. h # NULL /\ pc[h] # "notify"
    BY <1>1, <2>3, ConstantsAssumption DEF ConstantsAssumption, IInv, PlacesKept, NotifyPlace
  <2>5. pc[h] = "scan" \/ pc[h] = "exit_self"
    BY <1>1, <2>2, <2>3, <2>4 DEF IInv, HoldersKnown
  <2>6. want[h] # init_task /\ want[h] \in Tasks
    BY <1>1, <2>3, <2>5, OnlyInitHasChildren DEF IInv, PlacesKept, ScanPlace, SelfPlace, TypeOK
  <2>7. PICK g \in Tasks : g = lock[want[h]] /\ g \in D
    BY <1>1, <2>3, <2>6
  <2>8. pc[g] = "notify"
    BY <1>1, <2>6, <2>7, ConstantsAssumption DEF ConstantsAssumption, IInv, HoldersKnown
  <2> QED
    BY <1>1, <2>7, <2>8 DEF IInv, PlacesKept, NotifyPlace
<1>2. IInv => NoDeadlock
  BY <1>1 DEF NoDeadlock
<1> QED
  BY <1>2, IInvariant, PTL
=============================================================================
