-------------------------- MODULE AddrSpaceFrames ---------------------------
(***************************************************************************)
(* Proofs about AddrSpace: every step keeps who works on what (Control), the *)
(* types, the areas and the owners of the frames.                          *)
(***************************************************************************)
EXTENDS AddrSpaceBasics

(* The prover of the steps that name none. *)
USE ZenonT(60)

(* Others keep what they have. *)
Others(c, p) ==
  /\ \A d \in Cpus: d # c =>
       pc'[d] = pc[d] /\ job'[d] = job[d] /\ current_task'[d] = current_task[d]
  /\ \A q \in Procs: q # p => pstate'[q] = pstate[q] /\ vmas'[q] = vmas[q] /\ brk'[q] = brk[q]

LEMMA FrameControl ==
  ASSUME Control, NEW c \in Cpus, NEW p \in Procs, Owns(c, p), Others(c, p),
         ControlTypes', current_task'[c] \in {current_task[c], NULL},
         pc[c] # "run" => job[c].mm = p, pc'[c] # "run" => job'[c].mm = p,
         JobOk(c)', CurrentOk(c)', AreasOk(p)', BrkOk(p)', NoneOk(p)'
  PROVE  Control'
<1>1. ASSUME NEW q \in Procs, q # p PROVE AreasOk(q)' /\ BrkOk(q)' /\ NoneOk(q)'
  <2>1. Tearing(q)' <=> Tearing(q)
    BY SMT, Z3T(30), <1>1 DEF Tearing, Others
  <2>2. AreasOk(q) /\ BrkOk(q) /\ NoneOk(q)
    BY DEF Control
  <2> QED
    BY <1>1, <2>1, <2>2 DEF AreasOk, BrkOk, NoneOk, Others
<1>2. ASSUME NEW d \in Cpus, d # c PROVE JobOk(d)' /\ CurrentOk(d)'
  <2>1. JobOk(d) /\ CurrentOk(d) /\ current_task[d] \in Procs \union {NULL}
    BY DEF Control, ControlTypes
  <2>2. /\ pc'[d] = pc[d] /\ job'[d] = job[d] /\ current_task'[d] = current_task[d]
        /\ current_task[d] # p /\ (pc[d] # "run" => job[d].mm # p)
    BY <1>2 DEF Others, Owns
  <2>3. ASSUME NEW q \in Procs, q # p
        PROVE  pstate'[q] = pstate[q] /\ vmas'[q] = vmas[q] /\ brk'[q] = brk[q]
    BY <2>3 DEF Others
  <2>4. CurrentOk(d)'
    BY <2>1, <2>2, <2>3 DEF CurrentOk
  <2>5. CASE pc[d] = "run"
    BY <2>1, <2>2, <2>4, <2>5 DEF JobOk, ShrinkJob, ExecJob, ExitJob, ForkJob
  <2>6. CASE pc[d] # "run"
    <3> PICK q \in Procs: q = job[d].mm
      BY <2>1, <2>6 DEF JobOk
    <3>1. pstate'[q] = pstate[q] /\ vmas'[q] = vmas[q] /\ brk'[q] = brk[q]
      BY <2>2, <2>3, <2>6
    <3>2. current_task[d] # NULL => vmas'[current_task[d]] = vmas[current_task[d]]
      BY <2>1, <2>2, <2>3
    <3>3. ShrinkJob(d)' /\ ExecJob(d)'
      BY <2>1, <2>2, <3>1 DEF JobOk, ShrinkJob, ExecJob
    <3>4. ExitJob(d)' /\ ForkJob(d)'
      BY <2>1, <2>2, <3>1, <3>2 DEF JobOk, ExitJob, ForkJob
    <3> QED
      BY <2>1, <2>2, <2>4, <3>3, <3>4 DEF JobOk
  <2> QED
    BY <2>5, <2>6
<1>3. ASSUME NEW a \in Cpus, NEW b \in Cpus, a # b PROVE Apart(a, b)'
  <2>1. Apart(a, b) /\ JobOk(a)
    BY <1>3 DEF Control
  <2>2. current_task[a] \in Procs \union {NULL} /\ (pc[a] # "run" => job[a].mm # NULL)
    BY <2>1, AddrSpaceAssumption DEF Control, ControlTypes, JobOk, AddrSpaceAssumption
  <2> QED
    BY SMT, Z3T(30), <1>3, <2>1, <2>2, AddrSpaceAssumption
    DEF Apart, Others, Owns, AddrSpaceAssumption
<1> QED
  BY <1>1, <1>2, <1>3 DEF Control

(* task_exit() of a process, from wherever it is. *)
LEMMA StartExitControl ==
  ASSUME Control, NEW c \in Cpus, NEW p \in Procs, Owns(c, p),
         pc[c] # "run" => job[c].mm = p,
         StartExit(c, p), UNCHANGED current_task,
         vmas' \in [Procs -> SUBSET AreaShapes], AreasOk(p)',
         brk' \in [Procs -> [base: {NULL, HeapBase}, vma: BOOLEAN]],
         \A q \in Procs: q # p => vmas'[q] = vmas[q] /\ brk'[q] = brk[q]
  PROVE  Control'
<1>1. /\ pc' = [pc EXCEPT ![c] = "dealloc"]
      /\ job' = [job EXCEPT ![c] = [mm |-> p, from |-> 0, then |-> "exit"]]
      /\ pstate' = [pstate EXCEPT ![p] = "dying"]
  BY Jobs DEF StartExit, Goto
<1>2. 0 \in Pages
  BY Sizes
<1>3. ControlTypes'
  BY <1>1, <1>2 DEF Control, ControlTypes
<1>4. Others(c, p)
  BY <1>1 DEF Others, Control, ControlTypes
<1>5. pc'[c] = "dealloc" /\ job'[c] = [mm |-> p, from |-> 0, then |-> "exit"] /\ pstate'[p] = "dying"
  BY <1>1 DEF Control, ControlTypes
<1>6. JobOk(c)'
  BY SMT, Z3T(30), <1>5 DEF JobOk, ShrinkJob, ExecJob, ExitJob, ForkJob
<1>7. CurrentOk(c)'
  <2>1. CASE current_task[c] = p
    BY SMT, Z3T(30), <1>5, <2>1 DEF CurrentOk
  <2>2. CASE current_task[c] # p
    <3>1. current_task'[c] = current_task[c] /\ current_task[c] \in Procs \union {NULL}
      BY DEF Control, ControlTypes
    <3>2. current_task[c] # NULL => pstate'[current_task[c]] = pstate[current_task[c]]
      BY <1>4, <2>2, <3>1 DEF Others
    <3>3. CurrentOk(c)
      BY DEF Control
    <3> QED
      BY <1>5, <2>2, <3>1, <3>2, <3>3 DEF CurrentOk
  <2> QED
    BY <2>1, <2>2
<1>8. BrkOk(p)' /\ NoneOk(p)'
  BY <1>5 DEF BrkOk, NoneOk
<1> QED
  BY SMT, Z3T(30), <1>3, <1>4, <1>5, <1>6, <1>7, <1>8, FrameControl

(* What leaves areas, CPUs and jobs alone. *)
LEMMA QuietControl ==
  ASSUME Control, UNCHANGED <<pstate, vmas, brk, current_task, pc, job>>
  PROVE  Control'
  BY SMT, Z3T(30)
  DEF Control, ControlTypes, AreasOk, BrkOk, NoneOk, Tearing, JobOk, ShrinkJob, ExecJob, ExitJob,
         ForkJob, CurrentOk, Apart

LEMMA TaskActivateControl ==
  ASSUME Control, NEW c \in Cpus, NEW p \in Procs \union {NULL}, TaskActivate(c, p)
  PROVE  Control'
<1> USE AddrSpaceAssumption DEF AddrSpaceAssumption
<1>1. /\ pc[c] = "run" /\ UNCHANGED <<pstate, vmas, brk, pc, job>>
      /\ current_task' = [current_task EXCEPT ![c] = p]
      /\ p # NULL => pstate[p] = "ready" /\ \A d \in Cpus: current_task[d] # p
  BY DEF TaskActivate, mmVars
<1>2. ControlTypes'
  BY <1>1 DEF Control, ControlTypes
<1>3. ASSUME NEW q \in Procs PROVE AreasOk(q)' /\ BrkOk(q)' /\ NoneOk(q)'
  BY <1>1 DEF Control, AreasOk, BrkOk, NoneOk, Tearing
<1>4. \A d \in Cpus: d # c => current_task'[d] = current_task[d]
  BY <1>1 DEF Control, ControlTypes
<1>5. current_task'[c] = p
  BY <1>1 DEF Control, ControlTypes
<1>6. ASSUME NEW d \in Cpus PROVE JobOk(d)' /\ CurrentOk(d)'
  <2>1. JobOk(d) /\ CurrentOk(d)
    BY DEF Control
  <2>2. CASE d = c
    BY <1>1, <1>5, <2>1, <2>2 DEF JobOk, ShrinkJob, ExecJob, ExitJob, ForkJob, CurrentOk
  <2>3. CASE d # c
    BY <1>1, <1>4, <2>1, <2>3 DEF JobOk, ShrinkJob, ExecJob, ExitJob, ForkJob, CurrentOk
  <2> QED
    BY <2>2, <2>3
<1>7. ASSUME NEW a \in Cpus, NEW b \in Cpus, a # b PROVE Apart(a, b)'
  <2>1. Apart(a, b) /\ JobOk(a) /\ (pc[a] # "run" => job[a].mm \in Procs)
    BY <1>7 DEF Control, JobOk
  <2>2. CASE a = c
    BY <1>1, <1>4, <1>5, <1>7, <2>1, <2>2 DEF Apart
  <2>3. CASE b = c /\ pc[a] # "run" /\ p # NULL
    <3>1. job[a].mm # p
      <4>1. pc[a] \in {"dealloc", "asid", "load", "fork"} /\ job[a].then \in {"run", "exec", "exit"}
        BY <2>3 DEF Control, ControlTypes
      <4> QED
        BY <1>1, <1>7, <2>1, <2>3, <4>1 DEF JobOk, ShrinkJob, ExecJob, ExitJob, ForkJob
    <3> QED
      BY <1>1, <1>4, <1>5, <1>7, <2>1, <2>3, <3>1 DEF Apart
  <2> QED
    BY SMT, Z3T(30), <1>1, <1>4, <1>5, <1>7, <2>1, <2>2, <2>3 DEF Apart
<1> QED
  BY <1>2, <1>3, <1>6, <1>7 DEF Control

LEMMA TaskHandleFaultControl ==
  ASSUME Control, NEW c \in Cpus, NEW p \in Procs, NEW v \in Pages, TaskHandleFault(c, p, v)
  PROVE  Control'
<1>1. current_task[c] = p /\ pc[c] = "run" /\ UNCHANGED <<vmas, brk, current_task>>
  BY DEF TaskHandleFault, Calls, cpuVars
<1>2. CASE UNCHANGED <<pstate, pc, job>>
  BY <1>1, <1>2, QuietControl
<1>3. CASE StartExit(c, p)
  BY <1>1, <1>3, StartExitControl, CurrentIsOwn DEF Control, ControlTypes, AreasOk
<1> QED
  BY <1>2, <1>3 DEF TaskHandleFault

LEMMA SysExitControl ==
  ASSUME Control, NEW c \in Cpus, NEW p \in Procs, SysExit(c, p)
  PROVE  Control'
<1>1. /\ current_task[c] = p /\ pc[c] = "run" /\ UNCHANGED <<vmas, brk, current_task>>
      /\ StartExit(c, p)
  BY DEF SysExit, Calls, cpuVars
<1> QED
  BY <1>1, StartExitControl, CurrentIsOwn DEF Control, ControlTypes, AreasOk

(* A heap that collides with nothing ends before the stack. *)
LEMMA HeapFits ==
  ASSUME NEW p, Stack \in vmas[p], NEW m \in 0 .. HeapSize, NEW n \in Nat,
         n > HeapBase + m, ~ Collides(p, HeapBase + m .. n - 1)
  PROVE  n - HeapBase \in 1 .. HeapSize
<1> USE Sizes DEF HeapBase
<1>1. HeapBase + HeapSize \in PagesOf(Stack)
  <2>1. Stack.base = HeapBase + HeapSize /\ Stack.size = StackSize
    BY DEF Stack
  <2>2. TextSize + HeapSize \in
          TextSize + HeapSize .. TextSize + HeapSize + StackSize - 1
    BY SMT, Z3T(30)
  <2> QED
    BY <2>1, <2>2 DEF PagesOf
<1>2. HeapBase + HeapSize \notin HeapBase + m .. n - 1
  BY <1>1 DEF Collides
<1> QED
  BY SMT, Z3T(30), <1>2

LEMMA SysBrkControl ==
  ASSUME Control, NEW c \in Cpus, NEW p \in Procs, NEW n \in 0 .. UserEnd + 1, SysBrk(c, p, n)
  PROVE  Control'
<1> USE Sizes
<1> DEFINE heap == CHOOSE v \in vmas[p]: v.base = HeapBase
           size == n - HeapBase
           area == [base |-> HeapBase, size |-> size, lazy |-> TRUE]
<1>1. Calls(c, p) /\ brk[p].base # NULL /\ n > HeapBase /\ n \in Nat
  BY SMT, Z3T(30) DEF SysBrk, UserEnd
<1>2. /\ Owns(c, p) /\ pc[c] = "run" /\ current_task[c] = p
      /\ pstate[p] = "ready" /\ ~ Tearing(p)
  BY <1>1, CallerIs
<1>3. Stack \in vmas[p] /\ (brk[p].vma => \E k \in 1 .. HeapSize: Heap(k) \in vmas[p])
  BY <1>1, <1>2 DEF Control, BrkOk
<1>4. vmas[p] \subseteq AreaShapes /\ AreasOk(p)
  BY DEF Control, ControlTypes
<1>5. area = Heap(size)
  BY DEF Heap
<1>6. UNCHANGED <<pstate, current_task>>
  BY DEF SysBrk, cpuVars
<1>7. ASSUME UNCHANGED <<pc, job>>, brk' \in [Procs -> [base: {NULL, HeapBase}, vma: BOOLEAN]],
             \A q \in Procs: q # p => brk'[q] = brk[q],
             NEW V, vmas' = [vmas EXCEPT ![p] = V],
             size \in 1 .. HeapSize, Heap(size) \in V, Stack \in V, V \subseteq AreaShapes,
             \A v, w \in V: v.base = w.base => v = w
      PROVE  Control'
  <2>1. ControlTypes' /\ vmas'[p] = V
    BY <1>6, <1>7 DEF Control, ControlTypes
  <2>2. Others(c, p)
    BY <1>6, <1>7 DEF Others, Control, ControlTypes
  <2>3. JobOk(c)' /\ CurrentOk(c)'
    BY <1>2, <1>6, <1>7 DEF JobOk, ShrinkJob, ExecJob, ExitJob, ForkJob, CurrentOk
  <2>4. AreasOk(p)' /\ BrkOk(p)' /\ NoneOk(p)'
    BY <1>2, <1>6, <1>7, <2>1 DEF AreasOk, BrkOk, NoneOk
  <2> QED
    BY <1>2, <1>6, <1>7, <2>1, <2>2, <2>3, <2>4, FrameControl
<1>8. CASE /\ ~ brk[p].vma /\ ~ Collides(p, HeapBase .. n - 1)
           /\ vmas' = [vmas EXCEPT ![p] = @ \union {area}]
           /\ brk' = [brk EXCEPT ![p].vma = TRUE]
           /\ UNCHANGED <<pc, job>>
  <2>1. size \in 1 .. HeapSize
    BY SMTT(20), Z3T(40), <1>1, <1>3, <1>8, HeapFits DEF HeapBase
  <2>2. \A v \in vmas[p]: v.base # HeapBase
    BY SMT, Z3T(30), <1>1, <1>4, <1>8, ShapeInUserSpace DEF Collides, HeapBase
  <2> DEFINE V == vmas[p] \union {Heap(size)}
  <2>3. \A v, w \in V: v.base = w.base => v = w
    <3>1. Heap(size).base = HeapBase
      BY DEF Heap
    <3> QED
      BY <1>4, <2>2, <3>1 DEF AreasOk
  <2>4. vmas' = [vmas EXCEPT ![p] = V] /\ UNCHANGED <<pc, job>>
    BY <1>5, <1>8
  <2>5. V \subseteq AreaShapes /\ Heap(size) \in V /\ Stack \in V
    BY <1>3, <1>4, <2>1 DEF AreaShapes
  <2>6. /\ brk' \in [Procs -> [base: {NULL, HeapBase}, vma: BOOLEAN]]
        /\ \A q \in Procs: q # p => brk'[q] = brk[q]
    BY <1>8 DEF Control, ControlTypes
  <2> HIDE DEF V, size
  <2> QED
    BY <1>7, <2>1, <2>3, <2>4, <2>5, <2>6
<1>9. CASE /\ brk[p].vma /\ size > heap.size
           /\ ~ Collides(p, HeapBase + heap.size .. n - 1)
           /\ vmas' = [vmas EXCEPT ![p] = (@ \ {heap}) \union {area}]
           /\ UNCHANGED <<brk, pc, job>>
  <2>1. PICK k \in 1 .. HeapSize: Heap(k) \in vmas[p]
    BY <1>3, <1>9
  <2>2. heap = Heap(k)
    BY <1>4, <2>1, HeapAt DEF AreasOk
  <2> DEFINE V == (vmas[p] \ {Heap(k)}) \union {Heap(size)}
  <2>3. vmas' = [vmas EXCEPT ![p] = V] /\ UNCHANGED <<brk, pc, job>>
    BY <1>5, <1>9, <2>2
  <2> HIDE DEF heap
  <2>4. Heap(k).size = k /\ Heap(k).base = HeapBase /\ Heap(size).base = HeapBase
    BY DEF Heap
  <2>5. size \in 1 .. HeapSize
    <3>1. k \in 0 .. HeapSize /\ n > HeapBase + k /\ ~ Collides(p, HeapBase + k .. n - 1)
      BY SMT, Z3T(30), <1>1, <1>9, <2>2, <2>4 DEF HeapBase
    <3> QED
      BY <1>1, <1>3, <3>1, HeapFits
  <2>6. \A v, w \in V: v.base = w.base => v = w
    BY <1>4, <2>1, <2>4 DEF AreasOk
  <2>7. Stack # Heap(k)
    BY SMT, Z3T(30), <2>4 DEF Stack, HeapBase
  <2>8. V \subseteq AreaShapes /\ Heap(size) \in V /\ Stack \in V
    BY <1>3, <1>4, <2>5, <2>7 DEF AreaShapes
  <2>9. brk' \in [Procs -> [base: {NULL, HeapBase}, vma: BOOLEAN]]
    BY <2>3 DEF Control, ControlTypes
  <2> HIDE DEF V, size
  <2> QED
    BY <1>7, <2>3, <2>5, <2>6, <2>8, <2>9
<1>10. CASE /\ brk[p].vma /\ size < heap.size
            /\ Goto(c, "dealloc", [NoJob EXCEPT !.mm = p, !.from = n])
            /\ UNCHANGED <<vmas, brk>>
  <2>1. PICK k \in 1 .. HeapSize: Heap(k) \in vmas[p]
    BY <1>3, <1>10
  <2>2. heap = Heap(k)
    BY <1>4, <2>1, HeapAt DEF AreasOk
  <2> HIDE DEF heap
  <2>3. n \in HeapBase + 1 .. HeapBase + k - 1
    BY SMT, Z3T(30), <1>1, <1>10, <2>2 DEF Heap, HeapBase
  <2>4. n \in Pages
    BY SMT, Z3T(30), <2>3 DEF Pages, UserEnd, HeapBase
  <2>5. pc' = [pc EXCEPT ![c] = "dealloc"] /\ job' = [job EXCEPT ![c] = [mm |-> p, from |-> n, then |-> "run"]]
    BY <1>10, Jobs DEF Goto
  <2>6. ControlTypes'
    BY <1>6, <1>10, <2>4, <2>5 DEF Control, ControlTypes
  <2>7. Others(c, p)
    BY <1>6, <1>10, <2>5 DEF Others, Control, ControlTypes
  <2>8. pc'[c] = "dealloc" /\ job'[c] = [mm |-> p, from |-> n, then |-> "run"]
    BY <2>5 DEF Control, ControlTypes
  <2>9. JobOk(c)' /\ CurrentOk(c)'
    BY SMT, Z3T(30), <1>2, <1>6, <1>10, <2>1, <2>3, <2>8
    DEF JobOk, ShrinkJob, ExecJob, ExitJob, ForkJob, CurrentOk
  <2>10. AreasOk(p)' /\ BrkOk(p)' /\ NoneOk(p)'
    BY <1>2, <1>3, <1>4, <1>6, <1>10 DEF AreasOk, BrkOk, NoneOk
  <2> QED
    BY SMT, Z3T(30), <1>2, <1>6, <2>6, <2>7, <2>8, <2>9, <2>10, FrameControl
<1> QED
  BY <1>8, <1>9, <1>10 DEF SysBrk

LEMMA SysExecveControl ==
  ASSUME Control, NEW c \in Cpus, NEW p \in Procs, SysExecve(c, p)
  PROVE  Control'
<1>1. /\ Owns(c, p) /\ pc[c] = "run" /\ current_task[c] = p
      /\ pstate[p] = "ready" /\ ~ Tearing(p)
  BY CallerIs DEF SysExecve
<1>2. /\ pc' = [pc EXCEPT ![c] = "dealloc"]
      /\ job' = [job EXCEPT ![c] = [mm |-> p, from |-> 0, then |-> "exec"]]
      /\ UNCHANGED <<pstate, vmas, brk, current_task>>
  BY Jobs DEF SysExecve, Goto, mmVars, cpuVars
<1>3. ControlTypes'
  BY <1>2, Sizes DEF Control, ControlTypes
<1>4. Others(c, p)
  BY <1>2 DEF Others, Control, ControlTypes
<1>5. pc'[c] = "dealloc" /\ job'[c] = [mm |-> p, from |-> 0, then |-> "exec"]
  BY <1>2 DEF Control, ControlTypes
<1>6. JobOk(c)' /\ CurrentOk(c)'
  <2>1. JobOk(c)'
    BY SMT, Z3T(30), <1>1, <1>2, <1>5 DEF JobOk, ShrinkJob, ExecJob, ExitJob, ForkJob
  <2>2. CurrentOk(c)'
    BY <1>1, <1>2 DEF CurrentOk
  <2> QED
    BY <2>1, <2>2
<1>7. AreasOk(p)' /\ BrkOk(p)' /\ NoneOk(p)'
  <2>1. Tearing(p)'
    BY SMT, Z3T(30), <1>5 DEF Tearing
  <2> QED
    BY <1>1, <1>2, <2>1 DEF Control, AreasOk, BrkOk, NoneOk
<1> QED
  BY SMT, Z3T(30), <1>1, <1>2, <1>3, <1>4, <1>5, <1>6, <1>7, FrameControl

LEMMA SysForkControl ==
  ASSUME Control, NEW c \in Cpus, NEW p \in Procs, NEW q \in Procs, SysFork(c, p, q)
  PROVE  Control'
<1>1. /\ Owns(c, p) /\ pc[c] = "run" /\ current_task[c] = p
      /\ pstate[p] = "ready" /\ pstate[q] = "none"
  BY CallerIs DEF SysFork
<1>2. /\ pc' = [pc EXCEPT ![c] = "fork"]
      /\ job' = [job EXCEPT ![c] = [mm |-> q, from |-> 0, then |-> "run"]]
      /\ pstate' = [pstate EXCEPT ![q] = "building"]
      /\ UNCHANGED <<vmas, brk, current_task>>
  BY Jobs DEF SysFork, Goto, cpuVars
<1>3. ControlTypes'
  BY <1>2, Sizes DEF Control, ControlTypes
<1>4. Others(c, q)
  BY <1>2 DEF Others, Control, ControlTypes
<1>5. /\ pc'[c] = "fork" /\ job'[c] = [mm |-> q, from |-> 0, then |-> "run"]
      /\ pstate'[q] = "building" /\ pstate'[p] = "ready"
  BY <1>1, <1>2 DEF Control, ControlTypes
<1>6. Owns(c, q)
  <2> SUFFICES ASSUME NEW d \in Cpus, d # c
               PROVE  current_task[d] # q /\ (pc[d] # "run" => job[d].mm # q)
    BY DEF Owns
  <2>1. /\ JobOk(d) /\ CurrentOk(d) /\ pc[d] \in {"run", "dealloc", "asid", "load", "fork"}
        /\ job[d].then \in {"run", "exec", "exit"}
    BY DEF Control, ControlTypes
  <2>2. current_task[d] # q
    BY <1>1, <2>1, AddrSpaceAssumption DEF CurrentOk, AddrSpaceAssumption
  <2>3. pc[d] # "run" => job[d].mm # q
    BY <1>1, <2>1 DEF JobOk, ShrinkJob, ExecJob, ExitJob, ForkJob
  <2> QED
    BY <2>2, <2>3
<1>7. vmas[q] = {} /\ brk[q] = NoBrk
  BY <1>1 DEF Control, NoneOk, BrkOk
<1>8. JobOk(c)' /\ CurrentOk(c)'
  <2>1. p # NULL /\ vmas'[q] = {} /\ current_task'[c] = p
    BY <1>1, <1>2, <1>7, AddrSpaceAssumption DEF AddrSpaceAssumption
  <2>2. JobOk(c)'
    BY SMT, Z3T(30), <1>5, <2>1 DEF JobOk, ShrinkJob, ExecJob, ExitJob, ForkJob
  <2>3. CurrentOk(c)'
    BY <1>5, <2>1 DEF CurrentOk
  <2> QED
    BY <2>2, <2>3
<1>9. AreasOk(q)' /\ BrkOk(q)' /\ NoneOk(q)'
  BY <1>2, <1>5, <1>7 DEF AreasOk, BrkOk, NoneOk
<1> QED
  BY SMT, Z3T(30), <1>1, <1>2, <1>3, <1>4, <1>5, <1>6, <1>8, <1>9, FrameControl

LEMMA DeallocEndControl ==
  ASSUME Control, NEW c \in Cpus, DeallocEnd(c)
  PROVE  Control'
<1>1. Releasing(c) /\ pc[c] = "dealloc" /\ UNCHANGED <<pstate, brk, current_task>>
  BY DEF DeallocEnd, Releasing, cpuVars
<1> PICK p \in Procs: p = job[c].mm
  BY <1>1, JobIsOwn
<1>2. Owns(c, p) /\ JobOk(c) /\ CurrentOk(c) /\ AreasOk(p) /\ BrkOk(p) /\ NoneOk(p)
  BY <1>1, JobIsOwn DEF Control
<1>3. /\ Area(c) \in vmas[p] /\ vmas[p] \subseteq AreaShapes
      /\ job[c].then = "run" =>
              \E n \in 1 .. HeapSize:
                /\ Area(c) = Heap(n)
                /\ job[c].from \in HeapBase + 1 .. HeapBase + n - 1
  BY <1>1, <1>2, AreaIs DEF Control, ControlTypes
<1> USE Sizes
<1>4. CASE job[c].then = "run"
  <2>1. PICK n \in 1 .. HeapSize:
          Area(c) = Heap(n) /\ job[c].from \in HeapBase + 1 .. HeapBase + n - 1
    BY <1>3, <1>4
  <2> DEFINE k == job[c].from - HeapBase
             V == (vmas[p] \ {Heap(n)}) \union {Heap(k)}
  <2>2. Heap(n).base = HeapBase /\ Heap(n).lazy = TRUE /\ k \in 1 .. HeapSize
    BY SMT, Z3T(30), <2>1 DEF Heap, HeapBase
  <2>3. [Heap(n) EXCEPT !.size = k] = Heap(k)
    BY HeapResized
  <2>4. /\ vmas' = [vmas EXCEPT ![p] = V]
        /\ pc' = [pc EXCEPT ![c] = "run"] /\ job' = [job EXCEPT ![c] = NoJob]
    BY <1>4, <2>1, <2>2, <2>3 DEF DeallocEnd, Goto
  <2>5. V \subseteq AreaShapes /\ Heap(k) \in V
    BY <1>3, <2>2 DEF AreaShapes
  <2>6. \A v, w \in V: v.base = w.base => v = w
    <3>1. Heap(n).base = HeapBase /\ Heap(k).base = HeapBase /\ Heap(n) \in vmas[p]
      BY <1>3, <2>1 DEF Heap
    <3> QED
      BY SMT, Z3T(30), <1>2, <3>1 DEF AreasOk
  <2>7. Stack # Heap(n)
    BY SMT, Z3T(30), <2>2 DEF Stack, HeapBase
  <2> HIDE DEF V, k
  <2>8. ControlTypes'
    BY <1>1, <1>2, <2>4, <2>5 DEF Control, ControlTypes, NoJob
  <2>9. Others(c, p)
    BY <1>1, <2>4 DEF Others, Control, ControlTypes
  <2>10. pc'[c] = "run" /\ vmas'[p] = V
    BY <1>2, <2>4 DEF Control, ControlTypes
  <2>11. p = current_task[c] /\ pstate[p] = "ready"
    BY <1>1, <1>2, <1>4 DEF JobOk, ShrinkJob
  <2>12. JobOk(c)' /\ CurrentOk(c)'
    BY <1>1, <2>10, <2>11 DEF JobOk, ShrinkJob, ExecJob, ExitJob, ForkJob, CurrentOk
  <2>13. AreasOk(p)' /\ NoneOk(p)'
    BY <1>1, <2>6, <2>10, <2>11 DEF AreasOk, NoneOk
  <2>14. BrkOk(p)'
    <3>1. ~ Tearing(p)
      BY <1>2, <1>4 DEF Tearing, Owns
    <3> QED
      BY <1>1, <1>2, <2>2, <2>5, <2>7, <2>10, <2>11, <3>1 DEF BrkOk, V
  <2> QED
    BY <1>1, <1>2, <2>8, <2>9, <2>10, <2>12, <2>13, <2>14, FrameControl
<1>5. CASE job[c].then # "run"
  <2>1. vmas' = [vmas EXCEPT ![p] = vmas[p] \ {Area(c)}] /\ UNCHANGED <<pc, job>>
    BY <1>5 DEF DeallocEnd
  <2>2. ControlTypes'
    BY <1>1, <1>2, <1>3, <2>1 DEF Control, ControlTypes
  <2>3. Others(c, p)
    BY <1>1, <2>1 DEF Others, Control, ControlTypes
  <2>4. job[c].then \in {"exec", "exit"}
    BY <1>5 DEF Control, ControlTypes
  <2>5. JobOk(c)' /\ CurrentOk(c)'
    BY <1>1, <1>2, <2>1, <2>4 DEF JobOk, ShrinkJob, ExecJob, ExitJob, ForkJob, CurrentOk
  <2>6. vmas'[p] = vmas[p] \ {Area(c)}
    BY <1>2, <2>1 DEF Control, ControlTypes
  <2>7. pstate[p] \in {"ready", "dying"} /\ Tearing(p)'
    BY <1>1, <1>2, <1>5, <2>1, <2>4 DEF JobOk, ExecJob, ExitJob, Tearing
  <2>8. AreasOk(p)' /\ BrkOk(p)' /\ NoneOk(p)'
    BY <1>1, <1>2, <2>6, <2>7 DEF AreasOk, BrkOk, NoneOk
  <2> QED
    BY <1>1, <1>2, <2>1, <2>2, <2>3, <2>5, <2>8, FrameControl
<1> QED
  BY <1>4, <1>5

LEMMA FreeRootControl ==
  ASSUME Control, NEW c \in Cpus, FreeRoot(c)
  PROVE  Control'
<1>1. /\ pc[c] = "dealloc" /\ vmas[job[c].mm] = {} /\ job[c].then # "exec"
      /\ UNCHANGED <<pstate, vmas, brk, current_task>>
      /\ pc' = [pc EXCEPT ![c] = "asid"] /\ job' = [job EXCEPT ![c] = job[c]]
  BY DEF FreeRoot, Goto
<1> PICK p \in Procs: p = job[c].mm
  BY <1>1, JobIsOwn
<1>2. Owns(c, p) /\ JobOk(c) /\ CurrentOk(c) /\ AreasOk(p) /\ BrkOk(p) /\ NoneOk(p)
  BY <1>1, JobIsOwn DEF Control
<1>3. job[c].then = "exit"
  BY <1>1, <1>2 DEF Control, ControlTypes, JobOk, ShrinkJob
<1>4. ControlTypes'
  BY <1>1 DEF Control, ControlTypes
<1>5. Others(c, p)
  BY <1>1 DEF Others, Control, ControlTypes
<1>6. pc'[c] = "asid" /\ job'[c] = job[c]
  BY <1>1 DEF Control, ControlTypes
<1>7. JobOk(c)' /\ CurrentOk(c)'
  BY <1>1, <1>2, <1>3, <1>6 DEF JobOk, ShrinkJob, ExecJob, ExitJob, ForkJob, CurrentOk
<1>8. AreasOk(p)' /\ BrkOk(p)' /\ NoneOk(p)'
  BY <1>1, <1>2, <1>3 DEF AreasOk, BrkOk, NoneOk, JobOk, ExitJob
<1> QED
  BY <1>1, <1>2, <1>4, <1>5, <1>6, <1>7, <1>8, FrameControl

LEMMA AsidClearControl ==
  ASSUME Control, NEW c \in Cpus, AsidClear(c)
  PROVE  Control'
<1>1. pc[c] = "asid"
  BY DEF AsidClear
<1> PICK p \in Procs: p = job[c].mm
  BY <1>1, JobIsOwn
<1>2. /\ pstate' = [pstate EXCEPT ![p] = "none"]
      /\ brk' = [brk EXCEPT ![p] = NoBrk] /\ UNCHANGED vmas
      /\ current_task' = [current_task EXCEPT ![c] = IF @ = p THEN NULL ELSE @]
      /\ pc' = [pc EXCEPT ![c] = "run"] /\ job' = [job EXCEPT ![c] = NoJob]
  BY DEF AsidClear, Goto
<1>3. Owns(c, p) /\ JobOk(c) /\ CurrentOk(c) /\ AreasOk(p) /\ vmas[p] \subseteq AreaShapes
  BY <1>1, JobIsOwn DEF Control, ControlTypes
<1>4. ControlTypes'
  <2>1. NoBrk \in [base: {NULL, HeapBase}, vma: BOOLEAN]
    BY DEF NoBrk
  <2> QED
    BY <1>2, <2>1, Sizes DEF Control, ControlTypes, NoJob
<1>5. Others(c, p)
  BY <1>2 DEF Others, Control, ControlTypes
<1>6. /\ pc'[c] = "run" /\ pstate'[p] = "none" /\ brk'[p] = NoBrk /\ vmas'[p] = vmas[p]
      /\ current_task'[c] = IF current_task[c] = p THEN NULL ELSE current_task[c]
  BY <1>2 DEF Control, ControlTypes
<1>7. vmas[p] = {}
  <2>1. job[c].then = "exit"
    BY SMT, Z3T(30), <1>1, <1>3 DEF Control, ControlTypes, JobOk, ExecJob
  <2> QED
    BY <1>1, <1>3, <2>1 DEF JobOk, ExitJob
<1>8. JobOk(c)'
  BY <1>6 DEF JobOk, ShrinkJob, ExecJob, ExitJob, ForkJob
<1>9. CurrentOk(c)'
  <2>1. CASE current_task[c] = p
    BY <1>6, <2>1 DEF CurrentOk
  <2>2. CASE current_task[c] # p /\ current_task[c] # NULL
    <3>1. current_task[c] \in Procs /\ pstate[current_task[c]] = "ready"
      BY SMT, Z3T(30), <1>3, <2>2 DEF CurrentOk, Control, ControlTypes
    <3> QED
      BY <1>5, <1>6, <2>2, <3>1 DEF CurrentOk, Others
  <2> QED
    BY <1>6, <2>1, <2>2 DEF CurrentOk
<1>10. AreasOk(p)' /\ BrkOk(p)' /\ NoneOk(p)'
  BY <1>6, <1>7 DEF AreasOk, BrkOk, NoneOk
<1> QED
  BY <1>1, <1>3, <1>4, <1>5, <1>6, <1>8, <1>9, <1>10, FrameControl

LEMMA LoadStackControl ==
  ASSUME Control, NEW c \in Cpus, LoadStack(c)
  PROVE  Control'
<1>1. pc[c] = "dealloc" /\ job[c].then = "exec" /\ vmas[job[c].mm] = {} /\ UNCHANGED current_task
  BY DEF LoadStack, cpuVars
<1> PICK p \in Procs: p = job[c].mm
  BY <1>1, JobIsOwn
<1>2. Owns(c, p) /\ JobOk(c)
  BY <1>1, JobIsOwn DEF Control
<1>3. p = current_task[c] /\ pstate[p] = "ready"
  BY <1>1, <1>2 DEF JobOk, ExecJob
<1>4. /\ brk' = [brk EXCEPT ![p] = NoBrk]
      /\ brk' \in [Procs -> [base: {NULL, HeapBase}, vma: BOOLEAN]]
      /\ brk'[p] = NoBrk /\ \A q \in Procs: q # p => brk'[q] = brk[q]
  BY DEF LoadStack, Control, ControlTypes, NoBrk
<1>5. CASE StartExit(c, p) /\ UNCHANGED vmas
  BY SMTT(20), Z3T(40), <1>1, <1>2, <1>4, <1>5, StartExitControl
  DEF Control, ControlTypes, AreasOk
<1>6. CASE vmas' = [vmas EXCEPT ![p] = {Stack}] /\ Goto(c, "load", job[c]) /\ UNCHANGED pstate
  <2>1. pc' = [pc EXCEPT ![c] = "load"] /\ job' = [job EXCEPT ![c] = job[c]]
    BY <1>6 DEF Goto
  <2>2. Stack \in AreaShapes
    BY DEF AreaShapes
  <2>3. ControlTypes'
    BY SMT, Z3T(30), <1>1, <1>4, <1>6, <2>1, <2>2 DEF Control, ControlTypes
  <2>4. Others(c, p)
    BY <1>1, <1>4, <1>6, <2>1 DEF Others, Control, ControlTypes
  <2>5. pc'[c] = "load" /\ job'[c] = job[c] /\ vmas'[p] = {Stack}
    BY <1>6, <2>1 DEF Control, ControlTypes
  <2>6. JobOk(c)' /\ CurrentOk(c)'
    BY <1>1, <1>2, <1>3, <1>4, <1>6, <2>5 DEF JobOk, ShrinkJob, ExecJob, ExitJob, ForkJob, CurrentOk
  <2>7. AreasOk(p)' /\ NoneOk(p)'
    BY <1>3, <1>6, <2>5 DEF AreasOk, NoneOk
  <2>8. BrkOk(p)'
    <3>1. NoBrk.base = NULL
      BY DEF NoBrk
    <3> QED
      BY <1>4, <3>1 DEF BrkOk
  <2> QED
    BY <1>1, <1>2, <2>3, <2>4, <2>5, <2>6, <2>7, <2>8, FrameControl
<1> QED
  BY <1>5, <1>6 DEF LoadStack

LEMMA LoadTextControl ==
  ASSUME Control, NEW c \in Cpus, LoadText(c)
  PROVE  Control'
<1>1. pc[c] = "load" /\ UNCHANGED current_task
  BY DEF LoadText, cpuVars
<1> PICK p \in Procs: p = job[c].mm
  BY <1>1, JobIsOwn
<1>2. Owns(c, p) /\ JobOk(c) /\ job[c].then \in {"run", "exec", "exit"}
  BY <1>1, JobIsOwn DEF Control, ControlTypes
<1>3. p = current_task[c] /\ pstate[p] = "ready" /\ vmas[p] = {Stack} /\ brk[p] = NoBrk
  BY <1>1, <1>2 DEF JobOk, ExecJob, ExitJob
<1>4. CASE StartExit(c, p) /\ UNCHANGED <<vmas, brk>>
  BY <1>1, <1>2, <1>4, StartExitControl DEF Control, ControlTypes, AreasOk
<1>5. CASE /\ vmas' = [vmas EXCEPT ![p] = @ \union {Text}]
           /\ brk' = [brk EXCEPT ![p].base = HeapBase]
           /\ Goto(c, "run", NoJob) /\ UNCHANGED pstate
  <2>1. pc' = [pc EXCEPT ![c] = "run"] /\ job' = [job EXCEPT ![c] = NoJob]
    BY <1>5 DEF Goto
  <2>2. Stack \in AreaShapes /\ Text \in AreaShapes
    BY DEF AreaShapes
  <2>3. NoJob \in [mm: Procs \union {NULL}, from: Pages, then: {"run", "exec", "exit"}]
    BY Sizes DEF NoJob
  <2>4. brk' \in [Procs -> [base: {NULL, HeapBase}, vma: BOOLEAN]]
    BY SMT, Z3T(30), <1>5 DEF Control, ControlTypes
  <2>5. ControlTypes'
    BY SMT, Z3T(30), <1>1, <1>5, <2>1, <2>2, <2>3, <2>4 DEF Control, ControlTypes
  <2>6. Others(c, p)
    BY <1>1, <1>5, <2>1 DEF Others, Control, ControlTypes
  <2>7. pc'[c] = "run" /\ vmas'[p] = {Stack, Text} /\ brk'[p].vma = FALSE
    BY SMT, Z3T(30), <1>3, <1>5, <2>1 DEF Control, ControlTypes, NoBrk
  <2>8. JobOk(c)' /\ CurrentOk(c)'
    BY <1>1, <1>3, <1>5, <2>7 DEF JobOk, ShrinkJob, ExecJob, ExitJob, ForkJob, CurrentOk
  <2>9. AreasOk(p)'
    <3>1. Stack.base # Text.base
      BY SMT, Z3T(30), Sizes DEF Stack, Text, HeapBase
    <3> QED
      BY <2>7, <3>1 DEF AreasOk
  <2>10. BrkOk(p)' /\ NoneOk(p)'
    BY <1>3, <1>5, <2>7 DEF BrkOk, NoneOk
  <2> QED
    BY <1>1, <1>2, <2>5, <2>6, <2>7, <2>8, <2>9, <2>10, FrameControl
<1> QED
  BY <1>4, <1>5 DEF LoadText

LEMMA ForkVmaControl ==
  ASSUME Control, NEW c \in Cpus, ForkVma(c)
  PROVE  Control'
<1>1. pc[c] = "fork" /\ UNCHANGED <<brk, current_task>>
  BY DEF ForkVma, cpuVars
<1> PICK q \in Procs: q = job[c].mm
  BY <1>1, JobIsOwn
<1> PICK p \in Procs: p = current_task[c]
  BY <1>1 DEF Control, ControlTypes, JobOk, ForkJob
<1>2. Owns(c, q) /\ JobOk(c) /\ CurrentOk(c) /\ AreasOk(p) /\ BrkOk(q)
  BY <1>1, JobIsOwn DEF Control
<1>3. pstate[q] = "building" /\ vmas[q] \subseteq vmas[p] /\ vmas[p] \subseteq AreaShapes
  BY <1>1, <1>2 DEF Control, ControlTypes, JobOk, ForkJob
<1>4. ASSUME NEW v \in vmas[p], vmas' = [vmas EXCEPT ![q] = @ \union {v}]
      PROVE  /\ vmas'[q] \subseteq vmas[p] /\ vmas' \in [Procs -> SUBSET AreaShapes]
             /\ AreasOk(q)' /\ \A r \in Procs: r # q => vmas'[r] = vmas[r]
  <2>1. /\ vmas'[q] \subseteq vmas[p] /\ vmas' \in [Procs -> SUBSET AreaShapes]
        /\ \A r \in Procs: r # q => vmas'[r] = vmas[r]
    BY <1>3, <1>4 DEF Control, ControlTypes
  <2> QED
    BY <1>2, <2>1 DEF AreasOk
<1>5. ASSUME NEW v \in vmas[p], vmas' = [vmas EXCEPT ![q] = @ \union {v}],
             UNCHANGED <<pstate, pc, job>>
      PROVE  Control'
  <2>1. ControlTypes' /\ Others(c, q)
    BY <1>1, <1>4, <1>5 DEF Control, ControlTypes, Others
  <2>2. p # q
    BY <1>1, <1>2, <1>3, AddrSpaceAssumption DEF CurrentOk, AddrSpaceAssumption
  <2>3. JobOk(c)' /\ CurrentOk(c)'
    BY <1>1, <1>2, <1>4, <1>5, <2>2 DEF JobOk, ShrinkJob, ExecJob, ExitJob, ForkJob, CurrentOk
  <2>4. BrkOk(q)' /\ NoneOk(q)'
    BY <1>1, <1>2, <1>3, <1>5 DEF BrkOk, NoneOk
  <2> QED
    BY <1>1, <1>2, <1>4, <1>5, <2>1, <2>3, <2>4, FrameControl
<1>6. ASSUME NEW v \in vmas[p], StartExit(c, q),
             vmas' = [vmas EXCEPT ![q] = @ \union {v}] \/ UNCHANGED vmas
      PROVE  Control'
  <2>1. /\ vmas' \in [Procs -> SUBSET AreaShapes] /\ AreasOk(q)'
        /\ \A r \in Procs: r # q => vmas'[r] = vmas[r]
    BY <1>4, <1>6 DEF Control, ControlTypes, AreasOk
  <2>2. brk' \in [Procs -> [base: {NULL, HeapBase}, vma: BOOLEAN]]
    BY <1>1 DEF Control, ControlTypes
  <2> QED
    BY <1>1, <1>2, <1>6, <2>1, <2>2, StartExitControl
<1>7. PICK v \in vmas[p] \ vmas[q]:
         \/ vmas' = [vmas EXCEPT ![q] = @ \union {v}] /\ UNCHANGED <<pstate, pc, job>>
         \/ vmas' = [vmas EXCEPT ![q] = @ \union {v}] /\ StartExit(c, q)
         \/ UNCHANGED vmas /\ StartExit(c, q)
  BY DEF ForkVma
<1> QED
  BY <1>5, <1>6, <1>7

LEMMA ForkDoneControl ==
  ASSUME Control, NEW c \in Cpus, ForkDone(c)
  PROVE  Control'
<1>1. pc[c] = "fork" /\ UNCHANGED <<vmas, brk, current_task>>
  BY DEF ForkDone, cpuVars
<1> PICK q \in Procs: q = job[c].mm
  BY <1>1, JobIsOwn
<1>2. /\ pstate' = [pstate EXCEPT ![q] = "ready"]
      /\ pc' = [pc EXCEPT ![c] = "run"] /\ job' = [job EXCEPT ![c] = NoJob]
  BY DEF ForkDone, Goto
<1>3. Owns(c, q) /\ JobOk(c) /\ CurrentOk(c) /\ AreasOk(q) /\ BrkOk(q)
  BY <1>1, JobIsOwn DEF Control
<1>4. pstate[q] = "building" /\ brk[q] = NoBrk
  BY <1>1, <1>3 DEF JobOk, ForkJob, BrkOk
<1>5. NoJob \in [mm: Procs \union {NULL}, from: Pages, then: {"run", "exec", "exit"}]
  BY Sizes DEF NoJob
<1>6. ControlTypes' /\ Others(c, q)
  BY <1>1, <1>2, <1>5 DEF Control, ControlTypes, Others
<1>7. pc'[c] = "run" /\ pstate'[q] = "ready"
  BY <1>2 DEF Control, ControlTypes
<1>8. JobOk(c)' /\ CurrentOk(c)'
  <2>1. JobOk(c)'
    BY <1>7 DEF JobOk, ShrinkJob, ExecJob, ExitJob, ForkJob
  <2>2. current_task[c] \in Procs /\ pstate[current_task[c]] = "ready" /\ current_task[c] # q
    BY SMTT(20), Z3T(40), <1>1, <1>3, <1>4 DEF Control, ControlTypes, JobOk, ForkJob, CurrentOk
  <2>3. CurrentOk(c)'
    BY <1>1, <1>6, <2>2 DEF CurrentOk, Others
  <2> QED
    BY <2>1, <2>3
<1>9. AreasOk(q)' /\ BrkOk(q)' /\ NoneOk(q)'
  <2>1. vmas'[q] = vmas[q] /\ brk'[q] = NoBrk
    BY <1>1, <1>4
  <2>2. NoBrk.base = NULL
    BY DEF NoBrk
  <2> QED
    BY <1>3, <1>7, <2>1, <2>2 DEF AreasOk, BrkOk, NoneOk
<1> QED
  BY <1>1, <1>3, <1>6, <1>7, <1>8, <1>9, FrameControl

LEMMA InitControl == Init => Control
<1> SUFFICES ASSUME Init PROVE Control
  OBVIOUS
<1>1. /\ pstate = [p \in Procs |-> IF p = init_proc THEN "ready" ELSE "none"]
      /\ vmas = [p \in Procs |-> IF p = init_proc THEN {Text, Stack} ELSE {}]
      /\ brk = [p \in Procs |-> [NoBrk EXCEPT !.base = IF p = init_proc THEN HeapBase ELSE NULL]]
      /\ current_task = [c \in Cpus |-> NULL]
      /\ pc = [c \in Cpus |-> "run"] /\ job = [c \in Cpus |-> NoJob]
  BY DEF Init
<1>2. NoJob \in [mm: Procs \union {NULL}, from: Pages, then: {"run", "exec", "exit"}]
  BY Sizes DEF NoJob
<1>3. /\ \A p \in Procs: brk[p] \in [base: {NULL, HeapBase}, vma: {FALSE}]
      /\ \A p \in Procs: p # init_proc => brk[p] \in [base: {NULL}, vma: {FALSE}]
  BY <1>1 DEF NoBrk
<1>4. ASSUME NEW b \in [base: {NULL}, vma: {FALSE}] PROVE b = NoBrk
  BY DEF NoBrk
<1>5. ControlTypes
  <2>1. Text \in AreaShapes /\ Stack \in AreaShapes
    BY DEF AreaShapes
  <2>2. brk \in [Procs -> [base: {NULL, HeapBase}, vma: BOOLEAN]]
    BY <1>1, <1>3
  <2> QED
    BY <1>1, <1>2, <2>1, <2>2 DEF ControlTypes
<1>6. ASSUME NEW p \in Procs PROVE AreasOk(p) /\ BrkOk(p) /\ NoneOk(p)
  <2>1. Stack.base # Text.base
    BY SMT, Z3T(30), Sizes DEF Stack, Text, HeapBase
  <2>2. CASE p = init_proc
    <3>1. vmas[p] = {Text, Stack} /\ pstate[p] = "ready" /\ brk[p].vma = FALSE
      BY <1>1, <1>3, <2>2
    <3> QED
      BY <2>1, <3>1 DEF AreasOk, BrkOk, NoneOk
  <2>3. CASE p # init_proc
    <3>1. vmas[p] = {} /\ pstate[p] = "none" /\ brk[p] = NoBrk
      BY <1>1, <1>3, <1>4, <2>3
    <3> QED
      BY <3>1 DEF AreasOk, BrkOk, NoneOk
  <2> QED
    BY <2>2, <2>3
<1>7. ASSUME NEW c \in Cpus PROVE JobOk(c) /\ CurrentOk(c)
  BY <1>1 DEF JobOk, ShrinkJob, ExecJob, ExitJob, ForkJob, CurrentOk
<1>8. ASSUME NEW c \in Cpus, NEW d \in Cpus PROVE Apart(c, d)
  BY <1>1 DEF Apart
<1> QED
  BY <1>5, <1>6, <1>7, <1>8 DEF Control

(* Who works on what, and on which areas, is as described above. *)
LEMMA ControlStep == Control /\ [Next]_vars => Control'
<1> SUFFICES ASSUME Control, [Next]_vars PROVE Control'
  OBVIOUS
<1>1. ASSUME NEW c \in Cpus, NEW v \in Pages, TlbFill(c, v) PROVE Control'
  BY <1>1, QuietControl DEF TlbFill, mmVars, cpuVars
<1>2. ASSUME NEW c \in Cpus, NEW e \in tlb[c], UserStore(c, e) PROVE Control'
  BY <1>2, QuietControl DEF UserStore, mmVars, cpuVars
<1>3. ASSUME NEW c \in Cpus, DeallocRound(c) PROVE Control'
  BY <1>3, QuietControl DEF DeallocRound, cpuVars
<1>4. CASE UNCHANGED vars
  BY <1>4, QuietControl DEF vars
<1> QED
  BY <1>1, <1>2, <1>3, <1>4, TaskActivateControl, TaskHandleFaultControl, SysExitControl,
     SysBrkControl, SysExecveControl, SysForkControl, DeallocEndControl, FreeRootControl,
     AsidClearControl, LoadStackControl, LoadTextControl, ForkVmaControl, ForkDoneControl
  DEF Next

(* Flushes only drop translations. *)
LEMMA FlushTypes ==
  ASSUME DataTypes, NEW c \in Cpus, NEW p, NEW S, NEW a
  PROVE  /\ MapTlb(c, p, S) \in [Cpus -> SUBSET Translation]
         /\ FlushOthers(c, a, S) \in [Cpus -> SUBSET Translation]
         /\ FlushAsid(a) \in [Cpus -> SUBSET Translation]
         /\ ActivateTlb(c, p) \in [Cpus -> SUBSET Translation]
  BY DEF DataTypes, MapTlb, FlushPages, FlushOthers, FlushAsid, ActivateTlb, Flush

(* The pages that are allocated are pages, and what they get is a value. *)
LEMMA AllocTypes ==
  ASSUME DataTypes, NEW p \in Procs, NEW S, S \subseteq Pages, NEW x,
         Alloc(p, S, x), \A n \in S: x[n] \in Values
  PROVE  /\ page_table' \in [Procs -> [Pages -> Frames \union {NULL}]]
         /\ allocated' \subseteq Frames /\ content' \in [Frames -> Values]
<1>1. page_table' \in [Procs -> [Pages -> Frames \union {NULL}]] /\ allocated' \subseteq Frames
  BY AllocIs
<1>2. PICK f \in [S -> Free]:
        content' = [g \in Frames |-> IF \E v \in S: f[v] = g
                                       THEN x[CHOOSE v \in S: f[v] = g] ELSE content[g]]
  BY DEF Alloc
<1>3. \A g \in Frames: content'[g] \in Values
  BY <1>2 DEF DataTypes
<1> QED
  BY <1>1, <1>2, <1>3

LEMMA ZeroIs == ASSUME NEW S PROVE \A n \in S: Zero(S)[n] \in Values
  BY DEF Zero, Values

(* What a fork copies. *)
LEMMA CopyIs ==
  ASSUME DataTypes, NEW p \in Procs, NEW v, NEW S, S \subseteq Copied(p, v)
  PROVE  /\ S \subseteq Pages
         /\ \A n \in S: page_table[p][n] \in Frames
         /\ \A n \in S: [w \in S |-> content[page_table[p][w]]][n] \in Values
<1>1. S \subseteq Pages /\ \A n \in S: page_table[p][n] # NULL
  BY DEF Copied, Mapped
<1>2. \A n \in S: page_table[p][n] \in Frames
  BY SMT, Z3T(30), <1>1 DEF DataTypes
<1>3. \A n \in S: content[page_table[p][n]] \in Values
  BY <1>2 DEF DataTypes
<1> QED
  BY <1>1, <1>2, <1>3

LEMMA TypeInit == Init => DataTypes
<1> SUFFICES ASSUME Init PROVE DataTypes
  OBVIOUS
<1>1. machine \in Machines /\ machine.asids \in Nat \ {0}
  BY AddrSpaceAssumption DEF Init, AddrSpaceAssumption
<1>2. 0 \in Asids
  BY SMT, Z3T(30), <1>1 DEF Asids
<1>3. asid \in [Procs -> Asids] /\ asid_bitmap \subseteq Asids
  BY <1>2, AddrSpaceAssumption DEF Init, AddrSpaceAssumption
<1>4. page_table \in [Procs -> [Pages -> Frames \union {NULL}]] /\ allocated \subseteq Frames
  <2> DEFINE used == PagesOf(Text) \union {UserEnd - 1}
  <2>1. PICK f \in [used -> Frames]:
          /\ page_table = [p \in Procs |-> [v \in Pages |->
                IF p = init_proc /\ v \in used THEN f[v] ELSE NULL]]
          /\ allocated = {f[v]: v \in used}
    BY DEF Init
  <2> HIDE DEF used
  <2> QED
    BY <2>1
<1>5. content \in [Frames -> Values]
  BY DEF Init, Values
<1> QED
  BY <1>1, <1>3, <1>4, <1>5 DEF Init, DataTypes

(* The machine stays what it is. *)
LEMMA MachineFixed == [Next]_vars => machine' = machine
<1> SUFFICES ASSUME Next \/ UNCHANGED vars PROVE machine' = machine
  OBVIOUS
<1>1. ASSUME NEW c \in Cpus
      PROVE  /\ \A v \in Pages: TlbFill(c, v) => machine' = machine
             /\ \A e \in tlb[c]: UserStore(c, e) => machine' = machine
             /\ \A p: TaskActivate(c, p) => machine' = machine
             /\ \A p, v: TaskHandleFault(c, p, v) => machine' = machine
             /\ \A p: SysExit(c, p) => machine' = machine
             /\ \A p, n: SysBrk(c, p, n) => machine' = machine
             /\ \A p: SysExecve(c, p) => machine' = machine
             /\ \A p, q: SysFork(c, p, q) => machine' = machine
  BY DEF TlbFill, UserStore, TaskActivate, TaskHandleFault, SysExit, SysBrk, SysExecve, SysFork
<1>2. ASSUME NEW c \in Cpus
      PROVE  /\ DeallocRound(c) => machine' = machine
             /\ DeallocEnd(c) => machine' = machine
             /\ FreeRoot(c) => machine' = machine
             /\ AsidClear(c) => machine' = machine
             /\ LoadStack(c) => machine' = machine
             /\ LoadText(c) => machine' = machine
             /\ ForkVma(c) => machine' = machine
             /\ ForkDone(c) => machine' = machine
  BY DEF DeallocRound, DeallocEnd, FreeRoot, AsidClear, LoadStack, LoadText, ForkVma, ForkDone
<1> QED
  BY <1>1, <1>2 DEF Next, vars

LEMMA TypeStep ==
  ASSUME LeastExists, DataTypes, Control, [Next]_vars
  PROVE  DataTypes'
<1>0. machine' = machine
  BY MachineFixed
<1>1. Asids' = Asids /\ Translation' = Translation /\ 0 \in Asids
  <2>1. machine.asids \in Nat \ {0}
    BY AddrSpaceAssumption DEF DataTypes, AddrSpaceAssumption
  <2> QED
    BY SMT, Z3T(30), <1>0, <2>1 DEF Asids, Translation
<1>2. ASSUME UNCHANGED <<page_table, asid, asid_bitmap, memVars, root>>,
             tlb' \in [Cpus -> SUBSET Translation]
      PROVE  DataTypes'
  BY <1>0, <1>1, <1>2 DEF DataTypes, memVars
<1>3. ASSUME NEW p \in Procs, NEW S, S \subseteq Pages, NEW x, Alloc(p, S, x),
             \A n \in S: x[n] \in Values,
             UNCHANGED <<asid, asid_bitmap, root>>, tlb' \in [Cpus -> SUBSET Translation]
      PROVE  DataTypes'
  <2>1. /\ page_table' \in [Procs -> [Pages -> Frames \union {NULL}]]
        /\ allocated' \subseteq Frames /\ content' \in [Frames -> Values]
    BY <1>3, AllocTypes
  <2> QED
    BY <1>0, <1>1, <1>3, <2>1 DEF DataTypes
<1>4. tlb \in [Cpus -> SUBSET Translation]
  BY DEF DataTypes
<1>5. ASSUME NEW c \in Cpus, NEW v \in Pages, TlbFill(c, v) PROVE DataTypes'
  <2> DEFINE p == root[c]
             e == [asid |-> asid[p], page |-> v, frame |-> page_table[p][v]]
  <2>1. /\ p # NULL /\ page_table[p][v] # NULL
        /\ \E kept \in SUBSET tlb[c]: tlb' = [tlb EXCEPT ![c] = kept \union {e}]
    BY <1>5 DEF TlbFill
  <2>2. e \in Translation
    BY SMT, Z3T(30), <2>1 DEF DataTypes, Translation
  <2>3. tlb' \in [Cpus -> SUBSET Translation]
    <3> HIDE DEF e
    <3> QED
      BY <1>4, <2>1, <2>2
  <2> QED
    BY <1>2, <1>5, <2>3 DEF TlbFill, mmVars, memVars, cpuVars
<1>6. ASSUME NEW c \in Cpus, NEW e \in tlb[c], UserStore(c, e) PROVE DataTypes'
  <2>1. /\ content' = [content EXCEPT ![e.frame] = current_task[c]]
        /\ UNCHANGED <<page_table, asid, asid_bitmap, allocated, root, tlb>>
        /\ pc[c] = "run" /\ current_task[c] \in Writers
    BY <1>6 DEF UserStore, mmVars, cpuVars
  <2>2. current_task[c] \in Values
    BY <2>1, AddrSpaceAssumption DEF AddrSpaceAssumption, Values
  <2> QED
    BY <1>0, <1>1, <2>1, <2>2 DEF DataTypes
<1>7. ASSUME NEW c \in Cpus, NEW p \in Procs \union {NULL}, TaskActivate(c, p) PROVE DataTypes'
  <2>1. /\ UNCHANGED <<page_table, asid, asid_bitmap, allocated, content>>
        /\ root' = [root EXCEPT ![c] = p] /\ (tlb' = tlb \/ tlb' = ActivateTlb(c, p))
    BY <1>7 DEF TaskActivate, mmVars, memVars
  <2>2. tlb' \in [Cpus -> SUBSET Translation]
    BY SMTT(20), Z3T(40), <1>4, <2>1, FlushTypes
  <2> QED
    BY <1>0, <1>1, <2>1, <2>2 DEF DataTypes
<1>8. ASSUME NEW c \in Cpus, NEW p \in Procs, NEW v \in Pages, TaskHandleFault(c, p, v)
      PROVE  DataTypes'
  <2>1. UNCHANGED <<asid, asid_bitmap, root>>
    BY <1>8 DEF TaskHandleFault, cpuVars
  <2>2. CASE Alloc(p, {v}, Zero({v})) /\ tlb' = MapTlb(c, p, {v})
    <3>1. tlb' \in [Cpus -> SUBSET Translation]
      BY <2>2, FlushTypes
    <3> QED
      BY <1>3, <2>1, <2>2, <3>1, ZeroIs
  <2>3. CASE UNCHANGED <<page_table, memVars, tlb>>
    BY <1>2, <1>4, <2>1, <2>3
  <2> QED
    BY <1>8, <2>2, <2>3 DEF TaskHandleFault
<1>9. ASSUME NEW c \in Cpus, NEW p \in Procs, SysExit(c, p) PROVE DataTypes'
  BY <1>2, <1>4, <1>9 DEF SysExit, cpuVars
<1>10. ASSUME NEW c \in Cpus, NEW p \in Procs, NEW n \in 0 .. UserEnd + 1, SysBrk(c, p, n)
       PROVE  DataTypes'
  BY <1>2, <1>4, <1>10 DEF SysBrk, cpuVars
<1>11. ASSUME NEW c \in Cpus, NEW p \in Procs, SysExecve(c, p) PROVE DataTypes'
  BY <1>2, <1>4, <1>11 DEF SysExecve, mmVars, cpuVars
<1>12. ASSUME NEW c \in Cpus, NEW p \in Procs, NEW q \in Procs, SysFork(c, p, q) PROVE DataTypes'
  <2>1. /\ asid' = [asid EXCEPT ![q] = NewAsid] /\ asid_bitmap' = asid_bitmap \union {NewAsid}
        /\ tlb' = [tlb EXCEPT ![c] = {}] \/ tlb' = tlb
        /\ UNCHANGED <<page_table, allocated, content, root>>
    BY <1>12 DEF SysFork, memVars, cpuVars
  <2>2. NewAsid \in Asids
    BY NewAsidIs, TypesSplit
  <2>3. tlb' \in [Cpus -> SUBSET Translation]
    BY <1>4, <2>1
  <2> QED
    BY <1>0, <1>1, <2>1, <2>2, <2>3 DEF DataTypes
<1>13. ASSUME NEW c \in Cpus, DeallocRound(c) PROVE DataTypes'
  <2> PICK p \in Procs: p = job[c].mm
    BY <1>13, JobIsOwn DEF DeallocRound, Releasing
  <2>1. PICK S: /\ page_table' = [page_table EXCEPT ![p] =
                          [v \in Pages |-> IF v \in S THEN NULL ELSE @[v]]]
                /\ tlb' = MapTlb(c, p, S)
                /\ allocated' = allocated \ {page_table[p][v]: v \in S}
                /\ UNCHANGED <<asid, asid_bitmap, content, root>>
    BY <1>13 DEF DeallocRound, cpuVars
  <2>2. page_table' \in [Procs -> [Pages -> Frames \union {NULL}]]
    BY <2>1 DEF DataTypes
  <2>3. tlb' \in [Cpus -> SUBSET Translation]
    BY <2>1, FlushTypes
  <2> QED
    BY <1>0, <1>1, <2>1, <2>2, <2>3 DEF DataTypes
<1>14. ASSUME NEW c \in Cpus, DeallocEnd(c) PROVE DataTypes'
  <2>1. /\ tlb' = FlushOthers(c, asid[job[c].mm], Span(c))
        /\ UNCHANGED <<page_table, asid, asid_bitmap, memVars, root>>
    BY <1>14 DEF DeallocEnd, cpuVars
  <2> QED
    BY <1>2, <2>1, FlushTypes
<1>15. ASSUME NEW c \in Cpus, FreeRoot(c) PROVE DataTypes'
  <2> PICK p \in Procs: p = job[c].mm
    BY <1>15, JobIsOwn DEF FreeRoot
  <2>1. /\ root' = [root EXCEPT ![c] = IF current_task[c] = p THEN NULL ELSE @]
        /\ page_table' = [page_table EXCEPT ![p] = EmptyTable]
        /\ tlb' = IF asid[p] = 0 THEN tlb ELSE FlushAsid(asid[p])
        /\ UNCHANGED <<asid, asid_bitmap, allocated, content>>
    BY <1>15 DEF FreeRoot, memVars
  <2>2. tlb' \in [Cpus -> SUBSET Translation]
    BY <1>4, <2>1, FlushTypes
  <2>3. page_table' \in [Procs -> [Pages -> Frames \union {NULL}]]
    BY <2>1 DEF DataTypes, EmptyTable
  <2> QED
    BY <1>0, <1>1, <2>1, <2>2, <2>3 DEF DataTypes
<1>16. ASSUME NEW c \in Cpus, AsidClear(c) PROVE DataTypes'
  <2>1. /\ asid_bitmap' = asid_bitmap \ ({asid[job[c].mm]} \ {0})
        /\ asid' = [asid EXCEPT ![job[c].mm] = 0]
        /\ UNCHANGED <<page_table, allocated, content, root, tlb>>
    BY <1>16 DEF AsidClear, memVars
  <2> QED
    BY <1>0, <1>1, <2>1 DEF DataTypes
<1>17. ASSUME NEW c \in Cpus, LoadStack(c) PROVE DataTypes'
  <2> PICK p \in Procs: p = job[c].mm
    BY <1>17, JobIsOwn DEF LoadStack
  <2>1. UNCHANGED <<asid, asid_bitmap, root>>
    BY <1>17 DEF LoadStack, cpuVars
  <2>2. CASE Alloc(p, {UserEnd - 1}, Zero({UserEnd - 1})) /\ tlb' = MapTlb(c, p, {UserEnd - 1})
    <3>1. tlb' \in [Cpus -> SUBSET Translation]
      BY <2>2, FlushTypes
    <3>2. {UserEnd - 1} \subseteq Pages
      BY Sizes
    <3> QED
      BY <1>3, <2>1, <2>2, <3>1, <3>2, ZeroIs
  <2>3. CASE UNCHANGED <<page_table, memVars, tlb>>
    BY <1>2, <1>4, <2>1, <2>3
  <2> QED
    BY <1>17, <2>2, <2>3 DEF LoadStack
<1>18. ASSUME NEW c \in Cpus, LoadText(c) PROVE DataTypes'
  <2> PICK p \in Procs: p = job[c].mm
    BY <1>18, JobIsOwn DEF LoadText
  <2>1. UNCHANGED <<asid, asid_bitmap, root>>
    BY <1>18 DEF LoadText, cpuVars
  <2>2. CASE Alloc(p, PagesOf(Text), Zero(PagesOf(Text))) /\ tlb' = MapTlb(c, p, PagesOf(Text))
    <3>1. tlb' \in [Cpus -> SUBSET Translation]
      BY <2>2, FlushTypes
    <3> QED
      BY SMT, Z3T(30), <1>3, <2>1, <2>2, <3>1, ZeroIs, TextPages
  <2>3. CASE UNCHANGED <<page_table, memVars, tlb>>
    BY <1>2, <1>4, <2>1, <2>3
  <2> QED
    BY <1>18, <2>2, <2>3 DEF LoadText
<1>19. ASSUME NEW c \in Cpus, ForkVma(c) PROVE DataTypes'
  <2>1. UNCHANGED <<asid, asid_bitmap, root, tlb>> /\ pc[c] = "fork"
    BY <1>19 DEF ForkVma, cpuVars
  <2> PICK q \in Procs: q = job[c].mm
    BY <2>1, JobIsOwn
  <2> PICK p \in Procs: p = current_task[c]
    BY <2>1 DEF Control, ControlTypes, JobOk, ForkJob
  <2>2. ASSUME NEW v, NEW S, S \subseteq Copied(p, v),
               Alloc(q, S, [w \in S |-> content[page_table[p][w]]])
        PROVE  DataTypes'
    <3>1. S \subseteq Pages /\ \A n \in S: [w \in S |-> content[page_table[p][w]]][n] \in Values
      BY <2>2, CopyIs
    <3> QED
      BY <1>3, <1>4, <2>1, <2>2, <3>1
  <2>3. CASE UNCHANGED <<memVars, page_table>>
    BY <1>2, <1>4, <2>1, <2>3
  <2>4. \E v, S:
          \/ S \subseteq Copied(p, v) /\ Alloc(q, S, [w \in S |-> content[page_table[p][w]]])
          \/ UNCHANGED <<memVars, page_table>>
    <3>1. PICK v: ForkTakes(c, p, q, v)
      BY <1>19, ForkVmaIs
    <3>2. ASSUME NEW n PROVE {w \in Copied(p, v): w < n} \subseteq Copied(p, v)
      OBVIOUS
    <3> QED
      BY <3>1, <3>2 DEF ForkTakes
  <2> QED
    BY <2>2, <2>3, <2>4
<1>20. ASSUME NEW c \in Cpus, ForkDone(c) PROVE DataTypes'
  BY <1>2, <1>4, <1>20 DEF ForkDone, cpuVars
<1>21. CASE UNCHANGED vars
  BY <1>2, <1>4, <1>21 DEF vars, memVars
<1> QED
  BY <1>5, <1>6, <1>7, <1>8, <1>9, <1>10, <1>11, <1>12, <1>13, <1>14, <1>15, <1>16, <1>17, <1>18,
     <1>19, <1>20, <1>21
  DEF Next

LEMMA OwnersNext == DataTypes' => (FrameHasOneOwner' <=> OneOwner(page_table', allocated'))
  BY SMT, Z3T(30), OwnersSplit DEF FrameHasOneOwner, Mapped, DataTypes

(* Pages that had no frame get one that nobody has. *)
LEMMA AllocMaps ==
  ASSUME DataTypes, DataTypes', FrameHasOneOwner, NEW p \in Procs,
         NEW S, S \subseteq Pages, S \cap Mapped(p) = {}, NEW x, Alloc(p, S, x)
  PROVE  /\ FrameHasOneOwner'
         /\ Mapped(p)' = Mapped(p) \union S
         /\ \A q \in Procs: q # p => page_table'[q] = page_table[q]
<1> DEFINE t == page_table
           u == page_table'
<1>1. /\ \A q \in Procs: q # p => u[q] = t[q]
      /\ \A n \in Pages: n \notin S => u[p][n] = t[p][n]
      /\ \A n \in S: u[p][n] \in Frames \ allocated
      /\ \A m, n \in S: u[p][m] = u[p][n] => m = n
      /\ allocated' = allocated \union {u[p][n]: n \in S}
  BY AllocIs
<1>2. OneOwner(t, allocated)
  BY OwnersNow
<1>3. \A n \in S: t[p][n] = NULL /\ u[p][n] # NULL
  BY <1>1, AddrSpaceAssumption DEF AddrSpaceAssumption, Mapped
<1>4. Mapped(p)' = Mapped(p) \union S
  BY <1>1, <1>3 DEF Mapped
<1> HIDE DEF t, u
<1>5. \A q \in Procs, n \in Pages:
        \/ u[q][n] = t[q][n]
        \/ q = p /\ n \in S /\ u[q][n] \notin allocated /\ u[q][n] # NULL /\ u[q][n] \in allocated'
  BY <1>1, <1>3
<1>6. \A q \in Procs, n \in Pages: u[q][n] # NULL => u[q][n] \in allocated'
  BY <1>1, <1>2, <1>5 DEF OneOwner
<1>7. \A f \in allocated': \E q \in Procs, n \in Pages: u[q][n] = f
  <2>1. ASSUME NEW f \in allocated PROVE \E q \in Procs, n \in Pages: u[q][n] = f
    <3>1. PICK q \in Procs, n \in Pages: t[q][n] = f
      BY <1>2 DEF OneOwner
    <3>2. f # NULL
      BY AddrSpaceAssumption DEF AddrSpaceAssumption, DataTypes
    <3>3. u[q][n] = f
      BY <1>1, <1>3, <3>1, <3>2
    <3> QED
      BY <3>3
  <2> QED
    BY <1>1, <2>1
<1>8. ASSUME NEW q \in Procs, NEW r \in Procs, NEW m \in Pages, NEW n \in Pages,
             u[q][m] # NULL, u[q][m] = u[r][n]
      PROVE  q = r /\ m = n
  <2>1. \/ t[q][m] # NULL /\ t[q][m] = u[q][m] /\ u[q][m] \in allocated
        \/ q = p /\ m \in S /\ u[q][m] \notin allocated
    BY <1>2, <1>5, <1>8 DEF OneOwner
  <2>2. \/ t[r][n] # NULL /\ t[r][n] = u[r][n] /\ u[r][n] \in allocated
        \/ r = p /\ n \in S /\ u[r][n] \notin allocated
    BY <1>2, <1>5, <1>8 DEF OneOwner
  <2> QED
    BY SMT, Z3T(30), <1>1, <1>2, <1>8, <2>1, <2>2 DEF OneOwner
<1>9. OneOwner(u, allocated')
  BY SMT, Z3T(30), <1>6, <1>7, <1>8 DEF OneOwner
<1> QED
  BY <1>1, <1>4, <1>9, OwnersNext DEF u, t

(* Pages lose their frames, which are free then. *)
LEMMA DeallocUnmaps ==
  ASSUME DataTypes, DataTypes', FrameHasOneOwner, NEW p \in Procs, NEW S, S \subseteq Mapped(p),
         page_table' = [page_table EXCEPT ![p] = [v \in Pages |-> IF v \in S THEN NULL ELSE @[v]]],
         allocated' = allocated \ {page_table[p][v]: v \in S}
  PROVE  /\ FrameHasOneOwner'
         /\ Mapped(p)' = Mapped(p) \ S
         /\ \A q \in Procs: q # p => page_table'[q] = page_table[q]
<1> DEFINE t == page_table
           u == page_table'
<1>1. /\ \A q \in Procs: q # p => u[q] = t[q]
      /\ \A n \in Pages: u[p][n] = IF n \in S THEN NULL ELSE t[p][n]
  BY DEF DataTypes
<1>2. OneOwner(t, allocated)
  BY OwnersNow
<1>3. \A n \in S: n \in Pages /\ t[p][n] # NULL
  BY DEF Mapped
<1>4. Mapped(p)' = Mapped(p) \ S
  BY <1>1 DEF Mapped
<1>5. allocated' = allocated \ {t[p][v]: v \in S}
  OBVIOUS
<1> HIDE DEF t, u
<1>6. ASSUME NEW q \in Procs, NEW n \in Pages, u[q][n] # NULL
      PROVE  u[q][n] = t[q][n] /\ ~ (q = p /\ n \in S)
  BY <1>1, <1>6
<1>7. ASSUME NEW q \in Procs, NEW n \in Pages, u[q][n] # NULL
      PROVE  u[q][n] \in allocated'
  <2>1. t[q][n] \in allocated /\ u[q][n] = t[q][n]
    BY <1>2, <1>6, <1>7 DEF OneOwner
  <2>2. ASSUME NEW m \in S PROVE t[p][m] # t[q][n]
    BY SMT, Z3T(30), <1>2, <1>3, <1>6, <1>7 DEF OneOwner
  <2> QED
    BY <1>5, <2>1, <2>2
<1>8. ASSUME NEW f \in allocated' PROVE \E q \in Procs, n \in Pages: u[q][n] = f
  <2>1. PICK q \in Procs, n \in Pages: t[q][n] = f
    BY <1>2, <1>5 DEF OneOwner
  <2>2. ~ (q = p /\ n \in S)
    BY <1>5, <2>1
  <2>3. u[q][n] = f
    BY <1>1, <2>1, <2>2
  <2> QED
    BY <2>3
<1>9. OneOwner(u, allocated')
  BY SMTT(20), Z3T(40), <1>2, <1>6, <1>7, <1>8 DEF OneOwner
<1> QED
  BY <1>1, <1>4, <1>9, OwnersNext DEF u, t

LEMMA FitsFrame ==
  ASSUME \A q \in Procs: Fits(q), NEW c \in Cpus, NEW p \in Procs, Elsewhere(c, p),
         pc[c] # "run" => job[c].mm = p, pc'[c] # "run" => job'[c].mm = p, Fits(p)'
  PROVE  \A q \in Procs: Fits(q)'
<1>1. ASSUME NEW q \in Procs, q # p PROVE Fits(q)'
  <2>1. Tearing(q)' <=> Tearing(q)
    BY <1>1 DEF Tearing, Elsewhere
  <2>2. Mapped(q)' = Mapped(q) /\ vmas'[q] = vmas[q]
    BY <1>1 DEF Mapped, Elsewhere
  <2> QED
    BY <2>1, <2>2 DEF Fits
<1> QED
  BY <1>1

(* What leaves areas, tables, frames and jobs alone. *)
LEMMA QuietMem ==
  ASSUME \A q \in Procs: Fits(q), FrameHasOneOwner,
         UNCHANGED <<vmas, page_table, allocated, pc, job>>
  PROVE  (\A q \in Procs: Fits(q)') /\ FrameHasOneOwner'
  BY SMT, Z3T(30) DEF Fits, Mapped, Tearing, FrameHasOneOwner

(* task_exit(), as long as nothing is freed. *)
LEMMA StartExitMem ==
  ASSUME Control, \A q \in Procs: Fits(q), FrameHasOneOwner,
         NEW c \in Cpus, NEW p \in Procs, Owns(c, p), pc[c] # "run" => job[c].mm = p,
         StartExit(c, p), UNCHANGED <<vmas, page_table, allocated>>
  PROVE  (\A q \in Procs: Fits(q)') /\ FrameHasOneOwner'
<1>1. /\ pc' = [pc EXCEPT ![c] = "dealloc"]
      /\ job' = [job EXCEPT ![c] = [mm |-> p, from |-> 0, then |-> "exit"]]
  BY Jobs DEF StartExit, Goto
<1>2. pc'[c] = "dealloc" /\ job'[c] = [mm |-> p, from |-> 0, then |-> "exit"] /\ Elsewhere(c, p)
  BY <1>1 DEF Control, ControlTypes, Elsewhere
<1>3. Tearing(p)'
  BY SMT, Z3T(30), <1>2 DEF Tearing
<1>4. Fits(p)'
  BY <1>3 DEF Fits, Mapped
<1>5. FrameHasOneOwner'
  BY SMT, Z3T(30) DEF FrameHasOneOwner, Mapped
<1> QED
  BY SMT, Z3T(30), <1>2, <1>4, <1>5, FitsFrame

LEMMA TaskHandleFaultMem ==
  ASSUME DataTypes, DataTypes', Control, \A q \in Procs: Fits(q), FrameHasOneOwner,
         NEW c \in Cpus, NEW p \in Procs, NEW v \in Pages, TaskHandleFault(c, p, v)
  PROVE  (\A q \in Procs: Fits(q)') /\ FrameHasOneOwner'
<1>1. Calls(c, p) /\ page_table[p][v] = NULL /\ UNCHANGED vmas
  BY DEF TaskHandleFault
<1>2. Owns(c, p) /\ pc[c] = "run"
  BY <1>1, CallerIs
<1>3. CASE Collides(p, {v}) /\ Alloc(p, {v}, Zero({v})) /\ UNCHANGED <<pc, job>>
  <2>1. {v} \cap Mapped(p) = {} /\ {v} \subseteq Pages
    BY <1>1 DEF Mapped
  <2>2. /\ FrameHasOneOwner' /\ Mapped(p)' = Mapped(p) \union {v}
        /\ \A q \in Procs: q # p => page_table'[q] = page_table[q]
    BY <1>3, <2>1, AllocMaps
  <2>3. Elsewhere(c, p)
    BY <1>1, <1>3, <2>2 DEF Elsewhere
  <2>4. Tearing(p)' <=> Tearing(p)
    BY <1>3 DEF Tearing
  <2>5. \E w \in vmas[p]: v \in PagesOf(w)
    BY <1>3 DEF Collides
  <2>6. Fits(p)'
    BY <1>1, <2>2, <2>4, <2>5 DEF Fits
  <2> QED
    BY <1>2, <1>3, <2>2, <2>3, <2>6, FitsFrame
<1>4. CASE StartExit(c, p) /\ UNCHANGED <<page_table, memVars>>
  BY <1>1, <1>2, <1>4, StartExitMem DEF memVars
<1> QED
  BY <1>3, <1>4 DEF TaskHandleFault

LEMMA SysBrkMem ==
  ASSUME DataTypes, Control, \A q \in Procs: Fits(q), FrameHasOneOwner,
         NEW c \in Cpus, NEW p \in Procs, NEW n \in 0 .. UserEnd + 1, SysBrk(c, p, n)
  PROVE  (\A q \in Procs: Fits(q)') /\ FrameHasOneOwner'
<1> USE Sizes
<1> DEFINE heap == CHOOSE v \in vmas[p]: v.base = HeapBase
           area == [base |-> HeapBase, size |-> n - HeapBase, lazy |-> TRUE]
<1>1. /\ Calls(c, p) /\ brk[p].base # NULL /\ n > HeapBase
      /\ UNCHANGED <<page_table, allocated>>
  BY DEF SysBrk, memVars
<1>2. Owns(c, p) /\ pc[c] = "run" /\ pstate[p] = "ready" /\ ~ Tearing(p)
  BY <1>1, CallerIs
<1>3. FrameHasOneOwner' /\ Mapped(p)' = Mapped(p)
  BY SMT, Z3T(30), <1>1 DEF FrameHasOneOwner, Mapped
<1>4. area # Text
  BY DEF Text
<1>5. ASSUME NEW V, vmas' = [vmas EXCEPT ![p] = V \union {area}], V \subseteq vmas[p],
             \A v \in vmas[p] \ V: PagesOf(v) \subseteq PagesOf(area), UNCHANGED <<pc, job>>
      PROVE  \A q \in Procs: Fits(q)'
  <2>0. vmas'[p] = V \union {area} /\ \A q \in Procs: q # p => vmas'[q] = vmas[q]
    BY <1>5 DEF Control, ControlTypes
  <2>1. Elsewhere(c, p)
    BY <1>1, <1>5, <2>0 DEF Elsewhere
  <2>2. ~ Tearing(p)'
    BY <1>2, <1>5 DEF Tearing
  <2> HIDE DEF area
  <2>3. \A m \in Mapped(p)': \E v \in vmas'[p]: m \in PagesOf(v)
    BY <1>3, <1>5, <2>0 DEF Fits
  <2>4. Text \in vmas'[p] => Text \in vmas[p]
    BY <1>4, <1>5, <2>0
  <2>5. Fits(p)'
    BY <1>2, <1>3, <2>2, <2>3, <2>4 DEF Fits
  <2> QED
    BY <1>2, <1>5, <2>1, <2>5, FitsFrame
<1>6. CASE vmas' = [vmas EXCEPT ![p] = @ \union {area}] /\ UNCHANGED <<pc, job>>
  <2> HIDE DEF area
  <2>1. vmas' = [vmas EXCEPT ![p] = vmas[p] \union {area}]
    BY <1>6
  <2>2. vmas[p] \subseteq vmas[p] /\ \A v \in vmas[p] \ vmas[p]: PagesOf(v) \subseteq PagesOf(area)
    OBVIOUS
  <2> QED
    BY <1>3, <1>5, <1>6, <2>1, <2>2
<1>7. CASE /\ brk[p].vma /\ n - HeapBase > heap.size
           /\ vmas' = [vmas EXCEPT ![p] = (@ \ {heap}) \union {area}] /\ UNCHANGED <<pc, job>>
  <2>1. PICK m \in 1 .. HeapSize: Heap(m) \in vmas[p]
    BY <1>1, <1>2, <1>7 DEF Control, BrkOk
  <2>2. heap = Heap(m)
    BY <2>1, HeapAt DEF Control, AreasOk
  <2>3. PagesOf(heap) \subseteq PagesOf(area)
    <3> HIDE DEF heap
    <3>1. heap.base = HeapBase /\ heap.size = m
      BY <2>2 DEF Heap
    <3>2. m < n - HeapBase
      BY <1>7, <3>1 DEF HeapBase
    <3> QED
      BY SMT, Z3T(30), <3>1, <3>2 DEF PagesOf, HeapBase
  <2>4. vmas' = [vmas EXCEPT ![p] = (vmas[p] \ {heap}) \union {area}]
    BY <1>7
  <2>5. vmas[p] \ {heap} \subseteq vmas[p]
        /\ \A v \in vmas[p] \ (vmas[p] \ {heap}): PagesOf(v) \subseteq PagesOf(area)
    BY <2>3
  <2> HIDE DEF area, heap
  <2> QED
    BY <1>3, <1>5, <1>7, <2>4, <2>5
<1>8. CASE Goto(c, "dealloc", [NoJob EXCEPT !.mm = p, !.from = n]) /\ UNCHANGED vmas
  <2>1. /\ pc' = [pc EXCEPT ![c] = "dealloc"]
        /\ job' = [job EXCEPT ![c] = [mm |-> p, from |-> n, then |-> "run"]]
    BY <1>8, Jobs DEF Goto
  <2>2. /\ pc'[c] = "dealloc" /\ job'[c] = [mm |-> p, from |-> n, then |-> "run"]
        /\ Elsewhere(c, p)
    BY <1>1, <1>8, <2>1 DEF Control, ControlTypes, Elsewhere
  <2>3. Fits(p)' /\ job'[c].mm = p
    BY SMT, Z3T(30), <1>2, <1>3, <1>8, <2>2 DEF Fits
  <2> QED
    BY <1>2, <1>3, <2>2, <2>3, FitsFrame
<1>9. \/ vmas' = [vmas EXCEPT ![p] = @ \union {area}] /\ UNCHANGED <<pc, job>>
      \/ /\ brk[p].vma /\ n - HeapBase > heap.size
         /\ vmas' = [vmas EXCEPT ![p] = (@ \ {heap}) \union {area}] /\ UNCHANGED <<pc, job>>
      \/ Goto(c, "dealloc", [NoJob EXCEPT !.mm = p, !.from = n]) /\ UNCHANGED vmas
  BY DEF SysBrk
<1> QED
  BY <1>3, <1>6, <1>7, <1>8, <1>9

LEMMA SysExecveMem ==
  ASSUME DataTypes, Control, \A q \in Procs: Fits(q), FrameHasOneOwner,
         NEW c \in Cpus, NEW p \in Procs, SysExecve(c, p)
  PROVE  (\A q \in Procs: Fits(q)') /\ FrameHasOneOwner'
<1>1. Calls(c, p) /\ UNCHANGED <<vmas, page_table, allocated>>
  BY DEF SysExecve, mmVars, memVars
<1>2. Owns(c, p) /\ pc[c] = "run"
  BY <1>1, CallerIs
<1>3. /\ pc' = [pc EXCEPT ![c] = "dealloc"]
      /\ job' = [job EXCEPT ![c] = [mm |-> p, from |-> 0, then |-> "exec"]]
  BY Jobs DEF SysExecve, Goto
<1>4. pc'[c] = "dealloc" /\ job'[c] = [mm |-> p, from |-> 0, then |-> "exec"] /\ Elsewhere(c, p)
  BY <1>1, <1>3 DEF Control, ControlTypes, Elsewhere
<1>5. Tearing(p)'
  BY SMTT(20), Z3T(40), <1>4 DEF Tearing
<1>6. Fits(p)' /\ FrameHasOneOwner'
  BY SMTT(20), Z3T(40), <1>1, <1>5 DEF Fits, Mapped, FrameHasOneOwner
<1> QED
  BY SMT, Z3T(30), <1>2, <1>4, <1>6, FitsFrame

LEMMA SysForkMem ==
  ASSUME DataTypes, Control, \A q \in Procs: Fits(q), FrameHasOneOwner,
         NEW c \in Cpus, NEW p \in Procs, NEW q \in Procs, SysFork(c, p, q)
  PROVE  (\A r \in Procs: Fits(r)') /\ FrameHasOneOwner'
<1>1. Calls(c, p) /\ pstate[q] = "none" /\ UNCHANGED <<vmas, page_table, allocated>>
  BY DEF SysFork, memVars
<1>2. pc[c] = "run" /\ vmas[q] = {}
  BY <1>1 DEF Calls, Control, NoneOk
<1>3. /\ pc' = [pc EXCEPT ![c] = "fork"]
      /\ job' = [job EXCEPT ![c] = [mm |-> q, from |-> 0, then |-> "run"]]
  BY Jobs DEF SysFork, Goto
<1>4. pc'[c] = "fork" /\ job'[c] = [mm |-> q, from |-> 0, then |-> "run"] /\ Elsewhere(c, q)
  BY <1>1, <1>3 DEF Control, ControlTypes, Elsewhere
<1>5. Fits(q)' /\ FrameHasOneOwner'
  BY SMT, Z3T(30), <1>1, <1>2 DEF Fits, Mapped, FrameHasOneOwner
<1> QED
  BY SMT, Z3T(30), <1>2, <1>4, <1>5, FitsFrame

LEMMA DeallocRoundMem ==
  ASSUME LeastExists, DataTypes, DataTypes', Control, \A q \in Procs: Fits(q), FrameHasOneOwner,
         NEW c \in Cpus, DeallocRound(c)
  PROVE  (\A q \in Procs: Fits(q)') /\ FrameHasOneOwner'
<1>1. Releasing(c) /\ pc[c] = "dealloc" /\ UNCHANGED <<vmas, pc, job>>
  BY DEF DeallocRound, Releasing
<1> PICK p \in Procs: p = job[c].mm
  BY <1>1, JobIsOwn
<1>2. PICK S:
        /\ S \subseteq Span(c) \cap Mapped(p)
        /\ page_table' = [page_table EXCEPT ![p] =
                            [v \in Pages |-> IF v \in S THEN NULL ELSE @[v]]]
        /\ allocated' = allocated \ {page_table[p][v]: v \in S}
  BY RoundIs
<1>3. /\ FrameHasOneOwner' /\ Mapped(p)' = Mapped(p) \ S
      /\ \A q \in Procs: q # p => page_table'[q] = page_table[q]
  BY <1>2, DeallocUnmaps
<1>4. Elsewhere(c, p)
  BY <1>1, <1>3 DEF Elsewhere
<1>5. Tearing(p)' <=> Tearing(p)
  BY <1>1 DEF Tearing
<1>6. ~ Tearing(p) => PagesOf(Text) \cap S = {}
  <2> SUFFICES ASSUME ~ Tearing(p) PROVE PagesOf(Text) \cap S = {}
    OBVIOUS
  <2>1. job[c].then = "run"
    BY <1>1 DEF Tearing
  <2>2. PICK n \in 1 .. HeapSize: Area(c) = Heap(n)
    BY <1>1, <2>1, AreaIs
  <2>3. Span(c) \subseteq PagesOf(Heap(n))
    BY <1>1, <2>2, AreaIs
  <2>4. PagesOf(Text) \cap PagesOf(Heap(n)) = {}
    BY SMT, Z3T(30), Sizes DEF PagesOf, Text, Heap, HeapBase
  <2> QED
    BY <1>2, <2>3, <2>4
<1>7. Fits(p)'
  BY <1>1, <1>3, <1>5, <1>6 DEF Fits
<1> QED
  BY <1>1, <1>3, <1>4, <1>7, FitsFrame

LEMMA DeallocEndMem ==
  ASSUME DataTypes, Control, \A q \in Procs: Fits(q), FrameHasOneOwner,
         NEW c \in Cpus, DeallocEnd(c)
  PROVE  (\A q \in Procs: Fits(q)') /\ FrameHasOneOwner'
<1>1. /\ Releasing(c) /\ pc[c] = "dealloc" /\ Span(c) \cap Mapped(job[c].mm) = {}
      /\ UNCHANGED <<page_table, allocated>>
  BY DEF DeallocEnd, Releasing, memVars
<1> PICK p \in Procs: p = job[c].mm
  BY <1>1, JobIsOwn
<1>2. FrameHasOneOwner' /\ Mapped(p)' = Mapped(p)
  BY SMT, Z3T(30), <1>1 DEF FrameHasOneOwner, Mapped
<1>3. CASE job[c].then = "run"
  <2>1. PICK n \in 1 .. HeapSize:
          Area(c) = Heap(n) /\ job[c].from \in HeapBase + 1 .. HeapBase + n - 1
    BY <1>1, <1>3, AreaIs
  <2>2. [Area(c) EXCEPT !.size = job[c].from - Area(c).base] = Heap(job[c].from - HeapBase)
    BY SMT, Z3T(30), <2>1, HeapResized DEF Heap
  <2>3. /\ vmas' = [vmas EXCEPT ![p] = (@ \ {Heap(n)}) \union {Heap(job[c].from - HeapBase)}]
        /\ pc' = [pc EXCEPT ![c] = "run"] /\ job' = [job EXCEPT ![c] = NoJob]
    BY <1>3, <2>1, <2>2 DEF DeallocEnd, Goto
  <2>4. /\ vmas'[p] = (vmas[p] \ {Heap(n)}) \union {Heap(job[c].from - HeapBase)}
        /\ pc'[c] = "run" /\ Elsewhere(c, p)
    BY <1>1, <2>3 DEF Control, ControlTypes, Elsewhere
  <2>5. ~ Tearing(p)
    BY <1>1, <1>3, JobIsOwn DEF Tearing, Owns
  <2>6. ASSUME NEW m \in PagesOf(Heap(n)) \cap Mapped(p)
        PROVE  m \in PagesOf(Heap(job[c].from - HeapBase))
    <3>1. m \in PagesOf(Heap(n)) /\ ~ (m >= job[c].from)
      BY <1>1, <2>1 DEF Span
    <3> QED
      BY SMT, Z3T(30), <2>1, <3>1, Sizes DEF PagesOf, Heap, HeapBase
  <2>7. \A m \in Mapped(p)': \E v \in vmas'[p]: m \in PagesOf(v)
    BY <1>2, <2>4, <2>6 DEF Fits
  <2>8. Text \in vmas'[p] => Text \in vmas[p]
    BY <2>4 DEF Text, Heap
  <2>9. Fits(p)'
    BY <1>2, <2>5, <2>7, <2>8 DEF Fits
  <2> QED
    BY <1>2, <2>4, <2>9, FitsFrame
<1>4. CASE job[c].then # "run"
  <2>1. /\ vmas' = [vmas EXCEPT ![p] = @ \ {Area(c)}] /\ UNCHANGED <<pc, job>>
    BY <1>4 DEF DeallocEnd
  <2>2. vmas'[p] = vmas[p] \ {Area(c)} /\ Elsewhere(c, p)
    BY <1>1, <2>1 DEF Control, ControlTypes, Elsewhere
  <2>3. Span(c) = PagesOf(Area(c))
    BY <1>1, <1>4, AreaIs
  <2>4. Tearing(p)'
    BY <1>1, <1>4, <2>1 DEF Tearing
  <2>5. Fits(p)'
    BY SMT, Z3T(30), <1>1, <1>2, <2>2, <2>3, <2>4 DEF Fits
  <2> QED
    BY <1>1, <1>2, <2>1, <2>2, <2>5, FitsFrame
<1> QED
  BY <1>3, <1>4

LEMMA FreeRootMem ==
  ASSUME DataTypes, Control, \A q \in Procs: Fits(q), FrameHasOneOwner,
         NEW c \in Cpus, FreeRoot(c)
  PROVE  (\A q \in Procs: Fits(q)') /\ FrameHasOneOwner'
<1>1. pc[c] = "dealloc" /\ vmas[job[c].mm] = {} /\ UNCHANGED <<vmas, allocated>>
  BY DEF FreeRoot, memVars
<1> PICK p \in Procs: p = job[c].mm
  BY <1>1, JobIsOwn
<1>2. page_table' = page_table /\ Mapped(p) = {}
  BY FreeRootIs
<1>3. pc' = [pc EXCEPT ![c] = "asid"] /\ job' = [job EXCEPT ![c] = job[c]]
  BY DEF FreeRoot, Goto
<1>4. pc'[c] = "asid" /\ job'[c] = job[c] /\ Elsewhere(c, p)
  BY <1>1, <1>2, <1>3 DEF Control, ControlTypes, Elsewhere
<1>5. Fits(p)' /\ FrameHasOneOwner'
  BY SMT, Z3T(30), <1>1, <1>2 DEF Fits, Mapped, FrameHasOneOwner
<1> QED
  BY <1>1, <1>2, <1>4, <1>5, FitsFrame

LEMMA AsidClearMem ==
  ASSUME DataTypes, Control, \A q \in Procs: Fits(q), FrameHasOneOwner,
         NEW c \in Cpus, AsidClear(c)
  PROVE  (\A q \in Procs: Fits(q)') /\ FrameHasOneOwner'
<1>1. pc[c] = "asid" /\ UNCHANGED <<vmas, page_table, allocated>>
  BY DEF AsidClear, memVars
<1> PICK p \in Procs: p = job[c].mm
  BY <1>1, JobIsOwn
<1>2. vmas[p] = {}
  BY SMT, Z3T(30), <1>1 DEF Control, ControlTypes, JobOk, ExecJob, ExitJob
<1>3. pc' = [pc EXCEPT ![c] = "run"] /\ job' = [job EXCEPT ![c] = NoJob]
  BY DEF AsidClear, Goto
<1>4. pc'[c] = "run" /\ Elsewhere(c, p)
  BY <1>1, <1>3 DEF Control, ControlTypes, Elsewhere
<1>5. Fits(p)' /\ FrameHasOneOwner'
  BY SMT, Z3T(30), <1>1, <1>2 DEF Fits, Mapped, FrameHasOneOwner
<1> QED
  BY <1>1, <1>4, <1>5, FitsFrame

LEMMA LoadStackMem ==
  ASSUME DataTypes, DataTypes', Control, \A q \in Procs: Fits(q), FrameHasOneOwner,
         NEW c \in Cpus, LoadStack(c)
  PROVE  (\A q \in Procs: Fits(q)') /\ FrameHasOneOwner'
<1> DEFINE top == UserEnd - 1
<1>1. pc[c] = "dealloc" /\ vmas[job[c].mm] = {} /\ job[c].then = "exec"
  BY DEF LoadStack
<1> PICK p \in Procs: p = job[c].mm
  BY <1>1, JobIsOwn
<1>2. Owns(c, p)
  BY <1>1, JobIsOwn
<1>3. CASE StartExit(c, p) /\ UNCHANGED <<page_table, vmas, memVars>>
  BY <1>2, <1>3, StartExitMem DEF memVars
<1>4. CASE /\ vmas' = [vmas EXCEPT ![p] = {Stack}]
           /\ Alloc(p, {top}, Zero({top})) /\ Goto(c, "load", job[c])
  <2>1. Mapped(p) = {}
    BY <1>1, NoAreas
  <2>2. top \in Pages /\ top \in PagesOf(Stack)
    BY SMT, Z3T(30), Sizes DEF PagesOf, Stack, HeapBase, UserEnd
  <2> HIDE DEF top
  <2>3. /\ FrameHasOneOwner' /\ Mapped(p)' = {top}
        /\ \A q \in Procs: q # p => page_table'[q] = page_table[q]
    BY <1>4, <2>1, <2>2, AllocMaps
  <2>4. pc' = [pc EXCEPT ![c] = "load"] /\ job' = [job EXCEPT ![c] = job[c]]
    BY <1>4 DEF Goto
  <2>5. /\ vmas'[p] = {Stack} /\ pc'[c] = "load" /\ job'[c] = job[c]
        /\ Elsewhere(c, p)
    BY <1>4, <2>3, <2>4 DEF Control, ControlTypes, Elsewhere
  <2>6. Stack # Text
    BY DEF Stack, Text
  <2>7. Fits(p)'
    BY SMT, Z3T(30), <2>2, <2>3, <2>5, <2>6 DEF Fits
  <2> QED
    BY <1>1, <2>3, <2>5, <2>7, FitsFrame
<1> QED
  BY <1>3, <1>4 DEF LoadStack

LEMMA LoadTextMem ==
  ASSUME DataTypes, DataTypes', Control, \A q \in Procs: Fits(q), FrameHasOneOwner,
         NEW c \in Cpus, LoadText(c)
  PROVE  (\A q \in Procs: Fits(q)') /\ FrameHasOneOwner'
<1>1. pc[c] = "load"
  BY DEF LoadText
<1> PICK p \in Procs: p = job[c].mm
  BY <1>1, JobIsOwn
<1>2. Owns(c, p) /\ vmas[p] = {Stack}
  BY SMTT(20), Z3T(40), <1>1, JobIsOwn DEF Control, ControlTypes, JobOk, ExecJob, ExitJob
<1>3. CASE StartExit(c, p) /\ UNCHANGED <<page_table, vmas, memVars>>
  BY <1>2, <1>3, StartExitMem DEF memVars
<1>4. CASE /\ vmas' = [vmas EXCEPT ![p] = @ \union {Text}]
           /\ Alloc(p, PagesOf(Text), Zero(PagesOf(Text))) /\ Goto(c, "run", NoJob)
  <2>1. PagesOf(Text) \cap PagesOf(Stack) = {}
    BY SMT, Z3T(30), Sizes DEF PagesOf, Text, Stack, HeapBase
  <2>2. PagesOf(Text) \cap Mapped(p) = {}
    BY <1>2, <2>1 DEF Fits
  <2>3. /\ FrameHasOneOwner' /\ Mapped(p)' = Mapped(p) \union PagesOf(Text)
        /\ \A q \in Procs: q # p => page_table'[q] = page_table[q]
    BY <1>4, <2>2, TextPages, AllocMaps
  <2>4. pc' = [pc EXCEPT ![c] = "run"] /\ job' = [job EXCEPT ![c] = NoJob]
    BY <1>4 DEF Goto
  <2>5. /\ vmas'[p] = {Stack, Text} /\ pc'[c] = "run" /\ Elsewhere(c, p)
    BY <1>2, <1>4, <2>3, <2>4 DEF Control, ControlTypes, Elsewhere
  <2>6. Fits(p)'
    BY <1>2, <2>3, <2>5 DEF Fits
  <2> QED
    BY <1>1, <2>3, <2>5, <2>6, FitsFrame
<1> QED
  BY <1>3, <1>4 DEF LoadText

LEMMA ForkVmaMem ==
  ASSUME DataTypes, DataTypes', Control, \A r \in Procs: Fits(r), FrameHasOneOwner,
         NEW c \in Cpus, ForkVma(c)
  PROVE  (\A r \in Procs: Fits(r)') /\ FrameHasOneOwner'
<1>1. pc[c] = "fork"
  BY DEF ForkVma
<1> PICK q \in Procs: q = job[c].mm
  BY <1>1, JobIsOwn
<1> PICK p \in Procs: p = current_task[c]
  BY <1>1 DEF Control, ControlTypes, JobOk, ForkJob
<1>2. PICK v \in vmas[p] \ vmas[q]: ForkTakes(c, p, q, v)
  BY ForkVmaIs
<1>3. /\ Owns(c, q) /\ p # q /\ ~ Tearing(p) /\ ~ Tearing(q)
      /\ PagesOf(v) \cap Mapped(q) = {}
      /\ v = Text => Copied(p, v) = PagesOf(v)
      /\ v.lazy => v # Text
  BY <1>1, ForkIs
<1>4. ASSUME NEW S, S \subseteq Copied(p, v),
             Alloc(q, S, [w \in S |-> content[page_table[p][w]]]),
             vmas' = [vmas EXCEPT ![q] = @ \union {v}],
             \A d \in Cpus: d # c => pc'[d] = pc[d] /\ job'[d] = job[d],
             pc'[c] # "run" => job'[c].mm = q,
             v = Text => S = PagesOf(v)
      PROVE  (\A r \in Procs: Fits(r)') /\ FrameHasOneOwner'
  <2>1. S \subseteq PagesOf(v) /\ S \subseteq Pages /\ S \cap Mapped(q) = {}
    BY <1>3, <1>4 DEF Copied, Mapped
  <2>2. /\ FrameHasOneOwner' /\ Mapped(q)' = Mapped(q) \union S
        /\ \A r \in Procs: r # q => page_table'[r] = page_table[r]
    BY <1>4, <2>1, AllocMaps
  <2>3. vmas'[q] = vmas[q] \union {v} /\ Elsewhere(c, q)
    BY <1>4, <2>2 DEF Control, ControlTypes, Elsewhere
  <2>4. Fits(q)'
    BY <1>3, <1>4, <2>1, <2>2, <2>3 DEF Fits
  <2> QED
    BY <1>1, <1>4, <2>2, <2>3, <2>4, FitsFrame
<1>5. CASE /\ Alloc(q, Copied(p, v), [w \in Copied(p, v) |-> content[page_table[p][w]]])
           /\ vmas' = [vmas EXCEPT ![q] = @ \union {v}] /\ UNCHANGED <<pstate, pc, job>>
  <2>1. \A d \in Cpus: d # c => pc'[d] = pc[d] /\ job'[d] = job[d]
    BY <1>5
  <2>2. Copied(p, v) \subseteq Copied(p, v) /\ job'[c].mm = q
    BY <1>5
  <2> QED
    BY <1>3, <1>4, <1>5, <2>1, <2>2
<1>6. CASE /\ v.lazy
           /\ \E n \in Copied(p, v):
                LET S == {w \in Copied(p, v): w < n}
                IN  Alloc(q, S, [w \in S |-> content[page_table[p][w]]])
           /\ vmas' = [vmas EXCEPT ![q] = @ \union {v}]
           /\ StartExit(c, q)
  <2>1. PICK S: /\ S \subseteq Copied(p, v)
                /\ Alloc(q, S, [w \in S |-> content[page_table[p][w]]])
    <3>1. ASSUME NEW n PROVE {w \in Copied(p, v): w < n} \subseteq Copied(p, v)
      OBVIOUS
    <3> QED
      BY <1>6, <3>1
  <2>2. /\ pc' = [pc EXCEPT ![c] = "dealloc"]
        /\ job' = [job EXCEPT ![c] = [mm |-> q, from |-> 0, then |-> "exit"]]
    BY <1>6, Jobs DEF StartExit, Goto
  <2>3. job'[c].mm = q /\ \A d \in Cpus: d # c => pc'[d] = pc[d] /\ job'[d] = job[d]
    BY <2>2 DEF Control, ControlTypes
  <2> QED
    BY <1>3, <1>4, <1>6, <2>1, <2>3
<1>7. CASE StartExit(c, q) /\ UNCHANGED <<memVars, page_table, vmas>>
  BY <1>3, <1>7, StartExitMem DEF memVars
<1> QED
  BY <1>2, <1>5, <1>6, <1>7 DEF ForkTakes

LEMMA ForkDoneMem ==
  ASSUME DataTypes, Control, \A r \in Procs: Fits(r), FrameHasOneOwner,
         NEW c \in Cpus, ForkDone(c)
  PROVE  (\A r \in Procs: Fits(r)') /\ FrameHasOneOwner'
<1>1. pc[c] = "fork" /\ UNCHANGED <<vmas, page_table, allocated>>
  BY DEF ForkDone, memVars
<1> PICK q \in Procs: q = job[c].mm
  BY <1>1, JobIsOwn
<1>2. Owns(c, q) /\ job[c].then = "run"
  BY <1>1, JobIsOwn DEF Control, JobOk, ForkJob
<1>3. pc' = [pc EXCEPT ![c] = "run"] /\ job' = [job EXCEPT ![c] = NoJob]
  BY DEF ForkDone, Goto
<1>4. pc'[c] = "run" /\ Elsewhere(c, q)
  BY <1>1, <1>3 DEF Control, ControlTypes, Elsewhere
<1>5. ~ Tearing(q)
  BY <1>2 DEF Tearing, Owns
<1>6. Fits(q)' /\ FrameHasOneOwner'
  BY SMT, Z3T(30), <1>1, <1>5 DEF Fits, Mapped, FrameHasOneOwner
<1> QED
  BY <1>1, <1>4, <1>6, FitsFrame

LEMMA MemInit == Init => (\A p \in Procs: Fits(p)) /\ FrameHasOneOwner
<1> SUFFICES ASSUME Init PROVE (\A p \in Procs: Fits(p)) /\ FrameHasOneOwner
  OBVIOUS
<1> DEFINE used == PagesOf(Text) \union {UserEnd - 1}
<1>1. PICK f \in [used -> Frames]:
        /\ \A v, w \in used: f[v] = f[w] => v = w
        /\ page_table = [p \in Procs |-> [v \in Pages |->
              IF p = init_proc /\ v \in used THEN f[v] ELSE NULL]]
        /\ allocated = {f[v]: v \in used}
  BY DEF Init
<1>2. vmas = [p \in Procs |-> IF p = init_proc THEN {Text, Stack} ELSE {}]
  BY DEF Init
<1>3. /\ used \subseteq Pages /\ PagesOf(Text) \subseteq used
      /\ \A n \in used: n \in PagesOf(Text) \/ n \in PagesOf(Stack)
  BY SMT, Z3T(30), Sizes, TextPages DEF PagesOf, Stack, HeapBase, UserEnd
<1> HIDE DEF used
<1>4. \A p \in Procs, n \in Pages:
        page_table[p][n] = IF p = init_proc /\ n \in used THEN f[n] ELSE NULL
  BY <1>1
<1>5. \A n \in used: f[n] \in Frames /\ f[n] # NULL
  BY AddrSpaceAssumption DEF AddrSpaceAssumption
<1>6. init_proc \in Procs
  BY AddrSpaceAssumption DEF AddrSpaceAssumption
<1>7. ASSUME NEW p \in Procs PROVE Fits(p)
  <2>1. Mapped(p) = IF p = init_proc THEN used ELSE {}
    BY <1>3, <1>4, <1>5 DEF Mapped
  <2>2. vmas[p] = IF p = init_proc THEN {Text, Stack} ELSE {}
    BY <1>2
  <2> QED
    BY <1>3, <2>1, <2>2 DEF Fits
<1>8. OneOwner(page_table, allocated)
  <2>1. \A p \in Procs, n \in Pages: page_table[p][n] # NULL => page_table[p][n] \in allocated
    BY <1>1, <1>4
  <2>2. \A g \in allocated: \E p \in Procs, n \in Pages: page_table[p][n] = g
    BY <1>1, <1>3, <1>4, <1>6
  <2>3. ASSUME NEW p \in Procs, NEW q \in Procs, NEW m \in Pages, NEW n \in Pages,
               page_table[p][m] # NULL, page_table[p][m] = page_table[q][n]
        PROVE  p = q /\ m = n
    BY <1>1, <1>4, <2>3
  <2> QED
    BY SMT, Z3T(30), <2>1, <2>2, <2>3 DEF OneOwner
<1> QED
  BY <1>7, <1>8, OwnersNow, TypeInit

LEMMA MemStep ==
  ASSUME LeastExists, DataTypes, DataTypes', Control, \A p \in Procs: Fits(p), FrameHasOneOwner, [Next]_vars
  PROVE  (\A p \in Procs: Fits(p)') /\ FrameHasOneOwner'
<1> DEFINE Goal == (\A p \in Procs: Fits(p)') /\ FrameHasOneOwner'
<1> SUFFICES Goal
  OBVIOUS
<1>1. ASSUME NEW c \in Cpus, NEW v \in Pages, TlbFill(c, v) PROVE Goal
  BY <1>1, QuietMem DEF TlbFill, mmVars, memVars
<1>2. ASSUME NEW c \in Cpus, NEW e \in tlb[c], UserStore(c, e) PROVE Goal
  BY <1>2, QuietMem DEF UserStore, mmVars
<1>3. ASSUME NEW c \in Cpus, NEW p \in Procs \union {NULL}, TaskActivate(c, p) PROVE Goal
  BY <1>3, QuietMem DEF TaskActivate, mmVars, memVars
<1>4. ASSUME NEW c \in Cpus, NEW p \in Procs, NEW v \in Pages, TaskHandleFault(c, p, v) PROVE Goal
  BY <1>4, TaskHandleFaultMem
<1>5. ASSUME NEW c \in Cpus, NEW p \in Procs, SysExit(c, p) PROVE Goal
  <2>1. Calls(c, p) /\ StartExit(c, p) /\ UNCHANGED <<vmas, page_table, allocated>>
    BY <1>5 DEF SysExit, memVars
  <2>2. Owns(c, p) /\ pc[c] = "run"
    BY <2>1, CallerIs
  <2> QED
    BY <2>1, <2>2, StartExitMem
<1>6. ASSUME NEW c \in Cpus, NEW p \in Procs, NEW n \in 0 .. UserEnd + 1, SysBrk(c, p, n) PROVE Goal
  BY <1>6, SysBrkMem
<1>7. ASSUME NEW c \in Cpus, NEW p \in Procs, SysExecve(c, p) PROVE Goal
  BY <1>7, SysExecveMem
<1>8. ASSUME NEW c \in Cpus, NEW p \in Procs, NEW q \in Procs, SysFork(c, p, q) PROVE Goal
  BY <1>8, SysForkMem
<1>9. ASSUME NEW c \in Cpus, DeallocRound(c) PROVE Goal
  BY <1>9, DeallocRoundMem
<1>10. ASSUME NEW c \in Cpus, DeallocEnd(c) PROVE Goal
  BY <1>10, DeallocEndMem
<1>11. ASSUME NEW c \in Cpus, FreeRoot(c) PROVE Goal
  BY <1>11, FreeRootMem
<1>12. ASSUME NEW c \in Cpus, AsidClear(c) PROVE Goal
  BY <1>12, AsidClearMem
<1>13. ASSUME NEW c \in Cpus, LoadStack(c) PROVE Goal
  BY <1>13, LoadStackMem
<1>14. ASSUME NEW c \in Cpus, LoadText(c) PROVE Goal
  BY <1>14, LoadTextMem
<1>15. ASSUME NEW c \in Cpus, ForkVma(c) PROVE Goal
  BY <1>15, ForkVmaMem
<1>16. ASSUME NEW c \in Cpus, ForkDone(c) PROVE Goal
  BY <1>16, ForkDoneMem
<1>17. CASE UNCHANGED vars
  BY <1>17, QuietMem DEF vars
<1> HIDE DEF Goal
<1> QED
  BY <1>1, <1>2, <1>3, <1>4, <1>5, <1>6, <1>7, <1>8, <1>9, <1>10, <1>11, <1>12, <1>13, <1>14,
     <1>15, <1>16, <1>17
  DEF Next
=============================================================================
