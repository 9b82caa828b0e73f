----------------------------- MODULE AddrSpace -----------------------------
(***************************************************************************)
(* Address spaces of processes: areas (mm/vma.c), identifiers (mm/asid.c), *)
(* faults, brk(), execve(), fork() and exit (kernel/process.c, task.c),    *)
(* and the translations that the TLB of each CPU keeps of them.  A page    *)
(* table is taken as the map from pages to frames that it represents.      *)
(***************************************************************************)
EXTENDS Naturals, FiniteSets

CONSTANTS
  Cpus,       \* CPUs
  Procs,      \* slots for processes
  init_proc,  \* the process that runs at the start
  Frames,     \* page frames for user memory
  Machines,   \* records: arch ("riscv" or "arm64") and number of identifiers
  TextSize,   \* pages of a program's segment
  HeapSize,   \* pages between the segment and the stack
  StackSize,  \* pages of the stack area
  TlbSize,    \* bound: entries of a TLB
  Writers,    \* bound: processes that store
  MaxDirty,   \* bound: frames with data before the next store
  NULL

ASSUME AddrSpaceAssumption ==
  /\ init_proc \in Procs
  /\ TextSize \in Nat \ {0} /\ HeapSize \in Nat /\ StackSize \in Nat \ {0}
  /\ Machines \subseteq [arch: {"riscv", "arm64"}, asids: Nat \ {0}]
  /\ Writers \subseteq Procs
  /\ NULL \notin Procs \union Frames \union Nat

UserEnd == TextSize + HeapSize + StackSize
Pages == 0 .. UserEnd - 1
HeapBase == TextSize

(* What a page holds: zeroes or what was loaded into it, or data that a     *)
(* process stored.                                                          *)
Values == {0} \union Procs

VARIABLES
  machine,
  pstate,       \* "none", "building" in fork(), "ready", or "dying"
  page_table,   \* page -> frame or NULL
  vmas,         \* set of areas
  brk,          \* base of the heap and whether it has an area
  asid,
  asid_bitmap,
  allocated,    \* frames in use
  content,      \* frame -> value
  current_task, \* CPU -> process or NULL
  root,         \* CPU -> process whose page table is walked, or NULL
  tlb,          \* CPU -> set of cached translations
  pc, job       \* position of a CPU in the kernel, its local variables

arch == machine.arch
Asids == 0 .. machine.asids - 1

vars == <<machine, pstate, page_table, vmas, brk, asid, asid_bitmap,
          allocated, content, current_task, root, tlb, pc, job>>
mmVars == <<pstate, page_table, vmas, brk, asid, asid_bitmap>>
memVars == <<allocated, content>>
cpuVars == <<current_task, root>>

Vma == [base: Pages, size: 1 .. UserEnd, lazy: BOOLEAN]
Translation == [asid: Asids, page: Pages, frame: Frames]
NoJob == [mm |-> NULL, from |-> 0, then |-> "run"]

PagesOf(v) == v.base .. v.base + v.size - 1
Text == [base |-> 0, size |-> TextSize, lazy |-> FALSE]
Stack == [base |-> HeapBase + HeapSize, size |-> StackSize, lazy |-> TRUE]
EmptyTable == [v \in Pages |-> NULL]
NoBrk == [base |-> NULL, vma |-> FALSE]
Mapped(p) == {v \in Pages: page_table[p][v] # NULL}
Free == Frames \ allocated

----------------------------------------------------------------------------
(* TLB maintenance *)

Flush(c, Dead(_)) == {e \in tlb[c]: ~ Dead(e)}

(* local_flush_tlb_page() names the CPU that executes it; on ARM64 the      *)
(* instruction reaches every CPU.                                           *)
FlushPages(c, S) ==
  [d \in Cpus |-> IF d = c \/ arch = "arm64"
                    THEN Flush(d, LAMBDA e: e.page \in S) ELSE tlb[d]]

(* Mutant: the other CPUs are not told. *)
FlushOthersNone(c, a, S) == tlb

(* flush_tlb_others_asid(): nothing to do on ARM64. *)
FlushOthers(c, a, S) ==
  [d \in Cpus |-> IF d # c /\ arch = "riscv"
                    THEN Flush(d, LAMBDA e: e.asid = a /\ e.page \in S) ELSE tlb[d]]

(* flush_tlb_asid() *)
FlushAsid(a) == [d \in Cpus |-> Flush(d, LAMBDA e: e.asid = a)]

(* The hardware walks the table of the live root, whenever it likes, and    *)
(* may forget an older translation for the new one.                         *)
TlbFill(c, v) ==
  LET p == root[c]
      e == [asid |-> asid[p], page |-> v, frame |-> page_table[p][v]]
  IN  /\ p # NULL
      /\ page_table[p][v] # NULL
      /\ \A f \in tlb[c]: f.asid # e.asid \/ f.page # e.page
      /\ \E kept \in SUBSET tlb[c]:
            /\ Cardinality(kept) < TlbSize
            /\ Cardinality(tlb[c]) < TlbSize => kept = tlb[c]
            /\ tlb' = [tlb EXCEPT ![c] = kept \union {e}]
      /\ UNCHANGED <<machine, mmVars, memVars, cpuVars, pc, job>>

(* A program stores through a cached translation. *)
UserStore(c, e) ==
  /\ pc[c] = "run" /\ current_task[c] \in Writers
  /\ e.asid = asid[current_task[c]]
  /\ Cardinality({f \in Frames: content[f] # 0}) < MaxDirty
  /\ content' = [content EXCEPT ![e.frame] = current_task[c]]
  /\ UNCHANGED <<machine, mmVars, allocated, cpuVars, tlb, pc, job>>

----------------------------------------------------------------------------
(* Scheduling *)

(* arch_process_activate(): a process without an identifier of its own      *)
(* drops what its predecessors left.                                        *)
ActivateTlb(c, p) ==
  IF asid[p] # 0 THEN tlb
  ELSE [tlb EXCEPT ![c] = Flush(c, LAMBDA e: arch = "riscv" \/ e.asid = 0)]

(* task_activate() for another process, or for none: the root goes back to  *)
(* the kernel's.                                                          *)
TaskActivate(c, p) ==
  /\ pc[c] = "run" /\ p # current_task[c]
  /\ IF p = NULL
       THEN UNCHANGED tlb
       ELSE /\ pstate[p] = "ready"
            /\ \A d \in Cpus: current_task[d] # p
            /\ tlb' = ActivateTlb(c, p)
  /\ current_task' = [current_task EXCEPT ![c] = p]
  /\ root' = [root EXCEPT ![c] = p]
  /\ UNCHANGED <<machine, mmVars, memVars, pc, job>>

(* The process p enters the kernel on CPU c. *)
Calls(c, p) == pc[c] = "run" /\ p # NULL /\ current_task[c] = p

----------------------------------------------------------------------------
(* Allocation *)

(* Mutant: the frames are not cleared. *)
AllocStale(p, S, x) ==
  \E f \in [S -> Free]:
    /\ \A v, w \in S: f[v] = f[w] => v = w
    /\ allocated' = allocated \union {f[v]: v \in S}
    /\ UNCHANGED content
    /\ page_table' = [page_table EXCEPT ![p] =
                        [v \in Pages |-> IF v \in S THEN f[v] ELSE @[v]]]

(* vma_alloc_range() of the pages S for process p, which then hold x.  Any    *)
(* free frames do.                                                            *)
Alloc(p, S, x) ==
  \E f \in [S -> Free]:
    /\ \A v, w \in S: f[v] = f[w] => v = w
    /\ allocated' = allocated \union {f[v]: v \in S}
    /\ content' = [g \in Frames |-> IF \E v \in S: f[v] = g
                                      THEN x[CHOOSE v \in S: f[v] = g] ELSE content[g]]
    /\ page_table' = [page_table EXCEPT ![p] =
                        [v \in Pages |-> IF v \in S THEN f[v] ELSE @[v]]]

(* umemset() *)
Zero(S) == [v \in S |-> 0]

Enough(S) == Cardinality(S) <= Cardinality(Free)

(* Mutant: the first page of an area is not looked at. *)
CollidesLate(p, S) == \E v \in vmas[p]: (PagesOf(v) \ {v.base}) \cap S # {}

(* __uvma_at() *)
Collides(p, S) == \E v \in vmas[p]: PagesOf(v) \cap S # {}

(* map_range() flushes the new page on this CPU if the table is live. *)
MapTlb(c, p, S) == IF current_task[c] = p THEN FlushPages(c, S) ELSE tlb

Goto(c, label, j) ==
  /\ pc' = [pc EXCEPT ![c] = label]
  /\ job' = [job EXCEPT ![c] = j]

(* task_exit() from whatever the process p was doing on CPU c; the end of   *)
(* init is a BUG().                                                         *)
StartExit(c, p) ==
  /\ p # init_proc
  /\ pstate' = [pstate EXCEPT ![p] = "dying"]
  /\ Goto(c, "dealloc", [NoJob EXCEPT !.mm = p, !.then = "exit"])

(* task_handle_fault(): a page of a lazy area gets a frame; outside of any  *)
(* area, or without memory for the page or its tables, the process ends.    *)
TaskHandleFault(c, p, v) ==
  /\ Calls(c, p)
  /\ page_table[p][v] = NULL
  /\ \A e \in tlb[c]: e.asid # asid[p] \/ e.page # v
  /\ \/ /\ Collides(p, {v}) /\ Enough({v})
        /\ Alloc(p, {v}, Zero({v}))
        /\ tlb' = MapTlb(c, p, {v})
        /\ UNCHANGED <<pstate, pc, job>>
     \/ /\ StartExit(c, p)
        /\ UNCHANGED <<page_table, memVars, tlb>>
  /\ UNCHANGED <<machine, vmas, brk, asid, asid_bitmap, cpuVars>>

SysExit(c, p) ==
  /\ Calls(c, p)
  /\ StartExit(c, p)
  /\ UNCHANGED <<machine, page_table, vmas, brk, asid, asid_bitmap,
                 memVars, cpuVars, tlb>>

----------------------------------------------------------------------------
(* Release *)

(* The range that uvma_dealloc_range() works on: the end of the heap that    *)
(* brk() cuts off, or the next area of uvmas_destroy().                      *)
Area(c) ==
  LET V == vmas[job[c].mm]
  IN  CHOOSE v \in V: IF job[c].then = "run" THEN v.base = HeapBase
                     ELSE \A w \in V: v.base <= w.base
Span(c) == {v \in PagesOf(Area(c)): v >= job[c].from}

Releasing(c) == pc[c] = "dealloc" /\ vmas[job[c].mm] # {}

(* Mutant: the frames are not freed. *)
DeallocRoundLeak(c) ==
  LET p == job[c].mm
      left == Span(c) \cap Mapped(p)
  IN  /\ Releasing(c) /\ left # {}
      /\ page_table' = [page_table EXCEPT ![p] =
                          [v \in Pages |-> IF v \in left THEN NULL ELSE @[v]]]
      /\ tlb' = MapTlb(c, p, left)
      /\ UNCHANGED <<machine, pstate, vmas, brk, asid, asid_bitmap, memVars,
                     cpuVars, pc, job>>

(* One round of its loop: the first mapped page of a lazy area, or all of    *)
(* another area, is unmapped, flushed and freed.                             *)
DeallocRound(c) ==
  LET p == job[c].mm
      left == Span(c) \cap Mapped(p)
      S == IF Area(c).lazy THEN {CHOOSE v \in left: \A w \in left: v <= w} ELSE left
  IN  /\ Releasing(c) /\ left # {}
      /\ page_table' = [page_table EXCEPT ![p] =
                          [v \in Pages |-> IF v \in S THEN NULL ELSE @[v]]]
      /\ tlb' = MapTlb(c, p, S)
      /\ allocated' = allocated \ {page_table[p][v]: v \in S}
      /\ UNCHANGED <<machine, pstate, vmas, brk, asid, asid_bitmap, content,
                     cpuVars, pc, job>>

(* Its end, and that of uvma_resize() or uvma_destroy(): the translations on *)
(* the other CPUs go, then the area shrinks or goes.                         *)
DeallocEnd(c) ==
  LET j == job[c]
      p == j.mm
      area == Area(c)
      short == [area EXCEPT !.size = j.from - area.base]
  IN  /\ Releasing(c) /\ Span(c) \cap Mapped(p) = {}
      /\ tlb' = FlushOthers(c, asid[p], Span(c))
      /\ IF j.then = "run"
           THEN /\ vmas' = [vmas EXCEPT ![p] = (@ \ {area}) \union {short}]
                /\ Goto(c, "run", NoJob)
           ELSE /\ vmas' = [vmas EXCEPT ![p] = @ \ {area}]
                /\ UNCHANGED <<pc, job>>
      /\ UNCHANGED <<machine, pstate, page_table, brk, asid, asid_bitmap,
                     memVars, cpuVars>>

(* Mutant: the CPU stays on the root. *)
FreeRootLive(c) ==
  LET p == job[c].mm
  IN  /\ pc[c] = "dealloc" /\ vmas[p] = {} /\ job[c].then # "exec"
      /\ page_table' = [page_table EXCEPT ![p] = EmptyTable]
      /\ tlb' = IF asid[p] = 0 THEN tlb ELSE FlushAsid(asid[p])
      /\ Goto(c, "asid", job[c])
      /\ UNCHANGED <<machine, pstate, vmas, brk, asid, asid_bitmap, memVars,
                     cpuVars>>

(* process_destroy(): the root is released, and is left before if it is     *)
(* live on this CPU; asid_free() scrubs every CPU ...                       *)
FreeRoot(c) ==
  LET p == job[c].mm
  IN  /\ pc[c] = "dealloc" /\ vmas[p] = {} /\ job[c].then # "exec"
      /\ root' = [root EXCEPT ![c] = IF current_task[c] = p THEN NULL ELSE @]
      /\ page_table' = [page_table EXCEPT ![p] = EmptyTable]
      /\ tlb' = IF asid[p] = 0 THEN tlb ELSE FlushAsid(asid[p])
      /\ Goto(c, "asid", job[c])
      /\ UNCHANGED <<machine, pstate, vmas, brk, asid, asid_bitmap, memVars,
                     current_task>>

(* ... before the identifier is free again; then task_exit() gives up the   *)
(* CPU and the task.                                                        *)
AsidClear(c) ==
  LET p == job[c].mm
  IN  /\ pc[c] = "asid"
      /\ asid_bitmap' = asid_bitmap \ ({asid[p]} \ {0})
      /\ pstate' = [pstate EXCEPT ![p] = "none"]
      /\ asid' = [asid EXCEPT ![p] = 0]
      /\ brk' = [brk EXCEPT ![p] = NoBrk]
      /\ current_task' = [current_task EXCEPT ![c] = IF @ = p THEN NULL ELSE @]
      /\ Goto(c, "run", NoJob)
      /\ UNCHANGED <<machine, page_table, vmas, memVars, root, tlb>>

----------------------------------------------------------------------------
(* brk() and execve() *)

(* The new end of the heap is the page n.  (An end that is on no page        *)
(* boundary returns with task->lock held: the caller never runs again.)      *)
SysBrk(c, p, n) ==
  LET heap == CHOOSE v \in vmas[p]: v.base = HeapBase
      size == n - HeapBase
      grown(from) == from .. n - 1
      area == [base |-> HeapBase, size |-> size, lazy |-> TRUE]
  IN  /\ Calls(c, p)
      /\ brk[p].base # NULL /\ n > HeapBase
      /\ \/ /\ ~ brk[p].vma
            /\ n <= UserEnd /\ ~ Collides(p, grown(HeapBase))
            /\ vmas' = [vmas EXCEPT ![p] = @ \union {area}]
            /\ brk' = [brk EXCEPT ![p].vma = TRUE]
            /\ UNCHANGED <<pc, job>>
         \/ /\ brk[p].vma /\ size > heap.size
            /\ ~ Collides(p, grown(HeapBase + heap.size))
            /\ vmas' = [vmas EXCEPT ![p] = (@ \ {heap}) \union {area}]
            /\ UNCHANGED <<brk, pc, job>>
         \/ /\ brk[p].vma /\ size < heap.size
            /\ Goto(c, "dealloc", [NoJob EXCEPT !.mm = p, !.from = n])
            /\ UNCHANGED <<vmas, brk>>
      /\ UNCHANGED <<machine, pstate, page_table, asid, asid_bitmap, memVars,
                     cpuVars, tlb>>

SysExecve(c, p) ==
  /\ Calls(c, p)
  /\ Goto(c, "dealloc", [NoJob EXCEPT !.mm = p, !.then = "exec"])
  /\ UNCHANGED <<machine, mmVars, memVars, cpuVars, tlb>>

(* process_load_elf(): the stack area, whose first page takes the           *)
(* arguments, or task_exit() if there is no file or no memory.              *)
LoadStack(c) ==
  LET p == job[c].mm
      top == UserEnd - 1
  IN  /\ pc[c] = "dealloc" /\ vmas[p] = {} /\ job[c].then = "exec"
      /\ brk' = [brk EXCEPT ![p] = NoBrk]
      /\ \/ /\ StartExit(c, p)
            /\ UNCHANGED <<page_table, vmas, memVars, tlb>>
         \/ /\ Enough({top})
            /\ vmas' = [vmas EXCEPT ![p] = {Stack}]
            /\ Alloc(p, {top}, Zero({top}))
            /\ tlb' = MapTlb(c, p, {top})
            /\ Goto(c, "load", job[c])
            /\ UNCHANGED pstate
      /\ UNCHANGED <<machine, asid, asid_bitmap, cpuVars>>

(* The segment, which is not lazy, or task_exit(). *)
LoadText(c) ==
  LET p == job[c].mm
  IN  /\ pc[c] = "load"
      /\ \/ /\ Enough(PagesOf(Text))
            /\ Alloc(p, PagesOf(Text), Zero(PagesOf(Text)))
            /\ vmas' = [vmas EXCEPT ![p] = @ \union {Text}]
            /\ brk' = [brk EXCEPT ![p].base = HeapBase]
            /\ tlb' = MapTlb(c, p, PagesOf(Text))
            /\ Goto(c, "run", NoJob)
            /\ UNCHANGED pstate
         \/ /\ StartExit(c, p)
            /\ UNCHANGED <<page_table, vmas, brk, memVars, tlb>>
      /\ UNCHANGED <<machine, asid, asid_bitmap, cpuVars>>

----------------------------------------------------------------------------
(* fork() *)

(* Mutant: the search of a full bitmap ends behind it. *)
NewAsidFull ==
  LET unused == Asids \ asid_bitmap
  IN  IF unused = {} THEN machine.asids ELSE CHOOSE a \in unused: \A b \in unused: a <= b

(* asid_alloc(): the lowest free identifier, or the shared one. *)
NewAsid ==
  LET unused == Asids \ asid_bitmap
  IN  IF unused = {} THEN 0 ELSE CHOOSE a \in unused: \A b \in unused: a <= b

(* process_alloc_new(); RISC-V flushes the CPU in arch_mm_init(). *)
SysFork(c, p, q) ==
  /\ Calls(c, p) /\ pstate[q] = "none"
  /\ pstate' = [pstate EXCEPT ![q] = "building"]
  /\ asid' = [asid EXCEPT ![q] = NewAsid]
  /\ asid_bitmap' = asid_bitmap \union {NewAsid}
  /\ tlb' = IF arch = "riscv" THEN [tlb EXCEPT ![c] = {}] ELSE tlb
  /\ Goto(c, "fork", [NoJob EXCEPT !.mm = q])
  /\ UNCHANGED <<machine, page_table, vmas, brk, memVars, cpuVars>>

(* Mutant: the first page of an area is skipped. *)
CopiedLate(p, v) == (PagesOf(v) \ {v.base}) \cap Mapped(p)

(* The pages that uvma_duplicate() finds in the parent. *)
Copied(p, v) == PagesOf(v) \cap Mapped(p)

(* uvma_duplicate(): the next area with a copy of its pages, or, when        *)
(* memory runs out, with its first pages or without any.                     *)
ForkVma(c) ==
  LET p == current_task[c]
      q == job[c].mm
  IN  /\ pc[c] = "fork"
      /\ \E v \in vmas[p] \ vmas[q]:
           LET used == Copied(p, v)
               Take(S) == /\ Enough(S)
                          /\ Alloc(q, S, [w \in S |-> content[page_table[p][w]]])
           IN  /\ \A w \in vmas[p] \ vmas[q]: v.base <= w.base
               /\ \/ /\ Take(used)
                     /\ vmas' = [vmas EXCEPT ![q] = @ \union {v}]
                     /\ UNCHANGED <<pstate, pc, job>>
                  \/ /\ v.lazy
                     /\ \E n \in used: Take({w \in used: w < n})
                     /\ vmas' = [vmas EXCEPT ![q] = @ \union {v}]
                     /\ StartExit(c, q)
                  \/ /\ StartExit(c, q)
                     /\ UNCHANGED <<memVars, page_table, vmas>>
      /\ UNCHANGED <<machine, brk, asid, asid_bitmap, cpuVars, tlb>>

(* The child becomes runnable.  Its brk is not copied. *)
ForkDone(c) ==
  LET q == job[c].mm
  IN  /\ pc[c] = "fork"
      /\ vmas[current_task[c]] = vmas[q]
      /\ pstate' = [pstate EXCEPT ![q] = "ready"]
      /\ Goto(c, "run", NoJob)
      /\ UNCHANGED <<machine, page_table, vmas, brk, asid, asid_bitmap,
                     memVars, cpuVars, tlb>>

----------------------------------------------------------------------------
(* PID 1 has been loaded and runs on no CPU yet. *)
Init ==
  /\ machine \in Machines
  /\ pstate = [p \in Procs |-> IF p = init_proc THEN "ready" ELSE "none"]
  /\ LET used == PagesOf(Text) \union {UserEnd - 1} IN
     \E f \in [used -> Frames]:
       /\ \A v, w \in used: f[v] = f[w] => v = w
       /\ page_table = [p \in Procs |-> [v \in Pages |->
             IF p = init_proc /\ v \in used THEN f[v] ELSE NULL]]
       /\ allocated = {f[v]: v \in used}
  /\ content = [g \in Frames |-> 0]
  /\ vmas = [p \in Procs |-> IF p = init_proc THEN {Text, Stack} ELSE {}]
  /\ brk = [p \in Procs |-> [NoBrk EXCEPT !.base = IF p = init_proc THEN HeapBase ELSE NULL]]
  /\ asid = [p \in Procs |-> IF p = init_proc /\ 1 \in Asids THEN 1 ELSE 0]
  /\ asid_bitmap = {0} \union {asid[init_proc]}
  /\ current_task = [c \in Cpus |-> NULL]
  /\ root = [c \in Cpus |-> NULL]
  /\ tlb = [c \in Cpus |-> {}]
  /\ pc = [c \in Cpus |-> "run"]
  /\ job = [c \in Cpus |-> NoJob]

Next ==
  \E c \in Cpus:
    \/ \E v \in Pages: TlbFill(c, v)
    \/ \E e \in tlb[c]: UserStore(c, e)
    \/ \E p \in Procs \union {NULL}: TaskActivate(c, p)
    \/ \E p \in Procs, v \in Pages: TaskHandleFault(c, p, v)
    \/ \E p \in Procs: SysExit(c, p)
    \/ \E p \in Procs, n \in 0 .. UserEnd + 1: SysBrk(c, p, n)
    \/ \E p \in Procs: SysExecve(c, p)
    \/ \E p, q \in Procs: SysFork(c, p, q)
    \/ DeallocRound(c)
    \/ DeallocEnd(c)
    \/ FreeRoot(c)
    \/ AsidClear(c)
    \/ LoadStack(c)
    \/ LoadText(c)
    \/ ForkVma(c)
    \/ ForkDone(c)

Spec == Init /\ [][Next]_vars

----------------------------------------------------------------------------
(* Types; a process has at most one area at an address. *)
TypeOK ==
  /\ machine \in Machines
  /\ pstate \in [Procs -> {"none", "building", "ready", "dying"}]
  /\ page_table \in [Procs -> [Pages -> Frames \union {NULL}]]
  /\ vmas \in [Procs -> SUBSET Vma]
  /\ brk \in [Procs -> [base: {NULL, HeapBase}, vma: BOOLEAN]]
  /\ asid \in [Procs -> Asids]
  /\ asid_bitmap \subseteq Asids
  /\ allocated \subseteq Frames
  /\ content \in [Frames -> Values]
  /\ current_task \in [Cpus -> Procs \union {NULL}]
  /\ root \in [Cpus -> Procs \union {NULL}]
  /\ tlb \in [Cpus -> SUBSET Translation]
  /\ pc \in [Cpus -> {"run", "dealloc", "asid", "load", "fork"}]
  /\ job \in [Cpus -> [mm: Procs \union {NULL}, from: Pages, then: {"run", "exec", "exit"}]]

(* What a running program reaches through the TLB of its CPU is what its   *)
(* page table says now, wherever it ran before and whoever had its         *)
(* identifier before (the flushes of vma.c:103, asid.c:85 and of           *)
(* arch_process_activate()).                                               *)
CachedIsMapped ==
  \A c \in Cpus: LET p == current_task[c] IN
    pc[c] = "run" /\ p # NULL =>
      \A e \in tlb[c]: e.asid = asid[p] => page_table[p][e.page] = e.frame

(* An identifier that asid_alloc() may hand out is cached nowhere, and no   *)
(* two processes share one other than 0 (asid.c:80).                        *)
FreeAsidsClean ==
  /\ \A c \in Cpus: \A e \in tlb[c]: e.asid \in asid_bitmap
  /\ \A p, q \in Procs: p # q /\ asid[p] = asid[q] => asid[p] = 0

(* A CPU walks the page table of the process that is current on it, or the  *)
(* kernel's: no root is released while a CPU is on it (process.c:294).      *)
RootIsCurrent ==
  \A c \in Cpus: root[c] # NULL =>
    current_task[c] = root[c] /\ pstate[root[c]] \in {"ready", "dying"}

(* Whatever is mapped, unmapped, forked and destroyed on other CPUs, a      *)
(* program never uses a translation that is not in its page table, no       *)
(* identifier is given to a second process while it is cached anywhere, and *)
(* no CPU walks a table that was released.                                  *)
TranslationsCurrent == CachedIsMapped /\ FreeAsidsClean /\ RootIsCurrent

(* Every frame in use is mapped in one place: failed forks, failed execs,   *)
(* shrinking heaps and exits lose no frame and free none twice, and no      *)
(* process maps a frame of another or one that is free.                     *)
FrameHasOneOwner ==
  /\ allocated = {page_table[p][v]: p \in Procs, v \in Pages} \ {NULL}
  /\ \A p, q \in Procs: \A v \in Mapped(p), w \in Mapped(q):
        page_table[p][v] = page_table[q][w] => p = q /\ v = w

(* Areas are disjoint and end where user space ends, although uvma_resize() *)
(* does not look at the end; and what is mapped is in an area, so that      *)
(* uvmas_destroy() finds it.                                                *)
AreasCoverMappings ==
  \A p \in Procs:
    /\ \A v \in vmas[p]: PagesOf(v) \subseteq Pages
    /\ \A v, w \in vmas[p]: v = w \/ PagesOf(v) \cap PagesOf(w) = {}
    /\ \A n \in Mapped(p): \E v \in vmas[p]: n \in PagesOf(v)

(* The BUG() of uvma_handle_fault() is not reached: a running program can   *)
(* only miss pages of lazy areas.                                           *)
SegmentsMapped ==
  \A c \in Cpus: LET p == current_task[c] IN
    pc[c] = "run" /\ p # NULL =>
      \A v \in vmas[p]: ~ v.lazy => PagesOf(v) \subseteq Mapped(p)

(* Areas are disjoint and end where user space ends, although uvma_resize() *)
(* does not look at the end; what is mapped is in an area, so that          *)
(* uvmas_destroy() finds it; and a running program can only miss pages of   *)
(* lazy areas: the BUG() of uvma_handle_fault() is not reached.             *)
AreasSound == TypeOK /\ AreasCoverMappings /\ SegmentsMapped

----------------------------------------------------------------------------
(* What a program sees of its memory. *)
View ==
  [p \in Procs |-> [v \in Pages |->
     IF pstate[p] # "ready" \/ \A a \in vmas[p]: v \notin PagesOf(a) THEN NULL
     ELSE IF page_table[p][v] = NULL THEN 0
     ELSE content[page_table[p][v]]]]

Private == INSTANCE PrivateMemory WITH memory <- View

(* Processes have memory of their own: it starts zeroed or loaded, changes   *)
(* by the stores of its process only, and is copied by fork().               *)
ImplementsPrivateMemory == Private!Spec
=============================================================================
