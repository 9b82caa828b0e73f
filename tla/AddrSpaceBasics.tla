-------------------------- MODULE AddrSpaceBasics ---------------------------
(***************************************************************************)
(* Proofs about AddrSpace for any number of CPUs, processes, frames,       *)
(* identifiers and pages, the first part: the inductive invariant, and the *)
(* facts about the operators of AddrSpace that the other parts share.      *)
(***************************************************************************)
EXTENDS AddrSpace, TLAPS

(* The prover of the steps that name none. *)
USE ZenonT(60)

(* Numbers are well-founded; AddrSpaceProofs shows it. *)
LeastExists == \A T \in SUBSET Nat: T # {} => \E x \in T: \A y \in T: x <= y

(***************************************************************************)
(* The inductive invariant.  First: who works on what.                     *)
(***************************************************************************)
(* The areas that a process can have: no heap reaches the stack. *)
Heap(n) == [base |-> HeapBase, size |-> n, lazy |-> TRUE]

AreaShapes == {Text, Stack} \union {Heap(n): n \in 1 .. HeapSize}

AreasOk(p) == \A v, w \in vmas[p]: v.base = w.base => v = w

(* Someone gives up all of the memory of p, for execve() or at its end. *)
Tearing(p) == \E c \in Cpus: pc[c] # "run" /\ job[c].mm = p /\ job[c].then # "run"

(* What brk() relies on: the stack is behind the heap, and the heap is there. *)
BrkOk(p) ==
  /\ pstate[p] \in {"none", "building"} => brk[p] = NoBrk
  /\ pstate[p] = "ready" /\ ~ Tearing(p) /\ brk[p].base # NULL =>
       /\ Stack \in vmas[p]
       /\ brk[p].vma => \E n \in 1 .. HeapSize: Heap(n) \in vmas[p]

(* A slot that is free has no memory. *)
NoneOk(p) == pstate[p] = "none" => vmas[p] = {}

(* What a CPU in the kernel works on: an end of the heap, ... *)
ShrinkJob(c) ==
  pc[c] = "dealloc" /\ job[c].then = "run" =>
    /\ job[c].mm = current_task[c] /\ pstate[job[c].mm] = "ready"
    /\ \E n \in 1 .. HeapSize:
         Heap(n) \in vmas[job[c].mm] /\ job[c].from \in HeapBase + 1 .. HeapBase + n - 1

(* ... the memory of its own process, for execve(), ... *)
ExecJob(c) ==
  pc[c] # "run" /\ job[c].then = "exec" =>
    /\ pc[c] \in {"dealloc", "load"}
    /\ job[c].mm = current_task[c] /\ pstate[job[c].mm] = "ready"
    /\ pc[c] = "load" => vmas[job[c].mm] = {Stack} /\ brk[job[c].mm] = NoBrk

(* ... all of a process at its end, also that of a child that is not ready, *)
ExitJob(c) ==
  pc[c] # "run" /\ job[c].then = "exit" =>
    /\ pc[c] \in {"dealloc", "asid"}
    /\ pstate[job[c].mm] = "dying"
    /\ pc[c] = "asid" => vmas[job[c].mm] = {}

(* ... or a child, which has some of the areas of its parent. *)
ForkJob(c) ==
  pc[c] = "fork" =>
    /\ job[c].then = "run" /\ current_task[c] # NULL
    /\ pstate[job[c].mm] = "building"
    /\ vmas[job[c].mm] \subseteq vmas[current_task[c]]

JobOk(c) ==
  /\ pc[c] # "run" => job[c].mm \in Procs /\ (job[c].then # "run" => job[c].from = 0)
  /\ pc[c] \in {"load", "asid"} => job[c].then # "run"
  /\ ShrinkJob(c) /\ ExecJob(c) /\ ExitJob(c) /\ ForkJob(c)

(* A process that is on a CPU is ready, or about to leave it for good. *)
CurrentOk(c) ==
  current_task[c] # NULL =>
    \/ pstate[current_task[c]] = "ready"
    \/ /\ pstate[current_task[c]] = "dying"
       /\ pc[c] \in {"dealloc", "asid"}
       /\ job[c].mm = current_task[c] /\ job[c].then = "exit"

(* No process runs, or is worked on, on two CPUs. *)
Apart(c, d) ==
  /\ current_task[c] # NULL => current_task[c] # current_task[d]
  /\ pc[c] # "run" => job[c].mm # current_task[d]
  /\ pc[c] # "run" /\ pc[d] # "run" => job[c].mm # job[d].mm

ControlTypes ==
  /\ pstate \in [Procs -> {"none", "building", "ready", "dying"}]
  /\ vmas \in [Procs -> SUBSET AreaShapes]
  /\ brk \in [Procs -> [base: {NULL, HeapBase}, vma: BOOLEAN]]
  /\ current_task \in [Cpus -> Procs \union {NULL}]
  /\ pc \in [Cpus -> {"run", "dealloc", "asid", "load", "fork"}]
  /\ job \in [Cpus -> [mm: Procs \union {NULL}, from: Pages, then: {"run", "exec", "exit"}]]

Control ==
  /\ ControlTypes
  /\ \A p \in Procs: AreasOk(p) /\ BrkOk(p) /\ NoneOk(p)
  /\ \A c \in Cpus: JobOk(c) /\ CurrentOk(c)
  /\ \A c, d \in Cpus: c # d => Apart(c, d)

(***************************************************************************)
(* Facts about areas and about the operators of the model.                 *)
(***************************************************************************)
(* Areas are in user space, and only the program's segment is not lazy. *)
LEMMA ShapeInUserSpace ==
  ASSUME NEW v \in AreaShapes
  PROVE  /\ v \in Vma /\ PagesOf(v) \subseteq Pages
         /\ v.base \in Nat /\ v.size \in Nat /\ v.size > 0 /\ v.base \in PagesOf(v)
         /\ ~ v.lazy <=> v = Text
<1> USE AddrSpaceAssumption DEF AddrSpaceAssumption, PagesOf, Pages, Vma, UserEnd, HeapBase
<1>1. CASE v = Text
  BY SMT, Z3T(30), <1>1 DEF Text
<1>2. CASE v = Stack
  BY SMT, Z3T(30), <1>2 DEF Stack, Text
<1>3. ASSUME NEW n \in 1 .. HeapSize, v = Heap(n)
      PROVE  /\ v \in Vma /\ PagesOf(v) \subseteq Pages
             /\ v.base \in Nat /\ v.size \in Nat /\ v.size > 0 /\ v.base \in PagesOf(v)
             /\ v.lazy /\ v # Text
  BY SMT, Z3T(30), <1>3 DEF Heap, Text
<1> QED
  BY <1>1, <1>2, <1>3 DEF AreaShapes

(* Areas at different addresses are disjoint. *)
LEMMA ShapesDisjoint ==
  ASSUME NEW v \in AreaShapes, NEW w \in AreaShapes, v.base # w.base
  PROVE  PagesOf(v) \cap PagesOf(w) = {}
  BY SMT, Z3T(30), AddrSpaceAssumption
  DEF AddrSpaceAssumption, AreaShapes, Text, Stack, Heap, PagesOf, HeapBase

(* Of some areas, one is the first. *)
LEMMA FirstShape ==
  ASSUME NEW V, V \subseteq AreaShapes, V # {}
  PROVE  \E v \in V: \A w \in V: v.base <= w.base
<1>1. CASE Text \in V
  BY SMT, Z3T(30), <1>1, ShapeInUserSpace DEF Text
<1>2. CASE Text \notin V /\ \E n \in 1 .. HeapSize: Heap(n) \in V
  BY SMT, Z3T(30), <1>2, AddrSpaceAssumption
  DEF AddrSpaceAssumption, AreaShapes, Stack, Heap, HeapBase
<1>3. CASE V = {Stack}
  BY SMT, Z3T(30), <1>3, AddrSpaceAssumption DEF AddrSpaceAssumption, Stack, HeapBase
<1> QED
  BY <1>1, <1>2, <1>3 DEF AreaShapes

(* The area at the base of the heap is the heap. *)
LEMMA HeapAt ==
  ASSUME NEW V, \A v, w \in V: v.base = w.base => v = w,
         NEW n \in 1 .. HeapSize, Heap(n) \in V
  PROVE  (CHOOSE v \in V: v.base = HeapBase) = Heap(n)
  BY DEF Heap

(* What a CPU that releases memory works on is an area of its process. *)
LEMMA AreaIs ==
  ASSUME Control, NEW c \in Cpus, Releasing(c)
  PROVE  /\ job[c].mm \in Procs
         /\ Area(c) \in vmas[job[c].mm] /\ Area(c) \in AreaShapes
         /\ Span(c) \subseteq PagesOf(Area(c))
         /\ job[c].then # "run" => Span(c) = PagesOf(Area(c))
         /\ job[c].then = "run" =>
              \E n \in 1 .. HeapSize:
                /\ Area(c) = Heap(n)
                /\ job[c].from \in HeapBase + 1 .. HeapBase + n - 1
<1> DEFINE V == vmas[job[c].mm]
<1>1. /\ job[c].mm \in Procs /\ V \subseteq AreaShapes /\ V # {}
      /\ \A v, w \in V: v.base = w.base => v = w
  BY DEF Control, ControlTypes, AreasOk, JobOk, Releasing
<1>2. CASE job[c].then = "run"
  <2>1. PICK n \in 1 .. HeapSize:
          Heap(n) \in V /\ job[c].from \in HeapBase + 1 .. HeapBase + n - 1
    BY <1>2 DEF Control, JobOk, ShrinkJob, Releasing
  <2>2. Area(c) = Heap(n)
    BY SMT, Z3T(30), <1>1, <1>2, <2>1, HeapAt DEF Area
  <2> QED
    BY <1>1, <1>2, <2>1, <2>2 DEF Span
<1>3. CASE job[c].then # "run"
  <2>1. \E v \in V: \A w \in V: v.base <= w.base
    BY <1>1, FirstShape
  <2>2. Area(c) \in V
    BY <1>3, <2>1 DEF Area
  <2>3. job[c].from = 0 /\ \A n \in PagesOf(Area(c)): n >= 0
    BY SMT, Z3T(30), <1>1, <1>3, <2>2, ShapeInUserSpace DEF Control, JobOk, Releasing, PagesOf
  <2> QED
    BY <1>1, <1>3, <2>2, <2>3 DEF Span
<1> QED
  BY <1>2, <1>3

(***************************************************************************)
(* Control is an invariant.  All actions but two change one CPU c and one  *)
(* process p, which is current or worked on nowhere else.                  *)
(***************************************************************************)
(* The CPU c is the only one that has to do with the process p. *)
Owns(c, p) ==
  \A d \in Cpus: d # c => current_task[d] # p /\ (pc[d] # "run" => job[d].mm # p)

(* The process that is current on a CPU is that CPU's own, ... *)
LEMMA CurrentIsOwn ==
  ASSUME Control, NEW c \in Cpus, NEW p \in Procs, current_task[c] = p
  PROVE  Owns(c, p)
  BY AddrSpaceAssumption DEF Control, Apart, Owns, AddrSpaceAssumption

(* ... and so is the one that it works on. *)
LEMMA JobIsOwn ==
  ASSUME Control, NEW c \in Cpus, pc[c] # "run"
  PROVE  job[c].mm \in Procs /\ Owns(c, job[c].mm)
  BY DEF Control, Apart, Owns, JobOk

(* The jobs that CPUs start with. *)
LEMMA Jobs ==
  ASSUME NEW p, NEW n
  PROVE  /\ [NoJob EXCEPT !.mm = p] = [mm |-> p, from |-> 0, then |-> "run"]
         /\ [NoJob EXCEPT !.mm = p, !.from = n] = [mm |-> p, from |-> n, then |-> "run"]
         /\ [NoJob EXCEPT !.mm = p, !.then = "exec"] = [mm |-> p, from |-> 0, then |-> "exec"]
         /\ [NoJob EXCEPT !.mm = p, !.then = "exit"] = [mm |-> p, from |-> 0, then |-> "exit"]
<1>1. /\ [NoJob EXCEPT !.mm = p] \in [mm: {p}, from: {0}, then: {"run"}]
      /\ [NoJob EXCEPT !.mm = p, !.from = n] \in [mm: {p}, from: {n}, then: {"run"}]
      /\ [NoJob EXCEPT !.mm = p, !.then = "exec"] \in [mm: {p}, from: {0}, then: {"exec"}]
      /\ [NoJob EXCEPT !.mm = p, !.then = "exit"] \in [mm: {p}, from: {0}, then: {"exit"}]
  BY DEF NoJob
<1>2. ASSUME NEW from, NEW then, NEW j \in [mm: {p}, from: {from}, then: {then}]
      PROVE  j = [mm |-> p, from |-> from, then |-> then]
  OBVIOUS
<1> QED
  BY <1>1, <1>2

LEMMA Sizes ==
  /\ TextSize \in Nat /\ TextSize > 0 /\ HeapSize \in Nat /\ StackSize \in Nat /\ StackSize > 0
  /\ UserEnd \in Nat /\ UserEnd > 0 /\ Pages \subseteq Nat /\ 0 \in Pages /\ UserEnd - 1 \in Pages
  BY SMT, Z3T(30), AddrSpaceAssumption DEF AddrSpaceAssumption, UserEnd, Pages

(* What a program that is in user mode relies on. *)
LEMMA CallerIs ==
  ASSUME Control, NEW c \in Cpus, NEW p \in Procs, Calls(c, p)
  PROVE  /\ Owns(c, p) /\ pc[c] = "run" /\ current_task[c] = p
         /\ pstate[p] = "ready" /\ ~ Tearing(p)
<1>1. pc[c] = "run" /\ current_task[c] = p /\ Owns(c, p)
  BY CurrentIsOwn DEF Calls
<1>2. pstate[p] = "ready"
  BY <1>1, AddrSpaceAssumption DEF Control, CurrentOk, AddrSpaceAssumption
<1>3. ~ Tearing(p)
  BY <1>1 DEF Tearing, Owns
<1> QED
  BY <1>1, <1>2, <1>3

(* A heap with another size. *)
LEMMA HeapResized ==
  ASSUME NEW n, NEW k
  PROVE  [Heap(n) EXCEPT !.size = k] = Heap(k)
<1>1. [Heap(n) EXCEPT !.size = k] \in [base: {HeapBase}, size: {k}, lazy: {TRUE}]
  BY DEF Heap
<1>2. ASSUME NEW v \in [base: {HeapBase}, size: {k}, lazy: {TRUE}] PROVE v = Heap(k)
  BY DEF Heap
<1> QED
  BY <1>1, <1>2

(* asid_alloc() finds an identifier that is free, or takes 0. *)
LEMMA NewAsidIs ==
  ASSUME TypeOK, LeastExists
  PROVE  NewAsid \in Asids /\ (NewAsid # 0 => NewAsid \notin asid_bitmap)
<1>1. machine.asids \in Nat \ {0}
  BY AddrSpaceAssumption DEF AddrSpaceAssumption, TypeOK
<1>2. CASE Asids \ asid_bitmap = {}
  BY SMT, Z3T(30), <1>1, <1>2 DEF NewAsid, Asids
<1>3. CASE Asids \ asid_bitmap # {}
  <2>1. \E a \in Asids \ asid_bitmap: \A b \in Asids \ asid_bitmap: a <= b
    <3> DEFINE T == Asids \ asid_bitmap
    <3>1. T \subseteq Nat /\ T # {}
      BY SMT, Z3T(30), <1>1, <1>3 DEF Asids
    <3> HIDE DEF T
    <3>2. \E a \in T: \A b \in T: a <= b
      BY <3>1 DEF LeastExists
    <3> QED
      BY <3>2 DEF T
  <2> QED
    BY <1>3, <2>1 DEF NewAsid
<1> QED
  BY <1>2, <1>3

(***************************************************************************)
(* Types of the rest.                                                      *)
(***************************************************************************)
DataTypes ==
  /\ machine \in Machines
  /\ page_table \in [Procs -> [Pages -> Frames \union {NULL}]]
  /\ asid \in [Procs -> Asids]
  /\ asid_bitmap \subseteq Asids
  /\ allocated \subseteq Frames
  /\ content \in [Frames -> Values]
  /\ root \in [Cpus -> Procs \union {NULL}]
  /\ tlb \in [Cpus -> SUBSET Translation]

LEMMA TypesSplit == Control => (TypeOK <=> DataTypes)
<1> SUFFICES ASSUME Control PROVE TypeOK <=> DataTypes
  OBVIOUS
<1>1. AreaShapes \subseteq Vma
  BY ShapeInUserSpace
<1>2. vmas \in [Procs -> SUBSET Vma]
  BY <1>1 DEF Control, ControlTypes
<1> QED
  BY <1>2 DEF Control, ControlTypes, TypeOK, DataTypes

(* What vma_alloc_range() does: the pages S of p get frames that were free, *)
(* one each, and nothing else changes, ...                                  *)
LEMMA AllocIs ==
  ASSUME DataTypes, NEW p \in Procs, NEW S, S \subseteq Pages, NEW x, Alloc(p, S, x)
  PROVE  /\ page_table' \in [Procs -> [Pages -> Frames \union {NULL}]]
         /\ \A q \in Procs: q # p => page_table'[q] = page_table[q]
         /\ \A n \in Pages: n \notin S => page_table'[p][n] = page_table[p][n]
         /\ \A n \in S: page_table'[p][n] \in Frames \ allocated
         /\ \A m, n \in S: page_table'[p][m] = page_table'[p][n] => m = n
         /\ allocated' = allocated \union {page_table'[p][n]: n \in S}
         /\ allocated' \subseteq Frames
         /\ \A g \in Frames: g \in allocated => content'[g] = content[g]
<1>1. PICK f \in [S -> Free]:
        /\ \A v, w \in S: f[v] = f[w] => v = w
        /\ allocated' = allocated \union {f[v]: v \in S}
        /\ content' = [g \in Frames |-> IF \E v \in S: f[v] = g
                                          THEN x[CHOOSE v \in S: f[v] = g] ELSE content[g]]
        /\ page_table' = [page_table EXCEPT ![p] =
                            [v \in Pages |-> IF v \in S THEN f[v] ELSE @[v]]]
  BY DEF Alloc
<1>2. \A n \in S: f[n] \in Frames \ allocated
  BY DEF Free
<1>3. /\ page_table' \in [Procs -> [Pages -> Frames \union {NULL}]]
      /\ \A q \in Procs: q # p => page_table'[q] = page_table[q]
      /\ \A n \in Pages: n \notin S => page_table'[p][n] = page_table[p][n]
      /\ \A n \in S: page_table'[p][n] = f[n]
  BY <1>1, <1>2 DEF DataTypes
<1>4. \A n \in S: page_table'[p][n] \in Frames \ allocated
  BY <1>2, <1>3
<1>5. \A m, n \in S: page_table'[p][m] = page_table'[p][n] => m = n
  BY <1>1, <1>3
<1>6. allocated' = allocated \union {page_table'[p][n]: n \in S} /\ allocated' \subseteq Frames
  <2>1. {f[v]: v \in S} = {page_table'[p][n]: n \in S}
    BY <1>3
  <2>2. {f[v]: v \in S} \subseteq Frames
    BY <1>2
  <2> QED
    BY <1>1, <2>1, <2>2 DEF DataTypes
<1>7. \A g \in Frames: (\A v \in S: f[v] # g) => content'[g] = content[g]
  BY <1>1
<1>8. \A g \in Frames: g \in allocated => content'[g] = content[g]
  BY <1>2, <1>7
<1> QED
  BY <1>3, <1>4, <1>5, <1>6, <1>8

LEMMA TextPages == PagesOf(Text) \subseteq Pages /\ PagesOf(Stack) \subseteq Pages
  BY ShapeInUserSpace DEF AreaShapes

(* What uvma_duplicate() takes. *)
ForkTakes(c, p, q, v) ==
  \/ /\ Alloc(q, Copied(p, v), [w \in Copied(p, v) |-> content[page_table[p][w]]])
     /\ vmas' = [vmas EXCEPT ![q] = @ \union {v}]
     /\ UNCHANGED <<pstate, pc, job>>
  \/ /\ v.lazy
     /\ \E n \in Copied(p, v):
          LET S == {w \in Copied(p, v): w < n}
          IN  Alloc(q, S, [w \in S |-> content[page_table[p][w]]])
     /\ vmas' = [vmas EXCEPT ![q] = @ \union {v}]
     /\ StartExit(c, q)
  \/ StartExit(c, q) /\ UNCHANGED <<memVars, page_table, vmas>>

LEMMA ForkVmaIs ==
  ASSUME NEW c \in Cpus, ForkVma(c)
  PROVE  \E v \in vmas[current_task[c]] \ vmas[job[c].mm]:
           ForkTakes(c, current_task[c], job[c].mm, v)
  BY DEF ForkVma, ForkTakes

(* What is mapped is in an area, and a segment is mapped as a whole until    *)
(* the process gives up its memory.                                          *)
Fits(p) ==
  /\ \A n \in Mapped(p): \E v \in vmas[p]: n \in PagesOf(v)
  /\ ~ Tearing(p) /\ Text \in vmas[p] => PagesOf(Text) \subseteq Mapped(p)

MemInv == TypeOK /\ Control /\ (\A p \in Procs: Fits(p)) /\ FrameHasOneOwner

(* FrameHasOneOwner, frame by frame. *)
OneOwner(table, used) ==
  /\ \A p \in Procs, n \in Pages: table[p][n] # NULL => table[p][n] \in used
  /\ \A f \in used: \E p \in Procs, n \in Pages: table[p][n] = f
  /\ \A p, q \in Procs, m, n \in Pages:
       table[p][m] # NULL /\ table[p][m] = table[q][n] => p = q /\ m = n

LEMMA OwnersSplit ==
  ASSUME NEW table, NEW used, used \subseteq Frames
  PROVE  (/\ used = {table[p][v]: p \in Procs, v \in Pages} \ {NULL}
          /\ \A p, q \in Procs: \A v \in {n \in Pages: table[p][n] # NULL},
                                   w \in {n \in Pages: table[q][n] # NULL}:
                table[p][v] = table[q][w] => p = q /\ v = w)
         <=> OneOwner(table, used)
<1>1. NULL \notin used
  BY AddrSpaceAssumption DEF AddrSpaceAssumption
<1>2. (used = {table[p][v]: p \in Procs, v \in Pages} \ {NULL}) <=>
      /\ \A p \in Procs, n \in Pages: table[p][n] # NULL => table[p][n] \in used
      /\ \A f \in used: \E p \in Procs, n \in Pages: table[p][n] = f
  BY SMT, Z3T(30), <1>1
<1>3. (\A p, q \in Procs: \A v \in {n \in Pages: table[p][n] # NULL},
                              w \in {n \in Pages: table[q][n] # NULL}:
         table[p][v] = table[q][w] => p = q /\ v = w) <=>
      (\A p, q \in Procs, m, n \in Pages:
         table[p][m] # NULL /\ table[p][m] = table[q][n] => p = q /\ m = n)
  BY SMT, Z3T(30)
<1> QED
  BY SMT, Z3T(30), <1>2, <1>3 DEF OneOwner

LEMMA OwnersNow == DataTypes => (FrameHasOneOwner <=> OneOwner(page_table, allocated))
<1> SUFFICES ASSUME DataTypes PROVE FrameHasOneOwner <=> OneOwner(page_table, allocated)
  OBVIOUS
<1>1. allocated \subseteq Frames
  BY DEF DataTypes
<1>2. (/\ allocated = {page_table[p][v]: p \in Procs, v \in Pages} \ {NULL}
       /\ \A p, q \in Procs: \A v \in {n \in Pages: page_table[p][n] # NULL},
                                w \in {n \in Pages: page_table[q][n] # NULL}:
             page_table[p][v] = page_table[q][w] => p = q /\ v = w)
      <=> OneOwner(page_table, allocated)
  BY SMT, Z3T(30), <1>1, OwnersSplit
<1> QED
  BY SMT, Z3T(30), <1>2 DEF FrameHasOneOwner, Mapped

(* An action of c on p leaves the memory of the others alone. *)
Elsewhere(c, p) ==
  /\ \A d \in Cpus: d # c => pc'[d] = pc[d] /\ job'[d] = job[d]
  /\ \A q \in Procs: q # p => vmas'[q] = vmas[q] /\ page_table'[q] = page_table[q]

(* The first page of a lazy area, or all of another one. *)
LEMMA RoundIs ==
  ASSUME LeastExists, DataTypes, Control, NEW c \in Cpus, NEW p \in Procs, p = job[c].mm, DeallocRound(c)
  PROVE  \E S:
           /\ S \subseteq Span(c) \cap Mapped(p)
           /\ page_table' = [page_table EXCEPT ![p] =
                               [v \in Pages |-> IF v \in S THEN NULL ELSE @[v]]]
           /\ tlb' = MapTlb(c, p, S)
           /\ allocated' = allocated \ {page_table[p][v]: v \in S}
<1> DEFINE left == Span(c) \cap Mapped(p)
           S == IF Area(c).lazy THEN {CHOOSE v \in left: \A w \in left: v <= w} ELSE left
<1>1. left # {} /\ left \subseteq Nat
  BY Sizes DEF DeallocRound, Mapped
<1>2. S \subseteq left
  <2> HIDE DEF left
  <2>1. \E v \in left: \A w \in left: v <= w
    BY <1>1 DEF LeastExists
  <2>2. (CHOOSE v \in left: \A w \in left: v <= w) \in left
    BY <2>1
  <2> QED
    BY <2>2
<1>3. /\ page_table' = [page_table EXCEPT ![p] =
                          [v \in Pages |-> IF v \in S THEN NULL ELSE @[v]]]
      /\ tlb' = MapTlb(c, p, S)
      /\ allocated' = allocated \ {page_table[p][v]: v \in S}
  BY DEF DeallocRound
<1> QED
  <2> HIDE DEF S
  <2> QED
    BY <1>2, <1>3

(* Without areas nothing is mapped. *)
LEMMA NoAreas ==
  ASSUME NEW p \in Procs, Fits(p), vmas[p] = {}
  PROVE  Mapped(p) = {}
  BY DEF Fits

LEMMA FreeRootIs ==
  ASSUME DataTypes, Control, \A q \in Procs: Fits(q), NEW c \in Cpus, NEW p \in Procs,
         p = job[c].mm, FreeRoot(c)
  PROVE  page_table' = page_table /\ Mapped(p) = {}
<1>1. vmas[p] = {}
  BY DEF FreeRoot
<1>2. Mapped(p) = {}
  BY <1>1, NoAreas
<1>3. page_table[p] = EmptyTable
  <2>1. page_table[p] \in [Pages -> Frames \union {NULL}] /\ \A n \in Pages: page_table[p][n] = NULL
    BY <1>2 DEF Mapped, DataTypes
  <2> QED
    BY <2>1 DEF EmptyTable
<1> QED
  BY <1>2, <1>3 DEF FreeRoot, DataTypes

(* The pages of an area that is not copied yet are free in the child, and    *)
(* nobody gives up the memory of the parent meanwhile.                       *)
LEMMA ForkIs ==
  ASSUME Control, \A r \in Procs: Fits(r), NEW c \in Cpus, pc[c] = "fork",
         NEW p \in Procs, p = current_task[c], NEW q \in Procs, q = job[c].mm,
         NEW v \in vmas[p] \ vmas[q]
  PROVE  /\ Owns(c, q) /\ p # q /\ ~ Tearing(p) /\ ~ Tearing(q)
         /\ PagesOf(v) \cap Mapped(q) = {}
         /\ v = Text => Copied(p, v) = PagesOf(v)
         /\ v.lazy => v # Text
<1>1. Owns(c, q) /\ Owns(c, p)
  BY JobIsOwn, CurrentIsOwn
<1>2. vmas[q] \subseteq vmas[p] /\ vmas[p] \subseteq AreaShapes /\ job[c].then = "run"
      /\ AreasOk(p) /\ pstate[q] = "building"
  BY DEF Control, ControlTypes, JobOk, ForkJob
<1>3. ~ Tearing(p) /\ ~ Tearing(q)
  BY <1>1, <1>2 DEF Tearing, Owns
<1>4. ASSUME NEW n \in PagesOf(v), n \in Mapped(q) PROVE FALSE
  <2>1. PICK w \in vmas[q]: n \in PagesOf(w)
    BY <1>4 DEF Fits
  <2>2. w.base # v.base
    BY <1>2 DEF AreasOk
  <2> QED
    BY <1>2, <1>4, <2>1, <2>2, ShapesDisjoint
<1>5. p # q
  BY <1>2, AddrSpaceAssumption DEF Control, CurrentOk, AddrSpaceAssumption
<1>6. v = Text => Copied(p, v) = PagesOf(v)
  BY <1>3 DEF Fits, Copied
<1>7. v.lazy => v # Text
  BY SMT, Z3T(30) DEF Text
<1> QED
  BY <1>1, <1>3, <1>4, <1>5, <1>6, <1>7

(* The table that a CPU walks is that of its process, until it is released. *)
RootKept(c) ==
  root[c] # NULL =>
    root[c] = current_task[c] /\ ~ (pc[c] = "asid" /\ job[c].mm = current_task[c])

AsidsKept ==
  /\ 0 \in asid_bitmap
  /\ \A p \in Procs: asid[p] \in asid_bitmap
  /\ \A c \in Cpus: \A e \in tlb[c]: e.asid \in asid_bitmap
  /\ \A p, q \in Procs: p # q /\ asid[p] = asid[q] => asid[p] = 0

(* The CPU on which a process is has nothing else under its identifier. *)
LocalCurrent(c) ==
  current_task[c] # NULL =>
    \A e \in tlb[c]: e.asid = asid[current_task[c]] =>
      page_table[current_task[c]][e.page] = e.frame

(* Nobody has anything under the identifier of a child that never ran, or    *)
(* of a process whose identifier is about to be free.                        *)
Unseen(p) ==
  \/ pstate[p] = "building"
  \/ \E c \in Cpus: pc[c] = "asid" /\ job[c].mm = p
  \/ \E c \in Cpus: pc[c] = "dealloc" /\ job[c].mm = p /\ current_task[c] # p

UnseenNotCached(p) ==
  Unseen(p) /\ asid[p] # 0 => \A d \in Cpus: \A e \in tlb[d]: e.asid # asid[p]

(* Other CPUs have what is mapped, or what is about to be flushed there. *)
Pending(p, d, e) ==
  /\ arch = "riscv"
  /\ \E c \in Cpus: c # d /\ Releasing(c) /\ job[c].mm = p /\ e.page \in Span(c)

RemoteCurrent(p, d) ==
  asid[p] # 0 /\ current_task[d] # p =>
    \A e \in tlb[d]: e.asid = asid[p] => page_table[p][e.page] = e.frame \/ Pending(p, d, e)

TlbInv ==
  /\ AsidsKept
  /\ \A c \in Cpus: RootKept(c) /\ LocalCurrent(c)
  /\ \A p \in Procs: UnseenNotCached(p)
  /\ \A p \in Procs, d \in Cpus: RemoteCurrent(p, d)

LEMMA CachedTypes ==
  ASSUME DataTypes, NEW d \in Cpus, NEW e \in tlb[d]
  PROVE  e.asid \in Asids /\ e.page \in Pages /\ e.frame \in Frames /\ e.frame # NULL
  BY SMT, Z3T(30), AddrSpaceAssumption DEF AddrSpaceAssumption, DataTypes, Translation

LEMMA ExitIs ==
  ASSUME Control, NEW c \in Cpus, NEW p \in Procs, StartExit(c, p)
  PROVE  /\ pc'[c] = "dealloc" /\ job'[c].mm = p
         /\ \A d \in Cpus: d # c => pc'[d] = pc[d] /\ job'[d] = job[d]
         /\ \A r \in Procs: pstate'[r] = "building" => pstate[r] = "building"
<1>1. /\ pc' = [pc EXCEPT ![c] = "dealloc"]
      /\ job' = [job EXCEPT ![c] = [mm |-> p, from |-> 0, then |-> "exit"]]
      /\ pstate' = [pstate EXCEPT ![p] = "dying"]
  BY Jobs DEF StartExit, Goto
<1> QED
  BY <1>1 DEF Control, ControlTypes
=============================================================================
