-------------------------- MODULE AddrSpaceProofs ---------------------------
(***************************************************************************)
(* Theorems about AddrSpace for any number of CPUs, processes, frames,     *)
(* identifiers and pages.                                                  *)
(***************************************************************************)
EXTENDS AddrSpaceFrames, AddrSpaceViews, FiniteSetTheorems, WellFoundedInduction

(* The prover of the steps that name none. *)
USE ZenonT(60)

(* Of some numbers, one is the least. *)
LEMMA LeastNat == LeastExists
<1> SUFFICES ASSUME NEW T \in SUBSET Nat, T # {}
             PROVE  \E x \in T : \A y \in T : x <= y
  BY DEF LeastExists
<1> DEFINE Below(x) == {y \in T : y < x}
           Belows == {Below(x) : x \in T}
           R == StrictSubsetOrdering(Nat)
<1>1. IsWellFoundedOn(R, FiniteSubsetsOf(Nat))
  BY FS_StrictSubsetOrderingWellFounded
<1>2. ASSUME NEW x \in T
      PROVE  Below(x) \in SUBSET (0 .. x) /\ Below(x) \in SUBSET Nat /\ IsFiniteSet(0 .. x)
  <2>1. x \in Int /\ 0 \in Int
    BY SMTT(20), Z3T(40)
  <2>2. IsFiniteSet(0 .. x)
    BY <2>1, FS_Interval
  <2>3. \A y \in Below(x) : y \in Nat /\ y \in 0 .. x
    BY SMTT(20), Z3T(40), <2>1
  <2> QED BY <2>2, <2>3
<1>3. Belows \subseteq FiniteSubsetsOf(Nat)
  BY <1>2, FS_Subset DEF FiniteSubsetsOf
<1>4. \E m \in Belows : \A n \in Belows : <<n, m>> \notin R
  <2>1. Belows # {}
    OBVIOUS
  <2> HIDE DEF R, Belows
  <2> QED BY <1>1, <1>3, <2>1, WFMin
<1>5. PICK x \in T : \A n \in Belows : <<n, Below(x)>> \notin R
  BY <1>4
<1>6. ASSUME NEW y \in T, y < x PROVE FALSE
  <2>0. x \in Nat /\ y \in Nat
    OBVIOUS
  <2>1. Below(y) \in Belows /\ y \in Below(x) /\ y \notin Below(y)
    BY SMTT(20), Z3T(40), <1>6, <2>0
  <2>4. ASSUME NEW z \in Below(y) PROVE z \in Below(x)
    <3>1. z \in T /\ z < y /\ z \in Nat
      OBVIOUS
    <3> QED BY SMTT(20), Z3T(40), <1>6, <2>0, <3>1
  <2>2. Below(y) \in SUBSET Nat /\ Below(x) \in SUBSET Nat
    OBVIOUS
  <2>3. <<Below(y), Below(x)>> \in R
    BY <2>1, <2>2, <2>4 DEF StrictSubsetOrdering
  <2> QED BY <1>5, <2>1, <2>3
<1> QED BY SMTT(20), Z3T(40), <1>6

(* TypeOK is an invariant, and so is who works on what. *)
THEOREM TypeCorrect == Spec => [](TypeOK /\ Control)
<1>1. Init => Control /\ DataTypes
  BY InitControl, TypeInit
<1>2. Control /\ DataTypes /\ [Next]_vars => Control' /\ DataTypes'
  BY LeastNat, ControlStep, TypeStep
<1>3. Control /\ DataTypes => TypeOK /\ Control
  BY TypesSplit
<1> QED
  BY <1>1, <1>2, <1>3, PTL DEF Spec

(* The invariant of areas and frames is kept by everything a CPU does. *)
THEOREM MemoryInvariant == Spec => []MemInv
<1> DEFINE I == DataTypes /\ Control /\ (\A p \in Procs: Fits(p)) /\ FrameHasOneOwner
<1>1. Init => I
  BY InitControl, TypeInit, MemInit
<1>2. I /\ [Next]_vars => I'
  BY LeastNat, ControlStep, TypeStep, MemStep
<1>3. I => MemInv
  BY TypesSplit DEF MemInv
<1> QED
  BY <1>1, <1>2, <1>3, PTL DEF Spec

(* However many CPUs fork, fault, shrink heaps, load programs and exit at     *)
(* the same time, and wherever memory runs out in between, every frame in     *)
(* use is mapped at exactly one page of one process, and no free one is.      *)
THEOREM OneOwnerForever == Spec => []FrameHasOneOwner
<1>1. MemInv => FrameHasOneOwner
  BY DEF MemInv
<1> QED
  BY <1>1, MemoryInvariant, PTL

(* Areas stay disjoint and in user space although uvma_resize() looks at no   *)
(* bound, uvmas_destroy() finds all that is mapped, and the BUG() of          *)
(* uvma_handle_fault() is not reached.                                        *)
THEOREM AreasAreSound == Spec => []AreasSound
<1>1. MemInv => AreasSound
  <2> SUFFICES ASSUME MemInv PROVE AreasSound
    OBVIOUS
  <2>1. Control /\ \A p \in Procs: Fits(p)
    BY DEF MemInv
  <2>2. ASSUME NEW p \in Procs
        PROVE  /\ \A v \in vmas[p]: v \in AreaShapes /\ PagesOf(v) \subseteq Pages
               /\ \A v, w \in vmas[p]: v = w \/ PagesOf(v) \cap PagesOf(w) = {}
    <3>1. vmas[p] \subseteq AreaShapes /\ AreasOk(p)
      BY <2>1 DEF Control, ControlTypes
    <3> QED
      BY <3>1, ShapeInUserSpace, ShapesDisjoint DEF AreasOk
  <2>3. AreasCoverMappings
    BY <2>1, <2>2 DEF AreasCoverMappings, Fits
  <2>4. ASSUME NEW c \in Cpus, pc[c] = "run", NEW p \in Procs, p = current_task[c],
               NEW v \in vmas[p], ~ v.lazy
        PROVE  PagesOf(v) \subseteq Mapped(p)
    <3>1. v = Text
      BY <2>2, <2>4, ShapeInUserSpace
    <3>2. ~ Tearing(p)
      BY <2>1, <2>4, CurrentIsOwn DEF Tearing, Owns
    <3> QED
      BY <2>1, <3>1, <3>2 DEF Fits
  <2>5. SegmentsMapped
    BY <2>1, <2>4 DEF SegmentsMapped, Control, ControlTypes
  <2> QED
    BY <2>3, <2>5 DEF AreasSound, MemInv
<1> QED
  BY <1>1, MemoryInvariant, PTL

LEMMA TlbInvariant == Spec => [](MemInv /\ TlbInv)
<1>1. Init => TlbInv
  BY TlbInit
<1>2. MemInv /\ TlbInv /\ [Next]_vars => TlbInv'
  BY LeastNat, TypesSplit, TlbStep DEF MemInv
<1> QED
  BY <1>1, <1>2, MemoryInvariant, PTL DEF Spec

(* On RISC-V, where a flush is local and the others are told afterwards, and  *)
(* on ARM64, a program never uses a translation that is not in its page       *)
(* table, whatever is unmapped, forked and destroyed on other CPUs; no        *)
(* identifier is given out while it is cached; and no CPU is on a table that  *)
(* was released.                                                              *)
THEOREM TranslationsStayCurrent == Spec => []TranslationsCurrent
<1>1. MemInv /\ TlbInv => TranslationsCurrent
  <2> SUFFICES ASSUME MemInv, TlbInv PROVE TranslationsCurrent
    OBVIOUS
  <2>1. CachedIsMapped
    BY DEF TlbInv, LocalCurrent, CachedIsMapped
  <2>2. FreeAsidsClean
    BY DEF TlbInv, AsidsKept, FreeAsidsClean
  <2>3. ASSUME NEW c \in Cpus, root[c] # NULL
        PROVE  current_task[c] = root[c] /\ pstate[root[c]] \in {"ready", "dying"}
    <3>1. current_task[c] = root[c] /\ CurrentOk(c)
      BY <2>3 DEF TlbInv, RootKept, MemInv, Control
    <3> QED
      BY <2>3, <3>1 DEF CurrentOk
  <2> QED
    BY <2>1, <2>2, <2>3 DEF TranslationsCurrent, RootIsCurrent
<1> QED
  BY <1>1, TlbInvariant, PTL

(* Address spaces implement PrivateMemory: whatever is mapped lazily, cut    *)
(* off, loaded, copied by fork() or torn down on other CPUs, with frames and *)
(* identifiers going from one process to the next, what a program finds in   *)
(* its memory are zeroes, what it stored there itself, or what its parent    *)
(* had at the fork().                                                        *)
THEOREM MemoryIsPrivate == Spec => ImplementsPrivateMemory
<1> DEFINE Copied0 == \A d \in Cpus: ForkCopied(d)
<1>1. Init => Private!Init /\ Copied0
  BY ViewInit
<1>2. MemInv /\ TlbInv /\ Copied0 /\ [Next]_vars => Copied0' /\ [Private!Next]_View
  BY LeastNat, ViewStep, TypesSplit DEF MemInv, Steps, Copies
<1>3. Spec => [](MemInv /\ TlbInv)
  BY TlbInvariant
<1> QED
  BY <1>1, <1>2, <1>3, PTL DEF Spec, ImplementsPrivateMemory, Private!Spec
=============================================================================
