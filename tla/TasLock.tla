------------------------------ MODULE TasLock -------------------------------
(***************************************************************************)
(* The spinlock of RISC-V (arch/riscv/include/asm/spinlock.h), "test and   *)
(* test and set" with lr.w and sc.w, one instruction that touches the lock *)
(* per step.  A store to the lock ends every reservation.                  *)
(***************************************************************************)
EXTENDS Integers, TLAPS

CONSTANTS Cpus

VARIABLES spin,       \* spinlock_t
          reserved,   \* harts with a reservation
          pc

vars == <<spin, reserved, pc>>

Places == {"idle", "test", "lr", "sc", "critical"}

Goto(c, place) == pc' = [pc EXCEPT ![c] = place]

(* spin_init() *)
Init ==
    /\ spin = 0
    /\ reserved = {}
    /\ pc = [c \in Cpus |-> "idle"]

(* spin_lock() is called. *)
SpinLock(c) ==
    /\ pc[c] = "idle"
    /\ Goto(c, "test")
    /\ UNCHANGED <<spin, reserved>>

(* 1: lw, bnez 1b *)
LoadTest(c) ==
    /\ pc[c] = "test" /\ spin = 0
    /\ Goto(c, "lr")
    /\ UNCHANGED <<spin, reserved>>

(* 2: lr.w, bnez 1b *)
LoadReserved(c) ==
    /\ pc[c] = "lr"
    /\ reserved' = reserved \cup {c}
    /\ Goto(c, IF spin = 0 THEN "sc" ELSE "test")
    /\ UNCHANGED spin

(* Mutant: bnez after sc.w leaves the function. *)
StoreUnchecked(c) ==
    /\ pc[c] = "sc"
    /\ spin' = IF c \in reserved THEN 1 ELSE spin
    /\ reserved' = IF c \in reserved THEN {} ELSE reserved
    /\ Goto(c, "critical")

(* Mutant: sc.w is retried without another lr.w. *)
StoreRetries(c) ==
    /\ pc[c] = "sc" /\ c \in reserved
    /\ spin' = 1
    /\ reserved' = {}
    /\ Goto(c, "critical")

(* sc.w, bnez 1b *)
StoreConditional(c) ==
    /\ pc[c] = "sc"
    /\ IF c \in reserved
       THEN /\ spin' = 1
            /\ reserved' = {}
            /\ Goto(c, "critical")
       ELSE /\ Goto(c, "test")
            /\ UNCHANGED <<spin, reserved>>

(* Mutant: the lock stays taken. *)
UnlockNothing(c) ==
    /\ pc[c] = "critical"
    /\ Goto(c, "idle")
    /\ UNCHANGED <<spin, reserved>>

(* spin_unlock(): fence, sw zero *)
SpinUnlock(c) ==
    /\ pc[c] = "critical"
    /\ spin' = 0
    /\ reserved' = {}
    /\ Goto(c, "idle")

Locking(c) == LoadTest(c) \/ LoadReserved(c) \/ StoreConditional(c)

Next == \E c \in Cpus: SpinLock(c) \/ Locking(c) \/ SpinUnlock(c)

Spec == Init /\ [][Next]_vars

(* Harts execute their instructions, and no critical section is endless. *)
FairSpec == Spec /\ \A c \in Cpus: WF_vars(Locking(c)) /\ WF_vars(SpinUnlock(c))

-----------------------------------------------------------------------------
(* Types; the lock word is set exactly while someone is between            *)
(* spin_lock() and spin_unlock().                                          *)
TypeOK ==
    /\ spin \in {0, 1}
    /\ reserved \subseteq Cpus
    /\ pc \in [Cpus -> Places]
    /\ (spin = 1) <=> (\E c \in Cpus: pc[c] = "critical")

Lock == INSTANCE Mutex WITH holders <- {c \in Cpus: pc[c] = "critical"}

(* spin_lock() and spin_unlock() implement a lock: no two harts hold it,   *)
(* and it passes from one to the next only by an unlock.                   *)
ImplementsMutex == Lock!Spec

(* While someone wants the lock, it is taken again and again: a failed     *)
(* sc.w means that another hart made progress.                             *)
LockTaken ==
    (\E c \in Cpus: pc[c] \in {"test", "lr", "sc"}) ~> (\E c \in Cpus: pc[c] = "critical")

-----------------------------------------------------------------------------
(* The prover of the steps that name none. *)
USE ZenonT(60)

(***************************************************************************)
(* Proof that the lock is a mutex, for any number of harts.  A hart whose  *)
(* sc.w can succeed has seen the lock free since the last store to it.     *)
(***************************************************************************)
LockInv ==
    /\ TypeOK
    /\ \A c, d \in Cpus: pc[c] = "critical" /\ pc[d] = "critical" => c = d
    /\ \A c \in Cpus: pc[c] = "sc" /\ c \in reserved => spin = 0

(* The steps of one hart: it takes the lock, which is free, gives it back, *)
(* or does neither.                                                        *)
LEMMA StepKinds ==
  ASSUME LockInv, NEW c \in Cpus, SpinLock(c) \/ Locking(c) \/ SpinUnlock(c)
  PROVE  /\ LockInv'
         /\ \A d \in Cpus \ {c}: pc'[d] = pc[d]
         /\ \/ /\ \A d \in Cpus: pc[d] # "critical"
               /\ pc'[c] = "critical"
            \/ pc[c] = "critical" /\ pc'[c] # "critical"
            \/ pc[c] # "critical" /\ pc'[c] # "critical"
<1>0. 0 # 1
  BY SMT, Z3T(30)
<1> USE DEF LockInv, TypeOK, Places, Goto
<1>1. CASE SpinLock(c)
  BY <1>1 DEF SpinLock
<1>2. CASE LoadTest(c)
  BY <1>2 DEF LoadTest
<1>3. CASE LoadReserved(c)
  BY <1>3 DEF LoadReserved
<1>4. CASE StoreConditional(c)
  <2>1. CASE c \in reserved
    <3>1. /\ spin' = 1 /\ reserved' = {} /\ pc' = [pc EXCEPT ![c] = "critical"]
          /\ spin = 0
      BY <1>4, <2>1 DEF StoreConditional
    <3>2. \A d \in Cpus: pc[d] # "critical"
      BY <1>0, <3>1
    <3> QED
      BY <3>1, <3>2
  <2>2. CASE c \notin reserved
    BY <1>4, <2>2 DEF StoreConditional
  <2> QED
    BY <2>1, <2>2
<1>5. CASE SpinUnlock(c)
  BY <1>0, <1>5 DEF SpinUnlock
<1> QED
  BY <1>1, <1>2, <1>3, <1>4, <1>5 DEF Locking

(* No two harts are between spin_lock() and spin_unlock(), and the lock    *)
(* passes from one to the next only by an unlock, whatever the lw, lr.w,   *)
(* sc.w and sw of the harts interleave to.                                 *)
THEOREM TasLockIsMutex == Spec => ImplementsMutex
<1> DEFINE Holders == {c \in Cpus: pc[c] = "critical"}
<1>1. Init => LockInv /\ Lock!Init
  <2>1. 0 # 1
    BY SMT, Z3T(30)
  <2> QED
    BY <2>1 DEF Init, LockInv, TypeOK, Places, Lock!Init
<1>2. LockInv /\ [Next]_vars => LockInv' /\ [Lock!Next]_Holders
  <2> SUFFICES ASSUME LockInv, [Next]_vars PROVE LockInv' /\ [Lock!Next]_Holders
    OBVIOUS
  <2>1. CASE UNCHANGED vars
    BY <2>1 DEF vars, LockInv, TypeOK
  <2>2. ASSUME NEW c \in Cpus, SpinLock(c) \/ Locking(c) \/ SpinUnlock(c)
        PROVE  LockInv' /\ [Lock!Next]_Holders
    <3>1. LockInv' /\ \A d \in Cpus \ {c}: pc'[d] = pc[d]
      BY <2>2, StepKinds
    <3>2. CASE (\A d \in Cpus: pc[d] # "critical") /\ pc'[c] = "critical"
      <4>1. Holders = {} /\ Holders' = {c}
        BY <3>1, <3>2
      <4> QED
        BY <3>1, <4>1 DEF Lock!Next, Lock!Acquire
    <3>3. CASE pc[c] = "critical" /\ pc'[c] # "critical"
      <4>1. Holders # {} /\ Holders' = {}
        BY <3>1, <3>3 DEF LockInv
      <4> QED
        BY <3>1, <4>1 DEF Lock!Next, Lock!Release
    <3>4. CASE pc[c] # "critical" /\ pc'[c] # "critical"
      <4>1. Holders' = Holders
        BY <3>1, <3>4
      <4> QED
        BY <3>1, <4>1
    <3> QED
      BY <2>2, <3>2, <3>3, <3>4, StepKinds
  <2> QED
    BY <2>1, <2>2 DEF Next
<1> QED
  BY <1>1, <1>2, PTL DEF Spec, ImplementsMutex, Lock!Spec
=============================================================================
