----------------------------- MODULE MCSpinlock -----------------------------
(***************************************************************************)
(* The spinlocks of both architectures and panic(), for TLC, one at a      *)
(* time; the locks of the others stay as spin_init() left them.            *)
(***************************************************************************)
EXTENDS TicketLock

VARIABLES part,
          spin, harts_reserved, harts_pc,
          is_panic, ipi, holder, at, back, steps

Tas == INSTANCE TasLock WITH reserved <- harts_reserved, pc <- harts_pc

Pn == INSTANCE Panic WITH MaxSteps <- 2

ticketVars == <<owner, next, lockval, reserved, event, pc>>
tasVars == <<spin, harts_reserved, harts_pc>>
panicVars == <<is_panic, ipi, holder, at, back, steps>>
allVars == <<part, ticketVars, tasVars, panicVars>>

InitLocks ==
    /\ part \in {"arm64", "riscv", "panic"}
    /\ Init
    /\ Tas!Init
    /\ Pn!Init

OnArm64 == part = "arm64" /\ UNCHANGED <<part, tasVars, panicVars>>
OnRiscv == part = "riscv" /\ UNCHANGED <<part, ticketVars, panicVars>>
OnPanic == part = "panic" /\ UNCHANGED <<part, ticketVars, tasVars>>

NextLocks ==
    \/ OnArm64 /\ Next
    \/ OnRiscv /\ Tas!Next
    \/ OnPanic /\ Pn!Next

Runs(c) ==
    \/ OnArm64 /\ Locking(c)
    \/ OnRiscv /\ Tas!Locking(c)
    \/ OnPanic /\ Pn!Kernel(c)

(* The end of a critical section, or an interrupt that is pending *)
Ends(c) ==
    \/ OnArm64 /\ SpinUnlock(c)
    \/ OnRiscv /\ Tas!SpinUnlock(c)
    \/ OnPanic /\ Pn!TrapIpi(c)

(* CPUs execute their instructions, no critical section is endless, and      *)
(* software interrupts are taken.                                            *)
SpecLocks ==
    /\ InitLocks /\ [][NextLocks]_allVars
    /\ \A c \in Cpus: WF_allVars(Runs(c)) /\ WF_allVars(Ends(c))

(* spin_lock() and spin_unlock() of RISC-V implement a lock: no two harts  *)
(* hold it, and it passes from one to the next only by an unlock.          *)
TasImplementsMutex == Tas!ImplementsMutex

(* On RISC-V, the lock is taken again and again while someone wants it: a  *)
(* failed sc.w means that another hart made progress.                      *)
TasLockTaken == Tas!LockTaken

(* When a CPU panics, all CPUs are stopped in the end, several that panic at *)
(* once included, whatever locks the first one has: nobody waits for another *)
(* with panic_lock or print_lock for ever (_panic(), panic_stop()).          *)
PanicStops == Pn!PanicStops
=============================================================================
