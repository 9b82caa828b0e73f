------------------------------- MODULE Panic --------------------------------
(***************************************************************************)
(* panic() (lib/panic.c): how a CPU that finds an error stops the others,  *)
(* each of which may be in user mode, idle, printing, or waiting for a     *)
(* lock that the first one holds.  This is RISC-V, which calls             *)
(* check_panic() for every trap; arm64 calls it only in do_idle().         *)
(***************************************************************************)
EXTENDS Integers

CONSTANTS Cpus, MaxSteps    \* bound: what a CPU does in the kernel before it leaves

VARIABLES
  is_panic,
  ipi,          \* CPUs with a pending software interrupt
  holder,       \* lock -> CPU that holds it, or None
  at,           \* per CPU: where it is; "away" is user mode or idle
  back,         \* per CPU: where it goes on when it has printed
  steps         \* per CPU: what it did since it entered the kernel

vars == <<is_panic, ipi, holder, at, back, steps>>

None == "none"
Locks == {"panic_lock", "print_lock", "task_lock"}

Init ==
    /\ is_panic = FALSE /\ ipi = {}
    /\ holder = [l \in Locks |-> None]
    /\ at = [c \in Cpus |-> "away"] /\ back = [c \in Cpus |-> "away"]
    /\ steps = [c \in Cpus |-> 0]

Goto(c, from, to) == at[c] = from /\ at' = [at EXCEPT ![c] = to]
Lock(c, l) == holder[l] = None /\ holder' = [holder EXCEPT ![l] = c]
Unlock(c, l) == holder' = [holder EXCEPT ![l] = None]

(* vprintk(), _puts(): then on to next *)
Printing(c, from, next) == Goto(c, from, "print") /\ back' = [back EXCEPT ![c] = next]

PrintLock(c) ==
    /\ Goto(c, "print", "printing") /\ Lock(c, "print_lock")
    /\ UNCHANGED <<is_panic, ipi, back, steps>>

PrintUnlock(c) ==
    /\ Goto(c, "printing", back[c]) /\ Unlock(c, "print_lock")
    /\ back' = [back EXCEPT ![c] = "away"]
    /\ UNCHANGED <<is_panic, ipi, steps>>

----------------------------------------------------------------------------
(* A trap, and check_panic() at its begin.  do_idle() calls it when it wakes  *)
(* up, too.                                                                   *)
Trap(c) ==
    /\ Goto(c, "away", IF is_panic THEN "stop" ELSE "kernel")
    /\ ipi' = ipi \ {c}
    /\ UNCHANGED <<is_panic, holder, back, steps>>

TrapIpi(c) == c \in ipi /\ Trap(c)

(* Something that the kernel does: it prints or takes a lock, and prints     *)
(* while it has the lock,                                                    *)
Busy(c) ==
    /\ steps[c] < MaxSteps /\ steps' = [steps EXCEPT ![c] = @ + 1]
    /\ \/ Printing(c, "kernel", "kernel")
       \/ Printing(c, "locked", "locked")
       \/ Goto(c, "kernel", "lock") /\ UNCHANGED back
    /\ UNCHANGED <<is_panic, ipi, holder>>

(* or finds an error, with the lock or without.                              *)
Fail(c) ==
    /\ Goto(c, "kernel", "panic") \/ Goto(c, "locked", "panic")
    /\ steps' = [steps EXCEPT ![c] = 0]
    /\ UNCHANGED <<is_panic, ipi, holder, back>>

TaskLock(c) ==
    /\ Goto(c, "lock", "locked") /\ Lock(c, "task_lock")
    /\ UNCHANGED <<is_panic, ipi, back, steps>>

TaskUnlock(c) ==
    /\ Goto(c, "locked", "kernel") /\ Unlock(c, "task_lock")
    /\ UNCHANGED <<is_panic, ipi, back, steps>>

Leave(c) ==
    /\ Goto(c, "kernel", "away")
    /\ steps' = [steps EXCEPT ![c] = 0]
    /\ UNCHANGED <<is_panic, ipi, holder, back>>

----------------------------------------------------------------------------
(* Mutant: nobody is told. *)
Untold(c) == ipi

(* ipi_broadcast() *)
Broadcast(c) == ipi \cup (Cpus \ {c})

(* _panic() *)
PanicLock(c) ==
    /\ Printing(c, "panic", "panicked") /\ Lock(c, "panic_lock")
    /\ is_panic' = TRUE
    /\ ipi' = Broadcast(c)
    /\ UNCHANGED steps

PanicUnlock(c) ==
    /\ Goto(c, "panicked", "stop") /\ Unlock(c, "panic_lock")
    /\ UNCHANGED <<is_panic, ipi, back, steps>>

(* panic_stop() *)
StopLock(c) ==
    /\ Printing(c, "stop", "stopped") /\ Lock(c, "panic_lock")
    /\ UNCHANGED <<is_panic, ipi, steps>>

StopUnlock(c) ==
    /\ Goto(c, "stopped", "halted") /\ Unlock(c, "panic_lock")
    /\ UNCHANGED <<is_panic, ipi, back, steps>>

(* cpu_halt() *)
CpuHalt(c) == at[c] = "halted" /\ UNCHANGED vars

Kernel(c) ==
    \/ PrintLock(c) \/ PrintUnlock(c)
    \/ Busy(c) \/ Fail(c) \/ TaskLock(c) \/ TaskUnlock(c) \/ Leave(c)
    \/ PanicLock(c) \/ PanicUnlock(c) \/ StopLock(c) \/ StopUnlock(c)

Next == \E c \in Cpus: Trap(c) \/ Kernel(c) \/ CpuHalt(c)

(* The kernel makes progress, and pending interrupts are taken; programs may *)
(* compute, and idle CPUs sleep, for ever.                                   *)
FairSpec == Init /\ [][Next]_vars /\ \A c \in Cpus: WF_vars(Kernel(c)) /\ WF_vars(TrapIpi(c))

----------------------------------------------------------------------------
(* A CPU is stopped when it is halted, or waits for a lock of one that is.   *)
Stopped(c) ==
    \/ at[c] = "halted"
    \/ at[c] = "lock" /\ \E d \in Cpus: holder["task_lock"] = d /\ at[d] = "halted"

(* When a CPU panics, all CPUs are stopped in the end, several that panic at *)
(* once included, whatever locks the first one has: nobody waits for another *)
(* with panic_lock or print_lock for ever (_panic(), panic_stop()).          *)
PanicStops == is_panic ~> \A c \in Cpus: Stopped(c)
=============================================================================
