------------------------------ MODULE SmpCall -------------------------------
(***************************************************************************)
(* kernel/smp.c: the boot CPU starts the others, one after the other, and  *)
(* has functions executed on all of them, with software interrupts.        *)
(***************************************************************************)
EXTENDS Naturals, Sequences

CONSTANTS
  MAX_CPUS,
  Word,      \* 2^w: unsigned integers are smaller
  Calls      \* number of on_each_cpu() calls while booting

Ids == 0 .. MAX_CPUS - 1

VARIABLES
  boot,        \* the CPU that boots
  available, online,
  stray,       \* whether the bit behind cpus_available and cpus_online is set
  boot_root,   \* secondary_boot_root: "none", "mapped" or "freed"
  mode,        \* what a secondary CPU does
  ipi,         \* CPUs with a pending software interrupt
  active,      \* CPUs with a remote call to execute
  func,        \* CPU -> the function to call
  ran,         \* CPU -> the functions that it called
  pc, cpu,     \* position of the boot CPU, and its loop variable
  call         \* the function that it has called everywhere

vars == <<boot, available, online, stray, boot_root, mode, ipi, active, func, ran, pc, cpu, call>>

(* next_cpu(), which tests one bit too many before it gives up. *)
NextCpu(c, S, exception) ==
  LET bits == S \union (IF stray THEN {MAX_CPUS} ELSE {})
      hit == {n \in (c + 1) % Word .. MAX_CPUS: n # exception /\ n \in bits}
  IN  IF hit = {} THEN MAX_CPUS + 1 ELSE CHOOSE n \in hit: \A m \in hit: n <= m

First(S) == NextCpu(Word - 1, S, boot)
Following(S) == NextCpu(cpu, S, boot)
InLoop == cpu <= MAX_CPUS - 1

BootStep(place, c) == pc' = place /\ cpu' = c

----------------------------------------------------------------------------
(* smp_init() *)

SmpInit ==
  /\ pc = "init"
  /\ \/ boot_root' = "mapped" /\ BootStep("start", First(available))
     \/ boot_root' = "freed" /\ BootStep("halt", 0)  \* no memory: the kernel stops
  /\ UNCHANGED <<boot, available, online, stray, mode, ipi, active, func, ran, call>>

(* arch_boot_cpu() starts the CPU, or is refused by the firmware. *)
BootCpu ==
  /\ pc = "start" /\ InLoop
  /\ \/ mode' = [mode EXCEPT ![cpu] = "boot_root"] /\ BootStep("wait", cpu)
     \/ BootStep("start", Following(available)) /\ UNCHANGED mode
  /\ UNCHANGED <<boot, available, online, stray, boot_root, ipi, active, func, ran, call>>

WaitOnline ==
  /\ pc = "wait" /\ cpu \in online
  /\ BootStep("start", Following(available))
  /\ UNCHANGED <<boot, available, online, stray, boot_root, mode, ipi, active, func, ran, call>>

SmpInitDone ==
  /\ pc = "start" /\ ~ InLoop
  /\ boot_root' = "freed"
  /\ BootStep("ready", 0)
  /\ UNCHANGED <<boot, available, online, stray, mode, ipi, active, func, ran, call>>

Enter(c, from, to) ==
  /\ mode[c] = from
  /\ mode' = [mode EXCEPT ![c] = to]

(* secondary_cmain(): the CPU goes to the kernel's page table, ... *)
SecondaryInit(c) ==
  /\ Enter(c, "boot_root", "kernel_root")
  /\ UNCHANGED <<boot, available, online, stray, boot_root, ipi, active, func, ran, pc, cpu, call>>

(* Mutant: the CPU is online before it has left the boot root. *)
SecondaryOnlineEarly(c) ==
  /\ mode[c] = "boot_root" /\ c \notin online
  /\ online' = online \union {c}
  /\ UNCHANGED <<boot, available, stray, boot_root, mode, ipi, active, func, ran, pc, cpu, call>>

(* ... says that it is online, and idles. *)
SecondaryOnline(c) ==
  /\ Enter(c, "kernel_root", "run")
  /\ online' = online \union {c}
  /\ UNCHANGED <<boot, available, stray, boot_root, ipi, active, func, ran, pc, cpu, call>>

----------------------------------------------------------------------------
(* on_each_cpu() *)

OnEachCpu ==
  /\ pc = "ready" /\ call < Calls
  /\ call' = call + 1
  /\ ran' = [ran EXCEPT ![boot] = Append(@, call')]
  /\ BootStep("set", First(online))
  /\ UNCHANGED <<boot, available, online, stray, boot_root, mode, ipi, active, func>>

(* A call that is not done yet is waited for; the lock is held while the     *)
(* function runs.                                                            *)
SetCall ==
  /\ pc = "set" /\ InLoop
  /\ cpu \notin active /\ mode[cpu] # "func"
  /\ func' = [func EXCEPT ![cpu] = call]
  /\ active' = active \union {cpu}
  /\ BootStep("set", Following(online))
  /\ UNCHANGED <<boot, available, online, stray, boot_root, mode, ipi, ran, call>>

(* ipi_broadcast() *)
SendIpi ==
  /\ pc = "send" /\ InLoop
  /\ ipi' = ipi \union {cpu}
  /\ BootStep("send", Following(online))
  /\ UNCHANGED <<boot, available, online, stray, boot_root, mode, active, func, ran, call>>

(* Mutant: on_each_cpu() returns at once. *)
WaitDoneNot ==
  /\ pc = "done" /\ InLoop
  /\ BootStep("done", Following(online))
  /\ UNCHANGED <<boot, available, online, stray, boot_root, mode, ipi, active, func, ran, call>>

WaitDone ==
  /\ pc = "done" /\ InLoop /\ cpu \notin active
  /\ BootStep("done", Following(online))
  /\ UNCHANGED <<boot, available, online, stray, boot_root, mode, ipi, active, func, ran, call>>

LoopEnd ==
  /\ ~ InLoop
  /\ \/ pc = "set" /\ BootStep("send", First(online))
     \/ pc = "send" /\ BootStep("done", First(online))
     \/ pc = "done" /\ BootStep("ready", 0)
  /\ UNCHANGED <<boot, available, online, stray, boot_root, mode, ipi, active, func, ran, call>>

(* sched_all(), once tasks run *)
SchedAll ==
  /\ pc = "ready" /\ call = Calls
  /\ BootStep("send", First(online))
  /\ UNCHANGED <<boot, available, online, stray, boot_root, mode, ipi, active, func, ran, call>>

----------------------------------------------------------------------------
(* The handler of the software interrupt clears it first, ... *)
Irq(c) ==
  /\ c \in ipi
  /\ Enter(c, "run", "check")
  /\ ipi' = ipi \ {c}
  /\ UNCHANGED <<boot, available, online, stray, boot_root, active, func, ran, pc, cpu, call>>

(* ... then looks for a call: check_events(), with its lock held from here   *)
(* on if there is one, ...                                                   *)
CheckEvents(c) ==
  /\ Enter(c, "check", IF c \in active THEN "func" ELSE "leave")
  /\ UNCHANGED <<boot, available, online, stray, boot_root, ipi, active, func, ran, pc, cpu, call>>

(* ... which it executes ... *)
CallFunc(c) ==
  /\ Enter(c, "func", "leave")
  /\ ran' = [ran EXCEPT ![c] = Append(@, func[c])]
  /\ active' = active \ {c}
  /\ UNCHANGED <<boot, available, online, stray, boot_root, ipi, func, pc, cpu, call>>

(* Mutant: the interrupt is cleared at the end. *)
LeaveClears(c) ==
  /\ Enter(c, "leave", "run")
  /\ ipi' = ipi \ {c}
  /\ UNCHANGED <<boot, available, online, stray, boot_root, active, func, ran, pc, cpu, call>>

(* ... before interrupts are on again. *)
Leave(c) ==
  /\ Enter(c, "leave", "run")
  /\ UNCHANGED <<boot, available, online, stray, boot_root, ipi, active, func, ran, pc, cpu, call>>

----------------------------------------------------------------------------
Init ==
  /\ boot \in Ids
  /\ available \in {S \in SUBSET Ids: boot \in S}
  /\ online = {boot}
  /\ stray \in BOOLEAN
  /\ boot_root = "none"
  /\ mode = [c \in Ids |-> "off"]
  /\ ipi = {}
  /\ active = {}
  /\ func = [c \in Ids |-> 0]
  /\ ran = [c \in Ids |-> <<>>]
  /\ pc = "init"
  /\ cpu = 0
  /\ call = 0

Next ==
  \/ SmpInit \/ BootCpu \/ WaitOnline \/ SmpInitDone
  \/ OnEachCpu \/ SetCall \/ SendIpi \/ WaitDone \/ LoopEnd \/ SchedAll
  \/ \E c \in Ids:
       \/ SecondaryInit(c) \/ SecondaryOnline(c)
       \/ Irq(c) \/ CheckEvents(c) \/ CallFunc(c) \/ Leave(c)

Spec == Init /\ [][Next]_vars

----------------------------------------------------------------------------
(* smp_init() frees the page table that CPUs start on when none of them is   *)
(* on it any more.                                                           *)
BootRootUnused == boot_root = "freed" => \A c \in Ids: mode[c] # "boot_root"

(* on_each_cpu() returns when every CPU that is online has executed the      *)
(* function, once, and each function in its turn.                            *)
RanEverywhere ==
  pc = "ready" => \A c \in online: ran[c] = [i \in 1 .. call |-> i]

(* A call is never forgotten: until a CPU has executed it the interrupt is   *)
(* still to be sent, or pending, or the CPU has yet to look.                 *)
CallIsNoticed ==
  \A c \in active:
    \/ pc = "set" \/ (pc = "send" /\ cpu <= c)
    \/ c \in ipi
    \/ mode[c] \in {"check", "func"}
=============================================================================
