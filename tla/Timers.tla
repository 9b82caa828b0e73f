------------------------------- MODULE Timers -------------------------------
(***************************************************************************)
(* Timers: the list of sleeping processes and of virtual machines with an  *)
(* armed timer (kernel/task.c), and the comparator of each CPU, which its  *)
(* tick and the list share (kernel/timer.c, arch timer.c).               *)
(*                                                                         *)
(* Time is counted in ticks of the platform timer; nanoseconds are Nsec /  *)
(* Freq of them, rounded down.  Which task a CPU runs is left open here.   *)
(***************************************************************************)
EXTENDS Naturals, Sequences, SequencesExt

CONSTANTS
  Cpus,
  Procs,      \* processes
  Vms,        \* virtual machines, which RISC-V has
  Nsec, Freq, \* nanoseconds and ticks in a second
  Mod,        \* 2^w, for integers of w bits
  Periods,    \* of the tick, in nanoseconds; 0: no tick
  Durations,  \* of sleep, in nanoseconds
  Alarms,     \* of virtual machines, in ticks
  MaxTicks    \* bound: time

Sleepers == Procs \union Vms
Never == Mod - 1
Off == Mod
None == "none"

VARIABLES
  arch, period,
  ticks,         \* the platform timer
  wall_base,
  next,          \* CPU -> expiry it waits for
  cmp,           \* CPU -> comparator, in ticks
  handle_events, \* CPU -> the list is to be walked
  ipi,           \* CPU -> software interrupt is pending
  pc,            \* CPU -> "boot"; "out": user mode or idle; "in": the kernel
  timer_list,    \* tasks, the first to expire in front
  expiration,    \* of a task in the list, otherwise 0
  state, on_cpu,
  wfe,
  pending, hvip, \* virtual machine -> timer interrupt is to be injected, is injected
  armed          \* virtual machines whose guest has set its timer

taskVars == <<timer_list, expiration, state, on_cpu, wfe>>
vmVars == <<pending, hvip, armed>>
vars == <<arch, period, ticks, wall_base, next, cmp, handle_events, ipi, pc,
          timer_list, expiration, state, on_cpu, wfe, pending, hvip, armed>>

(* arch_timer_ticks_to_time(), for arch_timer_get(); arch_timer_set() *)
ToNs(n) == ((n * Nsec) % Mod) \div Freq
ToTicks(ns) == ((ns * Freq) % Mod) \div Nsec
TimerSet(ns) == IF arch = "arm64" /\ ns = Never THEN Off ELSE ToTicks(ns)

(* timer_get_wall_ns() *)
WallOf(n) == (ToNs(n) + Mod - wall_base) % Mod
Wall == WallOf(ticks)

Goto(c, place) == pc' = [pc EXCEPT ![c] = place]

----------------------------------------------------------------------------
(* The comparator *)

(* Mutant: an expiry that is set is kept. *)
ProgramOnce(c, n) ==
  /\ next' = [next EXCEPT ![c] = n]
  /\ cmp' = [cmp EXCEPT ![c] = IF @ # Off THEN @ ELSE TimerSet((n + wall_base) % Mod)]

(* The end of timer_update() *)
Program(c, n) ==
  /\ next' = [next EXCEPT ![c] = n]
  /\ cmp' = [cmp EXCEPT ![c] = TimerSet(IF n = Never THEN Never ELSE (n + wall_base) % Mod)]

(* timer_update() for the expiration e *)
TimerUpdate(c, e) == Program(c, IF e < next[c] THEN e ELSE next[c])

(* timer_cpu_init().  Without a tick the sum wraps around to a time that     *)
(* has passed: the first interrupt comes at once, and sets it right.         *)
TimerCpuInit(c) ==
  LET n == IF period # 0 THEN period ELSE Never
  IN  /\ pc[c] = "boot"
      /\ next' = [next EXCEPT ![c] = n]
      /\ cmp' = [cmp EXCEPT ![c] = TimerSet((n + wall_base) % Mod)]
      /\ Goto(c, "out")
      /\ UNCHANGED <<arch, period, ticks, wall_base, handle_events, ipi, taskVars, vmVars>>

Booted == \A c \in Cpus: pc[c] # "boot"

(* handle_timer() *)
IrqTimer(c) ==
  /\ pc[c] = "out" /\ cmp[c] # Off /\ cmp[c] <= ticks
  /\ Program(c, IF period # 0 THEN (Wall + period) % Mod ELSE Never)
  /\ handle_events' = [handle_events EXCEPT ![c] = TRUE]
  /\ Goto(c, "in")
  /\ UNCHANGED <<arch, period, ticks, wall_base, ipi, taskVars, vmVars>>

(* The software interrupt.  That of ARM64 walks no list, and needs not to:   *)
(* only virtual machines make task_handle_events() send one.                 *)
IrqSoft(c) ==
  /\ pc[c] = "out" /\ ipi[c]
  /\ ipi' = [ipi EXCEPT ![c] = FALSE]
  /\ handle_events' = [handle_events EXCEPT ![c] = TRUE]
  /\ Goto(c, "in")
  /\ UNCHANGED <<arch, period, ticks, wall_base, next, cmp, taskVars, vmVars>>

----------------------------------------------------------------------------
(* The list *)

(* Mutant: what expires later stays in front. *)
InsertTail(l, t, e) == Append(l, t)

(* list_add_sorted(): behind those that do not expire later *)
Insert(l, t, e) ==
  LET n == Len(SelectSeq(l, LAMBDA u: expiration[u] <= e))
  IN  InsertAt(l, n + 1, t)

Unlinked(t) == SelectSeq(timer_list, LAMBDA u: u # t)

Enters(c, t) == pc[c] = "out" /\ on_cpu[t] = c /\ Booted

(* task_sleep_until() *)
SleepUntil(c, t, e) ==
  /\ expiration' = [expiration EXCEPT ![t] = e]
  /\ wfe' = [wfe EXCEPT ![t] = "TIMER"]
  /\ timer_list' = Insert(Unlinked(t), t, e)
  /\ handle_events' = [handle_events EXCEPT ![c] = TRUE]
  /\ Goto(c, "in")

(* nanosleep() *)
Nanosleep(c, t, d) ==
  /\ Enters(c, t) /\ t \in Procs
  /\ SleepUntil(c, t, (Wall + d) % Mod)
  /\ state' = [state EXCEPT ![t] = "WFE"]
  /\ UNCHANGED <<arch, period, ticks, wall_base, next, cmp, ipi, on_cpu, vmVars>>

(* handle_sbi_time(): a virtual machine arms its timer, armed or not, ... *)
VmSetTimer(c, v, at) ==
  /\ Enters(c, v) /\ v \in Vms
  /\ SleepUntil(c, v, WallOf(at))
  /\ hvip' = [hvip EXCEPT ![v] = FALSE]
  /\ armed' = armed \union {v}
  /\ UNCHANGED <<arch, period, ticks, wall_base, next, cmp, ipi, state, on_cpu, pending>>

(* ... or cancels it. *)
VmCancelTimer(c, v) ==
  /\ Enters(c, v) /\ v \in Vms
  /\ hvip' = [hvip EXCEPT ![v] = FALSE]
  /\ armed' = armed \ {v}
  /\ timer_list' = Unlinked(v)
  /\ expiration' = [expiration EXCEPT ![v] = 0]
  /\ wfe' = [wfe EXCEPT ![v] = "NONE"]
  /\ Goto(c, "in")
  /\ UNCHANGED <<arch, period, ticks, wall_base, next, cmp, handle_events, ipi,
                 state, on_cpu, pending>>

(* vmm_handle_inst(): WFI, by guests that have set a timer before.  (Others  *)
(* run into the BUG() of _task_set_wfe(), as there is nothing to wait for.)  *)
VmWfi(c, v) ==
  /\ Enters(c, v) /\ v \in armed
  /\ state' = [state EXCEPT ![v] = IF hvip[v] THEN @ ELSE "WFE"]
  /\ Goto(c, "in")
  /\ UNCHANGED <<arch, period, ticks, wall_base, next, cmp, handle_events, ipi,
                 timer_list, expiration, on_cpu, wfe, vmVars>>

(* Any other trap *)
Trap(c) ==
  /\ pc[c] = "out" /\ Booted
  /\ Goto(c, "in")
  /\ UNCHANGED <<arch, period, ticks, wall_base, next, cmp, handle_events, ipi, taskVars, vmVars>>

(* Mutant: a virtual machine that runs elsewhere is done with. *)
ElsewhereNone(c, E) == {}

(* Expired, and running on another CPU: only that one can inject. *)
Elsewhere(c, E) == {t \in E: t \in Vms /\ state[t] = "RUNNING" /\ on_cpu[t] # c}

(* Mutant: who expires a little later is woken, too. *)
ExpiredLate == {t \in ToSet(timer_list): expiration[t] <= Wall + 1}

Expired == {t \in ToSet(timer_list): expiration[t] <= Wall}

(* task_handle_events(), as prepare_user_return() calls it *)
TaskHandleEvents(c) ==
  LET E == Expired
      sent == Elsewhere(c, E)
      woken == E \ sent
      left == SelectSeq(timer_list, LAMBDA t: t \notin E)
  IN  /\ pc[c] = "in" /\ handle_events[c]
      /\ handle_events' = [handle_events EXCEPT ![c] = FALSE]
      /\ pending' = [v \in Vms |-> pending[v] \/ v \in E]
      /\ ipi' = [d \in Cpus |-> ipi[d] \/ \E v \in sent: on_cpu[v] = d]
      /\ state' = [t \in Sleepers |-> IF t \in woken /\ state[t] # "RUNNING" THEN "RUNNABLE"
                                                                      ELSE state[t]]
      /\ wfe' = [t \in Sleepers |-> IF t \in woken THEN "NONE" ELSE wfe[t]]
      /\ timer_list' = SelectSeq(timer_list, LAMBDA t: t \notin woken)
      /\ expiration' = [t \in Sleepers |-> IF t \in woken THEN 0 ELSE expiration[t]]
      /\ TimerUpdate(c, IF left = <<>> THEN Never ELSE expiration[Head(left)])
      /\ UNCHANGED <<arch, period, ticks, wall_base, pc, on_cpu, hvip, armed>>

(* schedule(), of which only this matters: who sleeps does not run, and a    *)
(* virtual machine that goes on takes its interrupt along.                   *)
Return(c, t) ==
  /\ pc[c] = "in" /\ ~ handle_events[c]
  /\ t # None => on_cpu[t] \in {None, c} /\ state[t] # "WFE"
  /\ on_cpu' = [u \in Sleepers |-> IF u = t THEN c ELSE IF on_cpu[u] = c THEN None ELSE on_cpu[u]]
  /\ state' = [u \in Sleepers |-> IF u = t THEN "RUNNING"
                               ELSE IF on_cpu[u] = c /\ state[u] = "RUNNING" THEN "RUNNABLE"
                               ELSE state[u]]
  /\ IF t \in Vms /\ pending[t]
       THEN /\ pending' = [pending EXCEPT ![t] = FALSE]
            /\ hvip' = [hvip EXCEPT ![t] = TRUE]
            /\ UNCHANGED armed
       ELSE UNCHANGED vmVars
  /\ Goto(c, "out")
  /\ UNCHANGED <<arch, period, ticks, wall_base, next, cmp, handle_events, ipi,
                 timer_list, expiration, wfe>>

Tick ==
  /\ ticks < MaxTicks
  /\ ticks' = ticks + 1
  /\ UNCHANGED <<arch, period, wall_base, next, cmp, handle_events, ipi, pc, taskVars, vmVars>>

----------------------------------------------------------------------------
(* timer_init() has read the base of the wall clock and calls on each CPU    *)
(* timer_cpu_init().                                                         *)
Init ==
  /\ arch \in {"riscv", "arm64"}
  /\ period \in Periods
  /\ ticks = 2
  /\ wall_base = ToNs(2)
  /\ next = [c \in Cpus |-> 0]
  /\ cmp = [c \in Cpus |-> Off]
  /\ handle_events = [c \in Cpus |-> FALSE]
  /\ ipi = [c \in Cpus |-> FALSE]
  /\ pc = [c \in Cpus |-> "boot"]
  /\ timer_list = <<>>
  /\ expiration = [t \in Sleepers |-> 0]
  /\ state = [t \in Sleepers |-> "RUNNABLE"]
  /\ on_cpu = [t \in Sleepers |-> None]
  /\ wfe = [t \in Sleepers |-> "NONE"]
  /\ pending = [v \in Vms |-> FALSE]
  /\ hvip = [v \in Vms |-> FALSE]
  /\ armed = {}

Runs(t) == t \in Procs \/ arch = "riscv"

Next ==
  \/ Tick
  \/ \E c \in Cpus:
       \/ TimerCpuInit(c) \/ IrqTimer(c) \/ IrqSoft(c) \/ Trap(c) \/ TaskHandleEvents(c)
       \/ \E t \in Procs, d \in Durations: Nanosleep(c, t, d)
       \/ \E v \in Vms: VmCancelTimer(c, v) \/ VmWfi(c, v)
       \/ \E v \in Vms, at \in Alarms: VmSetTimer(c, v, at)
       \/ \E t \in Sleepers \union {None}: Runs(t) /\ Return(c, t)

Spec == Init /\ [][Next]_vars

----------------------------------------------------------------------------
(* The list is sorted and holds just the tasks that wait for a timer, once   *)
(* each, all of which sleep unless they are virtual machines: the checks     *)
(* with BUG() in task_handle_events() and task_sleep_until() pass.           *)
TimersSorted ==
  /\ \A i, j \in DOMAIN timer_list: i < j =>
       /\ timer_list[i] # timer_list[j]
       /\ expiration[timer_list[i]] <= expiration[timer_list[j]]
  /\ \A t \in Sleepers: t \in ToSet(timer_list) <=> wfe[t] = "TIMER"
  /\ \A t \in Procs: wfe[t] = "TIMER" <=> state[t] = "WFE"

(* No timer is lost, with or without a tick: for each entry of the list some *)
(* CPU has its comparator set to an earlier time, or is on its way to walk   *)
(* the list (handle_timer() overwrites the expiry set for a sleeper).        *)
TimersCovered ==
  \A t \in ToSet(timer_list): \E c \in Cpus:
    \/ handle_events[c] \/ ipi[c]
    \/ cmp[c] * Nsec <= (expiration[t] + wall_base) * Freq

(* Nobody sleeps too short, although comparators are set to whole ticks,     *)
(* rounded down, and stale ones fire.                                        *)
NotEarly ==
  [][\A t \in Procs: state[t] = "WFE" /\ state'[t] # "WFE" => expiration[t] <= Wall]_vars

(* A guest that has set its timer may wait: the interrupt is injected, or    *)
(* the timer is still there (else _task_set_wfe() is a BUG()), whichever CPU *)
(* walked the list when it expired.                                          *)
VmCanWait ==
  \A v \in armed, c \in Cpus:
    pc[c] = "out" /\ on_cpu[v] = c => hvip[v] \/ wfe[v] = "TIMER"
=============================================================================
